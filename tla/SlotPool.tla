------------------------------ MODULE SlotPool ------------------------------
(***************************************************************************)
(* What a concurrency limit promises, with no counter and no callbacks: a  *)
(* set of holders, a line of those who wait, and a capacity.  Whoever       *)
(* arrives joins the end of the line; whenever somebody arrives, leaves or  *)
(* the capacity changes, the front of the line is let in as far as there    *)
(* is room, and nobody else is.  AsyncQueue implements this.                *)
(***************************************************************************)
EXTENDS Integers, Sequences, FiniteSets

CONSTANTS Clients, Capacities

VARIABLES holders, line, capacity

poolVars == <<holders, line, capacity>>

PoolInit == holders = {} /\ line = <<>> /\ capacity \in Capacities

\* Let in as many of line l as fit beside the holders h, from the front.
LetIn(h, l, c) ==
    \E n \in 0..Len(l) :
        /\ n > 0 => Cardinality(h) + n <= c
        /\ n < Len(l) => Cardinality(h) + n >= c
        /\ holders' = h \cup {l[i] : i \in 1..n}
        /\ line' = SubSeq(l, n + 1, Len(l))
        /\ capacity' = c

Arrive(t) ==
    /\ t \notin holders
    /\ \A i \in 1..Len(line) : line[i] # t
    /\ LetIn(holders, Append(line, t), capacity)

Leave(t) ==
    /\ t \in holders
    /\ LetIn(holders \ {t}, line, capacity)

Resize(c) == LetIn(holders, line, c)

PoolNext ==
    \/ \E t \in Clients : Arrive(t) \/ Leave(t)
    \/ \E c \in Capacities : Resize(c)

PoolSpec == PoolInit /\ [][PoolNext]_poolVars
=============================================================================
