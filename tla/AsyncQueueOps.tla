--------------------------- MODULE AsyncQueueOps ---------------------------
(***************************************************************************)
(* The pure part of utils/asyncQueue.ts: what each method of AsyncQueue     *)
(* does to the three fields of one queue object, as operators on a record   *)
(*                                                                         *)
(*   [limit |-> _concurrency, active |-> activeCount, waiting |-> queue]   *)
(*                                                                         *)
(* JavaScript runs the code between two awaits without interruption, so a  *)
(* method call and the processQueue() it ends with are one step; that is    *)
(* why every operator below already contains the drain.  The modules that   *)
(* own queues (AsyncQueue, GatewaySlots, SessionQueue) are built from these.*)
(***************************************************************************)
EXTENDS Integers, Sequences

NewQueue(limit) == [limit |-> limit, active |-> 0, waiting |-> <<>>]

HasRoom(q) == q.active < q.limit

\* How many queued closures the loop of processQueue() shifts and runs.
NumStarted(q) ==
    IF ~HasRoom(q) THEN 0
    ELSE IF q.limit - q.active < Len(q.waiting) THEN q.limit - q.active
                                                ELSE Len(q.waiting)

\* The tasks that loop starts ...
Started(q) == {q.waiting[i] : i \in 1..NumStarted(q)}

\* ... and the queue it leaves behind.
Drained(q) ==
    [limit |-> q.limit,
     active |-> q.active + NumStarted(q),
     waiting |-> SubSeq(q.waiting, NumStarted(q) + 1, Len(q.waiting))]

AddedInFront(q, t) ==
    IF HasRoom(q) THEN [q EXCEPT !.active = @ + 1]
                  ELSE [q EXCEPT !.waiting = <<t>> \o @]

\* add(task): run it at once when a slot is free, else queue it.
Added(q, t) ==
    IF HasRoom(q) THEN [q EXCEPT !.active = @ + 1]
                  ELSE [q EXCEPT !.waiting = Append(@, t)]

\* activeCount-- as its two callers do it, before their processQueue().
Freed(q) == [q EXCEPT !.active = @ - 1]

\* The setter of concurrency, before its processQueue().
Resized(q, n) == [q EXCEPT !.limit = n]
=============================================================================
