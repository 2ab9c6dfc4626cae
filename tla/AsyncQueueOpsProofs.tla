------------------------ MODULE AsyncQueueOpsProofs ------------------------
(***************************************************************************)
(* What the methods of AsyncQueue do to a queue whose counter and line are   *)
(* in step with the tasks outside it, whoever these tasks are: the lemmas    *)
(* that the proofs about the modules owning queues rest on.                  *)
(***************************************************************************)
EXTENDS AsyncQueueOps, FiniteSetTheorems, WellFoundedInduction, TLAPS

\* The tasks W wait in q, each once; the tasks O take up its slots, and activeCount counts them.
Accounts(q, W, O) ==
    /\ q \in [limit : Int, active : Int, waiting : Seq(W)]
    /\ \A i, j \in 1..Len(q.waiting) : q.waiting[i] = q.waiting[j] => i = j
    /\ \A t \in W : \E i \in 1..Len(q.waiting) : q.waiting[i] = t
    /\ O \cap W = {}
    /\ IsFiniteSet(O) /\ q.active = Cardinality(O)

\* Nobody waits beside a free slot.
Served(q) == q.waiting # <<>> => ~HasRoom(q)

LEMMA AccountsFields ==
  ASSUME NEW q, NEW W, NEW O, Accounts(q, W, O)
  PROVE  /\ q.limit \in Int /\ q.active \in Nat
         /\ q.waiting \in Seq(W) /\ Len(q.waiting) \in Nat
         /\ q = [limit |-> q.limit, active |-> q.active, waiting |-> q.waiting]
  BY FS_CardinalityType DEF Accounts

LEMMA StartedCount ==
  ASSUME NEW q, NEW W, NEW O, Accounts(q, W, O)
  PROVE  /\ NumStarted(q) \in 0..Len(q.waiting)
         /\ NumStarted(q) > 0 => q.active + NumStarted(q) <= q.limit
         /\ NumStarted(q) < Len(q.waiting) => q.active + NumStarted(q) >= q.limit
         /\ Started(q) \subseteq W
         /\ IsFiniteSet(Started(q)) /\ Cardinality(Started(q)) = NumStarted(q)
<1> DEFINE n == NumStarted(q)
           w == q.waiting
<1>1. q.limit \in Int /\ q.active \in Nat /\ w \in Seq(W) /\ Len(w) \in Nat
  BY AccountsFields
<1>2. /\ n \in 0..Len(w)
      /\ n > 0 => q.active + n <= q.limit
      /\ n < Len(w) => q.active + n >= q.limit
  BY <1>1 DEF NumStarted, HasRoom
<1>3. Started(q) = {w[i] : i \in 1..n}
  BY DEF Started
<1>4. Started(q) \subseteq W
  BY <1>1, <1>2, <1>3
<1>5. IsFiniteSet(Started(q)) /\ Cardinality(Started(q)) = n
  <2> DEFINE f == [i \in 1..n |-> w[i]]
  <2>1. \A i, j \in 1..n : f[i] = f[j] => i = j
    <3>1. 1..n \subseteq 1..Len(w)
      BY <1>1, <1>2
    <3>2. \A i, j \in 1..Len(w) : w[i] = w[j] => i = j
      BY DEF Accounts
    <3> QED
      BY <3>1, <3>2
  <2>2. f \in [1..n -> Started(q)] /\ \A t \in Started(q) : \E i \in 1..n : f[i] = t
    BY <1>3
  <2>3. f \in Bijection(1..n, Started(q))
    BY <2>1, <2>2 DEF Bijection, Injection, Surjection, IsInjective
  <2>4. IsFiniteSet(1..n) /\ Cardinality(1..n) = n
    BY <1>2, FS_Interval
  <2> QED
    BY <2>3, <2>4, FS_Bijection DEF ExistsBijection
<1> QED
  BY <1>2, <1>4, <1>5

\* processQueue(): the tasks it starts move from the line to the slots.
LEMMA DrainAccounts ==
  ASSUME NEW q, NEW W, NEW O, Accounts(q, W, O)
  PROVE  /\ Accounts(Drained(q), W \ Started(q), O \cup Started(q))
         /\ Served(Drained(q))
         /\ Drained(q).limit = q.limit
         /\ Started(q) \subseteq W
<1> DEFINE n == NumStarted(q)
           w == q.waiting
           S == Started(q)
           v == SubSeq(w, n + 1, Len(w))
<1>1. q.limit \in Int /\ q.active \in Nat /\ w \in Seq(W) /\ Len(w) \in Nat
  BY AccountsFields
<1>2. /\ n \in 0..Len(w)
      /\ n < Len(w) => q.active + n >= q.limit
      /\ S \subseteq W /\ IsFiniteSet(S) /\ Cardinality(S) = n
  BY StartedCount
<1>3. S = {w[i] : i \in 1..n}
  BY DEF Started
<1>4. /\ v \in Seq(W) /\ Len(v) = Len(w) - n
      /\ \A i \in 1..Len(v) : i + n \in 1..Len(w) /\ v[i] = w[i + n]
  BY <1>1, <1>2
<1>5. \A i, j \in 1..Len(w) : w[i] = w[j] => i = j
  BY DEF Accounts
<1>6. \A i, j \in 1..Len(v) : v[i] = v[j] => i = j
  <2>1. SUFFICES ASSUME NEW i \in 1..Len(v), NEW j \in 1..Len(v), v[i] = v[j]
                 PROVE  i = j
    OBVIOUS
  <2>2. i + n = j + n
    BY <2>1, <1>4, <1>5
  <2> QED
    BY <2>2, <1>2, <1>4
<1>7. ASSUME NEW i \in 1..Len(v) PROVE v[i] \in W \ S
  <2>1. v[i] = w[i + n] /\ i + n \in 1..Len(w) /\ v[i] \in W
    BY <1>1, <1>4
  <2>2. SUFFICES ASSUME NEW j \in 1..n, v[i] = w[j] PROVE FALSE
    BY <2>1, <1>3
  <2>3. i + n = j
    BY <2>1, <2>2, <1>2, <1>5
  <2> QED
    BY <2>3, <1>2, <1>4
<1>8. v \in Seq(W \ S)
  <2>1. Len(v) \in Nat /\ v = [i \in 1..Len(v) |-> v[i]]
    BY <1>4
  <2> HIDE DEF v, S
  <2> QED
    BY <2>1, <1>7
<1>9. ASSUME NEW t \in W \ S PROVE \E i \in 1..Len(v) : v[i] = t
  <2>1. PICK k \in 1..Len(w) : w[k] = t
    BY DEF Accounts
  <2>2. k > n
    BY <2>1, <1>2, <1>3
  <2>3. k - n \in 1..Len(v) /\ (k - n) + n = k
    BY <2>2, <1>1, <1>2, <1>4
  <2> QED
    BY <2>1, <2>3, <1>4
<1>10. IsFiniteSet(O \cup S) /\ Cardinality(O \cup S) = q.active + n
  <2>1. IsFiniteSet(O) /\ q.active = Cardinality(O) /\ O \cap W = {}
    BY DEF Accounts
  <2>2. O \cap S = {}
    BY <2>1, <1>2
  <2>3. Cardinality(O \cap S) = 0
    BY <2>2, FS_EmptySet
  <2>4. Cardinality(O \cup S) = Cardinality(O) + Cardinality(S) - Cardinality(O \cap S)
    BY <2>1, <1>2, FS_Union
  <2>5. IsFiniteSet(O \cup S)
    BY <2>1, <1>2, FS_Union
  <2> HIDE DEF S, n
  <2> QED
    BY <2>1, <2>3, <2>4, <2>5, <1>1, <1>2
<1>11. /\ Drained(q).limit = q.limit
       /\ Drained(q).active = q.active + n
       /\ Drained(q).waiting = v
       /\ Drained(q) \in [limit : Int, active : Int, waiting : Seq(W \ S)]
  <2>1. Drained(q) = [limit |-> q.limit, active |-> q.active + n, waiting |-> v]
    BY DEF Drained
  <2> HIDE DEF v, n, S
  <2> QED
    BY <2>1, <1>1, <1>2, <1>8
<1>12. Served(Drained(q))
  <2>1. SUFFICES ASSUME v # <<>> PROVE ~(q.active + n < q.limit)
    BY <1>11 DEF Served, HasRoom
  <2>2. Len(v) # 0
    BY <2>1, <1>4
  <2> QED
    BY <2>2, <1>1, <1>2, <1>4
<1>13. (O \cup S) \cap (W \ S) = {}
  BY DEF Accounts
<1> HIDE DEF v, n, S
<1> QED
  BY <1>2, <1>6, <1>9, <1>10, <1>11, <1>12, <1>13 DEF Accounts, S

\* add(): the task takes a slot at once or goes to the end of the line.
LEMMA AddAccounts ==
  ASSUME NEW q, NEW W, NEW O, Accounts(q, W, O), Served(q), NEW t, t \notin W, t \notin O
  PROVE  /\ HasRoom(q) => Accounts(Added(q, t), W, O \cup {t})
         /\ ~HasRoom(q) => Accounts(Added(q, t), W \cup {t}, O)
         /\ Served(Added(q, t))
         /\ Added(q, t).limit = q.limit
<1> DEFINE w == q.waiting
           l == Append(w, t)
<1>1. /\ q.limit \in Int /\ q.active \in Nat /\ w \in Seq(W) /\ Len(w) \in Nat
      /\ q = [limit |-> q.limit, active |-> q.active, waiting |-> w]
  BY AccountsFields
<1>2. CASE HasRoom(q)
  <2>1. Added(q, t) = [limit |-> q.limit, active |-> q.active + 1, waiting |-> w]
    BY <1>1, <1>2 DEF Added
  <2>2. w = <<>>
    BY <1>2 DEF Served
  <2>3. IsFiniteSet(O \cup {t}) /\ Cardinality(O \cup {t}) = q.active + 1
    BY FS_AddElement DEF Accounts
  <2>4. (O \cup {t}) \cap W = {}
    BY DEF Accounts
  <2>5. /\ Added(q, t).waiting = w
        /\ Added(q, t).limit = q.limit
        /\ Added(q, t).active = q.active + 1
        /\ Added(q, t) \in [limit : Int, active : Int, waiting : Seq(W)]
    BY <2>1, <1>1
  <2>6. Accounts(Added(q, t), W, O \cup {t})
    BY <2>3, <2>4, <2>5 DEF Accounts
  <2> QED
    BY <1>2, <2>2, <2>5, <2>6 DEF Served
<1>3. CASE ~HasRoom(q)
  <2>1. Added(q, t) = [limit |-> q.limit, active |-> q.active, waiting |-> l]
    BY <1>1, <1>3 DEF Added
  <2>2. /\ l \in Seq(W \cup {t}) /\ Len(l) = Len(w) + 1
        /\ \A i \in 1..Len(w) : l[i] = w[i]
        /\ l[Len(w) + 1] = t
    <3>1. w \in Seq(W \cup {t}) /\ t \in W \cup {t}
      BY <1>1
    <3> QED
      BY <3>1, <1>1
  <2>3. /\ Added(q, t).waiting = l
        /\ Added(q, t).limit = q.limit
        /\ Added(q, t).active = q.active
        /\ Added(q, t) \in [limit : Int, active : Int, waiting : Seq(W \cup {t})]
    <3> HIDE DEF l
    <3> QED
      BY <2>1, <2>2, <1>1
  <2>4. \A i \in 1..Len(w) : w[i] # t
    BY <1>1
  <2>5. 1..Len(l) = (1..Len(w)) \cup {Len(w) + 1} /\ Len(w) + 1 \notin 1..Len(w)
    BY <1>1, <2>2
  <2>6. \A i, j \in 1..Len(l) : l[i] = l[j] => i = j
    <3> HIDE DEF l
    <3> QED
      BY <2>2, <2>4, <2>5 DEF Accounts
  <2>7. \A x \in W \cup {t} : \E i \in 1..Len(l) : l[i] = x
    <3> HIDE DEF l
    <3> QED
      BY <2>2, <2>5 DEF Accounts
  <2>8. O \cap (W \cup {t}) = {} /\ IsFiniteSet(O) /\ q.active = Cardinality(O)
    BY DEF Accounts
  <2>9. Accounts(Added(q, t), W \cup {t}, O)
    <3> HIDE DEF l
    <3> QED
      BY <2>3, <2>6, <2>7, <2>8 DEF Accounts
  <2>10. ~HasRoom(Added(q, t))
    BY <1>3, <2>3 DEF HasRoom
  <2> QED
    BY <1>3, <2>3, <2>9, <2>10 DEF Served
<1> QED
  BY <1>2, <1>3

\* activeCount--, for a task that gives its slot up
LEMMA FreeAccounts ==
  ASSUME NEW q, NEW W, NEW O, Accounts(q, W, O), NEW t \in O
  PROVE  Accounts(Freed(q), W, O \ {t}) /\ Freed(q).limit = q.limit
<1>1. /\ q.limit \in Int /\ q.active \in Nat /\ q.waiting \in Seq(W)
      /\ q = [limit |-> q.limit, active |-> q.active, waiting |-> q.waiting]
  BY AccountsFields
<1>2. Freed(q) = [limit |-> q.limit, active |-> q.active - 1, waiting |-> q.waiting]
  BY <1>1 DEF Freed
<1>3. /\ Freed(q).waiting = q.waiting
      /\ Freed(q).limit = q.limit
      /\ Freed(q).active = q.active - 1
      /\ Freed(q) \in [limit : Int, active : Int, waiting : Seq(W)]
  BY <1>1, <1>2
<1>4. IsFiniteSet(O \ {t}) /\ Cardinality(O \ {t}) = q.active - 1
  BY FS_RemoveElement DEF Accounts
<1>5. (O \ {t}) \cap W = {}
  BY DEF Accounts
<1> QED
  BY <1>3, <1>4, <1>5 DEF Accounts

\* The setter of concurrency, before its drain
LEMMA ResizeAccounts ==
  ASSUME NEW q, NEW W, NEW O, Accounts(q, W, O), NEW n \in Int
  PROVE  Accounts(Resized(q, n), W, O) /\ Resized(q, n).limit = n
<1>1. /\ q.limit \in Int /\ q.active \in Nat /\ q.waiting \in Seq(W)
      /\ q = [limit |-> q.limit, active |-> q.active, waiting |-> q.waiting]
  BY AccountsFields
<1>2. Resized(q, n) = [limit |-> n, active |-> q.active, waiting |-> q.waiting]
  BY <1>1 DEF Resized
<1>3. /\ Resized(q, n).waiting = q.waiting
      /\ Resized(q, n).limit = n
      /\ Resized(q, n).active = q.active
      /\ Resized(q, n) \in [limit : Int, active : Int, waiting : Seq(W)]
  BY <1>1, <1>2
<1> QED
  BY <1>3 DEF Accounts

LEMMA FreshAccounts ==
  ASSUME NEW n \in Int
  PROVE  Accounts(NewQueue(n), {}, {}) /\ Served(NewQueue(n)) /\ NewQueue(n).limit = n
  BY FS_EmptySet DEF Accounts, Served, NewQueue

\* A queue of one slot has one task in it.
LEMMA OneSlot ==
  ASSUME NEW q, NEW W, NEW O, Accounts(q, W, O), q.active <= 1, NEW x \in O, NEW y \in O
  PROVE  x = y
<1>1. SUFFICES ASSUME x # y PROVE FALSE
  OBVIOUS
<1>2. IsFiniteSet(O \ {x}) /\ Cardinality(O \ {x}) = Cardinality(O) - 1 /\ Cardinality(O) \in Nat
  BY FS_RemoveElement, FS_CardinalityType DEF Accounts
<1>3. Cardinality(O \ {x}) # 0
  BY <1>1, <1>2, FS_EmptySet
<1> QED
  BY <1>2, <1>3, FS_CardinalityType DEF Accounts

\* None of them puts more tasks into the slots than the limit allows, unless it lowers it.
LEMMA StaysWithin ==
  ASSUME NEW q, NEW W, NEW O, Accounts(q, W, O), q.active <= q.limit, NEW t
  PROVE  /\ Drained(q).active <= Drained(q).limit
         /\ Added(q, t).active <= Added(q, t).limit
         /\ Freed(q).active <= Freed(q).limit
<1>1. /\ q.limit \in Int /\ q.active \in Nat
      /\ q = [limit |-> q.limit, active |-> q.active, waiting |-> q.waiting]
  BY AccountsFields
<1>2. Drained(q).active <= Drained(q).limit
  BY <1>1, StartedCount DEF Drained
<1>3. Added(q, t).active <= Added(q, t).limit
  BY <1>1 DEF Added, HasRoom
<1>4. Freed(q).active <= Freed(q).limit
  BY <1>1 DEF Freed
<1> QED
  BY <1>2, <1>3, <1>4

\* Induction over the numbers: a set of numbers that is not empty has a least element.
LEMMA LeastNumber ==
  ASSUME NEW T, T \subseteq Nat, T # {}
  PROVE  \E m \in T : \A j \in T : m <= j
<1>1. IsWellFoundedOn(OpToRel(<, Nat), Nat)
  BY NatLessThanWellFounded
<1>2. PICK m \in T : \A j \in T : ~(<<j, m>> \in OpToRel(<, Nat))
  BY <1>1, WFMin
<1>3. \A j \in T : ~(j < m)
  <2> TAKE j \in T
  <2>1. ~(<<j, m>> \in OpToRel(<, Nat))
    BY <1>2
  <2> QED
    BY <2>1 DEF OpToRel
<1>4. m \in T /\ \A j \in T : m <= j
  BY <1>3
<1> QED
  BY <1>4
=============================================================================
