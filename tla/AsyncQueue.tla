----------------------------- MODULE AsyncQueue -----------------------------
(***************************************************************************)
(* One AsyncQueue (utils/asyncQueue.ts) with the tasks handed to it.       *)
(*                                                                         *)
(* A task is a promise the queue does not control: between any two steps   *)
(* of the queue it may call hold(), settle, or have one of its release      *)
(* functions called by whoever it gave them to, before or after it settles. *)
(* The concurrency setter may run at any time (concurrency.ts sets it       *)
(* again on every lookup).                                                 *)
(***************************************************************************)
EXTENDS AsyncQueueOps, FiniteSets

CONSTANTS
    Tasks,        \* the tasks ever handed to add()
    Limits,       \* the values the concurrency setter is called with
    HoldsPerTask  \* how often one task may call hold()

ASSUME TasksAssumption == IsFiniteSet(Tasks)
ASSUME LimitsAssumption == Limits \subseteq Nat \ {0}
ASSUME HoldsAssumption == HoldsPerTask \in Nat

VARIABLES
    q,         \* the queue object, see AsyncQueueOps
    pc,        \* pc[t]: "new" before add(t), then "queued", "running", "settled"
    holds,     \* holds[t]: calls of hold() made by t; manualRelease # null iff > 0
    unreleased \* unreleased[t]: release functions of t whose "released" is false

queueVars == <<q, pc, holds, unreleased>>

QueueTypeOK ==
    /\ q \in [limit : Limits, active : Int, waiting : Seq(Tasks)]
    /\ pc \in [Tasks -> {"new", "queued", "running", "settled"}]
    /\ holds \in [Tasks -> Nat]
    /\ unreleased \in [Tasks -> Nat]

QueueInit ==
    /\ q \in {NewQueue(n) : n \in Limits}
    /\ pc = [t \in Tasks |-> "new"]
    /\ holds = [t \in Tasks |-> 0]
    /\ unreleased = [t \in Tasks |-> 0]

-----------------------------------------------------------------------------
\* processQueue() on queue r, where p is pc as the caller of it leaves it.
StartedIn(r, p) == [t \in Tasks |-> IF t \in Started(r) THEN "running" ELSE p[t]]
ProcessQueue(r, p) == q' = Drained(r) /\ pc' = StartedIn(r, p)

Add(t) ==
    /\ pc[t] = "new"
    /\ q' = Added(q, t)
    /\ pc' = [pc EXCEPT ![t] = IF HasRoom(q) THEN "running" ELSE "queued"]
    /\ UNCHANGED <<holds, unreleased>>

\* hold() makes a fresh release function and forgets the one made before it.
Hold(t) ==
    /\ pc[t] = "running"
    /\ holds[t] < HoldsPerTask
    /\ holds' = [holds EXCEPT ![t] = @ + 1]
    /\ unreleased' = [unreleased EXCEPT ![t] = @ + 1]
    /\ UNCHANGED <<q, pc>>

ReleaseNotOneShot(t) ==
    /\ holds[t] > 0
    /\ q.active > 0
    /\ unreleased' = [unreleased EXCEPT ![t] = IF @ > 0 THEN @ - 1 ELSE 0]
    /\ ProcessQueue(Freed(q), pc)
    /\ UNCHANGED holds

\* A release function of t is called; only its first call has an effect.
Release(t) ==
    /\ holds[t] > 0
    /\ IF unreleased[t] > 0
       THEN /\ unreleased' = [unreleased EXCEPT ![t] = @ - 1]
            /\ ProcessQueue(Freed(q), pc)
            /\ UNCHANGED holds
       ELSE UNCHANGED queueVars

SettleKeepsSlot(t) ==
    /\ pc[t] = "running"
    /\ pc' = [pc EXCEPT ![t] = "settled"]
    /\ UNCHANGED <<q, holds, unreleased>>

\* The task's promise resolves or rejects; the finally clause of run() runs.
Settle(t) ==
    /\ pc[t] = "running"
    /\ LET p == [pc EXCEPT ![t] = "settled"]
       IN IF holds[t] = 0
          THEN ProcessQueue(Freed(q), p)
          ELSE pc' = p /\ UNCHANGED q
    /\ UNCHANGED <<holds, unreleased>>

SetConcurrency(n) ==
    /\ ProcessQueue(Resized(q, n), pc)
    /\ UNCHANGED <<holds, unreleased>>

QueueNext ==
    \/ \E t \in Tasks : Add(t) \/ Hold(t) \/ Release(t) \/ Settle(t)
    \/ \E n \in Limits : SetConcurrency(n)

QueueSpec == QueueInit /\ [][QueueNext]_queueVars

\* Every task settles at last (the gateway's tasks end by timeouts), and a
\* release function that was handed out is called at last.
QueueFairness == \A t \in Tasks : WF_queueVars(Settle(t)) /\ WF_queueVars(Release(t))

-----------------------------------------------------------------------------
\* The tasks that take up a slot: they run and have not taken over the release,
\* or some release function of theirs is still to be called.
OccupiersOf(p, h, u) ==
    {t \in Tasks : (p[t] = "running" /\ h[t] = 0) \/ u[t] > 0}
Occupiers == OccupiersOf(pc, holds, unreleased)

\* activeCount is exactly the number of slots in use: no double release, no
\* slot that leaks when a held task settles.  Holds when tasks call hold()
\* at most once.
ActiveIsOccupancy == q.active = Cardinality(Occupiers)

\* Work conservation: no closure waits while a slot is free, whatever
\* combination of settling, releasing and resizing came before.
NoIdleSlot == q.waiting # <<>> => ~HasRoom(q)

\* The queue holds each task that waits once, and nobody else.
Matches(r, p) ==
    /\ \A i, j \in 1..Len(r.waiting) : r.waiting[i] = r.waiting[j] => i = j
    /\ \A t \in Tasks :
          (p[t] = "queued") <=> \E i \in 1..Len(r.waiting) : r.waiting[i] = t
QueueMatches == Matches(q, pc)

\* Before it runs a task has no release function; hold() is called at most once.
HoldsOK(p, h, u) ==
    \A t \in Tasks :
        /\ u[t] <= h[t] /\ h[t] <= 1
        /\ p[t] \in {"new", "queued"} => h[t] = 0

\* The inductive strengthening of the three invariants above.
IInv ==
    /\ QueueTypeOK
    /\ QueueMatches
    /\ NoIdleSlot
    /\ ActiveIsOccupancy
    /\ HoldsOK(pc, holds, unreleased)

\* A step that starts a task ends with at most limit slots in use, also right
\* after the limit was lowered below the number of running tasks.
StartsWithinLimit ==
    [][(\E t \in Tasks : pc[t] # "running" /\ pc'[t] = "running")
          => Cardinality(Occupiers') <= q'.limit]_queueVars

\* A queued task is started at last.
QueuedTasksStart == \A t \in Tasks : (pc[t] = "queued") ~> (pc[t] = "running")

\* The queue implements the pool of slots that SlotPool promises: the counter
\* and the one-shot release functions are the set of tasks in a slot.
Pool == INSTANCE SlotPool WITH
            Clients <- Tasks, Capacities <- Limits,
            holders <- Occupiers, line <- q.waiting, capacity <- q.limit

ImplementsSlotPool == Pool!PoolSpec
=============================================================================
