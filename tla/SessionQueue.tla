---------------------------- MODULE SessionQueue ----------------------------
(***************************************************************************)
(* Session admission (sessionAdmission.ts, sessionQueueManager.ts): requests *)
(* of one client session take a lock one after the other before they go on    *)
(* upstream.  The lock of a session is an AsyncQueue of concurrency 1 that    *)
(* is made when a request first asks for it and thrown away when it has been  *)
(* idle for a while.                                                         *)
(*                                                                         *)
(* A queue is an object: a request waits in the one it found, whatever the    *)
(* map holds later.  queue lists every queue ever made, current the map       *)
(* sessionQueues as an index into it.                                        *)
(***************************************************************************)
EXTENDS AsyncQueueOps, FiniteSets

CONSTANTS
    Callers,            \* requests that take the lock, each any number of times
    Sessions,
    MaxQueueCapacity,   \* maxQueueCapacity
    MaxQueues           \* bound on the queues ever made: the clean-up stops before it

ASSUME MaxQueueCapacityAssumption == MaxQueueCapacity \in Nat
ASSUME MaxQueuesAssumption == MaxQueues \in Nat

VARIABLES
    queue,      \* the queues ever made
    madeFor,    \* the session each of them was made for
    current,    \* sessionQueues: the index of a session's queue, 0 without one
    idle,       \* queues whose lastActive is at least ttlMs ago
    caller      \* per request: its step and the queue it joined, 0 without one

sessionVars == <<queue, madeFor, current, idle, caller>>

-----------------------------------------------------------------------------
CallerSteps ==
    {"away",        \* not asking: before, or admitted and on its way upstream
     "waiting",     \* in the queue, its timer running
     "timedOut",    \* answered 429, its task still in the queue
     "lapsing",     \* its task was started after the timeout and has not settled yet
     "holding"}     \* has the lock

Away == [step |-> "away", queue |-> 0]

Queues == 1..Len(queue)
Joined(c) == caller[c].queue

SessionTypeOK ==
    /\ queue \in Seq([limit : Nat, active : Nat, waiting : Seq(Callers)])
    /\ Len(queue) <= MaxQueues
    /\ \A i \in Queues : Len(queue[i].waiting) <= MaxQueueCapacity
    /\ madeFor \in Seq(Sessions) /\ Len(madeFor) = Len(queue)
    /\ current \in [Sessions -> 0..Len(queue)]
    /\ idle \subseteq Queues
    /\ caller \in [Callers -> [step : CallerSteps, queue : 0..Len(queue)]]

SessionInit ==
    /\ queue = <<>> /\ madeFor = <<>>
    /\ current = [s \in Sessions |-> 0]
    /\ idle = {}
    /\ caller = [c \in Callers |-> Away]

-----------------------------------------------------------------------------
(* Queued closures.                                                        *)

\* The task acquireLock queues: it gives the lock to its request, or returns at once when
\* the request has been refused meanwhile.
StartedStep(step) == IF step = "timedOut" THEN "lapsing" ELSE "holding"

\* processQueue() of queue i, once it has become q
DrainedInto(i, q, callers) ==
    /\ queue' = [queue EXCEPT ![i] = Drained(q)]
    /\ caller' = [c \in Callers |->
                     IF c \in Started(q) THEN [callers[c] EXCEPT !.step = StartedStep(@)]
                                         ELSE callers[c]]

Left(c) == [caller EXCEPT ![c] = Away]

-----------------------------------------------------------------------------
(* acquireLock                                                             *)

\* Mutant: a session's queue is made anew although there is one.
FindQueueAfresh(s, i) ==
    /\ i = Len(queue) + 1 /\ i <= MaxQueues
    /\ madeFor' = Append(madeFor, s)
    /\ current' = [current EXCEPT ![s] = i]

\* The entry of the session, made if it has none.
FindQueue(s, i) ==
    IF current[s] # 0
    THEN i = current[s] /\ UNCHANGED <<current, madeFor>>
    ELSE /\ i = Len(queue) + 1
         /\ madeFor' = Append(madeFor, s)
         /\ current' = [current EXCEPT ![s] = i]

Full(q) == Len(q.waiting) >= MaxQueueCapacity

Found(i) == IF i \in Queues THEN queue ELSE Append(queue, NewQueue(1))

\* "Session queue capacity exceeded", the timer, and queue.add with its first run
Acquire(c, s) ==
    /\ caller[c].step = "away"
    /\ \E i \in 1..(Len(queue) + 1) :
        /\ FindQueue(s, i)
        /\ idle' = idle \ {i}
        /\ LET q == Found(i)[i] IN
           IF Full(q)
           THEN queue' = Found(i) /\ UNCHANGED caller
           ELSE /\ queue' = [Found(i) EXCEPT ![i] = Added(q, c)]
                /\ caller' = [caller EXCEPT ![c] =
                       [step |-> IF HasRoom(q) THEN "holding" ELSE "waiting", queue |-> i]]

\* The timer of a request that waits: SessionQueueTimeoutError
TimeOut(c) ==
    /\ caller[c].step = "waiting"
    /\ caller' = [caller EXCEPT ![c].step = "timedOut"]
    /\ UNCHANGED <<queue, madeFor, current, idle>>

\* Mutant: the slot of a task that returned without holding it is not freed.
LapseKeepsSlot(c) ==
    /\ caller[c].step = "lapsing"
    /\ caller' = Left(c)
    /\ UNCHANGED <<queue, madeFor, current, idle>>

\* A task that returned without hold() settles: AsyncQueue frees its slot.
Lapse(c) ==
    /\ caller[c].step = "lapsing"
    /\ DrainedInto(Joined(c), Freed(queue[Joined(c)]), Left(c))
    /\ UNCHANGED <<madeFor, current, idle>>

\* lock.release(), after the critical section or its failure
ReleaseLock(c) ==
    /\ caller[c].step = "holding"
    /\ idle' = idle \ {Joined(c)}
    /\ DrainedInto(Joined(c), Freed(queue[Joined(c)]), Left(c))
    /\ UNCHANGED <<madeFor, current>>

-----------------------------------------------------------------------------
(* The clean-up.                                                           *)

TtlPasses(i) ==
    /\ i \in Queues \ idle
    /\ idle' = idle \cup {i}
    /\ UNCHANGED <<queue, madeFor, current, caller>>

Unused(i) == queue[i].active = 0 /\ queue[i].waiting = <<>>

\* cleanupIdleQueues, every five minutes
CleanUp ==
    /\ \E s \in Sessions : current[s] \in idle /\ Unused(current[s])
    /\ current' = [s \in Sessions |->
                      IF current[s] \in idle /\ Unused(current[s]) THEN 0 ELSE current[s]]
    /\ Len(queue) + Cardinality({s \in Sessions : current'[s] = 0}) <= MaxQueues
    /\ UNCHANGED <<queue, madeFor, idle, caller>>

CallerNext(c) ==
    \/ \E s \in Sessions : Acquire(c, s)
    \/ TimeOut(c) \/ Lapse(c) \/ ReleaseLock(c)

SessionNext ==
    \/ \E c \in Callers : CallerNext(c)
    \/ \E i \in Queues : TtlPasses(i)
    \/ CleanUp

SessionSpec == SessionInit /\ [][SessionNext]_sessionVars

\* A task settles by itself; a critical section ends.  Nothing makes a request time out.
SessionFairness == \A c \in Callers : WF_sessionVars(Lapse(c)) /\ WF_sessionVars(ReleaseLock(c))

-----------------------------------------------------------------------------
(* Correctness.                                                            *)

Holds(c, s) == caller[c].step = "holding" /\ madeFor[Joined(c)] = s

\* At most one request of a session is in its critical section, whatever queues the clean-up
\* threw away and whichever waiters timed out before their turn; and every request that waits
\* for a session, or holds it, is in the queue that the next request of that session will find:
\* the clean-up never splits a session in two.
OneHolder ==
    /\ \A s \in Sessions : \A c, d \in Callers : Holds(c, s) /\ Holds(d, s) => c = d
    /\ \A c \in Callers : caller[c].step # "away" => current[madeFor[Joined(c)]] = Joined(c)

\* A request that waits gets the lock or its 429 even if its timer never fires: the tasks of
\* requests that gave up before it hand the slot on.
WaiterServed == \A c \in Callers : (caller[c].step = "waiting") ~> (caller[c].step # "waiting")

=============================================================================
