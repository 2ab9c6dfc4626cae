---------------------------- MODULE GatewaySlots ----------------------------
(***************************************************************************)
(* Who holds which concurrency slot: the global queue, one queue per API    *)
(* key and one per provider (concurrency.ts), taken in that order by the    *)
(* nested add() calls of executeGatewayRequest (gatewayExecutor.ts).        *)
(*                                                                         *)
(* A request runs inside the global and the key queue for a whole cycle of  *)
(* attempts, and inside the provider queue for one upstream fetch.  A fetch *)
(* that answers with a stream calls hold() on all three queues, so that the *)
(* slots outlive the three promises; releaseSlots() gives them back.        *)
(*                                                                         *)
(* A queue starts its tasks synchronously, so leaving one queue may put     *)
(* other requests into the next one within the same step: the operators on  *)
(* the record sys below compose these drains in the order of the code.      *)
(***************************************************************************)
EXTENDS AsyncQueueOps, FiniteSets

CONSTANTS
    Requests,
    Keys,           \* API keys
    Providers,
    KeyOf,          \* the API key each request carries
    Limits,         \* the values a limit may have in the database
    MaxAttempts,    \* bound on the attempts of one cycle (maxAttempts)
    MaxCycles,      \* bound on the continuity cycles of a request
    MaxChanges,     \* bound on the limit changes an administrator makes
    EmptyJsonAnswers \* a streaming request may be answered by an empty JSON body

ASSUME KeyOfAssumption == KeyOf \in [Requests -> Keys]
ASSUME SlotLimitsAssumption == Limits \subseteq Nat \ {0}
ASSUME ProvidersAssumption == Providers # {}    \* no request is routed without one
ASSUME SlotBoundsAssumption == {MaxAttempts, MaxCycles, MaxChanges} \subseteq Nat

VARIABLES
    sys,      \* the queues g, u[key], p[provider] and the place pc of each request
    limit,    \* the limits stored in the database
    changes,  \* limit changes so far
    prov,     \* prov[r]: the provider of r's current attempt
    seen,     \* seen[r]: concurrencyLimit in the provider row r has read
    answer,   \* answer[r]: what the last fetch of r returned
    held,     \* held[r]: responseData.releaseSlots is set
    manual,   \* manual[r]: hold() was called in r's current global and key task
    attempts, \* attemptCount
    cycles    \* continuityCycles

vars == <<sys, limit, changes, prov, seen, answer, held, manual, attempts, cycles>>

Places == {"idle", "in g line", "in u line", "loop", "chosen", "in p line",
           "fetch", "got", "left", "respond", "done"}
Answers == {"none", "plain", "stream", "empty json"}

Queues == [limit : Limits, active : Int, waiting : Seq(Requests)]

TypeOK ==
    /\ sys \in [g : Queues, u : [Keys -> Queues], p : [Providers -> Queues],
                pc : [Requests -> Places]]
    /\ limit \in [g : Limits, u : [Keys -> Limits], p : [Providers -> Limits]]
    /\ changes \in 0..MaxChanges
    /\ prov \in [Requests -> Providers]
    /\ seen \in [Requests -> Limits]
    /\ answer \in [Requests -> Answers]
    /\ held \in [Requests -> BOOLEAN]
    /\ manual \in [Requests -> BOOLEAN]
    /\ attempts \in [Requests -> 0..MaxAttempts]
    /\ cycles \in [Requests -> 0..MaxCycles]

Init ==
    /\ limit \in [g : Limits, u : [Keys -> Limits], p : [Providers -> Limits]]
    /\ sys = [g |-> NewQueue(limit.g),
              u |-> [k \in Keys |-> NewQueue(limit.u[k])],
              p |-> [v \in Providers |-> NewQueue(limit.p[v])],
              pc |-> [r \in Requests |-> "idle"]]
    /\ changes = 0
    /\ prov \in [Requests -> {CHOOSE v \in Providers : TRUE}]
    /\ seen = [r \in Requests |-> limit.p[prov[r]]]
    /\ answer = [r \in Requests |-> "none"]
    /\ held = [r \in Requests |-> FALSE]
    /\ manual = [r \in Requests |-> FALSE]
    /\ attempts = [r \in Requests |-> 0]
    /\ cycles = [r \in Requests |-> 0]

-----------------------------------------------------------------------------
(* Steps of the three queues, as functions of the record sys.              *)

At(s, r, place) == [s EXCEPT !.pc[r] = place]
AllAt(s, rs, place) ==
    [s EXCEPT !.pc = [r \in Requests |-> IF r \in rs THEN place ELSE s.pc[r]]]

\* The global queue starts request r, which enters the queue of its key.
EnterKey(s, r) ==
    LET k == KeyOf[r] IN
    At([s EXCEPT !.u[k] = Added(@, r)], r, IF HasRoom(s.u[k]) THEN "loop" ELSE "in u line")

\* The requests processQueue() of the global queue shifts, entering their keys' queues in turn
Entering(s) ==
    LET entered[i \in 0..NumStarted(s.g)] ==
            IF i = 0 THEN [s EXCEPT !.g = Drained(@)]
                     ELSE EnterKey(entered[i - 1], s.g.waiting[i])
    IN entered

GlobalDrained(s) == Entering(s)[NumStarted(s.g)]

KeyDrained(s, k) ==
    AllAt([s EXCEPT !.u[k] = Drained(s.u[k])], Started(s.u[k]), "loop")

ProviderDrained(s, v) ==
    AllAt([s EXCEPT !.p[v] = Drained(s.p[v])], Started(s.p[v]), "fetch")

GlobalFreed(s) == GlobalDrained([s EXCEPT !.g = Freed(@)])
KeyFreed(s, k) == KeyDrained([s EXCEPT !.u[k] = Freed(@)], k)
ProviderFreed(s, v) == ProviderDrained([s EXCEPT !.p[v] = Freed(@)], v)

SlotsReleasedButKey(s, r) ==
    IF held[r] THEN GlobalFreed(ProviderFreed(s, prov[r])) ELSE s

\* releaseSlots() of r's last answer: provider, key, global, in this order.
SlotsReleased(s, r) ==
    IF held[r]
    THEN GlobalFreed(KeyFreed(ProviderFreed(s, prov[r]), KeyOf[r]))
    ELSE s

\* processQueue.add(...) for request r.
EnterGlobal(s, r) ==
    IF HasRoom(s.g)
    THEN EnterKey([s EXCEPT !.g = Added(@, r)], r)
    ELSE At([s EXCEPT !.g = Added(@, r)], r, "in g line")

-----------------------------------------------------------------------------
(* One action per stretch of executeGatewayRequest between two awaits.     *)

\* getGlobalQueue() and getApiKeyQueue() set the limits again, then r enters.
Submit(r) ==
    /\ sys.pc[r] = "idle"
    /\ LET s1 == GlobalDrained([sys EXCEPT !.g = Resized(@, limit.g)])
           s2 == KeyDrained([s1 EXCEPT !.u[KeyOf[r]] = Resized(@, limit.u[KeyOf[r]])],
                            KeyOf[r])
       IN sys' = EnterGlobal(s2, r)
    /\ UNCHANGED <<limit, changes, prov, seen, answer, held, manual, attempts, cycles>>

\* The attempt begins: routing settles on provider v and reads its row.
Choose(r, v) ==
    /\ sys.pc[r] = "loop"
    /\ attempts[r] < MaxAttempts
    /\ attempts' = [attempts EXCEPT ![r] = @ + 1]
    /\ prov' = [prov EXCEPT ![r] = v]
    /\ seen' = [seen EXCEPT ![r] = limit.p[v]]
    /\ answer' = [answer EXCEPT ![r] = "none"]
    /\ sys' = At(sys, r, "chosen")
    /\ UNCHANGED <<limit, changes, held, manual, cycles>>

\* getProviderQueue() sets the limit of the row r has read, then provQueue.add.
Ask(r) ==
    LET v == prov[r]
        s == ProviderDrained([sys EXCEPT !.p[v] = Resized(@, seen[r])], v)
    IN /\ sys.pc[r] = "chosen"
       /\ sys' = At([s EXCEPT !.p[v] = Added(@, r)], r,
                    IF HasRoom(s.p[v]) THEN "fetch" ELSE "in p line")
       /\ UNCHANGED <<limit, changes, prov, seen, answer, held, manual, attempts, cycles>>

\* getProviderQueue() finds the queue full: concurrency fallback, next target.
SkipFullProvider(r) ==
    LET v == prov[r]
        s == ProviderDrained([sys EXCEPT !.p[v] = Resized(@, seen[r])], v)
    IN /\ sys.pc[r] = "chosen"
       /\ s.p[v].active + Len(s.p[v].waiting) >= s.p[v].limit
       /\ attempts[r] < MaxAttempts
       /\ sys' = At(s, r, "loop")
       /\ UNCHANGED <<limit, changes, prov, seen, answer, held, manual, attempts, cycles>>

\* The fetch returns an error or a complete answer: the provider task settles.
FetchPlain(r) ==
    /\ sys.pc[r] = "fetch"
    /\ answer' = [answer EXCEPT ![r] = "plain"]
    /\ sys' = ProviderFreed(At(sys, r, "got"), prov[r])
    /\ UNCHANGED <<limit, changes, prov, seen, held, manual, attempts, cycles>>

FetchStreamNoHold(r) ==
    /\ sys.pc[r] = "fetch"
    /\ answer' = [answer EXCEPT ![r] = "stream"]
    /\ held' = [held EXCEPT ![r] = TRUE]
    /\ sys' = At(sys, r, "got")
    /\ UNCHANGED <<limit, changes, prov, seen, manual, attempts, cycles>>

\* The fetch returns a stream (a real one, or a JSON body wrapped into one):
\* holdProv(), holdUser() and holdGlobal() are called, then the task settles.
FetchStream(r) ==
    /\ sys.pc[r] = "fetch"
    /\ \E a \in {"stream"} \cup (IF EmptyJsonAnswers THEN {"empty json"} ELSE {}) :
          answer' = [answer EXCEPT ![r] = a]
    /\ held' = [held EXCEPT ![r] = TRUE]
    /\ manual' = [manual EXCEPT ![r] = TRUE]
    /\ sys' = At(sys, r, "got")
    /\ UNCHANGED <<limit, changes, prov, seen, attempts, cycles>>

\* continue inside the attempt loop: after an error, or after an empty answer
\* that is no real stream (stage-1 continuity check).
RetryInLoop(r) ==
    /\ sys.pc[r] = "got"
    /\ answer[r] \in {"plain", "empty json"}
    /\ attempts[r] < MaxAttempts
    /\ sys' = At(SlotsReleased(sys, r), r, "loop")
    /\ held' = [held EXCEPT ![r] = FALSE]
    /\ UNCHANGED <<limit, changes, prov, seen, answer, manual, attempts, cycles>>

\* break or return out of the attempt loop: the key task settles ...
LeaveKey(r) ==
    /\ sys.pc[r] \in {"loop", "chosen", "got"}
    /\ LET s == At(sys, r, "left")
       IN sys' = IF manual[r] THEN s ELSE KeyFreed(s, KeyOf[r])
    /\ UNCHANGED <<limit, changes, prov, seen, answer, held, manual, attempts, cycles>>

LeaveGlobalKeepingSlot(r) ==
    /\ sys.pc[r] = "left"
    /\ sys' = At(sys, r, "respond")
    /\ UNCHANGED <<limit, changes, prov, seen, answer, held, manual, attempts, cycles>>

\* ... and then the global task.
LeaveGlobal(r) ==
    /\ sys.pc[r] = "left"
    /\ LET s == At(sys, r, "respond")
       IN sys' = IF manual[r] THEN s ELSE GlobalFreed(s)
    /\ UNCHANGED <<limit, changes, prov, seen, answer, held, manual, attempts, cycles>>

\* The answer is forwarded and the request goes round again (stage-2
\* continuity, or a retry after a stream error): finally releases the slots
\* and the next cycle enters the global queue in the same step.
NextCycle(r) ==
    /\ sys.pc[r] = "respond"
    /\ cycles[r] < MaxCycles
    /\ sys' = EnterGlobal(SlotsReleased(sys, r), r)
    /\ cycles' = [cycles EXCEPT ![r] = @ + 1]
    /\ attempts' = [attempts EXCEPT ![r] = 0]
    /\ held' = [held EXCEPT ![r] = FALSE]
    /\ manual' = [manual EXCEPT ![r] = FALSE]
    /\ UNCHANGED <<limit, changes, prov, seen, answer>>

\* The answer is forwarded, the client is gone, or an error is sent: the end.
Finish(r) ==
    /\ sys.pc[r] = "respond"
    /\ sys' = At(SlotsReleased(sys, r), r, "done")
    /\ held' = [held EXCEPT ![r] = FALSE]
    /\ UNCHANGED <<limit, changes, prov, seen, answer, manual, attempts, cycles>>

\* An administrator stores another limit.
ChangeLimit ==
    /\ changes < MaxChanges
    /\ changes' = changes + 1
    /\ \E n \in Limits :
          \/ limit' = [limit EXCEPT !.g = n]
          \/ \E k \in Keys : limit' = [limit EXCEPT !.u[k] = n]
          \/ \E v \in Providers : limit' = [limit EXCEPT !.p[v] = n]
    /\ UNCHANGED <<sys, prov, seen, answer, held, manual, attempts, cycles>>

Proceed(r) ==
    \/ \E v \in Providers : Choose(r, v)
    \/ Ask(r) \/ SkipFullProvider(r)
    \/ FetchPlain(r) \/ FetchStream(r)
    \/ RetryInLoop(r) \/ LeaveKey(r) \/ LeaveGlobal(r)
    \/ NextCycle(r) \/ Finish(r)

\* Every request may be done; that is the only way to stop.
Rest == (\A r \in Requests : sys.pc[r] = "done") /\ UNCHANGED vars

Next ==
    \/ \E r \in Requests : Submit(r) \/ Proceed(r)
    \/ ChangeLimit
    \/ Rest

Spec == Init /\ [][Next]_vars

\* r is neither waiting in a line nor at an end, so that Proceed(r) is enabled.
Running(r) == sys.pc[r] \in {"loop", "chosen", "fetch", "got", "left", "respond"}

\* A request that runs goes on: every fetch has a timeout (attemptTimeoutMs),
\* every stream an end or an idle timeout, and the rest is the event loop.
\* This is WF_vars(Proceed(r)) for every r, its ENABLED written as Running(r).
FairSpec ==
    /\ Spec
    /\ \A r \in Requests : []<>(~Running(r)) \/ []<><<Proceed(r)>>_vars

-----------------------------------------------------------------------------
(* Properties.                                                             *)

InKey(r) == sys.pc[r] \in {"loop", "chosen", "in p line", "fetch", "got"}
InGlobal(r) == InKey(r) \/ sys.pc[r] \in {"in u line", "left"}

\* Requests with a call or a stream open at an upstream.
Open == {r \in Requests : sys.pc[r] = "fetch" \/ held[r]}

\* Each counter is the number of requests in that queue's task or holding its
\* slot: over all retries, cycles and streams no slot leaks or is freed twice.
SlotsAccounted ==
    /\ sys.g.active =
          Cardinality({r \in Requests : (InGlobal(r) /\ ~manual[r]) \/ held[r]})
    /\ \A k \in Keys : sys.u[k].active =
          Cardinality({r \in Requests : KeyOf[r] = k /\ ((InKey(r) /\ ~manual[r]) \/ held[r])})
    /\ \A v \in Providers : sys.p[v].active =
          Cardinality({r \in Requests : prov[r] = v /\ r \in Open})

\* Upstream work never exceeds any of the three limits (limits left alone).
LimitsEnforced ==
    /\ Cardinality(Open) <= sys.g.limit
    /\ \A k \in Keys : Cardinality({r \in Open : KeyOf[r] = k}) <= sys.u[k].limit
    /\ \A v \in Providers : Cardinality({r \in Open : prov[r] = v}) <= sys.p[v].limit

\* The nested lines never stall: nobody waits in a line that has room.
NoIdleSlots ==
    /\ sys.g.waiting # <<>> => ~HasRoom(sys.g)
    /\ \A k \in Keys : sys.u[k].waiting # <<>> => ~HasRoom(sys.u[k])
    /\ \A v \in Providers : sys.p[v].waiting # <<>> => ~HasRoom(sys.p[v])

\* No slot is lost, freed twice or left idle beside a waiting request, in any of the
\* three queues, whatever is retried and wherever limits change.
NoSlotLost == SlotsAccounted /\ NoIdleSlots

\* Holding global and key slots while waiting for a provider never locks up:
\* every request that was submitted is answered.
EveryRequestEnds == \A r \in Requests : (sys.pc[r] # "idle") ~> (sys.pc[r] = "done")
=============================================================================
