-------------------------- MODULE GatewayAttempts --------------------------
(***************************************************************************)
(* The attempts one request of a classic route makes: which layer and key   *)
(* it tries next, after which answer, and what the client and the request   *)
(* log get in the end (executeGatewayRequest in gatewayExecutor.ts).        *)
(*                                                                         *)
(* A route is a funnel of layers; a layer is one provider and model.  An    *)
(* answer is judged before anything is sent ("judge"), sent or forwarded    *)
(* ("respond"), and a stream that failed before it showed anything is       *)
(* judged again by the decision matrix ("matrix").  A round that showed     *)
(* nothing at all is retried by the continuity check ("stage2").            *)
(*                                                                         *)
(* The client may leave at any await, another request may exhaust a key,    *)
(* and an administrator may disable a provider.  Slots are the subject of   *)
(* GatewaySlots.                                                           *)
(***************************************************************************)
EXTENDS Naturals, FiniteSets

CONSTANTS
    Keys,           \* provider API keys
    Providers,
    LastLayer,      \* the route's layers are 1..LastLayer
    ProviderOf,     \* the provider of each layer
    KeysOf,         \* the keys of each provider
    RetryCount,     \* route.retryCount
    MaxCycles,      \* MAX_CONTINUITY_CYCLES
    MaxEmpty,       \* EmptyOutputStrategy.maxRetries
    MaxReasoning,   \* ReasoningExhaustionStrategy.maxRetries
    CapRetries,     \* capacityRetryAttempts
    Modes,          \* whether requests ask for a stream: a set of booleans
    OpenRouter,     \* errors are classified by the OpenRouter adapter
    Answers,        \* what an upstream may answer
    StreamEnds,     \* how a forwarded stream may end
    Local,          \* refusals and shortcuts of the gateway itself
    Changes         \* what others may do meanwhile: "key lost", "disabled"

Layers == 1..LastLayer
MaxAttempts == RetryCount + LastLayer

\* JSON answers with status 200, and what the client would see of them
Successes == {"ok", "empty", "reasoning"}
\* upstream errors, by status and by what their body says
KeyFaults == {"quota", "auth", "rate", "no credential"}
Unavailable == {"down", "overloaded", "no provider", "capacity"}
UpstreamErrors == KeyFaults \cup Unavailable \cup {"server", "rejected", "too long", "other"}
\* errors made by the gateway: they carry no terminalError
LocalErrors == {"disabled", "limited", "no keys", "ejected"}
LocalBranches == {"limited", "full", "ejected", "cached", "loop stop"}
AnswerKinds == Successes \cup UpstreamErrors \cup {"stream"}
\* kinds of the rounds that end without visible output
Blank == {"empty", "reasoning", "thinking"}

ASSUME FunnelAssumption ==
    /\ LastLayer \in Nat \ {0} /\ RetryCount \in Nat
    /\ {MaxCycles, MaxEmpty, MaxReasoning, CapRetries} \subseteq Nat
    /\ ProviderOf \in [Layers -> Providers]
    /\ KeysOf \in [Providers -> SUBSET Keys]
    /\ Modes \subseteq BOOLEAN /\ OpenRouter \in BOOLEAN
    /\ Answers \subseteq AnswerKinds
    /\ StreamEnds \subseteq {"shown", "empty", "thinking", "cut"} \cup UpstreamErrors
    /\ Local \subseteq LocalBranches

\* 1 + 3 < 5 in the code: a JSON answer is never blank when the cycles are used up
ASSUME RescueBudgetAssumption == MaxEmpty + MaxReasoning < MaxCycles

NoKey == "no key"
ASSUME NoKeyAssumption == NoKey \notin Keys

VARIABLES
    pc,         \* where the request is in executeGatewayRequest
    attempts,   \* attemptCount
    cycles,     \* continuityCycles
    layer,      \* currentAttempt.targetIndex
    guardDue,   \* strategyRoutingChecked is to be done: the loop guard will look
    tried,      \* per layer: triedKeyIds
    preferred,  \* per layer: preferredKeyId
    last,       \* per layer: lastUpstreamError
    rewritten,  \* per layer: the constraint rewrite has been applied
    cap,        \* per layer: CapacityRetryState.retryCount
    capDone,    \* per layer: CapacityRetryState.exhausted
    key,        \* activeKeyId
    offered,    \* activeKeysList, as read when key was selected
    answer,     \* responseData
    emptyTries, \* strategyRetries of EmptyOutput
    thinkTries, \* strategyRetries of ReasoningExhaustion
    compressed, \* ctx.contextCompressed
    output,     \* what has been sent of the answer: none, thinking, visible
    reply,      \* how the reply ended: open, ok, error, internal, closed
    row,        \* usageStatus of the request_logs row
    streaming,  \* the request asks for a stream (body.stream)
    connected,  \* the client is still there
    active,     \* keys with status 'active' in the database
    enabled,    \* enabled providers in the database
    rejected    \* history: the <<layer, key>> an upstream has blamed

targetKeys == <<tried, preferred>>
capacity == <<cap, capDone>>
selected == <<key, offered>>
rescue == <<emptyTries, thinkTries, compressed>>
client == <<output, reply, row>>
outside == <<streaming, connected, active, enabled>>
target == <<targetKeys, last, rewritten, capacity>>
vars == <<pc, attempts, cycles, layer, guardDue, target, selected, answer, rescue, client,
          outside, rejected>>

Places == {"loop", "resolve", "keys", "queued", "fetch", "judge", "respond",
           "matrix", "failing", "stage2", "done"}
NoAnswer == [kind |-> "none", key |-> NoKey, offered |-> {}, retryable |-> FALSE]
Kinds == AnswerKinds \cup LocalErrors \cup {"none", "spent", "shown", "thinking", "cut"}
AnswerRecords == [kind : Kinds, key : Keys \cup {NoKey}, offered : SUBSET Keys,
                  retryable : BOOLEAN]

TypeOK ==
    /\ pc \in Places
    /\ attempts \in 0..MaxAttempts
    /\ cycles \in 0..(MaxCycles + 1)
    /\ layer \in Layers
    /\ guardDue \in BOOLEAN
    /\ tried \in [Layers -> SUBSET Keys]
    /\ preferred \in [Layers -> Keys \cup {NoKey}]
    /\ last \in [Layers -> AnswerRecords]
    /\ rewritten \in [Layers -> BOOLEAN]
    /\ cap \in [Layers -> 0..CapRetries]
    /\ capDone \in [Layers -> BOOLEAN]
    /\ key \in Keys \cup {NoKey}
    /\ offered \subseteq Keys
    /\ answer \in AnswerRecords
    /\ emptyTries \in 0..MaxEmpty
    /\ thinkTries \in 0..MaxReasoning
    /\ compressed \in BOOLEAN
    /\ output \in {"none", "thinking", "visible"}
    /\ reply \in {"open", "ok", "error", "internal", "closed"}
    /\ row \in {"none", "queued", "success", "failed"}
    /\ {streaming, connected} \subseteq BOOLEAN
    /\ active \subseteq Keys
    /\ enabled \subseteq Providers
    /\ rejected \subseteq Layers \X Keys

Init ==
    /\ pc = "loop" /\ attempts = 0 /\ cycles = 0 /\ layer = 1 /\ guardDue = TRUE
    /\ tried = [l \in Layers |-> {}]
    /\ preferred = [l \in Layers |-> NoKey]
    /\ last = [l \in Layers |-> NoAnswer]
    /\ rewritten = [l \in Layers |-> FALSE]
    /\ cap = [l \in Layers |-> 0]
    /\ capDone = [l \in Layers |-> FALSE]
    /\ key = NoKey /\ offered = {}
    /\ answer = NoAnswer
    /\ emptyTries = 0 /\ thinkTries = 0 /\ compressed = FALSE
    /\ output = "none" /\ reply = "open" /\ row = "none"
    /\ streaming \in Modes
    /\ connected = TRUE /\ active = Keys /\ enabled = Providers
    /\ rejected = {}

-----------------------------------------------------------------------------
(* What a step of the loop does with the attempt budget.                   *)

\* reserveAttemptBudgetForLayerSwitch
Reserved(a) == IF a >= MaxAttempts THEN MaxAttempts - 1 ELSE a

HasNext == layer < LastLayer

\* resolveFallbackTarget for a classic route: the next layer, whatever its state
NextLayer == HasNext /\ layer' = layer + 1

\* continue of the inner loop, with a attempts counted
Again(a) ==
    /\ pc' = "loop"
    /\ attempts' = a
    /\ answer' = NoAnswer

\* continue of the outer loop: a round after a continuity cycle counts anew
NewRound(a) == Again(IF cycles > 0 THEN 0 ELSE a)

\* the final write to the request log: a patch, lost when there is no row
Logged(status) == row' = IF row = "none" THEN "none" ELSE status

Error(kind) == [NoAnswer EXCEPT !.kind = kind]

\* finalizeClientClosedRequest
Close ==
    /\ ~connected
    /\ pc' = "done" /\ reply' = "closed"
    /\ Logged(IF output = "none" THEN "failed" ELSE "success")
    /\ UNCHANGED <<attempts, cycles, layer, guardDue, target, selected, answer, rescue, output,
                   outside, rejected>>

-----------------------------------------------------------------------------
(* From the loop head to the upstream fetch.                               *)

LeftBeforeAttempt == pc = "loop" /\ Close

\* while (attemptCount < maxAttempts)
StartAttempt ==
    /\ pc = "loop" /\ connected
    /\ IF attempts < MaxAttempts
       THEN pc' = "resolve" /\ attempts' = attempts + 1
       ELSE pc' = "respond" /\ UNCHANGED attempts
    /\ UNCHANGED <<cycles, layer, guardDue, target, selected, answer, rescue, client,
                   outside, rejected>>

\* maybeServeContinuationLoopStop: asked once, and again after an EmptyOutput hop.
LoopGuardStops ==
    /\ pc = "resolve" /\ guardDue /\ "loop stop" \in Local
    /\ pc' = "done" /\ reply' = "ok" /\ output' = "visible"
    /\ UNCHANGED <<attempts, cycles, layer, guardDue, target, selected, answer, rescue,
                   row, outside, rejected>>

\* A disabled provider ends the loop; on a fallback layer without an answer.
ProviderDisabled ==
    /\ pc = "resolve"
    /\ ProviderOf[layer] \notin enabled
    /\ pc' = "respond" /\ guardDue' = FALSE
    /\ answer' = IF layer > 1 THEN answer ELSE Error("disabled")
    /\ UNCHANGED <<attempts, cycles, layer, target, selected, rescue, client, outside, rejected>>

ProviderEnabled ==
    pc = "resolve" /\ ProviderOf[layer] \in enabled /\ guardDue' = FALSE

\* The provider's hourly token limit is used up.
HourlyLimit ==
    /\ ProviderEnabled /\ "limited" \in Local
    /\ answer' = Error("limited")
    /\ \/ NextLayer /\ attempts' = Reserved(attempts) /\ pc' = "loop"
       \/ ~HasNext /\ pc' = "respond" /\ UNCHANGED <<layer, attempts>>
    /\ UNCHANGED <<cycles, target, selected, rescue, client, outside, rejected>>

\* checkConcurrencyFallback: the provider's queue is full
ConcurrencyHop ==
    /\ ProviderEnabled /\ "full" \in Local
    /\ NextLayer
    /\ attempts' = Reserved(attempts)
    /\ pc' = "loop"
    /\ UNCHANGED <<cycles, target, selected, answer, rescue, client, outside, rejected>>

UseProvider ==
    /\ ProviderEnabled
    /\ pc' = "keys"
    /\ UNCHANGED <<attempts, cycles, layer, target, selected, answer, rescue, client,
                   outside, rejected>>

ActiveKeys == active \cap KeysOf[ProviderOf[layer]]
Untried == ActiveKeys \ tried[layer]

NoActiveKeys ==
    /\ pc = "keys" /\ ActiveKeys = {}
    /\ pc' = "respond" /\ answer' = Error("no keys")
    /\ UNCHANGED <<attempts, cycles, layer, guardDue, target, selected, rescue, client,
                   outside, rejected>>

IsError(a) == a.kind \in UpstreamErrors \cup LocalErrors

\* All active keys were tried: the last upstream answer counts again.  When that was
\* a stream, its body has been read.
AllKeysTried ==
    /\ pc = "keys" /\ ActiveKeys # {} /\ Untried = {}
    /\ \/ /\ IsError(last[layer]) /\ NextLayer
          /\ Again(Reserved(attempts))
       \/ /\ ~(IsError(last[layer]) /\ HasNext)
          /\ pc' = "respond"
          /\ answer' = CASE last[layer].kind = "none" -> Error("no keys")
                         [] last[layer].kind = "stream" -> [last[layer] EXCEPT !.kind = "spent"]
                         [] OTHER -> last[layer]
          /\ UNCHANGED <<layer, attempts>>
    /\ UNCHANGED <<cycles, guardDue, target, selected, rescue, client, outside, rejected>>

\* Mutant: the cursor walks over all active keys.
SelectableAny == IF preferred[layer] \in Untried THEN {preferred[layer]} ELSE ActiveKeys

\* selectProviderKey: the preferred key, else the next one of a cursor all requests share
Selectable == IF preferred[layer] \in Untried THEN {preferred[layer]} ELSE Untried

\* checkAndServeCachedResponse writes a row of its own, not this request's row.
ServeFromCache ==
    /\ pc = "keys" /\ Untried # {} /\ "cached" \in Local
    /\ pc' = "done" /\ reply' = "ok" /\ output' = "visible"
    /\ UNCHANGED <<attempts, cycles, layer, guardDue, target, selected, answer, rescue,
                   row, outside, rejected>>

SelectKey ==
    /\ pc = "keys"
    /\ \E k \in Selectable : key' = k
    /\ offered' = ActiveKeys
    /\ row' = IF row = "none" THEN "queued" ELSE row
    /\ pc' = "queued"
    /\ UNCHANGED <<attempts, cycles, layer, guardDue, target, answer, rescue, output, reply,
                   outside, rejected>>

\* The first layer is ejected after it timed out (timeoutEject.ts).
SkipEjected ==
    /\ pc = "queued" /\ layer = 1 /\ "ejected" \in Local
    /\ \/ /\ NextLayer /\ attempts' = Reserved(attempts) /\ pc' = "loop" /\ UNCHANGED answer
       \/ /\ ~HasNext /\ pc' = "respond" /\ answer' = Error("ejected")
          /\ UNCHANGED <<layer, attempts>>
    /\ UNCHANGED <<cycles, guardDue, target, selected, rescue, client, outside, rejected>>

\* The provider queue gives its slot; the client may have left while it waited.
StartFetch ==
    /\ pc = "queued"
    /\ pc' = "fetch"
    /\ UNCHANGED <<attempts, cycles, layer, guardDue, target, selected, answer, rescue,
                   client, outside, rejected>>

\* The errors that handleGatewayResponse hands back unsent.
Retryable(kind) ==
    kind \in {"rate", "overloaded"}
             \cup IF OpenRouter THEN {"auth", "no provider", "capacity"} ELSE {}

FetchReturns ==
    /\ pc = "fetch"
    /\ \E kind \in Answers \ (IF streaming THEN {} ELSE {"stream"}) :
          answer' = [kind |-> kind, key |-> key, offered |-> offered,
                     retryable |-> Retryable(kind)]
    /\ pc' = "judge"
    /\ UNCHANGED <<attempts, cycles, layer, guardDue, target, selected, rescue, client,
                   outside, rejected>>

-----------------------------------------------------------------------------
(* An answer is judged before anything of it is sent.                      *)

Judging == pc = "judge" /\ connected

LeftBeforeJudging == pc = "judge" /\ Close

\* Mutant: the capacity retry is not counted.
CapacityRetryUncounted ==
    /\ Judging /\ answer.kind = "capacity"
    /\ cap[layer] < CapRetries /\ ~capDone[layer]
    /\ preferred' = [preferred EXCEPT ![layer] = key]
    /\ Again(attempts - 1)
    /\ UNCHANGED <<cycles, layer, guardDue, tried, last, rewritten, capacity, selected,
                   rescue, client, outside, rejected>>

\* Same key, without spending an attempt, while the model's capacity budget lasts
CapacityRetry ==
    /\ Judging /\ answer.kind = "capacity"
    /\ cap[layer] < CapRetries /\ ~capDone[layer]
    /\ cap' = [cap EXCEPT ![layer] = @ + 1]
    /\ preferred' = [preferred EXCEPT ![layer] = key]
    /\ Again(attempts - 1)
    /\ UNCHANGED <<cycles, layer, guardDue, tried, last, rewritten, capDone, selected,
                   rescue, client, outside, rejected>>

\* ContinuityEngine.evaluateAll: the first strategy that has a retry left
ThinkIntervenes(kind) == kind = "reasoning" /\ thinkTries < MaxReasoning
EmptyIntervenes(kind) == kind \in Blank /\ ~ThinkIntervenes(kind) /\ emptyTries < MaxEmpty
Intervenes(kind) == ThinkIntervenes(kind) \/ EmptyIntervenes(kind)
Exhausted(kind) == kind \in Blank /\ ~Intervenes(kind)

CountIntervention(kind) ==
    /\ thinkTries' = IF ThinkIntervenes(kind) THEN thinkTries + 1 ELSE thinkTries
    /\ emptyTries' = IF EmptyIntervenes(kind) THEN emptyTries + 1 ELSE emptyTries
    /\ UNCHANGED compressed

\* Stage 1: a JSON answer without a visible word is asked for again.
BlankRetry ==
    /\ Judging /\ Intervenes(answer.kind) /\ cycles < MaxCycles
    /\ CountIntervention(answer.kind)
    /\ cycles' = cycles + 1
    /\ Again(attempts - 1)
    /\ UNCHANGED <<layer, guardDue, target, selected, client, outside, rejected>>

\* applyEmptyOutputLayerHop
BlankHop ==
    /\ Judging /\ Exhausted(answer.kind)
    /\ NextLayer /\ guardDue' = TRUE
    /\ Again(Reserved(attempts) - 1)
    /\ UNCHANGED <<cycles, target, selected, rescue, client, outside, rejected>>

CapacitySpent == capDone[layer] \/ cap[layer] >= CapRetries

\* What every later branch records of the answer: capacity exhaustion, lastUpstreamError
Recorded ==
    /\ capDone' = [capDone EXCEPT ![layer] = CapacitySpent]
    /\ last' = [last EXCEPT ![layer] =
                   [answer EXCEPT !.retryable = answer.retryable /\ ~CapacitySpent]]

\* The body is accepted: forwarded as it is, or with the words of the exhausted hook.
AcceptAnswer ==
    /\ Judging
    /\ answer.kind \in Successes \cup {"stream"}
    /\ ~(Intervenes(answer.kind) /\ cycles < MaxCycles)
    /\ ~(Exhausted(answer.kind) /\ HasNext)
    /\ IF Intervenes(answer.kind)
       THEN CountIntervention(answer.kind) /\ UNCHANGED answer
       ELSE /\ answer' = IF Exhausted(answer.kind)
                         THEN [answer EXCEPT !.kind = "ok"] ELSE answer
            /\ UNCHANGED rescue
    /\ Recorded
    /\ pc' = "respond"
    /\ UNCHANGED <<attempts, cycles, layer, guardDue, targetKeys, rewritten, cap, selected,
                   client, outside, rejected>>

\* planConstraintRecovery: the body is rewritten once for this model
RewriteBody ==
    /\ Judging /\ answer.kind = "rejected" /\ ~rewritten[layer]
    /\ rewritten' = [rewritten EXCEPT ![layer] = TRUE]
    /\ preferred' = [preferred EXCEPT ![layer] = key]
    /\ Again(attempts - 1)
    /\ UNCHANGED <<cycles, layer, guardDue, tried, last, capacity, selected, rescue, client,
                   outside, rejected>>

\* compressGatewayContext, once a request; it may fail, then the error is judged on
CompressContext ==
    /\ Judging /\ answer.kind = "too long" /\ ~compressed
    /\ compressed' = TRUE
    /\ Again(attempts - 1)
    /\ UNCHANGED <<cycles, layer, guardDue, target, selected, emptyTries, thinkTries, client,
                   outside, rejected>>

JudgedError ==
    /\ Judging /\ answer.kind \in UpstreamErrors
    /\ ~(answer.kind = "capacity" /\ cap[layer] < CapRetries /\ ~capDone[layer])
    /\ ~(answer.kind = "rejected" /\ ~rewritten[layer])

\* processErrorRetryLogic blames the key ...
BlamesKey == answer.kind \in KeyFaults \cup {"server"} /\ ~CapacitySpent
StillUntried == offered \ (tried[layer] \cup {key})
\* ... and tries it once more when a 500 leaves no other key
ServerRetry ==
    BlamesKey /\ answer.kind = "server" /\ StillUntried = {} /\ attempts < MaxAttempts

Blame ==
    /\ tried' = IF BlamesKey /\ ~ServerRetry
                THEN [tried EXCEPT ![layer] = @ \cup {key}] ELSE tried
    /\ active' = IF BlamesKey /\ answer.kind = "quota" THEN active \ {key} ELSE active
    /\ rejected' = IF answer.kind \in KeyFaults THEN rejected \cup {<<layer, key>>} ELSE rejected
    /\ UNCHANGED <<streaming, connected, enabled>>

RetriesProvider == ServerRetry \/ (BlamesKey /\ StillUntried # {})

RetryProvider ==
    /\ JudgedError /\ RetriesProvider
    /\ Recorded /\ Blame
    /\ preferred' = [preferred EXCEPT ![layer] = NoKey]
    /\ Again(IF StillUntried # {} THEN attempts - 1 ELSE attempts)
    /\ UNCHANGED <<cycles, layer, guardDue, rewritten, cap, selected, rescue, client>>

\* checkErrorFallback
FallBack ==
    /\ JudgedError /\ ~RetriesProvider
    /\ Recorded /\ Blame
    /\ NextLayer
    /\ Again(Reserved(attempts))
    /\ UNCHANGED <<cycles, guardDue, preferred, rewritten, cap, selected, rescue, client>>

\* A 5xx of the last layer is retried while attempts last, unless its capacity is spent.
LastLayerRetry ==
    /\ ~CapacitySpent /\ attempts < MaxAttempts
    /\ answer.kind \in Unavailable \cup {"server"}

RetryLastLayer ==
    /\ JudgedError /\ ~RetriesProvider /\ ~HasNext /\ LastLayerRetry
    /\ Recorded /\ Blame
    /\ Again(attempts)
    /\ UNCHANGED <<cycles, layer, guardDue, preferred, rewritten, cap, selected, rescue, client>>

\* Mutant: a rate limit is not among the statuses that fall back.
GiveUpRateLimited ==
    /\ JudgedError /\ ~RetriesProvider /\ (~HasNext \/ answer.kind = "rate") /\ ~LastLayerRetry
    /\ Recorded /\ Blame
    /\ pc' = "respond"
    /\ answer' = [answer EXCEPT !.retryable = FALSE]
    /\ UNCHANGED <<attempts, cycles, layer, guardDue, preferred, rewritten, cap, selected,
                   rescue, client>>

GiveUp ==
    /\ JudgedError /\ ~RetriesProvider /\ ~HasNext /\ ~LastLayerRetry
    /\ Recorded /\ Blame
    /\ pc' = "respond"
    /\ answer' = [answer EXCEPT !.retryable = answer.retryable /\ ~CapacitySpent]
    /\ UNCHANGED <<attempts, cycles, layer, guardDue, preferred, rewritten, cap, selected,
                   rescue, client>>

-----------------------------------------------------------------------------
(* The answer is sent, forwarded, or handed to the decision matrix.        *)

Responding == pc = "respond"

\* handleGatewayResponse answers 500 for a missing answer, the executor then trips over
\* it; a stream whose reader is taken cannot be forwarded again.
InternalError ==
    /\ Responding /\ answer.kind \in {"none", "spent"} /\ connected
    /\ pc' = "done" /\ reply' = "internal"
    /\ Logged("failed")
    /\ UNCHANGED <<attempts, cycles, layer, guardDue, target, selected, answer, rescue, output,
                   outside, rejected>>

\* A client that left shows when a write fails or its stream is closed, maybe after words.
LeftWhileResponding ==
    /\ Responding /\ ~connected
    /\ answer.kind \in {"none", "spent", "stream"} \cup IF streaming THEN Successes ELSE {}
    /\ output' \in {output} \cup IF answer.kind \in Successes \cup {"stream"}
                                 THEN {"visible"} ELSE {}
    /\ Logged(IF output' = "none" THEN "failed" ELSE "success")
    /\ pc' = "done" /\ reply' = "closed"
    /\ UNCHANGED <<attempts, cycles, layer, guardDue, target, selected, answer, rescue, outside,
                   rejected>>

SendAnswer ==
    /\ Responding /\ ~streaming /\ answer.kind \in Successes
    /\ Logged("success")
    /\ pc' = "done" /\ reply' = "ok" /\ output' = "visible"
    /\ UNCHANGED <<attempts, cycles, layer, guardDue, target, selected, answer, rescue, outside,
                   rejected>>

\* An error of the gateway carries no terminalError: a streaming request goes on to the
\* continuity check and finalizes its log a second time.
SendError ==
    /\ Responding /\ IsError(answer) /\ ~answer.retryable
    /\ Logged("failed")
    /\ reply' = "error"
    /\ pc' = IF streaming /\ answer.kind \in LocalErrors THEN "stage2" ELSE "done"
    /\ UNCHANGED <<attempts, cycles, layer, guardDue, target, selected, answer, rescue, output,
                   outside, rejected>>

HandBack ==
    /\ Responding /\ IsError(answer) /\ answer.retryable
    /\ pc' = "matrix"
    /\ UNCHANGED <<attempts, cycles, layer, guardDue, target, selected, answer, rescue, client,
                   outside, rejected>>

\* A JSON answer to a streaming request is forwarded as a fake stream.
ForwardFakeStream ==
    /\ Responding /\ streaming /\ answer.kind \in Successes /\ connected
    /\ pc' = "stage2"
    /\ output' = CASE answer.kind = "ok" -> "visible"
                   [] answer.kind = "reasoning" /\ output = "none" -> "thinking"
                   [] OTHER -> output
    /\ UNCHANGED <<attempts, cycles, layer, guardDue, target, selected, answer, rescue, reply,
                   row, outside, rejected>>

\* Mutant: a stream cut after words is replaced like one that showed nothing.
ForwardStreamCutReplaced ==
    /\ Responding /\ answer.kind = "stream" /\ connected
    /\ \E end \in StreamEnds :
          /\ answer' = [answer EXCEPT !.kind = end]
          /\ pc' = IF end \in {"shown", "empty", "thinking"} THEN "stage2" ELSE "matrix"
          /\ output' = IF end \in {"shown", "cut"} THEN "visible" ELSE output
    /\ UNCHANGED <<attempts, cycles, layer, guardDue, target, selected, rescue, reply, row,
                   outside, rejected>>

\* forwardStream: the stream ends, shows nothing but thoughts, or fails.
ForwardStream ==
    /\ Responding /\ answer.kind = "stream" /\ connected
    /\ \E end \in StreamEnds :
          /\ answer' = [answer EXCEPT !.kind = end]
          /\ pc' = CASE end \in {"shown", "empty", "thinking"} -> "stage2"
                     [] end = "cut" -> "failing"
                     [] OTHER -> "matrix"
          /\ output' = CASE end \in {"shown", "cut"} -> "visible"
                         [] end = "thinking" /\ output = "none" -> "thinking"
                         [] OTHER -> output
          /\ reply' = IF end = "cut" THEN "error" ELSE reply
          /\ rejected' = IF end \in KeyFaults
                         THEN rejected \cup {<<layer, answer.key>>} ELSE rejected
    /\ UNCHANGED <<attempts, cycles, layer, guardDue, target, selected, rescue, row, outside>>

-----------------------------------------------------------------------------
(* The decision matrix: nothing of the answer was shown, so it can be       *)
(* replaced.                                                               *)

Deciding == pc = "matrix" /\ connected

LeftBeforeDeciding == pc = "matrix" /\ Close

StreamCapacityRetry ==
    /\ Deciding /\ answer.kind = "capacity" /\ ~CapacitySpent
    /\ cap' = [cap EXCEPT ![layer] = @ + 1]
    /\ capDone' = [capDone EXCEPT ![layer] = cap[layer] + 1 >= CapRetries]
    /\ preferred' = [preferred EXCEPT ![layer] = answer.key]
    /\ NewRound(attempts - 1)
    /\ UNCHANGED <<cycles, layer, guardDue, tried, last, rewritten, selected, rescue, client,
                   outside, rejected>>

Rotatable == {"rate"} \cup IF OpenRouter THEN {"auth", "no provider"} ELSE {}
\* an availability hop comes before any key rotation
HopsFirst == answer.kind \in Unavailable /\ HasNext
Rotates ==
    /\ answer.kind \in Rotatable /\ ~HopsFirst
    /\ answer.offered \ (tried[layer] \cup {answer.key}) # {}
\* the matrix marks the key of a rotatable error, and of spent capacity, as tried
MarkTried ==
    IF ~HopsFirst /\ answer.kind \in Rotatable \cup {"capacity"}
    THEN /\ tried' = [tried EXCEPT ![layer] = @ \cup ({answer.key} \ {NoKey})]
         /\ preferred' = [preferred EXCEPT ![layer] = NoKey]
    ELSE UNCHANGED targetKeys

DecideAfterCapacity ==
    /\ Deciding
    /\ ~(answer.kind = "capacity" /\ ~CapacitySpent)
    /\ capDone' = IF answer.kind = "capacity" THEN [capDone EXCEPT ![layer] = TRUE] ELSE capDone
    /\ MarkTried
    /\ UNCHANGED <<cycles, guardDue, last, rewritten, cap, selected, rescue, output, row, outside,
                   rejected>>

RotateKey ==
    /\ DecideAfterCapacity /\ Rotates
    /\ NewRound(attempts - 1)
    /\ UNCHANGED <<layer, reply>>

StreamFallBack ==
    /\ DecideAfterCapacity /\ ~Rotates
    /\ NextLayer
    /\ NewRound(Reserved(attempts))
    /\ UNCHANGED reply

\* finalizeGatewayTerminalFailure ends the reply first ...
StreamGiveUp ==
    /\ DecideAfterCapacity /\ ~Rotates /\ ~HasNext
    /\ pc' = "failing" /\ reply' = "error"
    /\ UNCHANGED <<attempts, layer, answer>>

\* Mutant: the failure is not logged.
LogFailureSkipped ==
    /\ pc = "failing"
    /\ pc' = "done"
    /\ UNCHANGED <<attempts, cycles, layer, guardDue, target, selected, answer, rescue, client,
                   outside, rejected>>

\* ... and awaits the final log afterwards.
LogFailure ==
    /\ pc = "failing"
    /\ Logged("failed")
    /\ pc' = "done"
    /\ UNCHANGED <<attempts, cycles, layer, guardDue, target, selected, answer, rescue, output,
                   reply, outside, rejected>>

-----------------------------------------------------------------------------
(* Stage 2: a streamed round without a visible word is not the end.        *)

Round2Retry ==
    /\ pc = "stage2" /\ Intervenes(answer.kind) /\ cycles < MaxCycles
    /\ CountIntervention(answer.kind)
    /\ cycles' = cycles + 1
    /\ Again(0)
    /\ UNCHANGED <<layer, guardDue, target, selected, client, outside, rejected>>

\* The hop of an exhausted EmptyOutput is not held back by the cycle limit: after the
\* last cycle the loop ends and only the stream events are closed.
Round2Hop ==
    /\ pc = "stage2" /\ Exhausted(answer.kind)
    /\ NextLayer /\ guardDue' = TRUE
    /\ cycles' = cycles + 1
    /\ answer' = NoAnswer
    /\ attempts' = 0
    /\ IF cycles < MaxCycles
       THEN pc' = "loop" /\ UNCHANGED reply
       ELSE pc' = "done" /\ reply' = "ok"
    /\ UNCHANGED <<target, selected, rescue, output, row, outside, rejected>>

\* finalizeGatewayStreamOnce
Finalize ==
    /\ pc = "stage2"
    /\ ~(Intervenes(answer.kind) /\ cycles < MaxCycles)
    /\ ~(Exhausted(answer.kind) /\ HasNext)
    /\ CountIntervention(answer.kind)
    /\ \/ Logged("success")
       \/ answer.kind = "empty" /\ Logged("failed")
    /\ pc' = "done"
    /\ reply' = IF reply = "open" THEN "ok" ELSE reply
    /\ output' = IF Exhausted(answer.kind) THEN "visible" ELSE output
    /\ UNCHANGED <<attempts, cycles, layer, guardDue, target, selected, answer, outside, rejected>>

-----------------------------------------------------------------------------
(* What happens meanwhile.                                                 *)

inside == <<pc, attempts, cycles, layer, guardDue, target, selected, answer, rescue, client,
            rejected>>

Disconnect ==
    /\ connected /\ pc # "done"
    /\ connected' = FALSE
    /\ UNCHANGED <<streaming, active, enabled, inside>>

\* Another request finds the key out of quota, or an administrator withdraws it.
KeyLost ==
    /\ "key lost" \in Changes /\ pc # "done"
    /\ \E k \in active : active' = active \ {k}
    /\ UNCHANGED <<streaming, connected, enabled, inside>>

DisableProvider ==
    /\ "disabled" \in Changes /\ pc # "done"
    /\ \E p \in enabled : enabled' = enabled \ {p}
    /\ UNCHANGED <<streaming, connected, active, inside>>

Ended == pc = "done" /\ UNCHANGED vars

Attempt ==
    \/ LeftBeforeAttempt \/ StartAttempt \/ LoopGuardStops \/ ProviderDisabled \/ HourlyLimit
    \/ ConcurrencyHop \/ UseProvider \/ NoActiveKeys \/ AllKeysTried \/ ServeFromCache
    \/ SelectKey \/ SkipEjected \/ StartFetch \/ FetchReturns

Judge ==
    \/ LeftBeforeJudging \/ CapacityRetry \/ BlankRetry \/ BlankHop \/ AcceptAnswer
    \/ RewriteBody \/ CompressContext \/ RetryProvider \/ FallBack \/ RetryLastLayer \/ GiveUp

Respond ==
    \/ InternalError \/ LeftWhileResponding \/ SendAnswer \/ SendError \/ HandBack
    \/ ForwardFakeStream \/ ForwardStream

Rescue ==
    \/ LeftBeforeDeciding \/ StreamCapacityRetry \/ RotateKey \/ StreamFallBack
    \/ StreamGiveUp \/ LogFailure \/ Round2Retry \/ Round2Hop \/ Finalize

Step == Attempt \/ Judge \/ Respond \/ Rescue

Next == Step \/ Disconnect \/ KeyLost \/ DisableProvider \/ Ended

Spec == Init /\ [][Next]_vars

\* The executor always takes its next step; upstream calls and queues end by timeout.
FairSpec == Spec /\ WF_vars(Step)

-----------------------------------------------------------------------------
(* Correctness.                                                            *)

\* Every request comes to an end, although capacity retries, key rotation, rewrites and
\* blank rounds give their attempt back (gatewayExecutor.ts, attemptCount--).
Terminates == <>(pc = "done")

\* A key an upstream has blamed at a layer is not sent to that layer again
\* (triedKeyIds, selectProviderKey and the decision matrix).
BlamedKeyNotReused == pc = "fetch" => <<layer, key>> \notin rejected

\* Once the client has seen a word of the answer no other upstream call begins: neither
\* the matrix nor the continuity check replaces an answer that was shown.
NoFetchAfterVisible == [][pc # "fetch" /\ pc' = "fetch" => output # "visible"]_vars

\* An upstream error reaches the client only from the last layer, unless words were
\* already shown (checkErrorFallback and the matrix, tried in every branch).
ErrorsFunnelDown ==
    pc = "done" /\ reply = "error" /\ answer.kind \in UpstreamErrors => layer = LastLayer

\* A rate limit or a rejected key is reported only after every key that is still active has
\* been tried, while the capacity budget of the model lasts.
KeysTriedFirst ==
    pc = "done" /\ reply = "error" /\ answer.kind \in {"quota", "auth", "rate"}
        /\ ~capDone[layer]
    => answer.offered \cap active \subseteq tried[layer]

\* Keys rotate: a blamed key is not asked again, and every other active key is asked before
\* the error of a key is reported.
KeysRotate == BlamedKeyNotReused /\ KeysTriedFirst

\* What can be asked is asked before an error is reported: every layer of the funnel, on the
\* last of them every active key, and none of the keys that were blamed twice.
AllAsked == KeysRotate /\ ErrorsFunnelDown

\* A request never ends with an error of the gateway's own making.
NoInternalError == reply # "internal"

\* The row of an ended request says how it ended.
LogAgrees ==
    /\ pc = "done" => row # "queued"
    /\ pc = "done" /\ reply = "error" => row # "success"

\* What a request ends with is the answer or the error of an upstream, and its row says so.
EndIsTrue == NoInternalError /\ LogAgrees

=============================================================================
