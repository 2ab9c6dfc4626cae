--------------------------- MODULE StrategyRoute ---------------------------
(***************************************************************************)
(* The way of one request through the funnel of a route in strategy mode.     *)
(*                                                                         *)
(* A layer has a model of its own and rules: for requests with images, for    *)
(* long ones, and for the rest.  A request is moved by the class of its task  *)
(* (services/strategyRouting.ts), by its size (gatewayExecutor.ts 8 and the   *)
(* chain of longContextChain.ts), by the guard for images, by a busy provider *)
(* or an error (fallback.ts), and by an answer without content                *)
(* (emptyOutputLayerHop.ts), and it is cut or summarized where nothing else   *)
(* helps.  What an attempt does with keys, slots and the reply is the subject *)
(* of GatewayAttempts; here it is an outcome.                                 *)
(***************************************************************************)
EXTENDS Integers, Sequences, FiniteSetsExt

CONSTANTS
    Models,       \* provider and model, the modelKey of longContextChain.ts
    NoModel,      \* a rule that is not there
    Cases,        \* the routes and requests of an instance, see given
    SizeGate,     \* LONG_CONTEXT_SIZE_GATE_TOKENS
    TokenFloor,   \* LONG_CONTEXT_STRATEGY_MIN_INPUT_TOKENS
    RetryCount,   \* retryCount of the route
    MaxCycles,    \* MAX_CONTINUITY_CYCLES
    MaxBlanks,    \* EmptyOutputStrategy.maxRetries
    MaxBusy       \* bound: how often a provider's queue is found full

ASSUME StrategyAssumption ==
    /\ NoModel \notin Models
    /\ {SizeGate, TokenFloor, RetryCount, MaxCycles, MaxBlanks, MaxBusy} \subseteq Nat
    /\ SizeGate <= TokenFloor /\ MaxBlanks # 0

\* Rules of a layer: vision, long_context, general.  A body: its size and whether it has images.
Tasks == {"none", "vision", "long_context", "general"}
Bodies == [size : Nat, images : BOOLEAN]
Rules == Models \cup {NoModel}
LayerRecords == [model : Models, vision : Rules, long_context : Rules, general : Rules,
                 enabled : BOOLEAN, compress : BOOLEAN]

ASSUME CasesAssumption == \A case \in Cases :
    /\ case.layers \in Seq(LayerRecords) /\ case.layers # <<>>
    /\ case.window \in [Models -> Nat] /\ case.valid \subseteq Models
    /\ case.body \in Bodies /\ case.task \in Tasks /\ case.quota \in Nat

VARIABLES
    given,       \* the route and the request: layers, window of each model (0: unknown), the models
                 \* a rule may name (valid), the uncut body, the class of the task, the quota of
                 \* input tokens (0: none), streaming, and the sticky model of a tool continuation
    body,
    at,          \* currentAttempt: layer, model, strategyTaskType, isFallback, reapplyLayerStrategy
    checked,     \* strategyRoutingChecked
    override,    \* longContextOverrideApplied
    hopped,      \* overflowHopApplied
    layerHopped, \* emptyOutputLayerHopApplied
    compressed,  \* contextCompressed
    failed,      \* failedModelKeys
    attempts,    \* attemptCount
    cycles,      \* continuityCycles
    blanks,      \* strategyRetries of EmptyOutput
    busy,
    pc,
    asked        \* history: models that were asked, or passed over because they could not be

flags == <<checked, override, hopped, layerHopped, compressed>>
counts == <<attempts, cycles, blanks, busy>>
strategyVars == <<given, body, at, flags, failed, counts, pc, asked>>

----------------------------------------------------------------------------
(* The rules of the layers.                                                  *)

layers == given.layers

\* maxAttempts of gatewayHandlers.ts: one for each layer, and the retries of the route.
MaxAttempts == RetryCount + Len(layers)

Layer == layers[at.layer]
Fits(size, model) == given.window[model] = 0 \/ size <= given.window[model]
Valid(model) == model \in given.valid

\* findStrategyRule: the rule of the task, or the general one.
RuleFor(l, task) == IF l[task] # NoModel THEN l[task] ELSE l["general"]

Target(i, model, task) ==
    [layer |-> i, model |-> model, task |-> task, fallback |-> TRUE, reapply |-> FALSE]

\* The target of the first layer of a set, as a set of one or none.
First(S, task) ==
    IF S = {} THEN {} ELSE LET i == Min(S) IN {Target(i, layers[i][task], task)}

\* findLongContextTarget: the first layer from start on whose long_context rule can take the
\* request and was not tried.
LongTargets(start, size, exclude) ==
    First({i \in start..Len(layers) :
              /\ layers[i].enabled
              /\ layers[i].long_context \notin exclude \cup {NoModel}
              /\ Valid(layers[i].long_context)
              /\ Fits(size, layers[i].long_context)},
          "long_context")

\* findVisionFallbackTarget: from the first layer on.
VisionTargets(exclude) ==
    First({i \in DOMAIN layers : layers[i].vision \notin exclude \cup {NoModel}}, "vision")

\* The class of the request; a long context needs more than the floor.
Gated(task, size) ==
    IF task = "long_context" /\ size <= TokenFloor THEN "general" ELSE task

\* resolveFallbackStrategyRoutingDecision: the rule of a later layer, unless it is invalid, the
\* layer's own model or the one that failed.
LayerTarget(i, b) ==
    LET task == Gated(IF at.task = "none" THEN given.task ELSE at.task, b.size)
        rule == RuleFor(layers[i], task)
    IN  IF /\ layers[i].enabled
           /\ rule \notin {NoModel, layers[i].model, at.model}
           /\ Valid(rule)
        THEN Target(i, rule, task)
        ELSE Target(i, layers[i].model, "none")

\* resolveFallbackTarget without the long-context chain: later layers, for images only those
\* with a rule for images.
LayerTargets(b) ==
    LET later == at.layer + 1..Len(layers)
    IN  IF b.images
        THEN First({i \in later : layers[i].vision # NoModel}, "vision")
        ELSE IF later = {} THEN {} ELSE {LayerTarget(Min(later), b)}

\* Mutant: images end with the chain.
ChainOnly(b, exclude) == LongTargets(at.layer + 1, b.size, exclude)

\* resolveLongContextChainTarget: the next of the chain, then a model for images.
ChainTargets(b, exclude) ==
    LET next == LongTargets(at.layer + 1, b.size, exclude)
    IN  IF next # {} \/ ~b.images THEN next ELSE VisionTargets(exclude)

FallbackTargets(b, tried) ==
    LET chain == IF at.task = "long_context"
                 THEN ChainTargets(b, tried \cup {at.model}) ELSE {}
    IN  IF chain # {} THEN chain ELSE LayerTargets(b)

\* applyInputTokenLimit: the oldest turns are dropped, with their images, or the text is
\* shortened; a body in which nothing may be cut is left.
Cut(b, limit) ==
    IF limit = 0 \/ b.size <= limit THEN {b}
    ELSE {b} \cup [size : {limit}, images : {FALSE, b.images}]

\* compressGatewayContext: older turns become a summary, their images a description.
Summaries(b) == [size : 1..b.size, images : {FALSE, b.images}]

\* reserveAttemptBudgetForLayerSwitch: one attempt is left for the next layer.
Reserve(n) == IF n >= MaxAttempts THEN MaxAttempts - 1 ELSE n

----------------------------------------------------------------------------
TypeOK ==
    /\ given \in Cases /\ body \in Bodies
    /\ at \in [layer : DOMAIN layers, model : Models, task : Tasks,
               fallback : BOOLEAN, reapply : BOOLEAN]
    /\ {checked, override, hopped, layerHopped, compressed} \subseteq BOOLEAN
    /\ failed \subseteq Models /\ asked \subseteq Models
    /\ attempts \in -1..MaxAttempts /\ cycles \in 0..MaxCycles + 1
    /\ blanks \in 0..MaxBlanks /\ busy \in 0..MaxBusy
    /\ pc \in {"loop", "capacity", "admit", "guard", "fetch", "done", "failed"}

StrategyInit ==
    /\ given \in Cases
    /\ body = given.body
    /\ at = [Target(1, layers[1].model, "none") EXCEPT !.fallback = FALSE]
    /\ checked = FALSE /\ override = FALSE /\ hopped = FALSE /\ layerHopped = FALSE
    /\ compressed = FALSE
    /\ failed = {} /\ asked = {}
    /\ attempts = 0 /\ cycles = 0 /\ blanks = 0 /\ busy = 0
    /\ pc = "loop"

----------------------------------------------------------------------------
(* The head of the loop: the quota of the user, and the choice by task.      *)

\* enforceInputTokenLimit
Quota(b) ==
    IF attempts = 0 /\ ~hopped /\ ~layerHopped THEN Cut(b, given.quota) ELSE {b}

Switched(rule, task) ==
    [at EXCEPT !.model = rule, !.task = task, !.reapply = FALSE]

\* A valid rule for another model than the current one moves the request; otherwise nothing
\* changes, not even the task noted.
Applied(rule, task) ==
    IF rule \notin {NoModel, at.model} /\ Valid(rule) THEN Switched(rule, task) ELSE at

\* A tool continuation stays on the model of the turn before, where a rule still names it.
Inherited ==
    IF given.previous \in {layers[1].model} \cup {Layer[t] : t \in Tasks \ {"none"}}
    THEN Applied(given.previous, "general") ELSE at

\* After a hop a request keeps its class, if the new layer has a valid rule for it.
Reapplies(rule) == at.reapply /\ at.task = "general" /\ rule # NoModel /\ Valid(rule)

\* The class of a request that is looked at afresh.
FreshTask(b) == Gated(given.task, b.size)

\* resolveStrategyRoutingDecision
Decided(b) ==
    LET inherited == RuleFor(Layer, at.task)
        task      == FreshTask(b)
    IN  IF b.images THEN Applied(Layer.vision, "vision")
        ELSE IF Reapplies(inherited) THEN Applied(inherited, at.task)
        ELSE IF given.continuation /\ ~at.reapply THEN Inherited
        ELSE Applied(RuleFor(Layer, task), task)

ChooseByTask ==
    /\ pc = "loop" /\ attempts < MaxAttempts
    /\ attempts' = attempts + 1
    /\ body' \in Quota(body)
    /\ IF ~checked /\ (at.fallback => at.reapply)
       THEN checked' = TRUE /\ at' = IF Layer.enabled THEN Decided(body') ELSE at
       ELSE UNCHANGED <<checked, at>>
    /\ pc' = "capacity"
    /\ UNCHANGED <<given, override, hopped, layerHopped, compressed, failed, cycles, blanks,
                   busy, asked>>

----------------------------------------------------------------------------
(* The size of the request against the window of its model.                  *)

Limit == given.window[at.model]
Exhausted == ~Fits(body.size, at.model)

\* The check is made once per override, for the models of layers with strategy routing.
MeasuresCapacity ==
    /\ ~override /\ Layer.enabled /\ at.task # "long_context"
    /\ Limit > 0 \/ body.size > SizeGate

\* reachesCompressFill: at 80 % of the window.
MustCompress ==
    /\ MeasuresCapacity /\ Layer.compress /\ ~compressed
    /\ Limit > 0 /\ body.size >= (Limit * 8) \div 10

\* A later model for images whose window is large enough.
LargerVision ==
    First({i \in at.layer + 1..Len(layers) :
              /\ layers[i].vision \notin {NoModel, at.model}
              /\ Valid(layers[i].vision) /\ Fits(body.size, layers[i].vision)},
          "vision")

\* Where an image request that does not fit goes: the long-context chain, or a later model for
\* images whose window is large enough.
OverflowTargets ==
    LET chain == LongTargets(at.layer, body.size, failed \cup {at.model})
    IN  IF chain # {} THEN chain ELSE LargerVision

ImagesOverflow == MeasuresCapacity /\ ~Layer.compress /\ body.images /\ Exhausted

\* Where a text request goes that does not fit, or is above the size gate: the rule of its layer.
LongText ==
    /\ MeasuresCapacity /\ ~Layer.compress /\ ~body.images
    /\ Exhausted \/ body.size > SizeGate
    /\ Layer.long_context # NoModel /\ Valid(Layer.long_context)

\* The loop begins again with another target, at no cost.
MovesTo(t) ==
    /\ at' = [t EXCEPT !.fallback = at.fallback, !.reapply = at.reapply]
    /\ attempts' = attempts - 1
    /\ pc' = "loop"

HopForSize ==
    /\ pc = "capacity"
    /\ \/ /\ ImagesOverflow
          /\ \E t \in OverflowTargets :
                 MovesTo(t) /\ override' = (t.task = "long_context")
       \/ /\ LongText /\ Layer.long_context # at.model
          /\ MovesTo(Target(at.layer, Layer.long_context, "long_context"))
          /\ override' = TRUE
    /\ hopped' = TRUE
    /\ UNCHANGED <<given, body, checked, layerHopped, compressed, failed, cycles, blanks, busy,
                   asked>>

\* applyForcedInputTokenLimit, for a request that was moved for its size.
StaysOn(bodies) ==
    /\ body' \in UNION {IF hopped' THEN Cut(b, Limit) ELSE {b} : b \in bodies}
    /\ pc' = "admit"
    /\ UNCHANGED <<given, at, checked, override, layerHopped, failed, counts, asked>>

Compress ==
    /\ pc = "capacity" /\ MustCompress
    /\ UNCHANGED hopped
    /\ \/ StaysOn(UNION {Cut(b, Limit) : b \in Summaries(body)}) /\ compressed' = TRUE
       \/ StaysOn(Cut(body, Limit)) /\ UNCHANGED compressed

Stay ==
    /\ pc = "capacity" /\ ~MustCompress
    /\ hopped' = (hopped \/ LongText)
    /\ \/ ImagesOverflow /\ OverflowTargets = {} /\ StaysOn(Cut(body, Limit))
       \/ ~ImagesOverflow /\ ~(LongText /\ Layer.long_context # at.model) /\ StaysOn({body})
    /\ UNCHANGED compressed

----------------------------------------------------------------------------
(* Before the fetch.                                                         *)

Takes(t) ==
    /\ at' = t
    /\ attempts' = Reserve(attempts)
    /\ pc' = "loop"

\* Mutant: the failed model is not noted.
ErrorForgotten(tried) ==
    /\ UNCHANGED failed
    /\ asked' = asked \cup {at.model}
    /\ LET targets == FallbackTargets(body, {})
       IN  IF targets = {} THEN pc' = "failed" /\ UNCHANGED <<at, attempts>>
           ELSE \E t \in targets : Takes(t)

\* checkErrorFallback: the failed model is noted also when there is nowhere to go.
ErrorFallback(tried) ==
    /\ failed' = tried
    /\ asked' = asked \cup {at.model}
    /\ LET targets == FallbackTargets(body, tried)
       IN  IF targets = {} THEN pc' = "failed" /\ UNCHANGED <<at, attempts>>
           ELSE \E t \in targets : Takes(t)

\* The hourly limit of the provider, no key, a body the adapter refuses.
Refused ==
    /\ pc = "admit"
    /\ ErrorFallback(failed \cup {at.model})
    /\ UNCHANGED <<given, body, flags, cycles, blanks, busy>>

\* checkConcurrencyFallback: the queue is full and there is another target; without one the
\* request waits in it.
Busy ==
    /\ pc = "admit" /\ busy < MaxBusy
    /\ \E t \in FallbackTargets(body, {}) : Takes(t)
    /\ busy' = busy + 1
    /\ asked' = asked \cup {at.model}
    /\ UNCHANGED <<given, body, flags, failed, cycles, blanks>>

Admit ==
    /\ pc = "admit"
    /\ pc' = "guard"
    /\ UNCHANGED <<given, body, at, flags, failed, counts, asked>>

\* The Vision Guard: images go to the model for images of the layer, or of a later one.
GuardTargets ==
    First({i \in at.layer..Len(layers) : layers[i].vision # NoModel}, "vision")

\* Mutant: a target of the fallback is trusted.
GuardFirst ==
    /\ pc = "guard"
    /\ ~body.images \/ override \/ Layer.vision = at.model \/ at.fallback
    /\ pc' = "fetch"
    /\ UNCHANGED <<given, body, at, flags, failed, counts, asked>>

Guard ==
    /\ pc = "guard"
    /\ IF ~body.images \/ override \/ Layer.vision = at.model
       THEN pc' = "fetch" /\ UNCHANGED <<at, attempts>>
       ELSE IF GuardTargets = {}
       THEN pc' = "failed" /\ UNCHANGED <<at, attempts>>
       ELSE \E t \in GuardTargets : /\ at' = [t EXCEPT !.task = "none"]
                                     /\ attempts' = attempts - 1
                                     /\ pc' = "loop"
    /\ UNCHANGED <<given, body, flags, failed, cycles, blanks, busy, asked>>

----------------------------------------------------------------------------
(* The outcome of the fetch.                                                 *)

Answered ==
    /\ pc = "fetch"
    /\ pc' = "done"
    /\ asked' = asked \cup {at.model}
    /\ UNCHANGED <<given, body, at, flags, failed, counts>>

\* An error of the upstream, before or within a stream, or a model without the capability.
Fails ==
    /\ pc = "fetch"
    /\ ErrorFallback(failed \cup {at.model})
    /\ UNCHANGED <<given, body, flags, cycles, blanks, busy>>

\* A transient error is tried again while the budget lasts.
Retry ==
    /\ pc = "fetch" /\ attempts < MaxAttempts
    /\ pc' = "loop"
    /\ asked' = asked \cup {at.model}
    /\ UNCHANGED <<given, body, at, flags, failed, counts>>

\* The upstream finds the request too long, on a layer that compresses.
CompressAfterOverflow ==
    /\ pc = "fetch" /\ Layer.compress /\ ~compressed
    /\ body' \in Summaries(body)
    /\ compressed' = TRUE
    /\ attempts' = attempts - 1
    /\ pc' = "loop"
    /\ asked' = asked \cup {at.model}
    /\ UNCHANGED <<given, at, checked, override, hopped, layerHopped, failed, cycles, blanks,
                   busy>>

\* The same on another layer: the long-context chain from this layer on.
HopAfterOverflow ==
    /\ pc = "fetch" /\ ~Layer.compress /\ at.task # "long_context"
    /\ failed' = failed \cup {at.model}
    /\ asked' = asked \cup {at.model}
    /\ \E t \in LongTargets(at.layer, body.size, failed') : Takes([t EXCEPT !.reapply = at.reapply])
    /\ override' = TRUE /\ hopped' = TRUE
    /\ UNCHANGED <<given, body, checked, layerHopped, compressed, cycles, blanks, busy>>

\* An answer without content: once more with the uncut body.
BlankAgain ==
    /\ pc = "fetch" /\ blanks < MaxBlanks
    /\ blanks' = blanks + 1
    /\ asked' = asked \cup {at.model}
    /\ IF cycles < MaxCycles
       THEN /\ body' = given.body
            /\ cycles' = cycles + 1
            /\ attempts' = IF given.streaming THEN 0 ELSE attempts - 1
            /\ pc' = "loop"
       ELSE pc' = "done" /\ UNCHANGED <<body, cycles, attempts>>
    /\ UNCHANGED <<given, at, flags, failed, busy>>

\* applyEmptyOutputLayerHop: the next layer, with the uncut body and all choices open again.
\* Only a hop after a stream counts as a cycle.
HopTargets ==
    LET later == at.layer + 1..Len(layers)
    IN  IF given.body.images
        THEN First({i \in later : layers[i].vision # NoModel}, "vision")
        ELSE IF later = {} THEN {} ELSE {Target(Min(later), layers[Min(later)].model, at.task)}

BlankHop ==
    /\ pc = "fetch" /\ blanks = MaxBlanks
    /\ asked' = asked \cup {at.model}
    /\ \E t \in HopTargets : at' = [t EXCEPT !.reapply = TRUE]
    /\ body' = given.body
    /\ checked' = FALSE /\ override' = FALSE /\ layerHopped' = TRUE
    /\ IF given.streaming
       THEN /\ cycles' = cycles + 1
            /\ attempts' = 0
            /\ pc' = IF cycles < MaxCycles THEN "loop" ELSE "done"
       ELSE attempts' = Reserve(attempts) - 1 /\ pc' = "loop" /\ UNCHANGED cycles
    /\ UNCHANGED <<given, hopped, compressed, failed, blanks, busy>>

BlankEnd ==
    /\ pc = "fetch" /\ blanks = MaxBlanks /\ HopTargets = {}
    /\ pc' = "done"
    /\ asked' = asked \cup {at.model}
    /\ UNCHANGED <<given, body, at, flags, failed, counts>>

----------------------------------------------------------------------------
StrategyNext ==
    \/ ChooseByTask \/ HopForSize \/ Compress \/ Stay
    \/ Refused \/ Busy \/ Admit \/ Guard
    \/ Answered \/ Fails \/ Retry \/ CompressAfterOverflow \/ HopAfterOverflow
    \/ BlankAgain \/ BlankHop \/ BlankEnd

StrategySpec == StrategyInit /\ [][StrategyNext]_strategyVars /\ WF_strategyVars(StrategyNext)

----------------------------------------------------------------------------
(* Properties.                                                               *)

VisionModels == {layers[i].vision : i \in DOMAIN layers}
LongModels == {layers[i].long_context : i \in DOMAIN layers}

\* Images are sent only to a model the route names for images or, when they do not fit, for
\* long contexts, however often the request was moved, cut and restored ("Images stay on
\* vision", degradePolicy.ts).  After a long-context move a blank answer may bring back images
\* that had been cut, and the guard is off: that case is excepted.
ImagesSeen ==
    (pc = "fetch" /\ body.images /\ (override => blanks = 0))
    => at.model \in VisionModels \cup LongModels

\* A request with images fails only after every model for images that can take it was offered
\* it, whatever chain it was on (a blank answer moves on without looking back).
VisionExhausted ==
    (pc = "failed" /\ body.images /\ blanks = 0)
    => {m \in VisionModels \ {NoModel} : Fits(given.body.size, m)} \subseteq asked

\* What the route promises a request with images: both of the above.
ImagesToVision == ImagesSeen /\ VisionExhausted

\* A request comes to an end, whatever the upstreams answer.
RoutingEnds == <>(pc \in {"done", "failed"})

=============================================================================
