--------------------------- MODULE RoutingProofs ---------------------------
(***************************************************************************)
(* Proofs about StrategyRoute, RouteTable, TaskClass and DistillationControl, for  *)
(* every route, request, text and proposal and every bound of the instance.     *)
(*                                                                         *)
(* StrategyRoute.                                                            *)
(* RouteInv is inductive.  Its core is ModelsAsked: as long as no blank answer    *)
(* has opened the choices again, a request with images that was not moved for *)
(* its size is on the model for images of its layer, and every layer before   *)
(* had none that can take the request, or has been asked.                     *)
(*                                                                         *)
(* RouteTable.  TableInv is inductive.  Checked routes do not share a host on  *)
(* a path (KeysUnique), and the comparison a call begins with still holds at    *)
(* its write (SaveFits, Separate), since every other writer either compares    *)
(* too, adds a route that is not active, or counts as unchecked.  A host that   *)
(* a route needs has its row unless an administrator took it away (RowsThere),  *)
(* which is what a request that was served before needs to be served again.     *)
(*                                                                         *)
(* TaskClass.  ClassFounded says what a class of a text rests on and how the    *)
(* options it is read with change it; TaskInv, which is inductive, that the     *)
(* class an attempt carries, like the last one it was judged by, is one that    *)
(* the text can have (Standing), so that judging again by either is sound.      *)
(*                                                                         *)
(* DistillationControl.  OverlayInv is inductive: a change of the versions that   *)
(* meets no other carries the newest version to the snapshot (SnapshotFits), what *)
(* is validated has been judged as a whole while calls come one by one (TurnsFit), *)
(* and nothing cached is older than it says (TimesFit).  ScheduleInv is: a call     *)
(* that meets no other has stopped every task before it reads (SchedulerFits).      *)
(***************************************************************************)
EXTENDS StrategyRoute, RouteTable, TaskClass, DistillationControl, FiniteSetTheorems,
        AsyncQueueOpsProofs

-----------------------------------------------------------------------------
(* The invariant.                                                            *)

\* A layer with a model for images has strategy routing switched on, and the model is one that
\* can be used.
RulesHold == \A case \in Cases : \A i \in 1..Len(case.layers) :
    case.layers[i].vision # NoModel =>
        case.layers[i].enabled /\ case.layers[i].vision \in case.valid

\* What currentAttempt can be
Targets == [layer : 1..Len(layers), model : Models, task : Tasks, fallback : BOOLEAN,
            reapply : BOOLEAN]

\* Types, and a failed model has been asked.
RouteTypes ==
    /\ given \in Cases /\ body \in Bodies /\ at \in Targets
    /\ blanks \in Nat /\ attempts \in Int /\ failed \subseteq asked

\* Before a blank answer the class is chosen once, on the first layer.
Unblanked == blanks = 0 =>
    /\ ~at.reapply /\ body.size <= given.body.size
    /\ ~checked => pc = "loop" /\ at.layer = 1 /\ at.task = "none" /\ ~at.fallback /\ ~override

\* Where images are: after a move for the size on a model of that kind, at the fetch on the
\* model for images of the layer.
Seen ==
    /\ body.images /\ override /\ blanks = 0 => at.model \in VisionModels \cup LongModels
    /\ pc = "fetch" /\ body.images /\ ~override => at.model = Layer.vision

\* The models for images of the layers before i that can take the request are in A.
PassedBy(i, A) == \A j \in 1..Len(layers) : j < i /\ layers[j].vision # NoModel =>
    layers[j].vision \in A \/ ~Fits(given.body.size, layers[j].vision)

\* The model is the one for images, where the layer has one.
OnVision == Layer.vision # NoModel => at.model = Layer.vision

\* Before a blank answer: only a move for the size puts images on the chain for long contexts,
\* and no other move leaves a model for images behind that was not asked.
ModelsAsked == blanks = 0 /\ body.images =>
    /\ at.task = "long_context" => override
    /\ at.task # "long_context" /\ checked => OnVision /\ PassedBy(at.layer, asked)
    /\ pc = "failed" => PassedBy(Len(layers) + 1, asked)

RouteInv == RouteTypes /\ Unblanked /\ Seen /\ (RulesHold => ModelsAsked)

\* What every case of an instance gives
LEMMA GivenTypes ==
  ASSUME given \in Cases
  PROVE  /\ Len(layers) \in Nat /\ Len(layers) # 0 /\ DOMAIN layers = 1..Len(layers)
         /\ \A i \in 1..Len(layers) : layers[i] \in LayerRecords
         /\ given.window \in [Models -> Nat] /\ given.valid \subseteq Models
         /\ given.body \in Bodies /\ given.task \in Tasks /\ given.quota \in Nat
<1>1. /\ layers \in Seq(LayerRecords) /\ layers # <<>>
      /\ given.window \in [Models -> Nat] /\ given.valid \subseteq Models
      /\ given.body \in Bodies /\ given.task \in Tasks /\ given.quota \in Nat
  BY CasesAssumption DEF layers
<1> QED
  BY <1>1

\* The least member of a set
Least(i, S) == i \in S /\ \A j \in S : i <= j

\* The first layer of a set
LEMMA FirstOf ==
  ASSUME NEW S, S \subseteq Nat, NEW task, NEW t \in First(S, task)
  PROVE  \E i : Least(i, S) /\ t = Target(i, layers[i][task], task)
<1>1. S # {}
  BY DEF First
<1>2. PICK m \in S : \A j \in S : m <= j
  BY <1>1, LeastNumber
<1>3. Min(S) \in S /\ \A j \in S : Min(S) <= j
  BY <1>2 DEF Min
<1> QED
  BY <1>1, <1>3 DEF First, Least

\* A set without a first layer is empty.
LEMMA FirstNone == ASSUME NEW S, NEW task, First(S, task) = {} PROVE S = {}
BY DEF First

\* A target of the chain for long contexts is a model for long contexts of the route.
LEMMA LongTarget ==
  ASSUME given \in Cases, NEW start \in Nat, start # 0, NEW size, NEW exclude,
         NEW t \in LongTargets(start, size, exclude)
  PROVE  /\ t \in Targets /\ t.task = "long_context" /\ ~t.reapply
         /\ t.model \in LongModels
<1> DEFINE S == {i \in start..Len(layers) :
              /\ layers[i].enabled
              /\ layers[i].long_context \notin exclude \cup {NoModel}
              /\ Valid(layers[i].long_context)
              /\ Fits(size, layers[i].long_context)}
<1>1. S \subseteq 1..Len(layers) /\ S \subseteq Nat
  BY GivenTypes
<1>2. \A i \in S : layers[i].long_context \in Models
  BY GivenTypes DEF Valid
<1>3. t \in First(S, "long_context")
  BY DEF LongTargets
<1> HIDE DEF S
<1>4. PICK i : Least(i, S) /\ t = Target(i, layers[i]["long_context"], "long_context")
  BY <1>1, <1>3, FirstOf
<1>5. i \in 1..Len(layers) /\ layers[i].long_context \in Models /\ DOMAIN layers = 1..Len(layers)
  BY <1>1, <1>2, <1>4, GivenTypes DEF Least
<1> QED
  BY <1>4, <1>5 DEF Target, Targets, Tasks, LongModels

\* A target for images is the model for images of the first layer that has one.
LEMMA VisionTarget ==
  ASSUME given \in Cases, NEW S, S \subseteq 1..Len(layers),
         \A i \in S : layers[i].vision # NoModel,
         NEW t \in First(S, "vision")
  PROVE  /\ t \in Targets /\ t.task = "vision" /\ ~t.reapply
         /\ t.model \in VisionModels /\ t.model = layers[t.layer].vision
         /\ t.layer \in S /\ \A j \in S : t.layer <= j
<1> DEFINE v == "vision"
<1>1. S \subseteq Nat /\ t \in First(S, v)
  OBVIOUS
<1> HIDE DEF v
<1>2. PICK i : Least(i, S) /\ t = Target(i, layers[i][v], v)
  BY <1>1, FirstOf
<1>3. i \in 1..Len(layers) /\ layers[i].vision \in Models /\ DOMAIN layers = 1..Len(layers)
  BY <1>2, GivenTypes DEF LayerRecords, Rules, Least
<1> QED
  BY <1>2, <1>3 DEF v, Target, Targets, Tasks, VisionModels, Least

\* The target on a later layer, by its rule or its own model
LEMMA LayerTargetType ==
  ASSUME RouteTypes, NEW i \in 1..Len(layers)
  PROVE  LayerTarget(i, body) \in Targets /\ ~LayerTarget(i, body).reapply
<1> DEFINE task == Gated(IF at.task = "none" THEN given.task ELSE at.task, body.size)
           rule == RuleFor(layers[i], task)
<1>1. given \in Cases /\ layers[i] \in LayerRecords /\ given.task \in Tasks /\ given.valid \subseteq Models
  BY GivenTypes DEF RouteTypes
<1>2. task \in Tasks
  BY <1>1 DEF Gated, Tasks, RouteTypes, Targets
<1> HIDE DEF task
<1>3. layers[i].model \in Models
  BY <1>1 DEF LayerRecords
<1>4. Valid(rule) => rule \in Models
  BY <1>1 DEF Valid
<1> HIDE DEF rule
<1>5. \/ LayerTarget(i, body) = Target(i, rule, task) /\ Valid(rule)
      \/ LayerTarget(i, body) = Target(i, layers[i].model, "none")
  BY DEF LayerTarget, rule, task
<1>6. ASSUME NEW m \in Models, NEW k \in Tasks PROVE Target(i, m, k) \in Targets /\ ~Target(i, m, k).reapply
  BY DEF Target, Targets
<1>7. "none" \in Tasks
  BY DEF Tasks
<1> QED
  BY <1>2, <1>3, <1>4, <1>5, <1>6, <1>7

\* Where a request with images goes that no long-context model can take
LEMMA LargerTarget ==
  ASSUME RouteTypes, RulesHold, NEW t \in LargerVision, OnVision, PassedBy(at.layer, asked),
         body.size <= given.body.size, Exhausted
  PROVE  PassedBy(t.layer, asked)
<1> DEFINE S == {i \in at.layer + 1..Len(layers) :
              /\ layers[i].vision \notin {NoModel, at.model}
              /\ Valid(layers[i].vision) /\ Fits(body.size, layers[i].vision)}
<1>1. /\ at.layer \in 1..Len(layers) /\ given \in Cases /\ Len(layers) \in Nat
      /\ body.size \in Nat /\ given.body.size \in Nat
  BY GivenTypes DEF RouteTypes, Targets, Bodies
<1>2. S \subseteq 1..Len(layers) /\ \A i \in S : layers[i].vision # NoModel
  BY <1>1
<1>3. t \in First(S, "vision")
  BY DEF LargerVision
<1> HIDE DEF S
<1>4. t.layer \in S /\ \A j \in S : t.layer <= j
  BY <1>1, <1>2, <1>3, VisionTarget
<1>5. ASSUME NEW m \in Models, ~Fits(body.size, m) PROVE ~Fits(given.body.size, m)
  <2>1. given.window[m] \in Nat
    BY <1>1, GivenTypes
  <2> QED  BY <1>1, <1>5, <2>1 DEF Fits
<1>6. ASSUME NEW j \in 1..Len(layers), j < t.layer, layers[j].vision # NoModel
      PROVE  layers[j].vision \in asked \/ ~Fits(given.body.size, layers[j].vision)
  <2>1. layers[j].vision \in Models /\ Valid(layers[j].vision)
    BY <1>1, <1>6, GivenTypes DEF RulesHold, layers, LayerRecords, Rules, Valid
  <2>2. CASE j < at.layer
    BY <1>6, <2>2 DEF PassedBy
  <2>3. CASE layers[j].vision = at.model \/ ~Fits(body.size, layers[j].vision)
    BY <1>5, <2>1, <2>3 DEF Exhausted
  <2>4. CASE j = at.layer
    <3>1. layers[j].vision = at.model
      BY <1>6, <2>4 DEF OnVision, Layer
    <3> QED  BY <2>3, <3>1
  <2>5. CASE /\ at.layer < j /\ layers[j].vision # at.model /\ Fits(body.size, layers[j].vision)
    <3>1. j \in at.layer + 1..Len(layers)
      BY <1>1, <2>5
    <3>2. j \in S
      BY <1>6, <2>1, <2>5, <3>1 DEF S
    <3>3. t.layer <= j
      BY <1>4, <3>2
    <3>4. t.layer \in 1..Len(layers)
      BY <1>2, <1>4
    <3> QED  BY <1>1, <1>6, <3>3, <3>4
  <2>6. j < at.layer \/ j = at.layer \/ at.layer < j
    BY <1>1
  <2> QED
    BY <2>2, <2>3, <2>4, <2>5, <2>6
<1> QED
  BY <1>6 DEF PassedBy

\* Where an error or a busy provider moves a request: to one of its targets, with the means to

\* take the images; and on the way no model for images is left out.
LEMMA FallbackTypes ==
  ASSUME RouteTypes, NEW tried, NEW t \in FallbackTargets(body, tried)
  PROVE  /\ t \in Targets /\ ~t.reapply
         /\ body.images => t.model \in VisionModels \cup LongModels
         /\ body.images /\ t.task = "long_context" => at.task = "long_context"
<1>1. /\ at.layer \in 1..Len(layers) /\ given \in Cases /\ Len(layers) \in Nat
  BY GivenTypes DEF RouteTypes, Targets
<1>2. CASE t \in ChainTargets(body, tried \cup {at.model}) /\ at.task = "long_context"
  <2>1. CASE t \in LongTargets(at.layer + 1, body.size, tried \cup {at.model})
    BY <1>1, <1>2, <2>1, LongTarget
  <2>2. CASE t \in VisionTargets(tried \cup {at.model})
    <3> DEFINE S == {i \in DOMAIN layers : layers[i].vision \notin (tried \cup {at.model}) \cup {NoModel}}
    <3>1. S \subseteq 1..Len(layers) /\ \A i \in S : layers[i].vision # NoModel
      BY <1>1, GivenTypes
    <3>2. t \in First(S, "vision")
      BY <2>2 DEF VisionTargets
    <3> HIDE DEF S
    <3> QED  BY <1>1, <1>2, <3>1, <3>2, VisionTarget
  <2> QED
    BY <1>2, <2>1, <2>2 DEF ChainTargets
<1>3. CASE t \in LayerTargets(body)
  <2>1. CASE body.images
    <3> DEFINE S == {i \in at.layer + 1..Len(layers) : layers[i].vision # NoModel}
    <3>1. S \subseteq 1..Len(layers) /\ \A i \in S : layers[i].vision # NoModel
      BY <1>1
    <3>2. t \in First(S, "vision")
      BY <1>3, <2>1 DEF LayerTargets
    <3> HIDE DEF S
    <3>3. t \in Targets /\ ~t.reapply /\ t.task = "vision" /\ t.model \in VisionModels
      BY <1>1, <3>1, <3>2, VisionTarget
    <3> QED  BY <3>3
  <2>2. CASE ~body.images
    <3> DEFINE later == at.layer + 1..Len(layers)
    <3>1. later # {} /\ t = LayerTarget(Min(later), body)
      BY <1>3, <2>2 DEF LayerTargets
    <3>2. later \subseteq Nat
      BY <1>1
    <3> HIDE DEF later
    <3>3. PICK m \in later : \A j \in later : m <= j
      BY <3>1, <3>2, LeastNumber
    <3>4. Min(later) \in later
      BY <3>3 DEF Min
    <3>5. Min(later) \in 1..Len(layers)
      BY <1>1, <3>4 DEF later
    <3> QED
      BY <1>1, <2>2, <3>1, <3>5, LayerTargetType
  <2> QED
    BY <2>1, <2>2
<1> QED
  BY <1>2, <1>3 DEF FallbackTargets

\* A fallback that leaves the chain for long contexts passes over no model for images that was

\* not asked, and one without a target has passed over none at all.
LEMMA FallbackPasses ==
  ASSUME RouteTypes, body.images, NEW A, NEW tried, tried \subseteq A, at.model \in A,
         at.task # "long_context" => OnVision /\ PassedBy(at.layer, A)
  PROVE  /\ \A t \in FallbackTargets(body, tried) : t.task # "long_context" =>
                t.model = layers[t.layer].vision /\ PassedBy(t.layer, A)
         /\ FallbackTargets(body, tried) = {} => PassedBy(Len(layers) + 1, A)
<1> DEFINE exclude == tried \cup {at.model}
           S == {i \in DOMAIN layers : layers[i].vision \notin exclude \cup {NoModel}}
           L == {i \in at.layer + 1..Len(layers) : layers[i].vision # NoModel}
           chain == IF at.task = "long_context" THEN ChainTargets(body, exclude) ELSE {}
<1>1. /\ at.layer \in 1..Len(layers) /\ given \in Cases /\ Len(layers) \in Nat
      /\ DOMAIN layers = 1..Len(layers)
  BY GivenTypes DEF RouteTypes, Targets
<1>2. FallbackTargets(body, tried) = IF chain # {} THEN chain ELSE LayerTargets(body)
  BY DEF FallbackTargets
<1>3. VisionTargets(exclude) = First(S, "vision") /\ LayerTargets(body) = First(L, "vision")
  BY DEF VisionTargets, LayerTargets
<1>4. /\ S \subseteq 1..Len(layers) /\ \A i \in S : layers[i].vision # NoModel
      /\ \A i \in 1..Len(layers) : layers[i].vision # NoModel /\ i \notin S => layers[i].vision \in A
  BY <1>1
<1>5. /\ L \subseteq 1..Len(layers) /\ \A i \in L : layers[i].vision # NoModel
      /\ \A i \in 1..Len(layers) : layers[i].vision # NoModel /\ i \notin L => i <= at.layer
  BY <1>1
<1>6. at.task = "long_context" =>
        chain = IF LongTargets(at.layer + 1, body.size, exclude) # {}
                THEN LongTargets(at.layer + 1, body.size, exclude) ELSE VisionTargets(exclude)
  BY DEF ChainTargets
<1> HIDE DEF S, L, exclude
<1>7. chain = {} => PassedBy(at.layer + 1, A)
  <2> SUFFICES ASSUME chain = {} PROVE PassedBy(at.layer + 1, A)
    OBVIOUS
  <2>1. CASE at.task = "long_context"
    <3>1. S = {}
      BY <1>3, <1>6, <2>1, FirstNone
    <3> QED  BY <1>4, <3>1 DEF PassedBy
  <2>2. CASE at.task # "long_context"
    <3> SUFFICES ASSUME NEW j \in 1..Len(layers), j < at.layer + 1, layers[j].vision # NoModel
                 PROVE  layers[j].vision \in A \/ ~Fits(given.body.size, layers[j].vision)
      BY DEF PassedBy
    <3>1. j < at.layer \/ j = at.layer
      BY <1>1
    <3>2. CASE j < at.layer
      BY <2>2, <3>2 DEF PassedBy
    <3>3. CASE j = at.layer
      BY <2>2, <3>3 DEF OnVision, Layer
    <3> QED  BY <3>1, <3>2, <3>3
  <2> QED  BY <2>1, <2>2
<1>8. ASSUME NEW t \in FallbackTargets(body, tried), t.task # "long_context"
      PROVE  t.model = layers[t.layer].vision /\ PassedBy(t.layer, A)
  <2>1. CASE t \in VisionTargets(exclude)
    <3>0. t \in First(S, "vision")
      BY <1>3, <2>1
    <3>1. t.layer \in S /\ (\A j \in S : t.layer <= j) /\ t.model = layers[t.layer].vision
      BY <1>1, <1>4, <3>0, VisionTarget
    <3>2. ASSUME NEW j \in 1..Len(layers), j < t.layer PROVE j \notin S
      <4>1. t.layer \in 1..Len(layers)
        BY <1>4, <3>1
      <4> QED  BY <1>1, <3>1, <3>2, <4>1
    <3> QED  BY <1>4, <3>1, <3>2 DEF PassedBy
  <2>2. CASE chain = {} /\ t \in LayerTargets(body)
    <3>0. t \in First(L, "vision")
      BY <1>3, <2>2
    <3>1. t.layer \in L /\ (\A j \in L : t.layer <= j) /\ t.model = layers[t.layer].vision
      BY <1>1, <1>5, <3>0, VisionTarget
    <3>2. ASSUME NEW j \in 1..Len(layers), j < t.layer, layers[j].vision # NoModel
          PROVE  j < at.layer + 1
      <4>1. t.layer \in 1..Len(layers)
        BY <1>5, <3>1
      <4>2. j \notin L
        BY <1>1, <3>1, <3>2, <4>1
      <4> QED  BY <1>1, <1>5, <3>2, <4>2
    <3> QED  BY <1>7, <2>2, <3>1, <3>2 DEF PassedBy
  <2>3. ASSUME NEW u \in LongTargets(at.layer + 1, body.size, exclude) PROVE u.task = "long_context"
    BY <1>1, LongTarget
  <2> QED
    BY <1>2, <1>6, <1>8, <2>1, <2>2, <2>3
<1>9. ASSUME FallbackTargets(body, tried) = {} PROVE PassedBy(Len(layers) + 1, A)
  <2>1. chain = {} /\ LayerTargets(body) = {}
    BY <1>2, <1>9
  <2>2. L = {}
    BY <1>3, <2>1, FirstNone
  <2> SUFFICES ASSUME NEW j \in 1..Len(layers), layers[j].vision # NoModel
               PROVE  layers[j].vision \in A \/ ~Fits(given.body.size, layers[j].vision)
    BY DEF PassedBy
  <2>3. j < at.layer + 1
    BY <1>1, <1>5, <2>2
  <2> QED
    BY <1>7, <2>1, <2>3 DEF PassedBy
<1> QED
  BY <1>8, <1>9

\* An error or a busy provider moves the request, or ends it.
LEMMA TakeOK ==
  ASSUME RouteInv, pc \in {"admit", "fetch"}, NEW tried, tried \subseteq asked',
         given' = given, body' = body, blanks' = blanks, checked' = checked, override' = override,
         asked' = asked \cup {at.model}, failed' \subseteq asked',
         \/ \E t \in FallbackTargets(body, tried) : Takes(t)
         \/ FallbackTargets(body, tried) = {} /\ pc' = "failed" /\ at' = at /\ attempts' = attempts
  PROVE  RouteInv'
<1>1. /\ layers' = layers /\ Targets' = Targets /\ VisionModels' = VisionModels
      /\ LongModels' = LongModels /\ given \in Cases /\ Len(layers) \in Nat
      /\ RouteTypes /\ RetryCount \in Nat
  BY GivenTypes, StrategyAssumption DEF layers, Targets, VisionModels, LongModels, RouteInv, RouteTypes
<1>2. blanks = 0 => checked /\ ~at.reapply /\ body.size <= given.body.size
  BY DEF RouteInv, Unblanked
<1>3. CASE /\ FallbackTargets(body, tried) = {} /\ pc' = "failed" /\ at' = at /\ attempts' = attempts
  <2>1. RouteTypes' /\ Unblanked'
    BY <1>1, <1>2, <1>3 DEF RouteTypes, Unblanked
  <2>2. Seen'
    BY <1>1, <1>3 DEF RouteInv, Seen
  <2>3. ASSUME RulesHold, blanks' = 0, body'.images PROVE ModelsAsked'
    <3>1. at.task = "long_context" => override
      BY <2>3 DEF RouteInv, ModelsAsked
    <3>2. at.task # "long_context" => OnVision /\ PassedBy(at.layer, asked)
      BY <1>2, <2>3 DEF RouteInv, ModelsAsked
    <3>3. PassedBy(at.layer, asked) => PassedBy(at.layer, asked')
      BY DEF PassedBy
    <3>4. PassedBy(Len(layers) + 1, asked')
      BY <1>1, <1>3, <2>3, <3>2, <3>3, FallbackPasses
    <3>5. PassedBy(Len(layers) + 1, asked)'
      BY <1>1, <3>4 DEF PassedBy, Fits
    <3>6. at.task # "long_context" => OnVision' /\ PassedBy(at.layer, asked)'
      BY <1>1, <1>3, <3>2, <3>3 DEF OnVision, Layer, PassedBy, Fits
    <3> QED  BY <1>3, <3>1, <3>5, <3>6 DEF ModelsAsked
  <2> QED
    BY <2>1, <2>2, <2>3 DEF RouteInv, ModelsAsked
<1>4. ASSUME NEW t \in FallbackTargets(body, tried), Takes(t) PROVE RouteInv'
  <2>1. /\ t \in Targets /\ ~t.reapply
        /\ body.images => t.model \in VisionModels \cup LongModels
        /\ body.images /\ t.task = "long_context" => at.task = "long_context"
    BY <1>1, FallbackTypes
  <2>2. at' = t /\ pc' = "loop" /\ attempts' \in Int
    BY <1>1, <1>4 DEF Takes, Reserve, MaxAttempts, RouteTypes
  <2>3. RouteTypes' /\ Unblanked'
    BY <1>1, <1>2, <2>1, <2>2 DEF RouteTypes, Unblanked
  <2>4. Seen'
    BY <1>1, <2>1, <2>2 DEF Seen
  <2>5. ASSUME RulesHold, blanks' = 0, body'.images PROVE ModelsAsked'
    <3>1. at.task = "long_context" => override
      BY <2>5 DEF RouteInv, ModelsAsked
    <3>2. at.task # "long_context" => OnVision /\ PassedBy(at.layer, asked)
      BY <1>2, <2>5 DEF RouteInv, ModelsAsked
    <3>3. PassedBy(at.layer, asked) => PassedBy(at.layer, asked')
      BY DEF PassedBy
    <3>4. t.task # "long_context" => t.model = layers[t.layer].vision /\ PassedBy(t.layer, asked')
      BY <1>1, <2>5, <3>2, <3>3, FallbackPasses
    <3>5. t.task # "long_context" => OnVision' /\ PassedBy(at.layer, asked)'
      BY <1>1, <2>2, <3>4 DEF OnVision, Layer, PassedBy, Fits
    <3> QED  BY <2>1, <2>2, <2>5, <3>1, <3>5 DEF ModelsAsked
  <2> QED
    BY <2>3, <2>4, <2>5 DEF RouteInv, ModelsAsked
<1> QED
  BY <1>3, <1>4

\* The request stays where it is, with no more than it had.
LEMMA HereOK ==
  ASSUME RouteInv, pc # "failed", pc # "loop" \/ checked,
         given' = given, at' = at, blanks' = blanks, checked' = checked, override' = override,
         body' \in Bodies, body'.size <= body.size, body'.images => body.images,
         asked \subseteq asked', failed' = failed, attempts' \in Int, pc' # "failed",
         pc' = "fetch" /\ body'.images /\ ~override' => at.model = Layer.vision
  PROVE  RouteInv'
<1>1. /\ layers' = layers /\ Targets' = Targets /\ VisionModels' = VisionModels
      /\ LongModels' = LongModels /\ given \in Cases
      /\ RouteTypes
  BY DEF layers, Targets, VisionModels, LongModels, RouteInv, RouteTypes
<1>2. blanks = 0 => checked /\ ~at.reapply /\ body.size <= given.body.size
  BY DEF RouteInv, Unblanked
<1>3. body.size \in Nat /\ given.body.size \in Nat /\ body'.size \in Nat
  BY <1>1, GivenTypes DEF RouteTypes, Bodies
<1>4. RouteTypes' /\ Unblanked'
  BY <1>1, <1>2, <1>3 DEF RouteTypes, Unblanked
<1>5. Seen'
  BY <1>1 DEF RouteInv, Seen, Layer
<1>6. ASSUME RulesHold, blanks' = 0, body'.images PROVE ModelsAsked'
  <2>1. /\ at.task = "long_context" => override
        /\ at.task # "long_context" => OnVision /\ PassedBy(at.layer, asked)
    BY <1>2, <1>6 DEF RouteInv, ModelsAsked
  <2>2. PassedBy(at.layer, asked) => PassedBy(at.layer, asked)'
    BY <1>1 DEF PassedBy, Fits
  <2>3. OnVision => OnVision'
    BY <1>1 DEF OnVision, Layer
  <2> QED  BY <2>1, <2>2, <2>3 DEF ModelsAsked
<1> QED
  BY <1>4, <1>5, <1>6 DEF RouteInv, ModelsAsked

\* A blank answer opens the choices again, and nothing is claimed from then on but the guard.
LEMMA BlankOK ==
  ASSUME RouteInv, given' = given, at' \in Targets, blanks' \in Nat, blanks' # 0, body' \in Bodies,
         asked \subseteq asked', failed' = failed, attempts' \in Int, pc' # "fetch"
  PROVE  RouteInv'
<1>1. layers' = layers /\ Targets' = Targets /\ RouteTypes
  BY DEF layers, Targets, RouteInv
<1>2. RouteTypes'
  BY <1>1 DEF RouteTypes
<1>3. Unblanked' /\ Seen' /\ ModelsAsked'
  BY DEF Unblanked, Seen, ModelsAsked
<1> QED
  BY <1>2, <1>3 DEF RouteInv

\* Cutting and summarizing makes nothing larger and adds no images.
LEMMA CutTypes ==
  ASSUME NEW b \in Bodies, NEW limit \in Nat, NEW c \in Cut(b, limit)
  PROVE  c \in Bodies /\ c.size <= b.size /\ (c.images => b.images)
<1>1. CASE c = b
  BY <1>1 DEF Bodies
<1>2. CASE c \in [size : {limit}, images : {FALSE, b.images}] /\ ~(b.size <= limit)
  <2>1. c.size = limit /\ c.images \in {FALSE, b.images} /\ b.size \in Nat /\ b.images \in BOOLEAN
    BY <1>2 DEF Bodies
  <2>2. c.size <= b.size
    BY <1>2, <2>1
  <2>3. c.images \in BOOLEAN /\ (c.images => b.images)
    <3>1. CASE c.images = FALSE
      BY <3>1
    <3>2. CASE c.images = b.images
      BY <2>1, <3>2
    <3> QED  BY <2>1, <3>1, <3>2
  <2>4. c = [size |-> c.size, images |-> c.images]
    BY <1>2
  <2>5. c \in Bodies
    BY <2>1, <2>3, <2>4 DEF Bodies
  <2> QED  BY <2>2, <2>3, <2>5
<1> QED
  BY <1>1, <1>2 DEF Cut

\* See CutTypes.
LEMMA SummaryTypes ==
  ASSUME NEW b \in Bodies, NEW c \in Summaries(b)
  PROVE  c \in Bodies /\ c.size <= b.size /\ (c.images => b.images)
<1>1. c.size \in 1..b.size /\ c.images \in {FALSE, b.images} /\ b.size \in Nat /\ b.images \in BOOLEAN
  BY DEF Bodies, Summaries
<1>2. c.size \in Nat /\ c.size <= b.size
  BY <1>1
<1>3. c.images \in BOOLEAN /\ (c.images => b.images)
  <2>1. CASE c.images = FALSE
    BY <2>1
  <2>2. CASE c.images = b.images
    BY <1>1, <2>2
  <2> QED  BY <1>1, <2>1, <2>2
<1>4. c = [size |-> c.size, images |-> c.images]
  BY DEF Summaries
<1>5. c \in Bodies
  BY <1>2, <1>3, <1>4 DEF Bodies
<1> QED
  BY <1>2, <1>3, <1>5

\* The limits by which a request is cut
LEMMA LimitType == ASSUME RouteTypes PROVE Limit \in Nat /\ given.quota \in Nat
BY GivenTypes DEF RouteTypes, Targets, Limit

\* The choice by task
LEMMA DecidedType ==
  ASSUME RouteTypes, NEW b \in Bodies
  PROVE  /\ Decided(b) \in Targets
         /\ ~at.reapply => ~Decided(b).reapply
         /\ b.images /\ ~at.reapply =>
              /\ Decided(b).layer = at.layer /\ ~Decided(b).reapply
              /\ Decided(b).task \in {at.task, "vision"}
              /\ Valid(Layer.vision) /\ Layer.vision # NoModel => Decided(b).model = Layer.vision
<1>1. /\ given \in Cases /\ given.task \in Tasks /\ given.valid \subseteq Models /\ at \in Targets
  BY GivenTypes DEF RouteTypes
<1>2. ASSUME NEW rule, NEW task \in Tasks
      PROVE  /\ Applied(rule, task) \in Targets /\ Applied(rule, task).layer = at.layer
             /\ Applied(rule, task).task \in {at.task, task}
             /\ ~at.reapply => ~Applied(rule, task).reapply
             /\ Valid(rule) /\ rule # NoModel => Applied(rule, task).model = rule
  <2>1. CASE Applied(rule, task) = at /\ ~(Valid(rule) /\ rule # NoModel /\ rule # at.model)
    BY <1>1, <2>1
  <2>2. CASE Applied(rule, task) = Switched(rule, task) /\ Valid(rule)
    <3>1. rule \in Models
      BY <1>1, <2>2 DEF Valid
    <3> DEFINE m == [at EXCEPT !.model = rule]
    <3>2. m \in Targets /\ m.layer = at.layer /\ m.model = rule
      BY <1>1, <3>1 DEF Targets
    <3> HIDE DEF m
    <3> DEFINE mt == [m EXCEPT !.task = task]
    <3>3. mt \in Targets /\ mt.layer = at.layer /\ mt.model = rule /\ mt.task = task
      BY <3>2 DEF Targets
    <3> HIDE DEF mt
    <3> DEFINE mr == [mt EXCEPT !.reapply = FALSE]
    <3>4. /\ mr \in Targets /\ mr.layer = at.layer /\ mr.model = rule /\ mr.task = task
          /\ ~mr.reapply
      BY <3>3 DEF Targets
    <3> HIDE DEF mr
    <3>5. Switched(rule, task) = mr
      BY DEF m, mt, mr, Switched
    <3> QED  BY <2>2, <3>4, <3>5
  <2> QED
    BY <2>1, <2>2 DEF Applied
<1>3. {"general", "vision"} \subseteq Tasks /\ at.task \in Tasks /\ Gated(given.task, b.size) \in Tasks
  BY <1>1 DEF Tasks, Targets, Gated
<1>4. Decided(b) \in Targets /\ (~at.reapply => ~Decided(b).reapply)
  <2>1. Inherited \in Targets /\ (~at.reapply => ~Inherited.reapply)
    BY <1>1, <1>2, <1>3 DEF Inherited
  <2> QED
    BY <1>2, <1>3, <2>1 DEF Decided, FreshTask
<1>5. ASSUME b.images
      PROVE  Decided(b) = Applied(Layer.vision, "vision")
  BY <1>5 DEF Decided
<1> QED
  BY <1>2, <1>3, <1>4, <1>5

\* The head of the loop chooses among the rules of the first layer.
LEMMA ChooseStep == ASSUME RouteInv, ChooseByTask PROVE RouteInv'
<1>1. /\ pc = "loop" /\ pc' = "capacity" /\ attempts' = attempts + 1
      /\ body' \in Quota(body) /\ given' = given /\ override' = override /\ failed' = failed
      /\ blanks' = blanks /\ asked' = asked
  BY DEF ChooseByTask, flags, counts
<1>2. RouteTypes /\ given \in Cases /\ attempts \in Int /\ body \in Bodies /\ at \in Targets
  BY DEF RouteInv, RouteTypes
<1>3. body' \in Bodies /\ body'.size <= body.size /\ (body'.images => body.images)
  <2>1. CASE body' \in Cut(body, given.quota)
    BY <1>2, <2>1, LimitType, CutTypes
  <2>2. CASE body' = body
    BY <1>2, <2>2 DEF Bodies
  <2> QED  BY <1>1, <2>1, <2>2 DEF Quota
<1>4. CASE UNCHANGED <<checked, at>> /\ ~(~checked /\ (at.fallback => at.reapply))
  <2>1. CASE checked
    BY <1>1, <1>2, <1>3, <1>4, <2>1, HereOK
  <2>2. CASE ~checked
    <3>1. blanks # 0
      BY <1>4, <2>2 DEF RouteInv, Unblanked
    <3> QED
      BY <1>1, <1>2, <1>3, <1>4, <3>1, BlankOK DEF RouteTypes
  <2> QED  BY <2>1, <2>2
<1>5. CASE ~checked /\ checked' = TRUE /\ at' = IF Layer.enabled THEN Decided(body') ELSE at
  <2>1. at' \in Targets
    BY <1>2, <1>3, <1>5, DecidedType
  <2>2. CASE blanks # 0
    BY <1>1, <1>2, <1>3, <2>1, <2>2, BlankOK DEF RouteTypes
  <2>3. CASE blanks = 0
    <3>1. /\ layers' = layers /\ Targets' = Targets /\ attempts' \in Int
      BY <1>1, <1>2 DEF layers, Targets
    <3>2. /\ ~at.reapply /\ body.size <= given.body.size /\ at.layer = 1 /\ at.task = "none" /\ ~override
      BY <1>5, <2>3 DEF RouteInv, Unblanked
    <3>3. body.size \in Nat /\ given.body.size \in Nat /\ body'.size \in Nat
      BY <1>2, <1>3, GivenTypes DEF Bodies
    <3>4. body'.size <= given.body.size
      BY <1>3, <3>2, <3>3
    <3>5. RouteTypes'
      BY <1>1, <1>2, <1>3, <2>1, <3>1 DEF RouteTypes
    <3>6. ~at'.reapply
      <4>1. ~Decided(body').reapply
        BY <1>2, <1>3, <3>2, DecidedType
      <4> QED  BY <1>5, <3>2, <4>1
    <3>7. Unblanked'
      BY <1>1, <1>5, <3>4, <3>6 DEF Unblanked
    <3>8. Seen'
      BY <1>1, <3>2 DEF Seen
    <3>9. ASSUME RulesHold, body'.images PROVE ModelsAsked'
      <4>1. Layer \in LayerRecords /\ at.layer \in 1..Len(layers) /\ Len(layers) \in Nat
        BY <1>2, GivenTypes DEF Layer, Targets
      <4>2. Layer.vision # NoModel => Layer.enabled /\ Valid(Layer.vision)
        BY <1>2, <3>9, <4>1 DEF RulesHold, Layer, layers, Valid
      <4>3. at'.layer = 1 /\ at'.task \in {"none", "vision"} /\ (Layer.vision # NoModel => at'.model = Layer.vision)
        BY <1>2, <1>3, <1>5, <3>2, <3>9, <4>2, DecidedType
      <4>4. PassedBy(at.layer, asked)'
        BY <3>1, <4>1, <4>3 DEF PassedBy
      <4>5. OnVision'
        BY <3>1, <3>2, <4>3 DEF OnVision, Layer
      <4> QED  BY <1>1, <4>3, <4>4, <4>5 DEF ModelsAsked
    <3> QED
      BY <3>5, <3>7, <3>8, <3>9 DEF RouteInv, ModelsAsked
  <2> QED  BY <2>2, <2>3
<1> QED
  BY <1>4, <1>5 DEF ChooseByTask

\* The moves for the size of a request
LEMMA MoveType ==
  ASSUME RouteTypes, NEW t \in Targets, NEW u, u = [t EXCEPT !.fallback = at.fallback, !.reapply = at.reapply]
  PROVE  /\ u \in Targets /\ u.layer = t.layer /\ u.model = t.model /\ u.task = t.task
         /\ u.reapply = at.reapply
<1> DEFINE m == [t EXCEPT !.fallback = at.fallback]
<1>1. at \in Targets
  BY DEF RouteTypes
<1>2. m \in Targets /\ m.layer = t.layer /\ m.model = t.model /\ m.task = t.task
  BY <1>1 DEF Targets
<1> HIDE DEF m
<1> DEFINE n == [m EXCEPT !.reapply = at.reapply]
<1>3. n \in Targets /\ n.layer = t.layer /\ n.model = t.model /\ n.task = t.task /\ n.reapply = at.reapply
  BY <1>1, <1>2 DEF Targets
<1> HIDE DEF n
<1>4. u = n
  BY DEF m, n
<1> QED
  BY <1>3, <1>4

\* The moves for the size, before the fetch
LEMMA HopStep == ASSUME RouteInv, HopForSize PROVE RouteInv'
<1>1. /\ pc = "capacity" /\ pc' = "loop" /\ attempts' = attempts - 1
      /\ given' = given /\ body' = body /\ checked' = checked /\ failed' = failed
      /\ blanks' = blanks /\ asked' = asked
  BY DEF HopForSize, MovesTo
<1>2. RouteTypes /\ given \in Cases /\ attempts \in Int /\ body \in Bodies /\ at \in Targets
  BY DEF RouteInv, RouteTypes
<1>3. /\ at.layer \in 1..Len(layers) /\ at.layer \in Nat /\ at.layer # 0 /\ Len(layers) \in Nat
      /\ layers' = layers /\ Targets' = Targets /\ LongModels' = LongModels
      /\ VisionModels' = VisionModels /\ DOMAIN layers = 1..Len(layers)
  BY <1>1, <1>2, GivenTypes DEF Targets, layers, LongModels, VisionModels
<1>4. blanks = 0 => checked /\ ~at.reapply /\ body.size <= given.body.size
  BY <1>1 DEF RouteInv, Unblanked
<1>5. ASSUME NEW t \in Targets, MovesTo(t)
      PROVE  /\ RouteTypes' /\ Unblanked' /\ at'.layer = t.layer /\ at'.model = t.model
             /\ at'.task = t.task
  <2>1. at' = [t EXCEPT !.fallback = at.fallback, !.reapply = at.reapply]
    BY <1>5 DEF MovesTo
  <2>2. /\ at' \in Targets /\ at'.layer = t.layer /\ at'.model = t.model /\ at'.task = t.task
        /\ at'.reapply = at.reapply
    BY <1>2, <2>1, MoveType
  <2>3. RouteTypes'
    BY <1>1, <1>2, <1>3, <2>2 DEF RouteTypes
  <2>4. Unblanked'
    BY <1>1, <1>4, <2>2 DEF Unblanked
  <2> QED  BY <2>2, <2>3, <2>4
<1>6. CASE /\ ImagesOverflow
           /\ \E t \in OverflowTargets : MovesTo(t) /\ override' = (t.task = "long_context")
  <2>1. PICK t \in OverflowTargets : MovesTo(t) /\ override' = (t.task = "long_context")
    BY <1>6
  <2>2. CASE t \in LongTargets(at.layer, body.size, failed \cup {at.model})
    <3>1. t \in Targets /\ t.task = "long_context" /\ t.model \in LongModels
      BY <1>2, <1>3, <2>2, LongTarget
    <3>2. RouteTypes' /\ Unblanked' /\ at'.model = t.model /\ at'.task = t.task
      BY <1>5, <2>1, <3>1
    <3>3. override'
      BY <2>1, <3>1
    <3>4. Seen' /\ ModelsAsked'
      BY <1>1, <1>3, <3>1, <3>2, <3>3 DEF Seen, ModelsAsked
    <3> QED  BY <3>2, <3>4 DEF RouteInv
  <2>3. CASE t \in LargerVision
    <3> DEFINE S == {i \in at.layer + 1..Len(layers) :
                  /\ layers[i].vision \notin {NoModel, at.model}
                  /\ Valid(layers[i].vision) /\ Fits(body.size, layers[i].vision)}
    <3>1. /\ S \subseteq 1..Len(layers) /\ \A i \in S : layers[i].vision # NoModel
      BY <1>3
    <3>2. t \in First(S, "vision")
      BY <2>3 DEF LargerVision
    <3> HIDE DEF S
    <3>3. t \in Targets /\ t.task = "vision" /\ t.model = layers[t.layer].vision
      BY <1>2, <3>1, <3>2, VisionTarget
    <3>4. /\ RouteTypes' /\ Unblanked' /\ at'.layer = t.layer /\ at'.model = t.model
          /\ at'.task = t.task
      BY <1>5, <2>1, <3>3
    <3>5. ~override'
      BY <2>1, <3>3
    <3>6. Seen'
      BY <1>1, <3>5 DEF Seen
    <3>7. ASSUME RulesHold, blanks' = 0, body'.images PROVE ModelsAsked'
      <4>1. OnVision /\ PassedBy(at.layer, asked) /\ Exhausted
        BY <1>1, <1>4, <1>6, <3>7 DEF RouteInv, ModelsAsked, ImagesOverflow, MeasuresCapacity
      <4>2. PassedBy(t.layer, asked)
        BY <1>1, <1>2, <1>4, <2>3, <3>7, <4>1, LargerTarget
      <4>3. PassedBy(at.layer, asked)'
        BY <1>1, <1>3, <3>4, <4>2 DEF PassedBy, Fits
      <4>4. OnVision'
        BY <1>3, <3>3, <3>4 DEF OnVision, Layer
      <4> QED  BY <1>1, <3>3, <3>4, <4>3, <4>4 DEF ModelsAsked
    <3> QED  BY <3>4, <3>6, <3>7 DEF RouteInv, ModelsAsked
  <2> QED
    BY <2>2, <2>3 DEF OverflowTargets
<1>7. CASE LongText /\ MovesTo(Target(at.layer, Layer.long_context, "long_context"))
  <2> DEFINE t == Target(at.layer, Layer.long_context, "long_context")
  <2>1. Layer.long_context \in Models
    BY <1>2, <1>7, GivenTypes DEF LongText, Valid
  <2>2. t \in Targets
    BY <1>3, <2>1 DEF Target, Targets, Tasks
  <2> HIDE DEF t
  <2>3. RouteTypes' /\ Unblanked'
    BY <1>5, <1>7, <2>2 DEF t
  <2>4. ~body'.images
    BY <1>1, <1>7 DEF LongText
  <2>5. Seen' /\ ModelsAsked'
    BY <2>4 DEF Seen, ModelsAsked
  <2> QED  BY <2>3, <2>5 DEF RouteInv
<1> QED
  BY <1>6, <1>7 DEF HopForSize

\* The guard sends images to the model for images of this layer or of the next that has one;

\* a request that finds none has been on every one of them.
LEMMA GuardStep == ASSUME RouteInv, Guard PROVE RouteInv'
<1>1. /\ pc = "guard" /\ given' = given /\ body' = body /\ checked' = checked
      /\ override' = override /\ failed' = failed /\ blanks' = blanks /\ asked' = asked
  BY DEF Guard, flags
<1>2. RouteTypes /\ given \in Cases /\ attempts \in Int /\ body \in Bodies /\ at \in Targets
  BY DEF RouteInv, RouteTypes
<1>3. /\ at.layer \in 1..Len(layers) /\ Len(layers) \in Nat /\ layers' = layers
      /\ Targets' = Targets
  BY <1>1, <1>2, GivenTypes DEF Targets, layers
<1>4. blanks = 0 => checked /\ ~at.reapply /\ body.size <= given.body.size
  BY <1>1 DEF RouteInv, Unblanked
<1>5. body.size <= body.size
  BY <1>2 DEF Bodies
<1>6. CASE /\ ~body.images \/ override \/ Layer.vision = at.model
           /\ pc' = "fetch" /\ UNCHANGED <<at, attempts>>
  BY <1>1, <1>2, <1>5, <1>6, HereOK
<1> DEFINE S == {i \in at.layer..Len(layers) : layers[i].vision # NoModel}
<1>7. /\ S \subseteq 1..Len(layers) /\ \A i \in S : layers[i].vision # NoModel
      /\ GuardTargets = First(S, "vision")
      /\ \A i \in at.layer..Len(layers) : i \notin S => layers[i].vision = NoModel
  BY <1>3 DEF GuardTargets
<1> HIDE DEF S
<1>8. ASSUME body.images, ~override, blanks = 0, RulesHold
      PROVE  at.task # "long_context" /\ PassedBy(at.layer, asked)
  BY <1>1, <1>4, <1>8 DEF RouteInv, ModelsAsked
<1>9. CASE /\ body.images /\ ~override
           /\ GuardTargets = {} /\ pc' = "failed" /\ UNCHANGED <<at, attempts>>
  <2>1. RouteTypes' /\ Unblanked' /\ Seen'
    BY <1>1, <1>2, <1>3, <1>4, <1>9 DEF RouteTypes, Unblanked, Seen
  <2>2. ASSUME RulesHold, blanks' = 0 PROVE ModelsAsked'
    <3>1. S = {} /\ PassedBy(at.layer, asked) /\ at.task # "long_context"
      BY <1>1, <1>7, <1>8, <1>9, <2>2, FirstNone
    <3>2. PassedBy(Len(layers) + 1, asked)
      <4>1. ASSUME NEW j \in 1..Len(layers), layers[j].vision # NoModel PROVE j < at.layer
        BY <1>3, <1>7, <3>1, <4>1
      <4> QED  BY <3>1, <4>1 DEF PassedBy
    <3>3. PassedBy(Len(layers) + 1, asked)' /\ PassedBy(at.layer, asked)'
      BY <1>1, <1>3, <1>9, <3>1, <3>2 DEF PassedBy, Fits
    <3>4. OnVision'
      <4>1. Layer.vision = NoModel
        BY <1>3, <1>7, <3>1 DEF Layer
      <4> QED  BY <1>3, <1>9, <4>1 DEF OnVision, Layer
    <3> QED  BY <1>9, <3>1, <3>3, <3>4 DEF ModelsAsked
  <2> QED  BY <1>1, <2>1, <2>2 DEF RouteInv, ModelsAsked
<1>10. CASE /\ body.images /\ ~override
            /\ \E t \in GuardTargets : /\ at' = [t EXCEPT !.task = "none"]
                                       /\ attempts' = attempts - 1 /\ pc' = "loop"
  <2>1. PICK t \in GuardTargets :
             at' = [t EXCEPT !.task = "none"] /\ attempts' = attempts - 1 /\ pc' = "loop"
    BY <1>10
  <2>2. /\ t \in Targets /\ ~t.reapply /\ t.model = layers[t.layer].vision
        /\ t.layer \in S /\ \A j \in S : t.layer <= j
    BY <1>2, <1>7, VisionTarget
  <2>3. /\ at' \in Targets /\ at'.layer = t.layer /\ at'.model = t.model /\ at'.task = "none"
        /\ ~at'.reapply
    BY <2>1, <2>2 DEF Targets, Tasks
  <2>4. RouteTypes' /\ Unblanked' /\ Seen'
    BY <1>1, <1>2, <1>3, <1>4, <1>10, <2>1, <2>3 DEF RouteTypes, Unblanked, Seen
  <2>5. ASSUME RulesHold, blanks' = 0 PROVE ModelsAsked'
    <3>1. PassedBy(at.layer, asked)
      BY <1>1, <1>8, <1>10, <2>5
    <3>2. PassedBy(t.layer, asked)
      <4>1. ASSUME NEW j \in 1..Len(layers), j < t.layer, layers[j].vision # NoModel
            PROVE  j < at.layer
        <5>1. t.layer \in 1..Len(layers)
          BY <1>7, <2>2
        <5>2. j \notin S
          BY <2>2, <4>1, <5>1, <1>3
        <5> QED  BY <1>3, <1>7, <4>1, <5>2
      <4> QED  BY <3>1, <4>1 DEF PassedBy
    <3>3. PassedBy(at.layer, asked)'
      BY <1>1, <1>3, <2>3, <3>2 DEF PassedBy, Fits
    <3>4. OnVision'
      BY <1>3, <2>2, <2>3 DEF OnVision, Layer
    <3> QED  BY <2>1, <2>3, <3>3, <3>4 DEF ModelsAsked
  <2> QED  BY <1>1, <2>4, <2>5 DEF RouteInv, ModelsAsked
<1> QED
  BY <1>6, <1>9, <1>10 DEF Guard

\* Errors, a full queue, and the move of a request the upstream found too long
LEMMA FallbackStep == ASSUME RouteInv, Refused \/ Fails \/ Busy PROVE RouteInv'
<1>1. /\ given' = given /\ body' = body /\ checked' = checked /\ override' = override
      /\ blanks' = blanks /\ asked' = asked \cup {at.model} /\ pc \in {"admit", "fetch"}
  BY DEF Refused, Fails, Busy, ErrorFallback, flags
<1>2. failed \subseteq asked
  BY DEF RouteInv, RouteTypes
<1>3. CASE ErrorFallback(failed \cup {at.model})
  <2> DEFINE tried == failed \cup {at.model}
  <2>1. tried \subseteq asked' /\ failed' \subseteq asked'
    BY <1>1, <1>2, <1>3 DEF ErrorFallback
  <2>2. \/ \E t \in FallbackTargets(body, tried) : Takes(t)
        \/ FallbackTargets(body, tried) = {} /\ pc' = "failed" /\ at' = at /\ attempts' = attempts
    BY <1>3 DEF ErrorFallback
  <2> HIDE DEF tried
  <2> QED  BY <1>1, <2>1, <2>2, TakeOK
<1>4. CASE Busy
  <2> DEFINE tried == {}
  <2>1. tried \subseteq asked' /\ failed' \subseteq asked'
    BY <1>1, <1>2, <1>4 DEF Busy
  <2>2. \E t \in FallbackTargets(body, tried) : Takes(t)
    BY <1>4 DEF Busy
  <2> HIDE DEF tried
  <2> QED  BY <1>1, <2>1, <2>2, TakeOK
<1> QED
  BY <1>3, <1>4 DEF Refused, Fails

\* A request the upstream found too long goes to a model for long contexts.
LEMMA OverflowStep == ASSUME RouteInv, HopAfterOverflow PROVE RouteInv'
<1>1. /\ pc = "fetch" /\ given' = given /\ body' = body /\ checked' = checked /\ override' = TRUE
      /\ blanks' = blanks /\ asked' = asked \cup {at.model} /\ failed' = failed \cup {at.model}
  BY DEF HopAfterOverflow
<1>2. /\ RouteTypes /\ given \in Cases /\ attempts \in Int /\ body \in Bodies /\ at \in Targets
      /\ failed \subseteq asked /\ at.reapply \in BOOLEAN
  BY DEF RouteInv, RouteTypes, Targets
<1>3. /\ at.layer \in Nat /\ at.layer # 0 /\ layers' = layers /\ Targets' = Targets
      /\ LongModels' = LongModels /\ VisionModels' = VisionModels /\ Len(layers) \in Nat
  BY <1>1, <1>2, GivenTypes DEF Targets, layers, LongModels, VisionModels
<1>4. PICK t \in LongTargets(at.layer, body.size, failed') : Takes([t EXCEPT !.reapply = at.reapply])
  BY DEF HopAfterOverflow
<1>5. at' = [t EXCEPT !.reapply = at.reapply] /\ attempts' = Reserve(attempts) /\ pc' = "loop"
  BY <1>4 DEF Takes
<1>6. t \in Targets /\ t.model \in LongModels
  BY <1>2, <1>3, LongTarget
<1>7. at' \in Targets /\ at'.model \in LongModels /\ at'.reapply = at.reapply
  BY <1>2, <1>5, <1>6 DEF Targets
<1>8. attempts' \in Int
  BY <1>2, <1>3, <1>5, StrategyAssumption DEF Reserve, MaxAttempts
<1>9. RouteTypes'
  BY <1>1, <1>2, <1>3, <1>7, <1>8 DEF RouteTypes
<1>10. blanks = 0 => checked /\ ~at.reapply /\ body.size <= given.body.size
  BY <1>1 DEF RouteInv, Unblanked
<1>11. Unblanked'
  BY <1>1, <1>7, <1>10 DEF Unblanked
<1>12. Seen'
  BY <1>1, <1>3, <1>5, <1>7 DEF Seen
<1>13. RulesHold => ModelsAsked'
  <2>1. CASE blanks' # 0 \/ ~body'.images
    BY <2>1 DEF ModelsAsked
  <2>2. CASE at'.task = "long_context"
    BY <1>1, <1>5, <2>2 DEF ModelsAsked
  <2>3. at'.task = "long_context"
    <3>1. t.task = "long_context"
      BY <1>2, <1>3, LongTarget
    <3> QED  BY <1>5, <1>6, <3>1 DEF Targets
  <2> QED  BY <2>2, <2>3
<1> QED
  BY <1>9, <1>11, <1>12, <1>13 DEF RouteInv

\* The steps that leave the request on its model
LEMMA StayStep ==
  ASSUME RouteInv, Compress \/ Stay \/ CompressAfterOverflow
  PROVE  RouteInv'
<1>1. /\ RouteTypes /\ given \in Cases /\ attempts \in Int /\ body \in Bodies /\ Limit \in Nat
  BY LimitType DEF RouteInv, RouteTypes
<1>2. ASSUME NEW B, StaysOn(B), \A b \in B : b \in Bodies /\ b.size <= body.size /\ (b.images => body.images)
      PROVE  body' \in Bodies /\ body'.size <= body.size /\ (body'.images => body.images)
  <2>1. PICK b \in B : body' \in IF hopped' THEN Cut(b, Limit) ELSE {b}
    BY <1>2 DEF StaysOn
  <2>2. b \in Bodies /\ b.size <= body.size /\ (b.images => body.images) /\ b.size \in Nat /\ body.size \in Nat
    BY <1>1, <1>2 DEF Bodies
  <2>3. CASE body' = b
    BY <2>2, <2>3
  <2>4. CASE body' \in Cut(b, Limit)
    <3>1. body' \in Bodies /\ body'.size <= b.size /\ (body'.images => b.images)
      BY <1>1, <2>2, <2>4, CutTypes
    <3>2. body'.size \in Nat
      BY <3>1 DEF Bodies
    <3> QED  BY <2>2, <3>1, <3>2
  <2> QED  BY <2>1, <2>3, <2>4
<1>3. \A b \in Cut(body, Limit) : b \in Bodies /\ b.size <= body.size /\ (b.images => body.images)
  BY <1>1, CutTypes
<1>4. \A b \in Summaries(body) : b \in Bodies /\ b.size <= body.size /\ (b.images => body.images)
  BY <1>1, SummaryTypes
<1>5. ASSUME NEW b \in UNION {Cut(c, Limit) : c \in Summaries(body)}
      PROVE  b \in Bodies /\ b.size <= body.size /\ (b.images => body.images)
  <2>1. PICK c \in Summaries(body) : b \in Cut(c, Limit)
    OBVIOUS
  <2>2. c \in Bodies /\ c.size <= body.size /\ (c.images => body.images) /\ c.size \in Nat /\ body.size \in Nat
    BY <1>1, <1>4 DEF Bodies
  <2>3. b \in Bodies /\ b.size <= c.size /\ (b.images => c.images)
    BY <1>1, <2>1, <2>2, CutTypes
  <2>4. b.size \in Nat
    BY <2>3 DEF Bodies
  <2> QED  BY <2>2, <2>3, <2>4
<1>6. body \in Bodies /\ body.size <= body.size
  BY <1>1 DEF Bodies
<1>7. ASSUME NEW B, StaysOn(B), pc = "capacity",
             \A b \in B : b \in Bodies /\ b.size <= body.size /\ (b.images => body.images)
      PROVE  RouteInv'
  <2>1. /\ given' = given /\ at' = at /\ checked' = checked /\ override' = override
        /\ failed' = failed /\ attempts' = attempts /\ blanks' = blanks /\ asked' = asked
        /\ pc' = "admit"
    BY <1>7 DEF StaysOn, counts
  <2>2. body' \in Bodies /\ body'.size <= body.size /\ (body'.images => body.images)
    BY <1>2, <1>7
  <2> QED  BY <1>1, <1>7, <2>1, <2>2, HereOK
<1>8. CASE Compress
  <2>1. CASE StaysOn(UNION {Cut(b, Limit) : b \in Summaries(body)})
    <3> DEFINE B == UNION {Cut(b, Limit) : b \in Summaries(body)}
    <3>1. StaysOn(B) /\ \A b \in B : b \in Bodies /\ b.size <= body.size /\ (b.images => body.images)
      BY <1>5, <2>1
    <3> HIDE DEF B
    <3> QED  BY <1>7, <1>8, <3>1 DEF Compress
  <2>2. CASE StaysOn(Cut(body, Limit))
    BY <1>3, <1>7, <1>8, <2>2 DEF Compress
  <2> QED  BY <1>8, <2>1, <2>2 DEF Compress
<1>9. CASE Stay
  <2>1. CASE StaysOn(Cut(body, Limit))
    BY <1>3, <1>7, <1>9, <2>1 DEF Stay
  <2>2. CASE StaysOn({body})
    <3>1. \A b \in {body} : b \in Bodies /\ b.size <= body.size /\ (b.images => body.images)
      BY <1>6
    <3> QED  BY <1>7, <1>9, <2>2, <3>1 DEF Stay
  <2> QED  BY <1>9, <2>1, <2>2 DEF Stay
<1>10. CASE CompressAfterOverflow
  <2>1. /\ given' = given /\ at' = at /\ checked' = checked /\ override' = override
        /\ failed' = failed /\ attempts' = attempts - 1 /\ blanks' = blanks
        /\ asked \subseteq asked' /\ pc = "fetch" /\ pc' = "loop"
        /\ body' \in Summaries(body)
    BY <1>10 DEF CompressAfterOverflow
  <2>2. attempts' \in Int
    BY <1>1, <2>1
  <2> QED  BY <1>1, <1>4, <2>1, <2>2, HereOK
<1> QED
  BY <1>8, <1>9, <1>10

\* The steps that change neither request nor model
LEMMA PassStep ==
  ASSUME RouteInv, Admit \/ Answered \/ Retry \/ BlankEnd
  PROVE  RouteInv'
<1>1. /\ given' = given /\ at' = at /\ checked' = checked /\ override' = override /\ body' = body
      /\ failed' = failed /\ attempts' = attempts /\ blanks' = blanks /\ asked \subseteq asked'
      /\ pc \in {"admit", "fetch"} /\ pc' \in {"guard", "loop", "done"}
  BY DEF Admit, Answered, Retry, BlankEnd, flags, counts
<1>2. body \in Bodies /\ body.size <= body.size /\ attempts \in Int
  BY DEF RouteInv, RouteTypes, Bodies
<1> QED
  BY <1>1, <1>2, HereOK

\* The two ways on after a blank answer
LEMMA BlankStep == ASSUME RouteInv, BlankAgain \/ BlankHop PROVE RouteInv'
<1>1. /\ RouteTypes /\ given \in Cases /\ attempts \in Int /\ body \in Bodies /\ at \in Targets
      /\ given.body \in Bodies /\ blanks \in Nat
  BY GivenTypes DEF RouteInv, RouteTypes
<1>2. /\ at.layer \in 1..Len(layers) /\ Len(layers) \in Nat /\ at.task \in Tasks
  BY <1>1, GivenTypes DEF Targets
<1>3. given' = given /\ failed' = failed /\ asked \subseteq asked'
  BY DEF BlankAgain, BlankHop
<1>4. ASSUME NEW n \in Int PROVE Reserve(n) \in Int
  BY <1>2, StrategyAssumption DEF Reserve, MaxAttempts
<1>5. CASE BlankAgain
  <2>1. at' = at /\ blanks' = blanks + 1 /\ pc' # "fetch" /\ body' \in {body, given.body}
    BY <1>5 DEF BlankAgain
  <2>2. attempts' \in {0, attempts - 1, attempts}
    BY <1>5 DEF BlankAgain
  <2>3. blanks' \in Nat /\ blanks' # 0 /\ attempts' \in Int /\ body' \in Bodies
    BY <1>1, <2>1, <2>2
  <2> QED  BY <1>1, <1>3, <2>1, <2>3, BlankOK
<1>6. CASE BlankHop
  <2>1. blanks' = blanks /\ blanks # 0 /\ body' = given.body
    BY <1>6, StrategyAssumption DEF BlankHop
  <2>2. pc' \in {"loop", "done"}
    BY <1>6 DEF BlankHop
  <2>3. attempts' = 0 \/ attempts' = Reserve(attempts) - 1
    BY <1>6 DEF BlankHop
  <2>4. Reserve(attempts) \in Int
    BY <1>1, <1>4
  <2>5. attempts' \in Int
    BY <2>3, <2>4
  <2>6. PICK t \in HopTargets : at' = [t EXCEPT !.reapply = TRUE]
    BY <1>6 DEF BlankHop
  <2>7. t \in Targets
    <3> DEFINE S == {i \in at.layer + 1..Len(layers) : layers[i].vision # NoModel}
               later == at.layer + 1..Len(layers)
    <3>1. CASE given.body.images
      <4>1. S \subseteq 1..Len(layers) /\ \A i \in S : layers[i].vision # NoModel
        BY <1>2
      <4>2. t \in First(S, "vision")
        BY <2>6, <3>1 DEF HopTargets
      <4> HIDE DEF S
      <4> QED  BY <1>1, <4>1, <4>2, VisionTarget
    <3>2. CASE ~given.body.images
      <4>1. later # {} /\ t = Target(Min(later), layers[Min(later)].model, at.task)
        BY <2>6, <3>2 DEF HopTargets
      <4>2. later \subseteq Nat
        BY <1>2
      <4> HIDE DEF later
      <4>3. PICK m \in later : \A j \in later : m <= j
        BY <4>1, <4>2, LeastNumber
      <4>4. Min(later) \in later
        BY <4>3 DEF Min
      <4>5. Min(later) \in 1..Len(layers)
        BY <1>2, <4>4 DEF later
      <4>6. layers[Min(later)].model \in Models
        BY <1>1, <4>5, GivenTypes DEF LayerRecords
      <4> QED  BY <1>2, <4>1, <4>5, <4>6 DEF Target, Targets
    <3> QED  BY <3>1, <3>2
  <2>8. at' \in Targets
    BY <2>6, <2>7 DEF Targets
  <2> QED  BY <1>1, <1>3, <2>1, <2>2, <2>5, <2>8, BlankOK
<1> QED
  BY <1>5, <1>6

----------------------------------------------------------------------------
\* Every step keeps the invariant: the request stands on a layer and a model of its route, the
\* class is chosen once before a blank answer, and a request with images is on the model for
\* images of its layer unless it was moved for its size.
THEOREM RouteInvariant == StrategySpec => []RouteInv
<1>1. StrategyInit => RouteInv
  <2> SUFFICES ASSUME StrategyInit PROVE RouteInv
    OBVIOUS
  <2>1. /\ given \in Cases /\ body = given.body /\ ~checked /\ ~override /\ failed = {}
        /\ asked = {} /\ attempts = 0 /\ blanks = 0 /\ pc = "loop"
        /\ at = [Target(1, layers[1].model, "none") EXCEPT !.fallback = FALSE]
    BY DEF StrategyInit
  <2>2. given.body \in Bodies /\ 1 \in 1..Len(layers) /\ layers[1].model \in Models
    BY <2>1, GivenTypes DEF LayerRecords
  <2>3. Target(1, layers[1].model, "none") \in Targets
    BY <2>2 DEF Target, Targets, Tasks
  <2>4. /\ at \in Targets /\ at.layer = 1 /\ at.task = "none" /\ ~at.fallback /\ ~at.reapply
    BY <2>1, <2>2, <2>3 DEF Target, Targets
  <2>5. body.size <= given.body.size
    BY <2>1, <2>2 DEF Bodies
  <2>6. RouteTypes /\ Unblanked /\ Seen
    BY <2>1, <2>2, <2>4, <2>5 DEF RouteTypes, Unblanked, Seen
  <2>7. ModelsAsked
    BY <2>1, <2>4 DEF ModelsAsked
  <2> QED  BY <2>6, <2>7 DEF RouteInv
<1>2. ASSUME RouteInv, [StrategyNext]_strategyVars PROVE RouteInv'
  <2>1. CASE UNCHANGED strategyVars
    BY <1>2, <2>1 DEF RouteInv, RouteTypes, Unblanked, Seen, ModelsAsked, OnVision, PassedBy, RulesHold,
       Targets, VisionModels, LongModels, Layer, layers, Fits, strategyVars, flags, counts
  <2>2. CASE StrategyNext
    BY <1>2, <2>2, ChooseStep, HopStep, StayStep, FallbackStep, PassStep, GuardStep, OverflowStep,
       BlankStep DEF StrategyNext
  <2> QED  BY <1>2, <2>1, <2>2
<1> QED
  BY <1>1, <1>2, PTL DEF StrategySpec

\* Whatever the rules of the layers are: at the fetch a request with images is on a model its
\* route names for images, or for long contexts when it was moved for its size.
THEOREM ImagesAreSeen == StrategySpec => []ImagesSeen
<1>1. RouteInv => ImagesSeen
  <2> SUFFICES ASSUME RouteInv, pc = "fetch", body.images, override => blanks = 0
               PROVE  at.model \in VisionModels \cup LongModels
    BY DEF ImagesSeen
  <2>1. CASE override
    BY <2>1 DEF RouteInv, Seen
  <2>2. CASE ~override
    <3>1. at.model = Layer.vision
      BY <2>2 DEF RouteInv, Seen
    <3>2. at.layer \in DOMAIN layers
      BY GivenTypes DEF RouteInv, RouteTypes, Targets
    <3> QED  BY <3>1, <3>2 DEF VisionModels, Layer
  <2> QED  BY <2>1, <2>2
<1> QED
  BY <1>1, RouteInvariant, PTL

\* Where every layer with a model for images is switched on and the model can be used, a
\* request with images moreover fails only after every such model was asked that can take it.
THEOREM ImagesGoToVision == ASSUME RulesHold PROVE StrategySpec => []ImagesToVision
<1>1. RulesHold
  OBVIOUS
<1>2. RulesHold /\ RouteInv => VisionExhausted
  <2> SUFFICES ASSUME RulesHold, RouteInv, pc = "failed", body.images, blanks = 0,
                      NEW m \in VisionModels \ {NoModel}, Fits(given.body.size, m)
               PROVE  m \in asked
    BY DEF VisionExhausted
  <2>1. PassedBy(Len(layers) + 1, asked)
    BY DEF RouteInv, ModelsAsked
  <2>2. DOMAIN layers = 1..Len(layers) /\ Len(layers) \in Nat
    BY GivenTypes DEF RouteInv, RouteTypes
  <2>3. PICK i \in 1..Len(layers) : m = layers[i].vision
    BY <2>2 DEF VisionModels
  <2> QED  BY <2>1, <2>2, <2>3 DEF PassedBy
<1>3. StrategySpec => []VisionExhausted
  BY <1>1, <1>2, RouteInvariant, PTL
<1> QED
  BY <1>3, ImagesAreSeen, PTL DEF ImagesToVision

-----------------------------------------------------------------------------
(* RouteTable: the invariant.                                                *)

HostStates == {"none", "enabled", "disabled"}
RouteRows == [path : Paths \cup {"none"}, sub : Hosts \cup {Wildcard}, hosts : SUBSET Hosts,
              enabled : BOOLEAN, active : BOOLEAN]
EditOps == {"none", "create", "update", "delete", "host", "drop", "endpoint", "close"}
EditPlaces == {"none", "hosts", "endpoint", "route", "cleanup", "revoke", "grant", "rows", "row"}
Edits == [op : EditOps, at : EditPlaces, route : Nat, path : Paths, hosts : Seq(Hosts),
          left : SUBSET (Hosts \cup Paths \cup {Wildcard}), on : BOOLEAN,
          give : {"keep", "yes", "no"}, keep : BOOLEAN]
RequestPlaces == {"none", "sibling", "route", "authorize", "answered"}
Answers == {"none", "host disabled", "no host", "route disabled", "no route", "served",
            "forbidden"}
Requests == [at : RequestPlaces, host : Hosts \cup {Wildcard}, path : Paths,
             row : Hosts \cup {Wildcard}, left : Seq(Paths), route : Nat, answer : Answers,
             steady : SUBSET RouteIds]

TableTypes == /\ hostRows \in [Hosts -> HostStates] /\ routes \in [RouteIds -> RouteRows]
              /\ endpoints \subseteq Paths

\* The hosts a route is bound to, as far as its own row tells.
Bound(r) == IF routes[r].hosts # {} THEN routes[r].hosts ELSE {routes[r].sub}

\* A host that a route needs has its row, or was taken away by an administrator.
RowsThere ==
    /\ \A r \in RouteIds : /\ routes[r].sub # Wildcard => hostRows[routes[r].sub] # "none"
                           /\ \A h \in routes[r].hosts : hostRows[h] # "none" \/ h \in withdrawn
    /\ \A h \in Hosts : hostRows[h] = "disabled" => h \in withdrawn

\* No active route but r has one of the hosts on that path.
Separate(r, hosts, path) == \A q \in RouteIds \ {r} :
    routes[q].active /\ routes[q].path = path => Bound(q) \cap hosts = {}

KeysUnique == \A r \in RouteIds :
    routes[r].active /\ r \notin unchecked =>
        \A q \in RouteIds \ {r} : routes[q].active /\ routes[q].path = routes[r].path
                                    /\ q \notin unchecked => Bound(q) \cap Bound(r) = {}

PathsThere == \A r \in RouteIds : routes[r].active => routes[r].path \in endpoints

\* What a call knows between its statements: the hosts it compared with the other routes
Claimed == IF edit.keep THEN Bound(edit.route) ELSE HostSet(edit.hosts)
Listed == HostSet(edit.hosts) \ {Wildcard}

SaveFits == edit.op \in {"create", "update"} /\ edit.at \in {"hosts", "endpoint", "route"} =>
    /\ Separate(edit.route, Claimed, edit.path)
    /\ edit.at = "hosts" => edit.left # {} /\ edit.left \subseteq Listed
    /\ ~edit.keep => \A h \in Listed : hostRows[h] # "none" \/ (edit.at = "hosts" /\ h \in edit.left)
    /\ edit.at = "route" => edit.path \in endpoints

CallFits ==
    /\ edit.op \in {"create", "update", "delete"} => edit.route \in RouteIds
    /\ edit.op = "host" =>
         edit.hosts # <<>> /\ hostRows[edit.hosts[1]] # "none" /\ edit.left \subseteq Paths
    /\ edit.op = "drop" => edit.hosts # <<>> /\ \A r \in RouteIds : routes[r].sub # edit.hosts[1]
    /\ edit.op = "endpoint" =>
         /\ edit.path \in endpoints /\ Separate(0, edit.left, edit.path)
         /\ \A h \in edit.left : h # Wildcard => h \in Hosts /\ hostRows[h] # "none"
    /\ edit.op = "close" => \A r \in RouteIds : routes[r].active => routes[r].path # edit.path

\* A route that has served the host all along is the one the request finds.
RequestFits == request.steady # {} =>
    /\ \A r \in request.steady : Serves(r, request.host, request.path)
    /\ request.host \in Hosts /\ request.row = request.host
    /\ request.at \in {"route", "authorize", "answered"}
    /\ request.at = "route" => request.left # <<>> /\ Head(request.left) = request.path
    /\ request.at # "route" => request.steady \subseteq {request.route}
    /\ request.at = "answered" => request.answer = "served"

Tables == TableTypes /\ RowsThere /\ KeysUnique /\ PathsThere
Calls == edit \in Edits /\ SaveFits /\ CallFits
Asking == request \in Requests /\ RequestFits
TableInv == Tables /\ Calls /\ Asking

\* Where the host rows are there, they say nothing new of a route.
LEMMA HostsAreBound ==
  ASSUME TableTypes, RowsThere, NEW r \in RouteIds
  PROVE  HostsOf(r) = Bound(r)
BY DEF TableTypes, RowsThere, HostsOf, Bound, RouteRows

\* A row that is active is one.
LEMMA ActiveIsRoute ==
  ASSUME NEW r, routes[r].active PROVE IsRoute(r)
BY DEF IsRoute, NoRoute

\* What the comparison of the route page tells: the hosts are free on that path.
LEMMA NotTaken ==
  ASSUME TableTypes, RowsThere, NEW r, NEW hosts, NEW path, ~KeyTaken(r, hosts, path)
  PROVE  Separate(r, hosts, path)
BY HostsAreBound, ActiveIsRoute DEF KeyTaken, Separate

\* A list the route page accepts names hosts, and one that is not empty names at least one.
LEMMA ListTypes ==
  ASSUME NEW list \in HostLists
  PROVE  /\ list \in Seq(Hosts) /\ HostSet(list) \ {Wildcard} \subseteq Hosts
         /\ list # <<>> => HostSet(list) \ {Wildcard} # {}
<1>1. CASE list = <<>>
  BY <1>1 DEF HostSet
<1>2. CASE list \in {<<h>> : h \in Offered}
  <2>1. PICK h \in Offered : list = <<h>>
    BY <1>2
  <2>2. list \in Seq(Hosts) /\ DOMAIN list = {1} /\ list[1] = h /\ list # <<>> /\ h # Wildcard
    BY <2>1, HostAssumption
  <2>3. HostSet(list) = {h}
    BY <2>2 DEF HostSet
  <2> QED  BY <2>2, <2>3, HostAssumption
<1>3. CASE list \in Offered \X Offered
  <2>1. PICK g \in Offered, h \in Offered : list = <<g, h>>
    BY <1>3
  <2>2. /\ list \in Seq(Hosts) /\ DOMAIN list = {1, 2} /\ list[1] = g /\ list[2] = h
        /\ list # <<>> /\ h # Wildcard
    BY <2>1, HostAssumption
  <2>3. HostSet(list) = {g, h}
    BY <2>2 DEF HostSet
  <2> QED  BY <2>2, <2>3, HostAssumption
<1> QED
  BY <1>1, <1>2, <1>3 DEF HostLists

\* What a list of hosts stands for: all hosts where it is empty, its own members otherwise.
LEMMA ListedHosts ==
  ASSUME NEW list \in Seq(Hosts)
  PROVE  /\ HostSet(list) \ {Wildcard} \subseteq Hosts
         /\ list = <<>> => HostSet(list) = {Wildcard}
         /\ list # <<>> => /\ list[1] \in HostSet(list) /\ list[1] \in Hosts
                           /\ HostSet(list) \ {Wildcard} = HostSet(list)
BY HostAssumption DEF HostSet

\* The id of a new route is one that nobody holds.
LEMMA FreshId == FreeIds # {} => NewId \in FreeIds
<1>1. FreeIds \subseteq Nat
  BY HostAssumption DEF FreeIds, RouteIds
<1> HIDE DEF FreeIds
<1>2. FreeIds # {} => \E r \in FreeIds : \A q \in FreeIds : r <= q
  BY <1>1, LeastNumber
<1> QED
  BY <1>2 DEF NewId

-----------------------------------------------------------------------------
(* RouteTable: what a write does to the tables.                              *)

\* A row is written.
LEMMA RowSet ==
  ASSUME Tables, NEW r, NEW row \in RouteRows, routes' = [routes EXCEPT ![r] = row],
         hostRows' = hostRows, withdrawn' = withdrawn, endpoints' = endpoints,
         row.sub # Wildcard => hostRows[row.sub] # "none",
         \A h \in row.hosts : hostRows[h] # "none" \/ h \in withdrawn,
         row.active => row.path \in endpoints,
         unchecked \ {r} \subseteq unchecked',
         row.active /\ r \notin unchecked' =>
             Separate(r, IF row.hosts # {} THEN row.hosts ELSE {row.sub}, row.path)
  PROVE  Tables'
<1> DEFINE hosts == IF row.hosts # {} THEN row.hosts ELSE {row.sub}
<1>1. /\ routes \in [RouteIds -> RouteRows] /\ routes' \in [RouteIds -> RouteRows]
      /\ \A q \in RouteIds : routes'[q] = IF q = r THEN row ELSE routes[q]
  BY DEF Tables, TableTypes
<1>2. \A q \in RouteIds : Bound(q)' = IF q = r THEN hosts ELSE Bound(q)
  BY <1>1 DEF Bound
<1>3. TableTypes'
  BY <1>1 DEF Tables, TableTypes
<1>4. RowsThere'
  BY <1>1 DEF Tables, RowsThere
<1>5. PathsThere'
  BY <1>1 DEF Tables, PathsThere
<1> HIDE DEF hosts
<1>6. row.active /\ r \notin unchecked' => Separate(r, hosts, row.path)
  BY DEF hosts
<1>7. KeysUnique'
  <2> SUFFICES ASSUME NEW p \in RouteIds, NEW q \in RouteIds, p # q,
                      routes'[p].active, routes'[q].active, routes'[q].path = routes'[p].path,
                      p \notin unchecked', q \notin unchecked'
               PROVE  Bound(q)' \cap Bound(p)' = {}
    BY DEF KeysUnique
  <2>1. CASE p = r
    BY <1>1, <1>2, <1>6, <2>1 DEF Separate
  <2>2. CASE q = r
    <3>1. Bound(p) \cap hosts = {}
      BY <1>1, <1>6, <2>2 DEF Separate
    <3> QED  BY <1>2, <2>2, <3>1
  <2>3. CASE p # r /\ q # r
    <3>1. p \notin unchecked /\ q \notin unchecked /\ routes'[p] = routes[p] /\ routes'[q] = routes[q]
      BY <1>1, <2>3
    <3>2. Bound(q) \cap Bound(p) = {}
      BY <3>1 DEF Tables, KeysUnique
    <3> QED  BY <1>2, <2>3, <3>2
  <2> QED  BY <2>1, <2>2, <2>3
<1> QED
  BY <1>3, <1>4, <1>5, <1>7 DEF Tables

\* Rows are deleted.
LEMMA RowsGone ==
  ASSUME Tables, routes' \in [RouteIds -> RouteRows],
         \A r \in RouteIds : \/ routes'[r] = NoRoute
                             \/ routes'[r] = routes[r] /\ (r \in unchecked => r \in unchecked'),
         hostRows' = hostRows, withdrawn' = withdrawn, endpoints' = endpoints
  PROVE  Tables'
<1>1. /\ ~NoRoute.active /\ NoRoute.hosts = {} /\ NoRoute.sub = Wildcard
  BY DEF NoRoute
<1>2. TableTypes'
  BY DEF Tables, TableTypes
<1>3. RowsThere'
  BY <1>1 DEF Tables, RowsThere
<1>4. PathsThere'
  BY <1>1 DEF Tables, PathsThere
<1>5. KeysUnique'
  <2> SUFFICES ASSUME NEW p \in RouteIds, NEW q \in RouteIds, p # q,
                      routes'[p].active, routes'[q].active, routes'[q].path = routes'[p].path,
                      p \notin unchecked', q \notin unchecked'
               PROVE  Bound(q)' \cap Bound(p)' = {}
    BY DEF KeysUnique
  <2>1. /\ p \notin unchecked /\ q \notin unchecked
        /\ routes'[p] = routes[p] /\ routes'[q] = routes[q]
    BY <1>1
  <2>2. Bound(q) \cap Bound(p) = {}
    BY <2>1 DEF Tables, KeysUnique
  <2> QED  BY <2>1, <2>2 DEF Bound
<1> QED
  BY <1>2, <1>3, <1>4, <1>5 DEF Tables

\* A host row is written.
LEMMA HostSetTo ==
  ASSUME Tables, NEW h, NEW v \in HostStates, hostRows' = [hostRows EXCEPT ![h] = v],
         routes' = routes, unchecked' = unchecked, endpoints' = endpoints,
         v = "none" => /\ \A r \in RouteIds : routes[r].sub = Wildcard \/ routes[r].sub # h
                       /\ h \in withdrawn' \/ \A r \in RouteIds : h \notin routes[r].hosts,
         v = "disabled" => h \in withdrawn',
         withdrawn \ {h} \subseteq withdrawn'
  PROVE  Tables'
<1>1. /\ routes \in [RouteIds -> RouteRows] /\ hostRows \in [Hosts -> HostStates]
      /\ hostRows' \in [Hosts -> HostStates]
      /\ \A g \in Hosts : hostRows'[g] = IF g = h THEN v ELSE hostRows[g]
  BY DEF Tables, TableTypes
<1>2. TableTypes' /\ PathsThere' /\ KeysUnique'
  BY <1>1 DEF Tables, TableTypes, PathsThere, KeysUnique, Bound
<1>3. RowsThere'
  <2>1. ASSUME NEW r \in RouteIds, routes[r].sub # Wildcard PROVE hostRows'[routes[r].sub] # "none"
    <3>1. routes[r].sub \in Hosts /\ hostRows[routes[r].sub] # "none"
      BY <1>1, <2>1 DEF RouteRows, Tables, RowsThere
    <3> QED  BY <1>1, <2>1, <3>1
  <2>2. ASSUME NEW r \in RouteIds, NEW g \in routes[r].hosts
        PROVE  hostRows'[g] # "none" \/ g \in withdrawn'
    <3>1. g \in Hosts /\ (hostRows[g] # "none" \/ g \in withdrawn)
      BY <1>1, <2>2 DEF RouteRows, Tables, RowsThere
    <3> QED  BY <1>1, <2>2, <3>1
  <2>3. ASSUME NEW g \in Hosts, hostRows'[g] = "disabled" PROVE g \in withdrawn'
    BY <1>1, <2>3 DEF Tables, RowsThere
  <2> QED  BY <2>1, <2>2, <2>3 DEF RowsThere
<1> QED
  BY <1>2, <1>3 DEF Tables

-----------------------------------------------------------------------------
(* The request.                                                              *)

\* A row of a host that a route serves is there and enabled.
LEMMA ServedHost ==
  ASSUME Tables, NEW h \in Hosts, NEW path, NEW r \in RouteIds, Serves(r, h, path)
  PROVE  hostRows[h] = "enabled" /\ h \in Bound(r) /\ h # Wildcard
<1>1. h \in Bound(r) /\ h \notin withdrawn /\ h # Wildcard
  BY HostsAreBound, HostAssumption DEF Serves, Tables
<1>2. hostRows[h] # "none" /\ hostRows[h] # "disabled"
  BY <1>1 DEF Bound, Tables, RowsThere
<1> QED
  BY <1>1, <1>2 DEF Tables, TableTypes, HostStates

\* The steps of a request
LEMMA ArriveStep ==
  ASSUME Tables, Asking, NEW h \in Hosts, NEW path \in Paths, Arrive_(h, path),
         UNCHANGED <<hostRows, routes, granted, withdrawn, unchecked>>
  PROVE  Asking'
<1> DEFINE S == {r \in RouteIds : Serves(r, h, path)}
           c == Candidates(path)
           new == [NotAsked EXCEPT !.host = h, !.path = path, !.left = c, !.steady = S]
<1>1. c \in Seq(Paths) /\ c # <<>> /\ Head(c) = path
  BY PathAssumption DEF Candidates
<1>2. request' = IF hostRows[h] = "none" THEN [new EXCEPT !.at = "sibling"]
                  ELSE IF hostRows[h] = "disabled"
                       THEN [new EXCEPT !.at = "answered", !.answer = "host disabled"]
                       ELSE [new EXCEPT !.at = "route", !.row = h]
  BY DEF Arrive_
<1>3. hostRows[h] # "enabled" => S = {}
  BY ServedHost
<1>4. hostRows[h] \in HostStates /\ S \in SUBSET RouteIds
  BY DEF Tables, TableTypes
<1> HIDE DEF S
<1> HIDE DEF c
<1> DEFINE n1 == [NotAsked EXCEPT !.host = h]
           n2 == [n1 EXCEPT !.path = path]
           n3 == [n2 EXCEPT !.left = c]
<1>5. <<>> \in Seq(Paths) /\ {} \in SUBSET RouteIds /\ Chat \in Paths
  BY PathAssumption
<1>6. NotAsked \in Requests
  BY <1>5 DEF NotAsked, Requests, RequestPlaces, Answers
<1>7. n1 \in Requests /\ n1.host = h
  BY <1>6 DEF Requests
<1> HIDE DEF n1
<1>8. n2 \in Requests /\ n2.host = h /\ n2.path = path
  BY <1>7 DEF Requests
<1> HIDE DEF n2
<1>9. n3 \in Requests /\ n3.host = h /\ n3.path = path /\ n3.left = c
  BY <1>1, <1>8 DEF Requests
<1> HIDE DEF n3
<1>10. new = [n3 EXCEPT !.steady = S]
  BY DEF n1, n2, n3
<1> HIDE DEF new
<1>11. /\ new \in Requests /\ new.host = h /\ new.path = path /\ new.left = c /\ new.steady = S
  BY <1>4, <1>9, <1>10 DEF Requests
<1>12. CASE hostRows[h] = "none"
  <2>1. request' = [new EXCEPT !.at = "sibling"]
    BY <1>2, <1>12
  <2>2. request' \in Requests /\ request'.steady = {}
    BY <1>3, <1>11, <1>12, <2>1 DEF Requests, RequestPlaces
  <2> QED  BY <2>2 DEF Asking, RequestFits
<1>13. CASE hostRows[h] = "disabled"
  <2>1. request' = [new EXCEPT !.at = "answered", !.answer = "host disabled"]
    BY <1>2, <1>13
  <2>2. request' \in Requests /\ request'.steady = {}
    BY <1>3, <1>11, <1>13, <2>1 DEF Requests, RequestPlaces, Answers
  <2> QED  BY <2>2 DEF Asking, RequestFits
<1>14. CASE hostRows[h] = "enabled"
  <2>1. request' = [new EXCEPT !.at = "route", !.row = h]
    BY <1>2, <1>14
  <2>2. /\ request' \in Requests /\ request'.steady = S /\ request'.host = h /\ request'.path = path
        /\ request'.row = h /\ request'.at = "route" /\ request'.left = c
    BY <1>11, <2>1 DEF Requests, RequestPlaces
  <2>3. \A r \in S : Serves(r, h, path)
    BY DEF S
  <2>4. \A r \in S : Serves(r, request.host, request.path)'
    BY <2>2, <2>3 DEF Serves, HostsOf
  <2> QED  BY <1>1, <2>2, <2>4 DEF Asking, RequestFits
<1> QED
  BY <1>4, <1>12, <1>13, <1>14 DEF HostStates

\* A host without a row of its own has no route that must serve it.
LEMMA FindHostStep ==
  ASSUME Asking, FindSibling PROVE Asking'
<1>1. request \in Requests /\ request.at = "sibling" /\ request.steady = {}
  BY DEF Asking, RequestFits, FindSibling
<1>2. ASSUME NEW answer \in Answers, Answer(answer) PROVE Asking'
  <2>1. request' = [request EXCEPT !.at = "answered", !.answer = answer]
    BY <1>2 DEF Answer
  <2>2. request' \in Requests /\ request'.steady = {}
    BY <1>1, <1>2, <2>1 DEF Requests, RequestPlaces
  <2> QED  BY <2>2 DEF Asking, RequestFits
<1>3. ASSUME NEW row \in Hosts \cup {Wildcard}, Goto(row) PROVE Asking'
  <2>1. CASE Answer("host disabled")
    BY <1>2, <2>1 DEF Answers
  <2>2. CASE request' = [request EXCEPT !.at = "route", !.row = row]
    <3>1. request' \in Requests /\ request'.steady = {}
      BY <1>1, <1>3, <2>2 DEF Requests, RequestPlaces
    <3> QED  BY <3>1 DEF Asking, RequestFits
  <2> QED  BY <1>3, <2>1, <2>2 DEF Goto
<1>4. CASE /\ Cardinality(Siblings(request.host)) = 1
           /\ Goto(CHOOSE s \in Siblings(request.host) : TRUE)
  <2>1. Siblings(request.host) # {}
    BY <1>4, FS_EmptySet
  <2>2. (CHOOSE s \in Siblings(request.host) : TRUE) \in Hosts
    BY <2>1 DEF Siblings
  <2> QED  BY <1>3, <1>4, <2>2
<1>5. CASE Goto(Wildcard)
  BY <1>3, <1>5
<1>6. CASE Answer("no host")
  BY <1>2, <1>6 DEF Answers
<1> QED
  BY <1>4, <1>5, <1>6 DEF FindSibling

\* Among the routes that are bound to a host and active on a path, one is checked.
LEMMA OneRoute ==
  ASSUME Tables, NEW h \in Hosts, NEW path, NEW r \in RouteIds, Serves(r, h, path),
         NEW q \in RouteIds, routes[q].active, routes[q].path = path, q \notin unchecked,
         h \in Bound(q)
  PROVE  q = r
<1>1. h \in Bound(r) /\ routes[r].active /\ routes[r].path = path /\ r \notin unchecked
  BY ServedHost DEF Serves
<1> QED
  BY <1>1 DEF Tables, KeysUnique

\* The query finds a route that serves the host wherever there is one, and no other checked one.
LEMMA FindRouteStep ==
  ASSUME Tables, Asking, FindRoute, UNCHANGED <<hostRows, routes, granted, withdrawn, unchecked>>
  PROVE  Asking'
<1> DEFINE all == {r \in RouteIds : IsRoute(r) /\ routes[r].active
                                     /\ routes[r].path = Head(request.left)}
           live == Matching({r \in all : routes[r].enabled})
<1>1. request \in Requests /\ request.at = "route"
  BY DEF Asking, FindRoute
<1>2. \/ \E r \in live : request' = [request EXCEPT !.at = "authorize", !.route = r,
                                !.steady = IF r \in unchecked THEN {} ELSE @]
      \/ live = {} /\ Answer("route disabled")
      \/ live = {} /\ Answer("no route")
      \/ live = {} /\ Len(request.left) > 1 /\ request' = [request EXCEPT !.left = Tail(@)]
  BY DEF FindRoute
<1>3. live \subseteq RouteIds /\ RouteIds \subseteq Nat
  BY HostAssumption DEF Matching, RouteIds
<1>4. ASSUME NEW r \in request.steady
      PROVE  /\ r \in RouteIds /\ Serves(r, request.host, request.path) /\ request.host \in Hosts
             /\ request.row = request.host /\ Head(request.left) = request.path
             /\ r \in all /\ routes[r].enabled /\ ByHost(r)
  <2>1. /\ r \in RouteIds /\ Serves(r, request.host, request.path) /\ request.host \in Hosts
        /\ request.row = request.host /\ Head(request.left) = request.path
    BY <1>1 DEF Asking, RequestFits, Requests
  <2>2. r \in all /\ routes[r].enabled
    BY <2>1, ActiveIsRoute DEF Serves
  <2>3. request.host \in Bound(r) /\ request.host # Wildcard
    BY <2>1, ServedHost
  <2>4. ByHost(r)
    BY <2>1, <2>3 DEF ByHost, Bound
  <2> QED  BY <2>1, <2>2, <2>4
<1>5. request.steady # {} => live # {} /\ \A q \in live : q \in all /\ ByHost(q)
  BY <1>4 DEF Matching
<1>6. ASSUME NEW q \in live, q \notin unchecked PROVE request.steady \subseteq {q}
  <2> SUFFICES ASSUME NEW r \in request.steady PROVE q = r
    OBVIOUS
  <2>1. q \in all /\ ByHost(q)
    BY <1>5
  <2>2. q \in RouteIds /\ routes[q].active /\ routes[q].path = request.path
    BY <1>4, <2>1
  <2>3. request.host \in Bound(q)
    BY <1>4, <2>1 DEF ByHost, Bound
  <2> QED  BY <1>4, <1>6, <2>2, <2>3, OneRoute
<1> HIDE DEF live, all
<1>7. CASE \E r \in live : request' = [request EXCEPT !.at = "authorize", !.route = r,
                                !.steady = IF r \in unchecked THEN {} ELSE @]
  <2>1. PICK q \in live : request' = [request EXCEPT !.at = "authorize", !.route = q,
                                !.steady = IF q \in unchecked THEN {} ELSE @]
    BY <1>7
  <2> DEFINE S == IF q \in unchecked THEN {} ELSE request.steady
  <2>2. S \in SUBSET RouteIds /\ S \subseteq request.steady /\ S \subseteq {q} /\ q \in Nat
    BY <1>1, <1>3, <1>6 DEF Requests
  <2>3. request' = [request EXCEPT !.at = "authorize", !.route = q, !.steady = S]
    BY <2>1
  <2> HIDE DEF S
  <2>4. /\ request' \in Requests /\ request'.steady = S /\ request'.route = q
        /\ request'.at = "authorize" /\ request'.host = request.host /\ request'.path = request.path
        /\ request'.row = request.row
    BY <1>1, <2>2, <2>3 DEF Requests, RequestPlaces
  <2>5. ASSUME NEW r \in S
        PROVE  Serves(r, request.host, request.path)' /\ request.host \in Hosts
               /\ request.row = request.host
    <3>1. Serves(r, request.host, request.path) /\ request.host \in Hosts
          /\ request.row = request.host
      BY <1>4, <2>2
    <3> QED  BY <2>4, <3>1 DEF Serves, HostsOf
  <2> QED  BY <2>2, <2>4, <2>5 DEF Asking, RequestFits
<1>8. CASE live = {}
  <2>1. request.steady = {}
    BY <1>5, <1>8
  <2>2. ASSUME NEW answer \in Answers, Answer(answer) PROVE Asking'
    <3>1. request' = [request EXCEPT !.at = "answered", !.answer = answer]
      BY <2>2 DEF Answer
    <3>2. request' \in Requests /\ request'.steady = {}
      BY <1>1, <2>1, <2>2, <3>1 DEF Requests, RequestPlaces
    <3> QED  BY <3>2 DEF Asking, RequestFits
  <2>3. ASSUME Len(request.left) > 1, request' = [request EXCEPT !.left = Tail(@)] PROVE Asking'
    <3>1. request.left \in Seq(Paths) /\ request.left # <<>>
      BY <1>1, <2>3 DEF Requests
    <3>2. Tail(request.left) \in Seq(Paths)
      BY <3>1
    <3>3. request' \in Requests /\ request'.steady = {}
      BY <1>1, <2>1, <2>3, <3>2 DEF Requests
    <3> QED  BY <3>3 DEF Asking, RequestFits
  <2> QED  BY <1>2, <1>8, <2>2, <2>3 DEF Answers
<1> QED
  BY <1>2, <1>7, <1>8

\* The user is authorized for the route that has served his host all along.
LEMMA AuthorizeStep ==
  ASSUME Asking, Authorize, UNCHANGED <<hostRows, routes, granted, withdrawn, unchecked>>
  PROVE  Asking'
<1> DEFINE answer == IF request.route \in granted THEN "served" ELSE "forbidden"
<1>1. request \in Requests /\ request.at = "authorize" /\ answer \in Answers
      /\ request' = [request EXCEPT !.at = "answered", !.answer = answer]
  BY DEF Asking, Authorize, Answer, Answers
<1>2. request.steady # {} => answer = "served"
  BY <1>1 DEF Asking, RequestFits, Serves
<1> HIDE DEF answer
<1>3. /\ request' \in Requests /\ request'.steady = request.steady /\ request'.at = "answered"
      /\ request'.answer = answer /\ request'.route = request.route /\ request'.row = request.row
      /\ request'.host = request.host /\ request'.path = request.path
  BY <1>1 DEF Requests, RequestPlaces
<1>4. ASSUME NEW r \in request.steady PROVE Serves(r, request.host, request.path)'
  <2>1. Serves(r, request.host, request.path)
    BY DEF Asking, RequestFits
  <2> QED  BY <1>3, <2>1 DEF Serves, HostsOf
<1> QED
  BY <1>1, <1>2, <1>3, <1>4 DEF Asking, RequestFits

\* A request that is not there yet has its type.
LEMMA NotAskedType == NotAsked \in Requests /\ NotAsked.steady = {}
<1>1. <<>> \in Seq(Paths) /\ {} \in SUBSET RouteIds /\ Chat \in Paths
  BY PathAssumption
<1> QED
  BY <1>1 DEF NotAsked, Requests, RequestPlaces, Answers

\* A step of the request keeps the invariant.
LEMMA RequestKeeps == ASSUME TableInv, RequestStep PROVE TableInv'
<1>1. UNCHANGED <<hostRows, endpoints, routes, granted, edit, edits, withdrawn, unchecked>>
  BY DEF RequestStep
<1>2. Tables'
  BY <1>1 DEF TableInv, Tables, TableTypes, RowsThere, KeysUnique, PathsThere, Bound
<1>3. Calls'
  BY <1>1 DEF TableInv, Calls, SaveFits, CallFits, Separate, Claimed, Bound, Listed, HostSet
<1>4. Asking'
  <2>1. CASE EndRequest
    BY <2>1, NotAskedType DEF EndRequest, Asking, RequestFits
  <2> QED
    BY <1>1, <2>1, ArriveStep, FindHostStep, FindRouteStep, AuthorizeStep DEF TableInv, RequestStep
<1> QED
  BY <1>2, <1>3, <1>4 DEF TableInv

\* While an administrator writes, the request keeps the routes that still serve its host.
LEMMA WatchKeeps == ASSUME Asking, Watched PROVE Asking'
<1> DEFINE S == {r \in request.steady : \A h \in Hosts, path \in Paths :
                        h = request.host /\ path = request.path => Serves(r, h, path)'}
<1>1. request' = [request EXCEPT !.steady = S] /\ request \in Requests /\ S \subseteq request.steady
  BY DEF Watched, Asking
<1>2. S \in SUBSET RouteIds
  BY <1>1 DEF Requests
<1>3. ASSUME NEW r \in S, request.host \in Hosts, request.path \in Paths
      PROVE  \/ Serves(r, request.host, request.path)'
             \/ request'.host # request.host \/ request'.path # request.path
  <2> SUFFICES ASSUME request'.host = request.host, request'.path = request.path
               PROVE  Serves(r, request.host, request.path)'
    OBVIOUS
  <2>1. \A h \in Hosts, path \in Paths : h = request.host /\ path = request.path => Serves(r, h, path)'
    BY <1>3
  <2> QED  BY <1>3, <2>1 DEF Serves, HostsOf
<1> HIDE DEF S
<1>4. /\ request' \in Requests /\ request'.steady = S /\ request'.at = request.at
      /\ request'.answer = request.answer /\ request'.route = request.route
      /\ request'.row = request.row /\ request'.host = request.host
      /\ request'.path = request.path /\ request'.left = request.left
  BY <1>1, <1>2 DEF Requests
<1>5. request.path \in Paths
  BY <1>1 DEF Requests
<1> QED
  BY <1>1, <1>3, <1>4, <1>5 DEF Asking, RequestFits

-----------------------------------------------------------------------------
(* The route page.                                                           *)

\* A call that has ended owes nothing.
LEMMA RestCall ==
  ASSUME edit' = NoEdit PROVE Calls'
<1>1. <<>> \in Seq(Hosts) /\ {} \in SUBSET (Hosts \cup Paths \cup {Wildcard}) /\ Chat \in Paths
  BY PathAssumption
<1>2. NoEdit \in Edits
  BY <1>1 DEF NoEdit, Edits, EditOps, EditPlaces
<1>3. edit'.op = "none"
  BY DEF NoEdit
<1> QED
  BY <1>2, <1>3 DEF Calls, SaveFits, CallFits

\* The comparison a call began with is not touched by what it writes before its route.
LEMMA ClaimKept ==
  ASSUME NEW r, NEW hosts, NEW path, Separate(r, hosts, path),
         routes' = routes, edit'.route = r, edit'.path = path, Claimed' = hosts
  PROVE  Separate(edit.route, Claimed, edit.path)'
<1>1. \A q \in RouteIds : Bound(q)' = Bound(q)
  BY DEF Bound
<1> QED
  BY <1>1 DEF Separate

\* Create and update begin with their comparison with the other routes.
LEMMA SaveBegins ==
  ASSUME Tables, NEW op \in {"create", "update"}, NEW r \in RouteIds, NEW keep \in BOOLEAN,
         NEW list \in HostLists, NEW path \in Paths, NEW on \in BOOLEAN,
         NEW give \in {"keep", "yes", "no"}, keep => op = "update",
         ~KeyTaken(IF op = "create" THEN 0 ELSE r, IF keep THEN HostsOf(r) ELSE HostSet(list), path),
         edit' = [op |-> op, at |-> IF keep \/ list = <<>> THEN "endpoint" ELSE "hosts",
                  route |-> r, path |-> path, hosts |-> list,
                  left |-> IF keep THEN {} ELSE HostSet(list) \ {Wildcard}, on |-> on,
                  give |-> give, keep |-> keep],
         UNCHANGED <<hostRows, endpoints, routes, withdrawn, unchecked>>
  PROVE  Tables' /\ Calls'
<1> DEFINE hosts == HostSet(list) \ {Wildcard}
           left == IF keep THEN {} ELSE hosts
           place == IF keep \/ list = <<>> THEN "endpoint" ELSE "hosts"
<1>1. Tables'
  BY DEF Tables, TableTypes, RowsThere, KeysUnique, PathsThere, Bound
<1>2. list \in Seq(Hosts) /\ hosts \subseteq Hosts /\ (list # <<>> => hosts # {})
      /\ (list = <<>> => hosts = {})
  BY ListTypes, ListedHosts
<1>3. r \in Nat /\ left \in SUBSET (Hosts \cup Paths \cup {Wildcard}) /\ place \in {"endpoint", "hosts"}
  BY <1>2, HostAssumption DEF RouteIds
<1>4. Separate(r, IF keep THEN Bound(r) ELSE HostSet(list), path)
  <2>1. CASE op = "update"
    BY <2>1, HostsAreBound, NotTaken DEF Tables
  <2>2. CASE op = "create"
    <3>1. Separate(0, HostSet(list), path)
      BY <2>2, NotTaken DEF Tables
    <3>2. 0 \notin RouteIds
      BY HostAssumption DEF RouteIds
    <3> QED  BY <2>2, <3>1, <3>2 DEF Separate
  <2> QED  BY <2>1, <2>2
<1>5. place = "hosts" => ~keep /\ left = hosts /\ hosts # {}
  BY <1>2
<1>6. ~keep /\ place # "hosts" => hosts = {}
  BY <1>2
<1> DEFINE e == [op |-> op, at |-> place, route |-> r, path |-> path, hosts |-> list,
                 left |-> left, on |-> on, give |-> give, keep |-> keep]
<1>7. edit' = e /\ Listed' = hosts
  BY DEF Listed, HostSet
<1> HIDE DEF left, place
<1>8. e \in Edits
  BY <1>2, <1>3 DEF Edits, EditOps, EditPlaces
<1> HIDE DEF hosts
<1>9. SaveFits'
  <2>1. /\ edit'.route = r /\ edit'.path = path /\ edit'.hosts = list /\ edit'.keep = keep
        /\ edit'.left = left /\ edit'.at = place
    BY <1>7
  <2> HIDE DEF e
  <2>2. Separate(edit.route, Claimed, edit.path)'
    <3>1. Claimed' = IF keep THEN Bound(r) ELSE HostSet(list)
      BY <2>1 DEF Claimed, Bound, HostSet
    <3> QED  BY <1>4, <2>1, <3>1, ClaimKept
  <2> QED  BY <1>3, <1>5, <1>6, <1>7, <2>1, <2>2 DEF SaveFits
<1>10. CallFits'
  BY <1>7 DEF CallFits
<1> QED
  BY <1>1, <1>7, <1>8, <1>9, <1>10 DEF Calls

\* The checks of createAdminRoute
LEMMA CreateKeeps ==
  ASSUME Tables, NEW list \in HostLists, NEW path \in Paths, NEW on \in BOOLEAN,
         NEW give \in {"yes", "no"}, CreateRoute(list, path, on, give)
  PROVE  Tables' /\ Calls'
<1>1. NewId \in RouteIds
  BY FreshId DEF CreateRoute, FreeIds
<1>2. edit' = [NoEdit EXCEPT !.op = "create", !.route = NewId, !.path = path, !.hosts = list,
                    !.at = IF list = <<>> THEN "endpoint" ELSE "hosts", !.on = on, !.give = give,
                    !.left = HostSet(list) \ {Wildcard}]
  BY DEF CreateRoute
<1>3. edit' = [op |-> "create", at |-> IF list = <<>> THEN "endpoint" ELSE "hosts",
               route |-> NewId, path |-> path, hosts |-> list,
               left |-> HostSet(list) \ {Wildcard}, on |-> on, give |-> give, keep |-> FALSE]
  BY <1>2 DEF NoEdit
<1>4. ~KeyTaken(0, HostSet(list), path) /\ UNCHANGED <<hostRows, endpoints, routes, withdrawn, unchecked>>
  BY DEF CreateRoute
<1> QED
  BY <1>1, <1>3, <1>4, SaveBegins

\* The checks of updateAdminRoute, with and without a list of hosts
LEMMA UpdateKeeps ==
  ASSUME Tables, NEW r \in RouteIds, NEW keep \in BOOLEAN, NEW list \in HostLists,
         NEW path \in Paths, NEW on \in BOOLEAN, NEW give \in {"keep", "yes", "no"},
         UpdateRoute(r, keep, list, path, on, give)
  PROVE  Tables' /\ Calls'
<1>1. edit' = [NoEdit EXCEPT !.op = "update", !.route = r, !.path = path, !.hosts = list,
                    !.at = IF keep \/ list = <<>> THEN "endpoint" ELSE "hosts",
                    !.keep = keep, !.on = on, !.give = give,
                    !.left = IF keep THEN {} ELSE HostSet(list) \ {Wildcard}]
  BY DEF UpdateRoute
<1>2. edit' = [op |-> "update", at |-> IF keep \/ list = <<>> THEN "endpoint" ELSE "hosts",
               route |-> r, path |-> path, hosts |-> list,
               left |-> IF keep THEN {} ELSE HostSet(list) \ {Wildcard}, on |-> on,
               give |-> give, keep |-> keep]
  BY <1>1 DEF NoEdit
<1>3. /\ ~KeyTaken(r, IF keep THEN HostsOf(r) ELSE HostSet(list), path)
      /\ UNCHANGED <<hostRows, endpoints, routes, withdrawn, unchecked>>
  BY DEF UpdateRoute
<1> QED
  BY <1>2, <1>3, SaveBegins

\* The first host of the list that is still without its row
LEMMA NextListed ==
  ASSUME NEW list \in Seq(Hosts), NEW left, left # {}, left \subseteq HostSet(list) \ {Wildcard}
  PROVE  list[CHOOSE i \in DOMAIN list :
                  list[i] \in left /\ \A j \in 1..(i - 1) : list[j] \notin left] \in left
<1> DEFINE T == {i \in DOMAIN list : list[i] \in left}
<1>1. T # {} /\ T \subseteq Nat /\ DOMAIN list = 1..Len(list) /\ Len(list) \in Nat
  BY DEF HostSet
<1>2. PICK m \in T : \A j \in T : m <= j
  BY <1>1, LeastNumber
<1>3. m \in DOMAIN list /\ list[m] \in left
  OBVIOUS
<1>4. ASSUME NEW j \in 1..(m - 1) PROVE list[j] \notin left
  <2>1. j \in DOMAIN list /\ m \in Nat /\ j < m /\ j \in Nat
    BY <1>1
  <2> QED  BY <1>2, <2>1
<1> HIDE DEF T
<1> QED
  BY <1>3, <1>4

\* findOrCreateRouteSubdomain: one more listed host has its row.
LEMMA HostRowKeeps == ASSUME Tables, Calls, FindOrCreateHost PROVE Tables' /\ Calls'
<1> DEFINE h == edit.hosts[CHOOSE i \in DOMAIN edit.hosts :
                    edit.hosts[i] \in edit.left /\ \A j \in 1..(i - 1) : edit.hosts[j] \notin edit.left]
<1>1. /\ edit \in Edits /\ edit.op \in {"create", "update"} /\ edit.at = "hosts"
      /\ UNCHANGED <<endpoints, routes, granted, unchecked>>
  BY DEF Calls, FindOrCreateHost, At_
<1>2. /\ hostRows' = [hostRows EXCEPT ![h] = IF @ = "none" THEN "enabled" ELSE @]
      /\ withdrawn' = IF hostRows[h] = "none" THEN withdrawn \ {h} ELSE withdrawn
      /\ edit' = [edit EXCEPT !.left = @ \ {h},
                              !.at = IF edit.left = {h} THEN "endpoint" ELSE "hosts"]
  BY DEF FindOrCreateHost
<1>3. /\ edit.left # {} /\ edit.left \subseteq HostSet(edit.hosts) \ {Wildcard}
      /\ edit.hosts \in Seq(Hosts)
  BY <1>1 DEF Calls, SaveFits, Listed, Edits
<1>4. h \in edit.left
  BY <1>3, NextListed
<1>5. h \in Hosts
  BY <1>3, <1>4, ListedHosts
<1> HIDE DEF h
<1> DEFINE v == IF hostRows[h] = "none" THEN "enabled" ELSE hostRows[h]
<1>6. hostRows[h] \in HostStates /\ (hostRows[h] = "disabled" => h \in withdrawn)
  BY <1>5 DEF Tables, TableTypes, RowsThere
<1>7. v \in HostStates /\ v # "none" /\ hostRows' = [hostRows EXCEPT ![h] = v]
  BY <1>2, <1>6 DEF HostStates
<1>8. (v = "disabled" => h \in withdrawn') /\ withdrawn \ {h} \subseteq withdrawn'
  BY <1>2, <1>6
<1> HIDE DEF v
<1>9. Tables'
  BY <1>1, <1>7, <1>8, HostSetTo
<1>10. /\ edit' \in Edits /\ edit'.left = edit.left \ {h}
       /\ edit'.at = IF edit.left = {h} THEN "endpoint" ELSE "hosts"
       /\ edit'.op = edit.op /\ edit'.route = edit.route /\ edit'.path = edit.path
       /\ edit'.hosts = edit.hosts /\ edit'.keep = edit.keep
  BY <1>1, <1>2 DEF Edits, EditPlaces
<1>11. SaveFits'
  <2>1. /\ Separate(edit.route, Claimed, edit.path)
        /\ ~edit.keep => \A g \in Listed : hostRows[g] # "none" \/ g \in edit.left
    BY <1>1 DEF Calls, SaveFits
  <2>2. Separate(edit.route, Claimed, edit.path)'
    <3>1. Claimed' = Claimed
      BY <1>1, <1>10 DEF Claimed, Bound, HostSet
    <3> QED  BY <1>1, <1>10, <2>1, <3>1, ClaimKept
  <2>3. Listed' = Listed /\ Listed \subseteq Hosts
    BY <1>3, <1>10, ListedHosts DEF Listed, HostSet
  <2>4. \A g \in Hosts : hostRows'[g] = IF g = h THEN v ELSE hostRows[g]
    BY <1>7 DEF Tables, TableTypes
  <2>5. ~edit.keep => \A g \in Listed : hostRows'[g] # "none" \/ (edit.left # {h} /\ g \in edit.left \ {h})
    BY <1>7, <2>1, <2>3, <2>4
  <2>6. edit.left # {h} => edit.left \ {h} # {} /\ edit.left \ {h} \subseteq Listed
    BY <1>3, <1>4 DEF Listed
  <2>7. edit'.at # "route"
    BY <1>10
  <2> QED  BY <1>10, <2>2, <2>3, <2>5, <2>6, <2>7 DEF SaveFits
<1>12. CallFits'
  BY <1>1, <1>10 DEF Calls, CallFits
<1> QED
  BY <1>9, <1>10, <1>11, <1>12 DEF Calls

\* findOrCreateRouteEndpoint: the path of the route has its endpoint.
LEMMA EndpointRowKeeps == ASSUME Tables, Calls, FindOrCreateEndpoint PROVE Tables' /\ Calls'
<1>1. /\ edit \in Edits /\ edit.op \in {"create", "update"} /\ edit.at = "endpoint"
      /\ UNCHANGED <<hostRows, routes, granted, withdrawn, unchecked>>
      /\ endpoints' = endpoints \cup {edit.path} /\ edit' = [edit EXCEPT !.at = "route"]
  BY DEF Calls, FindOrCreateEndpoint, At_, Goes_
<1>2. Tables'
  <2>1. endpoints \subseteq endpoints' /\ endpoints' \subseteq Paths
    BY <1>1 DEF Tables, TableTypes, Edits
  <2> QED  BY <1>1, <2>1 DEF Tables, TableTypes, RowsThere, KeysUnique, PathsThere, Bound
<1>3. /\ edit' \in Edits /\ edit'.at = "route" /\ edit'.op = edit.op /\ edit'.route = edit.route
      /\ edit'.path = edit.path /\ edit'.hosts = edit.hosts /\ edit'.keep = edit.keep
  BY <1>1 DEF Edits, EditPlaces
<1>4. SaveFits'
  <2>1. /\ Separate(edit.route, Claimed, edit.path)
        /\ ~edit.keep => \A g \in Listed : hostRows[g] # "none"
    BY <1>1 DEF Calls, SaveFits
  <2>2. Separate(edit.route, Claimed, edit.path)'
    <3>1. Claimed' = Claimed
      BY <1>1, <1>3 DEF Claimed, Bound, HostSet
    <3> QED  BY <1>1, <1>3, <2>1, <3>1, ClaimKept
  <2>3. Listed' = Listed
    BY <1>3 DEF Listed, HostSet
  <2> QED  BY <1>1, <1>3, <2>1, <2>2, <2>3 DEF SaveFits
<1>5. CallFits'
  BY <1>1, <1>3 DEF Calls, CallFits
<1> QED
  BY <1>2, <1>3, <1>4, <1>5 DEF Calls

\* Behind its write a call owes nothing that the tables could contradict.
LEMMA LaterCall ==
  ASSUME Calls, edit' \in Edits, edit'.op = edit.op, edit'.route = edit.route,
         edit.op \in {"create", "update", "delete"},
         edit'.at \in {"route", "cleanup", "revoke", "grant"}, edit'.at = "route" => edit.op = "delete"
  PROVE  Calls'
BY DEF Calls, SaveFits, CallFits

\* The row is written, on the comparison made at the beginning of the call.
LEMMA SaveKeeps == ASSUME Tables, Calls, SaveRoute PROVE Tables' /\ Calls'
<1> DEFINE r == edit.route
           row == Saved
           hosts == Claimed
           stale == IF edit.op = "update" THEN {routes[r].sub} \ {Wildcard, Saved.sub} ELSE {}
<1>1. /\ edit \in Edits /\ edit.op \in {"create", "update"} /\ edit.at = "route"
      /\ routes' = [routes EXCEPT ![r] = row] /\ unchecked' = unchecked \ {r}
      /\ UNCHANGED <<hostRows, endpoints, withdrawn>>
      /\ edit' = [edit EXCEPT !.left = stale, !.at = "cleanup"]
  BY DEF Calls, SaveRoute, At_
<1>2. /\ r \in RouteIds /\ Separate(r, hosts, edit.path) /\ edit.path \in endpoints
      /\ ~edit.keep => \A h \in Listed : hostRows[h] # "none"
  BY <1>1 DEF Calls, SaveFits, CallFits
<1>3. routes[r] \in RouteRows /\ edit.hosts \in Seq(Hosts) /\ edit.keep \in BOOLEAN
      /\ edit.path \in Paths /\ edit.on \in BOOLEAN
  BY <1>1, <1>2 DEF Tables, TableTypes, Edits
<1>4. /\ row.path = edit.path
      /\ row.sub = IF edit.keep THEN routes[r].sub ELSE IF edit.hosts = <<>> THEN Wildcard ELSE edit.hosts[1]
      /\ row.hosts = IF edit.keep THEN routes[r].hosts ELSE HostSet(edit.hosts) \ {Wildcard}
  BY DEF Saved
<1>5. row \in RouteRows
  <2>1. row.sub \in Hosts \cup {Wildcard} /\ row.hosts \in SUBSET Hosts
    BY <1>3, <1>4, ListedHosts DEF RouteRows
  <2>2. routes[r].active \in BOOLEAN
    BY <1>3 DEF RouteRows
  <2> DEFINE a == edit.op = "create" \/ edit.on \/ routes[r].active
             s == row.sub
             hs == row.hosts
  <2>3. a \in BOOLEAN
    OBVIOUS
  <2>4. row = [path |-> edit.path, sub |-> s, hosts |-> hs, enabled |-> edit.on, active |-> a]
    BY DEF Saved
  <2> HIDE DEF a, s, hs
  <2>5. s \in Hosts \cup {Wildcard} /\ hs \in SUBSET Hosts
    BY <2>1 DEF s, hs
  <2> HIDE DEF row
  <2> QED  BY <1>3, <2>3, <2>4, <2>5 DEF RouteRows
<1>6. (IF row.hosts # {} THEN row.hosts ELSE {row.sub}) = hosts
  <2>1. CASE edit.keep
    BY <1>4, <2>1 DEF Bound, Claimed
  <2>2. CASE ~edit.keep
    BY <1>3, <1>4, <2>2, ListedHosts DEF Claimed
  <2> QED  BY <1>3, <2>1, <2>2
<1>7. /\ row.sub # Wildcard => hostRows[row.sub] # "none"
      /\ \A h \in row.hosts : hostRows[h] # "none" \/ h \in withdrawn
  <2>1. CASE edit.keep
    BY <1>2, <1>4, <2>1 DEF Tables, RowsThere
  <2>2. CASE ~edit.keep
    BY <1>2, <1>3, <1>4, <2>2, ListedHosts DEF Listed
  <2> QED  BY <1>3, <2>1, <2>2
<1> HIDE DEF row, hosts, stale
<1>8. Tables'
  BY <1>1, <1>2, <1>4, <1>5, <1>6, <1>7, RowSet
<1>9. Calls'
  <2>1. stale \in SUBSET (Hosts \cup Paths \cup {Wildcard})
    BY <1>3 DEF stale, RouteRows
  <2>2. edit' \in Edits /\ edit'.op = edit.op /\ edit'.route = edit.route /\ edit'.at = "cleanup"
    BY <1>1, <2>1 DEF Edits, EditPlaces
  <2> QED  BY <1>1, <2>2, LaterCall
<1> QED
  BY <1>8, <1>9

\* cleanupUnusedRouteSubdomain deletes a host row only where no route needs it.
LEMMA CleanUpKeeps == ASSUME Tables, Calls, CleanUp PROVE Tables' /\ Calls'
<1>1. /\ edit \in Edits /\ edit.op \in {"create", "update", "delete"} /\ edit.at = "cleanup"
      /\ UNCHANGED <<endpoints, routes, granted, withdrawn, unchecked>>
  BY DEF Calls, CleanUp, At_
<1>2. CASE edit' = NoEdit /\ hostRows' = hostRows
  <2>1. Tables'
    BY <1>1, <1>2 DEF Tables, TableTypes, RowsThere, KeysUnique, PathsThere, Bound
  <2> QED  BY <1>2, <2>1, RestCall
<1>3. CASE edit' = [edit EXCEPT !.at = "revoke"] /\ hostRows' = hostRows
  <2>1. Tables'
    BY <1>1, <1>3 DEF Tables, TableTypes, RowsThere, KeysUnique, PathsThere, Bound
  <2>2. edit' \in Edits /\ edit'.op = edit.op /\ edit'.route = edit.route /\ edit'.at = "revoke"
    BY <1>1, <1>3 DEF Edits, EditPlaces
  <2> QED  BY <1>1, <2>1, <2>2, LaterCall
<1>4. ASSUME NEW h \in edit.left, hostRows' = Cleaned(h), edit' = [edit EXCEPT !.left = @ \ {h}]
      PROVE  Tables' /\ Calls'
  <2>1. edit' \in Edits /\ edit'.op = edit.op /\ edit'.route = edit.route /\ edit'.at = "cleanup"
    BY <1>1, <1>4 DEF Edits
  <2>2. ASSUME hostRows' = hostRows PROVE Tables'
    BY <1>1, <2>2 DEF Tables, TableTypes, RowsThere, KeysUnique, PathsThere, Bound
  <2>3. ASSUME Unused(h), hostRows' = [hostRows EXCEPT ![h] = "none"] PROVE Tables'
    <3>1. \A r \in RouteIds : /\ routes[r].sub = Wildcard \/ routes[r].sub # h
                              /\ h \notin routes[r].hosts
      BY <2>3 DEF Unused, IsRoute, NoRoute
    <3>2. "none" \in HostStates
      BY DEF HostStates
    <3> DEFINE v == "none"
    <3>3. v \in HostStates /\ v # "disabled" /\ hostRows' = [hostRows EXCEPT ![h] = v]
      BY <2>3, <3>2
    <3> HIDE DEF v
    <3> QED  BY <1>1, <3>1, <3>3, HostSetTo
  <2>4. Tables'
    BY <1>4, <2>2, <2>3 DEF Cleaned
  <2> QED  BY <1>1, <2>1, <2>4, LaterCall
<1> QED
  BY <1>2, <1>3, <1>4 DEF CleanUp

\* saveRouteAuthorizations touches none of the tables a route is found by.
LEMMA GrantsKeep == ASSUME Tables, Calls, RevokeGrants \/ InsertGrants PROVE Tables' /\ Calls'
<1>1. /\ edit \in Edits /\ edit.op \in {"create", "update"}
      /\ UNCHANGED <<hostRows, endpoints, routes, withdrawn, unchecked>>
      /\ edit' = [edit EXCEPT !.at = "grant"] \/ edit' = NoEdit
  BY DEF Calls, RevokeGrants, InsertGrants, At_, Goes_
<1>2. Tables'
  BY <1>1 DEF Tables, TableTypes, RowsThere, KeysUnique, PathsThere, Bound
<1>3. CASE edit' = [edit EXCEPT !.at = "grant"]
  <2>1. edit' \in Edits /\ edit'.op = edit.op /\ edit'.route = edit.route /\ edit'.at = "grant"
    BY <1>1, <1>3 DEF Edits, EditPlaces
  <2> QED  BY <1>1, <1>2, <2>1, LaterCall
<1> QED
  BY <1>1, <1>2, <1>3, RestCall

\* A new call of one of the other kinds
LEMMA OtherCall ==
  ASSUME NEW op \in EditOps \ {"create", "update"}, NEW place \in EditPlaces, NEW r \in Nat,
         NEW path \in Paths, NEW list \in Seq(Hosts), NEW left, NEW on \in BOOLEAN,
         left \in SUBSET (Hosts \cup Paths \cup {Wildcard}),
         edit' = [op |-> op, at |-> place, route |-> r, path |-> path, hosts |-> list,
                  left |-> left, on |-> on, give |-> "keep", keep |-> FALSE]
  PROVE  edit' \in Edits /\ SaveFits'
<1>1. edit' \in Edits
  BY DEF Edits
<1>2. edit'.op \notin {"create", "update"}
  OBVIOUS
<1> QED
  BY <1>1, <1>2 DEF SaveFits

\* What a call that does not set a field leaves in it
LEMMA Defaults ==
  /\ Chat \in Paths /\ <<>> \in Seq(Hosts) /\ {} \in SUBSET (Hosts \cup Paths \cup {Wildcard})
  /\ 0 \in Nat /\ FALSE \in BOOLEAN /\ RouteIds \subseteq Nat
BY PathAssumption, HostAssumption DEF RouteIds

\* deleteAdminRoute, the authorizations
LEMMA DeleteRouteKeeps ==
  ASSUME Tables, NEW r \in RouteIds, DeleteRoute(r) PROVE Tables' /\ Calls'
<1>1. /\ UNCHANGED <<hostRows, endpoints, routes, withdrawn, unchecked>>
      /\ edit' = [NoEdit EXCEPT !.op = "delete", !.at = "route", !.route = r]
  BY DEF DeleteRoute
<1>2. Tables'
  BY <1>1 DEF Tables, TableTypes, RowsThere, KeysUnique, PathsThere, Bound
<1>3. edit' = [op |-> "delete", at |-> "route", route |-> r, path |-> Chat, hosts |-> <<>>,
               left |-> {}, on |-> FALSE, give |-> "keep", keep |-> FALSE]
  BY <1>1 DEF NoEdit
<1>4. "delete" \in EditOps \ {"create", "update"} /\ "route" \in EditPlaces
  BY DEF EditOps, EditPlaces
<1>5. edit' \in Edits /\ SaveFits'
  BY <1>3, <1>4, Defaults, OtherCall
<1>6. CallFits'
  BY <1>3 DEF CallFits
<1> QED
  BY <1>2, <1>5, <1>6 DEF Calls

\* A deleted row says nothing.
LEMMA NoRouteType ==
  /\ NoRoute \in RouteRows /\ ~NoRoute.active /\ NoRoute.hosts = {} /\ NoRoute.sub = Wildcard
BY DEF NoRoute, RouteRows

\* deleteAdminRoute, the row
LEMMA DeleteRowKeeps == ASSUME Tables, Calls, DeleteRow PROVE Tables' /\ Calls'
<1> DEFINE left == (routes[edit.route].hosts \cup {routes[edit.route].sub}) \ {Wildcard}
           row == NoRoute
<1>1. /\ edit \in Edits /\ edit.op = "delete" /\ edit.at = "route"
      /\ UNCHANGED <<hostRows, endpoints, granted, withdrawn>>
      /\ routes' = [routes EXCEPT ![edit.route] = NoRoute] /\ unchecked' = unchecked \ {edit.route}
      /\ edit' = [edit EXCEPT !.at = "cleanup", !.left = left]
  BY DEF Calls, DeleteRow, At_
<1>2. edit.route \in RouteIds /\ routes[edit.route] \in RouteRows
  BY <1>1 DEF Calls, CallFits, Tables, TableTypes
<1>3. left \in SUBSET (Hosts \cup Paths \cup {Wildcard})
  BY <1>2 DEF RouteRows
<1> HIDE DEF left
<1>4. row \in RouteRows /\ ~row.active /\ row.hosts = {} /\ row.sub = Wildcard
  BY NoRouteType
<1>5. routes' = [routes EXCEPT ![edit.route] = row]
  BY <1>1
<1> HIDE DEF row
<1>6. Tables'
  BY <1>1, <1>4, <1>5, RowSet
<1>7. edit' \in Edits /\ edit'.op = edit.op /\ edit'.route = edit.route /\ edit'.at = "cleanup"
  BY <1>1, <1>3 DEF Edits, EditPlaces
<1> QED
  BY <1>1, <1>6, <1>7, LaterCall

-----------------------------------------------------------------------------
(* The pages of hosts and of endpoints.                                      *)

\* A new host; one that is added disabled counts as withdrawn.
LEMMA PostHostKeeps ==
  ASSUME Tables, NEW h \in Offered, NEW on \in BOOLEAN, PostSubdomain(h, on)
  PROVE  Tables' /\ Calls'
<1> DEFINE v == IF on THEN "enabled" ELSE "disabled"
           left == endpoints \cap Paths
<1>1. /\ hostRows' = [hostRows EXCEPT ![h] = v]
      /\ withdrawn' = IF on THEN withdrawn \ {h} ELSE withdrawn \cup {h}
      /\ edit' = [NoEdit EXCEPT !.op = "host", !.at = "rows", !.hosts = <<h>>, !.left = endpoints,
                                !.route = 0]
      /\ UNCHANGED <<endpoints, routes, granted, unchecked>>
  BY DEF PostSubdomain
<1>2. v \in HostStates /\ v # "none" /\ (v = "disabled" => ~on) /\ h \in Hosts
  BY HostAssumption DEF HostStates
<1> HIDE DEF v
<1>3. Tables'
  BY <1>1, <1>2, HostSetTo
<1>4. edit' = [op |-> "host", at |-> "rows", route |-> 0, path |-> Chat, hosts |-> <<h>>,
               left |-> endpoints, on |-> FALSE, give |-> "keep", keep |-> FALSE]
  BY <1>1 DEF NoEdit
<1>5. endpoints \subseteq Paths
  BY DEF Tables, TableTypes
<1>6. "host" \in EditOps \ {"create", "update"} /\ "rows" \in EditPlaces
  BY DEF EditOps, EditPlaces
<1>7. <<h>> \in Seq(Hosts) /\ <<h>> # <<>> /\ <<h>>[1] = h
  BY <1>2
<1>8. edit' \in Edits /\ SaveFits'
  BY <1>4, <1>5, <1>6, <1>7, Defaults, OtherCall
<1>9. hostRows'[h] # "none"
  BY <1>1, <1>2 DEF Tables, TableTypes
<1>10. CallFits'
  BY <1>4, <1>5, <1>7, <1>9 DEF CallFits
<1> QED
  BY <1>3, <1>8, <1>10 DEF Calls

\* A route for a host on an endpoint, as the pages of hosts and endpoints add it
LEMMA RowType ==
  ASSUME NEW path \in Paths, NEW h \in Hosts \cup {Wildcard}, NEW on \in BOOLEAN,
         NEW active \in BOOLEAN
  PROVE  /\ Row(path, h, on, active) \in RouteRows
         /\ Row(path, h, on, active).path = path /\ Row(path, h, on, active).sub = h
         /\ Row(path, h, on, active).hosts = {} /\ Row(path, h, on, active).active = active
<1>1. {} \in SUBSET Hosts
  OBVIOUS
<1> QED
  BY <1>1 DEF Row, RouteRows

\* A placeholder is not active, so that its key need not be free.
LEMMA PlaceholderKeeps == ASSUME Tables, Calls, AddPlaceholder PROVE Tables' /\ Calls'
<1>1. /\ edit \in Edits /\ edit.op = "host"
      /\ UNCHANGED <<hostRows, endpoints, granted, withdrawn, unchecked>>
  BY DEF Calls, AddPlaceholder, At_
<1>2. edit.hosts \in Seq(Hosts) /\ edit.hosts # <<>> /\ hostRows[edit.hosts[1]] # "none"
      /\ edit.left \subseteq Paths
  BY <1>1 DEF Calls, CallFits, Edits
<1>3. CASE edit' = NoEdit /\ routes' = routes
  <2>1. Tables'
    BY <1>1, <1>3 DEF Tables, TableTypes, RowsThere, KeysUnique, PathsThere, Bound
  <2> QED  BY <1>3, <2>1, RestCall
<1>4. ASSUME NEW path \in edit.left,
             routes' = [routes EXCEPT ![NewId] = Row(path, edit.hosts[1], FALSE, FALSE)],
             edit' = [edit EXCEPT !.left = @ \ {path}]
      PROVE  Tables' /\ Calls'
  <2> DEFINE h == edit.hosts[1]
             off == FALSE
             row == Row(path, h, off, off)
             r == NewId
  <2>1. h \in Hosts /\ path \in Paths /\ off \in BOOLEAN /\ ~off
    BY <1>2
  <2> HIDE DEF h, off
  <2>2. row \in RouteRows /\ row.sub = h /\ row.hosts = {} /\ row.active = off
    BY <2>1, RowType
  <2> USE DEF h, off
  <2>3. routes' = [routes EXCEPT ![r] = row]
    BY <1>4
  <2> HIDE DEF row, r
  <2>4. Tables'
    BY <1>1, <1>2, <2>2, <2>3, RowSet
  <2>5. /\ edit' \in Edits /\ edit'.op = "host" /\ edit'.hosts = edit.hosts
        /\ edit'.left \subseteq Paths
    BY <1>1, <1>2, <1>4 DEF Edits
  <2>6. Calls'
    BY <1>1, <1>2, <2>5 DEF Calls, SaveFits, CallFits
  <2> QED  BY <2>4, <2>6
<1> QED
  BY <1>3, <1>4 DEF AddPlaceholder

\* A host is enabled or disabled.
LEMMA PatchHostKeeps ==
  ASSUME Tables, Calls, NEW h \in Offered, PatchSubdomain(h) PROVE Tables' /\ Calls'
<1> DEFINE v == IF hostRows[h] = "enabled" THEN "disabled" ELSE "enabled"
<1>1. /\ edit.op = "none" /\ hostRows' = [hostRows EXCEPT ![h] = v]
      /\ withdrawn' = IF hostRows[h] = "enabled" THEN withdrawn \cup {h} ELSE withdrawn \ {h}
      /\ UNCHANGED <<endpoints, routes, granted, edit, unchecked>>
  BY DEF PatchSubdomain, Begins
<1>2. v \in HostStates /\ v # "none" /\ (v = "disabled" => hostRows[h] = "enabled")
  BY DEF HostStates
<1> HIDE DEF v
<1>3. Tables'
  BY <1>1, <1>2, HostSetTo
<1>4. Calls'
  BY <1>1 DEF Calls, SaveFits, CallFits
<1> QED
  BY <1>3, <1>4

\* The routes whose first host it is go before the host does.
LEMMA DropHostKeeps ==
  ASSUME Tables, NEW h \in Offered, DeleteSubdomain(h) PROVE Tables' /\ Calls'
<1>1. /\ routes' = [r \in RouteIds |-> IF routes[r].sub = h THEN NoRoute ELSE routes[r]]
      /\ unchecked' = {r \in unchecked : routes[r].sub # h}
      /\ edit' = [NoEdit EXCEPT !.op = "drop", !.at = "row", !.hosts = <<h>>, !.route = 0]
      /\ UNCHANGED <<hostRows, endpoints, withdrawn>>
  BY DEF DeleteSubdomain
<1>2. routes' \in [RouteIds -> RouteRows]
  BY <1>1, NoRouteType DEF Tables, TableTypes
<1>3. Tables'
  BY <1>1, <1>2, RowsGone
<1>4. edit' = [op |-> "drop", at |-> "row", route |-> 0, path |-> Chat, hosts |-> <<h>>,
               left |-> {}, on |-> FALSE, give |-> "keep", keep |-> FALSE]
  BY <1>1 DEF NoEdit
<1>5. "drop" \in EditOps \ {"create", "update"} /\ "row" \in EditPlaces
  BY DEF EditOps, EditPlaces
<1>6. <<h>> \in Seq(Hosts) /\ <<h>> # <<>> /\ <<h>>[1] = h /\ h # Wildcard
  BY HostAssumption
<1>7. edit' \in Edits /\ SaveFits'
  BY <1>4, <1>5, <1>6, Defaults, OtherCall
<1>8. \A r \in RouteIds : routes'[r].sub # h
  BY <1>1, <1>6, NoRouteType
<1>9. CallFits'
  BY <1>4, <1>6, <1>8 DEF CallFits
<1> QED
  BY <1>3, <1>7, <1>9 DEF Calls

\* The row of a dropped host: no route has it as its first host any more.
LEMMA HostGoneKeeps == ASSUME Tables, Calls, DeleteHostRow PROVE Tables' /\ Calls'
<1> DEFINE h == edit.hosts[1]
           v == "none"
<1>1. /\ edit.op = "drop" /\ hostRows' = [hostRows EXCEPT ![h] = v]
      /\ withdrawn' = withdrawn \cup {h} /\ edit' = NoEdit
      /\ UNCHANGED <<endpoints, routes, granted, unchecked>>
  BY DEF DeleteHostRow, At_
<1>2. v \in HostStates /\ v # "disabled"
  BY DEF HostStates
<1> HIDE DEF v
<1>3. \A r \in RouteIds : routes[r].sub # h
  BY <1>1 DEF Calls, CallFits
<1> HIDE DEF h
<1>4. Tables'
  BY <1>1, <1>2, <1>3, HostSetTo
<1> QED
  BY <1>1, <1>4, RestCall

\* The endpoint is new: no route of it is active yet.
LEMMA PostEndpointKeeps ==
  ASSUME Tables, NEW path \in Paths, NEW on \in BOOLEAN, PostEndpoint(path, on)
  PROVE  Tables' /\ Calls'
<1> DEFINE hosts == {h \in Hosts : hostRows[h] = "enabled"}
           left == hosts \cup (IF AllowUnknown THEN {Wildcard} ELSE {})
<1>1. /\ path \notin endpoints /\ endpoints' = endpoints \cup {path}
      /\ edit' = [NoEdit EXCEPT !.op = "endpoint", !.at = "rows", !.path = path, !.on = on,
                    !.left = left, !.route = 0]
      /\ UNCHANGED <<hostRows, routes, granted, withdrawn, unchecked>>
  BY DEF PostEndpoint
<1>2. Tables'
  <2>1. endpoints \subseteq endpoints' /\ endpoints' \subseteq Paths
    BY <1>1 DEF Tables, TableTypes
  <2> QED  BY <1>1, <2>1 DEF Tables, TableTypes, RowsThere, KeysUnique, PathsThere, Bound
<1>3. edit' = [op |-> "endpoint", at |-> "rows", route |-> 0, path |-> path, hosts |-> <<>>,
               left |-> left, on |-> on, give |-> "keep", keep |-> FALSE]
  BY <1>1 DEF NoEdit
<1>4. left \in SUBSET (Hosts \cup Paths \cup {Wildcard})
      /\ \A h \in left : h # Wildcard => h \in Hosts /\ hostRows[h] # "none"
  OBVIOUS
<1> HIDE DEF left
<1>5. "endpoint" \in EditOps \ {"create", "update"} /\ "rows" \in EditPlaces
  BY DEF EditOps, EditPlaces
<1>6. edit' \in Edits /\ SaveFits'
  BY <1>3, <1>4, <1>5, Defaults, OtherCall
<1>7. \A q \in RouteIds : routes'[q].active => routes'[q].path # path
  BY <1>1 DEF Tables, PathsThere
<1>8. /\ edit'.op = "endpoint" /\ edit'.path = path /\ edit'.left = left
  BY <1>3
<1>9. Separate(0, edit.left, edit.path)'
  BY <1>7, <1>8 DEF Separate
<1>10. CallFits'
  BY <1>1, <1>4, <1>8, <1>9 DEF CallFits
<1> QED
  BY <1>2, <1>6, <1>10 DEF Calls

\* A host that has its route leaves the list, so that the next one has another.
LEMMA EndpointRouteKeeps ==
  ASSUME Tables, Calls, AddEndpointRoute PROVE Tables' /\ Calls'
<1>1. /\ edit \in Edits /\ edit.op = "endpoint"
      /\ UNCHANGED <<hostRows, endpoints, granted, withdrawn, unchecked>>
  BY DEF Calls, AddEndpointRoute, At_
<1>2. CASE edit' = NoEdit /\ routes' = routes
  <2>1. Tables'
    BY <1>1, <1>2 DEF Tables, TableTypes, RowsThere, KeysUnique, PathsThere, Bound
  <2> QED  BY <1>2, <2>1, RestCall
<1>3. ASSUME NEW h \in edit.left, h = Wildcard => edit.left = {Wildcard},
             routes' = [routes EXCEPT ![NewId] = Row(edit.path, h, edit.on, edit.on)],
             edit' = [edit EXCEPT !.left = @ \ {h}]
      PROVE  Tables' /\ Calls'
  <2> DEFINE row == Row(edit.path, h, edit.on, edit.on)
             r == NewId
  <2>1. /\ edit.path \in endpoints /\ Separate(0, edit.left, edit.path)
        /\ \A g \in edit.left : g # Wildcard => g \in Hosts /\ hostRows[g] # "none"
    BY <1>1 DEF Calls, CallFits
  <2>2. edit.path \in Paths /\ edit.on \in BOOLEAN /\ h \in Hosts \cup {Wildcard}
    BY <1>1, <1>3, <2>1 DEF Edits
  <2>3. /\ row \in RouteRows /\ row.path = edit.path /\ row.sub = h /\ row.hosts = {}
        /\ row.active = edit.on
    BY <2>2, RowType
  <2>4. routes' = [routes EXCEPT ![r] = row]
    BY <1>3
  <2> HIDE DEF row, r
  <2>5. 0 \notin RouteIds
    BY HostAssumption DEF RouteIds
  <2>6. Separate(r, {h}, edit.path)
    BY <1>3, <2>1, <2>5 DEF Separate
  <2>7. Tables'
    BY <1>1, <1>3, <2>1, <2>3, <2>4, <2>6, RowSet
  <2>8. /\ edit' \in Edits /\ edit'.op = "endpoint" /\ edit'.path = edit.path
        /\ edit'.left = edit.left \ {h}
    BY <1>1, <1>3 DEF Edits
  <2>9. ASSUME NEW q \in RouteIds, routes'[q].active, routes'[q].path = edit.path
        PROVE  Bound(q)' \cap (edit.left \ {h}) = {}
    <3>1. routes \in [RouteIds -> RouteRows]
      BY DEF Tables, TableTypes
    <3>2. CASE q = r
      <4>1. routes'[q] = row
        BY <2>4, <3>1, <3>2
      <4> QED  BY <2>3, <4>1 DEF Bound
    <3>3. CASE q # r
      <4>1. routes'[q] = routes[q]
        BY <2>4, <3>1, <3>3
      <4>2. Bound(q) \cap edit.left = {}
        BY <2>1, <2>5, <2>9, <4>1 DEF Separate
      <4> QED  BY <4>1, <4>2 DEF Bound
    <3> QED  BY <3>2, <3>3
  <2>10. Separate(0, edit.left, edit.path)'
    BY <2>8, <2>9 DEF Separate
  <2>11. CallFits'
    BY <1>1, <2>1, <2>8, <2>10 DEF CallFits
  <2>12. SaveFits'
    BY <2>8 DEF SaveFits
  <2> QED  BY <2>7, <2>8, <2>11, <2>12 DEF Calls
<1> QED
  BY <1>2, <1>3 DEF AddEndpointRoute

\* The routes of an endpoint go before the endpoint does.
LEMMA CloseKeeps ==
  ASSUME Tables, NEW path \in Paths, DeleteEndpoint(path) PROVE Tables' /\ Calls'
<1>1. /\ routes' = [r \in RouteIds |-> IF routes[r].path = path THEN NoRoute ELSE routes[r]]
      /\ unchecked' = {r \in unchecked : routes[r].path # path}
      /\ edit' = [NoEdit EXCEPT !.op = "close", !.at = "row", !.path = path, !.route = 0]
      /\ UNCHANGED <<hostRows, endpoints, withdrawn>>
  BY DEF DeleteEndpoint
<1>2. routes' \in [RouteIds -> RouteRows]
  BY <1>1, NoRouteType DEF Tables, TableTypes
<1>3. Tables'
  BY <1>1, <1>2, RowsGone
<1>4. edit' = [op |-> "close", at |-> "row", route |-> 0, path |-> path, hosts |-> <<>>,
               left |-> {}, on |-> FALSE, give |-> "keep", keep |-> FALSE]
  BY <1>1 DEF NoEdit
<1>5. "close" \in EditOps \ {"create", "update"} /\ "row" \in EditPlaces
  BY DEF EditOps, EditPlaces
<1>6. edit' \in Edits /\ SaveFits'
  BY <1>4, <1>5, Defaults, OtherCall
<1>7. \A r \in RouteIds : routes'[r].active => routes'[r].path # path
  BY <1>1, NoRouteType
<1>8. CallFits'
  BY <1>4, <1>7 DEF CallFits
<1> QED
  BY <1>3, <1>6, <1>8 DEF Calls

\* The row of a closed endpoint: no active route is on its path any more.
LEMMA EndpointGoneKeeps == ASSUME Tables, Calls, DeleteEndpointRow PROVE Tables' /\ Calls'
<1>1. /\ edit.op = "close" /\ endpoints' = endpoints \ {edit.path} /\ edit' = NoEdit
      /\ UNCHANGED <<hostRows, routes, granted, withdrawn, unchecked>>
  BY DEF DeleteEndpointRow, At_
<1>2. \A r \in RouteIds : routes[r].active => routes[r].path # edit.path
  BY <1>1 DEF Calls, CallFits
<1>3. Tables'
  BY <1>1, <1>2 DEF Tables, TableTypes, RowsThere, KeysUnique, PathsThere, Bound
<1> QED
  BY <1>1, <1>3, RestCall

\* The page of a single route compares nothing: its route counts as unchecked.
LEMMA PostRouteKeeps ==
  ASSUME Tables, Calls, NEW path \in Paths, NEW h \in Offered \cup {Wildcard},
         NEW on \in BOOLEAN, PostEndpointRoute(path, h, on)
  PROVE  Tables' /\ Calls'
<1> DEFINE yes == TRUE
           row == Row(path, h, on, yes)
           r == NewId
<1>1. /\ edit.op = "none" /\ path \in endpoints /\ (h # Wildcard => hostRows[h] = "enabled")
      /\ routes' = [routes EXCEPT ![r] = row] /\ unchecked' = unchecked \cup {r}
      /\ UNCHANGED <<hostRows, endpoints, granted, edit, withdrawn>>
  BY DEF PostEndpointRoute, Begins
<1>2. h \in Hosts \cup {Wildcard} /\ yes \in BOOLEAN
  BY HostAssumption
<1> HIDE DEF yes
<1>3. row \in RouteRows /\ row.path = path /\ row.sub = h /\ row.hosts = {}
  BY <1>2, RowType
<1> HIDE DEF row, r
<1>4. unchecked \ {r} \subseteq unchecked' /\ r \in unchecked'
  BY <1>1
<1>5. Tables'
  BY <1>1, <1>3, <1>4, RowSet
<1>6. Calls'
  BY <1>1 DEF Calls, SaveFits, CallFits
<1> QED
  BY <1>5, <1>6

\* The same for a change of a single route, which may take the key of another one.
LEMMA PatchRouteKeeps ==
  ASSUME Tables, Calls, NEW r \in RouteIds, NEW h \in Offered \cup {Wildcard},
         NEW on \in BOOLEAN, PatchEndpointRoute(r, h, on)
  PROVE  Tables' /\ Calls'
<1> DEFINE row == [routes[r] EXCEPT !.sub = h, !.enabled = on]
<1>1. /\ edit.op = "none" /\ IsRoute(r) /\ (h # Wildcard => hostRows[h] = "enabled")
      /\ routes' = [routes EXCEPT ![r] = [@ EXCEPT !.sub = h, !.enabled = on]]
      /\ unchecked' = unchecked \cup {r}
      /\ UNCHANGED <<hostRows, endpoints, granted, edit, withdrawn>>
  BY DEF PatchEndpointRoute, Begins
<1>2. routes[r] \in RouteRows /\ h \in Hosts \cup {Wildcard} /\ routes' = [routes EXCEPT ![r] = row]
  BY <1>1, HostAssumption DEF Tables, TableTypes
<1>3. /\ row \in RouteRows /\ row.sub = h /\ row.hosts = routes[r].hosts
      /\ row.path = routes[r].path /\ row.active = routes[r].active
  BY <1>2 DEF RouteRows
<1> HIDE DEF row
<1>4. /\ row.active => row.path \in endpoints
      /\ \A g \in row.hosts : hostRows[g] # "none" \/ g \in withdrawn
  BY <1>3 DEF Tables, PathsThere, RowsThere
<1>5. unchecked \ {r} \subseteq unchecked' /\ r \in unchecked'
  BY <1>1
<1>6. Tables'
  BY <1>1, <1>2, <1>3, <1>4, <1>5, RowSet
<1>7. Calls'
  BY <1>1 DEF Calls, SaveFits, CallFits
<1> QED
  BY <1>6, <1>7

\* A single route is deleted.
LEMMA DeleteEndpointRouteKeeps ==
  ASSUME Tables, Calls, NEW r \in RouteIds, DeleteEndpointRoute(r) PROVE Tables' /\ Calls'
<1> DEFINE row == NoRoute
<1>1. /\ edit.op = "none" /\ routes' = [routes EXCEPT ![r] = row] /\ unchecked' = unchecked \ {r}
      /\ UNCHANGED <<hostRows, endpoints, edit, withdrawn>>
  BY DEF DeleteEndpointRoute, Begins
<1>2. row \in RouteRows /\ ~row.active /\ row.hosts = {} /\ row.sub = Wildcard
  BY NoRouteType
<1> HIDE DEF row
<1>3. Tables'
  BY <1>1, <1>2, RowSet
<1>4. Calls'
  BY <1>1 DEF Calls, SaveFits, CallFits
<1> QED
  BY <1>3, <1>4

\* A stop leaves the tables as they are.
LEMMA StopKeeps == ASSUME Tables, ServerStops PROVE Tables' /\ Calls'
<1>1. UNCHANGED <<hostRows, endpoints, routes, withdrawn, unchecked>> /\ edit' = NoEdit
  BY DEF ServerStops
<1>2. Tables'
  BY <1>1 DEF Tables, TableTypes, RowsThere, KeysUnique, PathsThere, Bound
<1> QED
  BY <1>1, <1>2, RestCall

\* A step of an administrator, or a stop of the server, keeps the invariant.
LEMMA EditKeeps == ASSUME TableInv, EditStep, Watched PROVE TableInv'
<1>1. Tables /\ Calls /\ Asking
  BY DEF TableInv
<1>2. Asking'
  BY <1>1, WatchKeeps
<1>3. ASSUME NEW list \in HostLists, NEW path \in Paths, NEW on \in BOOLEAN,
             NEW give \in {"yes", "no"},
             \/ CreateRoute(list, path, on, give)
             \/ \E r \in RouteIds : UpdateRoute(r, FALSE, list, path, on, give)
      PROVE  Tables' /\ Calls'
  <2>1. CASE CreateRoute(list, path, on, give)
    BY <1>1, <2>1, CreateKeeps
  <2>2. ASSUME NEW r \in RouteIds, UpdateRoute(r, FALSE, list, path, on, give)
        PROVE  Tables' /\ Calls'
    <3> DEFINE keep == FALSE
    <3>1. keep \in BOOLEAN /\ UpdateRoute(r, keep, list, path, on, give)
      BY <2>2
    <3> HIDE DEF keep
    <3> QED  BY <1>1, <3>1, UpdateKeeps
  <2> QED  BY <1>3, <2>1, <2>2
<1>4. ASSUME NEW r \in RouteIds, NEW path \in Paths, NEW on \in BOOLEAN,
             UpdateRoute(r, TRUE, <<>>, path, on, "keep")
      PROVE  Tables' /\ Calls'
  <2> DEFINE keep == TRUE
             list == <<>>
             give == "keep"
  <2>1. /\ keep \in BOOLEAN /\ list \in HostLists /\ give \in {"keep", "yes", "no"}
        /\ UpdateRoute(r, keep, list, path, on, give)
    BY <1>4 DEF HostLists
  <2> HIDE DEF keep, list, give
  <2> QED  BY <1>1, <2>1, UpdateKeeps
<1>5. ASSUME \/ FindOrCreateHost \/ FindOrCreateEndpoint \/ SaveRoute \/ CleanUp
             \/ RevokeGrants \/ InsertGrants \/ DeleteRow
      PROVE  Tables' /\ Calls'
  BY <1>1, <1>5, HostRowKeeps, EndpointRowKeeps, SaveKeeps, CleanUpKeeps, GrantsKeep, DeleteRowKeeps
<1>6. ASSUME NEW r \in RouteIds, DeleteRoute(r) \/ DeleteEndpointRoute(r) PROVE Tables' /\ Calls'
  BY <1>1, <1>6, DeleteRouteKeeps, DeleteEndpointRouteKeeps
<1>7. ASSUME NEW h \in Offered, \/ PatchSubdomain(h) \/ DeleteSubdomain(h)
                                \/ \E on \in BOOLEAN : PostSubdomain(h, on)
      PROVE  Tables' /\ Calls'
  BY <1>1, <1>7, PatchHostKeeps, DropHostKeeps, PostHostKeeps
<1>8. ASSUME AddPlaceholder \/ DeleteHostRow \/ AddEndpointRoute \/ DeleteEndpointRow
      PROVE  Tables' /\ Calls'
  BY <1>1, <1>8, PlaceholderKeeps, HostGoneKeeps, EndpointRouteKeeps, EndpointGoneKeeps
<1>9. ASSUME NEW path \in Paths, DeleteEndpoint(path) \/ \E on \in BOOLEAN : PostEndpoint(path, on)
      PROVE  Tables' /\ Calls'
  BY <1>1, <1>9, CloseKeeps, PostEndpointKeeps
<1>10. ASSUME NEW h \in Offered \cup {Wildcard}, NEW on \in BOOLEAN,
              \/ \E path \in Paths : PostEndpointRoute(path, h, on)
              \/ \E r \in RouteIds : PatchEndpointRoute(r, h, on)
       PROVE  Tables' /\ Calls'
  BY <1>1, <1>10, PostRouteKeeps, PatchRouteKeeps
<1>11. ASSUME ServerStops PROVE Tables' /\ Calls'
  BY <1>1, <1>11, StopKeeps
<1>12. Tables' /\ Calls'
  BY <1>3, <1>4, <1>5, <1>6, <1>7, <1>8, <1>9, <1>10, <1>11 DEF EditStep
<1> QED
  BY <1>2, <1>12 DEF TableInv

-----------------------------------------------------------------------------
(* RouteTable: the theorems.                                                 *)

\* The tables as the route page has made them
LEMMA InitTables == ASSUME RouteInit PROVE TableInv
<1>1. /\ routes \in [RouteIds -> MadeRoutes]
      /\ hostRows = [h \in Hosts |->
                       IF \E r \in RouteIds : h \in routes[r].hosts THEN "enabled" ELSE "none"]
      /\ \A r \in RouteIds : IsRoute(r) => ~KeyTaken(r, HostsOf(r), routes[r].path)
      /\ endpoints = {routes[r].path : r \in {q \in RouteIds : IsRoute(q)}}
      /\ edit = NoEdit /\ request = NotAsked
  BY DEF RouteInit
<1>2. ASSUME NEW r \in RouteIds
      PROVE  /\ routes[r] \in RouteRows /\ (IsRoute(r) => routes[r].path \in Paths)
             /\ (routes[r].sub # Wildcard => routes[r].sub \in routes[r].hosts)
  <2>1. CASE routes[r] = NoRoute
    BY <2>1, NoRouteType DEF IsRoute
  <2>2. CASE routes[r] # NoRoute
    <3>1. PICK path \in Paths, list \in HostLists :
            routes[r] = [path |-> path, sub |-> IF list = <<>> THEN Wildcard ELSE list[1],
                         hosts |-> HostSet(list) \ {Wildcard}, enabled |-> TRUE, active |-> TRUE]
      BY <1>1, <2>2 DEF MadeRoutes
    <3> DEFINE sub == IF list = <<>> THEN Wildcard ELSE list[1]
               hosts == HostSet(list) \ {Wildcard}
               yes == TRUE
    <3>2. /\ hosts \in SUBSET Hosts /\ sub \in Hosts \cup {Wildcard} /\ yes \in BOOLEAN
          /\ sub # Wildcard => sub \in hosts
      BY ListTypes, ListedHosts
    <3>3. routes[r] = [path |-> path, sub |-> sub, hosts |-> hosts, enabled |-> yes, active |-> yes]
      BY <3>1
    <3> HIDE DEF sub, hosts, yes
    <3> QED  BY <3>2, <3>3 DEF RouteRows
  <2> QED  BY <2>1, <2>2
<1>3. TableTypes
  <2>1. routes \in [RouteIds -> RouteRows]
    BY <1>1, <1>2
  <2>2. hostRows \in [Hosts -> HostStates]
    BY <1>1 DEF HostStates
  <2>3. endpoints \subseteq Paths
    BY <1>1, <1>2
  <2> QED  BY <2>1, <2>2, <2>3 DEF TableTypes
<1>4. RowsThere
  <2>1. \A h \in Hosts : hostRows[h] = IF \E r \in RouteIds : h \in routes[r].hosts
                                       THEN "enabled" ELSE "none"
    BY <1>1
  <2>2. \A r \in RouteIds : \A h \in routes[r].hosts : h \in Hosts /\ hostRows[h] # "none"
    BY <1>2, <2>1 DEF RouteRows
  <2> QED  BY <1>2, <2>1, <2>2 DEF RowsThere
<1>5. KeysUnique
  <2> SUFFICES ASSUME NEW r \in RouteIds, routes[r].active, NEW q \in RouteIds \ {r},
                      routes[q].active, routes[q].path = routes[r].path
               PROVE  Bound(q) \cap Bound(r) = {}
    BY DEF KeysUnique
  <2>1. Separate(r, HostsOf(r), routes[r].path)
    BY <1>1, <1>3, <1>4, ActiveIsRoute, NotTaken
  <2> QED  BY <1>3, <1>4, <2>1, HostsAreBound DEF Separate
<1>6. PathsThere
  BY <1>1, ActiveIsRoute DEF PathsThere
<1>7. Calls
  <2>1. <<>> \in Seq(Hosts) /\ {} \in SUBSET (Hosts \cup Paths \cup {Wildcard}) /\ Chat \in Paths
    BY PathAssumption
  <2>2. NoEdit \in Edits
    BY <2>1 DEF NoEdit, Edits, EditOps, EditPlaces
  <2>3. edit.op = "none"
    BY <1>1 DEF NoEdit
  <2> QED  BY <1>1, <2>2, <2>3 DEF Calls, SaveFits, CallFits
<1>8. Asking
  BY <1>1, NotAskedType DEF Asking, RequestFits
<1> QED
  BY <1>3, <1>4, <1>5, <1>6, <1>7, <1>8 DEF TableInv, Tables

\* No route loses its place, no call its ground and no request its route.
THEOREM TableInvariant == RouteSpec => []TableInv
<1>1. RouteInit => TableInv
  BY InitTables
<1>2. TableInv /\ [RouteNext]_routeVars => TableInv'
  <2> SUFFICES ASSUME TableInv, [RouteNext]_routeVars PROVE TableInv'
    OBVIOUS
  <2>1. CASE RequestStep
    BY <2>1, RequestKeeps
  <2>2. CASE EditStep /\ Watched
    BY <2>2, EditKeeps
  <2>3. CASE UNCHANGED routeVars
    <3>1. UNCHANGED <<hostRows, endpoints, routes, granted, edit, withdrawn, unchecked>>
          /\ request' = request
      BY <2>3 DEF routeVars
    <3>2. Tables'
      BY <3>1 DEF TableInv, Tables, TableTypes, RowsThere, KeysUnique, PathsThere, Bound
    <3>3. Calls'
      BY <3>1 DEF TableInv, Calls, SaveFits, CallFits, Separate, Claimed, Bound, Listed, HostSet
    <3>4. Asking'
      BY <3>1 DEF TableInv, Asking, RequestFits, Serves, HostsOf
    <3> QED  BY <3>2, <3>3, <3>4 DEF TableInv
  <2> QED  BY <2>1, <2>2, <2>3 DEF RouteNext
<1> QED
  BY <1>1, <1>2, PTL DEF RouteSpec

\* A request that the tables have served all along is answered with that route.
THEOREM RoutesAreServed == RouteSpec => []RouteServed
<1>1. TableInv => RouteServed
  <2> SUFFICES ASSUME TableInv, request.at = "answered", request.steady # {}
               PROVE  request.answer = "served" /\ request.route \in request.steady
    BY DEF RouteServed
  <2> QED  BY DEF TableInv, Asking, RequestFits
<1> QED
  BY <1>1, TableInvariant, PTL

-----------------------------------------------------------------------------
(* TaskClass.                                                                *)

\* The mention that makes a failure plain is one of those the class is read from.
LEMMA PlainIsFailing == ASSUME NEW t, PlainFailure(t) PROVE Failing(t)
<1>1. PICK i \in Prose(t) : \E m \in t.clauses[i].mentions :
          m.kind = "runtime" /\ m.signs = {} /\ "code" \notin t.clauses[i].signs
  BY DEF PlainFailure
<1>2. PICK m \in t.clauses[i].mentions :
          m.kind = "runtime" /\ m.signs = {} /\ "code" \notin t.clauses[i].signs
  BY <1>1
<1> DEFINE c == t.clauses[i]
           next == Following(t, i)
<1>3. m \in Mentioned(c)
  BY <1>2 DEF Mentioned
<1>4. ~Conditional(m, c, next)
  BY <1>2 DEF Conditional
<1>5. ~Framed(m, c)
  BY <1>2 DEF Framed
<1>6. Live(m, c, next)
  BY <1>2, <1>4, <1>5 DEF Live, Negated
<1>7. ~LogTheme(t, m, c)
  BY <1>2 DEF LogTheme
<1> QED
  BY <1>3, <1>6, <1>7 DEF Failing

\* What the class "debug" rests on
LEMMA DebugFounded == ASSUME NEW t, Debug(t) PROVE Trouble(t)
<1>1. CASE Failing(t)
  <2>1. PICK i \in Prose(t) : \E m \in Mentioned(t.clauses[i]) :
            Live(m, t.clauses[i], Following(t, i))
    BY <1>1 DEF Failing
  <2>2. PICK m \in Mentioned(t.clauses[i]) : Live(m, t.clauses[i], Following(t, i))
    BY <2>1
  <2>3. m \in t.clauses[i].mentions /\ ~Negated(m)
    BY <2>2 DEF Mentioned, Live
  <2> QED
    BY <2>3 DEF Trouble
<1>2. CASE IsDebug(t)
  <2>1. PICK b \in t.bugs : Broken(b) \/ Worked(b) \/ Asserted(b) \/ Ticketed(b)
    BY <1>2 DEF IsDebug, BugFound
  <2>2. About(b) /\ b \cap {"fails", "acts", "pending", "asserted", "severe", "ticket"} # {}
    BY <2>1 DEF Broken, Worked, Asserted, Ticketed, About
  <2> QED
    BY <2>2 DEF Trouble
<1>3. CASE DebugUtterance(t)
  BY <1>3 DEF DebugUtterance, Trouble
<1> QED
  BY <1>1, <1>2, <1>3 DEF Debug

\* The rest of the text: "debug" only by its words, and nothing is long where that is excluded.
LEMMA RestFounded ==
  ASSUME NEW t, NEW o
  PROVE  /\ Rest(t, o) = "debug" => Trouble(t)
         /\ Rest(t, o) \notin {"none", "vision"}
         /\ "excludeLongContext" \in o => Rest(t, o) # "long_context"
<1>1. /\ ByWords(t.words) \in {"debug", "code", "writing", "general"}
      /\ ByWords(t.words) = "debug" => Trouble(t)
  BY DEF ByWords, Trouble
<1>2. ContentClass(t) \in {"none", "code", "writing", "long_context"}
  BY DEF ContentClass
<1> QED
  BY <1>1, <1>2 DEF Rest

\* With and without the exclusion of long contexts the rest is read alike, unless it is long.
LEMMA RestExcluded ==
  ASSUME NEW t, Rest(t, {}) # "long_context"
  PROVE  Rest(t, {"excludeLongContext"}) = Rest(t, {}) /\ Rest(t, {"skipVision"}) = Rest(t, {})
BY DEF Rest

LEMMA RestSeeing == ASSUME NEW t PROVE Rest(t, {"skipVision"}) = Rest(t, {})
BY DEF Rest

\* How the options a request is read with change what is read before its text
LEMMA OpeningTypes ==
  ASSUME NEW t
  PROVE  /\ Opening(t, FALSE, {}) \in {"vision", "general", "code", "none"}
         /\ Opening(t, FALSE, {"excludeLongContext"}) = Opening(t, FALSE, {})
         /\ Opening(t, FALSE, {}) # "vision" =>
                Opening(t, FALSE, {"skipVision"}) = Opening(t, FALSE, {})
BY DEF Opening

\* The class of a text: what it rests on, and how the options change it
LEMMA ClassFounded ==
  ASSUME NEW t
  PROVE  LET c == ClassOf(t, FALSE, {})
             short == ClassOf(t, FALSE, {"excludeLongContext"})
             intent == ClassOf(t, FALSE, {"skipVision"})
         IN  /\ {c, short} \cap {"none"} = {} /\ short # "long_context"
             /\ c = "debug" \/ short = "debug" => Trouble(t)
             /\ c = "vision" \/ short = "vision" => Opening(t, FALSE, {}) = "vision"
             /\ c # "vision" => c = intent
             /\ c \notin {"vision", "long_context"} => short = intent
             /\ c = "vision" => short = "vision"
             /\ PlainFailure(t) => intent = "debug"
<1> DEFINE c == ClassOf(t, FALSE, {})
           short == ClassOf(t, FALSE, {"excludeLongContext"})
           intent == ClassOf(t, FALSE, {"skipVision"})
           first == Opening(t, FALSE, {})
<1>1. /\ first \in {"vision", "general", "code", "none"}
      /\ Opening(t, FALSE, {"excludeLongContext"}) = first
      /\ first # "vision" => Opening(t, FALSE, {"skipVision"}) = first
  BY OpeningTypes
<1>2. CASE first # "none"
  <2>1. c = first /\ short = first
    BY <1>1, <1>2 DEF ClassOf
  <2>2. first # "vision" => intent = first
    BY <1>1, <1>2 DEF ClassOf
  <2>3. ~PlainFailure(t)
    BY <1>2 DEF PlainFailure
  <2> QED
    BY <1>1, <1>2, <2>1, <2>2, <2>3
<1>3. CASE first = "none"
  <2>1. CASE Debug(t)
    <3>1. c = "debug" /\ short = "debug" /\ intent = "debug"
      BY <1>1, <1>3, <2>1 DEF ClassOf
    <3> QED
      BY <3>1, <2>1, DebugFounded
  <2>2. CASE ~Debug(t)
    <3>1. c = Rest(t, {}) /\ short = Rest(t, {"excludeLongContext"}) /\ intent = Rest(t, {"skipVision"})
      BY <1>1, <1>3, <2>2 DEF ClassOf
    <3>2. ~PlainFailure(t)
      BY <2>2, PlainIsFailing DEF Debug
    <3>3. /\ c = "debug" \/ short = "debug" => Trouble(t)
          /\ c \notin {"none", "vision"} /\ short \notin {"none", "vision", "long_context"}
      BY <3>1, RestFounded
    <3>4. c = intent /\ (c # "long_context" => short = c)
      BY <3>1, RestExcluded, RestSeeing
    <3> QED
      BY <3>2, <3>3, <3>4
  <2> QED
    BY <2>1, <2>2
<1> QED
  BY <1>2, <1>3

\* What a class of the request, noted or judged by, may be
Standing(c) ==
    /\ c = "vision" => Sees(incoming.images, incoming.text)
    /\ c = "debug" => Trouble(incoming.text)
    /\ incoming.kind = "user_intent" /\ Intent # "long_context" =>
           c \in {"none", "vision", "long_context", Intent}

TaskTypes ==
    /\ incoming \in Incoming /\ images \in BOOLEAN /\ tokens \in Nat
    /\ images => incoming.images

TaskInv ==
    /\ TaskTypes
    /\ Standing(class) /\ Standing(judged.class)
    /\ judged.images => judged.class = "vision"
    /\ LongIsLong

\* The intent of a request that is not a continuation
LEMMA IntentOf ==
  incoming.kind = "user_intent" => Intent = ClassOf(incoming.text, FALSE, {"skipVision"})
BY DEF Intent

\* The class that is read from the text stands.
LEMMA ReadStands == Standing(ClassOf(incoming.text, FALSE, {}))
BY ClassFounded, IntentOf DEF Standing, Sees

\* So does the class after the floor, and it is long only above it.
LEMMA GatedStands ==
  ASSUME NEW c, Standing(c), NEW n
  PROVE  LET g == FloorGated(incoming.text, c, n)
         IN  Standing(g) /\ (g = "long_context" => n > LongFloor)
<1> DEFINE g == FloorGated(incoming.text, c, n)
           other == ClassOf(incoming.text, FALSE, {"excludeLongContext"})
<1>1. CASE c # "long_context" \/ n > LongFloor
  BY <1>1 DEF FloorGated
<1>2. CASE ~(c # "long_context" \/ n > LongFloor)
  <2>1. other # "long_context" /\ g = other
    BY <1>2, ClassFounded DEF FloorGated
  <2>2. other = "vision" => Sees(incoming.images, incoming.text)
    BY ClassFounded DEF Sees
  <2>3. other = "debug" => Trouble(incoming.text)
    BY ClassFounded
  <2>4. incoming.kind = "user_intent" /\ Intent # "long_context" => other \in {"vision", Intent}
    <3>1. SUFFICES ASSUME incoming.kind = "user_intent", Intent # "long_context"
                   PROVE  other \in {"vision", Intent}
      OBVIOUS
    <3> QED
      BY <3>1, IntentOf, ClassFounded
  <2> QED
    BY <2>1, <2>2, <2>3, <2>4 DEF Standing
<1> QED
  BY <1>1, <1>2

\* A judgement keeps the invariant if its class stands and fits the body.
LEMMA JudgedStands ==
  ASSUME TaskInv, NEW c, NEW unused, Judges(c, unused), Standing(c), Standing(unused),
         images => c = "vision", c = "long_context" => tokens > LongFloor,
         UNCHANGED <<incoming, images, tokens>>
  PROVE  TaskInv'
<1>1. judged' = [class |-> c, images |-> images, size |-> tokens] /\ class' \in {c, unused}
  BY DEF Judges
<1>2. TaskTypes'
  BY DEF TaskInv, TaskTypes
<1>3. ASSUME NEW d, Standing(d) PROVE Standing(d)'
  BY <1>3 DEF Standing, Intent
<1>4. Standing(class)' /\ Standing(judged.class)'
  <2>1. judged.class' = c
    BY <1>1
  <2>2. ASSUME NEW d, Standing(d), NEW e, e = d PROVE Standing(e)
    BY <2>2
  <2> QED
    BY <1>1, <2>1, <1>3 DEF Standing, Intent
<1>5. (judged.images => judged.class = "vision")' /\ LongIsLong'
  BY <1>1 DEF LongIsLong
<1> QED
  BY <1>2, <1>4, <1>5 DEF TaskInv

LEMMA TaskInductive ==
  ASSUME TaskInv, [TaskNext]_taskVars
  PROVE  TaskInv'
<1> USE DEF taskVars
<1>1. CASE Decide
  <2>1. UNCHANGED <<incoming, images, tokens>>
    BY <1>1 DEF Decide
  <2>2. Standing(class)
    BY DEF TaskInv
  <2>3. CASE images /\ Judges("vision", class)
    <3>1. Standing("vision")
      BY <2>3 DEF Standing, TaskInv, TaskTypes, Sees
    <3> QED
      BY <2>1, <2>2, <2>3, <3>1, JudgedStands
  <2>4. CASE ~images /\ class \notin {"none", "vision", "long_context"} /\ Judges(class, class)
    BY <2>1, <2>2, <2>4, JudgedStands
  <2>5. CASE ~images /\ Judges(FreshClass, class)
    <3>1. Standing(FreshClass) /\ (FreshClass = "long_context" => tokens > LongFloor)
      BY ReadStands, GatedStands DEF FreshClass
    <3> QED
      BY <2>1, <2>2, <2>5, <3>1, JudgedStands
  <2>6. CASE ~images /\ incoming.kind = "tool_continuation" /\ Judges("general", class)
    <3>1. Standing("general")
      BY <2>6 DEF Standing
    <3> QED
      BY <2>1, <2>2, <2>6, <3>1, JudgedStands
  <2> QED
    BY <1>1, <2>3, <2>4, <2>5, <2>6 DEF Decide
<1>2. CASE FallBack
  <2>1. UNCHANGED <<incoming, images, tokens>>
    BY <1>2 DEF FallBack
  <2>2. CASE images
    <3>1. Standing("vision")
      BY <2>2 DEF Standing, TaskInv, TaskTypes, Sees
    <3>2. Judges("vision", "vision")
      BY <1>2, <2>2 DEF FallBack, LayerClass
    <3> QED
      BY <2>1, <3>1, <3>2, JudgedStands
  <2>3. CASE ~images
    <3>1. Judges(LayerClass, "none")
      BY <1>2, <2>3 DEF FallBack
    <3>2. Standing("none")
      BY DEF Standing
    <3>3. Standing(LayerClass) /\ (LayerClass = "long_context" => tokens > LongFloor)
      BY <2>3, ReadStands, GatedStands DEF LayerClass, TaskInv
    <3> QED
      BY <2>1, <2>3, <3>1, <3>2, <3>3, JudgedStands
  <2> QED
    BY <2>2, <2>3
<1>3. CASE Skip
  BY <1>3 DEF Skip, TaskInv, TaskTypes, Standing, Intent, LongIsLong
<1>4. CASE Shorten
  <2>1. UNCHANGED <<incoming, class, choice, judged>>
    BY <1>4 DEF Shorten
  <2>2. tokens' \in Nat
    <3>1. tokens \in Nat /\ tokens' \in 1..tokens - 1
      BY <1>4 DEF Shorten, TaskInv, TaskTypes
    <3> QED
      BY <3>1
  <2>3. images' \in BOOLEAN /\ (images' => incoming'.images)
    <3>1. images \in BOOLEAN /\ (images => incoming.images) /\ images' \in {FALSE, images}
      BY <1>4 DEF Shorten, TaskInv, TaskTypes
    <3>2. CASE images' = FALSE
      BY <3>2
    <3>3. CASE images' = images
      BY <2>1, <3>1, <3>3
    <3> QED
      BY <3>1, <3>2, <3>3
  <2>4. (Standing(class) /\ Standing(judged.class))'
    BY <2>1 DEF TaskInv, Standing, Intent
  <2>5. (judged.images => judged.class = "vision")' /\ LongIsLong'
    BY <2>1 DEF TaskInv, LongIsLong
  <2> QED
    BY <2>1, <2>2, <2>3, <2>4, <2>5 DEF TaskInv, TaskTypes
<1>5. CASE SizeHop
  BY <1>5 DEF SizeHop, TaskInv, TaskTypes, Standing, Intent, LongIsLong, Sees
<1>6. CASE ToVision
  BY <1>6 DEF ToVision, TaskInv, TaskTypes, Standing, Intent, LongIsLong, Sees
<1>7. CASE EmptyHop
  BY <1>7, IncomingAssumption DEF EmptyHop, TaskInv, TaskTypes, Standing, Intent, LongIsLong, Sees
<1>8. CASE UNCHANGED taskVars
  BY <1>8 DEF TaskInv, TaskTypes, Standing, Intent, LongIsLong
<1> QED
  BY <1>1, <1>2, <1>3, <1>4, <1>5, <1>6, <1>7, <1>8 DEF TaskNext

\* The class of a request stands, whatever it asks, says and meets: see ClassStands.
THEOREM ClassTheorem == TaskSpec => []ClassStands
<1>1. TaskInit => TaskInv
  <2>1. SUFFICES ASSUME TaskInit PROVE TaskInv
    OBVIOUS
  <2>2. TaskTypes
    BY <2>1, IncomingAssumption DEF TaskInit, TaskTypes
  <2>3. Standing("none")
    BY DEF Standing
  <2> QED
    BY <2>1, <2>2, <2>3 DEF TaskInit, TaskInv, Unjudged, LongIsLong
<1>2. TaskInv /\ [TaskNext]_taskVars => TaskInv'
  BY TaskInductive
<1>3. TaskInv => ClassStands
  <2>1. SUFFICES ASSUME TaskInv PROVE ClassStands
    OBVIOUS
  <2>2. VisionKept /\ LongIsLong /\ AlarmFounded /\ IntentKept
    BY <2>1 DEF TaskInv, Standing, VisionKept, LongIsLong, AlarmFounded, IntentKept
  <2>3. FailureSeen
    <3>1. incoming.kind = "user_intent" /\ PlainFailure(incoming.text) => Intent = "debug"
      BY IntentOf, ClassFounded
    <3> QED
      BY <2>2, <3>1 DEF FailureSeen, IntentKept
  <2> QED
    BY <2>2, <2>3 DEF ClassStands
<1> QED
  BY <1>1, <1>2, <1>3, PTL DEF TaskSpec
-----------------------------------------------------------------------------
(* DistillationControl: the versions.                                        *)

\* The weights of a version are what some proposals come to: what a sum over them is, is left
\* to TLC, here it only has to be the same sum.
MergedWeights == {MergeRoutingAdjustments(S).weights : S \in SUBSET Proposals}

VersionRows ==
    [weights : MergedWeights, patterns : SUBSET Patterns, of : SUBSET Proposals,
     active : BOOLEAN, created : Nat]

Statuses == {"none", "draft", "validated", "validation_failed", "applied"}

ControlCalls ==
    [at : Changing \cup {"idle", "judging"}, batch : SUBSET Proposals, sound : BOOLEAN,
     got : SignalIds, since : Nat, alone : BOOLEAN]

ViewCalls == [at : {"idle", "query", "answered", "done"}, since : Nat, got : SignalIds]

OverlayTyped ==
    /\ proposal \in [Proposals -> Statuses]
    /\ signals \in Seq(VersionRows) /\ Len(signals) <= MaxVersions
    /\ cachedOverlay \in SignalIds /\ cachedSnapshot \in SignalIds /\ cacheAt \in Nat
    /\ control \in [Callers_ -> ControlCalls]
    /\ viewing \in [Viewers -> ViewCalls]
    /\ seconds \in Nat /\ starts \in Nat /\ undisturbed \in BOOLEAN /\ inTurn \in BOOLEAN
    /\ lastNewest \in [SignalIds -> Nat]

\* A version that is rolled back is there.
RollbacksFound ==
    \A c \in Callers_ : control[c].at = "deactivating" => control[c].got \in DOMAIN signals

\* A version holds what its proposals come to.
VersionsMerged ==
    \A v \in DOMAIN signals :
        /\ signals[v].weights = MergeRoutingAdjustments(signals[v].of).weights
        /\ signals[v].patterns = MergeRoutingAdjustments(signals[v].of).patterns

\* Of a call that has met no other, the answer is what the table says.
SnapshotFits ==
    /\ \A c \in Callers_ : Changes_(c) /\ control[c].alone => \A d \in Callers_ \ {c} : ~Changes_(d)
    /\ \A c \in Callers_ : control[c].at = "answered" /\ control[c].alone
                              => control[c].got \in NewestOf(signals)
    /\ undisturbed /\ (\A c \in Callers_ : ~Changes_(c)) => cachedSnapshot \in NewestOf(signals)

\* What a call is about to mark is in a version.
MarksFit ==
    /\ AppliedHasVersion
    /\ \A c \in Callers_ : control[c].at = "marking" =>
          \E v \in DOMAIN signals : control[c].batch \subseteq signals[v].of

Settled == Having("validated") = {} \/ ValidateRoutingProposals(Having("validated"))

\* What is validated has been judged together, up to what the call has done.
BatchFits(c) ==
    LET call == control[c]
        validated == Having("validated")
    IN  /\ call.at = "judging" => IF call.sound THEN ValidateRoutingProposals(validated \cup call.batch)
                                  ELSE validated = {}
        /\ call.at \in {"replacing", "inserting"} =>
               call.batch = validated /\ ValidateRoutingProposals(validated)
        /\ call.at = "marking" => call.batch = validated
        /\ call.at \in {"deactivating", "query", "answered"} => Settled

\* The start of the server reads only, and where one call comes after the other, each finds
\* what is validated judged together.
TurnsFit ==
    /\ control["server"].at \in {"idle", "query", "answered"}
    /\ inTurn =>
        /\ \A c, d \in Callers_ : UnderWay(c) /\ UnderWay(d) => c = d
        /\ \A c \in Callers_ : BatchFits(c)
        /\ InTurn => Settled
        /\ \A v \in DOMAIN signals : ValidateRoutingProposals(signals[v].of)

\* Since when what was read, or is kept, may be out of date
TimesFit ==
    /\ \A v \in SignalIds : lastNewest[v] <= seconds
    /\ \A v \in NewestOf(signals) : lastNewest[v] = seconds
    /\ \A c \in Callers_ :
          /\ control[c].since <= seconds
          /\ control[c].at = "answered" => control[c].since <= lastNewest[control[c].got]
    /\ \A w \in Viewers :
          /\ viewing[w].since <= seconds
          /\ viewing[w].at = "answered" => viewing[w].since <= lastNewest[viewing[w].got]
    /\ cachedOverlay # 0 => cacheAt <= lastNewest[cachedOverlay]
    /\ OverlayFresh

OverlayInv ==
    /\ OverlayTyped /\ RollbacksFound /\ VersionsMerged
    /\ SnapshotFits /\ MarksFit /\ TurnsFit /\ TimesFit

-----------------------------------------------------------------------------
LEMMA NewestIsThere ==
    ASSUME NEW rows, rows \in Seq(VersionRows), NEW v \in NewestOf(rows)
    PROVE  v \in 0..Len(rows) /\ (v # 0 => v \in DOMAIN rows)
BY DEF NewestOf

LEMMA MergedIsRow ==
    ASSUME NEW S \in SUBSET Proposals
    PROVE  /\ MergeRoutingAdjustments(S).weights \in MergedWeights
           /\ MergeRoutingAdjustments(S).patterns \in SUBSET Patterns
<1>1. MergeRoutingAdjustments(S).patterns
         = UNION {Payload[p].patterns : p \in {p \in S : Payload[p].action \notin {"confirm", "ambiguous"}}}
    BY DEF MergeRoutingAdjustments
<1>2. \A p \in Proposals : Payload[p].patterns \subseteq Patterns
    BY ControlAssumption
<1> QED
    BY <1>1, <1>2 DEF MergedWeights

LEMMA VerdictIsBoolean ==
    ASSUME NEW S PROVE ValidateRoutingProposals(S) \in BOOLEAN
BY DEF ValidateRoutingProposals

\* What a step of one call does to the calls.
LEMMA OneProceeds ==
    ASSUME control \in [Callers_ -> ControlCalls], NEW a \in Callers_, NEW call \in ControlCalls,
           Proceeds(a, call)
    PROVE  /\ control' \in [Callers_ -> ControlCalls] /\ control'[a] = call
           /\ \A c \in Callers_ \ {a} : control'[c] = control[c]
BY DEF Proceeds

LEMMA OneEnters ==
    ASSUME control \in [Callers_ -> ControlCalls], NEW a \in Callers_, NEW call \in ControlCalls,
           Enters(a, call)
    PROVE  /\ control' \in [Callers_ -> ControlCalls]
           /\ control'[a] = [call EXCEPT !.alone = \A d \in Callers_ : ~Changes_(d)]
           /\ \A c \in Callers_ \ {a} :
                 control'[c] = [control[c] EXCEPT !.alone = @ /\ ~Changes_(c)]
<1>1. \A d \in Callers_ : Changes_(d) \in BOOLEAN
    BY DEF Changes_
<1>2. [call EXCEPT !.alone = \A d \in Callers_ : ~Changes_(d)] \in ControlCalls
    BY DEF ControlCalls
<1>3. \A c \in Callers_ : [control[c] EXCEPT !.alone = @ /\ ~Changes_(c)] \in ControlCalls
    BY <1>1 DEF ControlCalls
<1>4. control' = [c \in Callers_ |->
        IF c = a THEN [call EXCEPT !.alone = \A d \in Callers_ : ~Changes_(d)]
        ELSE [control[c] EXCEPT !.alone = @ /\ ~Changes_(c)]]
    BY DEF Enters
<1> QED
    BY <1>2, <1>3, <1>4

LEMMA CallsTyped ==
    ASSUME OverlayTyped
    PROVE  /\ NoControl \in ControlCalls /\ StartReads \in ControlCalls
           /\ \A c \in Callers_ : control[c] \in ControlCalls
<1>1. 0 \in SignalIds /\ seconds \in Nat
    BY ControlAssumption DEF SignalIds, OverlayTyped
<1> QED
    BY <1>1 DEF OverlayTyped, NoControl, StartReads, ControlCalls, Changing

\* Every other call stays where it is.
Others(a) == \A c \in Callers_ \ {a} : control'[c] = control[c]

OthersMet(a) ==
    \A c \in Callers_ \ {a} : control'[c] = [control[c] EXCEPT !.alone = @ /\ ~Changes_(c)]

CallsStayTyped == control' \in [Callers_ -> ControlCalls]

LEMMA MetKeep ==
    ASSUME control \in [Callers_ -> ControlCalls], NEW a \in Callers_, OthersMet(a)
    PROVE  \A c \in Callers_ \ {a} :
             /\ control'[c].at = control[c].at /\ control'[c].batch = control[c].batch
             /\ control'[c].sound = control[c].sound /\ control'[c].got = control[c].got
             /\ control'[c].since = control[c].since
             /\ control'[c].alone = (control[c].alone /\ ~Changes_(c))
<1> SUFFICES ASSUME NEW c \in Callers_ \ {a}
             PROVE  /\ control'[c].at = control[c].at /\ control'[c].batch = control[c].batch
                    /\ control'[c].sound = control[c].sound /\ control'[c].got = control[c].got
                    /\ control'[c].since = control[c].since
                    /\ control'[c].alone = (control[c].alone /\ ~Changes_(c))
    OBVIOUS
<1>1. control[c] \in ControlCalls
    OBVIOUS
<1>2. control'[c] = [control[c] EXCEPT !.alone = @ /\ ~Changes_(c)]
    BY DEF OthersMet
<1> QED
    BY <1>1, <1>2 DEF ControlCalls

LEMMA ValidateEffect ==
    ASSUME OverlayTyped, NEW a \in Callers_, ValidateDraftProposals(a)
    PROVE  /\ CallsStayTyped /\ Others(a) /\ control[a].at = "idle"
           /\ control'[a] = [NoControl EXCEPT !.at = "judging", !.batch = Having("draft"),
                                              !.sound = ValidateRoutingProposals(Having("draft"))]
<1> DEFINE call == [NoControl EXCEPT !.at = "judging", !.batch = Having("draft"),
                                     !.sound = ValidateRoutingProposals(Having("draft"))]
<1>1. call \in ControlCalls
    BY CallsTyped, VerdictIsBoolean DEF ControlCalls, Having
<1>2. Proceeds(a, call) /\ ~UnderWay(a)
    BY DEF ValidateDraftProposals
<1> HIDE DEF call
<1>3. CallsStayTyped /\ Others(a) /\ control'[a] = call
    BY <1>1, <1>2, OneProceeds DEF OverlayTyped, CallsStayTyped, Others
<1> QED
    BY <1>2, <1>3 DEF UnderWay, call

LEMMA VerdictEffect ==
    ASSUME OverlayTyped, NEW a \in Callers_, WriteVerdict(a)
    PROVE  /\ CallsStayTyped /\ Others(a) /\ control[a].at = "judging"
           /\ \E p \in control[a].batch :
                 /\ proposal' = [proposal EXCEPT ![p] = IF control[a].sound THEN "validated"
                                                        ELSE "validation_failed"]
                 /\ \/ control[a].batch = {p} /\ control'[a] = NoControl
                    \/ control'[a] = [control[a] EXCEPT !.batch = @ \ {p}]
<1>1. PICK p \in control[a].batch :
         /\ proposal' = [proposal EXCEPT ![p] = IF control[a].sound THEN "validated"
                                                ELSE "validation_failed"]
         /\ Proceeds(a, IF control[a].batch = {p} THEN NoControl
                        ELSE [control[a] EXCEPT !.batch = @ \ {p}])
    BY DEF WriteVerdict
<1>2. [control[a] EXCEPT !.batch = @ \ {p}] \in ControlCalls
    BY CallsTyped DEF ControlCalls
<1>3. /\ CallsStayTyped /\ Others(a)
      /\ control'[a] = IF control[a].batch = {p} THEN NoControl
                       ELSE [control[a] EXCEPT !.batch = @ \ {p}]
    BY <1>1, <1>2, CallsTyped, OneProceeds DEF OverlayTyped, CallsStayTyped, Others
<1> QED
    BY <1>1, <1>3 DEF WriteVerdict

LEMMA ApplyEffect ==
    ASSUME OverlayTyped, NEW a \in Callers_, ApplyValidatedProposals(a)
    PROVE  /\ CallsStayTyped /\ OthersMet(a) /\ control[a].at = "idle"
           /\ control'[a] = [NoControl EXCEPT !.at = "replacing", !.batch = Having("validated"),
                                              !.alone = \A d \in Callers_ : ~Changes_(d)]
<1> DEFINE call == [NoControl EXCEPT !.at = "replacing", !.batch = Having("validated")]
<1>1. call \in ControlCalls
    BY CallsTyped DEF ControlCalls, Having, Changing
<1>2. Enters(a, call) /\ ~UnderWay(a)
    BY DEF ApplyValidatedProposals
<1> HIDE DEF call
<1>3. CallsStayTyped /\ OthersMet(a) /\ control'[a] = [call EXCEPT !.alone = \A d \in Callers_ : ~Changes_(d)]
    BY <1>1, <1>2, OneEnters DEF OverlayTyped, CallsStayTyped, OthersMet
<1> QED
    BY <1>2, <1>3, CallsTyped DEF UnderWay, call, ControlCalls

LEMMA RowDeactivated ==
    ASSUME NEW row \in VersionRows
    PROVE  LET off == [row EXCEPT !.active = FALSE]
           IN  /\ off \in VersionRows
               /\ off.weights = row.weights /\ off.patterns = row.patterns /\ off.of = row.of
BY DEF VersionRows

LEMMA ReplaceEffect ==
    ASSUME OverlayTyped, NEW a \in Callers_, DeactivateVersions(a)
    PROVE  /\ CallsStayTyped /\ Others(a) /\ control[a].at = "replacing"
           /\ control'[a] = [control[a] EXCEPT !.at = "inserting"]
           /\ signals' \in Seq(VersionRows) /\ Len(signals') = Len(signals)
           /\ DOMAIN signals' = DOMAIN signals
           /\ \A v \in DOMAIN signals :
                 /\ signals'[v].weights = signals[v].weights
                 /\ signals'[v].patterns = signals[v].patterns /\ signals'[v].of = signals[v].of
<1>1. [control[a] EXCEPT !.at = "inserting"] \in ControlCalls
    BY CallsTyped DEF ControlCalls, Changing
<1>2. Proceeds(a, [control[a] EXCEPT !.at = "inserting"])
    BY DEF DeactivateVersions
<1>3. CallsStayTyped /\ Others(a) /\ control'[a] = [control[a] EXCEPT !.at = "inserting"]
    BY <1>1, <1>2, OneProceeds DEF OverlayTyped, CallsStayTyped, Others
<1>4. signals' = [v \in DOMAIN signals |-> [signals[v] EXCEPT !.active = FALSE]]
    BY DEF DeactivateVersions
<1>5. signals \in Seq(VersionRows) /\ DOMAIN signals = 1..Len(signals) /\ Len(signals) \in Nat
    BY DEF OverlayTyped
<1>6. \A v \in DOMAIN signals :
         signals[v] \in VersionRows /\ [signals[v] EXCEPT !.active = FALSE] \in VersionRows
    <2> SUFFICES ASSUME NEW v \in DOMAIN signals
                 PROVE  signals[v] \in VersionRows /\ [signals[v] EXCEPT !.active = FALSE] \in VersionRows
        OBVIOUS
    <2>1. signals[v] \in VersionRows
        BY <1>5
    <2> QED
        BY <2>1, RowDeactivated
<1>7. signals' \in [1..Len(signals) -> VersionRows]
    BY <1>4, <1>5, <1>6
<1>8. signals' \in Seq(VersionRows) /\ Len(signals') = Len(signals)
    BY <1>5, <1>7
<1>9. \A v \in DOMAIN signals :
         /\ signals'[v].weights = signals[v].weights
         /\ signals'[v].patterns = signals[v].patterns /\ signals'[v].of = signals[v].of
    BY <1>4, <1>6, RowDeactivated
<1> QED
    BY <1>3, <1>4, <1>8, <1>9 DEF DeactivateVersions

LEMMA InsertEffect ==
    ASSUME OverlayTyped, NEW a \in Callers_, InsertVersion(a)
    PROVE  /\ CallsStayTyped /\ Others(a) /\ control[a].at = "inserting"
           /\ control'[a] = [control[a] EXCEPT !.at = "marking"]
           /\ signals' \in Seq(VersionRows) /\ Len(signals') = Len(signals) + 1
           /\ Len(signals') <= MaxVersions
           /\ \A v \in DOMAIN signals : v \in DOMAIN signals' /\ signals'[v] = signals[v]
           /\ DOMAIN signals' = DOMAIN signals \cup {Len(signals')}
           /\ LET row == signals'[Len(signals')]
                  merged == MergeRoutingAdjustments(control[a].batch)
              IN  row.of = control[a].batch /\ row.weights = merged.weights
                  /\ row.patterns = merged.patterns
<1> DEFINE batch == control[a].batch
           row == [weights |-> MergeRoutingAdjustments(batch).weights,
                   patterns |-> MergeRoutingAdjustments(batch).patterns,
                   of |-> batch, active |-> TRUE, created |-> seconds]
<1>1. [control[a] EXCEPT !.at = "marking"] \in ControlCalls /\ batch \in SUBSET Proposals
    BY CallsTyped DEF ControlCalls, Changing
<1>2. Proceeds(a, [control[a] EXCEPT !.at = "marking"])
    BY DEF InsertVersion
<1>3. CallsStayTyped /\ Others(a) /\ control'[a] = [control[a] EXCEPT !.at = "marking"]
    BY <1>1, <1>2, OneProceeds DEF OverlayTyped, CallsStayTyped, Others
<1>4. row \in VersionRows
    BY <1>1, MergedIsRow DEF VersionRows, OverlayTyped
<1>5. signals' = Append(signals, row) /\ Len(signals) < MaxVersions
    BY DEF InsertVersion
<1>6. /\ row.of = batch /\ row.weights = MergeRoutingAdjustments(batch).weights
      /\ row.patterns = MergeRoutingAdjustments(batch).patterns
    OBVIOUS
<1> HIDE DEF row
<1>7. signals \in Seq(VersionRows) /\ MaxVersions \in Nat
    BY ControlAssumption DEF OverlayTyped
<1>8. /\ signals' \in Seq(VersionRows) /\ Len(signals') = Len(signals) + 1
      /\ Len(signals') <= MaxVersions /\ signals'[Len(signals')] = row
      /\ \A v \in DOMAIN signals : v \in DOMAIN signals' /\ signals'[v] = signals[v]
      /\ DOMAIN signals' = DOMAIN signals \cup {Len(signals')}
    BY <1>4, <1>5, <1>7
<1> QED
    BY <1>3, <1>6, <1>8 DEF InsertVersion

LEMMA MarkEffect ==
    ASSUME OverlayTyped, NEW a \in Callers_, MarkApplied(a)
    PROVE  /\ CallsStayTyped /\ Others(a) /\ control[a].at = "marking"
           /\ \E p \in control[a].batch :
                 /\ proposal' = [proposal EXCEPT ![p] = "applied"]
                 /\ \/ /\ control[a].batch = {p} /\ cachedOverlay' = 0 /\ cacheAt' = 0
                       /\ control'[a] = [control[a] EXCEPT !.at = "query", !.batch = {}, !.since = seconds]
                    \/ /\ control'[a] = [control[a] EXCEPT !.batch = @ \ {p}]
                       /\ UNCHANGED cacheVars
           /\ UNCHANGED <<cachedSnapshot, undisturbed>>
<1> DEFINE asks == [control[a] EXCEPT !.at = "query", !.batch = {}, !.since = seconds]
<1>1. PICK p \in control[a].batch :
         /\ proposal' = [proposal EXCEPT ![p] = "applied"]
         /\ IF control[a].batch = {p} THEN Refresh(a)
            ELSE /\ Proceeds(a, [control[a] EXCEPT !.batch = @ \ {p}])
                 /\ UNCHANGED <<cacheVars, undisturbed>>
    BY DEF MarkApplied
<1>2. asks \in ControlCalls /\ [control[a] EXCEPT !.batch = @ \ {p}] \in ControlCalls
    BY CallsTyped DEF ControlCalls, Changing, OverlayTyped
<1>3. CASE control[a].batch = {p}
    <2>1. Proceeds(a, asks) /\ cachedOverlay' = 0 /\ cacheAt' = 0 /\ UNCHANGED <<cachedSnapshot, undisturbed>>
        BY <1>1, <1>3 DEF Refresh
    <2>2. CallsStayTyped /\ Others(a) /\ control'[a] = asks
        BY <2>1, <1>2, OneProceeds DEF OverlayTyped, CallsStayTyped, Others
    <2> QED
        BY <1>1, <1>3, <2>1, <2>2 DEF MarkApplied
<1>4. CASE control[a].batch # {p}
    <2>1. Proceeds(a, [control[a] EXCEPT !.batch = @ \ {p}]) /\ UNCHANGED <<cacheVars, undisturbed>>
        BY <1>1, <1>4
    <2>2. CallsStayTyped /\ Others(a) /\ control'[a] = [control[a] EXCEPT !.batch = @ \ {p}]
        BY <2>1, <1>2, OneProceeds DEF OverlayTyped, CallsStayTyped, Others
    <2> QED
        BY <1>1, <1>4, <2>1, <2>2 DEF MarkApplied, cacheVars
<1> QED
    BY <1>3, <1>4

LEMMA RollbackEffect ==
    ASSUME OverlayTyped, NEW a \in Callers_, RollbackRoutingOverlay(a)
    PROVE  /\ CallsStayTyped /\ OthersMet(a) /\ control[a].at = "idle"
           /\ control'[a].alone = (\A d \in Callers_ : ~Changes_(d))
           /\ \/ /\ control'[a].at = "query" /\ control'[a].since = seconds
                 /\ cachedOverlay' = 0 /\ cacheAt' = 0
              \/ /\ control'[a].at = "deactivating" /\ control'[a].got \in DOMAIN signals
                 /\ control'[a].since = 0
                 /\ UNCHANGED <<cachedOverlay, cacheAt>>
           /\ UNCHANGED cachedSnapshot
<1>1. PICK v \in NewestOf(signals) :
          IF v = 0
          THEN /\ cachedOverlay' = 0 /\ cacheAt' = 0 /\ UNCHANGED cachedSnapshot
               /\ Enters(a, [NoControl EXCEPT !.at = "query", !.since = seconds])
          ELSE /\ Enters(a, [NoControl EXCEPT !.at = "deactivating", !.got = v])
               /\ UNCHANGED cacheVars
    BY DEF RollbackRoutingOverlay
<1>2. v \in 0..Len(signals) /\ (v # 0 => v \in DOMAIN signals) /\ v \in SignalIds
    BY <1>1, NewestIsThere, ControlAssumption DEF OverlayTyped, SignalIds
<1>3. /\ [NoControl EXCEPT !.at = "query", !.since = seconds] \in ControlCalls
      /\ [NoControl EXCEPT !.at = "deactivating", !.got = v] \in ControlCalls
    BY <1>2, CallsTyped DEF ControlCalls, Changing, OverlayTyped
<1>4. control[a].at = "idle"
    BY DEF RollbackRoutingOverlay, UnderWay
<1>5. CASE v = 0
    <2>1. /\ CallsStayTyped /\ OthersMet(a)
          /\ control'[a] = [[NoControl EXCEPT !.at = "query", !.since = seconds]
                               EXCEPT !.alone = \A d \in Callers_ : ~Changes_(d)]
        BY <1>1, <1>3, <1>5, OneEnters DEF OverlayTyped, CallsStayTyped, OthersMet
    <2> QED
        BY <1>1, <1>4, <1>5, <2>1 DEF NoControl
<1>6. CASE v # 0
    <2>1. /\ CallsStayTyped /\ OthersMet(a)
          /\ control'[a] = [[NoControl EXCEPT !.at = "deactivating", !.got = v]
                               EXCEPT !.alone = \A d \in Callers_ : ~Changes_(d)]
        BY <1>1, <1>3, <1>6, OneEnters DEF OverlayTyped, CallsStayTyped, OthersMet
    <2> QED
        BY <1>1, <1>2, <1>4, <1>6, <2>1 DEF NoControl, cacheVars
<1> QED
    BY <1>5, <1>6

LEMMA DeactivateEffect ==
    ASSUME OverlayTyped, RollbacksFound, NEW a \in Callers_, DeactivateNewest(a)
    PROVE  /\ CallsStayTyped /\ Others(a) /\ control[a].at = "deactivating"
           /\ control'[a] = [control[a] EXCEPT !.at = "query", !.batch = {}, !.since = seconds]
           /\ signals' \in Seq(VersionRows) /\ Len(signals') = Len(signals)
           /\ DOMAIN signals' = DOMAIN signals
           /\ \A v \in DOMAIN signals :
                 /\ signals'[v].weights = signals[v].weights
                 /\ signals'[v].patterns = signals[v].patterns /\ signals'[v].of = signals[v].of
           /\ cachedOverlay' = 0 /\ cacheAt' = 0 /\ UNCHANGED <<cachedSnapshot, undisturbed>>
<1> DEFINE asks == [control[a] EXCEPT !.at = "query", !.batch = {}, !.since = seconds]
<1>1. asks \in ControlCalls
    BY CallsTyped DEF ControlCalls, Changing, OverlayTyped
<1>2. Proceeds(a, asks)
    BY DEF DeactivateNewest, Refresh
<1>3. CallsStayTyped /\ Others(a) /\ control'[a] = asks
    BY <1>1, <1>2, OneProceeds DEF OverlayTyped, CallsStayTyped, Others
<1>4. control[a].got \in DOMAIN signals
    BY DEF RollbacksFound, DeactivateNewest
<1>5. signals' = [signals EXCEPT ![control[a].got].active = FALSE]
    BY DEF DeactivateNewest
<1>6. signals \in Seq(VersionRows) /\ DOMAIN signals = 1..Len(signals) /\ Len(signals) \in Nat
    BY DEF OverlayTyped
<1>7. \A v \in DOMAIN signals :
         signals[v] \in VersionRows /\ [signals[v] EXCEPT !.active = FALSE] \in VersionRows
    <2> SUFFICES ASSUME NEW v \in DOMAIN signals
                 PROVE  signals[v] \in VersionRows /\ [signals[v] EXCEPT !.active = FALSE] \in VersionRows
        OBVIOUS
    <2>1. signals[v] \in VersionRows
        BY <1>6
    <2> QED
        BY <2>1, RowDeactivated
<1>8. signals' \in [1..Len(signals) -> VersionRows]
    BY <1>4, <1>5, <1>6, <1>7
<1>9. signals' \in Seq(VersionRows) /\ Len(signals') = Len(signals)
    BY <1>6, <1>8
<1>10. \A v \in DOMAIN signals :
         /\ signals'[v].weights = signals[v].weights
         /\ signals'[v].patterns = signals[v].patterns /\ signals'[v].of = signals[v].of
    BY <1>4, <1>5, <1>6, <1>7, RowDeactivated
<1> QED
    BY <1>3, <1>5, <1>9, <1>10 DEF DeactivateNewest, Refresh

LEMMA QueryEffect ==
    ASSUME OverlayTyped, NEW a \in Callers_, QueryOverlay(a)
    PROVE  /\ CallsStayTyped /\ Others(a) /\ control[a].at = "query"
           /\ \E v \in NewestOf(signals) :
                 v \in SignalIds /\ control'[a] = [control[a] EXCEPT !.at = "answered", !.got = v]
<1>1. PICK v \in NewestOf(signals) : Proceeds(a, [control[a] EXCEPT !.at = "answered", !.got = v])
    BY DEF QueryOverlay
<1>2. v \in SignalIds
    BY <1>1, NewestIsThere, ControlAssumption DEF OverlayTyped, SignalIds
<1>3. [control[a] EXCEPT !.at = "answered", !.got = v] \in ControlCalls
    BY <1>2, CallsTyped DEF ControlCalls, Changing
<1>4. /\ CallsStayTyped /\ Others(a)
      /\ control'[a] = [control[a] EXCEPT !.at = "answered", !.got = v]
    BY <1>1, <1>3, OneProceeds DEF OverlayTyped, CallsStayTyped, Others
<1> QED
    BY <1>1, <1>2, <1>4 DEF QueryOverlay

LEMMA StoreEffect ==
    ASSUME OverlayTyped, NEW a \in Callers_, StoreSnapshot(a)
    PROVE  /\ CallsStayTyped /\ Others(a) /\ control[a].at = "answered" /\ control'[a] = NoControl
BY CallsTyped, OneProceeds DEF OverlayTyped, CallsStayTyped, Others, StoreSnapshot

LEMMA StartEffect ==
    ASSUME OverlayTyped, StartAgain
    PROVE  /\ CallsStayTyped
           /\ \A c \in Callers_ : control'[c] = IF c = "server" THEN StartReads ELSE NoControl
BY CallsTyped DEF StartAgain, CallsStayTyped

-----------------------------------------------------------------------------
\* Every action keeps the types, a version's content and the one a rollback has found.
TypesHold == OverlayTyped /\ RollbacksFound /\ VersionsMerged

LEMMA NotedIsTyped ==
    ASSUME OverlayTyped, NEW rows, NEW time \in Nat, NotesNewest(rows, time)
    PROVE  lastNewest' \in [SignalIds -> Nat]
BY DEF NotesNewest, OverlayTyped

LEMMA OverlayTypesKept ==
    ASSUME TypesHold, OverlayNext
    PROVE  TypesHold'
<1> USE DEF TypesHold
<1>a. Admins \subseteq Callers_ /\ 0 \in SignalIds
    BY ControlAssumption DEF Callers_, SignalIds
<1>b. control \in [Callers_ -> ControlCalls] /\ viewing \in [Viewers -> ViewCalls]
    BY DEF OverlayTyped
<1>c. ASSUME UNCHANGED signals, CallsStayTyped,
             \A c \in Callers_ : control'[c].at = "deactivating" =>
                 \/ control[c].at = "deactivating" /\ control'[c].got = control[c].got
                 \/ control'[c].got \in DOMAIN signals
      PROVE  RollbacksFound' /\ VersionsMerged'
    BY <1>c DEF VersionsMerged, RollbacksFound
<1>1. ASSUME NEW p \in Proposals, FileDraft(p) PROVE TypesHold'
    <2>1. OverlayTyped'
        BY <1>1 DEF FileDraft, OverlayTyped, Statuses, cacheVars
    <2> QED
        BY <1>1, <1>b, <1>c, <2>1 DEF FileDraft, CallsStayTyped
<1>2. ASSUME NEW a \in Admins, ValidateDraftProposals(a) PROVE TypesHold'
    <2>1. /\ CallsStayTyped /\ Others(a)
          /\ control'[a].at = "judging"
        BY <1>2, <1>a, ValidateEffect DEF NoControl
    <2>2. OverlayTyped'
        BY <1>2, <2>1 DEF ValidateDraftProposals, OverlayTyped, cacheVars, CallsStayTyped
    <2> QED
        BY <1>2, <1>c, <2>1, <2>2 DEF ValidateDraftProposals, Others
<1>3. ASSUME NEW a \in Admins, WriteVerdict(a) PROVE TypesHold'
    <2>1. /\ CallsStayTyped /\ Others(a) /\ control'[a].at # "deactivating"
          /\ proposal' \in [Proposals -> Statuses]
        <3>1. control[a] \in ControlCalls /\ proposal \in [Proposals -> Statuses]
            BY <1>a, <1>b DEF OverlayTyped
        <3>2. /\ CallsStayTyped /\ Others(a) /\ control[a].at = "judging"
            BY <1>3, <1>a, VerdictEffect
        <3>3. PICK p \in control[a].batch :
                 /\ proposal' = [proposal EXCEPT ![p] = IF control[a].sound THEN "validated"
                                                        ELSE "validation_failed"]
                 /\ \/ control[a].batch = {p} /\ control'[a] = NoControl
                    \/ control'[a] = [control[a] EXCEPT !.batch = @ \ {p}]
            BY <1>3, <1>a, VerdictEffect
        <3>4. proposal' \in [Proposals -> Statuses]
            BY <3>1, <3>3 DEF Statuses
        <3>5. control'[a].at # "deactivating"
            BY <3>1, <3>2, <3>3 DEF NoControl, ControlCalls
        <3> QED
            BY <3>2, <3>4, <3>5
    <2>2. OverlayTyped'
        BY <1>3, <2>1 DEF WriteVerdict, OverlayTyped, cacheVars, CallsStayTyped
    <2> QED
        BY <1>3, <1>c, <2>1, <2>2 DEF WriteVerdict, Others
<1>4. ASSUME NEW a \in Admins, ApplyValidatedProposals(a) PROVE TypesHold'
    <2>1. CallsStayTyped /\ OthersMet(a) /\ control'[a].at = "replacing"
        BY <1>4, <1>a, ApplyEffect DEF NoControl
    <2>2. OverlayTyped'
        BY <1>4, <2>1 DEF ApplyValidatedProposals, OverlayTyped, cacheVars, CallsStayTyped
    <2>3. \A c \in Callers_ \ {a} : control'[c].at = control[c].at /\ control'[c].got = control[c].got
        BY <2>1, <1>a, <1>b, MetKeep
    <2> QED
        BY <1>4, <1>c, <2>1, <2>2, <2>3 DEF ApplyValidatedProposals
<1>5. ASSUME NEW a \in Admins, DeactivateVersions(a) PROVE TypesHold'
    <2>1. /\ CallsStayTyped /\ Others(a) /\ control'[a].at = "inserting"
          /\ signals' \in Seq(VersionRows) /\ Len(signals') = Len(signals)
          /\ DOMAIN signals' = DOMAIN signals
          /\ \A v \in DOMAIN signals :
                /\ signals'[v].weights = signals[v].weights
                /\ signals'[v].patterns = signals[v].patterns /\ signals'[v].of = signals[v].of
        BY <1>5, <1>a, <1>b, ReplaceEffect DEF ControlCalls
    <2>2. lastNewest' \in [SignalIds -> Nat]
        BY <1>5, NotedIsTyped DEF DeactivateVersions, OverlayTyped
    <2>3. OverlayTyped'
        BY <1>5, <2>1, <2>2 DEF DeactivateVersions, OverlayTyped, cacheVars, CallsStayTyped
    <2>4. RollbacksFound' /\ VersionsMerged'
        BY <2>1 DEF RollbacksFound, VersionsMerged, Others
    <2> QED
        BY <2>3, <2>4
<1>6. ASSUME NEW a \in Admins, InsertVersion(a) PROVE TypesHold'
    <2>1. /\ CallsStayTyped /\ Others(a) /\ control'[a].at = "marking"
        BY <1>6, <1>a, <1>b, InsertEffect DEF ControlCalls
    <2>2. lastNewest' \in [SignalIds -> Nat]
        BY <1>6, NotedIsTyped DEF InsertVersion, OverlayTyped
    <2>3. signals' \in Seq(VersionRows) /\ Len(signals') <= MaxVersions
        BY <1>6, <1>a, InsertEffect
    <2>4. OverlayTyped'
        BY <1>6, <2>1, <2>2, <2>3 DEF InsertVersion, OverlayTyped, cacheVars, CallsStayTyped
    <2>5. \A v \in DOMAIN signals : v \in DOMAIN signals' /\ signals'[v] = signals[v]
        BY <1>6, <1>a, InsertEffect
    <2>6. RollbacksFound'
        BY <2>1, <2>5 DEF RollbacksFound, Others
    <2>7. /\ DOMAIN signals' = DOMAIN signals \cup {Len(signals')}
          /\ LET row == signals'[Len(signals')]
                 merged == MergeRoutingAdjustments(row.of)
             IN  row.weights = merged.weights /\ row.patterns = merged.patterns
        BY <1>6, <1>a, InsertEffect
    <2>8. VersionsMerged'
        BY <2>5, <2>7 DEF VersionsMerged
    <2> QED
        BY <2>4, <2>6, <2>8
<1>7. ASSUME NEW a \in Admins, MarkApplied(a) PROVE TypesHold'
    <2>1. /\ CallsStayTyped /\ Others(a) /\ control'[a].at # "deactivating"
          /\ proposal' \in [Proposals -> Statuses]
          /\ cachedOverlay' \in SignalIds /\ cacheAt' \in Nat
        <3>1. control[a] \in ControlCalls /\ proposal \in [Proposals -> Statuses]
            BY <1>a, <1>b DEF OverlayTyped
        <3>2. CallsStayTyped /\ Others(a) /\ control[a].at = "marking"
            BY <1>7, <1>a, MarkEffect
        <3>3. PICK p \in control[a].batch :
                 /\ proposal' = [proposal EXCEPT ![p] = "applied"]
                 /\ \/ /\ control[a].batch = {p} /\ cachedOverlay' = 0 /\ cacheAt' = 0
                       /\ control'[a] = [control[a] EXCEPT !.at = "query", !.batch = {}, !.since = seconds]
                    \/ /\ control'[a] = [control[a] EXCEPT !.batch = @ \ {p}]
                       /\ UNCHANGED cacheVars
            BY <1>7, <1>a, MarkEffect
        <3>4. proposal' \in [Proposals -> Statuses]
            BY <3>1, <3>3 DEF Statuses
        <3>5. control'[a].at # "deactivating"
            BY <3>1, <3>2, <3>3 DEF ControlCalls
        <3>6. cachedOverlay' \in SignalIds /\ cacheAt' \in Nat
            BY <1>a, <3>3 DEF OverlayTyped, cacheVars
        <3> QED
            BY <3>2, <3>4, <3>5, <3>6
    <2>2. OverlayTyped'
        BY <1>7, <1>a, <2>1, MarkEffect DEF MarkApplied, OverlayTyped, CallsStayTyped
    <2> QED
        BY <1>7, <1>c, <2>1, <2>2 DEF MarkApplied, Others
<1>8. ASSUME NEW a \in Admins, RollbackRoutingOverlay(a) PROVE TypesHold'
    <2>1. /\ CallsStayTyped /\ OthersMet(a)
          /\ control'[a].at = "deactivating" => control'[a].got \in DOMAIN signals
          /\ cachedOverlay' \in SignalIds /\ cacheAt' \in Nat /\ UNCHANGED cachedSnapshot
        BY <1>8, <1>a, RollbackEffect DEF OverlayTyped
    <2>2. OverlayTyped'
        BY <1>8, <2>1 DEF RollbackRoutingOverlay, OverlayTyped, CallsStayTyped
    <2>3. \A c \in Callers_ \ {a} : control'[c].at = control[c].at /\ control'[c].got = control[c].got
        BY <2>1, <1>a, <1>b, MetKeep
    <2> QED
        BY <1>8, <1>c, <2>1, <2>2, <2>3 DEF RollbackRoutingOverlay
<1>9. ASSUME NEW a \in Admins, DeactivateNewest(a) PROVE TypesHold'
    <2>1. /\ CallsStayTyped /\ Others(a) /\ control'[a].at = "query"
          /\ signals' \in Seq(VersionRows) /\ Len(signals') = Len(signals)
          /\ DOMAIN signals' = DOMAIN signals
          /\ cachedOverlay' = 0 /\ cacheAt' = 0 /\ UNCHANGED <<cachedSnapshot, undisturbed>>
        <3>1. control[a] \in ControlCalls
            BY <1>a, <1>b
        <3>2. /\ CallsStayTyped /\ Others(a)
              /\ control'[a] = [control[a] EXCEPT !.at = "query", !.batch = {}, !.since = seconds]
              /\ signals' \in Seq(VersionRows) /\ Len(signals') = Len(signals)
              /\ DOMAIN signals' = DOMAIN signals
              /\ cachedOverlay' = 0 /\ cacheAt' = 0 /\ UNCHANGED <<cachedSnapshot, undisturbed>>
            BY <1>9, <1>a, DeactivateEffect
        <3> QED
            BY <3>1, <3>2 DEF ControlCalls
    <2>2. \A v \in DOMAIN signals :
                /\ signals'[v].weights = signals[v].weights
                /\ signals'[v].patterns = signals[v].patterns /\ signals'[v].of = signals[v].of
        BY <1>9, <1>a, DeactivateEffect
    <2>3. lastNewest' \in [SignalIds -> Nat]
        BY <1>9, NotedIsTyped DEF DeactivateNewest, OverlayTyped
    <2>4. OverlayTyped'
        BY <1>9, <1>a, <2>1, <2>3 DEF DeactivateNewest, OverlayTyped, CallsStayTyped
    <2>5. RollbacksFound' /\ VersionsMerged'
        BY <2>1, <2>2 DEF RollbacksFound, VersionsMerged, Others
    <2> QED
        BY <2>4, <2>5
<1>10. ASSUME NEW c \in Callers_, QueryOverlay(c) PROVE TypesHold'
    <2>1. CallsStayTyped /\ Others(c) /\ control'[c].at = "answered"
        BY <1>10, <1>b, QueryEffect DEF ControlCalls
    <2>2. OverlayTyped'
        BY <1>10, <2>1 DEF QueryOverlay, OverlayTyped, CallsStayTyped, cacheVars
    <2> QED
        BY <1>10, <1>c, <2>1, <2>2 DEF QueryOverlay, Others
<1>11. ASSUME NEW c \in Callers_, StoreSnapshot(c) PROVE TypesHold'
    <2>1. CallsStayTyped /\ Others(c) /\ control'[c].at = "idle"
        BY <1>11, StoreEffect DEF NoControl
    <2>2. control[c] \in ControlCalls
        BY <1>b
    <2>3. OverlayTyped'
        BY <1>11, <2>1, <2>2 DEF StoreSnapshot, OverlayTyped, CallsStayTyped, ControlCalls
    <2> QED
        BY <1>11, <1>c, <2>1, <2>3 DEF StoreSnapshot, Others
<1>v. ASSUME UNCHANGED <<signals, control>> PROVE RollbacksFound' /\ VersionsMerged'
    BY <1>v DEF RollbacksFound, VersionsMerged
<1>12. ASSUME NEW w \in Viewers, GetRoutingOverlay(w) PROVE TypesHold'
    <2>1. viewing' \in [Viewers -> ViewCalls]
        BY <1>12, <1>a, <1>b DEF GetRoutingOverlay, ViewCalls, OverlayTyped
    <2>2. OverlayTyped'
        BY <1>12, <2>1 DEF GetRoutingOverlay, OverlayTyped, cacheVars
    <2> QED
        BY <1>12, <1>v, <2>2 DEF GetRoutingOverlay
<1>13. ASSUME NEW w \in Viewers, ViewQuery(w) PROVE TypesHold'
    <2>1. PICK v \in NewestOf(signals) :
            viewing' = [viewing EXCEPT ![w].at = "answered", ![w].got = v]
        BY <1>13 DEF ViewQuery
    <2>2. v \in SignalIds
        BY NewestIsThere, ControlAssumption DEF OverlayTyped, SignalIds
    <2>3. viewing' \in [Viewers -> ViewCalls]
        BY <2>1, <2>2, <1>b DEF ViewCalls
    <2>4. OverlayTyped'
        BY <1>13, <2>3 DEF ViewQuery, OverlayTyped, cacheVars
    <2> QED
        BY <1>13, <1>v, <2>4 DEF ViewQuery
<1>14. ASSUME NEW w \in Viewers, ViewStore(w) PROVE TypesHold'
    <2>1. viewing' \in [Viewers -> ViewCalls] /\ viewing[w] \in ViewCalls
        BY <1>14, <1>b DEF ViewStore, ViewCalls
    <2>2. cachedOverlay' \in SignalIds /\ cacheAt' \in Nat
        BY <1>14, <2>1 DEF ViewStore, ViewCalls
    <2>3. OverlayTyped'
        BY <1>14, <2>1, <2>2 DEF ViewStore, OverlayTyped
    <2> QED
        BY <1>14, <1>v, <2>3 DEF ViewStore
<1>15. ASSUME SecondPasses PROVE TypesHold'
    <2>1. seconds' \in Nat /\ lastNewest' \in [SignalIds -> Nat]
        BY <1>15, NotedIsTyped DEF SecondPasses, OverlayTyped
    <2>2. OverlayTyped'
        BY <1>15, <2>1 DEF SecondPasses, OverlayTyped, cacheVars
    <2> QED
        BY <1>15, <1>v, <2>2 DEF SecondPasses
<1>16. ASSUME StartAgain PROVE TypesHold'
    <2>1. CallsStayTyped /\ \A c \in Callers_ : control'[c].at # "deactivating"
        <3>1. StartReads.at = "query" /\ NoControl.at = "idle"
            BY DEF StartReads, NoControl
        <3> QED
            BY <1>16, <3>1, StartEffect
    <2>2. viewing' \in [Viewers -> ViewCalls]
        BY <1>16, <1>a DEF StartAgain, NoView, ViewCalls
    <2>3. starts' \in Nat /\ inTurn' \in BOOLEAN
        BY <1>16 DEF StartAgain, OverlayTyped, UnderWay
    <2>4. OverlayTyped'
        BY <1>16, <1>a, <2>1, <2>2, <2>3 DEF StartAgain, OverlayTyped, CallsStayTyped
    <2> QED
        BY <1>16, <1>c, <2>1, <2>4 DEF StartAgain
<1> QED
    BY <1>1, <1>2, <1>3, <1>4, <1>5, <1>6, <1>7, <1>8, <1>9, <1>10, <1>11, <1>12, <1>13, <1>14,
       <1>15, <1>16 DEF OverlayNext

-----------------------------------------------------------------------------
\* A call that goes on, or one that changes no version, disturbs no answer.
LEMMA SteadyKeeps ==
    ASSUME SnapshotFits, NEW a \in Callers_, Others(a), Changes_(a)' <=> Changes_(a),
           Changes_(a) => control'[a].alone = control[a].alone,
           UNCHANGED <<cachedSnapshot, undisturbed>>, UNCHANGED signals \/ Changes_(a),
           control'[a].at = "answered" /\ control'[a].alone => control'[a].got \in NewestOf(signals')
    PROVE  SnapshotFits'
<1>1. \A c \in Callers_ : /\ Changes_(c)' <=> Changes_(c)
                          /\ Changes_(c) => control'[c].alone = control[c].alone
    BY DEF Others, Changes_
<1>2. \A c \in Callers_ : (Changes_(c) /\ control[c].alone => \A d \in Callers_ \ {c} : ~Changes_(d))'
    BY <1>1 DEF SnapshotFits
<1>3. ASSUME NEW c \in Callers_, control'[c].at = "answered", control'[c].alone
      PROVE  control'[c].got \in NewestOf(signals')
    <2>1. CASE c = a
        BY <1>3, <2>1
    <2>2. CASE c # a
        <3>1. control'[c] = control[c] /\ Changes_(c) /\ control[c].alone
            BY <1>3, <2>2 DEF Others, Changes_, Changing
        <3>2. ~Changes_(a) /\ control[c].got \in NewestOf(signals)
            BY <1>3, <2>2, <3>1 DEF SnapshotFits
        <3> QED
            BY <3>1, <3>2
    <2> QED
        BY <2>1, <2>2
<1>4. (undisturbed /\ (\A c \in Callers_ : ~Changes_(c)) => cachedSnapshot \in NewestOf(signals))'
    BY <1>1 DEF SnapshotFits
<1> QED
    BY <1>2, <1>3, <1>4 DEF SnapshotFits

\* One that comes notes whom it meets.
LEMMA EnteringKeeps ==
    ASSUME SnapshotFits, control \in [Callers_ -> ControlCalls], NEW a \in Callers_, OthersMet(a),
           control[a].at = "idle", control'[a].at \in Changing \ {"answered"},
           control'[a].alone = \A d \in Callers_ : ~Changes_(d)
    PROVE  SnapshotFits'
<1>1. \A c \in Callers_ \ {a} :
         /\ Changes_(c)' <=> Changes_(c)
         /\ Changes_(c) => ~control'[c].alone
         /\ control'[c].at = "answered" => ~control'[c].alone
    BY MetKeep DEF Changes_, Changing
<1>2. Changes_(a)'
    BY DEF Changes_
<1>3. \A c \in Callers_ : (Changes_(c) /\ control[c].alone => \A d \in Callers_ \ {c} : ~Changes_(d))'
    BY <1>1
<1>4. \A c \in Callers_ : control'[c].at = "answered" => ~control'[c].alone
    BY <1>1
<1> QED
    BY <1>2, <1>3, <1>4 DEF SnapshotFits

LEMMA SnapshotKept ==
    ASSUME TypesHold, SnapshotFits, OverlayNext
    PROVE  SnapshotFits'
<1> USE DEF TypesHold
<1>a. Admins \subseteq Callers_
    BY DEF Callers_
<1>b. control \in [Callers_ -> ControlCalls]
    BY DEF OverlayTyped
<1>c. ASSUME UNCHANGED <<signals, control, cachedSnapshot, undisturbed>>
      PROVE  SnapshotFits'
    BY <1>c DEF SnapshotFits, Changes_
<1>1. ASSUME NEW a \in Admins, ValidateDraftProposals(a) PROVE SnapshotFits'
    <2>1. a \in Callers_ /\ Others(a) /\ ~Changes_(a) /\ ~Changes_(a)' /\ control'[a].at = "judging"
        BY <1>1, <1>a, ValidateEffect DEF NoControl, Changes_, Changing
    <2> QED
        BY <1>1, <2>1, SteadyKeeps DEF ValidateDraftProposals, cacheVars
<1>2. ASSUME NEW a \in Admins, WriteVerdict(a) PROVE SnapshotFits'
    <2>1. a \in Callers_ /\ Others(a) /\ control[a].at = "judging" /\ control[a] \in ControlCalls
        BY <1>2, <1>a, <1>b, VerdictEffect
    <2>2. control'[a] = NoControl \/ \E p \in control[a].batch : control'[a] = [control[a] EXCEPT !.batch = @ \ {p}]
        BY <1>2, <1>a, VerdictEffect
    <2>3. control'[a].at \in {"idle", "judging"}
        <3>1. CASE control'[a] = NoControl
            BY <3>1 DEF NoControl
        <3>2. CASE \E p \in control[a].batch : control'[a] = [control[a] EXCEPT !.batch = @ \ {p}]
            BY <2>1, <3>2 DEF ControlCalls
        <3> QED
            BY <2>2, <3>1, <3>2
    <2>4. ~Changes_(a) /\ ~Changes_(a)' /\ control'[a].at # "answered"
        BY <2>1, <2>3 DEF Changes_, Changing
    <2> QED
        BY <1>2, <2>1, <2>4, SteadyKeeps DEF WriteVerdict, cacheVars
<1>3. ASSUME NEW a \in Admins, ApplyValidatedProposals(a) PROVE SnapshotFits'
    <2>1. /\ a \in Callers_ /\ OthersMet(a) /\ control[a].at = "idle" /\ control'[a].at = "replacing"
          /\ control'[a].alone = \A d \in Callers_ : ~Changes_(d)
        BY <1>3, <1>a, ApplyEffect DEF NoControl
    <2> QED
        BY <2>1, <1>b, EnteringKeeps DEF Changing
<1>4. ASSUME NEW a \in Admins, DeactivateVersions(a) PROVE SnapshotFits'
    <2>1. /\ a \in Callers_ /\ Others(a) /\ control[a].at = "replacing" /\ control[a] \in ControlCalls
          /\ control'[a] = [control[a] EXCEPT !.at = "inserting"]
        BY <1>4, <1>a, <1>b, ReplaceEffect
    <2>2. /\ control'[a].at = "inserting" /\ control'[a].alone = control[a].alone
          /\ Changes_(a) /\ Changes_(a)'
        BY <2>1 DEF ControlCalls, Changes_, Changing
    <2> QED
        BY <1>4, <2>1, <2>2, SteadyKeeps DEF DeactivateVersions, cacheVars
<1>5. ASSUME NEW a \in Admins, InsertVersion(a) PROVE SnapshotFits'
    <2>1. /\ a \in Callers_ /\ Others(a) /\ control[a].at = "inserting" /\ control[a] \in ControlCalls
          /\ control'[a] = [control[a] EXCEPT !.at = "marking"]
        BY <1>5, <1>a, <1>b, InsertEffect
    <2>2. /\ control'[a].at = "marking" /\ control'[a].alone = control[a].alone
          /\ Changes_(a) /\ Changes_(a)'
        BY <2>1 DEF ControlCalls, Changes_, Changing
    <2> QED
        BY <1>5, <2>1, <2>2, SteadyKeeps DEF InsertVersion, cacheVars
<1>6. ASSUME NEW a \in Admins, MarkApplied(a) PROVE SnapshotFits'
    <2>1. /\ a \in Callers_ /\ Others(a) /\ control[a].at = "marking" /\ control[a] \in ControlCalls
          /\ UNCHANGED <<cachedSnapshot, undisturbed>>
        BY <1>6, <1>a, <1>b, MarkEffect
    <2>2. \E p \in control[a].batch :
            \/ control'[a] = [control[a] EXCEPT !.at = "query", !.batch = {}, !.since = seconds]
            \/ control'[a] = [control[a] EXCEPT !.batch = @ \ {p}]
        BY <1>6, <1>a, MarkEffect
    <2>3. control'[a].at \in {"query", "marking"} /\ control'[a].alone = control[a].alone
        BY <2>1, <2>2 DEF ControlCalls
    <2>4. Changes_(a) /\ Changes_(a)' /\ control'[a].at # "answered"
        BY <2>1, <2>3 DEF Changes_, Changing
    <2> QED
        BY <1>6, <2>1, <2>3, <2>4, SteadyKeeps DEF MarkApplied
<1>7. ASSUME NEW a \in Admins, RollbackRoutingOverlay(a) PROVE SnapshotFits'
    <2>1. /\ a \in Callers_ /\ OthersMet(a) /\ control[a].at = "idle"
          /\ control'[a].at \in {"query", "deactivating"}
          /\ control'[a].alone = \A d \in Callers_ : ~Changes_(d)
        BY <1>7, <1>a, RollbackEffect
    <2> QED
        BY <2>1, <1>b, EnteringKeeps DEF Changing
<1>8. ASSUME NEW a \in Admins, DeactivateNewest(a) PROVE SnapshotFits'
    <2>1. /\ a \in Callers_ /\ Others(a) /\ control[a].at = "deactivating" /\ control[a] \in ControlCalls
          /\ control'[a] = [control[a] EXCEPT !.at = "query", !.batch = {}, !.since = seconds]
          /\ UNCHANGED <<cachedSnapshot, undisturbed>>
        BY <1>8, <1>a, <1>b, DeactivateEffect
    <2>2. control'[a].at = "query" /\ control'[a].alone = control[a].alone
        BY <2>1 DEF ControlCalls
    <2>3. Changes_(a) /\ Changes_(a)'
        BY <2>1, <2>2 DEF Changes_, Changing
    <2> QED
        BY <2>1, <2>2, <2>3, SteadyKeeps
<1>9. ASSUME NEW c \in Callers_, QueryOverlay(c) PROVE SnapshotFits'
    <2>1. Others(c) /\ control[c].at = "query" /\ control[c] \in ControlCalls
        BY <1>9, <1>b, QueryEffect
    <2>2. PICK v \in NewestOf(signals) :
            v \in SignalIds /\ control'[c] = [control[c] EXCEPT !.at = "answered", !.got = v]
        BY <1>9, QueryEffect
    <2>3. control'[c].at = "answered" /\ control'[c].alone = control[c].alone /\ control'[c].got = v
        BY <2>1, <2>2 DEF ControlCalls
    <2>4. Changes_(c) /\ Changes_(c)'
        BY <2>1, <2>3 DEF Changes_, Changing
    <2> QED
        BY <1>9, <2>1, <2>2, <2>3, <2>4, SteadyKeeps DEF QueryOverlay, cacheVars
<1>10. ASSUME NEW c \in Callers_, StoreSnapshot(c) PROVE SnapshotFits'
    <2>1. Others(c) /\ control[c].at = "answered" /\ control'[c].at = "idle" /\ ~Changes_(c)'
        BY <1>10, StoreEffect DEF NoControl, Changes_, Changing
    <2>2. \A d \in Callers_ \ {c} : control'[d] = control[d] /\ (Changes_(d)' <=> Changes_(d))
        BY <2>1 DEF Others, Changes_
    <2>3. UNCHANGED signals /\ cachedSnapshot' = control[c].got /\ undisturbed' = control[c].alone
        BY <1>10 DEF StoreSnapshot
    <2>4. undisturbed' => cachedSnapshot' \in NewestOf(signals')
        BY <2>1, <2>3 DEF SnapshotFits
    <2>5. \A d \in Callers_ : (Changes_(d) /\ control[d].alone => \A e \in Callers_ \ {d} : ~Changes_(e))'
        BY <2>1, <2>2 DEF SnapshotFits
    <2>6. \A d \in Callers_ : control'[d].at = "answered" /\ control'[d].alone
                                 => control'[d].got \in NewestOf(signals')
        BY <2>1, <2>2, <2>3 DEF SnapshotFits
    <2> QED
        BY <2>4, <2>5, <2>6 DEF SnapshotFits
<1>11. ASSUME StartAgain PROVE SnapshotFits'
    <2>1. StartReads.at = "query" /\ NoControl.at = "idle"
        BY DEF StartReads, NoControl
    <2>2. \A c \in Callers_ : (c # "server" => ~Changes_(c)') /\ control'[c].at # "answered"
        BY <1>11, <2>1, StartEffect DEF Changes_, Changing
    <2>3. ~undisturbed'
        BY <1>11 DEF StartAgain
    <2> QED
        BY <2>2, <2>3 DEF SnapshotFits
<1>12. ASSUME NEW p \in Proposals, FileDraft(p) PROVE SnapshotFits'
    BY <1>12, <1>c DEF FileDraft, cacheVars
<1>13. ASSUME NEW w \in Viewers, GetRoutingOverlay(w) \/ ViewQuery(w) \/ ViewStore(w) PROVE SnapshotFits'
    BY <1>13, <1>c DEF GetRoutingOverlay, ViewQuery, ViewStore, cacheVars
<1>14. ASSUME SecondPasses PROVE SnapshotFits'
    BY <1>14, <1>c DEF SecondPasses, cacheVars
<1> QED
    BY <1>1, <1>2, <1>3, <1>4, <1>5, <1>6, <1>7, <1>8, <1>9, <1>10, <1>11, <1>12, <1>13, <1>14
       DEF OverlayNext

LEMMA MarksKept ==
    ASSUME TypesHold, MarksFit, OverlayNext
    PROVE  MarksFit'
<1> USE DEF TypesHold
<1>a. Admins \subseteq Callers_
    BY DEF Callers_
<1>b. control \in [Callers_ -> ControlCalls] /\ proposal \in [Proposals -> Statuses]
    BY DEF OverlayTyped
\* The versions are kept or added to, nothing is marked, and no call comes to mark.
<1>c. ASSUME \A v \in DOMAIN signals : v \in DOMAIN signals' /\ signals'[v].of = signals[v].of,
             \A p \in Proposals : proposal'[p] = "applied" => proposal[p] = "applied",
             \A c \in Callers_ : control'[c].at = "marking" =>
                 \/ control[c].at = "marking" /\ control'[c].batch = control[c].batch
                 \/ \E v \in DOMAIN signals' : control'[c].batch \subseteq signals'[v].of
      PROVE  MarksFit'
    BY <1>c DEF MarksFit, AppliedHasVersion, Having
<1>1. ASSUME NEW p \in Proposals, FileDraft(p) PROVE MarksFit'
    BY <1>1, <1>b, <1>c DEF FileDraft
<1>2. ASSUME NEW a \in Admins, ValidateDraftProposals(a) PROVE MarksFit'
    BY <1>2, <1>a, <1>c, ValidateEffect DEF ValidateDraftProposals, NoControl, Others
<1>3. ASSUME NEW a \in Admins, WriteVerdict(a) PROVE MarksFit'
    <2>1. /\ a \in Callers_ /\ Others(a) /\ control[a].at = "judging" /\ control[a] \in ControlCalls
        BY <1>3, <1>a, <1>b, VerdictEffect
    <2>2. PICK p \in control[a].batch :
             /\ proposal' = [proposal EXCEPT ![p] = IF control[a].sound THEN "validated"
                                                    ELSE "validation_failed"]
             /\ \/ control[a].batch = {p} /\ control'[a] = NoControl
                \/ control'[a] = [control[a] EXCEPT !.batch = @ \ {p}]
        BY <1>3, <1>a, VerdictEffect
    <2>3. control'[a].at # "marking"
        BY <2>1, <2>2 DEF NoControl, ControlCalls
    <2>4. \A q \in Proposals : proposal'[q] = "applied" => proposal[q] = "applied"
        BY <2>2, <1>b
    <2> QED
        BY <1>3, <1>c, <2>1, <2>3, <2>4 DEF WriteVerdict, Others
<1>4. ASSUME NEW a \in Admins, ApplyValidatedProposals(a) PROVE MarksFit'
    <2>1. control'[a].at = "replacing" /\ OthersMet(a)
        BY <1>4, <1>a, ApplyEffect DEF NoControl
    <2> QED
        BY <1>4, <1>a, <1>b, <1>c, <2>1, MetKeep DEF ApplyValidatedProposals
<1>5. ASSUME NEW a \in Admins, DeactivateVersions(a) PROVE MarksFit'
    <2>1. /\ Others(a) /\ control'[a] = [control[a] EXCEPT !.at = "inserting"] /\ control[a] \in ControlCalls
          /\ \A v \in DOMAIN signals : v \in DOMAIN signals' /\ signals'[v].of = signals[v].of
        BY <1>5, <1>a, <1>b, ReplaceEffect
    <2>2. control'[a].at = "inserting"
        BY <2>1 DEF ControlCalls
    <2> QED
        BY <1>5, <1>c, <2>1, <2>2 DEF DeactivateVersions, Others
<1>6. ASSUME NEW a \in Admins, InsertVersion(a) PROVE MarksFit'
    <2>1. /\ Others(a) /\ control'[a] = [control[a] EXCEPT !.at = "marking"] /\ control[a] \in ControlCalls
          /\ \A v \in DOMAIN signals : v \in DOMAIN signals' /\ signals'[v] = signals[v]
        BY <1>6, <1>a, <1>b, InsertEffect
    <2>2. Len(signals') \in DOMAIN signals' /\ signals'[Len(signals')].of = control[a].batch
        BY <1>6, <1>a, InsertEffect
    <2>3. control'[a].batch = control[a].batch
        BY <2>1 DEF ControlCalls
    <2> QED
        BY <1>6, <1>c, <2>1, <2>2, <2>3 DEF InsertVersion, Others
<1>7. ASSUME NEW a \in Admins, MarkApplied(a) PROVE MarksFit'
    <2>1. /\ a \in Callers_ /\ Others(a) /\ control[a].at = "marking" /\ control[a] \in ControlCalls
        BY <1>7, <1>a, <1>b, MarkEffect
    <2>2. PICK p \in control[a].batch :
             /\ proposal' = [proposal EXCEPT ![p] = "applied"]
             /\ \/ control'[a] = [control[a] EXCEPT !.at = "query", !.batch = {}, !.since = seconds]
                \/ control'[a] = [control[a] EXCEPT !.batch = @ \ {p}]
        BY <1>7, <1>a, MarkEffect
    <2>3. PICK v \in DOMAIN signals : control[a].batch \subseteq signals[v].of
        BY <2>1 DEF MarksFit
    <2>4. control'[a].at = "marking" => control'[a].batch \subseteq signals[v].of
        BY <2>1, <2>2, <2>3 DEF ControlCalls
    <2>5. UNCHANGED signals
        BY <1>7 DEF MarkApplied
    <2>6. \A q \in Proposals : proposal'[q] = "applied" => proposal[q] = "applied" \/ q = p
        BY <2>2, <1>b
    <2>7. AppliedHasVersion'
        BY <2>2, <2>3, <2>5, <2>6 DEF MarksFit, AppliedHasVersion, Having
    <2>8. \A c \in Callers_ : control'[c].at = "marking" =>
              \E u \in DOMAIN signals' : control'[c].batch \subseteq signals'[u].of
        BY <2>1, <2>4, <2>5 DEF MarksFit, Others
    <2> QED
        BY <2>7, <2>8 DEF MarksFit
<1>8. ASSUME NEW a \in Admins, RollbackRoutingOverlay(a) PROVE MarksFit'
    <2>1. control'[a].at # "marking" /\ OthersMet(a)
        BY <1>8, <1>a, RollbackEffect
    <2> QED
        BY <1>8, <1>a, <1>b, <1>c, <2>1, MetKeep DEF RollbackRoutingOverlay
<1>9. ASSUME NEW a \in Admins, DeactivateNewest(a) PROVE MarksFit'
    <2>1. /\ Others(a) /\ control[a] \in ControlCalls
          /\ control'[a] = [control[a] EXCEPT !.at = "query", !.batch = {}, !.since = seconds]
          /\ \A v \in DOMAIN signals : v \in DOMAIN signals' /\ signals'[v].of = signals[v].of
        BY <1>9, <1>a, <1>b, DeactivateEffect
    <2>2. control'[a].at = "query"
        BY <2>1 DEF ControlCalls
    <2> QED
        BY <1>9, <1>c, <2>1, <2>2 DEF DeactivateNewest, Others
<1>10. ASSUME NEW c \in Callers_, QueryOverlay(c) PROVE MarksFit'
    <2>1. Others(c) /\ control[c] \in ControlCalls
          /\ \E v \in NewestOf(signals) : control'[c] = [control[c] EXCEPT !.at = "answered", !.got = v]
        BY <1>10, <1>b, QueryEffect
    <2>2. control'[c].at = "answered"
        BY <2>1 DEF ControlCalls
    <2> QED
        BY <1>10, <1>c, <2>1, <2>2 DEF QueryOverlay, Others
<1>11. ASSUME NEW c \in Callers_, StoreSnapshot(c) PROVE MarksFit'
    BY <1>11, <1>c, StoreEffect DEF StoreSnapshot, Others, NoControl
<1>12. ASSUME StartAgain PROVE MarksFit'
    <2>1. StartReads.at = "query" /\ NoControl.at = "idle"
        BY DEF StartReads, NoControl
    <2> QED
        BY <1>12, <1>c, <2>1, StartEffect DEF StartAgain
<1>13. ASSUME NEW w \in Viewers, GetRoutingOverlay(w) \/ ViewQuery(w) \/ ViewStore(w) PROVE MarksFit'
    BY <1>13, <1>c DEF GetRoutingOverlay, ViewQuery, ViewStore
<1>14. ASSUME SecondPasses PROVE MarksFit'
    BY <1>14, <1>c DEF SecondPasses
<1> QED
    BY <1>1, <1>2, <1>3, <1>4, <1>5, <1>6, <1>7, <1>8, <1>9, <1>10, <1>11, <1>12, <1>13, <1>14
       DEF OverlayNext

-----------------------------------------------------------------------------
LEMMA NotedTimes ==
    ASSUME OverlayTyped, TimesFit, NEW rows, rows \in Seq(VersionRows), Len(rows) <= MaxVersions,
           NEW time \in Nat, seconds <= time, NotesNewest(rows, time)
    PROVE  /\ \A v \in SignalIds : lastNewest[v] <= lastNewest'[v] /\ lastNewest'[v] <= time
           /\ \A v \in NewestOf(rows) : lastNewest'[v] = time
<1>1. \A v \in SignalIds : lastNewest[v] \in Nat /\ lastNewest[v] <= seconds /\ seconds \in Nat
    BY DEF OverlayTyped, TimesFit
<1>2. \A v \in SignalIds : lastNewest'[v] = IF v \in NewestOf(rows) THEN time ELSE lastNewest[v]
    BY DEF NotesNewest
<1>3. \A v \in NewestOf(rows) : v \in SignalIds
    BY NewestIsThere, ControlAssumption DEF SignalIds
<1> QED
    BY <1>1, <1>2, <1>3

\* What is known of the answers stays true when versions are noted later.
LEMMA TimesPass ==
    ASSUME OverlayTyped, OverlayTyped', TimesFit, seconds <= seconds',
           \A v \in SignalIds : lastNewest[v] <= lastNewest'[v] /\ lastNewest'[v] <= seconds',
           \A v \in NewestOf(signals') : lastNewest'[v] = seconds',
           \A c \in Callers_ : \/ control'[c].at = control[c].at /\ control'[c].since = control[c].since
                                  /\ control'[c].got = control[c].got
                               \/ control'[c].since <= seconds' /\ control'[c].at # "answered"
                               \/ control'[c].since <= seconds' /\ control'[c].since <= lastNewest'[control'[c].got],
           \A w \in Viewers : \/ viewing'[w] = viewing[w]
                              \/ /\ viewing'[w].since <= seconds'
                                 /\ viewing'[w].at = "answered"
                                       => viewing'[w].since <= lastNewest'[viewing'[w].got]
                                 /\ viewing'[w].at = "done"
                                       => lastNewest'[viewing'[w].got] > viewing'[w].since - CacheTTL,
           \/ UNCHANGED <<cachedOverlay, cacheAt>>
           \/ cachedOverlay' # 0 => cacheAt' <= lastNewest'[cachedOverlay']
    PROVE  TimesFit'
<1>a. seconds \in Nat /\ seconds' \in Nat /\ CacheTTL \in Nat
    BY ControlAssumption DEF OverlayTyped
<1>b. \A v \in SignalIds : lastNewest[v] \in Nat /\ lastNewest'[v] \in Nat
    BY DEF OverlayTyped
<1>1. ASSUME NEW c \in Callers_
      PROVE  /\ control'[c].since <= seconds'
             /\ control'[c].at = "answered" => control'[c].since <= lastNewest'[control'[c].got]
    <2>1. control[c].since \in Nat /\ control'[c].since \in Nat /\ control[c].got \in SignalIds /\ control'[c].got \in SignalIds
        BY DEF OverlayTyped, ControlCalls
    <2>2. control[c].since <= seconds
          /\ (control[c].at = "answered" => control[c].since <= lastNewest[control[c].got])
        BY DEF TimesFit
    <2> QED
        BY <1>a, <1>b, <2>1, <2>2
<1>2. ASSUME NEW w \in Viewers
      PROVE  /\ viewing'[w].since <= seconds'
             /\ viewing'[w].at = "answered" => viewing'[w].since <= lastNewest'[viewing'[w].got]
             /\ viewing'[w].at = "done" => lastNewest'[viewing'[w].got] > viewing'[w].since - CacheTTL
    <2>1. /\ viewing[w].since \in Nat /\ viewing'[w].since \in Nat
          /\ viewing[w].got \in SignalIds /\ viewing'[w].got \in SignalIds
        BY DEF OverlayTyped, ViewCalls
    <2>2. /\ viewing[w].since <= seconds
          /\ viewing[w].at = "answered" => viewing[w].since <= lastNewest[viewing[w].got]
          /\ viewing[w].at = "done" => lastNewest[viewing[w].got] > viewing[w].since - CacheTTL
        BY DEF TimesFit, OverlayFresh
    <2> QED
        BY <1>a, <1>b, <2>1, <2>2
<1>3. cachedOverlay' # 0 => cacheAt' <= lastNewest'[cachedOverlay']
    <2>1. cachedOverlay \in SignalIds /\ cacheAt \in Nat /\ cachedOverlay' \in SignalIds /\ cacheAt' \in Nat
        BY DEF OverlayTyped
    <2>2. cachedOverlay # 0 => cacheAt <= lastNewest[cachedOverlay]
        BY DEF TimesFit
    <2> QED
        BY <1>b, <2>1, <2>2
<1>4. OverlayFresh'
    BY <1>2 DEF OverlayFresh
<1> QED
    BY <1>1, <1>2, <1>3, <1>4 DEF TimesFit

LEMMA TimesKept ==
    ASSUME TypesHold, TypesHold', TimesFit, OverlayNext
    PROVE  TimesFit'
<1> USE DEF TypesHold
<1>a. Admins \subseteq Callers_
    BY DEF Callers_
<1>b. control \in [Callers_ -> ControlCalls] /\ viewing \in [Viewers -> ViewCalls] /\ seconds \in Nat
    BY DEF OverlayTyped
<1>c. \A v \in SignalIds : lastNewest[v] \in Nat /\ lastNewest[v] <= seconds
    BY DEF OverlayTyped, TimesFit
<1>d. \A v \in NewestOf(signals) : lastNewest[v] = seconds
    BY DEF TimesFit
\* Steps that leave the time and the versions alone
<1>e. ASSUME UNCHANGED <<signals, seconds, lastNewest>>,
             \A c \in Callers_ : \/ control'[c].at = control[c].at /\ control'[c].since = control[c].since
                                    /\ control'[c].got = control[c].got
                                 \/ control'[c].since <= seconds /\ control'[c].at # "answered"
                                 \/ control'[c].since <= seconds /\ control'[c].since <= lastNewest[control'[c].got],
             \A w \in Viewers : \/ viewing'[w] = viewing[w]
                                \/ /\ viewing'[w].since <= seconds
                                   /\ viewing'[w].at = "answered"
                                         => viewing'[w].since <= lastNewest[viewing'[w].got]
                                   /\ viewing'[w].at = "done"
                                         => lastNewest[viewing'[w].got] > viewing'[w].since - CacheTTL,
             \/ UNCHANGED <<cachedOverlay, cacheAt>>
             \/ cachedOverlay' # 0 => cacheAt' <= lastNewest[cachedOverlay']
      PROVE  TimesFit'
    <2>1. seconds <= seconds' /\ \A v \in SignalIds : lastNewest[v] <= lastNewest'[v] /\ lastNewest'[v] <= seconds'
        BY <1>b, <1>c, <1>e
    <2>2. \A v \in NewestOf(signals') : lastNewest'[v] = seconds'
        BY <1>d, <1>e
    <2> QED
        BY <1>e, <2>1, <2>2, TimesPass
\* Steps that change the versions
<1>f. ASSUME UNCHANGED <<seconds, viewing>>, NotesNewest(signals', seconds),
             NEW a \in Callers_, Others(a), control'[a].since <= seconds, control'[a].at # "answered",
             UNCHANGED <<cachedOverlay, cacheAt>> \/ cachedOverlay' = 0
      PROVE  TimesFit'
    <2>1. signals' \in Seq(VersionRows) /\ Len(signals') <= MaxVersions
        BY DEF OverlayTyped
    <2>2. /\ \A v \in SignalIds : lastNewest[v] <= lastNewest'[v] /\ lastNewest'[v] <= seconds'
          /\ \A v \in NewestOf(signals') : lastNewest'[v] = seconds'
        BY <1>b, <1>f, <2>1, NotedTimes
    <2>3. \A c \in Callers_ :
             \/ control'[c].at = control[c].at /\ control'[c].since = control[c].since
                /\ control'[c].got = control[c].got
             \/ control'[c].since <= seconds' /\ control'[c].at # "answered"
        BY <1>f DEF Others
    <2> QED
        BY <1>b, <1>f, <2>2, <2>3, TimesPass
<1>g. \A c \in Callers_ : control[c] \in ControlCalls /\ control[c].since <= seconds
    BY <1>b DEF TimesFit
<1>1. ASSUME NEW p \in Proposals, FileDraft(p) PROVE TimesFit'
    BY <1>1, <1>e DEF FileDraft, cacheVars
<1>2. ASSUME NEW a \in Admins, ValidateDraftProposals(a) PROVE TimesFit'
    <2>1. Others(a) /\ control'[a].at = "judging" /\ control'[a].since = 0
        BY <1>2, <1>a, ValidateEffect DEF NoControl
    <2>2. control'[a].since <= seconds
        BY <1>b, <2>1
    <2> QED
        BY <1>2, <1>e, <2>1, <2>2 DEF ValidateDraftProposals, Others, cacheVars
<1>3. ASSUME NEW a \in Admins, WriteVerdict(a) PROVE TimesFit'
    <2>1. /\ a \in Callers_ /\ Others(a) /\ control[a].at = "judging" /\ control[a] \in ControlCalls
        BY <1>3, <1>a, <1>b, VerdictEffect
    <2>2. control'[a] = NoControl \/ \E p \in control[a].batch : control'[a] = [control[a] EXCEPT !.batch = @ \ {p}]
        BY <1>3, <1>a, VerdictEffect
    <2>3. control'[a].at # "answered" /\ control'[a].since <= seconds
        <3>1. CASE control'[a] = NoControl
            BY <1>b, <3>1 DEF NoControl
        <3>2. CASE \E p \in control[a].batch : control'[a] = [control[a] EXCEPT !.batch = @ \ {p}]
            BY <1>a, <1>g, <2>1, <3>2 DEF ControlCalls
        <3> QED
            BY <2>2, <3>1, <3>2
    <2> QED
        BY <1>3, <1>e, <2>1, <2>3 DEF WriteVerdict, Others, cacheVars
<1>4. ASSUME NEW a \in Admins, ApplyValidatedProposals(a) PROVE TimesFit'
    <2>1. control'[a].at = "replacing" /\ control'[a].since = 0 /\ OthersMet(a)
        BY <1>4, <1>a, ApplyEffect DEF NoControl
    <2>2. control'[a].since <= seconds
        BY <1>b, <2>1
    <2>3. \A c \in Callers_ \ {a} : control'[c].at = control[c].at /\ control'[c].since = control[c].since
                                    /\ control'[c].got = control[c].got
        BY <1>a, <1>b, <2>1, MetKeep
    <2> QED
        BY <1>4, <1>e, <2>1, <2>2, <2>3 DEF ApplyValidatedProposals, cacheVars
<1>5. ASSUME NEW a \in Admins, DeactivateVersions(a) PROVE TimesFit'
    <2>1. Others(a) /\ control'[a] = [control[a] EXCEPT !.at = "inserting"]
        BY <1>5, <1>a, ReplaceEffect
    <2>2. control'[a].at = "inserting" /\ control'[a].since <= seconds
        BY <1>a, <1>g, <2>1 DEF ControlCalls
    <2> QED
        BY <1>5, <1>a, <1>f, <2>1, <2>2 DEF DeactivateVersions, cacheVars
<1>6. ASSUME NEW a \in Admins, InsertVersion(a) PROVE TimesFit'
    <2>1. Others(a) /\ control'[a] = [control[a] EXCEPT !.at = "marking"]
        BY <1>6, <1>a, InsertEffect
    <2>2. control'[a].at = "marking" /\ control'[a].since <= seconds
        BY <1>a, <1>g, <2>1 DEF ControlCalls
    <2> QED
        BY <1>6, <1>a, <1>f, <2>1, <2>2 DEF InsertVersion, cacheVars
<1>7. ASSUME NEW a \in Admins, MarkApplied(a) PROVE TimesFit'
    <2>1. /\ a \in Callers_ /\ Others(a) /\ control[a].at = "marking"
        BY <1>7, <1>a, MarkEffect
    <2>2. PICK p \in control[a].batch :
             \/ /\ control'[a] = [control[a] EXCEPT !.at = "query", !.batch = {}, !.since = seconds]
                /\ cachedOverlay' = 0
             \/ /\ control'[a] = [control[a] EXCEPT !.batch = @ \ {p}]
                /\ UNCHANGED cacheVars
        BY <1>7, <1>a, MarkEffect
    <2>3. control'[a].at # "answered" /\ control'[a].since <= seconds
        <3>1. control[a] \in ControlCalls /\ control[a].since <= seconds /\ seconds <= seconds
            BY <1>a, <1>b, <1>g
        <3>2. CASE control'[a] = [control[a] EXCEPT !.at = "query", !.batch = {}, !.since = seconds]
            BY <3>1, <3>2 DEF ControlCalls
        <3>3. CASE control'[a] = [control[a] EXCEPT !.batch = @ \ {p}]
            BY <2>1, <3>1, <3>3 DEF ControlCalls
        <3> QED
            BY <2>2, <3>2, <3>3
    <2>4. UNCHANGED <<cachedOverlay, cacheAt>> \/ cachedOverlay' = 0
        BY <2>2 DEF cacheVars
    <2> QED
        BY <1>7, <1>e, <2>1, <2>3, <2>4 DEF MarkApplied, Others
<1>8. ASSUME NEW a \in Admins, RollbackRoutingOverlay(a) PROVE TimesFit'
    <2>1. /\ OthersMet(a) /\ control'[a].at # "answered"
          /\ control'[a].since \in {0, seconds}
          /\ UNCHANGED <<cachedOverlay, cacheAt>> \/ cachedOverlay' = 0
        BY <1>8, <1>a, RollbackEffect
    <2>2. control'[a].since <= seconds
        BY <1>b, <2>1
    <2>3. \A c \in Callers_ \ {a} : control'[c].at = control[c].at /\ control'[c].since = control[c].since
                                    /\ control'[c].got = control[c].got
        BY <1>a, <1>b, <2>1, MetKeep
    <2> QED
        BY <1>8, <1>e, <2>1, <2>2, <2>3 DEF RollbackRoutingOverlay
<1>9. ASSUME NEW a \in Admins, DeactivateNewest(a) PROVE TimesFit'
    <2>1. /\ Others(a) /\ control'[a] = [control[a] EXCEPT !.at = "query", !.batch = {}, !.since = seconds]
          /\ cachedOverlay' = 0
        BY <1>9, <1>a, DeactivateEffect
    <2>2. control'[a].at = "query" /\ control'[a].since <= seconds
        BY <1>a, <1>b, <1>g, <2>1 DEF ControlCalls
    <2> QED
        BY <1>9, <1>a, <1>f, <2>1, <2>2 DEF DeactivateNewest
<1>10. ASSUME NEW c \in Callers_, QueryOverlay(c) PROVE TimesFit'
    <2>1. PICK v \in NewestOf(signals) :
            v \in SignalIds /\ control'[c] = [control[c] EXCEPT !.at = "answered", !.got = v]
        BY <1>10, QueryEffect
    <2>2. Others(c) /\ control'[c].got = v /\ control'[c].since = control[c].since
        BY <1>10, <1>g, <2>1, QueryEffect DEF ControlCalls
    <2>3. control'[c].since <= seconds /\ control'[c].since <= lastNewest[control'[c].got]
        BY <1>d, <1>g, <2>1, <2>2
    <2> QED
        BY <1>10, <1>e, <2>2, <2>3 DEF QueryOverlay, Others, cacheVars
<1>11. ASSUME NEW c \in Callers_, StoreSnapshot(c) PROVE TimesFit'
    <2>1. Others(c) /\ control[c].at = "answered" /\ control'[c].at = "idle" /\ control'[c].since = 0
        BY <1>11, StoreEffect DEF NoControl
    <2>2. control'[c].since <= seconds
        BY <1>b, <2>1
    <2>3. cachedOverlay' = control[c].got /\ cacheAt' = control[c].since
        BY <1>11 DEF StoreSnapshot
    <2>4. cacheAt' <= lastNewest[cachedOverlay']
        BY <2>1, <2>3 DEF TimesFit
    <2> QED
        BY <1>11, <1>e, <2>1, <2>2, <2>4 DEF StoreSnapshot, Others
<1>12. ASSUME NEW w \in Viewers, GetRoutingOverlay(w) PROVE TimesFit'
    <2>1. /\ viewing'[w] = IF cachedOverlay # 0 /\ seconds - cacheAt < CacheTTL
                            THEN [at |-> "done", since |-> seconds, got |-> cachedOverlay]
                            ELSE [at |-> "query", since |-> seconds, got |-> 0]
          /\ \A x \in Viewers \ {w} : viewing'[x] = viewing[x]
        BY <1>12, <1>b DEF GetRoutingOverlay
    <2>2. /\ viewing'[w].since <= seconds /\ viewing'[w].at # "answered"
          /\ viewing'[w].at = "done" => lastNewest[viewing'[w].got] > viewing'[w].since - CacheTTL
        <3>1. CASE cachedOverlay # 0 /\ seconds - cacheAt < CacheTTL
            <4>1. cacheAt <= lastNewest[cachedOverlay] /\ cachedOverlay \in SignalIds /\ cacheAt \in Nat
                BY <3>1 DEF TimesFit, OverlayTyped
            <4>2. viewing'[w] = [at |-> "done", since |-> seconds, got |-> cachedOverlay]
                BY <2>1, <3>1
            <4>3. lastNewest[cachedOverlay] > seconds - CacheTTL
                BY <1>b, <1>c, <3>1, <4>1, ControlAssumption
            <4> QED
                BY <1>b, <4>2, <4>3
        <3>2. CASE ~(cachedOverlay # 0 /\ seconds - cacheAt < CacheTTL)
            BY <1>b, <2>1, <3>2
        <3> QED
            BY <3>1, <3>2
    <2> QED
        BY <1>12, <1>e, <2>1, <2>2 DEF GetRoutingOverlay, cacheVars
<1>13. ASSUME NEW w \in Viewers, ViewQuery(w) PROVE TimesFit'
    <2>1. PICK v \in NewestOf(signals) :
            viewing' = [viewing EXCEPT ![w].at = "answered", ![w].got = v]
        BY <1>13 DEF ViewQuery
    <2>2. viewing[w] \in ViewCalls /\ viewing[w].since <= seconds
        BY <1>b DEF TimesFit
    <2>3. /\ viewing'[w].at = "answered" /\ viewing'[w].got = v /\ viewing'[w].since = viewing[w].since
          /\ \A x \in Viewers \ {w} : viewing'[x] = viewing[x]
        BY <1>b, <2>1, <2>2 DEF ViewCalls
    <2>4. viewing'[w].since <= seconds /\ viewing'[w].since <= lastNewest[viewing'[w].got]
        BY <1>d, <2>1, <2>2, <2>3
    <2> QED
        BY <1>13, <1>e, <2>3, <2>4 DEF ViewQuery, cacheVars
<1>14. ASSUME NEW w \in Viewers, ViewStore(w) PROVE TimesFit'
    <2>1. viewing[w] \in ViewCalls /\ viewing[w].since <= seconds /\ viewing[w].at = "answered"
        BY <1>14, <1>b DEF TimesFit, ViewStore
    <2>2. /\ viewing'[w].at = "done" /\ viewing'[w].got = viewing[w].got /\ viewing'[w].since = viewing[w].since
          /\ \A x \in Viewers \ {w} : viewing'[x] = viewing[x]
        BY <1>14, <1>b, <2>1 DEF ViewStore, ViewCalls
    <2>3. viewing[w].since <= lastNewest[viewing[w].got] /\ viewing[w].got \in SignalIds /\ viewing[w].since \in Nat
        BY <2>1 DEF TimesFit, ViewCalls
    <2>4. lastNewest[viewing[w].got] > viewing[w].since - CacheTTL
        <3>1. CacheTTL \in Nat /\ CacheTTL > 0
            BY ControlAssumption
        <3>2. lastNewest[viewing[w].got] \in Nat
            BY <1>c, <2>3
        <3> QED
            BY <2>3, <3>1, <3>2
    <2>5. cachedOverlay' = viewing[w].got /\ cacheAt' = viewing[w].since
        BY <1>14 DEF ViewStore
    <2> QED
        BY <1>14, <1>e, <2>1, <2>2, <2>3, <2>4, <2>5 DEF ViewStore
<1>15. ASSUME SecondPasses PROVE TimesFit'
    <2>1. /\ seconds' = seconds + 1 /\ NotesNewest(signals, seconds + 1)
          /\ UNCHANGED <<signals, control, viewing, cachedOverlay, cacheAt>>
        BY <1>15 DEF SecondPasses, cacheVars
    <2>2. signals \in Seq(VersionRows) /\ Len(signals) <= MaxVersions /\ seconds + 1 \in Nat /\ seconds <= seconds + 1
        BY <1>b DEF OverlayTyped
    <2>3. /\ \A v \in SignalIds : lastNewest[v] <= lastNewest'[v] /\ lastNewest'[v] <= seconds + 1
          /\ \A v \in NewestOf(signals) : lastNewest'[v] = seconds + 1
        BY <2>1, <2>2, NotedTimes
    <2> QED
        BY <2>1, <2>2, <2>3, TimesPass
<1>16. ASSUME StartAgain PROVE TimesFit'
    <2>1. StartReads.at = "query" /\ NoControl.at = "idle" /\ StartReads.since = seconds /\ NoControl.since = 0
        BY DEF StartReads, NoControl
    <2>2. \A c \in Callers_ : control'[c].since <= seconds /\ control'[c].at # "answered"
        BY <1>16, <1>b, <2>1, StartEffect
    <2>3. \A w \in Viewers : viewing'[w].at = "idle" /\ viewing'[w].since <= seconds
        BY <1>16, <1>b DEF StartAgain, NoView
    <2> QED
        BY <1>16, <1>e, <2>2, <2>3 DEF StartAgain
<1> QED
    BY <1>1, <1>2, <1>3, <1>4, <1>5, <1>6, <1>7, <1>8, <1>9, <1>10, <1>11, <1>12, <1>13, <1>14,
       <1>15, <1>16 DEF OverlayNext

-----------------------------------------------------------------------------
VersionsValid == \A v \in DOMAIN signals : ValidateRoutingProposals(signals[v].of)

\* A call that is under way takes a step.
LEMMA TurnGoesOn ==
    ASSUME TypesHold, TurnsFit, NEW a \in Callers_, UnderWay(a), Others(a), UNCHANGED inTurn,
           a = "server" => control'[a].at \in {"idle", "query", "answered"},
           inTurn /\ BatchFits(a) /\ VersionsValid =>
               BatchFits(a)' /\ VersionsValid' /\ (~UnderWay(a)' => Settled')
    PROVE  TurnsFit'
<1>1. control'["server"].at \in {"idle", "query", "answered"}
    BY DEF TurnsFit, Others, Callers_
<1>2. SUFFICES ASSUME inTurn'
               PROVE  /\ \A c, d \in Callers_ : UnderWay(c)' /\ UnderWay(d)' => c = d
                      /\ \A c \in Callers_ : BatchFits(c)'
                      /\ InTurn' => Settled'
                      /\ VersionsValid'
    BY <1>1 DEF TurnsFit, VersionsValid
<1>3. \A c \in Callers_ \ {a} : control[c].at = "idle" /\ control'[c] = control[c]
    BY <1>2 DEF TurnsFit, UnderWay, Others
<1>4. BatchFits(a)' /\ VersionsValid' /\ (~UnderWay(a)' => Settled')
    BY <1>2 DEF TurnsFit, VersionsValid
<1>5. \A c \in Callers_ \ {a} : BatchFits(c)' /\ ~UnderWay(c)'
    BY <1>3 DEF BatchFits, UnderWay
<1> QED
    BY <1>4, <1>5 DEF InTurn

\* A call comes.
LEMMA TurnComes ==
    ASSUME TypesHold, TurnsFit, NEW a \in Admins, CallsStayTyped, UNCHANGED signals,
           \A c \in Callers_ \ {a} : control'[c].at = control[c].at,
           control'[a].at # "idle", inTurn' => inTurn /\ InTurn,
           inTurn' /\ Settled => BatchFits(a)'
    PROVE  TurnsFit'
<1>1. control'["server"].at \in {"idle", "query", "answered"}
    BY ControlAssumption DEF TurnsFit, Callers_
<1>2. SUFFICES ASSUME inTurn'
               PROVE  /\ \A c, d \in Callers_ : UnderWay(c)' /\ UnderWay(d)' => c = d
                      /\ \A c \in Callers_ : BatchFits(c)'
                      /\ InTurn' => Settled'
                      /\ VersionsValid'
    BY <1>1 DEF TurnsFit, VersionsValid
<1>3. \A c \in Callers_ \ {a} : control'[c].at = "idle"
    BY <1>2 DEF InTurn, UnderWay
<1>4. BatchFits(a)' /\ VersionsValid' /\ UnderWay(a)' /\ a \in Callers_
    BY <1>2 DEF TurnsFit, VersionsValid, UnderWay, Callers_
<1>5. \A c \in Callers_ \ {a} : BatchFits(c)' /\ ~UnderWay(c)'
    BY <1>3 DEF BatchFits, UnderWay
<1> QED
    BY <1>4, <1>5 DEF InTurn

LEMMA TurnsKept ==
    ASSUME TypesHold, TypesHold', TurnsFit, OverlayNext
    PROVE  TurnsFit'
<1> USE DEF TypesHold
<1>a. Admins \subseteq Callers_ /\ "server" \notin Admins
    BY ControlAssumption DEF Callers_
<1>b. control \in [Callers_ -> ControlCalls] /\ proposal \in [Proposals -> Statuses]
    BY DEF OverlayTyped
<1>c. ASSUME UNCHANGED <<signals, control, inTurn>>, Having("validated")' = Having("validated")
      PROVE  TurnsFit'
    BY <1>c DEF TurnsFit, BatchFits, InTurn, UnderWay, Settled
<1>d. ASSUME UNCHANGED proposal
      PROVE  Having("validated")' = Having("validated") /\ (Settled' <=> Settled)
    BY <1>d DEF Having, Settled
<1>e. ASSUME NEW rows, DOMAIN rows = DOMAIN signals, \A v \in DOMAIN signals : rows[v].of = signals[v].of,
             signals' = rows, VersionsValid
      PROVE  VersionsValid'
    BY <1>e DEF VersionsValid
<1>1. ASSUME NEW p \in Proposals, FileDraft(p) PROVE TurnsFit'
    <2>1. Having("validated")' = Having("validated")
        BY <1>1, <1>b DEF FileDraft, Having
    <2> QED
        BY <1>1, <1>c, <2>1 DEF FileDraft
<1>2. ASSUME NEW a \in Admins, ValidateDraftProposals(a) PROVE TurnsFit'
    <2>1. /\ CallsStayTyped /\ Others(a) /\ control'[a].at = "judging"
          /\ control'[a].batch = Having("draft")
          /\ control'[a].sound = ValidateRoutingProposals(Having("draft"))
        BY <1>2, <1>a, ValidateEffect DEF NoControl
    <2>2. UNCHANGED <<proposal, signals>> /\ (inTurn' => inTurn /\ InTurn /\ Having("validated") = {})
        BY <1>2 DEF ValidateDraftProposals
    <2>3. inTurn' => BatchFits(a)'
        BY <1>d, <2>1, <2>2 DEF BatchFits
    <2> QED
        BY <2>1, <2>2, <2>3, TurnComes DEF Others
<1>3. ASSUME NEW a \in Admins, WriteVerdict(a) PROVE TurnsFit'
    <2>1. /\ a \in Callers_ /\ Others(a) /\ control[a].at = "judging" /\ control[a] \in ControlCalls
        BY <1>3, <1>a, <1>b, VerdictEffect
    <2>2. PICK p \in control[a].batch :
             /\ proposal' = [proposal EXCEPT ![p] = IF control[a].sound THEN "validated"
                                                    ELSE "validation_failed"]
             /\ \/ control[a].batch = {p} /\ control'[a] = NoControl
                \/ control'[a] = [control[a] EXCEPT !.batch = @ \ {p}]
        BY <1>3, <1>a, VerdictEffect
    <2>3. p \in Proposals
        BY <2>1, <2>2 DEF ControlCalls
    <2>4. Having("validated")' = IF control[a].sound THEN Having("validated") \cup {p}
                                 ELSE Having("validated") \ {p}
        BY <1>b, <2>2, <2>3 DEF Having
    <2>5. UNCHANGED <<signals, inTurn>> /\ UnderWay(a)
        BY <1>3, <2>1 DEF WriteVerdict, UnderWay
    <2>6. ASSUME BatchFits(a)
          PROVE  BatchFits(a)' /\ (~UnderWay(a)' => Settled')
        <3>1. CASE control[a].batch = {p} /\ control'[a] = NoControl
            <4>1. Settled'
                <5>1. CASE control[a].sound
                    <6>1. Having("validated")' = Having("validated") \cup control[a].batch
                        BY <2>4, <3>1, <5>1
                    <6> QED
                        BY <2>1, <2>6, <5>1, <6>1 DEF BatchFits, Settled
                <5>2. CASE ~control[a].sound
                    BY <2>1, <2>4, <2>6, <5>2 DEF BatchFits, Settled
                <5> QED
                    BY <5>1, <5>2
            <4>2. control'[a].at = "idle"
                BY <3>1 DEF NoControl
            <4> QED
                BY <4>1, <4>2 DEF BatchFits
        <3>2. CASE control'[a] = [control[a] EXCEPT !.batch = @ \ {p}]
            <4>1. /\ control'[a].at = "judging" /\ control'[a].sound = control[a].sound
                  /\ control'[a].batch = control[a].batch \ {p}
                BY <2>1, <3>2 DEF ControlCalls
            <4>2. CASE control[a].sound
                <5>1. Having("validated")' \cup control'[a].batch = Having("validated") \cup control[a].batch
                    BY <2>2, <2>4, <4>1, <4>2
                <5> QED
                    BY <2>1, <2>6, <4>1, <4>2, <5>1 DEF BatchFits, UnderWay
            <4>3. CASE ~control[a].sound
                BY <2>1, <2>4, <2>6, <4>1, <4>3 DEF BatchFits, UnderWay
            <4> QED
                BY <4>2, <4>3
        <3> QED
            BY <2>2, <3>1, <3>2
    <2>7. VersionsValid => VersionsValid'
        BY <2>5 DEF VersionsValid
    <2> QED
        BY <1>a, <2>1, <2>5, <2>6, <2>7, TurnGoesOn
<1>4. ASSUME NEW a \in Admins, ApplyValidatedProposals(a) PROVE TurnsFit'
    <2>1. /\ CallsStayTyped /\ OthersMet(a) /\ control'[a].at = "replacing"
          /\ control'[a].batch = Having("validated")
        <3> DEFINE met == \A d \in Callers_ : ~Changes_(d)
        <3>1. /\ CallsStayTyped /\ OthersMet(a)
              /\ control'[a] = [NoControl EXCEPT !.at = "replacing", !.batch = Having("validated"),
                                                 !.alone = met]
            BY <1>4, <1>a, ApplyEffect
        <3> HIDE DEF met
        <3> QED
            BY <3>1 DEF NoControl
    <2>2. UNCHANGED <<proposal, signals>> /\ (inTurn' => inTurn /\ InTurn) /\ Having("validated") # {}
        BY <1>4 DEF ApplyValidatedProposals
    <2>3. Settled => BatchFits(a)'
        BY <1>d, <2>1, <2>2 DEF BatchFits, Settled
    <2>4. \A c \in Callers_ \ {a} : control'[c].at = control[c].at
        BY <1>a, <1>b, <2>1, MetKeep
    <2> QED
        BY <2>1, <2>2, <2>3, <2>4, TurnComes
<1>5. ASSUME NEW a \in Admins, DeactivateVersions(a) PROVE TurnsFit'
    <2>1. /\ a \in Callers_ /\ Others(a) /\ control[a].at = "replacing" /\ control[a] \in ControlCalls
          /\ control'[a] = [control[a] EXCEPT !.at = "inserting"]
          /\ DOMAIN signals' = DOMAIN signals
          /\ \A v \in DOMAIN signals : signals'[v].of = signals[v].of
        BY <1>5, <1>a, <1>b, ReplaceEffect
    <2>2. control'[a].at = "inserting" /\ control'[a].batch = control[a].batch
        BY <2>1 DEF ControlCalls
    <2>3. UNCHANGED <<proposal, inTurn>> /\ UnderWay(a)
        BY <1>5, <2>1 DEF DeactivateVersions, UnderWay
    <2>4. BatchFits(a) => BatchFits(a)'
        BY <1>d, <2>1, <2>2, <2>3 DEF BatchFits
    <2> QED
        BY <1>a, <1>e, <2>1, <2>2, <2>3, <2>4, TurnGoesOn DEF UnderWay
<1>6. ASSUME NEW a \in Admins, InsertVersion(a) PROVE TurnsFit'
    <2>1. /\ a \in Callers_ /\ Others(a) /\ control[a].at = "inserting" /\ control[a] \in ControlCalls
          /\ control'[a] = [control[a] EXCEPT !.at = "marking"]
          /\ \A v \in DOMAIN signals : signals'[v] = signals[v]
          /\ DOMAIN signals' = DOMAIN signals \cup {Len(signals')}
        BY <1>6, <1>a, <1>b, InsertEffect
    <2>2. signals'[Len(signals')].of = control[a].batch
        BY <1>6, <1>a, InsertEffect
    <2>3. control'[a].at = "marking" /\ control'[a].batch = control[a].batch
        BY <2>1 DEF ControlCalls
    <2>4. UNCHANGED <<proposal, inTurn>> /\ UnderWay(a)
        BY <1>6, <2>1 DEF InsertVersion, UnderWay
    <2>5. BatchFits(a) => BatchFits(a)' /\ ValidateRoutingProposals(control[a].batch)
        BY <1>d, <2>1, <2>3, <2>4 DEF BatchFits
    <2>6. BatchFits(a) /\ VersionsValid => VersionsValid'
        BY <2>1, <2>2, <2>5 DEF VersionsValid
    <2> QED
        BY <1>a, <2>1, <2>3, <2>4, <2>5, <2>6, TurnGoesOn DEF UnderWay
<1>7. ASSUME NEW a \in Admins, MarkApplied(a) PROVE TurnsFit'
    <2>1. /\ a \in Callers_ /\ Others(a) /\ control[a].at = "marking" /\ control[a] \in ControlCalls
        BY <1>7, <1>a, <1>b, MarkEffect
    <2>2. PICK p \in control[a].batch :
             /\ proposal' = [proposal EXCEPT ![p] = "applied"]
             /\ \/ /\ control[a].batch = {p}
                   /\ control'[a] = [control[a] EXCEPT !.at = "query", !.batch = {}, !.since = seconds]
                \/ control'[a] = [control[a] EXCEPT !.batch = @ \ {p}]
        BY <1>7, <1>a, MarkEffect
    <2>3. p \in Proposals
        BY <2>1, <2>2 DEF ControlCalls
    <2>4. Having("validated")' = Having("validated") \ {p}
        BY <1>b, <2>2, <2>3 DEF Having
    <2>5. UNCHANGED <<signals, inTurn>> /\ UnderWay(a)
        BY <1>7, <2>1 DEF MarkApplied, UnderWay
    <2>6. BatchFits(a) => BatchFits(a)' /\ UnderWay(a)'
        <3>1. CASE /\ control[a].batch = {p}
                   /\ control'[a] = [control[a] EXCEPT !.at = "query", !.batch = {}, !.since = seconds]
            <4>1. control'[a].at = "query"
                BY <2>1, <3>1 DEF ControlCalls
            <4>2. BatchFits(a) => Settled'
                BY <2>1, <2>4, <3>1 DEF BatchFits, Settled
            <4> QED
                BY <4>1, <4>2 DEF BatchFits, UnderWay
        <3>2. CASE control'[a] = [control[a] EXCEPT !.batch = @ \ {p}]
            <4>1. control'[a].at = "marking" /\ control'[a].batch = control[a].batch \ {p}
                BY <2>1, <3>2 DEF ControlCalls
            <4> QED
                BY <2>1, <2>4, <4>1 DEF BatchFits, UnderWay
        <3> QED
            BY <2>2, <3>1, <3>2
    <2>7. VersionsValid => VersionsValid'
        BY <2>5 DEF VersionsValid
    <2> QED
        BY <1>a, <2>1, <2>5, <2>6, <2>7, TurnGoesOn
<1>8. ASSUME NEW a \in Admins, RollbackRoutingOverlay(a) PROVE TurnsFit'
    <2>1. /\ CallsStayTyped /\ OthersMet(a) /\ control'[a].at \in {"query", "deactivating"}
        BY <1>8, <1>a, RollbackEffect
    <2>2. UNCHANGED <<proposal, signals>> /\ (inTurn' => inTurn /\ InTurn)
        BY <1>8 DEF RollbackRoutingOverlay
    <2>3. Settled => BatchFits(a)'
        BY <1>d, <2>1, <2>2 DEF BatchFits
    <2>4. \A c \in Callers_ \ {a} : control'[c].at = control[c].at
        BY <1>a, <1>b, <2>1, MetKeep
    <2> QED
        BY <2>1, <2>2, <2>3, <2>4, TurnComes
<1>9. ASSUME NEW a \in Admins, DeactivateNewest(a) PROVE TurnsFit'
    <2>1. /\ a \in Callers_ /\ Others(a) /\ control[a].at = "deactivating" /\ control[a] \in ControlCalls
          /\ control'[a] = [control[a] EXCEPT !.at = "query", !.batch = {}, !.since = seconds]
          /\ DOMAIN signals' = DOMAIN signals
          /\ \A v \in DOMAIN signals : signals'[v].of = signals[v].of
        BY <1>9, <1>a, <1>b, DeactivateEffect
    <2>2. control'[a].at = "query"
        BY <2>1 DEF ControlCalls
    <2>3. UNCHANGED <<proposal, inTurn>> /\ UnderWay(a)
        BY <1>9, <2>1 DEF DeactivateNewest, UnderWay
    <2>4. BatchFits(a) => BatchFits(a)'
        BY <1>d, <2>1, <2>2, <2>3 DEF BatchFits
    <2> QED
        BY <1>a, <1>e, <2>1, <2>2, <2>3, <2>4, TurnGoesOn DEF UnderWay
<1>10. ASSUME NEW c \in Callers_, QueryOverlay(c) PROVE TurnsFit'
    <2>1. Others(c) /\ control[c].at = "query" /\ control[c] \in ControlCalls
          /\ \E v \in NewestOf(signals) : control'[c] = [control[c] EXCEPT !.at = "answered", !.got = v]
        BY <1>10, <1>b, QueryEffect
    <2>2. control'[c].at = "answered"
        BY <2>1 DEF ControlCalls
    <2>3. UNCHANGED <<proposal, signals, inTurn>> /\ UnderWay(c)
        BY <1>10, <2>1 DEF QueryOverlay, UnderWay
    <2>4. (BatchFits(c) => BatchFits(c)') /\ (VersionsValid => VersionsValid')
        BY <1>d, <2>1, <2>2, <2>3 DEF BatchFits, VersionsValid
    <2> QED
        BY <2>1, <2>2, <2>3, <2>4, TurnGoesOn DEF UnderWay
<1>11. ASSUME NEW c \in Callers_, StoreSnapshot(c) PROVE TurnsFit'
    <2>1. Others(c) /\ control[c].at = "answered" /\ control'[c].at = "idle"
        BY <1>11, StoreEffect DEF NoControl
    <2>2. UNCHANGED <<proposal, signals, inTurn>> /\ UnderWay(c)
        BY <1>11, <2>1 DEF StoreSnapshot, UnderWay
    <2>3. (BatchFits(c) => BatchFits(c)' /\ Settled') /\ (VersionsValid => VersionsValid')
        BY <1>d, <2>1, <2>2 DEF BatchFits, VersionsValid
    <2> QED
        BY <2>1, <2>2, <2>3, TurnGoesOn
<1>12. ASSUME StartAgain PROVE TurnsFit'
    <2>1. StartReads.at = "query" /\ NoControl.at = "idle" /\ "server" \in Callers_
        BY DEF StartReads, NoControl, Callers_
    <2>2. /\ control'["server"].at = "query"
          /\ \A c \in Callers_ \ {"server"} : control'[c].at = "idle"
        BY <1>12, <2>1, StartEffect
    <2>3. UNCHANGED <<proposal, signals>> /\ (inTurn' => inTurn /\ \A a \in Admins : ~UnderWay(a))
        BY <1>12 DEF StartAgain
    <2>4. inTurn' => Settled
        <3>1. CASE control["server"].at = "idle"
            BY <2>3, <3>1 DEF TurnsFit, InTurn, UnderWay, Callers_
        <3>2. CASE control["server"].at \in {"query", "answered"}
            BY <2>1, <2>3, <3>2 DEF TurnsFit, BatchFits
        <3> QED
            BY <3>1, <3>2 DEF TurnsFit
    <2>5. inTurn' => \A c \in Callers_ : BatchFits(c)'
        BY <1>d, <2>2, <2>3, <2>4 DEF BatchFits
    <2>6. \A c, d \in Callers_ : UnderWay(c)' /\ UnderWay(d)' => c = d
        BY <2>2 DEF UnderWay
    <2>7. ~InTurn'
        BY <2>1, <2>2 DEF InTurn, UnderWay
    <2> QED
        BY <2>2, <2>3, <2>5, <2>6, <2>7 DEF TurnsFit
<1>13. ASSUME NEW w \in Viewers, GetRoutingOverlay(w) \/ ViewQuery(w) \/ ViewStore(w) PROVE TurnsFit'
    BY <1>13, <1>c, <1>d DEF GetRoutingOverlay, ViewQuery, ViewStore
<1>14. ASSUME SecondPasses PROVE TurnsFit'
    BY <1>14, <1>c, <1>d DEF SecondPasses
<1> QED
    BY <1>1, <1>2, <1>3, <1>4, <1>5, <1>6, <1>7, <1>8, <1>9, <1>10, <1>11, <1>12, <1>13, <1>14
       DEF OverlayNext

-----------------------------------------------------------------------------
LEMMA OverlayInvStarts == OverlayInit => OverlayInv
<1> SUFFICES ASSUME OverlayInit PROVE OverlayInv
    OBVIOUS
<1>1. seconds = 0 /\ 0 \in SignalIds /\ "server" \in Callers_ /\ CacheTTL \in Nat
    BY ControlAssumption DEF OverlayInit, SignalIds, Callers_
<1>2. NoControl \in ControlCalls /\ StartReads \in ControlCalls
    BY <1>1 DEF NoControl, StartReads, ControlCalls, Changing
<1>3. /\ StartReads.at = "query" /\ NoControl.at = "idle"
      /\ StartReads.since = 0 /\ NoControl.since = 0
    BY <1>1 DEF StartReads, NoControl
<1>4. /\ control \in [Callers_ -> ControlCalls] /\ control["server"].at = "query"
      /\ \A c \in Callers_ \ {"server"} : control[c].at = "idle"
      /\ \A c \in Callers_ : control[c].since = 0
    BY <1>1, <1>2, <1>3 DEF OverlayInit
<1>5. \A w \in Viewers : viewing[w].at = "idle" /\ viewing[w].since = 0
    BY DEF OverlayInit, NoView
<1>6. signals = <<>> /\ DOMAIN signals = {} /\ Having("validated") = {} /\ Having("applied") = {}
    BY DEF OverlayInit, Having
<1>7. NewestOf(signals) = {0}
    BY <1>6 DEF NewestOf
<1>8. OverlayTyped
    <2>1. viewing \in [Viewers -> ViewCalls]
        BY <1>1 DEF OverlayInit, NoView, ViewCalls
    <2>2. signals \in Seq(VersionRows) /\ Len(signals) <= MaxVersions
        BY <1>6, ControlAssumption
    <2>3. proposal \in [Proposals -> Statuses]
        BY DEF OverlayInit, Statuses
    <2>4. lastNewest \in [SignalIds -> Nat]
        BY DEF OverlayInit
    <2>5. starts \in Nat /\ undisturbed \in BOOLEAN /\ inTurn \in BOOLEAN
        BY DEF OverlayInit
    <2>6. cachedOverlay \in SignalIds /\ cachedSnapshot \in SignalIds /\ cacheAt \in Nat
        BY <1>1 DEF OverlayInit
    <2> QED
        BY <1>1, <1>4, <2>1, <2>2, <2>3, <2>4, <2>5, <2>6 DEF OverlayTyped
<1>9. RollbacksFound /\ VersionsMerged /\ MarksFit
    BY <1>4, <1>6 DEF RollbacksFound, VersionsMerged, MarksFit, AppliedHasVersion
<1>10. SnapshotFits
    BY <1>4 DEF SnapshotFits, Changes_, Changing, OverlayInit
<1>11. TurnsFit
    BY <1>4, <1>6 DEF TurnsFit, UnderWay, BatchFits, Settled
<1>12. TimesFit
    BY <1>1, <1>4, <1>5, <1>7 DEF TimesFit, OverlayFresh, OverlayInit
<1> QED
    BY <1>8, <1>9, <1>10, <1>11, <1>12 DEF OverlayInv

\* The table of versions, the snapshot and the cache, whatever calls meet.
THEOREM OverlayInvariant == OverlaySpec => []OverlayInv
<1>1. OverlayInv /\ [OverlayNext]_overlayVars => OverlayInv'
    <2>1. ASSUME OverlayInv, OverlayNext PROVE OverlayInv'
        <3>1. TypesHold /\ TypesHold'
            BY <2>1, OverlayTypesKept DEF OverlayInv, TypesHold
        <3> QED
            BY <2>1, <3>1, SnapshotKept, MarksKept, TurnsKept, TimesKept DEF OverlayInv, TypesHold
    <2>2. ASSUME OverlayInv, UNCHANGED overlayVars PROVE OverlayInv'
        BY <2>2 DEF OverlayInv, overlayVars, OverlayTyped, RollbacksFound, VersionsMerged, SnapshotFits,
                    MarksFit, TurnsFit, TimesFit, AppliedHasVersion, Having, BatchFits, Settled, InTurn,
                    UnderWay, Changes_, OverlayFresh
    <2> QED
        BY <2>1, <2>2
<1> QED
    BY <1>1, OverlayInvStarts, PTL DEF OverlaySpec

\* Requests are classed by the version in force, applied proposals are in a version, no weight
\* goes too far, and the page is not older than its cache may be: for any proposals, any number
\* of administrators and pages, interrupted anywhere (jobService, routingOverlay, routingWeightsBridge).
THEOREM OverlayIsKept == OverlaySpec => []OverlayKept
<1>1. OverlayInv => OverlayKept
    <2> SUFFICES ASSUME OverlayInv PROVE OverlayKept
        OBVIOUS
    <2>1. OverlayCurrent
        BY DEF OverlayInv, SnapshotFits, OverlayCurrent
    <2>2. WeightsBounded
        <3> SUFFICES ASSUME inTurn, NEW v \in DOMAIN signals
                     PROVE  /\ \A t \in Tokens : signals[v].weights[t] \in -MaxWeightDelta..MaxWeightDelta
                            /\ signals[v].patterns \subseteq Parses
            BY DEF WeightsBounded
        <3>1. ValidateRoutingProposals(signals[v].of)
            BY DEF OverlayInv, TurnsFit
        <3>2. /\ signals[v].weights = MergeRoutingAdjustments(signals[v].of).weights
              /\ signals[v].patterns = MergeRoutingAdjustments(signals[v].of).patterns
            BY DEF OverlayInv, VersionsMerged
        <3> QED
            BY <3>1, <3>2 DEF ValidateRoutingProposals
    <2> QED
        BY <2>1, <2>2 DEF OverlayInv, MarksFit, TimesFit, OverlayKept
<1> QED
    BY <1>1, OverlayInvariant, PTL

-----------------------------------------------------------------------------
(* DistillationControl: the schedule.                                        *)

PatchBodies == [cronEnabled : BOOLEAN \cup {Absent}, cron : Crons \cup {Absent}]

ScheduleCalls ==
    [at : {"idle", "current", "get", "put", "waits", "enabled", "cron", "decide"}, patch : PatchBodies,
     key : 0..2, exists : BOOLEAN, enabled : BOOLEAN, cron : Crons]

\* The key a PATCH is about is one of the two.
KeysFit == \A c \in Schedulers : scheduling[c].at \in {"get", "put"} => scheduling[c].key \in 1..2

ScheduleTyped == ScheduleTypeOK /\ KeysFit

\* The task of the settings, when they say that there is one
TasksOfSettings ==
    LET cron == CronOf(settings.cron)
    IN  IF ~maintained /\ settings.cronEnabled = TRUE /\ cron \in ValidCrons
        THEN {[id |-> currentTask, cron |-> cron]}
        ELSE {}

\* What a call that meets no other knows
SchedulerFits(c) ==
    LET call == scheduling[c] IN
    /\ AtWork(c) => ~maintained
    /\ call.at = "put" => call.exists = (settings[Keys[call.key]] # Absent)
    /\ call.at \in {"enabled", "cron", "decide"} => tasks = {} /\ currentTask = 0
    /\ call.at \in {"cron", "decide"} => call.enabled = (settings.cronEnabled = TRUE)
    /\ call.at = "decide" => call.cron = CronOf(settings.cron)

ScheduleFits ==
    orderly =>
        /\ \A c, d \in Schedulers : AtWork(c) /\ AtWork(d) => c = d
        /\ \A c \in Schedulers : SchedulerFits(c)
        /\ \A t \in tasks : t.id = currentTask
        /\ (\A c \in Schedulers : ~AtWork(c)) => tasks = TasksOfSettings

ScheduleInv == ScheduleTyped /\ ScheduleFits

OtherSchedulers(c) == \A d \in Schedulers \ {c} : scheduling'[d] = scheduling[d]

LEMMA ScheduleFacts ==
    /\ Patchers \subseteq Schedulers /\ "start" \in Schedulers /\ "maintenance" \in Schedulers
    /\ Patches \subseteq PatchBodies /\ DefaultCron \in Crons /\ NoPatch \in PatchBodies
    /\ NoCallOf \in ScheduleCalls /\ NoCallOf.at = "idle"
<1>1. DefaultCron \in Crons /\ Patches \subseteq PatchBodies
    BY ScheduleAssumption DEF PatchBodies
<1> QED
    BY <1>1 DEF Schedulers, NoCallOf, NoPatch, PatchBodies, ScheduleCalls

LEMMA OneSchedules ==
    ASSUME scheduling \in [Schedulers -> ScheduleCalls], NEW c \in Schedulers,
           NEW call \in ScheduleCalls, Sched(c, call)
    PROVE  /\ scheduling' \in [Schedulers -> ScheduleCalls] /\ scheduling'[c] = call
           /\ OtherSchedulers(c)
BY DEF Sched, OtherSchedulers

LEMMA NextIsKey ==
    ASSUME NEW c \in Schedulers, scheduling[c].key \in 0..2, StillToWrite(c) # {}
    PROVE  Min(StillToWrite(c)) \in 1..2
<1>1. StillToWrite(c) \subseteq 1..2
    BY DEF StillToWrite
<1>2. \E x \in StillToWrite(c) : \A y \in StillToWrite(c) : x <= y
    <2>1. CASE 1 \in StillToWrite(c)
        BY <1>1, <2>1
    <2>2. CASE 1 \notin StillToWrite(c)
        BY <1>1, <2>2
    <2> QED
        BY <2>1, <2>2
<1> QED
    BY <1>1, <1>2 DEF Min

\* The task is stopped, and the settings are read.
LEMMA StopEffect ==
    ASSUME ScheduleTyped, NEW c \in Schedulers, StopSchedule(c)
    PROVE  /\ scheduling' \in [Schedulers -> ScheduleCalls] /\ OtherSchedulers(c)
           /\ scheduling'[c].at = "enabled"
           /\ tasks' = {t \in tasks : t.id # currentTask} /\ currentTask' = 0
<1>1. [NoCallOf EXCEPT !.at = "enabled"] \in ScheduleCalls
      /\ [NoCallOf EXCEPT !.at = "enabled"].at = "enabled"
    BY ScheduleFacts DEF ScheduleCalls
<1>2. scheduling \in [Schedulers -> ScheduleCalls]
    BY DEF ScheduleTyped, ScheduleTypeOK, ScheduleCalls, PatchBodies
<1> QED
    BY <1>1, <1>2, OneSchedules DEF StopSchedule, StopsTask

LEMMA NextKeyEffect ==
    ASSUME ScheduleTyped, NEW c \in Schedulers, NextKey(c)
    PROVE  /\ scheduling' \in [Schedulers -> ScheduleCalls] /\ OtherSchedulers(c)
           /\ \/ /\ scheduling'[c].at = "enabled"
                 /\ tasks' = {t \in tasks : t.id # currentTask} /\ currentTask' = 0
              \/ /\ scheduling'[c].at = "get" /\ scheduling'[c].key \in 1..2
                 /\ UNCHANGED <<tasks, currentTask>>
<1>1. scheduling \in [Schedulers -> ScheduleCalls] /\ scheduling[c] \in ScheduleCalls
    BY DEF ScheduleTyped, ScheduleTypeOK, ScheduleCalls, PatchBodies
<1>2. CASE StillToWrite(c) = {}
    BY <1>2, StopEffect DEF NextKey
<1>3. CASE StillToWrite(c) # {}
    <2>1. Min(StillToWrite(c)) \in 1..2
        BY <1>1, <1>3, NextIsKey DEF ScheduleCalls
    <2> DEFINE call == [scheduling[c] EXCEPT !.at = "get", !.key = Min(StillToWrite(c))]
    <2>2. call \in ScheduleCalls /\ call.at = "get" /\ call.key \in 1..2
        <3> DEFINE k == Min(StillToWrite(c))
        <3>1. k \in 1..2 /\ k \in 0..2
            BY <2>1
        <3> HIDE DEF k
        <3>2. [scheduling[c] EXCEPT !.at = "get", !.key = k] \in ScheduleCalls
            BY <1>1, <3>1 DEF ScheduleCalls
        <3>3. [scheduling[c] EXCEPT !.at = "get", !.key = k].at = "get"
              /\ [scheduling[c] EXCEPT !.at = "get", !.key = k].key = k
            BY <1>1 DEF ScheduleCalls
        <3> QED
            BY <3>1, <3>2, <3>3 DEF k
    <2>3. Sched(c, call) /\ UNCHANGED <<currentTask, tasks>>
        BY <1>3 DEF NextKey
    <2> HIDE DEF call
    <2> QED
        BY <1>1, <2>2, <2>3, OneSchedules
<1> QED
    BY <1>2, <1>3

\* A call goes on, and no other is at work.
LEMMA CallGoesOn ==
    ASSUME ScheduleFits, NEW c \in Schedulers, AtWork(c), OtherSchedulers(c),
           UNCHANGED <<maintained, orderly>>,
           orderly /\ SchedulerFits(c) /\ (\A t \in tasks : t.id = currentTask) =>
               /\ SchedulerFits(c)'
               /\ \A t \in tasks' : t.id = currentTask'
               /\ ~AtWork(c)' => tasks' = TasksOfSettings'
    PROVE  ScheduleFits'
<1> SUFFICES ASSUME orderly'
             PROVE  /\ \A d, e \in Schedulers : AtWork(d)' /\ AtWork(e)' => d = e
                    /\ \A d \in Schedulers : SchedulerFits(d)'
                    /\ \A t \in tasks' : t.id = currentTask'
                    /\ (\A d \in Schedulers : ~AtWork(d)') => tasks' = TasksOfSettings'
    BY DEF ScheduleFits
<1>1. \A d \in Schedulers \ {c} : scheduling'[d] = scheduling[d] /\ scheduling[d].at = "idle"
    BY DEF ScheduleFits, AtWork, OtherSchedulers
<1>2. \A d \in Schedulers \ {c} : SchedulerFits(d)' /\ ~AtWork(d)'
    BY <1>1 DEF SchedulerFits, AtWork
<1>3. /\ SchedulerFits(c)'
      /\ \A t \in tasks' : t.id = currentTask'
      /\ ~AtWork(c)' => tasks' = TasksOfSettings'
    BY DEF ScheduleFits
<1> QED
    BY <1>2, <1>3

\* A call begins; it changes nothing yet but who is at work.
LEMMA CallBegins ==
    ASSUME ScheduleFits, NEW c \in Schedulers, OtherSchedulers(c),
           scheduling'[c].at \in {"current", "waits"}, ~maintained',
           UNCHANGED <<settings, currentTask, tasks>>, orderly' => orderly /\ Alone(c)
    PROVE  ScheduleFits'
<1> SUFFICES ASSUME orderly'
             PROVE  /\ \A d, e \in Schedulers : AtWork(d)' /\ AtWork(e)' => d = e
                    /\ \A d \in Schedulers : SchedulerFits(d)'
                    /\ \A t \in tasks' : t.id = currentTask'
                    /\ (\A d \in Schedulers : ~AtWork(d)') => tasks' = TasksOfSettings'
    BY DEF ScheduleFits
<1>1. \A d \in Schedulers \ {c} : scheduling'[d] = scheduling[d] /\ scheduling[d].at = "idle"
    BY DEF Alone, AtWork, OtherSchedulers
<1>2. \A d \in Schedulers \ {c} : SchedulerFits(d)' /\ ~AtWork(d)'
    BY <1>1 DEF SchedulerFits, AtWork
<1>3. SchedulerFits(c)' /\ AtWork(c)'
    BY DEF SchedulerFits, AtWork
<1>4. \A t \in tasks' : t.id = currentTask'
    BY DEF ScheduleFits
<1> QED
    BY <1>2, <1>3, <1>4

LEMMA ScheduleKeeps ==
    ASSUME ScheduleInv, ScheduleNext
    PROVE  ScheduleInv'
<1> USE DEF ScheduleInv
<1>a. /\ scheduling \in [Schedulers -> ScheduleCalls] /\ settings \in PatchBodies /\ made \in Nat
      /\ currentTask \in 0..made /\ tasks \subseteq [id : 1..made, cron : Crons]
      /\ maintained \in BOOLEAN /\ orderly \in BOOLEAN
    BY DEF ScheduleTyped, ScheduleTypeOK, ScheduleCalls, PatchBodies
<1>t. ASSUME scheduling' \in [Schedulers -> ScheduleCalls], settings' \in PatchBodies, made' \in Nat,
             currentTask' \in 0..made', tasks' \subseteq [id : 1..made', cron : Crons],
             maintained' \in BOOLEAN, orderly' \in BOOLEAN,
             \A c \in Schedulers : scheduling'[c].at \in {"get", "put"} => scheduling'[c].key \in 1..2
      PROVE  ScheduleTyped'
    BY <1>t DEF ScheduleTyped, ScheduleTypeOK, ScheduleCalls, PatchBodies, KeysFit
<1>k. \A c \in Schedulers : /\ scheduling[c] \in ScheduleCalls
                            /\ scheduling[c].at \in {"get", "put"} => scheduling[c].key \in 1..2
    BY <1>a DEF ScheduleTyped, KeysFit
<1>s. /\ {t \in tasks : t.id # currentTask} \subseteq [id : 1..made, cron : Crons] /\ 0 \in 0..made
      /\ (\A t \in tasks : t.id = currentTask) => {t \in tasks : t.id # currentTask} = {}
    BY <1>a
<1>1. ASSUME NEW c \in Patchers, PatchSettings(c) PROVE ScheduleInv'
    <2>1. PICK patch \in Patches : Sched(c, [NoCallOf EXCEPT !.at = "current", !.patch = patch])
        BY <1>1 DEF PatchSettings
    <2>2. /\ [NoCallOf EXCEPT !.at = "current", !.patch = patch] \in ScheduleCalls
          /\ [NoCallOf EXCEPT !.at = "current", !.patch = patch].at = "current" /\ c \in Schedulers
        <3>1. patch \in PatchBodies
            BY <2>1, ScheduleFacts
        <3> QED
            BY <3>1, ScheduleFacts DEF ScheduleCalls
    <2>3. /\ scheduling' \in [Schedulers -> ScheduleCalls] /\ OtherSchedulers(c)
          /\ scheduling'[c].at = "current"
        BY <1>a, <2>1, <2>2, OneSchedules
    <2>4. /\ UNCHANGED <<settings, currentTask, tasks, made, maintained>> /\ ~maintained'
          /\ orderly' = (orderly /\ Alone(c))
        BY <1>1 DEF PatchSettings
    <2>5. ScheduleFits'
        BY <2>2, <2>3, <2>4, CallBegins
    <2>6. orderly' \in BOOLEAN
        BY <2>4 DEF Alone
    <2>7. ScheduleTyped'
        BY <1>a, <1>k, <1>t, <2>3, <2>4, <2>6 DEF OtherSchedulers
    <2> QED
        BY <2>5, <2>7
<1>2. ASSUME NEW c \in Patchers, GotCurrent(c) PROVE ScheduleInv'
    <2>1. c \in Schedulers /\ scheduling[c].at = "current" /\ NextKey(c)
          /\ UNCHANGED <<settings, made, maintained, orderly>>
        BY <1>2, ScheduleFacts DEF GotCurrent
    <2>2. /\ scheduling' \in [Schedulers -> ScheduleCalls] /\ OtherSchedulers(c)
          /\ \/ /\ scheduling'[c].at = "enabled"
                /\ tasks' = {t \in tasks : t.id # currentTask} /\ currentTask' = 0
             \/ /\ scheduling'[c].at = "get" /\ scheduling'[c].key \in 1..2
                /\ UNCHANGED <<tasks, currentTask>>
        BY <2>1, NextKeyEffect
    <2>3. ScheduleTyped'
        BY <1>a, <1>k, <1>s, <1>t, <2>1, <2>2 DEF OtherSchedulers
    <2>4. SchedulerFits(c) /\ (\A t \in tasks : t.id = currentTask) =>
              SchedulerFits(c)' /\ (\A t \in tasks' : t.id = currentTask') /\ AtWork(c)'
        BY <1>s, <2>1, <2>2 DEF SchedulerFits, AtWork
    <2> QED
        BY <2>1, <2>2, <2>3, <2>4, CallGoesOn DEF AtWork
<1>3. ASSUME NEW c \in Patchers, GetSetting(c) PROVE ScheduleInv'
    <2> DEFINE there == settings[Keys[scheduling[c].key]] # Absent
    <2>1. /\ c \in Schedulers /\ scheduling[c].at = "get" /\ Sched(c, [scheduling[c] EXCEPT !.at = "put", !.exists = there])
          /\ UNCHANGED <<settings, currentTask, tasks, made, maintained, orderly>>
        BY <1>3, ScheduleFacts DEF GetSetting
    <2>2. there \in BOOLEAN
        OBVIOUS
    <2> HIDE DEF there
    <2>3. LET call == [scheduling[c] EXCEPT !.at = "put", !.exists = there]
          IN  call \in ScheduleCalls /\ call.at = "put" /\ call.exists = there /\ call.key = scheduling[c].key
        BY <1>k, <2>1, <2>2 DEF ScheduleCalls
    <2>4. /\ scheduling' \in [Schedulers -> ScheduleCalls] /\ OtherSchedulers(c)
          /\ scheduling'[c].at = "put" /\ scheduling'[c].exists = there
          /\ scheduling'[c].key = scheduling[c].key
        BY <1>a, <2>1, <2>3, OneSchedules
    <2>5. ScheduleTyped'
        BY <1>a, <1>k, <1>t, <2>1, <2>4 DEF OtherSchedulers
    <2>6. SchedulerFits(c) => SchedulerFits(c)'
        BY <2>1, <2>4 DEF SchedulerFits, AtWork, there
    <2> QED
        BY <2>1, <2>4, <2>5, <2>6, CallGoesOn DEF AtWork
<1>4. ASSUME NEW c \in Patchers, SetSetting(c) PROVE ScheduleInv'
    <2> DEFINE key == Keys[scheduling[c].key]
    <2>1. /\ c \in Schedulers /\ scheduling[c].at = "put" /\ scheduling[c].key \in 1..2
          /\ UNCHANGED <<made, maintained, orderly>>
        BY <1>4, <1>k, ScheduleFacts DEF SetSetting
    <2>2. CASE ~scheduling[c].exists /\ settings[key] # Absent
        <3>1. Sched(c, NoCallOf) /\ UNCHANGED <<settings, currentTask, tasks>>
            BY <1>4, <2>2 DEF SetSetting
        <3>2. /\ scheduling' \in [Schedulers -> ScheduleCalls] /\ OtherSchedulers(c)
              /\ scheduling'[c].at = "idle"
            BY <1>a, <2>1, <3>1, OneSchedules, ScheduleFacts
        <3>3. ScheduleTyped'
            BY <1>a, <1>k, <1>t, <2>1, <3>1, <3>2 DEF OtherSchedulers
        <3>4. ~SchedulerFits(c)
            BY <2>1, <2>2 DEF SchedulerFits
        <3> QED
            BY <2>1, <3>2, <3>3, <3>4, CallGoesOn DEF AtWork
    <2>3. CASE ~(~scheduling[c].exists /\ settings[key] # Absent)
        <3>1. settings' = [settings EXCEPT ![key] = scheduling[c].patch[key]] /\ NextKey(c)
            BY <1>4, <2>3 DEF SetSetting
        <3>2. /\ scheduling' \in [Schedulers -> ScheduleCalls] /\ OtherSchedulers(c)
              /\ \/ /\ scheduling'[c].at = "enabled"
                    /\ tasks' = {t \in tasks : t.id # currentTask} /\ currentTask' = 0
                 \/ /\ scheduling'[c].at = "get" /\ scheduling'[c].key \in 1..2
                    /\ UNCHANGED <<tasks, currentTask>>
            BY <2>1, <3>1, NextKeyEffect
        <3>3. settings' \in PatchBodies
            <4>1. scheduling[c].patch \in PatchBodies
                BY <1>k, <2>1 DEF ScheduleCalls
            <4>2. CASE scheduling[c].key = 1
                <5>1. settings' = [settings EXCEPT !["cronEnabled"] = scheduling[c].patch["cronEnabled"]]
                    BY <3>1, <4>2 DEF Keys
                <5> QED
                    BY <1>a, <4>1, <5>1 DEF PatchBodies
            <4>3. CASE scheduling[c].key = 2
                <5>1. settings' = [settings EXCEPT !["cron"] = scheduling[c].patch["cron"]]
                    BY <3>1, <4>3 DEF Keys
                <5> QED
                    BY <1>a, <4>1, <5>1 DEF PatchBodies
            <4> QED
                BY <2>1, <4>2, <4>3
        <3>4. ScheduleTyped'
            BY <1>a, <1>k, <1>s, <1>t, <2>1, <3>2, <3>3 DEF OtherSchedulers
        <3>5. SchedulerFits(c) /\ (\A t \in tasks : t.id = currentTask) =>
                  SchedulerFits(c)' /\ (\A t \in tasks' : t.id = currentTask') /\ AtWork(c)'
            BY <1>s, <2>1, <3>2 DEF SchedulerFits, AtWork
        <3> QED
            BY <2>1, <3>2, <3>4, <3>5, CallGoesOn DEF AtWork
    <2> QED
        BY <2>2, <2>3
<1>5. ASSUME NEW c \in Schedulers, Scheduled(c) PROVE ScheduleInv'
    <2>1. scheduling[c].at = "waits" /\ StopSchedule(c) /\ UNCHANGED <<settings, made, maintained, orderly>>
        BY <1>5 DEF Scheduled
    <2>2. /\ scheduling' \in [Schedulers -> ScheduleCalls] /\ OtherSchedulers(c)
          /\ scheduling'[c].at = "enabled"
          /\ tasks' = {t \in tasks : t.id # currentTask} /\ currentTask' = 0
        BY <2>1, StopEffect
    <2>3. ScheduleTyped'
        BY <1>a, <1>k, <1>s, <1>t, <2>1, <2>2 DEF OtherSchedulers
    <2>4. SchedulerFits(c) /\ (\A t \in tasks : t.id = currentTask) =>
              SchedulerFits(c)' /\ (\A t \in tasks' : t.id = currentTask') /\ AtWork(c)'
        BY <1>s, <2>1, <2>2 DEF SchedulerFits, AtWork
    <2> QED
        BY <2>1, <2>2, <2>3, <2>4, CallGoesOn DEF AtWork
<1>6. ASSUME NEW c \in Schedulers, ReadEnabled(c) PROVE ScheduleInv'
    <2> DEFINE on == (settings.cronEnabled = TRUE)
    <2>1. /\ scheduling[c].at = "enabled" /\ Sched(c, [scheduling[c] EXCEPT !.at = "cron", !.enabled = on])
          /\ UNCHANGED <<settings, currentTask, tasks, made, maintained, orderly>>
        BY <1>6 DEF ReadEnabled
    <2>2. on \in BOOLEAN
        OBVIOUS
    <2> HIDE DEF on
    <2>3. LET call == [scheduling[c] EXCEPT !.at = "cron", !.enabled = on]
          IN  call \in ScheduleCalls /\ call.at = "cron" /\ call.enabled = on
        BY <1>k, <2>2 DEF ScheduleCalls
    <2>4. /\ scheduling' \in [Schedulers -> ScheduleCalls] /\ OtherSchedulers(c)
          /\ scheduling'[c].at = "cron" /\ scheduling'[c].enabled = on
        BY <1>a, <2>1, <2>3, OneSchedules
    <2>5. ScheduleTyped'
        BY <1>a, <1>k, <1>t, <2>1, <2>4 DEF OtherSchedulers
    <2>6. SchedulerFits(c) => SchedulerFits(c)'
        BY <2>1, <2>4 DEF SchedulerFits, AtWork, on
    <2> QED
        BY <2>1, <2>4, <2>5, <2>6, CallGoesOn DEF AtWork
<1>7. ASSUME NEW c \in Schedulers, ReadCron(c) PROVE ScheduleInv'
    <2> DEFINE cron == CronOf(settings.cron)
    <2>1. /\ scheduling[c].at = "cron" /\ Sched(c, [scheduling[c] EXCEPT !.at = "decide", !.cron = cron])
          /\ UNCHANGED <<settings, currentTask, tasks, made, maintained, orderly>>
        BY <1>7 DEF ReadCron
    <2>2. cron \in Crons
        BY <1>a, ScheduleFacts DEF CronOf, PatchBodies
    <2> HIDE DEF cron
    <2>3. LET call == [scheduling[c] EXCEPT !.at = "decide", !.cron = cron]
          IN  call \in ScheduleCalls /\ call.at = "decide" /\ call.cron = cron
              /\ call.enabled = scheduling[c].enabled
        BY <1>k, <2>2 DEF ScheduleCalls
    <2>4. /\ scheduling' \in [Schedulers -> ScheduleCalls] /\ OtherSchedulers(c)
          /\ scheduling'[c].at = "decide" /\ scheduling'[c].cron = cron
          /\ scheduling'[c].enabled = scheduling[c].enabled
        BY <1>a, <2>1, <2>3, OneSchedules
    <2>5. ScheduleTyped'
        BY <1>a, <1>k, <1>t, <2>1, <2>4 DEF OtherSchedulers
    <2>6. SchedulerFits(c) => SchedulerFits(c)'
        BY <2>1, <2>4 DEF SchedulerFits, AtWork, cron
    <2> QED
        BY <2>1, <2>4, <2>5, <2>6, CallGoesOn DEF AtWork
<1>8. ASSUME NEW c \in Schedulers, ScheduleDistillationJobs(c) PROVE ScheduleInv'
    <2> DEFINE makes == scheduling[c].enabled /\ scheduling[c].cron \in ValidCrons
    <2>1. /\ scheduling[c].at = "decide" /\ Sched(c, NoCallOf) /\ UNCHANGED <<settings, maintained, orderly>>
        BY <1>8 DEF ScheduleDistillationJobs
    <2>2. /\ makes => /\ made' = made + 1 /\ currentTask' = made + 1
                      /\ tasks' = tasks \cup {[id |-> made + 1, cron |-> scheduling[c].cron]}
          /\ ~makes => UNCHANGED <<made, currentTask, tasks>>
        BY <1>8 DEF ScheduleDistillationJobs
    <2>3. /\ scheduling' \in [Schedulers -> ScheduleCalls] /\ OtherSchedulers(c)
          /\ scheduling'[c].at = "idle"
        BY <1>a, <2>1, OneSchedules, ScheduleFacts
    <2>4. made' \in Nat /\ currentTask' \in 0..made' /\ tasks' \subseteq [id : 1..made', cron : Crons]
        <3>1. CASE makes
            <4>1. [id |-> made + 1, cron |-> scheduling[c].cron] \in [id : 1..(made + 1), cron : Crons]
                BY <1>a, <1>k DEF ScheduleCalls
            <4>2. tasks \subseteq [id : 1..(made + 1), cron : Crons]
                BY <1>a
            <4> QED
                BY <1>a, <2>2, <3>1, <4>1, <4>2
        <3>2. CASE ~makes
            BY <1>a, <2>2, <3>2
        <3> QED
            BY <3>1, <3>2
    <2>5. ScheduleTyped'
        BY <1>a, <1>k, <1>t, <2>1, <2>3, <2>4 DEF OtherSchedulers
    <2>6. ASSUME SchedulerFits(c)
          PROVE  SchedulerFits(c)' /\ (\A t \in tasks' : t.id = currentTask') /\ tasks' = TasksOfSettings'
        <3>1. /\ tasks = {} /\ currentTask = 0 /\ ~maintained
              /\ scheduling[c].enabled = (settings.cronEnabled = TRUE)
              /\ scheduling[c].cron = CronOf(settings.cron)
            BY <2>1, <2>6 DEF SchedulerFits, AtWork
        <3>2. CronOf(settings.cron)' = CronOf(settings.cron)
            BY <2>1 DEF CronOf
        <3>3. tasks' = TasksOfSettings'
            <4>1. CASE makes
                BY <2>1, <2>2, <3>1, <3>2, <4>1 DEF TasksOfSettings
            <4>2. CASE ~makes
                BY <2>1, <2>2, <3>1, <3>2, <4>2 DEF TasksOfSettings
            <4> QED
                BY <4>1, <4>2
        <3>4. \A t \in tasks' : t.id = currentTask'
            BY <3>3 DEF TasksOfSettings
        <3>5. SchedulerFits(c)'
            BY <2>3 DEF SchedulerFits, AtWork
        <3> QED
            BY <3>3, <3>4, <3>5
    <2> QED
        BY <2>1, <2>3, <2>5, <2>6, CallGoesOn DEF AtWork
<1>9. ASSUME EnterMaintenance PROVE ScheduleInv'
    <2>1. /\ maintained' = TRUE /\ tasks' = {t \in tasks : t.id # currentTask} /\ currentTask' = 0
          /\ orderly' = (orderly /\ \A c \in Schedulers : ~AtWork(c))
          /\ UNCHANGED <<settings, made, scheduling>>
        BY <1>9 DEF EnterMaintenance, StopsTask
    <2>2. orderly' \in BOOLEAN
        BY <2>1
    <2>3. ScheduleTyped'
        BY <1>a, <1>k, <1>s, <1>t, <2>1, <2>2
    <2>4. ASSUME orderly'
          PROVE  /\ \A c \in Schedulers : ~AtWork(c)' /\ SchedulerFits(c)'
                 /\ tasks' = {} /\ tasks' = TasksOfSettings'
        <3>1. \A c \in Schedulers : scheduling'[c].at = "idle"
            BY <2>1, <2>4 DEF AtWork
        <3>2. tasks' = {}
            BY <1>s, <2>1, <2>4 DEF ScheduleFits
        <3> QED
            BY <2>1, <3>1, <3>2 DEF SchedulerFits, AtWork, TasksOfSettings
    <2>5. ScheduleFits'
        BY <2>4 DEF ScheduleFits
    <2> QED
        BY <2>3, <2>5
<1>10. ASSUME LeaveMaintenance PROVE ScheduleInv'
    <2>1. /\ maintained' = FALSE /\ Sched("maintenance", [NoCallOf EXCEPT !.at = "waits"])
          /\ orderly' = (orderly /\ Alone("maintenance")) /\ UNCHANGED <<settings, currentTask, tasks, made>>
        BY <1>10 DEF LeaveMaintenance
    <2>2. [NoCallOf EXCEPT !.at = "waits"] \in ScheduleCalls /\ [NoCallOf EXCEPT !.at = "waits"].at = "waits"
        BY ScheduleFacts DEF ScheduleCalls
    <2>3. /\ scheduling' \in [Schedulers -> ScheduleCalls] /\ OtherSchedulers("maintenance")
          /\ scheduling'["maintenance"].at = "waits" /\ "maintenance" \in Schedulers
        BY <1>a, <2>1, <2>2, OneSchedules, ScheduleFacts
    <2>4. ScheduleFits'
        BY <2>1, <2>3, CallBegins
    <2>5. orderly' \in BOOLEAN
        BY <2>1 DEF Alone
    <2>6. ScheduleTyped'
        BY <1>a, <1>k, <1>t, <2>1, <2>3, <2>5 DEF OtherSchedulers
    <2> QED
        BY <2>4, <2>6
<1>11. ASSUME ScheduleStartsAgain PROVE ScheduleInv'
    <2>1. /\ currentTask' = 0 /\ tasks' = {} /\ made' = 0 /\ maintained' = FALSE /\ orderly' = TRUE
          /\ UNCHANGED settings
          /\ scheduling' = [c \in Schedulers |->
                IF c = "start" THEN [NoCallOf EXCEPT !.at = "waits"] ELSE NoCallOf]
        BY <1>11 DEF ScheduleStartsAgain
    <2>2. [NoCallOf EXCEPT !.at = "waits"] \in ScheduleCalls /\ [NoCallOf EXCEPT !.at = "waits"].at = "waits"
        BY ScheduleFacts DEF ScheduleCalls
    <2>3. /\ scheduling' \in [Schedulers -> ScheduleCalls] /\ scheduling'["start"].at = "waits"
          /\ \A c \in Schedulers \ {"start"} : scheduling'[c].at = "idle"
        BY <2>1, <2>2, ScheduleFacts
    <2>4. ScheduleTyped'
        <3>1. made' \in Nat /\ currentTask' \in 0..made' /\ tasks' \subseteq [id : 1..made', cron : Crons]
            BY <2>1
        <3>2. \A c \in Schedulers : scheduling'[c].at \notin {"get", "put"}
            BY <2>3
        <3> QED
            BY <1>a, <1>t, <2>1, <2>3, <3>1, <3>2
    <2>5. ScheduleFits'
        BY <2>1, <2>3, ScheduleFacts DEF ScheduleFits, SchedulerFits, AtWork
    <2> QED
        BY <2>4, <2>5
<1> QED
    BY <1>1, <1>2, <1>3, <1>4, <1>5, <1>6, <1>7, <1>8, <1>9, <1>10, <1>11 DEF ScheduleNext

\* Who is scheduling, what it has read, and the task there is.
THEOREM ScheduleInvariant == ScheduleSpec => []ScheduleInv
<1>1. ScheduleInit => ScheduleInv
    <2> SUFFICES ASSUME ScheduleInit PROVE ScheduleInv
        OBVIOUS
    <2>1. [NoCallOf EXCEPT !.at = "waits"] \in ScheduleCalls /\ [NoCallOf EXCEPT !.at = "waits"].at = "waits"
        BY ScheduleFacts DEF ScheduleCalls
    <2>2. /\ scheduling \in [Schedulers -> ScheduleCalls] /\ scheduling["start"].at = "waits"
          /\ \A c \in Schedulers \ {"start"} : scheduling[c].at = "idle"
        BY <2>1, ScheduleFacts DEF ScheduleInit
    <2>3. ScheduleTyped
        <3>1. /\ settings \in PatchBodies /\ made \in Nat /\ currentTask \in 0..made
              /\ tasks \subseteq [id : 1..made, cron : Crons]
              /\ maintained \in BOOLEAN /\ orderly \in BOOLEAN
            <4>1. settings = NoPatch /\ made = 0 /\ currentTask = 0 /\ tasks = {}
                  /\ maintained = FALSE /\ orderly = TRUE
                BY DEF ScheduleInit
            <4>2. 0 \in 0..0
                OBVIOUS
            <4> QED
                BY <4>1, <4>2, ScheduleFacts
        <3>2. \A c \in Schedulers : scheduling[c].at \notin {"get", "put"}
            BY <2>2
        <3> QED
            BY <2>2, <3>1, <3>2 DEF ScheduleTyped, ScheduleTypeOK, ScheduleCalls, PatchBodies, KeysFit
    <2>4. ScheduleFits
        BY <2>2, ScheduleFacts DEF ScheduleInit, ScheduleFits, SchedulerFits, AtWork
    <2> QED
        BY <2>3, <2>4 DEF ScheduleInv
<1>2. ScheduleInv /\ [ScheduleNext]_scheduleVars => ScheduleInv'
    <2>1. ASSUME ScheduleInv, UNCHANGED scheduleVars PROVE ScheduleInv'
        BY <2>1 DEF ScheduleInv, scheduleVars, ScheduleTyped, ScheduleTypeOK, KeysFit, ScheduleFits,
                    SchedulerFits, AtWork, TasksOfSettings, CronOf
    <2> QED
        BY <2>1, ScheduleKeeps
<1> QED
    BY <1>1, <1>2, PTL DEF ScheduleSpec

\* What administrators do with proposals and what they set leaves the versions, the snapshot, the
\* page and the schedule as the property says, for any number of calls that overlap or are cut off.
THEOREM ControlIsKept == OverlaySpec /\ ScheduleSpec => []ControlKept
<1>1. ScheduleInv => ScheduleKept
    <2> SUFFICES ASSUME ScheduleInv, orderly, \A c \in Schedulers : ~AtWork(c)
                 PROVE  tasks = TasksOfSettings
        BY DEF ScheduleKept, TasksOfSettings
    <2> QED
        BY DEF ScheduleInv, ScheduleFits
<1>2. OverlayKept /\ ScheduleKept => ControlKept
    BY DEF ControlKept
<1> QED
    BY <1>1, <1>2, OverlayIsKept, ScheduleInvariant, PTL

=============================================================================
