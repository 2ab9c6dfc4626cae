----------------------- MODULE GatewayAttemptsProofs -----------------------
(***************************************************************************)
(* The loop of attempts, for any funnel, keys, budgets and answers: where   *)
(* an error may end the request (ErrorsComeLast), that a key an upstream    *)
(* has blamed is not sent to it again and that the others are asked first   *)
(* (BlamedKeysStayAway, AllAreAsked), that nothing is asked for any more    *)
(* once the client has seen a word (ShownIsFinal), and when a request may   *)
(* be sure to end with what an upstream said (EndsAreTrue).                 *)
(*                                                                         *)
(* The proofs rest on what the place in the loop says of the answer at      *)
(* hand: before the fetch it is at most a refusal of the gateway's own, an  *)
(* upstream's error is responded with on the last layer only, and the       *)
(* matrix is entered with an error that has shown nothing.                  *)
(***************************************************************************)
EXTENDS GatewayAttempts, TLAPS

BeforeFetch == {"loop", "resolve", "keys", "queued", "fetch"}

\* The counters: what is given back of an attempt has been taken before.
CountersOK ==
    /\ pc \in {"resolve", "keys", "queued", "fetch", "judge", "respond", "matrix"} => attempts >= 1
    /\ pc # "done" => cycles <= MaxCycles
    /\ pc \in {"queued", "fetch", "judge"} => key \in Keys

AnswerFits ==
    /\ pc \in BeforeFetch => answer.kind \in LocalErrors \cup {"none"}
    /\ pc = "judge" => /\ answer.kind \in AnswerKinds
                       /\ answer.key = key /\ answer.offered = offered
    /\ pc = "respond" /\ answer.kind = "stream" => answer.key \in Keys
    /\ pc = "matrix" => answer.kind \in UpstreamErrors
    /\ pc = "stage2" => answer.kind \notin UpstreamErrors
    /\ answer.retryable => Retryable(answer.kind)
    /\ \A l \in Layers : last[l].retryable => Retryable(last[l].kind)

\* An upstream's error that is on its way to the client comes from the last layer.
ErrorsAtTheEnd ==
    /\ pc \in {"respond", "failing"} /\ answer.kind \in UpstreamErrors => layer = LastLayer
    /\ ErrorsFunnelDown

\* Where another upstream call may still follow, no word has been shown.
OutputFits ==
    /\ pc \in BeforeFetch \cup {"judge", "respond", "matrix"} => output # "visible"
    /\ pc = "stage2" /\ output = "visible" => answer.kind \notin Blank

LoopInv == TypeOK /\ CountersOK /\ AnswerFits

FunnelInv == LoopInv /\ ErrorsAtTheEnd

WordsInv == LoopInv /\ OutputFits

\* A key that has been blamed is marked as tried, unless its layer is left or the request ends.
Ending(k) ==
    \/ pc \in {"failing", "done"}
    \/ pc = "matrix" /\ k = answer.key /\ answer.kind \in KeyFaults
    \/ pc = "respond" /\ answer.kind \in UpstreamErrors /\ ~answer.retryable

BlamedMarked ==
    /\ \A l \in Layers : \A k \in Keys :
          <<l, k>> \in rejected => k \in tried[l] \/ l < layer \/ (l = layer /\ Ending(k))
    /\ pc \in {"queued", "fetch"} => key \notin tried[layer]

BlameInv == LoopInv /\ BlamedMarked

\* The keys an answer was offered are keys of its layer, and they have been tried when the
\* error of a key is on its way to the client.
OffersFit ==
    /\ pc \in {"queued", "fetch", "judge"} => offered \subseteq KeysOf[ProviderOf[layer]]
    /\ \A l \in Layers : last[l].offered \subseteq KeysOf[ProviderOf[l]]
    /\ pc = "matrix" /\ answer.kind \in {"quota", "auth", "rate"} => answer.kind \in Rotatable
    /\ pc \in {"respond", "failing"} /\ answer.kind \in {"quota", "auth", "rate"} /\ ~capDone[layer]
         => answer.offered \cap active \subseteq tried[layer]
    /\ KeysTriedFirst

OffersInv == LoopInv /\ OffersFit

LEMMA FunnelFacts ==
  /\ LastLayer \in Nat \ {0} /\ RetryCount \in Nat /\ Layers = 1..LastLayer
  /\ MaxAttempts \in Nat /\ MaxAttempts >= LastLayer /\ MaxAttempts >= 1
  /\ MaxCycles \in Nat /\ MaxEmpty \in Nat /\ MaxReasoning \in Nat /\ CapRetries \in Nat
  /\ ProviderOf \in [Layers -> Providers] /\ KeysOf \in [Providers -> SUBSET Keys]
  /\ Answers \subseteq AnswerKinds
  /\ StreamEnds \subseteq {"shown", "empty", "thinking", "cut"} \cup UpstreamErrors
  /\ NoKey \notin Keys
  BY FunnelAssumption, NoKeyAssumption DEF MaxAttempts, Layers

LEMMA KindFacts ==
  /\ Kinds = AnswerKinds \cup LocalErrors \cup {"none", "spent", "shown", "thinking", "cut"}
  /\ AnswerKinds = Successes \cup UpstreamErrors \cup {"stream"}
  /\ Successes = {"ok", "empty", "reasoning"} /\ Blank = {"empty", "reasoning", "thinking"}
  /\ LocalErrors = {"disabled", "limited", "no keys", "ejected"}
  /\ UpstreamErrors = {"quota", "auth", "rate", "no credential", "down", "overloaded",
                       "no provider", "capacity", "server", "rejected", "too long", "other"}
  BY DEF Kinds, AnswerKinds, Successes, Blank, LocalErrors, UpstreamErrors, KeyFaults, Unavailable

LEMMA RetryableIsBoolean == \A kind : Retryable(kind) \in BOOLEAN
  BY DEF Retryable

\* What the loop makes of an answer
LEMMA AnswerFacts ==
  /\ NoAnswer \in AnswerRecords /\ NoAnswer.kind = "none" /\ NoAnswer.retryable = FALSE
  /\ NoAnswer.offered = {}
  /\ \A kind \in LocalErrors : /\ Error(kind) \in AnswerRecords /\ Error(kind).kind = kind
                               /\ Error(kind).retryable = FALSE
  /\ \A a \in AnswerRecords : /\ a.kind \in Kinds /\ a.key \in Keys \cup {NoKey}
                              /\ a.offered \subseteq Keys /\ a.retryable \in BOOLEAN
  /\ \A a \in AnswerRecords : \A kind \in Kinds :
        \A b : b = [a EXCEPT !.kind = kind] =>
           /\ b \in AnswerRecords /\ b.kind = kind /\ b.key = a.key
           /\ b.offered = a.offered /\ b.retryable = a.retryable
  /\ \A a \in AnswerRecords : \A x \in BOOLEAN :
        \A b : b = [a EXCEPT !.retryable = x] =>
           /\ b \in AnswerRecords /\ b.kind = a.kind /\ b.key = a.key
           /\ b.offered = a.offered /\ b.retryable = x
<1>1. NoAnswer \in AnswerRecords /\ NoAnswer.kind = "none" /\ NoAnswer.retryable = FALSE
      /\ NoAnswer.offered = {}
  BY KindFacts DEF NoAnswer, AnswerRecords
<1>2. \A a \in AnswerRecords : \A kind \in Kinds :
        \A b : b = [a EXCEPT !.kind = kind] =>
           /\ b \in AnswerRecords /\ b.kind = kind /\ b.key = a.key
           /\ b.offered = a.offered /\ b.retryable = a.retryable
  BY DEF AnswerRecords
<1>3. \A a \in AnswerRecords : \A x \in BOOLEAN :
        \A b : b = [a EXCEPT !.retryable = x] =>
           /\ b \in AnswerRecords /\ b.kind = a.kind /\ b.key = a.key
           /\ b.offered = a.offered /\ b.retryable = x
  BY DEF AnswerRecords
<1>4. \A kind \in LocalErrors : kind \in Kinds /\ Error(kind) = [NoAnswer EXCEPT !.kind = kind]
  BY KindFacts DEF Error
<1>5. \A a \in AnswerRecords : /\ a.kind \in Kinds /\ a.key \in Keys \cup {NoKey}
                               /\ a.offered \subseteq Keys /\ a.retryable \in BOOLEAN
  BY DEF AnswerRecords
<1>6. \A kind \in LocalErrors : /\ Error(kind) \in AnswerRecords /\ Error(kind).kind = kind
                                /\ Error(kind).retryable = FALSE
  BY <1>1, <1>2, <1>4
<1> QED
  BY <1>1, <1>2, <1>3, <1>5, <1>6

CounterTypes ==
    /\ pc \in Places
    /\ attempts \in 0..MaxAttempts
    /\ cycles \in 0..(MaxCycles + 1)
    /\ layer \in Layers
    /\ emptyTries \in 0..MaxEmpty
    /\ thinkTries \in 0..MaxReasoning

TargetTypes ==
    /\ tried \in [Layers -> SUBSET Keys]
    /\ preferred \in [Layers -> Keys \cup {NoKey}]
    /\ rewritten \in [Layers -> BOOLEAN]
    /\ cap \in [Layers -> 0..CapRetries]
    /\ capDone \in [Layers -> BOOLEAN]

AnswerTypes ==
    /\ last \in [Layers -> AnswerRecords]
    /\ answer \in AnswerRecords
    /\ key \in Keys \cup {NoKey}
    /\ offered \subseteq Keys
    /\ rejected \subseteq Layers \X Keys

ClientTypes ==
    /\ guardDue \in BOOLEAN /\ compressed \in BOOLEAN
    /\ output \in {"none", "thinking", "visible"}
    /\ reply \in {"open", "ok", "error", "internal", "closed"}
    /\ row \in {"none", "queued", "success", "failed"}
    /\ {streaming, connected} \subseteq BOOLEAN
    /\ active \subseteq Keys
    /\ enabled \subseteq Providers

LEMMA TypeParts == TypeOK <=> CounterTypes /\ TargetTypes /\ AnswerTypes /\ ClientTypes
  BY DEF TypeOK, CounterTypes, TargetTypes, AnswerTypes, ClientTypes

\* What a hop to the next layer may count on
Budget ==
    /\ attempts \in 0..MaxAttempts /\ layer \in Layers
    /\ Reserved(attempts) \in 0..(MaxAttempts - 1)
    /\ NextLayer => layer' \in Layers /\ MaxAttempts >= 2 /\ layer' = layer + 1
    /\ NextLayer /\ attempts >= 1 => Reserved(attempts) >= 1

LEMMA BudgetFacts == LoopInv => Budget
<1> SUFFICES ASSUME LoopInv PROVE Budget
  OBVIOUS
<1>1. attempts \in 0..MaxAttempts /\ layer \in 1..LastLayer /\ Layers = 1..LastLayer
  BY FunnelFacts DEF LoopInv, TypeOK
<1>2. Reserved(attempts) = IF attempts >= MaxAttempts THEN MaxAttempts - 1 ELSE attempts
  BY DEF Reserved
<1>3. NextLayer => layer < LastLayer /\ layer' = layer + 1
  BY DEF NextLayer, HasNext
<1> QED
  BY <1>1, <1>2, <1>3, FunnelFacts DEF Budget

\* What a judged answer leaves behind
LEMMA RecordedFacts ==
  ASSUME LoopInv, Recorded
  PROVE  /\ last' \in [Layers -> AnswerRecords] /\ capDone' \in [Layers -> BOOLEAN]
         /\ \A l \in Layers : l # layer => last'[l] = last[l] /\ capDone'[l] = capDone[l]
         /\ last'[layer].kind = answer.kind /\ last'[layer].offered = answer.offered
         /\ last'[layer].retryable => answer.retryable
         /\ capDone'[layer] = CapacitySpent
<1> DEFINE b == [answer EXCEPT !.retryable = answer.retryable /\ ~CapacitySpent]
<1>1. /\ answer \in AnswerRecords /\ last \in [Layers -> AnswerRecords]
      /\ capDone \in [Layers -> BOOLEAN] /\ layer \in Layers
  BY DEF LoopInv, TypeOK
<1>2. (answer.retryable /\ ~CapacitySpent) \in BOOLEAN /\ CapacitySpent \in BOOLEAN
  BY <1>1 DEF CapacitySpent
<1>3. /\ b \in AnswerRecords /\ b.kind = answer.kind /\ b.offered = answer.offered
      /\ b.retryable = (answer.retryable /\ ~CapacitySpent)
  BY <1>1, <1>2, AnswerFacts
<1>4. last' = [last EXCEPT ![layer] = b] /\ capDone' = [capDone EXCEPT ![layer] = CapacitySpent]
  BY DEF Recorded
<1> HIDE DEF b
<1> QED
  BY <1>1, <1>2, <1>3, <1>4

LEMMA BlameFacts ==
  ASSUME LoopInv, Blame, key \in Keys
  PROVE  /\ tried' \in [Layers -> SUBSET Keys] /\ active' \subseteq active
         /\ rejected' \subseteq Layers \X Keys /\ rejected' \subseteq rejected \cup {<<layer, key>>}
         /\ \A l \in Layers : tried[l] \subseteq tried'[l]
         /\ \A l \in Layers : l # layer => tried'[l] = tried[l]
         /\ answer.kind \notin KeyFaults => rejected' = rejected
         /\ BlamesKey /\ ~ServerRetry => key \in tried'[layer]
         /\ UNCHANGED <<streaming, connected, enabled>>
<1>1. /\ tried \in [Layers -> SUBSET Keys] /\ layer \in Layers /\ rejected \subseteq Layers \X Keys
  BY DEF LoopInv, TypeOK
<1>2. tried' = IF BlamesKey /\ ~ServerRetry
               THEN [tried EXCEPT ![layer] = @ \cup {key}] ELSE tried
  BY DEF Blame
<1>3. /\ tried' \in [Layers -> SUBSET Keys]
      /\ \A l \in Layers : tried[l] \subseteq tried'[l]
      /\ \A l \in Layers : l # layer => tried'[l] = tried[l]
      /\ BlamesKey /\ ~ServerRetry => key \in tried'[layer]
  BY <1>1, <1>2
<1>4. rejected' = IF answer.kind \in KeyFaults THEN rejected \cup {<<layer, key>>} ELSE rejected
  BY DEF Blame
<1>5. /\ rejected' \subseteq Layers \X Keys /\ rejected' \subseteq rejected \cup {<<layer, key>>}
      /\ answer.kind \notin KeyFaults => rejected' = rejected
  BY <1>1, <1>4
<1>6. active' \subseteq active /\ UNCHANGED <<streaming, connected, enabled>>
  BY DEF Blame
<1> QED
  BY <1>3, <1>5, <1>6

\* What every decision of the matrix does, whichever it is
LEMMA DecideFacts ==
  ASSUME LoopInv, DecideAfterCapacity
  PROVE  /\ pc = "matrix" /\ connected
         /\ tried' \in [Layers -> SUBSET Keys] /\ preferred' \in [Layers -> Keys \cup {NoKey}]
         /\ capDone' \in [Layers -> BOOLEAN]
         /\ \A l \in Layers : l # layer => tried'[l] = tried[l] /\ capDone'[l] = capDone[l]
         /\ \A l \in Layers : tried[l] \subseteq tried'[l]
         /\ answer.kind # "capacity" => capDone' = capDone
         /\ ~HopsFirst /\ answer.kind \in Rotatable =>
               tried'[layer] = tried[layer] \cup ({answer.key} \ {NoKey})
         /\ UNCHANGED <<cycles, guardDue, last, rewritten, cap, key, offered, emptyTries,
                        thinkTries, compressed, output, row, streaming, connected, active,
                        enabled, rejected>>
<1>1. /\ tried \in [Layers -> SUBSET Keys] /\ preferred \in [Layers -> Keys \cup {NoKey}]
      /\ capDone \in [Layers -> BOOLEAN] /\ layer \in Layers /\ answer \in AnswerRecords
  BY DEF LoopInv, TypeOK
<1>2. answer.key \in Keys \cup {NoKey}
  BY <1>1, AnswerFacts
<1>3. /\ tried' \in [Layers -> SUBSET Keys] /\ preferred' \in [Layers -> Keys \cup {NoKey}]
      /\ \A l \in Layers : l # layer => tried'[l] = tried[l]
      /\ \A l \in Layers : tried[l] \subseteq tried'[l]
      /\ ~HopsFirst /\ answer.kind \in Rotatable =>
               tried'[layer] = tried[layer] \cup ({answer.key} \ {NoKey})
  <2>1. CASE ~HopsFirst /\ answer.kind \in Rotatable \cup {"capacity"}
    <3>1. /\ tried' = [tried EXCEPT ![layer] = @ \cup ({answer.key} \ {NoKey})]
          /\ preferred' = [preferred EXCEPT ![layer] = NoKey]
      BY <2>1 DEF DecideAfterCapacity, MarkTried
    <3> QED
      BY <1>1, <1>2, <3>1
  <2>2. CASE ~(~HopsFirst /\ answer.kind \in Rotatable \cup {"capacity"})
    <3>1. tried' = tried /\ preferred' = preferred
      BY <2>2 DEF DecideAfterCapacity, MarkTried, targetKeys
    <3> QED
      BY <1>1, <2>2, <3>1
  <2> QED
    BY <2>1, <2>2
<1>4. /\ capDone' \in [Layers -> BOOLEAN] /\ (answer.kind # "capacity" => capDone' = capDone)
      /\ \A l \in Layers : l # layer => capDone'[l] = capDone[l]
  BY <1>1 DEF DecideAfterCapacity
<1>5. /\ pc = "matrix" /\ connected
      /\ UNCHANGED <<cycles, guardDue, last, rewritten, cap, key, offered, emptyTries,
                     thinkTries, compressed, output, row, streaming, connected, active,
                     enabled, rejected>>
  BY DEF DecideAfterCapacity, Deciding, selected, rescue, outside
<1> QED
  BY <1>3, <1>4, <1>5

LEMMA CounterTypesKept ==
  ASSUME LoopInv, Step \/ Disconnect \/ KeyLost \/ DisableProvider
  PROVE  CounterTypes'
<1>a. CounterTypes /\ CountersOK
  BY TypeParts DEF LoopInv, CounterTypes
<1>b. Budget
  BY BudgetFacts
<1> USE <1>a, FunnelFacts DEF CounterTypes, CountersOK, Places, targetKeys, capacity, selected,
            rescue, client, outside, target, inside
<1>1. CASE LeftBeforeAttempt
  BY <1>1 DEF LeftBeforeAttempt, Close, Logged
<1>2. CASE StartAttempt
  BY <1>2 DEF StartAttempt
<1>3. CASE LoopGuardStops
  BY <1>3 DEF LoopGuardStops
<1>4. CASE ProviderDisabled
  BY <1>4 DEF ProviderDisabled
<1>5. CASE HourlyLimit
  BY <1>5, <1>b DEF HourlyLimit, ProviderEnabled, Budget
<1>6. CASE ConcurrencyHop
  BY <1>6, <1>b DEF ConcurrencyHop, ProviderEnabled, Budget
<1>7. CASE UseProvider
  BY <1>7 DEF UseProvider, ProviderEnabled
<1>8. CASE NoActiveKeys
  BY <1>8 DEF NoActiveKeys
<1>9. CASE AllKeysTried
  <2>1. UNCHANGED <<cycles, emptyTries, thinkTries>> /\ pc' \in {"loop", "respond"}
    BY <1>9 DEF AllKeysTried, Again
  <2>2. (layer' = layer /\ attempts' = attempts) \/ (NextLayer /\ attempts' = Reserved(attempts))
    BY <1>9 DEF AllKeysTried, Again
  <2> QED
    BY <2>1, <2>2, <1>b DEF Budget
<1>10. CASE ServeFromCache
  BY <1>10 DEF ServeFromCache, Untried
<1>11. CASE SelectKey
  BY <1>11 DEF SelectKey, Selectable, Untried
<1>12. CASE SkipEjected
  BY <1>12, <1>b DEF SkipEjected, Budget
<1>13. CASE StartFetch
  BY <1>13 DEF StartFetch
<1>14. CASE FetchReturns
  BY <1>14 DEF FetchReturns, Retryable
<1>15. CASE LeftBeforeJudging
  BY <1>15 DEF LeftBeforeJudging, Close, Logged
<1>16. CASE CapacityRetry
  BY <1>16 DEF CapacityRetry, Judging, Again
<1>17. CASE BlankRetry
  BY <1>17
  DEF BlankRetry, Judging, Intervenes, CountIntervention, Again, ThinkIntervenes, EmptyIntervenes
<1>18. CASE BlankHop
  BY <1>18, <1>b DEF BlankHop, Judging, Again, Budget
<1>19. CASE AcceptAnswer
  BY <1>19, RecordedFacts
  DEF AcceptAnswer, Judging, Successes, Intervenes, CountIntervention, ThinkIntervenes,
      EmptyIntervenes
<1>20. CASE RewriteBody
  BY <1>20 DEF RewriteBody, Judging, Again
<1>21. CASE CompressContext
  <2>1. UNCHANGED <<cycles, layer, emptyTries, thinkTries>> /\ pc = "judge" /\ pc' = "loop"
        /\ attempts' = attempts - 1
    BY <1>21 DEF CompressContext, Judging, Again
  <2> QED
    BY <2>1
<1>22. CASE RetryProvider
  BY <1>22, RecordedFacts, BlameFacts DEF RetryProvider, JudgedError, Again, Judging
<1>23. CASE FallBack
  BY <1>23, RecordedFacts, BlameFacts, <1>b DEF FallBack, JudgedError, Again, Judging, Budget
<1>24. CASE RetryLastLayer
  BY <1>24, RecordedFacts, BlameFacts DEF RetryLastLayer, JudgedError, Again, Judging
<1>25. CASE GiveUp
  BY <1>25, RecordedFacts, BlameFacts DEF GiveUp, JudgedError, Judging
<1>26. CASE InternalError
  BY <1>26 DEF InternalError, Responding, Logged
<1>27. CASE LeftWhileResponding
  BY <1>27 DEF LeftWhileResponding, Responding, Successes, Logged
<1>28. CASE SendAnswer
  BY <1>28 DEF SendAnswer, Responding, Successes, Logged
<1>29. CASE SendError
  BY <1>29 DEF SendError, Responding, Logged
<1>30. CASE HandBack
  BY <1>30 DEF HandBack, Responding
<1>31. CASE ForwardFakeStream
  BY <1>31 DEF ForwardFakeStream, Responding, Successes
<1>32. CASE ForwardStream
  BY <1>32 DEF ForwardStream, Responding, KeyFaults
<1>33. CASE LeftBeforeDeciding
  BY <1>33 DEF LeftBeforeDeciding, Close, Logged
<1>34. CASE StreamCapacityRetry
  BY <1>34 DEF StreamCapacityRetry, Deciding, NewRound, Again
<1>35. CASE RotateKey
  BY <1>35, DecideFacts DEF RotateKey, NewRound, Again
<1>36. CASE StreamFallBack
  BY <1>36, DecideFacts, <1>b DEF StreamFallBack, NewRound, Again, Budget
<1>37. CASE StreamGiveUp
  BY <1>37, DecideFacts DEF StreamGiveUp
<1>38. CASE LogFailure
  BY <1>38 DEF LogFailure, Logged
<1>39. CASE Round2Retry
  BY <1>39 DEF Round2Retry, Intervenes, CountIntervention, Again, ThinkIntervenes, EmptyIntervenes
<1>40. CASE Round2Hop
  BY <1>40, <1>b DEF Round2Hop, Budget
<1>41. CASE Finalize
  BY <1>41 DEF Finalize, Intervenes, CountIntervention, Logged, ThinkIntervenes, EmptyIntervenes
<1>42. CASE Disconnect
  BY <1>42 DEF Disconnect
<1>43. CASE KeyLost
  BY <1>43 DEF KeyLost
<1>44. CASE DisableProvider
  BY <1>44 DEF DisableProvider
<1> QED
  BY <1>1, <1>2, <1>3, <1>4, <1>5, <1>6, <1>7, <1>8, <1>9, <1>10, <1>11, <1>12, <1>13, <1>14, <1>15,
     <1>16, <1>17, <1>18, <1>19, <1>20, <1>21, <1>22, <1>23, <1>24, <1>25, <1>26, <1>27, <1>28,
     <1>29, <1>30, <1>31, <1>32, <1>33, <1>34, <1>35, <1>36, <1>37, <1>38, <1>39, <1>40, <1>41,
     <1>42, <1>43, <1>44
  DEF Step, Attempt, Judge, Respond, Rescue

LEMMA TargetTypesKept ==
  ASSUME LoopInv, Step \/ Disconnect \/ KeyLost \/ DisableProvider
  PROVE  TargetTypes'
<1>a. TargetTypes /\ AnswerTypes /\ layer \in Layers /\ CountersOK
  BY TypeParts DEF LoopInv, CounterTypes
<1>b. Budget
  BY BudgetFacts
<1> USE <1>a, FunnelFacts DEF TargetTypes, AnswerTypes, CountersOK, targetKeys, capacity, selected, rescue, client,
            outside, target, inside
<1>1. CASE LeftBeforeAttempt
  BY <1>1, AnswerFacts DEF LeftBeforeAttempt, Close, Logged
<1>2. CASE StartAttempt
  BY <1>2, AnswerFacts DEF StartAttempt
<1>3. CASE LoopGuardStops
  BY <1>3, AnswerFacts DEF LoopGuardStops
<1>4. CASE ProviderDisabled
  BY <1>4, AnswerFacts DEF ProviderDisabled
<1>5. CASE HourlyLimit
  BY <1>5, <1>b, AnswerFacts DEF HourlyLimit, ProviderEnabled, Budget
<1>6. CASE ConcurrencyHop
  BY <1>6, <1>b, AnswerFacts DEF ConcurrencyHop, ProviderEnabled, Budget
<1>7. CASE UseProvider
  BY <1>7, AnswerFacts DEF UseProvider, ProviderEnabled
<1>8. CASE NoActiveKeys
  BY <1>8, AnswerFacts DEF NoActiveKeys
<1>9. CASE AllKeysTried
  BY <1>9, <1>b, AnswerFacts DEF AllKeysTried, Untried, Budget
<1>10. CASE ServeFromCache
  BY <1>10, AnswerFacts DEF ServeFromCache, Untried
<1>11. CASE SelectKey
  BY <1>11, AnswerFacts DEF SelectKey
<1>12. CASE SkipEjected
  BY <1>12, <1>b, AnswerFacts DEF SkipEjected, Budget
<1>13. CASE StartFetch
  BY <1>13, AnswerFacts DEF StartFetch
<1>14. CASE FetchReturns
  BY <1>14, AnswerFacts DEF FetchReturns, Retryable
<1>15. CASE LeftBeforeJudging
  BY <1>15, AnswerFacts DEF LeftBeforeJudging, Close, Logged
<1>16. CASE CapacityRetry
  BY <1>16, AnswerFacts DEF CapacityRetry, Judging
<1>17. CASE BlankRetry
  BY <1>17, AnswerFacts DEF BlankRetry, Judging
<1>18. CASE BlankHop
  BY <1>18, <1>b, AnswerFacts DEF BlankHop, Judging, Budget
<1>19. CASE AcceptAnswer
  BY <1>19, RecordedFacts, AnswerFacts DEF AcceptAnswer, Judging, Successes
<1>20. CASE RewriteBody
  BY <1>20, AnswerFacts DEF RewriteBody, Judging
<1>21. CASE CompressContext
  BY <1>21, AnswerFacts DEF CompressContext, Judging
<1>22. CASE RetryProvider
  BY <1>22, RecordedFacts, BlameFacts, AnswerFacts DEF RetryProvider, JudgedError, Judging
<1>23. CASE FallBack
  BY <1>23, RecordedFacts, BlameFacts, <1>b, AnswerFacts DEF FallBack, JudgedError, Judging, Budget
<1>24. CASE RetryLastLayer
  BY <1>24, RecordedFacts, BlameFacts, AnswerFacts DEF RetryLastLayer, JudgedError, Judging
<1>25. CASE GiveUp
  BY <1>25, RecordedFacts, BlameFacts, AnswerFacts DEF GiveUp, JudgedError, Judging
<1>26. CASE InternalError
  BY <1>26, AnswerFacts DEF InternalError, Responding, Logged
<1>27. CASE LeftWhileResponding
  BY <1>27, AnswerFacts DEF LeftWhileResponding, Responding, Successes, Logged
<1>28. CASE SendAnswer
  BY <1>28, AnswerFacts DEF SendAnswer, Responding, Successes, Logged
<1>29. CASE SendError
  BY <1>29, AnswerFacts DEF SendError, Responding, Logged
<1>30. CASE HandBack
  BY <1>30, AnswerFacts DEF HandBack, Responding
<1>31. CASE ForwardFakeStream
  BY <1>31, AnswerFacts DEF ForwardFakeStream, Responding, Successes
<1>32. CASE ForwardStream
  BY <1>32, AnswerFacts DEF ForwardStream, Responding
<1>33. CASE LeftBeforeDeciding
  BY <1>33, AnswerFacts DEF LeftBeforeDeciding, Close, Logged
<1>34. CASE StreamCapacityRetry
  <2>1. /\ cap' = [cap EXCEPT ![layer] = @ + 1]
        /\ capDone' = [capDone EXCEPT ![layer] = cap[layer] + 1 >= CapRetries]
        /\ preferred' = [preferred EXCEPT ![layer] = answer.key]
        /\ cap[layer] < CapRetries
        /\ UNCHANGED <<tried, rewritten>>
    BY <1>34 DEF StreamCapacityRetry, CapacitySpent
  <2>2. answer.key \in Keys \cup {NoKey}
    BY AnswerFacts
  <2>3. cap' \in [Layers -> 0..CapRetries]
    BY <2>1
  <2>4. capDone' \in [Layers -> BOOLEAN]
    BY <2>1
  <2> QED
    BY <2>1, <2>2, <2>3, <2>4
<1>35. CASE RotateKey
  BY <1>35, DecideFacts, AnswerFacts DEF RotateKey
<1>36. CASE StreamFallBack
  BY <1>36, DecideFacts, <1>b, AnswerFacts DEF StreamFallBack, Budget
<1>37. CASE StreamGiveUp
  BY <1>37, DecideFacts, AnswerFacts DEF StreamGiveUp
<1>38. CASE LogFailure
  BY <1>38, AnswerFacts DEF LogFailure, Logged
<1>39. CASE Round2Retry
  BY <1>39, AnswerFacts DEF Round2Retry
<1>40. CASE Round2Hop
  BY <1>40, <1>b, AnswerFacts DEF Round2Hop, Budget
<1>41. CASE Finalize
  BY <1>41, AnswerFacts DEF Finalize, Logged
<1>42. CASE Disconnect
  BY <1>42, AnswerFacts DEF Disconnect
<1>43. CASE KeyLost
  BY <1>43, AnswerFacts DEF KeyLost
<1>44. CASE DisableProvider
  BY <1>44, AnswerFacts DEF DisableProvider
<1> QED
  BY <1>1, <1>2, <1>3, <1>4, <1>5, <1>6, <1>7, <1>8, <1>9, <1>10, <1>11, <1>12, <1>13, <1>14, <1>15,
     <1>16, <1>17, <1>18, <1>19, <1>20, <1>21, <1>22, <1>23, <1>24, <1>25, <1>26, <1>27, <1>28,
     <1>29, <1>30, <1>31, <1>32, <1>33, <1>34, <1>35, <1>36, <1>37, <1>38, <1>39, <1>40, <1>41,
     <1>42, <1>43, <1>44
  DEF Step, Attempt, Judge, Respond, Rescue

LEMMA AnswerTypesKept ==
  ASSUME LoopInv, Step \/ Disconnect \/ KeyLost \/ DisableProvider
  PROVE  AnswerTypes'
<1>a. AnswerTypes /\ ClientTypes /\ layer \in Layers /\ CountersOK /\ AnswerFits
  BY TypeParts DEF LoopInv, CounterTypes
<1>b. Budget
  BY BudgetFacts
<1> USE <1>a, FunnelFacts DEF AnswerTypes, CountersOK, AnswerFits, targetKeys, capacity, selected, rescue, client,
            outside, target, inside
<1>1. CASE LeftBeforeAttempt
  BY <1>1, AnswerFacts, KindFacts DEF LeftBeforeAttempt, Close, Logged
<1>2. CASE StartAttempt
  BY <1>2, AnswerFacts, KindFacts DEF StartAttempt
<1>3. CASE LoopGuardStops
  BY <1>3, AnswerFacts, KindFacts DEF LoopGuardStops
<1>4. CASE ProviderDisabled
  BY <1>4, AnswerFacts, KindFacts DEF ProviderDisabled
<1>5. CASE HourlyLimit
  BY <1>5, <1>b, AnswerFacts, KindFacts DEF HourlyLimit, ProviderEnabled, Budget
<1>6. CASE ConcurrencyHop
  BY <1>6, <1>b, AnswerFacts, KindFacts DEF ConcurrencyHop, ProviderEnabled, Budget
<1>7. CASE UseProvider
  BY <1>7, AnswerFacts, KindFacts DEF UseProvider, ProviderEnabled
<1>8. CASE NoActiveKeys
  BY <1>8, AnswerFacts, KindFacts DEF NoActiveKeys, ActiveKeys
<1>9. CASE AllKeysTried
  <2>1. UNCHANGED <<last, key, offered, rejected>>
    BY <1>9 DEF AllKeysTried
  <2>2. \/ answer' = NoAnswer \/ answer' = Error("no keys") \/ answer' = last[layer]
        \/ answer' = [last[layer] EXCEPT !.kind = "spent"]
    BY <1>9 DEF AllKeysTried, Again
  <2>3. last[layer] \in AnswerRecords
    OBVIOUS
  <2>4. answer' \in AnswerRecords
    <3>1. CASE answer' = NoAnswer \/ answer' = last[layer]
      BY <2>3, <3>1, AnswerFacts
    <3>2. CASE answer' = Error("no keys")
      <4>1. "no keys" \in LocalErrors
        BY KindFacts
      <4> QED
        BY <3>2, <4>1, AnswerFacts
    <3>3. CASE answer' = [last[layer] EXCEPT !.kind = "spent"]
      <4>1. "spent" \in Kinds
        BY KindFacts
      <4> DEFINE a == last[layer]
      <4>2. a \in AnswerRecords /\ answer' = [a EXCEPT !.kind = "spent"]
        BY <2>3, <3>3
      <4> HIDE DEF a
      <4> QED
        BY <4>1, <4>2, AnswerFacts
    <3> QED
      BY <2>2, <3>1, <3>2, <3>3
  <2> QED
    BY <2>1, <2>4
<1>10. CASE ServeFromCache
  BY <1>10, AnswerFacts, KindFacts DEF ServeFromCache, Untried, ActiveKeys
<1>11. CASE SelectKey
  <2>1. Selectable \subseteq Keys /\ ActiveKeys \subseteq Keys
    BY DEF ClientTypes, Selectable, Untried, ActiveKeys
  <2>2. UNCHANGED <<last, answer, rejected>> /\ key' \in Selectable /\ offered' = ActiveKeys
    BY <1>11 DEF SelectKey
  <2> QED
    BY <2>1, <2>2
<1>12. CASE SkipEjected
  <2>1. answer' = answer \/ answer' = Error("ejected")
    BY <1>12 DEF SkipEjected
  <2>2. UNCHANGED <<last, key, offered, rejected>>
    BY <1>12 DEF SkipEjected
  <2>3. answer' \in AnswerRecords
    <3>1. "ejected" \in LocalErrors
      BY KindFacts
    <3> QED
      BY <2>1, <3>1, AnswerFacts
  <2> QED
    BY <2>2, <2>3
<1>13. CASE StartFetch
  BY <1>13, AnswerFacts, KindFacts DEF StartFetch
<1>14. CASE FetchReturns
  <2>1. PICK kind \in Answers :
          answer' = [kind |-> kind, key |-> key, offered |-> offered,
                     retryable |-> Retryable(kind)]
    BY <1>14 DEF FetchReturns
  <2>2. kind \in Kinds
    BY <2>1, KindFacts, FunnelFacts
  <2>3. answer' \in AnswerRecords
    <3>1. Retryable(kind) \in BOOLEAN
      BY RetryableIsBoolean
    <3> QED
      BY <2>1, <2>2, <3>1 DEF AnswerRecords
  <2>4. UNCHANGED <<last, key, offered, rejected>>
    BY <1>14 DEF FetchReturns
  <2> QED
    BY <2>3, <2>4
<1>15. CASE LeftBeforeJudging
  BY <1>15, AnswerFacts, KindFacts DEF LeftBeforeJudging, Close, Logged
<1>16. CASE CapacityRetry
  BY <1>16, AnswerFacts, KindFacts DEF CapacityRetry, Judging, Again
<1>17. CASE BlankRetry
  BY <1>17, AnswerFacts, KindFacts DEF BlankRetry, Judging, Again
<1>18. CASE BlankHop
  BY <1>18, <1>b, AnswerFacts, KindFacts DEF BlankHop, Judging, Again, Budget
<1>19. CASE AcceptAnswer
  <2>1. last' \in [Layers -> AnswerRecords]
    BY <1>19, RecordedFacts DEF AcceptAnswer
  <2>2. answer' = answer \/ answer' = [answer EXCEPT !.kind = "ok"]
    BY <1>19 DEF AcceptAnswer
  <2>3. answer' \in AnswerRecords
    <3>1. "ok" \in Kinds
      BY KindFacts
    <3> QED
      BY <2>2, <3>1, AnswerFacts
  <2>4. UNCHANGED <<key, offered, rejected>>
    BY <1>19 DEF AcceptAnswer
  <2> QED
    BY <2>1, <2>3, <2>4
<1>20. CASE RewriteBody
  BY <1>20, AnswerFacts, KindFacts DEF RewriteBody, Judging, Again
<1>21. CASE CompressContext
  BY <1>21, AnswerFacts, KindFacts DEF CompressContext, Judging, Again
<1>22. CASE RetryProvider
  BY <1>22, RecordedFacts, BlameFacts, AnswerFacts, KindFacts
  DEF RetryProvider, JudgedError, Again, Judging
<1>23. CASE FallBack
  BY <1>23, RecordedFacts, BlameFacts, <1>b, AnswerFacts, KindFacts
  DEF FallBack, JudgedError, Again, Judging, Budget
<1>24. CASE RetryLastLayer
  BY <1>24, RecordedFacts, BlameFacts, AnswerFacts, KindFacts
  DEF RetryLastLayer, JudgedError, Again, Judging
<1>25. CASE GiveUp
  BY <1>25, RecordedFacts, BlameFacts, AnswerFacts, KindFacts DEF GiveUp, JudgedError, Judging
<1>26. CASE InternalError
  BY <1>26, AnswerFacts, KindFacts DEF InternalError, Responding, Logged
<1>27. CASE LeftWhileResponding
  BY <1>27, AnswerFacts, KindFacts DEF LeftWhileResponding, Responding, Successes, Logged
<1>28. CASE SendAnswer
  BY <1>28, AnswerFacts, KindFacts DEF SendAnswer, Responding, Successes, Logged
<1>29. CASE SendError
  BY <1>29, AnswerFacts, KindFacts DEF SendError, Responding, IsError, Logged
<1>30. CASE HandBack
  BY <1>30, AnswerFacts, KindFacts DEF HandBack, Responding, IsError
<1>31. CASE ForwardFakeStream
  BY <1>31, AnswerFacts, KindFacts DEF ForwardFakeStream, Responding, Successes
<1>32. CASE ForwardStream
  <2>1. PICK end \in StreamEnds :
          /\ answer' = [answer EXCEPT !.kind = end]
          /\ rejected' = IF end \in KeyFaults
                         THEN rejected \cup {<<layer, answer.key>>} ELSE rejected
    BY <1>32 DEF ForwardStream
  <2>2. end \in Kinds
    BY <2>1, KindFacts, FunnelFacts
  <2>3. answer' \in AnswerRecords
    BY <2>1, <2>2, AnswerFacts
  <2>4. answer.key \in Keys
    BY <1>32 DEF ForwardStream, Responding
  <2>5. UNCHANGED <<last, key, offered>>
    BY <1>32 DEF ForwardStream
  <2> QED
    BY <2>1, <2>3, <2>4, <2>5
<1>33. CASE LeftBeforeDeciding
  BY <1>33, AnswerFacts, KindFacts DEF LeftBeforeDeciding, Close, Logged
<1>34. CASE StreamCapacityRetry
  BY <1>34, AnswerFacts, KindFacts DEF StreamCapacityRetry, Deciding, NewRound, Again
<1>35. CASE RotateKey
  <2>1. UNCHANGED <<last, key, offered, rejected>>
    BY <1>35, DecideFacts DEF RotateKey
  <2>2. answer' = NoAnswer
    BY <1>35 DEF RotateKey, NewRound, Again
  <2> QED
    BY <2>1, <2>2, AnswerFacts
<1>36. CASE StreamFallBack
  <2>1. UNCHANGED <<last, key, offered, rejected>>
    BY <1>36, DecideFacts DEF StreamFallBack
  <2>2. answer' = NoAnswer
    BY <1>36 DEF StreamFallBack, NewRound, Again
  <2> QED
    BY <2>1, <2>2, AnswerFacts
<1>37. CASE StreamGiveUp
  <2>1. UNCHANGED <<last, key, offered, rejected>>
    BY <1>37, DecideFacts DEF StreamGiveUp
  <2>2. answer' = answer
    BY <1>37 DEF StreamGiveUp
  <2> QED
    BY <2>1, <2>2
<1>38. CASE LogFailure
  BY <1>38, AnswerFacts, KindFacts DEF LogFailure, Logged
<1>39. CASE Round2Retry
  BY <1>39, AnswerFacts, KindFacts DEF Round2Retry, Again
<1>40. CASE Round2Hop
  BY <1>40, <1>b, AnswerFacts, KindFacts DEF Round2Hop, Budget
<1>41. CASE Finalize
  BY <1>41, AnswerFacts, KindFacts DEF Finalize, Logged
<1>42. CASE Disconnect
  BY <1>42, AnswerFacts, KindFacts DEF Disconnect
<1>43. CASE KeyLost
  BY <1>43, AnswerFacts, KindFacts DEF KeyLost
<1>44. CASE DisableProvider
  BY <1>44, AnswerFacts, KindFacts DEF DisableProvider
<1> QED
  BY <1>1, <1>2, <1>3, <1>4, <1>5, <1>6, <1>7, <1>8, <1>9, <1>10, <1>11, <1>12, <1>13, <1>14, <1>15,
     <1>16, <1>17, <1>18, <1>19, <1>20, <1>21, <1>22, <1>23, <1>24, <1>25, <1>26, <1>27, <1>28,
     <1>29, <1>30, <1>31, <1>32, <1>33, <1>34, <1>35, <1>36, <1>37, <1>38, <1>39, <1>40, <1>41,
     <1>42, <1>43, <1>44
  DEF Step, Attempt, Judge, Respond, Rescue

LEMMA ClientTypesKept ==
  ASSUME LoopInv, Step \/ Disconnect \/ KeyLost \/ DisableProvider
  PROVE  ClientTypes'
<1>a. ClientTypes /\ CountersOK
  BY TypeParts DEF LoopInv, CounterTypes
<1>b. Budget
  BY BudgetFacts
<1> USE <1>a, FunnelFacts DEF ClientTypes, CountersOK, targetKeys, capacity, selected, rescue, client, outside,
            target, inside
<1>1. CASE LeftBeforeAttempt
  BY <1>1 DEF LeftBeforeAttempt, Close, Logged
<1>2. CASE StartAttempt
  BY <1>2 DEF StartAttempt
<1>3. CASE LoopGuardStops
  BY <1>3 DEF LoopGuardStops
<1>4. CASE ProviderDisabled
  BY <1>4 DEF ProviderDisabled
<1>5. CASE HourlyLimit
  BY <1>5, <1>b DEF HourlyLimit, ProviderEnabled, Budget
<1>6. CASE ConcurrencyHop
  BY <1>6, <1>b DEF ConcurrencyHop, ProviderEnabled, Budget
<1>7. CASE UseProvider
  BY <1>7 DEF UseProvider, ProviderEnabled
<1>8. CASE NoActiveKeys
  BY <1>8 DEF NoActiveKeys, ActiveKeys
<1>9. CASE AllKeysTried
  BY <1>9, <1>b DEF AllKeysTried, ActiveKeys, Untried, Budget
<1>10. CASE ServeFromCache
  BY <1>10 DEF ServeFromCache, Untried, ActiveKeys
<1>11. CASE SelectKey
  BY <1>11 DEF SelectKey, ActiveKeys
<1>12. CASE SkipEjected
  BY <1>12, <1>b DEF SkipEjected, Budget
<1>13. CASE StartFetch
  BY <1>13 DEF StartFetch
<1>14. CASE FetchReturns
  BY <1>14 DEF FetchReturns, Retryable
<1>15. CASE LeftBeforeJudging
  BY <1>15 DEF LeftBeforeJudging, Close, Logged
<1>16. CASE CapacityRetry
  BY <1>16 DEF CapacityRetry, Judging
<1>17. CASE BlankRetry
  BY <1>17 DEF BlankRetry, Judging, CountIntervention, ThinkIntervenes, EmptyIntervenes
<1>18. CASE BlankHop
  BY <1>18, <1>b DEF BlankHop, Judging, Budget
<1>19. CASE AcceptAnswer
  BY <1>19, RecordedFacts
  DEF AcceptAnswer, Judging, Successes, CountIntervention, ThinkIntervenes, EmptyIntervenes
<1>20. CASE RewriteBody
  BY <1>20 DEF RewriteBody, Judging
<1>21. CASE CompressContext
  BY <1>21 DEF CompressContext, Judging
<1>22. CASE RetryProvider
  BY <1>22, RecordedFacts, BlameFacts DEF RetryProvider, JudgedError, Judging
<1>23. CASE FallBack
  BY <1>23, RecordedFacts, BlameFacts, <1>b DEF FallBack, JudgedError, Judging, Budget
<1>24. CASE RetryLastLayer
  BY <1>24, RecordedFacts, BlameFacts DEF RetryLastLayer, JudgedError, Judging
<1>25. CASE GiveUp
  BY <1>25, RecordedFacts, BlameFacts DEF GiveUp, JudgedError, Judging
<1>26. CASE InternalError
  BY <1>26 DEF InternalError, Responding, Logged
<1>27. CASE LeftWhileResponding
  BY <1>27 DEF LeftWhileResponding, Responding, Successes, Logged
<1>28. CASE SendAnswer
  BY <1>28 DEF SendAnswer, Responding, Successes, Logged
<1>29. CASE SendError
  BY <1>29 DEF SendError, Responding, Logged
<1>30. CASE HandBack
  BY <1>30 DEF HandBack, Responding
<1>31. CASE ForwardFakeStream
  BY <1>31 DEF ForwardFakeStream, Responding, Successes
<1>32. CASE ForwardStream
  BY <1>32 DEF ForwardStream, Responding, KeyFaults
<1>33. CASE LeftBeforeDeciding
  BY <1>33 DEF LeftBeforeDeciding, Close, Logged
<1>34. CASE StreamCapacityRetry
  BY <1>34 DEF StreamCapacityRetry, Deciding
<1>35. CASE RotateKey
  BY <1>35, DecideFacts DEF RotateKey
<1>36. CASE StreamFallBack
  BY <1>36, DecideFacts, <1>b DEF StreamFallBack, Budget
<1>37. CASE StreamGiveUp
  BY <1>37, DecideFacts DEF StreamGiveUp
<1>38. CASE LogFailure
  BY <1>38 DEF LogFailure, Logged
<1>39. CASE Round2Retry
  BY <1>39 DEF Round2Retry, CountIntervention, ThinkIntervenes, EmptyIntervenes
<1>40. CASE Round2Hop
  BY <1>40, <1>b DEF Round2Hop, Budget
<1>41. CASE Finalize
  BY <1>41 DEF Finalize, CountIntervention, Logged, ThinkIntervenes, EmptyIntervenes
<1>42. CASE Disconnect
  BY <1>42 DEF Disconnect
<1>43. CASE KeyLost
  BY <1>43 DEF KeyLost
<1>44. CASE DisableProvider
  BY <1>44 DEF DisableProvider
<1> QED
  BY <1>1, <1>2, <1>3, <1>4, <1>5, <1>6, <1>7, <1>8, <1>9, <1>10, <1>11, <1>12, <1>13, <1>14, <1>15,
     <1>16, <1>17, <1>18, <1>19, <1>20, <1>21, <1>22, <1>23, <1>24, <1>25, <1>26, <1>27, <1>28,
     <1>29, <1>30, <1>31, <1>32, <1>33, <1>34, <1>35, <1>36, <1>37, <1>38, <1>39, <1>40, <1>41,
     <1>42, <1>43, <1>44
  DEF Step, Attempt, Judge, Respond, Rescue

LEMMA CountersKept ==
  ASSUME LoopInv, Step \/ Disconnect \/ KeyLost \/ DisableProvider
  PROVE  CountersOK'
<1>a. CounterTypes /\ CountersOK /\ active \subseteq Keys
  BY TypeParts DEF LoopInv, CounterTypes, ClientTypes
<1>b. Budget
  BY BudgetFacts
<1> USE <1>a, FunnelFacts DEF CounterTypes, CountersOK, Places, targetKeys, capacity, selected,
            rescue, client, outside, target, inside
<1>1. CASE LeftBeforeAttempt
  BY <1>1 DEF LeftBeforeAttempt, Close
<1>2. CASE StartAttempt
  BY <1>2 DEF StartAttempt
<1>3. CASE LoopGuardStops
  BY <1>3 DEF LoopGuardStops
<1>4. CASE ProviderDisabled
  BY <1>4 DEF ProviderDisabled
<1>5. CASE HourlyLimit
  BY <1>5 DEF HourlyLimit, ProviderEnabled
<1>6. CASE ConcurrencyHop
  BY <1>6 DEF ConcurrencyHop, ProviderEnabled
<1>7. CASE UseProvider
  BY <1>7 DEF UseProvider, ProviderEnabled
<1>8. CASE NoActiveKeys
  BY <1>8 DEF NoActiveKeys
<1>9. CASE AllKeysTried
  <2>1. pc = "keys" /\ UNCHANGED cycles
    BY <1>9 DEF AllKeysTried
  <2>2. pc' = "loop" \/ (pc' = "respond" /\ UNCHANGED attempts)
    BY <1>9 DEF AllKeysTried, Again
  <2> QED
    BY <2>1, <2>2
<1>10. CASE ServeFromCache
  BY <1>10 DEF ServeFromCache, Untried
<1>11. CASE SelectKey
  <2>1. Selectable \subseteq Keys
    BY DEF Selectable, Untried, ActiveKeys
  <2>2. pc = "keys" /\ pc' = "queued" /\ UNCHANGED <<attempts, cycles>> /\ key' \in Selectable
    BY <1>11 DEF SelectKey
  <2> QED
    BY <2>1, <2>2
<1>12. CASE SkipEjected
  BY <1>12 DEF SkipEjected
<1>13. CASE StartFetch
  BY <1>13 DEF StartFetch
<1>14. CASE FetchReturns
  BY <1>14 DEF FetchReturns
<1>15. CASE LeftBeforeJudging
  BY <1>15 DEF LeftBeforeJudging, Close
<1>16. CASE CapacityRetry
  BY <1>16 DEF CapacityRetry, Judging, Again
<1>17. CASE BlankRetry
  <2>1. pc' = "loop" /\ cycles < MaxCycles /\ cycles' = cycles + 1
    BY <1>17 DEF BlankRetry, Again
  <2> QED
    BY <2>1
<1>18. CASE BlankHop
  BY <1>18 DEF BlankHop, Judging, Again
<1>19. CASE AcceptAnswer
  BY <1>19 DEF AcceptAnswer, Judging
<1>20. CASE RewriteBody
  BY <1>20 DEF RewriteBody, Judging, Again
<1>21. CASE CompressContext
  BY <1>21 DEF CompressContext, Judging, Again
<1>22. CASE RetryProvider
  BY <1>22 DEF RetryProvider, JudgedError, Again, Judging
<1>23. CASE FallBack
  BY <1>23 DEF FallBack, JudgedError, Again, Judging
<1>24. CASE RetryLastLayer
  BY <1>24 DEF RetryLastLayer, JudgedError, Again, Judging
<1>25. CASE GiveUp
  BY <1>25 DEF GiveUp, JudgedError, Judging
<1>26. CASE InternalError
  BY <1>26 DEF InternalError, Responding
<1>27. CASE LeftWhileResponding
  BY <1>27 DEF LeftWhileResponding, Responding
<1>28. CASE SendAnswer
  BY <1>28 DEF SendAnswer, Responding
<1>29. CASE SendError
  BY <1>29 DEF SendError, Responding
<1>30. CASE HandBack
  BY <1>30 DEF HandBack, Responding
<1>31. CASE ForwardFakeStream
  BY <1>31 DEF ForwardFakeStream, Responding
<1>32. CASE ForwardStream
  BY <1>32 DEF ForwardStream, Responding
<1>33. CASE LeftBeforeDeciding
  BY <1>33 DEF LeftBeforeDeciding, Close
<1>34. CASE StreamCapacityRetry
  BY <1>34 DEF StreamCapacityRetry, Deciding, NewRound, Again
<1>35. CASE RotateKey
  BY <1>35, DecideFacts DEF RotateKey, NewRound, Again
<1>36. CASE StreamFallBack
  BY <1>36, DecideFacts DEF StreamFallBack, NewRound, Again
<1>37. CASE StreamGiveUp
  BY <1>37, DecideFacts DEF StreamGiveUp
<1>38. CASE LogFailure
  BY <1>38 DEF LogFailure
<1>39. CASE Round2Retry
  <2>1. pc' = "loop" /\ cycles < MaxCycles /\ cycles' = cycles + 1
    BY <1>39 DEF Round2Retry, Again
  <2> QED
    BY <2>1
<1>40. CASE Round2Hop
  <2>1. pc = "stage2" /\ cycles' = cycles + 1 /\ pc' = IF cycles < MaxCycles THEN "loop" ELSE "done"
    BY <1>40 DEF Round2Hop
  <2> QED
    BY <2>1
<1>41. CASE Finalize
  BY <1>41 DEF Finalize
<1>42. CASE Disconnect
  BY <1>42 DEF Disconnect
<1>43. CASE KeyLost
  BY <1>43 DEF KeyLost
<1>44. CASE DisableProvider
  BY <1>44 DEF DisableProvider
<1> QED
  BY <1>1, <1>2, <1>3, <1>4, <1>5, <1>6, <1>7, <1>8, <1>9, <1>10, <1>11, <1>12, <1>13, <1>14, <1>15,
     <1>16, <1>17, <1>18, <1>19, <1>20, <1>21, <1>22, <1>23, <1>24, <1>25, <1>26, <1>27, <1>28,
     <1>29, <1>30, <1>31, <1>32, <1>33, <1>34, <1>35, <1>36, <1>37, <1>38, <1>39, <1>40, <1>41,
     <1>42, <1>43, <1>44
  DEF Step, Attempt, Judge, Respond, Rescue

LEMMA RetryableKinds ==
  /\ \A kind : Retryable(kind) => kind \in UpstreamErrors
  /\ "stream" \notin UpstreamErrors
  /\ \A kind \in Successes \cup Blank \cup LocalErrors : kind \notin UpstreamErrors
<1>1. \A kind : Retryable(kind) => kind \in {"rate", "overloaded", "auth", "no provider", "capacity"}
  BY DEF Retryable
<1> QED
  BY <1>1, KindFacts

LEMMA AnswerKept ==
  ASSUME LoopInv, Step \/ Disconnect \/ KeyLost \/ DisableProvider
  PROVE  AnswerFits'
<1>a. AnswerTypes /\ AnswerFits /\ layer \in Layers /\ CountersOK
  BY TypeParts DEF LoopInv, CounterTypes
<1>b. Budget
  BY BudgetFacts
<1> USE <1>a DEF AnswerTypes, CountersOK, AnswerFits, BeforeFetch, targetKeys, capacity, selected,
            rescue, client, outside, target, inside
<1>1. CASE LeftBeforeAttempt
  BY <1>1, AnswerFacts DEF LeftBeforeAttempt, Close
<1>2. CASE StartAttempt
  <2>1. UNCHANGED last /\ pc \in BeforeFetch /\ pc' \in BeforeFetch \cup {"respond"}
    BY <1>2 DEF StartAttempt
  <2>2. UNCHANGED answer
    BY <1>2 DEF StartAttempt
  <2>3. "stream" \notin LocalErrors
    BY KindFacts
  <2> QED
    BY <2>1, <2>2, <2>3, AnswerFacts
<1>3. CASE LoopGuardStops
  BY <1>3, AnswerFacts DEF LoopGuardStops
<1>4. CASE ProviderDisabled
  <2>1. UNCHANGED last /\ pc \in BeforeFetch /\ pc' \in BeforeFetch \cup {"respond"}
    BY <1>4 DEF ProviderDisabled
  <2>2. UNCHANGED answer \/ answer' = Error("disabled")
    BY <1>4 DEF ProviderDisabled
  <2>3. "disabled" \in LocalErrors /\ "stream" \notin LocalErrors
    BY KindFacts
  <2> QED
    BY <2>1, <2>2, <2>3, AnswerFacts
<1>5. CASE HourlyLimit
  <2>1. UNCHANGED last /\ pc \in BeforeFetch /\ pc' \in BeforeFetch \cup {"respond"}
    BY <1>5 DEF HourlyLimit, ProviderEnabled
  <2>2. UNCHANGED answer \/ answer' = Error("limited")
    BY <1>5 DEF HourlyLimit, ProviderEnabled
  <2>3. "limited" \in LocalErrors /\ "stream" \notin LocalErrors
    BY KindFacts
  <2> QED
    BY <2>1, <2>2, <2>3, AnswerFacts
<1>6. CASE ConcurrencyHop
  BY <1>6, <1>b, AnswerFacts DEF ConcurrencyHop, ProviderEnabled, Budget
<1>7. CASE UseProvider
  BY <1>7, AnswerFacts DEF UseProvider, ProviderEnabled
<1>8. CASE NoActiveKeys
  <2>1. UNCHANGED last /\ pc \in BeforeFetch /\ pc' \in BeforeFetch \cup {"respond"}
    BY <1>8 DEF NoActiveKeys
  <2>2. answer' = Error("no keys")
    BY <1>8 DEF NoActiveKeys
  <2>3. "no keys" \in LocalErrors /\ "stream" \notin LocalErrors
    BY KindFacts
  <2> QED
    BY <2>1, <2>2, <2>3, AnswerFacts
<1>9. CASE AllKeysTried
  <2>1. pc = "keys" /\ UNCHANGED last
    BY <1>9 DEF AllKeysTried
  <2>2. CASE pc' = "loop" /\ answer' = NoAnswer
    BY <2>1, <2>2, AnswerFacts, KindFacts
  <2>3. CASE pc' = "respond" /\ last[layer].kind = "none" /\ answer' = Error("no keys")
    BY <2>1, <2>3, AnswerFacts, KindFacts
  <2>4. CASE pc' = "respond" /\ last[layer].kind = "stream"
             /\ answer' = [last[layer] EXCEPT !.kind = "spent"]
    <3> DEFINE a == last[layer]
    <3>1. a \in AnswerRecords /\ a.kind = "stream" /\ ~a.retryable
      BY <2>4, RetryableKinds
    <3>2. "spent" \in Kinds
      BY KindFacts
    <3>3. answer' = [a EXCEPT !.kind = "spent"]
      BY <2>4
    <3> HIDE DEF a
    <3>4. answer'.kind = "spent" /\ ~answer'.retryable
      BY <3>1, <3>2, <3>3, AnswerFacts
    <3> QED
      BY <2>1, <2>4, <3>4
  <2>5. CASE pc' = "respond" /\ last[layer].kind # "stream" /\ answer' = last[layer]
    BY <2>1, <2>5
  <2> QED
    BY <1>9, <2>2, <2>3, <2>4, <2>5 DEF AllKeysTried, Again
<1>10. CASE ServeFromCache
  BY <1>10, AnswerFacts DEF ServeFromCache, Untried, ActiveKeys
<1>11. CASE SelectKey
  BY <1>11, AnswerFacts DEF SelectKey, Selectable, ActiveKeys, Untried
<1>12. CASE SkipEjected
  <2>1. UNCHANGED last /\ pc \in BeforeFetch /\ pc' \in BeforeFetch \cup {"respond"}
    BY <1>12 DEF SkipEjected
  <2>2. UNCHANGED answer \/ answer' = Error("ejected")
    BY <1>12 DEF SkipEjected
  <2>3. "ejected" \in LocalErrors /\ "stream" \notin LocalErrors
    BY KindFacts
  <2> QED
    BY <2>1, <2>2, <2>3, AnswerFacts
<1>13. CASE StartFetch
  BY <1>13, AnswerFacts DEF StartFetch
<1>14. CASE FetchReturns
  <2>1. PICK kind \in Answers :
          answer' = [kind |-> kind, key |-> key, offered |-> offered,
                     retryable |-> Retryable(kind)]
    BY <1>14 DEF FetchReturns
  <2>2. /\ answer'.kind \in AnswerKinds /\ answer'.key = key /\ answer'.offered = offered
        /\ answer'.retryable => Retryable(answer'.kind)
    BY <2>1, FunnelFacts
  <2>3. pc' = "judge" /\ UNCHANGED <<last, key, offered>>
    BY <1>14 DEF FetchReturns
  <2> QED
    BY <2>2, <2>3
<1>15. CASE LeftBeforeJudging
  BY <1>15, AnswerFacts DEF LeftBeforeJudging, Close
<1>16. CASE CapacityRetry
  BY <1>16, AnswerFacts DEF CapacityRetry, Judging, Again
<1>17. CASE BlankRetry
  BY <1>17, AnswerFacts DEF BlankRetry, Judging, Again
<1>18. CASE BlankHop
  BY <1>18, <1>b, AnswerFacts DEF BlankHop, Judging, Again, Budget
<1>19. CASE AcceptAnswer
  <2>1. \A l \in Layers : last'[l].retryable => Retryable(last'[l].kind)
    BY <1>19, RecordedFacts DEF AcceptAnswer
  <2>2. /\ pc = "judge" /\ pc' = "respond"
        /\ answer' = answer \/ (answer.kind \in Blank /\ answer' = [answer EXCEPT !.kind = "ok"])
    BY <1>19 DEF AcceptAnswer, Judging, Exhausted
  <2>3. CASE answer' = answer
    BY <2>1, <2>2, <2>3
  <2>4. CASE answer.kind \in Blank /\ answer' = [answer EXCEPT !.kind = "ok"]
    <3>1. "ok" \in Kinds
      BY KindFacts
    <3>2. answer'.kind = "ok" /\ answer'.retryable = answer.retryable
      BY <2>4, <3>1, AnswerFacts
    <3>3. ~answer.retryable
      BY <2>4, RetryableKinds
    <3> QED
      BY <2>1, <2>2, <3>2, <3>3
  <2> QED
    BY <2>2, <2>3, <2>4
<1>20. CASE RewriteBody
  BY <1>20, AnswerFacts DEF RewriteBody, Judging, Again
<1>21. CASE CompressContext
  BY <1>21, AnswerFacts DEF CompressContext, Judging, Again
<1>22. CASE RetryProvider
  <2>1. \A l \in Layers : last'[l].retryable => Retryable(last'[l].kind)
    BY <1>22, RecordedFacts DEF RetryProvider
  <2>2. pc' = "loop" /\ answer' = NoAnswer
    BY <1>22 DEF RetryProvider, Again
  <2> QED
    BY <2>1, <2>2, AnswerFacts
<1>23. CASE FallBack
  <2>1. \A l \in Layers : last'[l].retryable => Retryable(last'[l].kind)
    BY <1>23, RecordedFacts DEF FallBack
  <2>2. pc' = "loop" /\ answer' = NoAnswer
    BY <1>23 DEF FallBack, Again
  <2> QED
    BY <2>1, <2>2, AnswerFacts
<1>24. CASE RetryLastLayer
  <2>1. \A l \in Layers : last'[l].retryable => Retryable(last'[l].kind)
    BY <1>24, RecordedFacts DEF RetryLastLayer
  <2>2. pc' = "loop" /\ answer' = NoAnswer
    BY <1>24 DEF RetryLastLayer, Again
  <2> QED
    BY <2>1, <2>2, AnswerFacts
<1>25. CASE GiveUp
  <2>1. \A l \in Layers : last'[l].retryable => Retryable(last'[l].kind)
    BY <1>25, RecordedFacts DEF GiveUp
  <2>2. answer' = [answer EXCEPT !.retryable = answer.retryable /\ ~CapacitySpent]
    BY <1>25 DEF GiveUp
  <2>3. (answer.retryable /\ ~CapacitySpent) \in BOOLEAN
    OBVIOUS
  <2>4. answer'.kind = answer.kind /\ answer'.key = answer.key
        /\ (answer'.retryable => answer.retryable)
    BY <2>2, <2>3, AnswerFacts
  <2>5. pc = "judge" /\ pc' = "respond"
    BY <1>25 DEF GiveUp, JudgedError, Judging
  <2> QED
    BY <2>1, <2>4, <2>5
<1>26. CASE InternalError
  BY <1>26, AnswerFacts DEF InternalError, Responding
<1>27. CASE LeftWhileResponding
  BY <1>27, AnswerFacts DEF LeftWhileResponding, Responding
<1>28. CASE SendAnswer
  BY <1>28, AnswerFacts DEF SendAnswer, Responding
<1>29. CASE SendError
  <2>1. UNCHANGED <<answer, last>> /\ (pc' = "done" \/ (pc' = "stage2" /\ answer.kind \in LocalErrors))
    BY <1>29 DEF SendError
  <2> QED
    BY <2>1, RetryableKinds
<1>30. CASE HandBack
  <2>1. pc' = "matrix" /\ answer.retryable /\ UNCHANGED <<answer, last>>
    BY <1>30 DEF HandBack
  <2> QED
    BY <2>1, RetryableKinds
<1>31. CASE ForwardFakeStream
  <2>1. UNCHANGED <<answer, last>> /\ pc' = "stage2" /\ answer.kind \in Successes
    BY <1>31 DEF ForwardFakeStream
  <2> QED
    BY <2>1, RetryableKinds
<1>32. CASE ForwardStream
  <2>1. PICK end \in StreamEnds :
          /\ answer' = [answer EXCEPT !.kind = end]
          /\ pc' = CASE end \in {"shown", "empty", "thinking"} -> "stage2"
                     [] end = "cut" -> "failing"
                     [] OTHER -> "matrix"
    BY <1>32 DEF ForwardStream
  <2>2. end \in Kinds
    BY KindFacts, FunnelFacts
  <2>3. answer'.kind = end /\ answer'.retryable = answer.retryable
    BY <2>1, <2>2, AnswerFacts
  <2>4. UNCHANGED last /\ ~answer.retryable
    BY <1>32, RetryableKinds DEF ForwardStream
  <2>5. pc' = "stage2" => end \notin UpstreamErrors
    BY <2>1, KindFacts
  <2>6. pc' = "matrix" => end \in UpstreamErrors
    BY <2>1, FunnelFacts
  <2>7. pc' \in {"stage2", "failing", "matrix"}
    BY <2>1
  <2> QED
    BY <2>3, <2>4, <2>5, <2>6, <2>7
<1>33. CASE LeftBeforeDeciding
  BY <1>33, AnswerFacts DEF LeftBeforeDeciding, Close
<1>34. CASE StreamCapacityRetry
  BY <1>34, AnswerFacts DEF StreamCapacityRetry, Deciding, NewRound, Again
<1>35. CASE RotateKey
  <2>1. UNCHANGED last
    BY <1>35, DecideFacts DEF RotateKey
  <2>2. pc' = "loop" /\ answer' = NoAnswer
    BY <1>35 DEF RotateKey, NewRound, Again
  <2> QED
    BY <2>1, <2>2, AnswerFacts
<1>36. CASE StreamFallBack
  <2>1. UNCHANGED last
    BY <1>36, DecideFacts DEF StreamFallBack
  <2>2. pc' = "loop" /\ answer' = NoAnswer
    BY <1>36 DEF StreamFallBack, NewRound, Again
  <2> QED
    BY <2>1, <2>2, AnswerFacts
<1>37. CASE StreamGiveUp
  <2>1. UNCHANGED last
    BY <1>37, DecideFacts DEF StreamGiveUp
  <2>2. pc' = "failing" /\ UNCHANGED answer
    BY <1>37 DEF StreamGiveUp, NewRound, Again
  <2> QED
    BY <2>1, <2>2, AnswerFacts
<1>38. CASE LogFailure
  BY <1>38, AnswerFacts DEF LogFailure
<1>39. CASE Round2Retry
  BY <1>39, AnswerFacts DEF Round2Retry, Again
<1>40. CASE Round2Hop
  BY <1>40, <1>b, AnswerFacts DEF Round2Hop, Budget
<1>41. CASE Finalize
  BY <1>41, AnswerFacts DEF Finalize
<1>42. CASE Disconnect
  BY <1>42, AnswerFacts DEF Disconnect
<1>43. CASE KeyLost
  BY <1>43, AnswerFacts DEF KeyLost
<1>44. CASE DisableProvider
  BY <1>44, AnswerFacts DEF DisableProvider
<1> QED
  BY <1>1, <1>2, <1>3, <1>4, <1>5, <1>6, <1>7, <1>8, <1>9, <1>10, <1>11, <1>12, <1>13, <1>14, <1>15,
     <1>16, <1>17, <1>18, <1>19, <1>20, <1>21, <1>22, <1>23, <1>24, <1>25, <1>26, <1>27, <1>28,
     <1>29, <1>30, <1>31, <1>32, <1>33, <1>34, <1>35, <1>36, <1>37, <1>38, <1>39, <1>40, <1>41,
     <1>42, <1>43, <1>44
  DEF Step, Attempt, Judge, Respond, Rescue

LEMMA LoopInit == Init => LoopInv
<1> SUFFICES ASSUME Init PROVE LoopInv
  OBVIOUS
<1>1. CounterTypes
  BY FunnelFacts DEF Init, CounterTypes, Places
<1>2. TargetTypes
  BY FunnelFacts DEF Init, TargetTypes
<1>3. AnswerTypes
  BY AnswerFacts DEF Init, AnswerTypes
<1>4. ClientTypes
  BY FunnelAssumption DEF Init, ClientTypes
<1>5. CountersOK
  BY FunnelFacts DEF Init, CountersOK
<1>6. AnswerFits
  BY AnswerFacts DEF Init, AnswerFits, BeforeFetch
<1> QED
  BY <1>1, <1>2, <1>3, <1>4, <1>5, <1>6, TypeParts DEF LoopInv

LEMMA LoopKept ==
  ASSUME LoopInv, Step \/ Disconnect \/ KeyLost \/ DisableProvider
  PROVE  LoopInv'
<1>1. CounterTypes' /\ TargetTypes' /\ AnswerTypes' /\ ClientTypes'
  BY CounterTypesKept, TargetTypesKept, AnswerTypesKept, ClientTypesKept
<1>2. TypeOK'
  BY <1>1 DEF TypeOK, CounterTypes, TargetTypes, AnswerTypes, ClientTypes
<1> QED
  BY <1>2, CountersKept, AnswerKept DEF LoopInv

LEMMA LoopStutters ==
  ASSUME LoopInv, UNCHANGED vars
  PROVE  LoopInv'
<1>1. /\ UNCHANGED <<pc, attempts, cycles, layer, guardDue, tried, preferred, last, rewritten, cap>>
      /\ UNCHANGED <<capDone, key, offered, answer, emptyTries, thinkTries, compressed, output>>
      /\ UNCHANGED <<reply, row, streaming, connected, active, enabled, rejected>>
  BY DEF vars, target, targetKeys, capacity, selected, rescue, client, outside
<1>2. TypeOK'
  BY <1>1 DEF LoopInv, TypeOK
<1>3. CountersOK'
  BY <1>1 DEF LoopInv, CountersOK
<1>4. AnswerFits'
  BY <1>1 DEF LoopInv, AnswerFits
<1> QED
  BY <1>2, <1>3, <1>4 DEF LoopInv

\* The loop keeps its types, gives back only attempts it has taken, and at every place the
\* answer at hand is of a kind that place can handle (the while loop of executeGatewayRequest).
THEOREM LoopInvariant == Spec => []LoopInv
<1>1. Init => LoopInv
  BY LoopInit
<1>2. LoopInv /\ [Next]_vars => LoopInv'
  BY LoopKept, LoopStutters DEF Next, Ended
<1> QED
  BY <1>1, <1>2, PTL DEF Spec

LEMMA ErrorsKept ==
  ASSUME FunnelInv, Step \/ Disconnect \/ KeyLost \/ DisableProvider
  PROVE  ErrorsAtTheEnd'
<1>a. /\ AnswerFits /\ ErrorsAtTheEnd /\ layer \in Layers /\ answer \in AnswerRecords
      /\ last \in [Layers -> AnswerRecords]
  BY DEF FunnelInv, LoopInv, TypeOK
<1>b. HasNext \/ layer = LastLayer
  BY <1>a, FunnelFacts DEF HasNext
<1> USE <1>a, <1>b DEF ErrorsAtTheEnd, ErrorsFunnelDown, AnswerFits, BeforeFetch, targetKeys, capacity,
            selected, rescue, client, outside, target, inside
<1>1. CASE LeftBeforeAttempt
  BY <1>1 DEF LeftBeforeAttempt, Close
<1>2. CASE StartAttempt
  <2>1. pc \in BeforeFetch /\ pc' \in BeforeFetch \cup {"respond"}
    BY <1>2 DEF StartAttempt
  <2>2. UNCHANGED answer
    BY <1>2 DEF StartAttempt
  <2>3. \A kind \in LocalErrors \cup {"none"} : kind \notin UpstreamErrors
    BY KindFacts
  <2> QED
    BY <2>1, <2>2, <2>3, AnswerFacts
<1>3. CASE LoopGuardStops
  BY <1>3 DEF LoopGuardStops
<1>4. CASE ProviderDisabled
  <2>1. pc \in BeforeFetch /\ pc' \in BeforeFetch \cup {"respond"}
    BY <1>4 DEF ProviderDisabled
  <2>2. UNCHANGED answer \/ answer' = Error("disabled")
    BY <1>4 DEF ProviderDisabled
  <2>3. "disabled" \in LocalErrors /\ \A kind \in LocalErrors \cup {"none"} : kind \notin UpstreamErrors
    BY KindFacts
  <2> QED
    BY <2>1, <2>2, <2>3, AnswerFacts
<1>5. CASE HourlyLimit
  <2>1. pc \in BeforeFetch /\ pc' \in BeforeFetch \cup {"respond"}
    BY <1>5 DEF HourlyLimit, ProviderEnabled
  <2>2. UNCHANGED answer \/ answer' = Error("limited")
    BY <1>5 DEF HourlyLimit, ProviderEnabled
  <2>3. "limited" \in LocalErrors /\ \A kind \in LocalErrors \cup {"none"} : kind \notin UpstreamErrors
    BY KindFacts
  <2> QED
    BY <2>1, <2>2, <2>3, AnswerFacts
<1>6. CASE ConcurrencyHop
  BY <1>6 DEF ConcurrencyHop, ProviderEnabled
<1>7. CASE UseProvider
  BY <1>7 DEF UseProvider, ProviderEnabled
<1>8. CASE NoActiveKeys
  <2>1. answer' = Error("no keys")
    BY <1>8 DEF NoActiveKeys
  <2>2. "no keys" \in LocalErrors /\ "no keys" \notin UpstreamErrors
    BY KindFacts
  <2>3. answer'.kind = "no keys"
    BY <2>1, <2>2, AnswerFacts
  <2> QED
    BY <2>2, <2>3
<1>9. CASE AllKeysTried
  <2>1. pc = "keys" /\ (pc' = "loop" \/ (pc' = "respond" /\ UNCHANGED layer))
    BY <1>9 DEF AllKeysTried, Again
  <2>2. CASE pc' = "loop"
    BY <2>2
  <2>3. CASE pc' = "respond" /\ IsError(last[layer])
    BY <1>9, <2>1, <2>3 DEF AllKeysTried, Again
  <2>4. CASE pc' = "respond" /\ ~IsError(last[layer])
    <3> DEFINE last0 == last[layer]
               spent == [last0 EXCEPT !.kind = "spent"]
               noKeys == Error("no keys")
    <3>1. answer' = noKeys \/ answer' = spent \/ answer' = last0
      BY <1>9, <2>4 DEF AllKeysTried, Again
    <3>2. "no keys" \in LocalErrors /\ "spent" \notin UpstreamErrors
          /\ "no keys" \notin UpstreamErrors
      BY KindFacts
    <3>3. noKeys.kind = "no keys"
      BY <3>2, AnswerFacts
    <3>4. last0 \in AnswerRecords /\ last0.kind \notin UpstreamErrors
      BY <2>4 DEF IsError
    <3> HIDE DEF last0, noKeys
    <3>5. spent.kind = "spent"
      BY <3>4 DEF AnswerRecords
    <3> HIDE DEF spent
    <3>6. answer'.kind \notin UpstreamErrors
      BY <3>1, <3>2, <3>3, <3>4, <3>5
    <3> QED
      BY <2>1, <2>4, <3>6
  <2> QED
    BY <2>1, <2>2, <2>3, <2>4
<1>10. CASE ServeFromCache
  BY <1>10 DEF ServeFromCache, Untried, ActiveKeys
<1>11. CASE SelectKey
  BY <1>11 DEF SelectKey, Selectable, ActiveKeys, Untried
<1>12. CASE SkipEjected
  <2>1. pc \in BeforeFetch /\ pc' \in BeforeFetch \cup {"respond"}
    BY <1>12 DEF SkipEjected
  <2>2. UNCHANGED answer \/ answer' = Error("ejected")
    BY <1>12 DEF SkipEjected
  <2>3. "ejected" \in LocalErrors /\ \A kind \in LocalErrors \cup {"none"} : kind \notin UpstreamErrors
    BY KindFacts
  <2> QED
    BY <2>1, <2>2, <2>3, AnswerFacts
<1>13. CASE StartFetch
  BY <1>13 DEF StartFetch
<1>14. CASE FetchReturns
  BY <1>14 DEF FetchReturns
<1>15. CASE LeftBeforeJudging
  BY <1>15 DEF LeftBeforeJudging, Close
<1>16. CASE CapacityRetry
  BY <1>16 DEF CapacityRetry, Judging, Again
<1>17. CASE BlankRetry
  BY <1>17 DEF BlankRetry, Judging, Again
<1>18. CASE BlankHop
  BY <1>18 DEF BlankHop, Judging, Again
<1>19. CASE AcceptAnswer
  <2>1. /\ pc = "judge" /\ pc' = "respond" /\ answer.kind \in Successes \cup {"stream"}
        /\ answer' = answer \/ answer' = [answer EXCEPT !.kind = "ok"]
    BY <1>19 DEF AcceptAnswer, Judging
  <2>2. "ok" \in Kinds /\ "ok" \notin UpstreamErrors
    BY KindFacts
  <2>3. [answer EXCEPT !.kind = "ok"].kind = "ok"
    BY <2>2, AnswerFacts
  <2> QED
    BY <2>1, <2>2, <2>3, RetryableKinds
<1>20. CASE RewriteBody
  BY <1>20 DEF RewriteBody, Judging, Again
<1>21. CASE CompressContext
  BY <1>21 DEF CompressContext, Judging, Again
<1>22. CASE RetryProvider
  <2>1. pc' = "loop"
    BY <1>22 DEF RetryProvider, Again
  <2> QED
    BY <2>1
<1>23. CASE FallBack
  <2>1. pc' = "loop"
    BY <1>23 DEF FallBack, Again
  <2> QED
    BY <2>1
<1>24. CASE RetryLastLayer
  <2>1. pc' = "loop"
    BY <1>24 DEF RetryLastLayer, Again
  <2> QED
    BY <2>1
<1>25. CASE GiveUp
  <2>1. pc = "judge" /\ pc' = "respond" /\ UNCHANGED layer /\ ~HasNext
    BY <1>25 DEF GiveUp, JudgedError, Judging
  <2> QED
    BY <2>1
<1>26. CASE InternalError
  BY <1>26 DEF InternalError, Responding
<1>27. CASE LeftWhileResponding
  BY <1>27 DEF LeftWhileResponding, Responding
<1>28. CASE SendAnswer
  BY <1>28 DEF SendAnswer, Responding
<1>29. CASE SendError
  BY <1>29 DEF SendError, Responding, IsError
<1>30. CASE HandBack
  BY <1>30 DEF HandBack, Responding, IsError
<1>31. CASE ForwardFakeStream
  BY <1>31 DEF ForwardFakeStream, Responding
<1>32. CASE ForwardStream
  <2>1. PICK end \in StreamEnds :
          /\ answer' = [answer EXCEPT !.kind = end]
          /\ pc' = CASE end \in {"shown", "empty", "thinking"} -> "stage2"
                     [] end = "cut" -> "failing"
                     [] OTHER -> "matrix"
    BY <1>32 DEF ForwardStream
  <2>2. CASE pc' # "failing"
    BY <2>1, <2>2
  <2>3. CASE pc' = "failing"
    <3>1. end = "cut" /\ end \in Kinds /\ end \notin UpstreamErrors
      BY <2>1, <2>3, KindFacts
    <3>2. answer'.kind = "cut"
      BY <2>1, <3>1, AnswerFacts
    <3> QED
      BY <2>3, <3>1, <3>2
  <2> QED
    BY <2>2, <2>3
<1>33. CASE LeftBeforeDeciding
  BY <1>33 DEF LeftBeforeDeciding, Close
<1>34. CASE StreamCapacityRetry
  BY <1>34 DEF StreamCapacityRetry, Deciding, NewRound, Again
<1>35. CASE RotateKey
  <2>1. pc' = "loop"
    BY <1>35 DEF RotateKey, NewRound, Again
  <2> QED
    BY <2>1
<1>36. CASE StreamFallBack
  <2>1. pc' = "loop"
    BY <1>36 DEF StreamFallBack, NewRound, Again
  <2> QED
    BY <2>1
<1>37. CASE StreamGiveUp
  <2>1. pc' = "failing" /\ UNCHANGED <<layer, answer>> /\ ~HasNext
    BY <1>37 DEF StreamGiveUp
  <2> QED
    BY <2>1
<1>38. CASE LogFailure
  BY <1>38 DEF LogFailure
<1>39. CASE Round2Retry
  BY <1>39 DEF Round2Retry, Again
<1>40. CASE Round2Hop
  <2>1. answer' = NoAnswer /\ "none" \notin UpstreamErrors
    BY <1>40, KindFacts DEF Round2Hop
  <2> QED
    BY <2>1, AnswerFacts
<1>41. CASE Finalize
  <2>1. pc = "stage2" /\ pc' = "done" /\ UNCHANGED answer
    BY <1>41 DEF Finalize
  <2> QED
    BY <2>1
<1>42. CASE Disconnect
  BY <1>42 DEF Disconnect
<1>43. CASE KeyLost
  BY <1>43 DEF KeyLost
<1>44. CASE DisableProvider
  BY <1>44 DEF DisableProvider
<1> QED
  BY <1>1, <1>2, <1>3, <1>4, <1>5, <1>6, <1>7, <1>8, <1>9, <1>10, <1>11, <1>12, <1>13, <1>14, <1>15,
     <1>16, <1>17, <1>18, <1>19, <1>20, <1>21, <1>22, <1>23, <1>24, <1>25, <1>26, <1>27, <1>28,
     <1>29, <1>30, <1>31, <1>32, <1>33, <1>34, <1>35, <1>36, <1>37, <1>38, <1>39, <1>40, <1>41,
     <1>42, <1>43, <1>44
  DEF Step, Attempt, Judge, Respond, Rescue

\* An upstream's error reaches the client from the last layer only, whatever the upstreams
\* answer, the keys, budgets and funnel are (checkErrorFallback and the decision matrix).
THEOREM ErrorsComeLast == Spec => []ErrorsFunnelDown
<1>1. Init => ErrorsAtTheEnd
  BY DEF Init, ErrorsAtTheEnd, ErrorsFunnelDown
<1>2. LoopInv /\ ErrorsAtTheEnd /\ [Next]_vars => ErrorsAtTheEnd'
  <2>1. ASSUME LoopInv, ErrorsAtTheEnd, UNCHANGED vars
        PROVE  ErrorsAtTheEnd'
    BY <2>1 DEF ErrorsAtTheEnd, ErrorsFunnelDown, vars, client
  <2> QED
    BY <2>1, ErrorsKept DEF Next, Ended, FunnelInv
<1>3. ErrorsAtTheEnd => ErrorsFunnelDown
  BY DEF ErrorsAtTheEnd
<1> QED
  BY <1>1, <1>2, <1>3, LoopInvariant, PTL DEF Spec

LEMMA WordsKept ==
  ASSUME WordsInv, Step \/ Disconnect \/ KeyLost \/ DisableProvider
  PROVE  OutputFits'
<1>a. LoopInv /\ OutputFits /\ answer \in AnswerRecords
  BY DEF WordsInv, LoopInv, TypeOK
<1> USE <1>a DEF OutputFits, BeforeFetch, targetKeys, capacity, selected, rescue, client, outside,
            target, inside
<1>1. CASE LeftBeforeAttempt
  BY <1>1 DEF LeftBeforeAttempt, Close
<1>2. CASE StartAttempt
  BY <1>2 DEF StartAttempt
<1>3. CASE LoopGuardStops
  BY <1>3 DEF LoopGuardStops
<1>4. CASE ProviderDisabled
  BY <1>4 DEF ProviderDisabled
<1>5. CASE HourlyLimit
  BY <1>5 DEF HourlyLimit, ProviderEnabled
<1>6. CASE ConcurrencyHop
  BY <1>6 DEF ConcurrencyHop, ProviderEnabled
<1>7. CASE UseProvider
  BY <1>7 DEF UseProvider, ProviderEnabled
<1>8. CASE NoActiveKeys
  BY <1>8 DEF NoActiveKeys
<1>9. CASE AllKeysTried
  <2>1. pc = "keys" /\ pc' \in {"loop", "respond"} /\ UNCHANGED output
    BY <1>9 DEF AllKeysTried, Again
  <2> QED
    BY <2>1
<1>10. CASE ServeFromCache
  BY <1>10 DEF ServeFromCache
<1>11. CASE SelectKey
  BY <1>11 DEF SelectKey
<1>12. CASE SkipEjected
  BY <1>12 DEF SkipEjected
<1>13. CASE StartFetch
  BY <1>13 DEF StartFetch
<1>14. CASE FetchReturns
  BY <1>14 DEF FetchReturns
<1>15. CASE LeftBeforeJudging
  BY <1>15 DEF LeftBeforeJudging, Close
<1>16. CASE CapacityRetry
  <2>1. pc = "judge" /\ pc' = "loop" /\ UNCHANGED output
    BY <1>16 DEF CapacityRetry, Judging, Again
  <2> QED
    BY <2>1
<1>17. CASE BlankRetry
  <2>1. pc = "judge" /\ pc' = "loop" /\ UNCHANGED output
    BY <1>17 DEF BlankRetry, Judging, Again
  <2> QED
    BY <2>1
<1>18. CASE BlankHop
  <2>1. pc = "judge" /\ pc' = "loop" /\ UNCHANGED output
    BY <1>18 DEF BlankHop, Judging, Again
  <2> QED
    BY <2>1
<1>19. CASE AcceptAnswer
  <2>1. pc = "judge" /\ pc' = "respond" /\ UNCHANGED output
    BY <1>19 DEF AcceptAnswer, Judging
  <2> QED
    BY <2>1
<1>20. CASE RewriteBody
  <2>1. pc = "judge" /\ pc' = "loop" /\ UNCHANGED output
    BY <1>20 DEF RewriteBody, Judging, Again
  <2> QED
    BY <2>1
<1>21. CASE CompressContext
  <2>1. pc = "judge" /\ pc' = "loop" /\ UNCHANGED output
    BY <1>21 DEF CompressContext, Judging, Again
  <2> QED
    BY <2>1
<1>22. CASE RetryProvider
  <2>1. pc = "judge" /\ pc' = "loop" /\ UNCHANGED output
    BY <1>22 DEF RetryProvider, JudgedError, Judging, Again
  <2> QED
    BY <2>1
<1>23. CASE FallBack
  <2>1. pc = "judge" /\ pc' = "loop" /\ UNCHANGED output
    BY <1>23 DEF FallBack, JudgedError, Judging, Again
  <2> QED
    BY <2>1
<1>24. CASE RetryLastLayer
  <2>1. pc = "judge" /\ pc' = "loop" /\ UNCHANGED output
    BY <1>24 DEF RetryLastLayer, JudgedError, Judging, Again
  <2> QED
    BY <2>1
<1>25. CASE GiveUp
  <2>1. pc = "judge" /\ pc' = "respond" /\ UNCHANGED output
    BY <1>25 DEF GiveUp, JudgedError, Judging
  <2> QED
    BY <2>1
<1>26. CASE InternalError
  BY <1>26 DEF InternalError, Responding
<1>27. CASE LeftWhileResponding
  BY <1>27 DEF LeftWhileResponding, Responding
<1>28. CASE SendAnswer
  BY <1>28 DEF SendAnswer, Responding
<1>29. CASE SendError
  BY <1>29 DEF SendError, Responding
<1>30. CASE HandBack
  BY <1>30 DEF HandBack, Responding
<1>31. CASE ForwardFakeStream
  <2>1. /\ pc = "respond" /\ pc' = "stage2" /\ UNCHANGED answer /\ answer.kind \in Successes
        /\ output' = CASE answer.kind = "ok" -> "visible"
                       [] answer.kind = "reasoning" /\ output = "none" -> "thinking"
                       [] OTHER -> output
    BY <1>31 DEF ForwardFakeStream, Responding
  <2> QED
    BY <2>1, KindFacts
<1>32. CASE ForwardStream
  <2>1. PICK end \in StreamEnds :
          /\ answer' = [answer EXCEPT !.kind = end]
          /\ pc' = CASE end \in {"shown", "empty", "thinking"} -> "stage2"
                     [] end = "cut" -> "failing"
                     [] OTHER -> "matrix"
          /\ output' = CASE end \in {"shown", "cut"} -> "visible"
                         [] end = "thinking" /\ output = "none" -> "thinking"
                         [] OTHER -> output
    BY <1>32 DEF ForwardStream
  <2>2. pc = "respond"
    BY <1>32 DEF ForwardStream, Responding
  <2>3. CASE pc' = "stage2" /\ end = "shown"
    <3>1. end \in Kinds /\ end \notin Blank
      BY <2>3, KindFacts
    <3>2. answer'.kind = end
      BY <2>1, <3>1, AnswerFacts
    <3> QED
      BY <2>3, <3>1, <3>2
  <2>4. CASE pc' = "stage2" /\ end # "shown"
    BY <2>1, <2>2, <2>4
  <2>5. CASE pc' = "matrix"
    BY <2>1, <2>2, <2>5
  <2>6. CASE pc' = "failing"
    BY <2>6
  <2> QED
    BY <2>1, <2>3, <2>4, <2>5, <2>6
<1>33. CASE LeftBeforeDeciding
  BY <1>33 DEF LeftBeforeDeciding, Close
<1>34. CASE StreamCapacityRetry
  BY <1>34 DEF StreamCapacityRetry, Deciding, NewRound, Again
<1>35. CASE RotateKey
  <2>1. pc = "matrix" /\ pc' = "loop" /\ UNCHANGED output
    BY <1>35, DecideFacts DEF RotateKey, NewRound, Again
  <2> QED
    BY <2>1
<1>36. CASE StreamFallBack
  <2>1. pc = "matrix" /\ pc' = "loop" /\ UNCHANGED output
    BY <1>36, DecideFacts DEF StreamFallBack, NewRound, Again
  <2> QED
    BY <2>1
<1>37. CASE StreamGiveUp
  <2>1. pc' = "failing"
    BY <1>37 DEF StreamGiveUp
  <2> QED
    BY <2>1
<1>38. CASE LogFailure
  BY <1>38 DEF LogFailure
<1>39. CASE Round2Retry
  <2>1. pc = "stage2" /\ pc' = "loop" /\ UNCHANGED output /\ answer.kind \in Blank
    BY <1>39, KindFacts DEF Round2Retry, Again, Intervenes, ThinkIntervenes, EmptyIntervenes
  <2> QED
    BY <2>1
<1>40. CASE Round2Hop
  <2>1. /\ pc = "stage2" /\ pc' \in {"loop", "done"} /\ UNCHANGED output
        /\ answer.kind \in Blank
    BY <1>40 DEF Round2Hop, Exhausted
  <2> QED
    BY <2>1
<1>41. CASE Finalize
  <2>1. pc' = "done"
    BY <1>41 DEF Finalize
  <2> QED
    BY <2>1
<1>42. CASE Disconnect
  BY <1>42 DEF Disconnect
<1>43. CASE KeyLost
  BY <1>43 DEF KeyLost
<1>44. CASE DisableProvider
  BY <1>44 DEF DisableProvider
<1> QED
  BY <1>1, <1>2, <1>3, <1>4, <1>5, <1>6, <1>7, <1>8, <1>9, <1>10, <1>11, <1>12, <1>13, <1>14, <1>15,
     <1>16, <1>17, <1>18, <1>19, <1>20, <1>21, <1>22, <1>23, <1>24, <1>25, <1>26, <1>27, <1>28,
     <1>29, <1>30, <1>31, <1>32, <1>33, <1>34, <1>35, <1>36, <1>37, <1>38, <1>39, <1>40, <1>41,
     <1>42, <1>43, <1>44
  DEF Step, Attempt, Judge, Respond, Rescue

LEMMA FetchComesFromTheQueue ==
  ASSUME LoopInv, Step \/ Disconnect \/ KeyLost \/ DisableProvider, pc # "fetch", pc' = "fetch"
  PROVE  pc = "queued"
<1> USE DEF targetKeys, capacity, selected, rescue, client, outside, target, inside
<1>1. CASE LeftBeforeAttempt
  BY <1>1 DEF LeftBeforeAttempt, Close
<1>2. CASE StartAttempt
  BY <1>2 DEF StartAttempt
<1>3. CASE LoopGuardStops
  BY <1>3 DEF LoopGuardStops
<1>4. CASE ProviderDisabled
  BY <1>4 DEF ProviderDisabled
<1>5. CASE HourlyLimit
  BY <1>5 DEF HourlyLimit, ProviderEnabled
<1>6. CASE ConcurrencyHop
  BY <1>6 DEF ConcurrencyHop, ProviderEnabled
<1>7. CASE UseProvider
  BY <1>7 DEF UseProvider, ProviderEnabled
<1>8. CASE NoActiveKeys
  BY <1>8 DEF NoActiveKeys
<1>9. CASE AllKeysTried
  <2>1. pc = "keys" /\ pc' \in {"loop", "respond"} /\ UNCHANGED output
    BY <1>9 DEF AllKeysTried, Again
  <2> QED
    BY <2>1
<1>10. CASE ServeFromCache
  BY <1>10 DEF ServeFromCache
<1>11. CASE SelectKey
  BY <1>11 DEF SelectKey
<1>12. CASE SkipEjected
  BY <1>12 DEF SkipEjected
<1>13. CASE StartFetch
  BY <1>13 DEF StartFetch
<1>14. CASE FetchReturns
  BY <1>14 DEF FetchReturns
<1>15. CASE LeftBeforeJudging
  BY <1>15 DEF LeftBeforeJudging, Close
<1>16. CASE CapacityRetry
  <2>1. pc = "judge" /\ pc' = "loop" /\ UNCHANGED output
    BY <1>16 DEF CapacityRetry, Judging, Again
  <2> QED
    BY <2>1
<1>17. CASE BlankRetry
  <2>1. pc = "judge" /\ pc' = "loop" /\ UNCHANGED output
    BY <1>17 DEF BlankRetry, Judging, Again
  <2> QED
    BY <2>1
<1>18. CASE BlankHop
  <2>1. pc = "judge" /\ pc' = "loop" /\ UNCHANGED output
    BY <1>18 DEF BlankHop, Judging, Again
  <2> QED
    BY <2>1
<1>19. CASE AcceptAnswer
  <2>1. pc = "judge" /\ pc' = "respond" /\ UNCHANGED output
    BY <1>19 DEF AcceptAnswer, Judging
  <2> QED
    BY <2>1
<1>20. CASE RewriteBody
  <2>1. pc = "judge" /\ pc' = "loop" /\ UNCHANGED output
    BY <1>20 DEF RewriteBody, Judging, Again
  <2> QED
    BY <2>1
<1>21. CASE CompressContext
  <2>1. pc = "judge" /\ pc' = "loop" /\ UNCHANGED output
    BY <1>21 DEF CompressContext, Judging, Again
  <2> QED
    BY <2>1
<1>22. CASE RetryProvider
  <2>1. pc = "judge" /\ pc' = "loop" /\ UNCHANGED output
    BY <1>22 DEF RetryProvider, JudgedError, Judging, Again
  <2> QED
    BY <2>1
<1>23. CASE FallBack
  <2>1. pc = "judge" /\ pc' = "loop" /\ UNCHANGED output
    BY <1>23 DEF FallBack, JudgedError, Judging, Again
  <2> QED
    BY <2>1
<1>24. CASE RetryLastLayer
  <2>1. pc = "judge" /\ pc' = "loop" /\ UNCHANGED output
    BY <1>24 DEF RetryLastLayer, JudgedError, Judging, Again
  <2> QED
    BY <2>1
<1>25. CASE GiveUp
  <2>1. pc = "judge" /\ pc' = "respond" /\ UNCHANGED output
    BY <1>25 DEF GiveUp, JudgedError, Judging
  <2> QED
    BY <2>1
<1>26. CASE InternalError
  BY <1>26 DEF InternalError, Responding
<1>27. CASE LeftWhileResponding
  BY <1>27 DEF LeftWhileResponding, Responding
<1>28. CASE SendAnswer
  BY <1>28 DEF SendAnswer, Responding
<1>29. CASE SendError
  BY <1>29 DEF SendError, Responding
<1>30. CASE HandBack
  BY <1>30 DEF HandBack, Responding
<1>31. CASE ForwardFakeStream
  BY <1>31 DEF ForwardFakeStream, Responding
<1>32. CASE ForwardStream
  BY <1>32 DEF ForwardStream, Responding
<1>33. CASE LeftBeforeDeciding
  BY <1>33 DEF LeftBeforeDeciding, Close
<1>34. CASE StreamCapacityRetry
  BY <1>34 DEF StreamCapacityRetry, Deciding, NewRound, Again
<1>35. CASE RotateKey
  <2>1. pc = "matrix" /\ pc' = "loop" /\ UNCHANGED output
    BY <1>35, DecideFacts DEF RotateKey, NewRound, Again
  <2> QED
    BY <2>1
<1>36. CASE StreamFallBack
  <2>1. pc = "matrix" /\ pc' = "loop" /\ UNCHANGED output
    BY <1>36, DecideFacts DEF StreamFallBack, NewRound, Again
  <2> QED
    BY <2>1
<1>37. CASE StreamGiveUp
  <2>1. pc' = "failing"
    BY <1>37 DEF StreamGiveUp
  <2> QED
    BY <2>1
<1>38. CASE LogFailure
  BY <1>38 DEF LogFailure
<1>39. CASE Round2Retry
  <2>1. pc = "stage2" /\ pc' = "loop" /\ UNCHANGED output /\ answer.kind \in Blank
    BY <1>39, KindFacts DEF Round2Retry, Again, Intervenes, ThinkIntervenes, EmptyIntervenes
  <2> QED
    BY <2>1
<1>40. CASE Round2Hop
  <2>1. /\ pc = "stage2" /\ pc' \in {"loop", "done"} /\ UNCHANGED output
        /\ answer.kind \in Blank
    BY <1>40 DEF Round2Hop, Exhausted
  <2> QED
    BY <2>1
<1>41. CASE Finalize
  <2>1. pc' = "done"
    BY <1>41 DEF Finalize
  <2> QED
    BY <2>1
<1>42. CASE Disconnect
  BY <1>42 DEF Disconnect
<1>43. CASE KeyLost
  BY <1>43 DEF KeyLost
<1>44. CASE DisableProvider
  BY <1>44 DEF DisableProvider
<1> QED
  BY <1>1, <1>2, <1>3, <1>4, <1>5, <1>6, <1>7, <1>8, <1>9, <1>10, <1>11, <1>12, <1>13, <1>14, <1>15,
     <1>16, <1>17, <1>18, <1>19, <1>20, <1>21, <1>22, <1>23, <1>24, <1>25, <1>26, <1>27, <1>28,
     <1>29, <1>30, <1>31, <1>32, <1>33, <1>34, <1>35, <1>36, <1>37, <1>38, <1>39, <1>40, <1>41,
     <1>42, <1>43, <1>44
  DEF Step, Attempt, Judge, Respond, Rescue

\* Once the client has seen a word of the answer no other upstream call begins, in any
\* funnel and however often the streams break (the matrix and the continuity check).
THEOREM ShownIsFinal == Spec => NoFetchAfterVisible
<1>1. Init => OutputFits
  BY DEF Init, OutputFits
<1>2. LoopInv /\ OutputFits /\ [Next]_vars => OutputFits'
  <2>1. ASSUME LoopInv, OutputFits, UNCHANGED vars
        PROVE  OutputFits'
    BY <2>1 DEF OutputFits, vars, client
  <2> QED
    BY <2>1, WordsKept DEF Next, Ended, WordsInv
<1>3. LoopInv /\ OutputFits /\ [Next]_vars
        => [pc # "fetch" /\ pc' = "fetch" => output # "visible"]_vars
  <2>1. ASSUME LoopInv, OutputFits, Next, pc # "fetch", pc' = "fetch"
        PROVE  output # "visible"
    <3>1. CASE Ended
      BY <2>1, <3>1 DEF Ended, vars
    <3>2. CASE Step \/ Disconnect \/ KeyLost \/ DisableProvider
      BY <2>1, <3>2, FetchComesFromTheQueue DEF OutputFits, BeforeFetch
    <3> QED
      BY <2>1, <3>1, <3>2 DEF Next
  <2> QED
    BY <2>1
<1> QED
  BY <1>1, <1>2, <1>3, LoopInvariant, PTL DEF Spec, NoFetchAfterVisible

\* Where no key is on its way to be marked: a step that keeps what is blamed keeps the invariant.
Unblaming == {"loop", "resolve", "keys", "queued", "fetch", "judge", "stage2"}

LEMMA StaysMarked ==
  ASSUME BlameInv, pc \in Unblaming \/ pc' \in {"failing", "done"}, pc' \notin {"queued", "fetch"},
         rejected' \subseteq rejected, \A l \in Layers : tried[l] \subseteq tried'[l],
         layer' \in {layer, layer + 1}
  PROVE  BlamedMarked'
<1>1. layer \in Nat /\ layer' \in Nat /\ layer' >= layer /\ Layers \subseteq Nat
  BY FunnelFacts DEF BlameInv, LoopInv, TypeOK
<1>2. ASSUME NEW l \in Layers, NEW k \in Keys, <<l, k>> \in rejected'
      PROVE  k \in tried'[l] \/ l < layer' \/ (l = layer' /\ Ending(k)')
  <2>1. k \in tried[l] \/ l < layer \/ (l = layer /\ Ending(k))
    BY <1>2 DEF BlameInv, BlamedMarked
  <2>2. CASE k \in tried[l] \/ l < layer
    BY <1>1, <2>2
  <2>3. CASE l = layer /\ Ending(k)
    <3>1. pc' \in {"failing", "done"}
      BY <2>3 DEF Ending, Unblaming
    <3>2. Ending(k)'
      BY <3>1 DEF Ending
    <3> QED
      BY <1>1, <2>3, <3>2
  <2> QED
    BY <2>1, <2>2, <2>3
<1> QED
  BY <1>2 DEF BlamedMarked

LEMMA BlameKept ==
  ASSUME BlameInv, Step \/ Disconnect \/ KeyLost \/ DisableProvider
  PROVE  BlamedMarked'
<1>a. LoopInv /\ BlamedMarked
  BY DEF BlameInv
<1>b. /\ AnswerFits /\ CountersOK /\ layer \in Layers /\ layer \in Nat /\ Layers \subseteq Nat
      /\ answer \in AnswerRecords /\ tried \in [Layers -> SUBSET Keys]
      /\ rejected \subseteq Layers \X Keys
  BY FunnelFacts DEF BlameInv, LoopInv, TypeOK
<1> USE <1>a, <1>b DEF targetKeys, capacity, selected, rescue, client, outside, target, inside
<1>1. CASE LeftBeforeAttempt
  <2>1. /\ pc \in Unblaming \/ pc' \in {"failing", "done"}
        /\ pc' \notin {"queued", "fetch"} /\ UNCHANGED <<rejected, tried>>
    BY <1>1 DEF LeftBeforeAttempt, Close, Unblaming
  <2>2. layer' \in {layer, layer + 1}
    BY <1>1 DEF LeftBeforeAttempt, Close
  <2> QED
    BY <2>1, <2>2, StaysMarked
<1>2. CASE StartAttempt
  <2>1. /\ pc \in Unblaming \/ pc' \in {"failing", "done"}
        /\ pc' \notin {"queued", "fetch"} /\ UNCHANGED <<rejected, tried>>
    BY <1>2 DEF StartAttempt, Unblaming
  <2>2. layer' \in {layer, layer + 1}
    BY <1>2 DEF StartAttempt
  <2> QED
    BY <2>1, <2>2, StaysMarked
<1>3. CASE LoopGuardStops
  <2>1. /\ pc \in Unblaming \/ pc' \in {"failing", "done"}
        /\ pc' \notin {"queued", "fetch"} /\ UNCHANGED <<rejected, tried>>
    BY <1>3 DEF LoopGuardStops, Unblaming
  <2>2. layer' \in {layer, layer + 1}
    BY <1>3 DEF LoopGuardStops
  <2> QED
    BY <2>1, <2>2, StaysMarked
<1>4. CASE ProviderDisabled
  <2>1. /\ pc \in Unblaming \/ pc' \in {"failing", "done"}
        /\ pc' \notin {"queued", "fetch"} /\ UNCHANGED <<rejected, tried>>
    BY <1>4 DEF ProviderDisabled, Unblaming
  <2>2. layer' \in {layer, layer + 1}
    BY <1>4 DEF ProviderDisabled
  <2> QED
    BY <2>1, <2>2, StaysMarked
<1>5. CASE HourlyLimit
  <2>1. /\ pc \in Unblaming \/ pc' \in {"failing", "done"}
        /\ pc' \notin {"queued", "fetch"} /\ UNCHANGED <<rejected, tried>>
    BY <1>5 DEF HourlyLimit, ProviderEnabled, NextLayer, Unblaming
  <2>2. layer' \in {layer, layer + 1}
    BY <1>5 DEF HourlyLimit, ProviderEnabled, NextLayer
  <2> QED
    BY <2>1, <2>2, StaysMarked
<1>6. CASE ConcurrencyHop
  <2>1. /\ pc \in Unblaming \/ pc' \in {"failing", "done"}
        /\ pc' \notin {"queued", "fetch"} /\ UNCHANGED <<rejected, tried>>
    BY <1>6 DEF ConcurrencyHop, ProviderEnabled, NextLayer, Unblaming
  <2>2. layer' \in {layer, layer + 1}
    BY <1>6 DEF ConcurrencyHop, ProviderEnabled, NextLayer
  <2> QED
    BY <2>1, <2>2, StaysMarked
<1>7. CASE UseProvider
  <2>1. /\ pc \in Unblaming \/ pc' \in {"failing", "done"}
        /\ pc' \notin {"queued", "fetch"} /\ UNCHANGED <<rejected, tried>>
    BY <1>7 DEF UseProvider, ProviderEnabled, Unblaming
  <2>2. layer' \in {layer, layer + 1}
    BY <1>7 DEF UseProvider, ProviderEnabled
  <2> QED
    BY <2>1, <2>2, StaysMarked
<1>8. CASE NoActiveKeys
  <2>1. /\ pc \in Unblaming \/ pc' \in {"failing", "done"}
        /\ pc' \notin {"queued", "fetch"} /\ UNCHANGED <<rejected, tried>>
    BY <1>8 DEF NoActiveKeys, Unblaming
  <2>2. layer' \in {layer, layer + 1}
    BY <1>8 DEF NoActiveKeys
  <2> QED
    BY <2>1, <2>2, StaysMarked
<1>9. CASE AllKeysTried
  <2>1. /\ pc \in Unblaming \/ pc' \in {"failing", "done"}
        /\ pc' \notin {"queued", "fetch"} /\ UNCHANGED <<rejected, tried>>
    BY <1>9 DEF AllKeysTried, Again, NextLayer, Unblaming
  <2>2. layer' \in {layer, layer + 1}
    BY <1>9 DEF AllKeysTried, Again, NextLayer
  <2> QED
    BY <2>1, <2>2, StaysMarked
<1>10. CASE ServeFromCache
  <2>1. /\ pc \in Unblaming \/ pc' \in {"failing", "done"}
        /\ pc' \notin {"queued", "fetch"} /\ UNCHANGED <<rejected, tried>>
    BY <1>10 DEF ServeFromCache, Unblaming
  <2>2. layer' \in {layer, layer + 1}
    BY <1>10 DEF ServeFromCache
  <2> QED
    BY <2>1, <2>2, StaysMarked
<1>11. CASE SelectKey
  <2>1. /\ pc = "keys" /\ pc' = "queued" /\ key' \in Selectable
        /\ UNCHANGED <<rejected, tried, layer, answer>>
    BY <1>11 DEF SelectKey
  <2>2. key' \notin tried'[layer']
    BY <2>1 DEF Selectable, Untried
  <2> QED
    BY <2>1, <2>2 DEF BlamedMarked, Ending
<1>12. CASE SkipEjected
  <2>1. /\ pc \in Unblaming \/ pc' \in {"failing", "done"}
        /\ pc' \notin {"queued", "fetch"} /\ UNCHANGED <<rejected, tried>>
    BY <1>12 DEF SkipEjected, NextLayer, Unblaming
  <2>2. layer' \in {layer, layer + 1}
    BY <1>12 DEF SkipEjected, NextLayer
  <2> QED
    BY <2>1, <2>2, StaysMarked
<1>13. CASE StartFetch
  <2>1. pc = "queued" /\ pc' = "fetch" /\ UNCHANGED <<rejected, tried, layer, answer, key>>
    BY <1>13 DEF StartFetch
  <2> QED
    BY <2>1 DEF BlamedMarked, Ending
<1>14. CASE FetchReturns
  <2>1. /\ pc \in Unblaming \/ pc' \in {"failing", "done"}
        /\ pc' \notin {"queued", "fetch"} /\ UNCHANGED <<rejected, tried>>
    BY <1>14 DEF FetchReturns, Unblaming
  <2>2. layer' \in {layer, layer + 1}
    BY <1>14 DEF FetchReturns
  <2> QED
    BY <2>1, <2>2, StaysMarked
<1>15. CASE LeftBeforeJudging
  <2>1. /\ pc \in Unblaming \/ pc' \in {"failing", "done"}
        /\ pc' \notin {"queued", "fetch"} /\ UNCHANGED <<rejected, tried>>
    BY <1>15 DEF LeftBeforeJudging, Close, Unblaming
  <2>2. layer' \in {layer, layer + 1}
    BY <1>15 DEF LeftBeforeJudging, Close
  <2> QED
    BY <2>1, <2>2, StaysMarked
<1>16. CASE CapacityRetry
  <2>1. /\ pc \in Unblaming \/ pc' \in {"failing", "done"}
        /\ pc' \notin {"queued", "fetch"} /\ UNCHANGED <<rejected, tried>>
    BY <1>16 DEF CapacityRetry, Judging, Again, Unblaming
  <2>2. layer' \in {layer, layer + 1}
    BY <1>16 DEF CapacityRetry, Judging, Again
  <2> QED
    BY <2>1, <2>2, StaysMarked
<1>17. CASE BlankRetry
  <2>1. /\ pc \in Unblaming \/ pc' \in {"failing", "done"}
        /\ pc' \notin {"queued", "fetch"} /\ UNCHANGED <<rejected, tried>>
    BY <1>17 DEF BlankRetry, Judging, Again, Unblaming
  <2>2. layer' \in {layer, layer + 1}
    BY <1>17 DEF BlankRetry, Judging, Again
  <2> QED
    BY <2>1, <2>2, StaysMarked
<1>18. CASE BlankHop
  <2>1. /\ pc \in Unblaming \/ pc' \in {"failing", "done"}
        /\ pc' \notin {"queued", "fetch"} /\ UNCHANGED <<rejected, tried>>
    BY <1>18 DEF BlankHop, Judging, Again, NextLayer, Unblaming
  <2>2. layer' \in {layer, layer + 1}
    BY <1>18 DEF BlankHop, Judging, Again, NextLayer
  <2> QED
    BY <2>1, <2>2, StaysMarked
<1>19. CASE AcceptAnswer
  <2>1. /\ pc \in Unblaming \/ pc' \in {"failing", "done"}
        /\ pc' \notin {"queued", "fetch"} /\ UNCHANGED <<rejected, tried>>
    BY <1>19 DEF AcceptAnswer, Judging, Unblaming
  <2>2. layer' \in {layer, layer + 1}
    BY <1>19 DEF AcceptAnswer, Judging
  <2> QED
    BY <2>1, <2>2, StaysMarked
<1>20. CASE RewriteBody
  <2>1. /\ pc \in Unblaming \/ pc' \in {"failing", "done"}
        /\ pc' \notin {"queued", "fetch"} /\ UNCHANGED <<rejected, tried>>
    BY <1>20 DEF RewriteBody, Judging, Again, Unblaming
  <2>2. layer' \in {layer, layer + 1}
    BY <1>20 DEF RewriteBody, Judging, Again
  <2> QED
    BY <2>1, <2>2, StaysMarked
<1>21. CASE CompressContext
  <2>1. /\ pc \in Unblaming \/ pc' \in {"failing", "done"}
        /\ pc' \notin {"queued", "fetch"} /\ UNCHANGED <<rejected, tried>>
    BY <1>21 DEF CompressContext, Judging, Again, Unblaming
  <2>2. layer' \in {layer, layer + 1}
    BY <1>21 DEF CompressContext, Judging, Again
  <2> QED
    BY <2>1, <2>2, StaysMarked
<1>22. CASE RetryProvider
  <2>1. /\ pc = "judge" /\ pc' = "loop" /\ key \in Keys /\ answer.key = key
        /\ RetriesProvider /\ UNCHANGED layer
    BY <1>22 DEF RetryProvider, JudgedError, Judging, Again, CountersOK, AnswerFits
  <2>2. /\ rejected' \subseteq rejected \cup {<<layer, key>>}
        /\ \A l \in Layers : tried[l] \subseteq tried'[l]
        /\ answer.kind \notin KeyFaults => rejected' = rejected
        /\ BlamesKey /\ ~ServerRetry => key \in tried'[layer]
    BY <1>22, <2>1, BlameFacts DEF RetryProvider
  <2>3. answer.kind \in KeyFaults => key \in tried'[layer]
    BY <2>1, <2>2 DEF RetriesProvider, ServerRetry, KeyFaults
  <2>4. ASSUME NEW l \in Layers, NEW k \in Keys, <<l, k>> \in rejected'
        PROVE  k \in tried'[l] \/ l < layer
    <3>1. CASE <<l, k>> \in rejected
      <4>1. ~Ending(k)
        BY <2>1 DEF Ending
      <4> QED
        BY <2>2, <3>1, <4>1 DEF BlamedMarked
    <3>2. CASE <<l, k>> \notin rejected
      BY <2>2, <2>3, <2>4, <3>2
    <3> QED
      BY <3>1, <3>2
  <2> QED
    BY <2>1, <2>4 DEF BlamedMarked
<1>23. CASE FallBack
  <2>1. /\ pc = "judge" /\ pc' = "loop" /\ key \in Keys /\ answer.key = key
        /\ layer' = layer + 1
    BY <1>23 DEF FallBack, JudgedError, Judging, Again, NextLayer, CountersOK, AnswerFits
  <2>2. /\ rejected' \subseteq rejected \cup {<<layer, key>>}
        /\ \A l \in Layers : tried[l] \subseteq tried'[l]
        /\ answer.kind \notin KeyFaults => rejected' = rejected
        /\ BlamesKey /\ ~ServerRetry => key \in tried'[layer]
    BY <1>23, <2>1, BlameFacts DEF FallBack
  <2>3. ASSUME NEW l \in Layers, NEW k \in Keys, <<l, k>> \in rejected'
        PROVE  k \in tried'[l] \/ l < layer'
    <3>1. CASE <<l, k>> \in rejected
      <4>1. ~Ending(k)
        BY <2>1 DEF Ending
      <4>2. k \in tried[l] \/ l < layer
        BY <3>1, <4>1 DEF BlamedMarked
      <4>3. tried[l] \subseteq tried'[l] /\ l \in Nat
        BY <2>2
      <4> QED
        BY <2>1, <4>2, <4>3
    <3>2. CASE <<l, k>> \notin rejected
      <4>1. l = layer
        BY <2>2, <2>3, <3>2
      <4> QED
        BY <2>1, <4>1
    <3> QED
      BY <3>1, <3>2
  <2> QED
    BY <2>1, <2>3 DEF BlamedMarked
<1>24. CASE RetryLastLayer
  <2>1. /\ pc = "judge" /\ pc' = "loop" /\ key \in Keys /\ answer.key = key
        /\ LastLayerRetry /\ UNCHANGED layer
    BY <1>24 DEF RetryLastLayer, JudgedError, Judging, Again, CountersOK, AnswerFits
  <2>2. /\ rejected' \subseteq rejected \cup {<<layer, key>>}
        /\ \A l \in Layers : tried[l] \subseteq tried'[l]
        /\ answer.kind \notin KeyFaults => rejected' = rejected
        /\ BlamesKey /\ ~ServerRetry => key \in tried'[layer]
    BY <1>24, <2>1, BlameFacts DEF RetryLastLayer
  <2>3. answer.kind \notin KeyFaults
    BY <2>1 DEF LastLayerRetry, KeyFaults, Unavailable
  <2>4. rejected' \subseteq rejected /\ layer' \in {layer, layer + 1} /\ pc \in Unblaming
    BY <2>1, <2>2, <2>3 DEF Unblaming
  <2>5. pc' \notin {"queued", "fetch"}
    BY <2>1
  <2> QED
    BY <2>2, <2>4, <2>5, StaysMarked
<1>25. CASE GiveUp
  <2>1. /\ pc = "judge" /\ pc' = "respond" /\ key \in Keys /\ answer.key = key
        /\ answer.kind \in UpstreamErrors /\ UNCHANGED layer
    BY <1>25 DEF GiveUp, JudgedError, Judging, CountersOK, AnswerFits
  <2>2. /\ rejected' \subseteq rejected \cup {<<layer, key>>}
        /\ \A l \in Layers : tried[l] \subseteq tried'[l]
        /\ answer.kind \notin KeyFaults => rejected' = rejected
        /\ BlamesKey /\ ~ServerRetry => key \in tried'[layer]
    BY <1>25, <2>1, BlameFacts DEF GiveUp
  <2>3. answer' = [answer EXCEPT !.retryable = answer.retryable /\ ~CapacitySpent]
    BY <1>25 DEF GiveUp
  <2>4. answer'.kind = answer.kind /\ (CapacitySpent => ~answer'.retryable)
    <3>1. (answer.retryable /\ ~CapacitySpent) \in BOOLEAN
      OBVIOUS
    <3> QED
      BY <2>3, <3>1, AnswerFacts
  <2>5. ASSUME NEW l \in Layers, NEW k \in Keys, <<l, k>> \in rejected'
        PROVE  k \in tried'[l] \/ l < layer \/ (l = layer /\ Ending(k)')
    <3>1. CASE <<l, k>> \in rejected
      <4>1. ~Ending(k)
        BY <2>1 DEF Ending
      <4> QED
        BY <2>2, <3>1, <4>1 DEF BlamedMarked
    <3>2. CASE <<l, k>> \notin rejected
      <4>1. l = layer /\ k = key /\ answer.kind \in KeyFaults
        BY <2>2, <2>5, <3>2
      <4>2. CASE CapacitySpent
        <5>1. answer'.kind \in UpstreamErrors /\ ~answer'.retryable
          BY <2>1, <2>4, <4>2
        <5> QED
          BY <2>1, <4>1, <5>1 DEF Ending
      <4>3. CASE ~CapacitySpent
        <5>1. BlamesKey /\ ~ServerRetry
          BY <4>1, <4>3 DEF BlamesKey, ServerRetry, KeyFaults
        <5> QED
          BY <2>2, <4>1, <5>1
      <4> QED
        BY <4>2, <4>3
    <3> QED
      BY <3>1, <3>2
  <2> QED
    BY <2>1, <2>5 DEF BlamedMarked
<1>26. CASE InternalError
  <2>1. /\ pc \in Unblaming \/ pc' \in {"failing", "done"}
        /\ pc' \notin {"queued", "fetch"} /\ UNCHANGED <<rejected, tried>>
    BY <1>26 DEF InternalError, Unblaming
  <2>2. layer' \in {layer, layer + 1}
    BY <1>26 DEF InternalError
  <2> QED
    BY <2>1, <2>2, StaysMarked
<1>27. CASE LeftWhileResponding
  <2>1. /\ pc \in Unblaming \/ pc' \in {"failing", "done"}
        /\ pc' \notin {"queued", "fetch"} /\ UNCHANGED <<rejected, tried>>
    BY <1>27 DEF LeftWhileResponding, Unblaming
  <2>2. layer' \in {layer, layer + 1}
    BY <1>27 DEF LeftWhileResponding
  <2> QED
    BY <2>1, <2>2, StaysMarked
<1>28. CASE SendAnswer
  <2>1. /\ pc \in Unblaming \/ pc' \in {"failing", "done"}
        /\ pc' \notin {"queued", "fetch"} /\ UNCHANGED <<rejected, tried>>
    BY <1>28 DEF SendAnswer, Unblaming
  <2>2. layer' \in {layer, layer + 1}
    BY <1>28 DEF SendAnswer
  <2> QED
    BY <2>1, <2>2, StaysMarked
<1>29. CASE SendError
  <2>1. /\ pc = "respond" /\ UNCHANGED <<rejected, tried, layer, answer>> /\ IsError(answer)
        /\ pc' = "done" \/ (pc' = "stage2" /\ answer.kind \in LocalErrors)
    BY <1>29 DEF SendError, Responding
  <2>2. CASE pc' = "done"
    <3>1. pc' \in {"failing", "done"} /\ pc' \notin {"queued", "fetch"}
          /\ layer' \in {layer, layer + 1}
      BY <2>1, <2>2
    <3> QED
      BY <2>1, <3>1, StaysMarked
  <2>3. CASE pc' = "stage2" /\ answer.kind \in LocalErrors
    <3>1. \A k : ~Ending(k)
      BY <2>1, <2>3, RetryableKinds DEF Ending
    <3> QED
      BY <2>1, <2>3, <3>1 DEF BlamedMarked
  <2> QED
    BY <2>1, <2>2, <2>3
<1>30. CASE HandBack
  <2>1. /\ pc = "respond" /\ pc' = "matrix" /\ UNCHANGED <<rejected, tried, layer>>
        /\ answer.retryable
    BY <1>30 DEF HandBack, Responding
  <2>2. \A k : ~Ending(k)
    BY <2>1 DEF Ending
  <2> QED
    BY <2>1, <2>2 DEF BlamedMarked
<1>31. CASE ForwardFakeStream
  <2>1. /\ pc = "respond" /\ pc' = "stage2" /\ UNCHANGED <<rejected, tried, layer>>
        /\ answer.kind \in Successes
    BY <1>31 DEF ForwardFakeStream, Responding
  <2>2. \A k : ~Ending(k)
    BY <2>1, RetryableKinds DEF Ending
  <2> QED
    BY <2>1, <2>2 DEF BlamedMarked
<1>32. CASE ForwardStream
  <2>1. PICK end \in StreamEnds :
          /\ answer' = [answer EXCEPT !.kind = end]
          /\ pc' = CASE end \in {"shown", "empty", "thinking"} -> "stage2"
                     [] end = "cut" -> "failing"
                     [] OTHER -> "matrix"
          /\ rejected' = IF end \in KeyFaults
                         THEN rejected \cup {<<layer, answer.key>>} ELSE rejected
    BY <1>32 DEF ForwardStream
  <2>2. pc = "respond" /\ answer.kind = "stream" /\ UNCHANGED <<tried, layer>>
    BY <1>32 DEF ForwardStream, Responding
  <2>3. \A k : ~Ending(k)
    BY <2>2, RetryableKinds DEF Ending
  <2>4. end \in Kinds
    BY KindFacts, FunnelFacts
  <2>5. answer'.kind = end /\ answer'.key = answer.key
    BY <2>1, <2>4, AnswerFacts
  <2>6. end \in KeyFaults => pc' = "matrix"
    BY <2>1 DEF KeyFaults
  <2>7. pc' \notin {"queued", "fetch"}
    BY <2>1
  <2>8. ASSUME NEW l \in Layers, NEW k \in Keys, <<l, k>> \in rejected'
        PROVE  k \in tried[l] \/ l < layer \/ (l = layer /\ Ending(k)')
    <3>1. CASE <<l, k>> \in rejected
      BY <2>3, <3>1 DEF BlamedMarked
    <3>2. CASE <<l, k>> \notin rejected
      <4>1. l = layer /\ k = answer.key /\ end \in KeyFaults
        BY <2>1, <2>8, <3>2
      <4> QED
        BY <2>5, <2>6, <4>1 DEF Ending
    <3> QED
      BY <3>1, <3>2
  <2> QED
    BY <2>2, <2>7, <2>8 DEF BlamedMarked
<1>33. CASE LeftBeforeDeciding
  <2>1. /\ pc \in Unblaming \/ pc' \in {"failing", "done"}
        /\ pc' \notin {"queued", "fetch"} /\ UNCHANGED <<rejected, tried>>
    BY <1>33 DEF LeftBeforeDeciding, Close, Unblaming
  <2>2. layer' \in {layer, layer + 1}
    BY <1>33 DEF LeftBeforeDeciding, Close
  <2> QED
    BY <2>1, <2>2, StaysMarked
<1>34. CASE StreamCapacityRetry
  <2>1. /\ pc = "matrix" /\ pc' = "loop" /\ UNCHANGED <<rejected, tried, layer>>
        /\ answer.kind = "capacity"
    BY <1>34 DEF StreamCapacityRetry, Deciding, NewRound, Again
  <2>2. \A k : ~Ending(k)
    BY <2>1 DEF Ending, KeyFaults
  <2> QED
    BY <2>1, <2>2 DEF BlamedMarked
<1>35. CASE RotateKey
  <2>1. /\ pc' = "loop" /\ UNCHANGED layer /\ answer.kind \in Rotatable /\ ~HopsFirst
    BY <1>35 DEF RotateKey, Rotates, NewRound, Again
  <2>2. /\ pc = "matrix" /\ UNCHANGED rejected /\ \A l \in Layers : tried[l] \subseteq tried'[l]
        /\ tried'[layer] = tried[layer] \cup ({answer.key} \ {NoKey})
    BY <1>35, <2>1, DecideFacts DEF RotateKey
  <2>3. ASSUME NEW l \in Layers, NEW k \in Keys, <<l, k>> \in rejected
        PROVE  k \in tried'[l] \/ l < layer
    <3>1. k \in tried[l] \/ l < layer \/ (l = layer /\ k = answer.key)
      BY <2>2, <2>3 DEF BlamedMarked, Ending
    <3>2. k # NoKey
      BY FunnelFacts
    <3> QED
      BY <2>2, <3>1, <3>2
  <2> QED
    BY <2>1, <2>2, <2>3 DEF BlamedMarked
<1>36. CASE StreamFallBack
  <2>1. pc' = "loop" /\ layer' = layer + 1
    BY <1>36 DEF StreamFallBack, NextLayer, NewRound, Again
  <2>2. UNCHANGED rejected /\ \A l \in Layers : tried[l] \subseteq tried'[l]
    BY <1>36, DecideFacts DEF StreamFallBack
  <2>3. ASSUME NEW l \in Layers, NEW k \in Keys, <<l, k>> \in rejected
        PROVE  k \in tried'[l] \/ l < layer'
    <3>1. k \in tried[l] \/ l < layer \/ l = layer
      BY <2>3 DEF BlamedMarked
    <3> QED
      BY <2>1, <2>2, <3>1
  <2> QED
    BY <2>1, <2>2, <2>3 DEF BlamedMarked
<1>37. CASE StreamGiveUp
  <2>1. pc' = "failing" /\ UNCHANGED layer
    BY <1>37 DEF StreamGiveUp
  <2>2. UNCHANGED rejected /\ \A l \in Layers : tried[l] \subseteq tried'[l]
    BY <1>37, DecideFacts DEF StreamGiveUp
  <2>3. pc' \in {"failing", "done"} /\ pc' \notin {"queued", "fetch"}
        /\ layer' \in {layer, layer + 1} /\ rejected' \subseteq rejected
    BY <2>1, <2>2
  <2> QED
    BY <2>2, <2>3, StaysMarked
<1>38. CASE LogFailure
  <2>1. /\ pc \in Unblaming \/ pc' \in {"failing", "done"}
        /\ pc' \notin {"queued", "fetch"} /\ UNCHANGED <<rejected, tried>>
    BY <1>38 DEF LogFailure, Unblaming
  <2>2. layer' \in {layer, layer + 1}
    BY <1>38 DEF LogFailure
  <2> QED
    BY <2>1, <2>2, StaysMarked
<1>39. CASE Round2Retry
  <2>1. /\ pc \in Unblaming \/ pc' \in {"failing", "done"}
        /\ pc' \notin {"queued", "fetch"} /\ UNCHANGED <<rejected, tried>>
    BY <1>39 DEF Round2Retry, Again, Unblaming
  <2>2. layer' \in {layer, layer + 1}
    BY <1>39 DEF Round2Retry, Again
  <2> QED
    BY <2>1, <2>2, StaysMarked
<1>40. CASE Round2Hop
  <2>1. /\ pc \in Unblaming \/ pc' \in {"failing", "done"}
        /\ pc' \notin {"queued", "fetch"} /\ UNCHANGED <<rejected, tried>>
    BY <1>40 DEF Round2Hop, NextLayer, Unblaming
  <2>2. layer' \in {layer, layer + 1}
    BY <1>40 DEF Round2Hop, NextLayer
  <2> QED
    BY <2>1, <2>2, StaysMarked
<1>41. CASE Finalize
  <2>1. /\ pc \in Unblaming \/ pc' \in {"failing", "done"}
        /\ pc' \notin {"queued", "fetch"} /\ UNCHANGED <<rejected, tried>>
    BY <1>41 DEF Finalize, Unblaming
  <2>2. layer' \in {layer, layer + 1}
    BY <1>41 DEF Finalize
  <2> QED
    BY <2>1, <2>2, StaysMarked
<1>42. CASE Disconnect
  <2>1. UNCHANGED <<pc, layer, tried, key, answer, rejected>>
    BY <1>42 DEF Disconnect, inside, target
  <2> QED
    BY <2>1 DEF BlamedMarked, Ending
<1>43. CASE KeyLost
  <2>1. UNCHANGED <<pc, layer, tried, key, answer, rejected>>
    BY <1>43 DEF KeyLost, inside, target
  <2> QED
    BY <2>1 DEF BlamedMarked, Ending
<1>44. CASE DisableProvider
  <2>1. UNCHANGED <<pc, layer, tried, key, answer, rejected>>
    BY <1>44 DEF DisableProvider, inside, target
  <2> QED
    BY <2>1 DEF BlamedMarked, Ending
<1> QED
  BY <1>1, <1>2, <1>3, <1>4, <1>5, <1>6, <1>7, <1>8, <1>9, <1>10, <1>11, <1>12, <1>13, <1>14, <1>15,
     <1>16, <1>17, <1>18, <1>19, <1>20, <1>21, <1>22, <1>23, <1>24, <1>25, <1>26, <1>27, <1>28,
     <1>29, <1>30, <1>31, <1>32, <1>33, <1>34, <1>35, <1>36, <1>37, <1>38, <1>39, <1>40, <1>41,
     <1>42, <1>43, <1>44
  DEF Step, Attempt, Judge, Respond, Rescue

\* A key an upstream has blamed at a layer is not sent to that layer again, whatever the
\* administrator or other requests do meanwhile (triedKeyIds and selectProviderKey).
THEOREM BlamedKeysStayAway == Spec => []BlamedKeyNotReused
<1>1. Init => BlamedMarked
  BY DEF Init, BlamedMarked
<1>2. LoopInv /\ BlamedMarked /\ [Next]_vars => BlamedMarked'
  <2>1. ASSUME LoopInv, BlamedMarked, UNCHANGED vars
        PROVE  BlamedMarked'
    <3>1. UNCHANGED <<pc, layer, tried, key, answer, rejected>>
      BY <2>1 DEF vars, target, targetKeys, selected
    <3> QED
      BY <2>1, <3>1 DEF BlamedMarked, Ending
  <2> QED
    BY <2>1, BlameKept DEF Next, Ended, BlameInv
<1>3. LoopInv /\ BlamedMarked => BlamedKeyNotReused
  <2> SUFFICES ASSUME LoopInv, BlamedMarked, pc = "fetch", <<layer, key>> \in rejected
               PROVE  FALSE
    BY DEF BlamedKeyNotReused
  <2>1. layer \in Layers /\ layer \in Nat /\ key \in Keys
    BY FunnelFacts DEF LoopInv, TypeOK, CountersOK
  <2>2. key \notin tried[layer] /\ ~Ending(key)
    BY DEF BlamedMarked, Ending
  <2>3. key \in tried[layer] \/ layer < layer \/ Ending(key)
    BY <2>1 DEF BlamedMarked
  <2> QED
    BY <2>1, <2>2, <2>3
<1> QED
  BY <1>1, <1>2, <1>3, LoopInvariant, PTL DEF Spec

\* A stream breaks with an error of a key only when the matrix rotates keys for that error.
StreamErrorsRotate == StreamEnds \cap {"quota", "auth", "rate"} \subseteq Rotatable

LastOffers == \A l \in Layers : last[l].offered \subseteq KeysOf[ProviderOf[l]]

\* Places that say nothing of what the answer was offered
Unoffered == {"loop", "resolve", "keys", "stage2", "done"}

LEMMA NothingOffered ==
  ASSUME OffersInv, pc' \in Unoffered, LastOffers',
         pc' # "done" \/ reply' # "error" \/ answer'.kind \notin UpstreamErrors
  PROVE  OffersFit'
  BY KindFacts DEF OffersFit, LastOffers, Unoffered, KeysTriedFirst

\* What is responded with without being the error of an upstream
LEMMA NoKeyError ==
  ASSUME OffersInv, pc' = "respond", LastOffers', answer'.kind \notin UpstreamErrors
  PROVE  OffersFit'
  BY KindFacts DEF OffersFit, LastOffers, KeysTriedFirst

LEMMA OffersRecorded ==
  ASSUME OffersInv, Recorded, pc = "judge"
  PROVE  LastOffers'
<1>1. answer.offered \subseteq KeysOf[ProviderOf[layer]] /\ layer \in Layers
  BY DEF OffersInv, LoopInv, TypeOK, AnswerFits, OffersFit
<1>2. last'[layer].offered = answer.offered /\ \A l \in Layers : l # layer => last'[l] = last[l]
  BY RecordedFacts DEF OffersInv
<1> QED
  BY <1>1, <1>2 DEF LastOffers, OffersInv, OffersFit

LEMMA OffersKept ==
  ASSUME OffersInv, StreamErrorsRotate,
         Step \/ Disconnect \/ KeyLost \/ DisableProvider
  PROVE  OffersFit'
<1>a. OffersInv /\ LoopInv /\ OffersFit /\ StreamErrorsRotate
  BY DEF OffersInv
<1>b. /\ AnswerFits /\ CountersOK /\ layer \in Layers /\ LastOffers
      /\ answer \in AnswerRecords /\ tried \in [Layers -> SUBSET Keys]
      /\ last \in [Layers -> AnswerRecords]
  BY DEF OffersInv, LoopInv, TypeOK, LastOffers, OffersFit
<1> USE <1>a, <1>b DEF targetKeys, capacity, selected, rescue, client, outside, target, inside
<1>1. CASE LeftBeforeAttempt
  <2>1. /\ pc' \in Unoffered /\ UNCHANGED last
        /\ reply' # "error"
    BY <1>1 DEF LeftBeforeAttempt, Close, Unoffered
  <2> QED
    BY <2>1, NothingOffered DEF LastOffers
<1>2. CASE StartAttempt
  <2>1. pc = "loop" /\ pc' \in {"resolve", "respond"} /\ UNCHANGED <<last, answer>>
    BY <1>2 DEF StartAttempt
  <2>2. answer'.kind \notin UpstreamErrors
    BY <2>1, KindFacts DEF AnswerFits, BeforeFetch
  <2> QED
    BY <2>1, <2>2, NothingOffered, NoKeyError DEF LastOffers, Unoffered
<1>3. CASE LoopGuardStops
  <2>1. /\ pc' \in Unoffered /\ UNCHANGED last
        /\ reply' # "error"
    BY <1>3 DEF LoopGuardStops, Unoffered
  <2> QED
    BY <2>1, NothingOffered DEF LastOffers
<1>4. CASE ProviderDisabled
  <2>1. pc \in BeforeFetch /\ pc' \in {"loop", "respond"} /\ UNCHANGED last
    BY <1>4 DEF ProviderDisabled, BeforeFetch
  <2>2. UNCHANGED answer \/ answer' = Error("disabled")
    BY <1>4 DEF ProviderDisabled
  <2>3. answer'.kind \notin UpstreamErrors
    <3>1. "disabled" \in LocalErrors /\ \A kind \in LocalErrors \cup {"none"} : kind \notin UpstreamErrors
      BY KindFacts
    <3> QED
      BY <2>1, <2>2, <3>1, AnswerFacts DEF AnswerFits
  <2> QED
    BY <2>1, <2>3, NothingOffered, NoKeyError DEF LastOffers, Unoffered
<1>5. CASE HourlyLimit
  <2>1. pc \in BeforeFetch /\ pc' \in {"loop", "respond"} /\ UNCHANGED last
    BY <1>5 DEF HourlyLimit, ProviderEnabled, BeforeFetch
  <2>2. UNCHANGED answer \/ answer' = Error("limited")
    BY <1>5 DEF HourlyLimit, ProviderEnabled
  <2>3. answer'.kind \notin UpstreamErrors
    <3>1. "limited" \in LocalErrors /\ \A kind \in LocalErrors \cup {"none"} : kind \notin UpstreamErrors
      BY KindFacts
    <3> QED
      BY <2>1, <2>2, <3>1, AnswerFacts DEF AnswerFits
  <2> QED
    BY <2>1, <2>3, NothingOffered, NoKeyError DEF LastOffers, Unoffered
<1>6. CASE ConcurrencyHop
  <2>1. /\ pc' \in Unoffered /\ UNCHANGED last
        /\ pc' # "done"
    BY <1>6 DEF ConcurrencyHop, ProviderEnabled, Unoffered
  <2> QED
    BY <2>1, NothingOffered DEF LastOffers
<1>7. CASE UseProvider
  <2>1. /\ pc' \in Unoffered /\ UNCHANGED last
        /\ pc' # "done"
    BY <1>7 DEF UseProvider, ProviderEnabled, Unoffered
  <2> QED
    BY <2>1, NothingOffered DEF LastOffers
<1>8. CASE NoActiveKeys
  <2>1. answer' = Error("no keys") /\ pc' = "respond" /\ UNCHANGED last
    BY <1>8 DEF NoActiveKeys
  <2>2. "no keys" \in LocalErrors /\ "no keys" \notin UpstreamErrors
    BY KindFacts
  <2>3. answer'.kind = "no keys"
    BY <2>1, <2>2, AnswerFacts
  <2> QED
    BY <2>1, <2>2, <2>3, NoKeyError DEF LastOffers
<1>9. CASE AllKeysTried
  <2>1. /\ pc = "keys" /\ UNCHANGED <<last, tried, active>>
        /\ pc' = "loop" \/ (pc' = "respond" /\ UNCHANGED layer)
    BY <1>9 DEF AllKeysTried, Again
  <2>2. CASE pc' = "loop"
    BY <2>1, <2>2, NothingOffered DEF LastOffers, Unoffered
  <2>3. CASE pc' = "respond" /\ answer' = last[layer]
    <3>1. active \cap KeysOf[ProviderOf[layer]] \subseteq tried[layer]
      BY <1>9 DEF AllKeysTried, Untried, ActiveKeys
    <3>2. answer'.offered \subseteq KeysOf[ProviderOf[layer]]
      BY <2>3 DEF OffersFit
    <3> QED
      BY <2>1, <2>3, <3>1, <3>2 DEF OffersFit, KeysTriedFirst
  <2>4. CASE pc' = "respond" /\ answer' # last[layer]
    <3> DEFINE last0 == last[layer]
               spent == [last0 EXCEPT !.kind = "spent"]
               noKeys == Error("no keys")
    <3>1. answer' = noKeys \/ answer' = spent
      BY <1>9, <2>4 DEF AllKeysTried, Again
    <3>2. "no keys" \in LocalErrors /\ "spent" \notin UpstreamErrors
          /\ "no keys" \notin UpstreamErrors
      BY KindFacts
    <3>3. noKeys.kind = "no keys"
      BY <3>2, AnswerFacts
    <3>4. last0 \in AnswerRecords
      OBVIOUS
    <3> HIDE DEF last0, noKeys
    <3>5. spent.kind = "spent"
      BY <3>4 DEF AnswerRecords
    <3> HIDE DEF spent
    <3>6. answer'.kind \notin UpstreamErrors
      BY <3>1, <3>2, <3>3, <3>5
    <3> QED
      BY <2>1, <2>4, <3>6, NoKeyError DEF LastOffers
  <2> QED
    BY <2>1, <2>2, <2>3, <2>4
<1>10. CASE ServeFromCache
  <2>1. /\ pc' \in Unoffered /\ UNCHANGED last
        /\ reply' # "error"
    BY <1>10 DEF ServeFromCache, Unoffered
  <2> QED
    BY <2>1, NothingOffered DEF LastOffers
<1>11. CASE SelectKey
  <2>1. pc' = "queued" /\ offered' = ActiveKeys /\ UNCHANGED <<last, layer>>
    BY <1>11 DEF SelectKey
  <2>2. offered' \subseteq KeysOf[ProviderOf[layer]]
    BY <2>1 DEF ActiveKeys
  <2> QED
    BY <2>1, <2>2 DEF OffersFit, KeysTriedFirst
<1>12. CASE SkipEjected
  <2>1. pc \in BeforeFetch /\ pc' \in {"loop", "respond"} /\ UNCHANGED last
    BY <1>12 DEF SkipEjected, BeforeFetch
  <2>2. UNCHANGED answer \/ answer' = Error("ejected")
    BY <1>12 DEF SkipEjected
  <2>3. answer'.kind \notin UpstreamErrors
    <3>1. "ejected" \in LocalErrors /\ \A kind \in LocalErrors \cup {"none"} : kind \notin UpstreamErrors
      BY KindFacts
    <3> QED
      BY <2>1, <2>2, <3>1, AnswerFacts DEF AnswerFits
  <2> QED
    BY <2>1, <2>3, NothingOffered, NoKeyError DEF LastOffers, Unoffered
<1>13. CASE StartFetch
  <2>1. pc = "queued" /\ pc' = "fetch" /\ UNCHANGED <<last, layer, offered>>
    BY <1>13 DEF StartFetch
  <2> QED
    BY <2>1 DEF OffersFit, KeysTriedFirst
<1>14. CASE FetchReturns
  <2>1. pc = "fetch" /\ pc' = "judge" /\ UNCHANGED <<last, layer, offered>>
    BY <1>14 DEF FetchReturns
  <2> QED
    BY <2>1 DEF OffersFit, KeysTriedFirst
<1>15. CASE LeftBeforeJudging
  <2>1. /\ pc' \in Unoffered /\ UNCHANGED last
        /\ reply' # "error"
    BY <1>15 DEF LeftBeforeJudging, Close, Unoffered
  <2> QED
    BY <2>1, NothingOffered DEF LastOffers
<1>16. CASE CapacityRetry
  <2>1. /\ pc' \in Unoffered /\ UNCHANGED last
        /\ pc' # "done"
    BY <1>16 DEF CapacityRetry, Judging, Again, Unoffered
  <2> QED
    BY <2>1, NothingOffered DEF LastOffers
<1>17. CASE BlankRetry
  <2>1. /\ pc' \in Unoffered /\ UNCHANGED last
        /\ pc' # "done"
    BY <1>17 DEF BlankRetry, Judging, Again, Unoffered
  <2> QED
    BY <2>1, NothingOffered DEF LastOffers
<1>18. CASE BlankHop
  <2>1. /\ pc' \in Unoffered /\ UNCHANGED last
        /\ pc' # "done"
    BY <1>18 DEF BlankHop, Judging, Again, Unoffered
  <2> QED
    BY <2>1, NothingOffered DEF LastOffers
<1>19. CASE AcceptAnswer
  <2>1. /\ pc = "judge" /\ pc' = "respond" /\ answer.kind \in Successes \cup {"stream"} /\ Recorded
        /\ answer' = answer \/ answer' = [answer EXCEPT !.kind = "ok"]
    BY <1>19 DEF AcceptAnswer, Judging
  <2>2. "ok" \in Kinds /\ "ok" \notin UpstreamErrors
    BY KindFacts
  <2>3. [answer EXCEPT !.kind = "ok"].kind = "ok"
    BY <2>2, AnswerFacts
  <2>4. answer'.kind \notin UpstreamErrors
    BY <2>1, <2>2, <2>3, RetryableKinds
  <2> QED
    BY <2>1, <2>4, OffersRecorded, NoKeyError
<1>20. CASE RewriteBody
  <2>1. /\ pc' \in Unoffered /\ UNCHANGED last
        /\ pc' # "done"
    BY <1>20 DEF RewriteBody, Judging, Again, Unoffered
  <2> QED
    BY <2>1, NothingOffered DEF LastOffers
<1>21. CASE CompressContext
  <2>1. /\ pc' \in Unoffered /\ UNCHANGED last
        /\ pc' # "done"
    BY <1>21 DEF CompressContext, Judging, Again, Unoffered
  <2> QED
    BY <2>1, NothingOffered DEF LastOffers
<1>22. CASE RetryProvider
  <2>1. pc = "judge" /\ pc' = "loop" /\ Recorded
    BY <1>22 DEF RetryProvider, JudgedError, Judging, Again
  <2> QED
    BY <2>1, OffersRecorded, NothingOffered DEF Unoffered
<1>23. CASE FallBack
  <2>1. pc = "judge" /\ pc' = "loop" /\ Recorded
    BY <1>23 DEF FallBack, JudgedError, Judging, Again
  <2> QED
    BY <2>1, OffersRecorded, NothingOffered DEF Unoffered
<1>24. CASE RetryLastLayer
  <2>1. pc = "judge" /\ pc' = "loop" /\ Recorded
    BY <1>24 DEF RetryLastLayer, JudgedError, Judging, Again
  <2> QED
    BY <2>1, OffersRecorded, NothingOffered DEF Unoffered
<1>25. CASE GiveUp
  <2>1. /\ pc = "judge" /\ pc' = "respond" /\ Recorded /\ Blame /\ ~RetriesProvider
        /\ UNCHANGED layer /\ key \in Keys /\ answer.offered = offered
    BY <1>25 DEF GiveUp, JudgedError, Judging, CountersOK, AnswerFits
  <2>2. answer'.kind = answer.kind /\ answer'.offered = answer.offered
    <3>1. answer' = [answer EXCEPT !.retryable = answer.retryable /\ ~CapacitySpent]
      BY <1>25 DEF GiveUp
    <3>2. (answer.retryable /\ ~CapacitySpent) \in BOOLEAN
      OBVIOUS
    <3> QED
      BY <3>1, <3>2, AnswerFacts
  <2>3. /\ active' \subseteq active /\ tried[layer] \subseteq tried'[layer]
        /\ BlamesKey /\ ~ServerRetry => key \in tried'[layer]
    BY <2>1, BlameFacts
  <2>4. capDone'[layer] = CapacitySpent /\ LastOffers'
    BY <2>1, RecordedFacts, OffersRecorded
  <2>5. ASSUME answer.kind \in {"quota", "auth", "rate"}, ~capDone'[layer]
        PROVE  answer.offered \subseteq tried'[layer]
    <3>1. BlamesKey /\ ~ServerRetry
      BY <2>4, <2>5 DEF BlamesKey, ServerRetry, KeyFaults
    <3>2. StillUntried = {}
      BY <2>1, <3>1 DEF RetriesProvider
    <3>3. offered \subseteq tried[layer] \cup {key}
      BY <3>2 DEF StillUntried
    <3> QED
      BY <2>1, <2>3, <3>1, <3>3
  <2> QED
    BY <2>1, <2>2, <2>3, <2>4, <2>5 DEF OffersFit, LastOffers, KeysTriedFirst
<1>26. CASE InternalError
  <2>1. /\ pc' \in Unoffered /\ UNCHANGED last
        /\ reply' # "error"
    BY <1>26 DEF InternalError, Unoffered
  <2> QED
    BY <2>1, NothingOffered DEF LastOffers
<1>27. CASE LeftWhileResponding
  <2>1. /\ pc' \in Unoffered /\ UNCHANGED last
        /\ reply' # "error"
    BY <1>27 DEF LeftWhileResponding, Unoffered
  <2> QED
    BY <2>1, NothingOffered DEF LastOffers
<1>28. CASE SendAnswer
  <2>1. /\ pc' \in Unoffered /\ UNCHANGED last
        /\ reply' # "error"
    BY <1>28 DEF SendAnswer, Unoffered
  <2> QED
    BY <2>1, NothingOffered DEF LastOffers
<1>29. CASE SendError
  <2>1. /\ pc = "respond" /\ UNCHANGED <<last, answer, layer, capDone, active, tried>>
        /\ pc' = "done" \/ (pc' = "stage2" /\ answer.kind \in LocalErrors)
    BY <1>29 DEF SendError, Responding
  <2>2. CASE pc' = "done"
    BY <2>1, <2>2 DEF OffersFit, KeysTriedFirst
  <2>3. CASE pc' = "stage2"
    BY <2>1, <2>3, NothingOffered DEF LastOffers, Unoffered
  <2> QED
    BY <2>1, <2>2, <2>3
<1>30. CASE HandBack
  <2>1. pc' = "matrix" /\ UNCHANGED <<last, answer>> /\ answer.retryable
    BY <1>30 DEF HandBack
  <2>2. Retryable(answer.kind)
    BY <2>1 DEF AnswerFits
  <2>3. answer.kind \in {"quota", "auth", "rate"} => answer.kind \in Rotatable
    BY <2>2 DEF Retryable, Rotatable
  <2> QED
    BY <2>1, <2>3 DEF OffersFit, KeysTriedFirst
<1>31. CASE ForwardFakeStream
  <2>1. /\ pc' \in Unoffered /\ UNCHANGED last
        /\ pc' # "done"
    BY <1>31 DEF ForwardFakeStream, Unoffered
  <2> QED
    BY <2>1, NothingOffered DEF LastOffers
<1>32. CASE ForwardStream
  <2>1. PICK end \in StreamEnds :
          /\ answer' = [answer EXCEPT !.kind = end]
          /\ pc' = CASE end \in {"shown", "empty", "thinking"} -> "stage2"
                     [] end = "cut" -> "failing"
                     [] OTHER -> "matrix"
    BY <1>32 DEF ForwardStream
  <2>2. end \in Kinds /\ "cut" \notin {"quota", "auth", "rate"}
    BY KindFacts, FunnelFacts
  <2>3. answer'.kind = end
    BY <2>1, <2>2, AnswerFacts
  <2>4. UNCHANGED last
    BY <1>32 DEF ForwardStream
  <2>5. CASE pc' = "stage2"
    BY <2>4, <2>5, NothingOffered DEF LastOffers, Unoffered
  <2>6. CASE pc' = "failing"
    <3>1. end = "cut"
      BY <2>1, <2>6
    <3> QED
      BY <2>2, <2>3, <2>4, <2>6, <3>1 DEF OffersFit, KeysTriedFirst
  <2>7. CASE pc' = "matrix"
    <3>1. end \in {"quota", "auth", "rate"} => end \in Rotatable
      BY DEF StreamErrorsRotate
    <3> QED
      BY <2>3, <2>4, <2>7, <3>1 DEF OffersFit, KeysTriedFirst
  <2> QED
    BY <2>1, <2>5, <2>6, <2>7
<1>33. CASE LeftBeforeDeciding
  <2>1. /\ pc' \in Unoffered /\ UNCHANGED last
        /\ reply' # "error"
    BY <1>33 DEF LeftBeforeDeciding, Close, Unoffered
  <2> QED
    BY <2>1, NothingOffered DEF LastOffers
<1>34. CASE StreamCapacityRetry
  <2>1. /\ pc' \in Unoffered /\ UNCHANGED last
        /\ pc' # "done"
    BY <1>34 DEF StreamCapacityRetry, NewRound, Again, Unoffered
  <2> QED
    BY <2>1, NothingOffered DEF LastOffers
<1>35. CASE RotateKey
  <2>1. pc' = "loop"
    BY <1>35 DEF RotateKey, NewRound, Again
  <2>2. UNCHANGED last
    BY <1>35, DecideFacts DEF RotateKey
  <2> QED
    BY <2>1, <2>2, NothingOffered DEF LastOffers, Unoffered
<1>36. CASE StreamFallBack
  <2>1. pc' = "loop"
    BY <1>36 DEF StreamFallBack, NewRound, Again
  <2>2. UNCHANGED last
    BY <1>36, DecideFacts DEF StreamFallBack
  <2> QED
    BY <2>1, <2>2, NothingOffered DEF LastOffers, Unoffered
<1>37. CASE StreamGiveUp
  <2>1. /\ pc = "matrix" /\ pc' = "failing" /\ UNCHANGED <<layer, answer>> /\ ~Rotates /\ ~HopsFirst
    BY <1>37, DecideFacts DEF StreamGiveUp, HopsFirst
  <2>2. /\ UNCHANGED <<last, active>>
        /\ answer.kind \in Rotatable =>
               tried'[layer] = tried[layer] \cup ({answer.key} \ {NoKey})
    BY <1>37, <2>1, DecideFacts DEF StreamGiveUp
  <2>3. answer.kind \in {"quota", "auth", "rate"} => answer.kind \in Rotatable
    BY <2>1 DEF OffersFit
  <2>4. ASSUME answer.kind \in Rotatable
        PROVE  answer.offered \subseteq tried'[layer]
    <3>1. answer.offered \ (tried[layer] \cup {answer.key}) = {}
      BY <2>1, <2>4 DEF Rotates
    <3>2. answer.offered \subseteq Keys /\ NoKey \notin Keys
      BY AnswerFacts, FunnelFacts
    <3> QED
      BY <2>2, <2>4, <3>1, <3>2
  <2> QED
    BY <2>1, <2>2, <2>3, <2>4 DEF OffersFit, KeysTriedFirst
<1>38. CASE LogFailure
  <2>1. /\ pc = "failing" /\ pc' = "done" /\ UNCHANGED <<last, answer, layer, capDone, active, tried>>
    BY <1>38 DEF LogFailure
  <2> QED
    BY <2>1 DEF OffersFit, KeysTriedFirst
<1>39. CASE Round2Retry
  <2>1. /\ pc' \in Unoffered /\ UNCHANGED last
        /\ pc' # "done"
    BY <1>39 DEF Round2Retry, Again, Unoffered
  <2> QED
    BY <2>1, NothingOffered DEF LastOffers
<1>40. CASE Round2Hop
  <2>1. pc' \in Unoffered /\ UNCHANGED last /\ answer' = NoAnswer
    BY <1>40 DEF Round2Hop, Unoffered
  <2>2. answer'.kind \notin UpstreamErrors
    BY <2>1, AnswerFacts, KindFacts
  <2> QED
    BY <2>1, <2>2, NothingOffered DEF LastOffers
<1>41. CASE Finalize
  <2>1. pc = "stage2" /\ pc' = "done" /\ UNCHANGED <<last, answer>>
    BY <1>41 DEF Finalize
  <2>2. answer'.kind \notin UpstreamErrors
    BY <2>1 DEF AnswerFits
  <2> QED
    BY <2>1, <2>2, NothingOffered DEF LastOffers, Unoffered
<1>42. CASE Disconnect
  <2>1. /\ UNCHANGED <<pc, layer, tried, capDone, last, key, offered, answer, reply>>
        /\ active' \subseteq active /\ (pc = "done" => UNCHANGED active)
    BY <1>42 DEF Disconnect, inside, target
  <2> QED
    BY <2>1 DEF OffersFit, KeysTriedFirst
<1>43. CASE KeyLost
  <2>1. /\ UNCHANGED <<pc, layer, tried, capDone, last, key, offered, answer, reply>>
        /\ active' \subseteq active /\ (pc = "done" => UNCHANGED active)
    BY <1>43 DEF KeyLost, inside, target
  <2> QED
    BY <2>1 DEF OffersFit, KeysTriedFirst
<1>44. CASE DisableProvider
  <2>1. /\ UNCHANGED <<pc, layer, tried, capDone, last, key, offered, answer, reply>>
        /\ active' \subseteq active /\ (pc = "done" => UNCHANGED active)
    BY <1>44 DEF DisableProvider, inside, target
  <2> QED
    BY <2>1 DEF OffersFit, KeysTriedFirst
<1> QED
  BY <1>1, <1>2, <1>3, <1>4, <1>5, <1>6, <1>7, <1>8, <1>9, <1>10, <1>11, <1>12, <1>13, <1>14, <1>15,
     <1>16, <1>17, <1>18, <1>19, <1>20, <1>21, <1>22, <1>23, <1>24, <1>25, <1>26, <1>27, <1>28,
     <1>29, <1>30, <1>31, <1>32, <1>33, <1>34, <1>35, <1>36, <1>37, <1>38, <1>39, <1>40, <1>41,
     <1>42, <1>43, <1>44
  DEF Step, Attempt, Judge, Respond, Rescue

\* Keys rotate: the error of a key is reported only after every key that is still active was
\* tried, and a blamed key is not asked again.  A stream that breaks with an error the matrix
\* does not rotate keys for (a quota; a rejected key unless the provider is OpenRouter) is
\* excluded, since the code gives up on it at once.
THEOREM KeysAreRotated == StreamErrorsRotate => (Spec => []KeysRotate)
<1> SUFFICES ASSUME StreamErrorsRotate PROVE Spec => []KeysRotate
  OBVIOUS
<1>1. Init => OffersFit
  <2> SUFFICES ASSUME Init PROVE OffersFit
    OBVIOUS
  <2>1. LastOffers
    BY AnswerFacts DEF Init, LastOffers
  <2> QED
    BY <2>1 DEF Init, OffersFit, LastOffers, KeysTriedFirst
<1>2. LoopInv /\ OffersFit /\ [Next]_vars => OffersFit'
  <2>1. ASSUME LoopInv, OffersFit, UNCHANGED vars
        PROVE  OffersFit'
    <3>1. UNCHANGED <<pc, layer, tried, capDone, last, key, offered, answer, reply, active>>
      BY <2>1 DEF vars, target, targetKeys, capacity, selected, client, outside
    <3> QED
      BY <2>1, <3>1 DEF OffersFit, KeysTriedFirst
  <2> QED
    BY <2>1, OffersKept DEF Next, Ended, OffersInv
<1>3. OffersFit /\ BlamedKeyNotReused => KeysRotate
  BY DEF OffersFit, KeysRotate
<1> QED
  BY <1>1, <1>2, <1>3, LoopInvariant, BlamedKeysStayAway, PTL DEF Spec

\* Every layer and key that can be asked is asked before an error is reported, under the same
\* hypothesis; that the error comes from the last layer needs none.
THEOREM AllAreAsked == StreamErrorsRotate => (Spec => []AllAsked)
<1>1. KeysRotate /\ ErrorsFunnelDown => AllAsked
  BY DEF AllAsked
<1> QED
  BY <1>1, KeysAreRotated, ErrorsComeLast, PTL

\* Nobody interferes: no key or provider is withdrawn, by an upstream's quota either, the
\* gateway refuses and answers nothing itself, every layer has a key, and the continuity
\* cycles cover every retry and every hop that a blank answer may cause.
Undisturbed ==
    /\ Changes = {} /\ Local = {} /\ "quota" \notin Answers
    /\ \A l \in Layers : KeysOf[ProviderOf[l]] # {}
    /\ MaxEmpty + MaxReasoning + LastLayer <= MaxCycles + 1

\* The answers that prove the key they came with
Good == Successes \cup {"stream"}

\* A loop that goes on has an attempt and a key left, and the layers ahead are untouched.
LoopGoesOn ==
    /\ pc = "loop" => attempts < MaxAttempts
    /\ \A l \in Layers : l > layer => tried[l] = {}
    /\ \/ pc \in {"loop", "resolve", "keys", "queued", "fetch", "judge", "stage2"}
       \/ pc = "respond" /\ answer.kind \in Good
       \/ pc = "matrix" /\ answer.kind = "capacity"
       => Untried # {}

\* Only judged answers are responded with, and what they were offered is still there.
AnswerIsJudged ==
    /\ pc = "respond" => answer.kind \in Good \cup UpstreamErrors
    /\ pc \in BeforeFetch => answer.kind = "none"
    /\ pc = "judge" => answer.kind \in Answers
    /\ pc = "respond" /\ answer.kind = "capacity" => ~answer.retryable
    /\ pc \in {"queued", "fetch", "judge"} => offered \subseteq KeysOf[ProviderOf[layer]]
    /\ pc \in {"respond", "matrix"} => answer.offered \subseteq KeysOf[ProviderOf[layer]]

\* The reply is open until the request fails or ends, and every cycle is paid for.
ReplyFits ==
    /\ pc \notin {"failing", "done"} => reply = "open"
    /\ cycles <= emptyTries + thinkTries + (layer - 1)
    /\ EndIsTrue

NothingWithdrawn == active = Keys /\ enabled = Providers

EndInv == LoopInv /\ NothingWithdrawn /\ LoopGoesOn /\ AnswerIsJudged /\ ReplyFits

LEMMA EndFacts ==
  ASSUME EndInv, Undisturbed
  PROVE  /\ layer \in Layers /\ layer \in Nat /\ Layers \subseteq Nat /\ attempts \in 0..MaxAttempts
         /\ cycles \in Nat /\ emptyTries \in 0..MaxEmpty /\ thinkTries \in 0..MaxReasoning
         /\ answer \in AnswerRecords /\ tried \in [Layers -> SUBSET Keys]
         /\ active = Keys /\ enabled = Providers /\ ActiveKeys = KeysOf[ProviderOf[layer]]
         /\ \A l \in Layers : KeysOf[ProviderOf[l]] # {} /\ KeysOf[ProviderOf[l]] \subseteq Keys
         /\ ProviderOf[layer] \in enabled
<1>1. /\ layer \in Layers /\ attempts \in 0..MaxAttempts /\ cycles \in 0..(MaxCycles + 1)
      /\ emptyTries \in 0..MaxEmpty /\ thinkTries \in 0..MaxReasoning
      /\ answer \in AnswerRecords /\ tried \in [Layers -> SUBSET Keys]
  BY DEF EndInv, LoopInv, TypeOK
<1>2. active = Keys /\ enabled = Providers
  BY DEF EndInv, NothingWithdrawn
<1>3. \A l \in Layers : KeysOf[ProviderOf[l]] # {} /\ KeysOf[ProviderOf[l]] \subseteq Keys
  BY FunnelFacts DEF Undisturbed
<1>4. ActiveKeys = KeysOf[ProviderOf[layer]]
  BY <1>1, <1>2, <1>3 DEF ActiveKeys
<1>5. Layers \subseteq Nat /\ layer \in Nat /\ cycles \in Nat
  BY <1>1, FunnelFacts
<1>6. ProviderOf[layer] \in enabled
  BY <1>1, <1>2, FunnelFacts
<1> QED
  BY <1>1, <1>2, <1>3, <1>4, <1>5, <1>6

\* What the gateway cannot do when it is left alone
LEMMA NeverHappens ==
  ASSUME EndInv, Undisturbed
  PROVE  /\ ~LoopGuardStops /\ ~ProviderDisabled /\ ~HourlyLimit /\ ~ConcurrencyHop
         /\ ~NoActiveKeys /\ ~AllKeysTried /\ ~ServeFromCache /\ ~SkipEjected
         /\ ~InternalError /\ ~KeyLost /\ ~DisableProvider
<1>1. ~LoopGuardStops /\ ~HourlyLimit /\ ~ConcurrencyHop /\ ~ServeFromCache /\ ~SkipEjected
  BY DEF Undisturbed, LoopGuardStops, HourlyLimit, ConcurrencyHop, ServeFromCache, SkipEjected
<1>2. ~KeyLost /\ ~DisableProvider
  BY DEF Undisturbed, KeyLost, DisableProvider
<1>3. ~ProviderDisabled /\ ~NoActiveKeys
  BY EndFacts DEF ProviderDisabled, NoActiveKeys
<1>4. ~AllKeysTried
  BY DEF EndInv, LoopGoesOn, AllKeysTried
<1>5. ~InternalError
  BY KindFacts DEF EndInv, AnswerIsJudged, InternalError, Responding, Good
<1> QED
  BY <1>1, <1>2, <1>3, <1>4, <1>5

LEMMA NoQuota ==
  ASSUME EndInv, Undisturbed, pc = "judge"
  PROVE  answer.kind # "quota"
  BY DEF EndInv, AnswerIsJudged, Undisturbed

LEMMA NothingIsWithdrawn ==
  ASSUME EndInv, Undisturbed,
         Step \/ Disconnect \/ KeyLost \/ DisableProvider
  PROVE  UNCHANGED <<active, enabled>>
<1>1. CASE LeftBeforeAttempt
  BY <1>1 DEF LeftBeforeAttempt, Close, outside
<1>2. CASE StartAttempt
  BY <1>2 DEF StartAttempt, outside
<1>3. CASE LoopGuardStops
  BY <1>3, NeverHappens
<1>4. CASE ProviderDisabled
  BY <1>4, NeverHappens
<1>5. CASE HourlyLimit
  BY <1>5, NeverHappens
<1>6. CASE ConcurrencyHop
  BY <1>6, NeverHappens
<1>7. CASE UseProvider
  BY <1>7 DEF UseProvider, ProviderEnabled, outside
<1>8. CASE NoActiveKeys
  BY <1>8, NeverHappens
<1>9. CASE AllKeysTried
  BY <1>9, NeverHappens
<1>10. CASE ServeFromCache
  BY <1>10, NeverHappens
<1>11. CASE SelectKey
  BY <1>11 DEF SelectKey, outside
<1>12. CASE SkipEjected
  BY <1>12, NeverHappens
<1>13. CASE StartFetch
  BY <1>13 DEF StartFetch, outside
<1>14. CASE FetchReturns
  BY <1>14 DEF FetchReturns, outside
<1>15. CASE LeftBeforeJudging
  BY <1>15 DEF LeftBeforeJudging, Close, outside
<1>16. CASE CapacityRetry
  BY <1>16 DEF CapacityRetry, outside
<1>17. CASE BlankRetry
  BY <1>17 DEF BlankRetry, outside
<1>18. CASE BlankHop
  BY <1>18 DEF BlankHop, outside
<1>19. CASE AcceptAnswer
  BY <1>19 DEF AcceptAnswer, outside
<1>20. CASE RewriteBody
  BY <1>20 DEF RewriteBody, outside
<1>21. CASE CompressContext
  BY <1>21 DEF CompressContext, outside
<1>22. CASE RetryProvider
  <2>1. pc = "judge" /\ Blame
    BY <1>22 DEF RetryProvider, JudgedError, Judging
  <2> QED
    BY <2>1, NoQuota DEF Blame
<1>23. CASE FallBack
  <2>1. pc = "judge" /\ Blame
    BY <1>23 DEF FallBack, JudgedError, Judging
  <2> QED
    BY <2>1, NoQuota DEF Blame
<1>24. CASE RetryLastLayer
  <2>1. pc = "judge" /\ Blame
    BY <1>24 DEF RetryLastLayer, JudgedError, Judging
  <2> QED
    BY <2>1, NoQuota DEF Blame
<1>25. CASE GiveUp
  <2>1. pc = "judge" /\ Blame
    BY <1>25 DEF GiveUp, JudgedError, Judging
  <2> QED
    BY <2>1, NoQuota DEF Blame
<1>26. CASE InternalError
  BY <1>26, NeverHappens
<1>27. CASE LeftWhileResponding
  BY <1>27 DEF LeftWhileResponding, outside
<1>28. CASE SendAnswer
  BY <1>28 DEF SendAnswer, outside
<1>29. CASE SendError
  BY <1>29 DEF SendError, outside
<1>30. CASE HandBack
  BY <1>30 DEF HandBack, outside
<1>31. CASE ForwardFakeStream
  BY <1>31 DEF ForwardFakeStream, outside
<1>32. CASE ForwardStream
  BY <1>32 DEF ForwardStream, outside
<1>33. CASE LeftBeforeDeciding
  BY <1>33 DEF LeftBeforeDeciding, Close, outside
<1>34. CASE StreamCapacityRetry
  BY <1>34 DEF StreamCapacityRetry, outside
<1>35. CASE RotateKey
  BY <1>35 DEF RotateKey, DecideAfterCapacity, outside
<1>36. CASE StreamFallBack
  BY <1>36 DEF StreamFallBack, DecideAfterCapacity, outside
<1>37. CASE StreamGiveUp
  BY <1>37 DEF StreamGiveUp, DecideAfterCapacity, outside
<1>38. CASE LogFailure
  BY <1>38 DEF LogFailure, outside
<1>39. CASE Round2Retry
  BY <1>39 DEF Round2Retry, outside
<1>40. CASE Round2Hop
  BY <1>40 DEF Round2Hop, outside
<1>41. CASE Finalize
  BY <1>41 DEF Finalize, outside
<1>42. CASE Disconnect
  BY <1>42 DEF Disconnect, outside, inside
<1>43. CASE KeyLost
  BY <1>43, NeverHappens
<1>44. CASE DisableProvider
  BY <1>44, NeverHappens
<1> QED
  BY <1>1, <1>2, <1>3, <1>4, <1>5, <1>6, <1>7, <1>8, <1>9, <1>10, <1>11, <1>12, <1>13, <1>14, <1>15,
     <1>16, <1>17, <1>18, <1>19, <1>20, <1>21, <1>22, <1>23, <1>24, <1>25, <1>26, <1>27, <1>28,
     <1>29, <1>30, <1>31, <1>32, <1>33, <1>34, <1>35, <1>36, <1>37, <1>38, <1>39, <1>40, <1>41,
     <1>42, <1>43, <1>44
  DEF Step, Attempt, Judge, Respond, Rescue

\* A step within a layer that has an untried key, and none that marks one
LEMMA StaysOn ==
  ASSUME EndInv, Undisturbed, Untried # {}, UNCHANGED <<tried, layer, active>>,
         pc' = "loop" => attempts' < MaxAttempts
  PROVE  LoopGoesOn'
<1>1. Untried' # {}
  BY DEF Untried, ActiveKeys
<1>2. \A l \in Layers : l > layer => tried[l] = {}
  BY DEF EndInv, LoopGoesOn
<1> QED
  BY <1>1, <1>2 DEF LoopGoesOn

\* A hop to the next layer finds all its keys untried.
LEMMA HopsOn ==
  ASSUME EndInv, Undisturbed, NextLayer, UNCHANGED active,
         \A l \in Layers : l # layer => tried'[l] = tried[l],
         pc' = "loop" => attempts' < MaxAttempts
  PROVE  LoopGoesOn'
<1>1. layer \in Nat /\ layer' = layer + 1 /\ layer' \in Layers /\ Layers \subseteq Nat
  BY EndFacts, FunnelFacts DEF NextLayer, HasNext
<1>2. \A l \in Layers : l > layer => tried'[l] = {}
  BY <1>1 DEF EndInv, LoopGoesOn
<1>3. Untried' # {}
  <2>1. ActiveKeys' = KeysOf[ProviderOf[layer']]
    BY <1>1, EndFacts DEF ActiveKeys
  <2>2. KeysOf[ProviderOf[layer']] # {} /\ tried'[layer'] = {}
    BY <1>1, <1>2, EndFacts
  <2> QED
    BY <2>1, <2>2 DEF Untried
<1>4. \A l \in Layers : l > layer' => tried'[l] = {}
  BY <1>1, <1>2
<1> QED
  BY <1>3, <1>4 DEF LoopGoesOn

\* Where no other attempt follows, only the layers ahead matter.
LEMMA GoesNoFurther ==
  ASSUME EndInv, UNCHANGED layer, \A l \in Layers : l # layer => tried'[l] = tried[l],
         \/ pc' \in {"failing", "done"} \/ (pc' = "matrix" /\ answer'.kind # "capacity")
         \/ (pc' = "respond" /\ answer'.kind \notin Good)
  PROVE  LoopGoesOn'
<1>1. layer \in Nat /\ Layers \subseteq Nat
  BY FunnelFacts DEF EndInv, LoopInv, TypeOK
<1>2. \A l \in Layers : l > layer => tried'[l] = {}
  BY <1>1 DEF EndInv, LoopGoesOn
<1> QED
  BY <1>2 DEF LoopGoesOn

LEMMA GoesOnKept ==
  ASSUME EndInv, Undisturbed,
         Step \/ Disconnect \/ KeyLost \/ DisableProvider
  PROVE  LoopGoesOn'
<1> USE DEF targetKeys, capacity, selected, rescue, client, outside, target, inside
<1>1. CASE LeftBeforeAttempt
  <2>1. pc' \in {"failing", "done"} /\ UNCHANGED <<layer, tried>>
    BY <1>1 DEF LeftBeforeAttempt, Close
  <2> QED
    BY <2>1, GoesNoFurther
<1>2. CASE StartAttempt
  <2>1. UNCHANGED <<tried, layer>> /\ pc = "loop" /\ pc' \in {"resolve", "respond"}
    BY <1>2 DEF StartAttempt
  <2>2. Untried # {}
    BY <2>1 DEF EndInv, LoopGoesOn, Good
  <2> QED
    BY <2>1, <2>2, NothingIsWithdrawn, StaysOn
<1>3. CASE LoopGuardStops
  BY <1>3, NeverHappens
<1>4. CASE ProviderDisabled
  BY <1>4, NeverHappens
<1>5. CASE HourlyLimit
  BY <1>5, NeverHappens
<1>6. CASE ConcurrencyHop
  BY <1>6, NeverHappens
<1>7. CASE UseProvider
  <2>1. UNCHANGED <<tried, layer>> /\ pc = "resolve" /\ pc' = "keys"
    BY <1>7 DEF UseProvider, ProviderEnabled
  <2>2. Untried # {}
    BY <2>1 DEF EndInv, LoopGoesOn, Good
  <2> QED
    BY <2>1, <2>2, NothingIsWithdrawn, StaysOn
<1>8. CASE NoActiveKeys
  BY <1>8, NeverHappens
<1>9. CASE AllKeysTried
  BY <1>9, NeverHappens
<1>10. CASE ServeFromCache
  BY <1>10, NeverHappens
<1>11. CASE SelectKey
  <2>1. UNCHANGED <<tried, layer>> /\ pc = "keys" /\ pc' = "queued"
    BY <1>11 DEF SelectKey
  <2>2. Untried # {}
    BY <2>1 DEF EndInv, LoopGoesOn, Good
  <2> QED
    BY <2>1, <2>2, NothingIsWithdrawn, StaysOn
<1>12. CASE SkipEjected
  BY <1>12, NeverHappens
<1>13. CASE StartFetch
  <2>1. UNCHANGED <<tried, layer>> /\ pc = "queued" /\ pc' = "fetch"
    BY <1>13 DEF StartFetch
  <2>2. Untried # {}
    BY <2>1 DEF EndInv, LoopGoesOn, Good
  <2> QED
    BY <2>1, <2>2, NothingIsWithdrawn, StaysOn
<1>14. CASE FetchReturns
  <2>1. UNCHANGED <<tried, layer>> /\ pc = "fetch" /\ pc' = "judge"
    BY <1>14 DEF FetchReturns
  <2>2. Untried # {}
    BY <2>1 DEF EndInv, LoopGoesOn, Good
  <2> QED
    BY <2>1, <2>2, NothingIsWithdrawn, StaysOn
<1>15. CASE LeftBeforeJudging
  <2>1. pc' \in {"failing", "done"} /\ UNCHANGED <<layer, tried>>
    BY <1>15 DEF LeftBeforeJudging, Close
  <2> QED
    BY <2>1, GoesNoFurther
<1>16. CASE CapacityRetry
  <2>1. UNCHANGED <<tried, layer>> /\ pc = "judge" /\ attempts' = attempts - 1
    BY <1>16 DEF CapacityRetry, Judging, Again
  <2>2. Untried # {} /\ attempts' < MaxAttempts
    BY <2>1, EndFacts, FunnelFacts DEF EndInv, LoopGoesOn, LoopInv, CountersOK
  <2> QED
    BY <2>1, <2>2, NothingIsWithdrawn, StaysOn
<1>17. CASE BlankRetry
  <2>1. UNCHANGED <<tried, layer>> /\ pc = "judge" /\ attempts' = attempts - 1
    BY <1>17 DEF BlankRetry, Judging, Again
  <2>2. Untried # {} /\ attempts' < MaxAttempts
    BY <2>1, EndFacts, FunnelFacts DEF EndInv, LoopGoesOn, LoopInv, CountersOK
  <2> QED
    BY <2>1, <2>2, NothingIsWithdrawn, StaysOn
<1>18. CASE BlankHop
  <2>1. NextLayer /\ UNCHANGED tried /\ attempts' = Reserved(attempts) - 1
    BY <1>18 DEF BlankHop, Again
  <2>2. attempts' < MaxAttempts
    BY <2>1, EndFacts, FunnelFacts DEF Reserved
  <2> QED
    BY <2>1, <2>2, NothingIsWithdrawn, HopsOn
<1>19. CASE AcceptAnswer
  <2>1. UNCHANGED <<tried, layer>> /\ pc = "judge" /\ pc' = "respond"
    BY <1>19 DEF AcceptAnswer, Judging
  <2>2. Untried # {}
    BY <2>1 DEF EndInv, LoopGoesOn
  <2> QED
    BY <2>1, <2>2, NothingIsWithdrawn, StaysOn
<1>20. CASE RewriteBody
  <2>1. UNCHANGED <<tried, layer>> /\ pc = "judge" /\ attempts' = attempts - 1
    BY <1>20 DEF RewriteBody, Judging, Again
  <2>2. Untried # {} /\ attempts' < MaxAttempts
    BY <2>1, EndFacts, FunnelFacts DEF EndInv, LoopGoesOn, LoopInv, CountersOK
  <2> QED
    BY <2>1, <2>2, NothingIsWithdrawn, StaysOn
<1>21. CASE CompressContext
  <2>1. UNCHANGED <<tried, layer>> /\ pc = "judge" /\ attempts' = attempts - 1
    BY <1>21 DEF CompressContext, Judging, Again
  <2>2. Untried # {} /\ attempts' < MaxAttempts
    BY <2>1, EndFacts, FunnelFacts DEF EndInv, LoopGoesOn, LoopInv, CountersOK
  <2> QED
    BY <2>1, <2>2, NothingIsWithdrawn, StaysOn
<1>22. CASE RetryProvider
  <2>1. /\ pc = "judge" /\ pc' = "loop" /\ Blame /\ RetriesProvider /\ UNCHANGED layer
        /\ attempts' = IF StillUntried # {} THEN attempts - 1 ELSE attempts
    BY <1>22 DEF RetryProvider, JudgedError, Judging, Again
  <2>2. \A l \in Layers : l # layer => tried'[l] = tried[l]
    BY <2>1, BlameFacts DEF EndInv, LoopInv, CountersOK
  <2>3. attempts' < MaxAttempts
    <3>1. attempts >= 1
      BY <2>1 DEF EndInv, LoopInv, CountersOK
    <3>2. StillUntried = {} => attempts < MaxAttempts
      BY <2>1 DEF RetriesProvider, ServerRetry
    <3> QED
      BY <2>1, <3>1, <3>2, EndFacts, FunnelFacts
  <2>4. CASE ServerRetry
    <3>1. UNCHANGED tried
      BY <2>1, <2>4 DEF Blame
    <3>2. Untried # {}
      BY <2>1 DEF EndInv, LoopGoesOn
    <3> QED
      BY <2>1, <2>3, <3>1, <3>2, NothingIsWithdrawn, StaysOn
  <2>5. CASE ~ServerRetry
    <3>1. BlamesKey /\ StillUntried # {}
      BY <2>1, <2>5 DEF RetriesProvider
    <3>2. tried' = [tried EXCEPT ![layer] = @ \cup {key}]
      BY <2>1, <2>5, <3>1 DEF Blame
    <3>3. tried'[layer] = tried[layer] \cup {key}
      BY <3>2, EndFacts
    <3>4. offered \subseteq ActiveKeys
      BY <2>1, EndFacts DEF EndInv, AnswerIsJudged
    <3>5. ActiveKeys' = ActiveKeys
      BY <2>1, NothingIsWithdrawn DEF ActiveKeys
    <3>6. Untried' # {}
      BY <2>1, <3>1, <3>3, <3>4, <3>5 DEF StillUntried, Untried
    <3>7. \A l \in Layers : l > layer => tried'[l] = {}
      BY <2>2, EndFacts DEF EndInv, LoopGoesOn
    <3> QED
      BY <2>1, <2>3, <3>6, <3>7 DEF LoopGoesOn
  <2> QED
    BY <2>4, <2>5
<1>23. CASE FallBack
  <2>1. pc = "judge" /\ Blame /\ NextLayer /\ attempts' = Reserved(attempts)
    BY <1>23 DEF FallBack, JudgedError, Judging, Again
  <2>2. \A l \in Layers : l # layer => tried'[l] = tried[l]
    BY <2>1, BlameFacts DEF EndInv, LoopInv, CountersOK
  <2>3. attempts' < MaxAttempts
    BY <2>1, EndFacts, FunnelFacts DEF Reserved
  <2> QED
    BY <2>1, <2>2, <2>3, NothingIsWithdrawn, HopsOn
<1>24. CASE RetryLastLayer
  <2>1. /\ pc = "judge" /\ Blame /\ ~RetriesProvider /\ LastLayerRetry
        /\ UNCHANGED layer /\ attempts' = attempts
    BY <1>24 DEF RetryLastLayer, JudgedError, Judging, Again
  <2>2. ~BlamesKey
    BY <2>1 DEF RetriesProvider, ServerRetry, LastLayerRetry, BlamesKey, KeyFaults, Unavailable
  <2>3. UNCHANGED tried
    BY <2>1, <2>2 DEF Blame
  <2>4. Untried # {} /\ attempts' < MaxAttempts
    BY <2>1 DEF EndInv, LoopGoesOn, LastLayerRetry
  <2> QED
    BY <2>1, <2>3, <2>4, NothingIsWithdrawn, StaysOn
<1>25. CASE GiveUp
  <2>1. /\ pc = "judge" /\ pc' = "respond" /\ Blame /\ UNCHANGED layer
        /\ answer.kind \in UpstreamErrors
    BY <1>25 DEF GiveUp, JudgedError, Judging
  <2>2. \A l \in Layers : l # layer => tried'[l] = tried[l]
    BY <2>1, BlameFacts DEF EndInv, LoopInv, CountersOK
  <2>3. answer'.kind = answer.kind
    <3>1. answer' = [answer EXCEPT !.retryable = answer.retryable /\ ~CapacitySpent]
      BY <1>25 DEF GiveUp
    <3>2. (answer.retryable /\ ~CapacitySpent) \in BOOLEAN
      BY EndFacts, AnswerFacts
    <3> QED
      BY <3>1, <3>2, EndFacts, AnswerFacts
  <2>4. answer'.kind \notin Good
    BY <2>1, <2>3, KindFacts DEF Good
  <2> QED
    BY <2>1, <2>2, <2>4, GoesNoFurther
<1>26. CASE InternalError
  BY <1>26, NeverHappens
<1>27. CASE LeftWhileResponding
  <2>1. pc' \in {"failing", "done"} /\ UNCHANGED <<layer, tried>>
    BY <1>27 DEF LeftWhileResponding
  <2> QED
    BY <2>1, GoesNoFurther
<1>28. CASE SendAnswer
  <2>1. pc' \in {"failing", "done"} /\ UNCHANGED <<layer, tried>>
    BY <1>28 DEF SendAnswer
  <2> QED
    BY <2>1, GoesNoFurther
<1>29. CASE SendError
  <2>1. /\ pc = "respond" /\ UNCHANGED <<layer, tried>>
        /\ pc' = "done" \/ answer.kind \in LocalErrors
    BY <1>29 DEF SendError, Responding
  <2>2. answer.kind \notin LocalErrors
    BY <2>1, KindFacts DEF EndInv, AnswerIsJudged, Good
  <2> QED
    BY <2>1, <2>2, GoesNoFurther
<1>30. CASE HandBack
  <2>1. /\ pc = "respond" /\ pc' = "matrix" /\ UNCHANGED <<layer, tried, answer>>
        /\ answer.retryable
    BY <1>30 DEF HandBack, Responding
  <2>2. answer.kind # "capacity"
    BY <2>1 DEF EndInv, AnswerIsJudged
  <2> QED
    BY <2>1, <2>2, GoesNoFurther
<1>31. CASE ForwardFakeStream
  <2>1. /\ UNCHANGED <<tried, layer>> /\ pc = "respond" /\ pc' = "stage2"
        /\ answer.kind \in Successes
    BY <1>31 DEF ForwardFakeStream, Responding
  <2>2. Untried # {}
    BY <2>1 DEF EndInv, LoopGoesOn, Good
  <2> QED
    BY <2>1, <2>2, NothingIsWithdrawn, StaysOn
<1>32. CASE ForwardStream
  <2>1. /\ UNCHANGED <<tried, layer>> /\ pc = "respond" /\ answer.kind = "stream"
        /\ pc' # "loop"
    BY <1>32 DEF ForwardStream, Responding
  <2>2. Untried # {}
    BY <2>1 DEF EndInv, LoopGoesOn, Good
  <2> QED
    BY <2>1, <2>2, NothingIsWithdrawn, StaysOn
<1>33. CASE LeftBeforeDeciding
  <2>1. pc' \in {"failing", "done"} /\ UNCHANGED <<layer, tried>>
    BY <1>33 DEF LeftBeforeDeciding, Close
  <2> QED
    BY <2>1, GoesNoFurther
<1>34. CASE StreamCapacityRetry
  <2>1. /\ UNCHANGED <<tried, layer>> /\ pc = "matrix" /\ answer.kind = "capacity"
        /\ attempts' = 0 \/ attempts' = attempts - 1
    BY <1>34 DEF StreamCapacityRetry, Deciding, NewRound, Again
  <2>2. Untried # {} /\ attempts' < MaxAttempts
    BY <2>1, EndFacts, FunnelFacts DEF EndInv, LoopGoesOn, LoopInv, CountersOK
  <2> QED
    BY <2>1, <2>2, NothingIsWithdrawn, StaysOn
<1>35. CASE RotateKey
  <2>1. /\ pc' = "loop" /\ UNCHANGED layer /\ Rotates /\ ~HopsFirst
        /\ attempts' = 0 \/ attempts' = attempts - 1
    BY <1>35 DEF RotateKey, Rotates, NewRound, Again
  <2>2. /\ pc = "matrix" /\ \A l \in Layers : l # layer => tried'[l] = tried[l]
        /\ tried'[layer] = tried[layer] \cup ({answer.key} \ {NoKey})
    BY <1>35, <2>1, DecideFacts DEF RotateKey, Rotates, EndInv
  <2>3. attempts' < MaxAttempts
    BY <2>1, <2>2, EndFacts, FunnelFacts DEF EndInv, LoopInv, CountersOK
  <2>4. answer.offered \subseteq ActiveKeys
    BY <2>2, EndFacts DEF EndInv, AnswerIsJudged
  <2>5. ActiveKeys' = ActiveKeys
    BY <2>1, NothingIsWithdrawn DEF ActiveKeys
  <2>6. Untried' # {}
    BY <2>1, <2>2, <2>4, <2>5 DEF Rotates, Untried
  <2>7. \A l \in Layers : l > layer => tried'[l] = {}
    BY <2>2, EndFacts DEF EndInv, LoopGoesOn
  <2> QED
    BY <2>1, <2>3, <2>6, <2>7 DEF LoopGoesOn
<1>36. CASE StreamFallBack
  <2>1. NextLayer /\ (attempts' = 0 \/ attempts' = Reserved(attempts))
    BY <1>36 DEF StreamFallBack, NewRound, Again
  <2>2. \A l \in Layers : l # layer => tried'[l] = tried[l]
    BY <1>36, DecideFacts DEF StreamFallBack, EndInv
  <2>3. attempts' < MaxAttempts
    BY <2>1, EndFacts, FunnelFacts DEF Reserved
  <2> QED
    BY <2>1, <2>2, <2>3, NothingIsWithdrawn, HopsOn
<1>37. CASE StreamGiveUp
  <2>1. pc' = "failing" /\ UNCHANGED layer
    BY <1>37 DEF StreamGiveUp
  <2>2. \A l \in Layers : l # layer => tried'[l] = tried[l]
    BY <1>37, DecideFacts DEF StreamGiveUp, EndInv
  <2> QED
    BY <2>1, <2>2, GoesNoFurther
<1>38. CASE LogFailure
  <2>1. pc' \in {"failing", "done"} /\ UNCHANGED <<layer, tried>>
    BY <1>38 DEF LogFailure
  <2> QED
    BY <2>1, GoesNoFurther
<1>39. CASE Round2Retry
  <2>1. UNCHANGED <<tried, layer>> /\ pc = "stage2" /\ attempts' = 0
    BY <1>39 DEF Round2Retry, Again
  <2>2. Untried # {} /\ attempts' < MaxAttempts
    BY <2>1, FunnelFacts DEF EndInv, LoopGoesOn
  <2> QED
    BY <2>1, <2>2, NothingIsWithdrawn, StaysOn
<1>40. CASE Round2Hop
  <2>1. NextLayer /\ UNCHANGED tried /\ attempts' = 0
    BY <1>40 DEF Round2Hop
  <2>2. attempts' < MaxAttempts
    BY <2>1, FunnelFacts
  <2> QED
    BY <2>1, <2>2, NothingIsWithdrawn, HopsOn
<1>41. CASE Finalize
  <2>1. pc' \in {"failing", "done"} /\ UNCHANGED <<layer, tried>>
    BY <1>41 DEF Finalize
  <2> QED
    BY <2>1, GoesNoFurther
<1>42. CASE Disconnect
  <2>1. UNCHANGED <<pc, attempts, layer, tried, answer, active>>
    BY <1>42 DEF Disconnect, inside, target, targetKeys
  <2> QED
    BY <2>1 DEF EndInv, LoopGoesOn, Untried, ActiveKeys
<1>43. CASE KeyLost
  BY <1>43, NeverHappens
<1>44. CASE DisableProvider
  BY <1>44, NeverHappens
<1> QED
  BY <1>1, <1>2, <1>3, <1>4, <1>5, <1>6, <1>7, <1>8, <1>9, <1>10, <1>11, <1>12, <1>13, <1>14, <1>15,
     <1>16, <1>17, <1>18, <1>19, <1>20, <1>21, <1>22, <1>23, <1>24, <1>25, <1>26, <1>27, <1>28,
     <1>29, <1>30, <1>31, <1>32, <1>33, <1>34, <1>35, <1>36, <1>37, <1>38, <1>39, <1>40, <1>41,
     <1>42, <1>43, <1>44
  DEF Step, Attempt, Judge, Respond, Rescue

LEMMA NothingJudged ==
  ASSUME \/ pc' = "loop" /\ answer' = NoAnswer
         \/ pc' \in {"failing", "done", "stage2"}
  PROVE  AnswerIsJudged'
  BY AnswerFacts DEF AnswerIsJudged, BeforeFetch

LEMMA OfferedFits ==
  ASSUME EndInv, pc = "judge"
  PROVE  answer.offered \subseteq KeysOf[ProviderOf[layer]]
  BY DEF EndInv, AnswerIsJudged, LoopInv, AnswerFits

LEMMA JudgedKept ==
  ASSUME EndInv, Undisturbed,
         Step \/ Disconnect \/ KeyLost \/ DisableProvider
  PROVE  AnswerIsJudged'
<1> USE DEF targetKeys, capacity, selected, rescue, client, outside, target, inside
<1>1. CASE LeftBeforeAttempt
  <2>1. pc' \in {"failing", "done", "stage2"}
    BY <1>1 DEF LeftBeforeAttempt, Close
  <2> QED
    BY <2>1, NothingJudged
<1>2. CASE StartAttempt
  <2>1. pc = "loop" /\ pc' = "resolve" /\ UNCHANGED answer
    BY <1>2 DEF StartAttempt, EndInv, LoopGoesOn
  <2> QED
    BY <2>1 DEF EndInv, AnswerIsJudged, BeforeFetch
<1>3. CASE LoopGuardStops
  BY <1>3, NeverHappens
<1>4. CASE ProviderDisabled
  BY <1>4, NeverHappens
<1>5. CASE HourlyLimit
  BY <1>5, NeverHappens
<1>6. CASE ConcurrencyHop
  BY <1>6, NeverHappens
<1>7. CASE UseProvider
  <2>1. pc = "resolve" /\ pc' = "keys" /\ UNCHANGED answer
    BY <1>7 DEF UseProvider, ProviderEnabled
  <2> QED
    BY <2>1 DEF EndInv, AnswerIsJudged, BeforeFetch
<1>8. CASE NoActiveKeys
  BY <1>8, NeverHappens
<1>9. CASE AllKeysTried
  BY <1>9, NeverHappens
<1>10. CASE ServeFromCache
  BY <1>10, NeverHappens
<1>11. CASE SelectKey
  <2>1. pc = "keys" /\ pc' = "queued" /\ UNCHANGED <<answer, layer>> /\ offered' = ActiveKeys
    BY <1>11 DEF SelectKey
  <2> QED
    BY <2>1, EndFacts DEF EndInv, AnswerIsJudged, BeforeFetch
<1>12. CASE SkipEjected
  BY <1>12, NeverHappens
<1>13. CASE StartFetch
  <2>1. pc = "queued" /\ pc' = "fetch" /\ UNCHANGED <<answer, layer, offered>>
    BY <1>13 DEF StartFetch
  <2> QED
    BY <2>1 DEF EndInv, AnswerIsJudged, BeforeFetch
<1>14. CASE FetchReturns
  <2>1. PICK kind \in Answers :
          answer' = [kind |-> kind, key |-> key, offered |-> offered,
                     retryable |-> Retryable(kind)]
    BY <1>14 DEF FetchReturns
  <2>2. answer'.kind \in Answers
    BY <2>1
  <2>3. pc = "fetch" /\ pc' = "judge" /\ UNCHANGED <<layer, offered>>
    BY <1>14 DEF FetchReturns
  <2> QED
    BY <2>2, <2>3 DEF EndInv, AnswerIsJudged, BeforeFetch
<1>15. CASE LeftBeforeJudging
  <2>1. pc' \in {"failing", "done", "stage2"}
    BY <1>15 DEF LeftBeforeJudging, Close
  <2> QED
    BY <2>1, NothingJudged
<1>16. CASE CapacityRetry
  <2>1. pc' = "loop" /\ answer' = NoAnswer
    BY <1>16 DEF CapacityRetry, Again
  <2> QED
    BY <2>1, NothingJudged
<1>17. CASE BlankRetry
  <2>1. pc' = "loop" /\ answer' = NoAnswer
    BY <1>17 DEF BlankRetry, Again
  <2> QED
    BY <2>1, NothingJudged
<1>18. CASE BlankHop
  <2>1. pc' = "loop" /\ answer' = NoAnswer
    BY <1>18 DEF BlankHop, Again
  <2> QED
    BY <2>1, NothingJudged
<1>19. CASE AcceptAnswer
  <2>1. /\ pc = "judge" /\ pc' = "respond" /\ UNCHANGED layer
        /\ answer.kind \in Successes \cup {"stream"}
        /\ answer' = answer \/ answer' = [answer EXCEPT !.kind = "ok"]
    BY <1>19 DEF AcceptAnswer, Judging
  <2>2. "ok" \in Kinds /\ "ok" \in Successes
    BY KindFacts
  <2>3. answer'.kind \in Good /\ answer'.offered = answer.offered
    <3>1. CASE answer' = answer
      BY <2>1, <3>1 DEF Good
    <3>2. CASE answer' = [answer EXCEPT !.kind = "ok"]
      BY <2>2, <3>2, EndFacts, AnswerFacts DEF Good
    <3> QED
      BY <2>1, <3>1, <3>2
  <2>4. answer'.kind # "capacity"
    BY <2>3, KindFacts DEF Good
  <2> QED
    BY <2>1, <2>3, <2>4, OfferedFits DEF AnswerIsJudged, BeforeFetch
<1>20. CASE RewriteBody
  <2>1. pc' = "loop" /\ answer' = NoAnswer
    BY <1>20 DEF RewriteBody, Again
  <2> QED
    BY <2>1, NothingJudged
<1>21. CASE CompressContext
  <2>1. pc' = "loop" /\ answer' = NoAnswer
    BY <1>21 DEF CompressContext, Again
  <2> QED
    BY <2>1, NothingJudged
<1>22. CASE RetryProvider
  <2>1. pc' = "loop" /\ answer' = NoAnswer
    BY <1>22 DEF RetryProvider, Again
  <2> QED
    BY <2>1, NothingJudged
<1>23. CASE FallBack
  <2>1. pc' = "loop" /\ answer' = NoAnswer
    BY <1>23 DEF FallBack, Again
  <2> QED
    BY <2>1, NothingJudged
<1>24. CASE RetryLastLayer
  <2>1. pc' = "loop" /\ answer' = NoAnswer
    BY <1>24 DEF RetryLastLayer, Again
  <2> QED
    BY <2>1, NothingJudged
<1>25. CASE GiveUp
  <2>1. /\ pc = "judge" /\ pc' = "respond" /\ UNCHANGED layer
        /\ answer.kind \in UpstreamErrors
        /\ ~(answer.kind = "capacity" /\ cap[layer] < CapRetries /\ ~capDone[layer])
        /\ answer' = [answer EXCEPT !.retryable = answer.retryable /\ ~CapacitySpent]
    BY <1>25 DEF GiveUp, JudgedError, Judging
  <2>2. (answer.retryable /\ ~CapacitySpent) \in BOOLEAN
    BY EndFacts, AnswerFacts
  <2>3. /\ answer'.kind = answer.kind /\ answer'.offered = answer.offered
        /\ answer'.retryable = (answer.retryable /\ ~CapacitySpent)
    BY <2>1, <2>2, EndFacts, AnswerFacts
  <2>4. answer.kind = "capacity" => CapacitySpent
    <3>1. cap[layer] \in 0..CapRetries
      BY EndFacts DEF EndInv, LoopInv, TypeOK
    <3> QED
      BY <2>1, <3>1, FunnelFacts DEF CapacitySpent
  <2>5. answer'.kind = "capacity" => ~answer'.retryable
    BY <2>3, <2>4
  <2> QED
    BY <2>1, <2>3, <2>5, OfferedFits DEF AnswerIsJudged, BeforeFetch
<1>26. CASE InternalError
  BY <1>26, NeverHappens
<1>27. CASE LeftWhileResponding
  <2>1. pc' \in {"failing", "done", "stage2"}
    BY <1>27 DEF LeftWhileResponding
  <2> QED
    BY <2>1, NothingJudged
<1>28. CASE SendAnswer
  <2>1. pc' \in {"failing", "done", "stage2"}
    BY <1>28 DEF SendAnswer
  <2> QED
    BY <2>1, NothingJudged
<1>29. CASE SendError
  <2>1. pc' \in {"failing", "done", "stage2"}
    BY <1>29 DEF SendError
  <2> QED
    BY <2>1, NothingJudged
<1>30. CASE HandBack
  <2>1. pc = "respond" /\ pc' = "matrix" /\ UNCHANGED <<layer, answer>>
    BY <1>30 DEF HandBack, Responding
  <2> QED
    BY <2>1 DEF EndInv, AnswerIsJudged, BeforeFetch
<1>31. CASE ForwardFakeStream
  <2>1. pc' \in {"failing", "done", "stage2"}
    BY <1>31 DEF ForwardFakeStream
  <2> QED
    BY <2>1, NothingJudged
<1>32. CASE ForwardStream
  <2>1. /\ pc = "respond" /\ UNCHANGED layer /\ pc' \in {"stage2", "failing", "matrix"}
        /\ \E end \in StreamEnds : answer' = [answer EXCEPT !.kind = end]
    BY <1>32 DEF ForwardStream, Responding
  <2>2. answer'.offered = answer.offered
    BY <2>1, EndFacts DEF AnswerRecords
  <2> QED
    BY <2>1, <2>2 DEF EndInv, AnswerIsJudged, BeforeFetch
<1>33. CASE LeftBeforeDeciding
  <2>1. pc' \in {"failing", "done", "stage2"}
    BY <1>33 DEF LeftBeforeDeciding, Close
  <2> QED
    BY <2>1, NothingJudged
<1>34. CASE StreamCapacityRetry
  <2>1. pc' = "loop" /\ answer' = NoAnswer
    BY <1>34 DEF StreamCapacityRetry, NewRound, Again
  <2> QED
    BY <2>1, NothingJudged
<1>35. CASE RotateKey
  <2>1. pc' = "loop" /\ answer' = NoAnswer
    BY <1>35 DEF RotateKey, NewRound, Again
  <2> QED
    BY <2>1, NothingJudged
<1>36. CASE StreamFallBack
  <2>1. pc' = "loop" /\ answer' = NoAnswer
    BY <1>36 DEF StreamFallBack, NewRound, Again
  <2> QED
    BY <2>1, NothingJudged
<1>37. CASE StreamGiveUp
  <2>1. pc' \in {"failing", "done", "stage2"}
    BY <1>37 DEF StreamGiveUp
  <2> QED
    BY <2>1, NothingJudged
<1>38. CASE LogFailure
  <2>1. pc' \in {"failing", "done", "stage2"}
    BY <1>38 DEF LogFailure
  <2> QED
    BY <2>1, NothingJudged
<1>39. CASE Round2Retry
  <2>1. pc' = "loop" /\ answer' = NoAnswer
    BY <1>39 DEF Round2Retry, Again
  <2> QED
    BY <2>1, NothingJudged
<1>40. CASE Round2Hop
  <2>1. pc' \in {"loop", "done"} /\ answer' = NoAnswer
    BY <1>40 DEF Round2Hop
  <2> QED
    BY <2>1, NothingJudged
<1>41. CASE Finalize
  <2>1. pc' \in {"failing", "done", "stage2"}
    BY <1>41 DEF Finalize
  <2> QED
    BY <2>1, NothingJudged
<1>42. CASE Disconnect
  <2>1. UNCHANGED <<pc, layer, offered, answer>>
    BY <1>42 DEF Disconnect, inside, selected
  <2> QED
    BY <2>1 DEF EndInv, AnswerIsJudged
<1>43. CASE KeyLost
  BY <1>43, NeverHappens
<1>44. CASE DisableProvider
  BY <1>44, NeverHappens
<1> QED
  BY <1>1, <1>2, <1>3, <1>4, <1>5, <1>6, <1>7, <1>8, <1>9, <1>10, <1>11, <1>12, <1>13, <1>14, <1>15,
     <1>16, <1>17, <1>18, <1>19, <1>20, <1>21, <1>22, <1>23, <1>24, <1>25, <1>26, <1>27, <1>28,
     <1>29, <1>30, <1>31, <1>32, <1>33, <1>34, <1>35, <1>36, <1>37, <1>38, <1>39, <1>40, <1>41,
     <1>42, <1>43, <1>44
  DEF Step, Attempt, Judge, Respond, Rescue

LEMMA CycleArithmetic ==
  \A c, e, t, f, u, l, m \in Nat :
     c <= e + t + (l - 1) /\ f + u >= e + t /\ m >= l => c <= f + u + (m - 1)
  OBVIOUS

LEMMA CountFacts ==
  ASSUME EndInv, Undisturbed, NEW kind, CountIntervention(kind)
  PROVE  /\ emptyTries' + thinkTries' >= emptyTries + thinkTries
         /\ emptyTries' \in Nat /\ thinkTries' \in Nat
         /\ Intervenes(kind) => emptyTries' + thinkTries' = emptyTries + thinkTries + 1
<1>1. emptyTries \in Nat /\ thinkTries \in Nat
  BY EndFacts, FunnelFacts
<1>2. CASE ThinkIntervenes(kind)
  <2>1. thinkTries' = thinkTries + 1 /\ emptyTries' = emptyTries
    BY <1>2 DEF CountIntervention, EmptyIntervenes
  <2> QED
    BY <1>1, <2>1
<1>3. CASE ~ThinkIntervenes(kind)
  <2>1. thinkTries' = thinkTries
        /\ emptyTries' = IF EmptyIntervenes(kind) THEN emptyTries + 1 ELSE emptyTries
    BY <1>3 DEF CountIntervention
  <2>2. Intervenes(kind) => EmptyIntervenes(kind)
    BY <1>3 DEF Intervenes
  <2> QED
    BY <1>1, <2>1, <2>2
<1> QED
  BY <1>2, <1>3

\* A step that ends nothing and costs no cycle
LEMMA ReplyStaysOpen ==
  ASSUME EndInv, Undisturbed, UNCHANGED <<reply, cycles>>, pc \notin {"failing", "done"},
         pc' # "done", layer' \in {layer, layer + 1},
         emptyTries' + thinkTries' >= emptyTries + thinkTries,
         emptyTries' \in Nat, thinkTries' \in Nat
  PROVE  ReplyFits'
<1>1. reply = "open" /\ cycles <= emptyTries + thinkTries + (layer - 1)
  BY DEF EndInv, ReplyFits
<1>2. cycles' <= emptyTries' + thinkTries' + (layer' - 1)
  <2>1. layer \in Nat /\ cycles \in Nat /\ emptyTries \in Nat /\ thinkTries \in Nat
    BY EndFacts, FunnelFacts
  <2>2. layer' \in Nat /\ layer' >= layer /\ cycles' = cycles
    BY <2>1
  <2> QED
    BY <1>1, <2>1, <2>2, CycleArithmetic
<1>3. reply' = "open"
  BY <1>1
<1>4. EndIsTrue'
  BY <1>3 DEF EndIsTrue, NoInternalError, LogAgrees
<1> QED
  BY <1>2, <1>3, <1>4 DEF ReplyFits

\* A step that ends the request has logged what the reply says.
LEMMA EndsTruly ==
  ASSUME EndInv, Undisturbed, UNCHANGED <<cycles, layer>>, pc' \in {"failing", "done"},
         emptyTries' + thinkTries' >= emptyTries + thinkTries,
         emptyTries' \in Nat, thinkTries' \in Nat,
         reply' # "internal",
         pc' = "done" => row' # "queued" /\ (reply' = "error" => row' # "success")
  PROVE  ReplyFits'
<1>1. cycles <= emptyTries + thinkTries + (layer - 1)
  BY DEF EndInv, ReplyFits
<1>2. cycles' <= emptyTries' + thinkTries' + (layer' - 1)
  <2>1. layer \in Nat /\ cycles \in Nat /\ emptyTries \in Nat /\ thinkTries \in Nat
    BY EndFacts, FunnelFacts
  <2>2. layer' \in Nat /\ layer' >= layer /\ cycles' = cycles
    BY <2>1
  <2> QED
    BY <1>1, <2>1, <2>2, CycleArithmetic
<1>3. EndIsTrue'
  BY DEF EndIsTrue, NoInternalError, LogAgrees
<1> QED
  BY <1>2, <1>3 DEF ReplyFits

LEMMA ReplyKept ==
  ASSUME EndInv, Undisturbed,
         Step \/ Disconnect \/ KeyLost \/ DisableProvider
  PROVE  ReplyFits'
<1> USE DEF targetKeys, capacity, selected, rescue, client, outside, target, inside
<1>1. CASE LeftBeforeAttempt
  <2>1. /\ pc' \in {"failing", "done"} /\ UNCHANGED <<cycles, layer, emptyTries, thinkTries>>
        /\ reply' = "closed" /\ row' # "queued"
    BY <1>1 DEF LeftBeforeAttempt, Close, Logged
  <2> QED
    BY <2>1, EndFacts, FunnelFacts, EndsTruly
<1>2. CASE StartAttempt
  <2>1. /\ pc = "loop" /\ pc' \in {"resolve", "respond"}
        /\ UNCHANGED <<reply, cycles, emptyTries, thinkTries, layer>>
    BY <1>2 DEF StartAttempt
  <2> QED
    BY <2>1, EndFacts, FunnelFacts, ReplyStaysOpen
<1>3. CASE LoopGuardStops
  BY <1>3, NeverHappens
<1>4. CASE ProviderDisabled
  BY <1>4, NeverHappens
<1>5. CASE HourlyLimit
  BY <1>5, NeverHappens
<1>6. CASE ConcurrencyHop
  BY <1>6, NeverHappens
<1>7. CASE UseProvider
  <2>1. /\ pc = "resolve" /\ pc' = "keys"
        /\ UNCHANGED <<reply, cycles, emptyTries, thinkTries, layer>>
    BY <1>7 DEF UseProvider, ProviderEnabled
  <2> QED
    BY <2>1, EndFacts, FunnelFacts, ReplyStaysOpen
<1>8. CASE NoActiveKeys
  BY <1>8, NeverHappens
<1>9. CASE AllKeysTried
  BY <1>9, NeverHappens
<1>10. CASE ServeFromCache
  BY <1>10, NeverHappens
<1>11. CASE SelectKey
  <2>1. /\ pc = "keys" /\ pc' = "queued"
        /\ UNCHANGED <<reply, cycles, emptyTries, thinkTries, layer>>
    BY <1>11 DEF SelectKey
  <2> QED
    BY <2>1, EndFacts, FunnelFacts, ReplyStaysOpen
<1>12. CASE SkipEjected
  BY <1>12, NeverHappens
<1>13. CASE StartFetch
  <2>1. /\ pc = "queued" /\ pc' = "fetch"
        /\ UNCHANGED <<reply, cycles, emptyTries, thinkTries, layer>>
    BY <1>13 DEF StartFetch
  <2> QED
    BY <2>1, EndFacts, FunnelFacts, ReplyStaysOpen
<1>14. CASE FetchReturns
  <2>1. /\ pc = "fetch" /\ pc' = "judge"
        /\ UNCHANGED <<reply, cycles, emptyTries, thinkTries, layer>>
    BY <1>14 DEF FetchReturns
  <2> QED
    BY <2>1, EndFacts, FunnelFacts, ReplyStaysOpen
<1>15. CASE LeftBeforeJudging
  <2>1. /\ pc' \in {"failing", "done"} /\ UNCHANGED <<cycles, layer, emptyTries, thinkTries>>
        /\ reply' = "closed" /\ row' # "queued"
    BY <1>15 DEF LeftBeforeJudging, Close, Logged
  <2> QED
    BY <2>1, EndFacts, FunnelFacts, EndsTruly
<1>16. CASE CapacityRetry
  <2>1. /\ pc = "judge" /\ pc' = "loop"
        /\ UNCHANGED <<reply, cycles, emptyTries, thinkTries, layer>>
    BY <1>16 DEF CapacityRetry, Judging, Again
  <2> QED
    BY <2>1, EndFacts, FunnelFacts, ReplyStaysOpen
<1>17. CASE BlankRetry
  <2>1. /\ pc = "judge" /\ pc' = "loop" /\ cycles' = cycles + 1 /\ UNCHANGED <<reply, layer>>
        /\ CountIntervention(answer.kind) /\ Intervenes(answer.kind)
    BY <1>17 DEF BlankRetry, Judging, Again
  <2>2. emptyTries' + thinkTries' = emptyTries + thinkTries + 1
    BY <2>1, CountFacts
  <2>3. reply = "open" /\ cycles <= emptyTries + thinkTries + (layer - 1)
    BY <2>1 DEF EndInv, ReplyFits
  <2>4. cycles' <= emptyTries' + thinkTries' + (layer' - 1)
    BY <2>1, <2>2, <2>3, EndFacts, FunnelFacts
  <2> QED
    BY <2>1, <2>3, <2>4 DEF ReplyFits, EndIsTrue, NoInternalError, LogAgrees
<1>18. CASE BlankHop
  <2>1. /\ pc = "judge" /\ pc' = "loop" /\ layer' = layer + 1
        /\ UNCHANGED <<reply, cycles, emptyTries, thinkTries>>
    BY <1>18 DEF BlankHop, Judging, NextLayer, Again
  <2> QED
    BY <2>1, EndFacts, FunnelFacts, ReplyStaysOpen
<1>19. CASE AcceptAnswer
  <2>1. /\ pc = "judge" /\ pc' = "respond" /\ UNCHANGED <<reply, cycles, layer>>
        /\ CountIntervention(answer.kind) \/ UNCHANGED <<emptyTries, thinkTries>>
    BY <1>19 DEF AcceptAnswer, Judging
  <2>2. /\ emptyTries' + thinkTries' >= emptyTries + thinkTries
        /\ emptyTries' \in Nat /\ thinkTries' \in Nat
    BY <2>1, CountFacts, EndFacts, FunnelFacts
  <2> QED
    BY <2>1, <2>2, ReplyStaysOpen
<1>20. CASE RewriteBody
  <2>1. /\ pc = "judge" /\ pc' = "loop"
        /\ UNCHANGED <<reply, cycles, emptyTries, thinkTries, layer>>
    BY <1>20 DEF RewriteBody, Judging, Again
  <2> QED
    BY <2>1, EndFacts, FunnelFacts, ReplyStaysOpen
<1>21. CASE CompressContext
  <2>1. /\ pc = "judge" /\ pc' = "loop"
        /\ UNCHANGED <<reply, cycles, emptyTries, thinkTries, layer>>
    BY <1>21 DEF CompressContext, Judging, Again
  <2> QED
    BY <2>1, EndFacts, FunnelFacts, ReplyStaysOpen
<1>22. CASE RetryProvider
  <2>1. /\ pc = "judge" /\ pc' = "loop"
        /\ UNCHANGED <<reply, cycles, emptyTries, thinkTries, layer>>
    BY <1>22 DEF RetryProvider, JudgedError, Judging, Again
  <2> QED
    BY <2>1, EndFacts, FunnelFacts, ReplyStaysOpen
<1>23. CASE FallBack
  <2>1. /\ pc = "judge" /\ pc' = "loop" /\ layer' = layer + 1
        /\ UNCHANGED <<reply, cycles, emptyTries, thinkTries>>
    BY <1>23 DEF FallBack, JudgedError, Judging, NextLayer, Again
  <2> QED
    BY <2>1, EndFacts, FunnelFacts, ReplyStaysOpen
<1>24. CASE RetryLastLayer
  <2>1. /\ pc = "judge" /\ pc' = "loop"
        /\ UNCHANGED <<reply, cycles, emptyTries, thinkTries, layer>>
    BY <1>24 DEF RetryLastLayer, JudgedError, Judging, Again
  <2> QED
    BY <2>1, EndFacts, FunnelFacts, ReplyStaysOpen
<1>25. CASE GiveUp
  <2>1. /\ pc = "judge" /\ pc' = "respond"
        /\ UNCHANGED <<reply, cycles, emptyTries, thinkTries, layer>>
    BY <1>25 DEF GiveUp, JudgedError, Judging
  <2> QED
    BY <2>1, EndFacts, FunnelFacts, ReplyStaysOpen
<1>26. CASE InternalError
  BY <1>26, NeverHappens
<1>27. CASE LeftWhileResponding
  <2>1. /\ pc' \in {"failing", "done"} /\ UNCHANGED <<cycles, layer, emptyTries, thinkTries>>
        /\ reply' = "closed" /\ row' # "queued"
    BY <1>27 DEF LeftWhileResponding, Logged
  <2> QED
    BY <2>1, EndFacts, FunnelFacts, EndsTruly
<1>28. CASE SendAnswer
  <2>1. /\ pc' \in {"failing", "done"} /\ UNCHANGED <<cycles, layer, emptyTries, thinkTries>>
        /\ reply' = "ok" /\ row' # "queued"
    BY <1>28 DEF SendAnswer, Logged
  <2> QED
    BY <2>1, EndFacts, FunnelFacts, EndsTruly
<1>29. CASE SendError
  <2>1. /\ pc = "respond" /\ UNCHANGED <<cycles, layer, emptyTries, thinkTries>>
        /\ pc' = "done" \/ answer.kind \in LocalErrors
        /\ reply' = "error" /\ row' \in {"none", "failed"}
    BY <1>29 DEF SendError, Responding, Logged
  <2>2. answer.kind \notin LocalErrors
    BY <2>1, KindFacts DEF EndInv, AnswerIsJudged, Good
  <2> QED
    BY <2>1, <2>2, EndFacts, FunnelFacts, EndsTruly
<1>30. CASE HandBack
  <2>1. /\ pc = "respond" /\ pc' = "matrix"
        /\ UNCHANGED <<reply, cycles, emptyTries, thinkTries, layer>>
    BY <1>30 DEF HandBack, Responding
  <2> QED
    BY <2>1, EndFacts, FunnelFacts, ReplyStaysOpen
<1>31. CASE ForwardFakeStream
  <2>1. /\ pc = "respond" /\ pc' = "stage2"
        /\ UNCHANGED <<reply, cycles, emptyTries, thinkTries, layer>>
    BY <1>31 DEF ForwardFakeStream, Responding
  <2> QED
    BY <2>1, EndFacts, FunnelFacts, ReplyStaysOpen
<1>32. CASE ForwardStream
  <2>1. /\ pc = "respond" /\ pc' \in {"stage2", "failing", "matrix"}
        /\ UNCHANGED <<cycles, layer, emptyTries, thinkTries>>
        /\ \E end \in StreamEnds :
              /\ reply' = IF end = "cut" THEN "error" ELSE reply
              /\ end = "cut" => pc' = "failing"
    BY <1>32 DEF ForwardStream, Responding
  <2>2. reply = "open"
    BY <2>1 DEF EndInv, ReplyFits
  <2>3. CASE pc' = "failing"
    BY <2>1, <2>2, <2>3, EndFacts, FunnelFacts, EndsTruly
  <2>4. CASE pc' # "failing"
    BY <2>1, <2>4, EndFacts, FunnelFacts, ReplyStaysOpen
  <2> QED
    BY <2>3, <2>4
<1>33. CASE LeftBeforeDeciding
  <2>1. /\ pc' \in {"failing", "done"} /\ UNCHANGED <<cycles, layer, emptyTries, thinkTries>>
        /\ reply' = "closed" /\ row' # "queued"
    BY <1>33 DEF LeftBeforeDeciding, Close, Logged
  <2> QED
    BY <2>1, EndFacts, FunnelFacts, EndsTruly
<1>34. CASE StreamCapacityRetry
  <2>1. /\ pc = "matrix" /\ pc' = "loop"
        /\ UNCHANGED <<reply, cycles, emptyTries, thinkTries, layer>>
    BY <1>34 DEF StreamCapacityRetry, Deciding, NewRound, Again
  <2> QED
    BY <2>1, EndFacts, FunnelFacts, ReplyStaysOpen
<1>35. CASE RotateKey
  <2>1. pc' = "loop" /\ UNCHANGED <<layer, reply>>
    BY <1>35 DEF RotateKey, NewRound, Again
  <2>2. pc = "matrix" /\ UNCHANGED <<cycles, emptyTries, thinkTries>>
    BY <1>35, DecideFacts DEF RotateKey, EndInv
  <2> QED
    BY <2>1, <2>2, EndFacts, FunnelFacts, ReplyStaysOpen
<1>36. CASE StreamFallBack
  <2>1. pc' = "loop" /\ layer' = layer + 1 /\ UNCHANGED reply
    BY <1>36 DEF StreamFallBack, NextLayer, NewRound, Again
  <2>2. pc = "matrix" /\ UNCHANGED <<cycles, emptyTries, thinkTries>>
    BY <1>36, DecideFacts DEF StreamFallBack, EndInv
  <2> QED
    BY <2>1, <2>2, EndFacts, FunnelFacts, ReplyStaysOpen
<1>37. CASE StreamGiveUp
  <2>1. pc' = "failing" /\ reply' = "error" /\ UNCHANGED layer
    BY <1>37 DEF StreamGiveUp
  <2>2. UNCHANGED <<cycles, emptyTries, thinkTries>>
    BY <1>37, DecideFacts DEF StreamGiveUp, EndInv
  <2> QED
    BY <2>1, <2>2, EndFacts, FunnelFacts, EndsTruly
<1>38. CASE LogFailure
  <2>1. /\ pc' = "done" /\ UNCHANGED <<cycles, layer, emptyTries, thinkTries, reply>>
        /\ row' \in {"none", "failed"}
    BY <1>38 DEF LogFailure, Logged
  <2>2. reply # "internal"
    BY DEF EndInv, ReplyFits, EndIsTrue, NoInternalError
  <2> QED
    BY <2>1, <2>2, EndFacts, FunnelFacts, EndsTruly
<1>39. CASE Round2Retry
  <2>1. /\ pc = "stage2" /\ pc' = "loop" /\ cycles' = cycles + 1 /\ UNCHANGED <<reply, layer>>
        /\ CountIntervention(answer.kind) /\ Intervenes(answer.kind)
    BY <1>39 DEF Round2Retry, Again
  <2>2. emptyTries' + thinkTries' = emptyTries + thinkTries + 1
    BY <2>1, CountFacts
  <2>3. reply = "open" /\ cycles <= emptyTries + thinkTries + (layer - 1)
    BY <2>1 DEF EndInv, ReplyFits
  <2>4. cycles' <= emptyTries' + thinkTries' + (layer' - 1)
    BY <2>1, <2>2, <2>3, EndFacts, FunnelFacts
  <2> QED
    BY <2>1, <2>3, <2>4 DEF ReplyFits, EndIsTrue, NoInternalError, LogAgrees
<1>40. CASE Round2Hop
  <2>1. /\ pc = "stage2" /\ HasNext /\ layer' = layer + 1 /\ cycles' = cycles + 1
        /\ UNCHANGED <<emptyTries, thinkTries>>
        /\ cycles < MaxCycles => pc' = "loop" /\ UNCHANGED reply
    BY <1>40 DEF Round2Hop, NextLayer
  <2>2. reply = "open" /\ cycles <= emptyTries + thinkTries + (layer - 1)
    BY <2>1 DEF EndInv, ReplyFits
  <2>3. cycles < MaxCycles
    <3>1. layer < LastLayer /\ MaxEmpty + MaxReasoning + LastLayer <= MaxCycles + 1
      BY <2>1 DEF HasNext, Undisturbed
    <3>2. emptyTries \in 0..MaxEmpty /\ thinkTries \in 0..MaxReasoning /\ layer \in Nat
          /\ cycles \in Nat
      BY EndFacts
    <3>3. emptyTries + thinkTries <= MaxEmpty + MaxReasoning
      BY <3>2, FunnelFacts
    <3> QED
      BY <2>2, <3>1, <3>2, <3>3, FunnelFacts
  <2>4. cycles' <= emptyTries' + thinkTries' + (layer' - 1)
    BY <2>1, <2>2, EndFacts, FunnelFacts
  <2> QED
    BY <2>1, <2>2, <2>3, <2>4 DEF ReplyFits, EndIsTrue, NoInternalError, LogAgrees
<1>41. CASE Finalize
  <2>1. /\ pc = "stage2" /\ pc' = "done" /\ UNCHANGED <<cycles, layer>>
        /\ CountIntervention(answer.kind) /\ row' \in {"none", "success", "failed"}
        /\ reply' = IF reply = "open" THEN "ok" ELSE reply
    BY <1>41 DEF Finalize, Logged
  <2>2. reply' = "ok"
    BY <2>1 DEF EndInv, ReplyFits
  <2>3. /\ emptyTries' + thinkTries' >= emptyTries + thinkTries
        /\ emptyTries' \in Nat /\ thinkTries' \in Nat
    BY <2>1, CountFacts
  <2> QED
    BY <2>1, <2>2, <2>3, EndsTruly
<1>42. CASE Disconnect
  <2>1. UNCHANGED <<pc, layer, cycles, emptyTries, thinkTries, reply, row>>
    BY <1>42 DEF Disconnect, inside, rescue, client
  <2> QED
    BY <2>1 DEF EndInv, ReplyFits, EndIsTrue, NoInternalError, LogAgrees
<1>43. CASE KeyLost
  BY <1>43, NeverHappens
<1>44. CASE DisableProvider
  BY <1>44, NeverHappens
<1> QED
  BY <1>1, <1>2, <1>3, <1>4, <1>5, <1>6, <1>7, <1>8, <1>9, <1>10, <1>11, <1>12, <1>13, <1>14, <1>15,
     <1>16, <1>17, <1>18, <1>19, <1>20, <1>21, <1>22, <1>23, <1>24, <1>25, <1>26, <1>27, <1>28,
     <1>29, <1>30, <1>31, <1>32, <1>33, <1>34, <1>35, <1>36, <1>37, <1>38, <1>39, <1>40, <1>41,
     <1>42, <1>43, <1>44
  DEF Step, Attempt, Judge, Respond, Rescue

\* Left alone, a request ends with the answer or the error of an upstream and its row says
\* so: the loop never runs out of attempts, keys or cycles halfway (executeGatewayRequest).
THEOREM EndsAreTrue == Undisturbed => (Spec => []EndIsTrue)
<1> SUFFICES ASSUME Undisturbed PROVE Spec => []EndIsTrue
  OBVIOUS
<1>1. Init => NothingWithdrawn /\ LoopGoesOn /\ AnswerIsJudged /\ ReplyFits
  <2> SUFFICES ASSUME Init PROVE NothingWithdrawn /\ LoopGoesOn /\ AnswerIsJudged /\ ReplyFits
    OBVIOUS
  <2>1. NothingWithdrawn
    BY DEF Init, NothingWithdrawn
  <2>2. LoopGoesOn
    <3>1. 1 \in Layers /\ tried[layer] = {} /\ active = Keys /\ layer = 1
      BY FunnelFacts DEF Init
    <3>2. KeysOf[ProviderOf[1]] # {} /\ KeysOf[ProviderOf[1]] \subseteq Keys
      BY <3>1, FunnelFacts DEF Undisturbed
    <3>3. Untried # {}
      BY <3>1, <3>2 DEF Untried, ActiveKeys
    <3> QED
      BY <3>3, FunnelFacts DEF Init, LoopGoesOn
  <2>3. AnswerIsJudged
    BY AnswerFacts DEF Init, AnswerIsJudged
  <2>4. ReplyFits
    BY DEF Init, ReplyFits, EndIsTrue, NoInternalError, LogAgrees
  <2> QED
    BY <2>1, <2>2, <2>3, <2>4
<1>2. LoopInv /\ LoopInv' /\ NothingWithdrawn /\ LoopGoesOn /\ AnswerIsJudged /\ ReplyFits
        /\ [Next]_vars
        => NothingWithdrawn' /\ LoopGoesOn' /\ AnswerIsJudged' /\ ReplyFits'
  <2> SUFFICES ASSUME EndInv, [Next]_vars
               PROVE  NothingWithdrawn' /\ LoopGoesOn' /\ AnswerIsJudged' /\ ReplyFits'
    BY DEF EndInv
  <2>1. CASE UNCHANGED vars
    <3>1. /\ UNCHANGED <<pc, attempts, cycles, layer, tried, offered, answer, emptyTries>>
          /\ UNCHANGED <<thinkTries, reply, row, active, enabled>>
      BY <2>1 DEF vars, target, targetKeys, selected, rescue, client, outside
    <3>2. NothingWithdrawn' /\ LoopGoesOn'
      BY <3>1 DEF EndInv, NothingWithdrawn, LoopGoesOn, Untried, ActiveKeys
    <3>3. AnswerIsJudged' /\ ReplyFits'
      BY <3>1 DEF EndInv, AnswerIsJudged, ReplyFits, EndIsTrue, NoInternalError, LogAgrees
    <3> QED
      BY <3>2, <3>3
  <2>2. CASE Step \/ Disconnect \/ KeyLost \/ DisableProvider
    <3>1. NothingWithdrawn'
      BY <2>2, NothingIsWithdrawn DEF EndInv, NothingWithdrawn
    <3> QED
      BY <2>2, <3>1, GoesOnKept, JudgedKept, ReplyKept
  <2> QED
    BY <2>1, <2>2 DEF Next, Ended
<1>3. ReplyFits => EndIsTrue
  BY DEF ReplyFits
<1> QED
  BY <1>1, <1>2, <1>3, LoopInvariant, PTL DEF Spec
=============================================================================
