----------------------------- MODULE LoopGuard -----------------------------
(***************************************************************************)
(* The loop guard (services/loopGuard): the turns of one conversation since   *)
(* its last user message are remembered, and a tool continuation is answered    *)
(* with a stop when they show no progress.  The executor inspects a request     *)
(* before its first attempt and again after each hop to another layer.         *)
(*                                                                         *)
(* A turn is known by its fingerprint; the fingerprints of tool errors are     *)
(* ErrorPrints.  The buffer of turns is cut to its last MaxBuffered.            *)
(***************************************************************************)
EXTENDS Integers, Sequences

CONSTANTS
    Fingerprints, ErrorPrints,
    IdenticalRepeats,       \* identicalErrorRepeats
    PingPongHalfCycles,
    ContinuationCeiling,    \* 0 switches the signal off
    MaxAge,                 \* continuationMaxAgeMs; 0 switches the signal off
    MaxBuffered,            \* maxBufferedTurns
    MaxHops,                \* bound on the layers a request hops to
    MaxTurns, MaxTime       \* bounds on the inspections and the clock

ASSUME ErrorPrintsAssumption == ErrorPrints \subseteq Fingerprints
ASSUME FloorsAssumption ==
    /\ IdenticalRepeats \in Nat /\ IdenticalRepeats >= 3
    /\ PingPongHalfCycles \in Nat /\ PingPongHalfCycles >= 6
ASSUME LimitsAssumption ==
    /\ ContinuationCeiling \in Nat /\ MaxAge \in Nat /\ MaxBuffered \in Nat \ {0}
    /\ MaxHops \in Nat /\ MaxTurns \in Nat /\ MaxTime \in Nat

VARIABLES
    turns,          \* LoopGuardSession.turns
    tripped,        \* LoopGuardSession.tripped: the reason, or "none"
    enabled,        \* the configuration
    unavailable,    \* its last refresh failed: the guard lets everything pass
    clock,
    current,        \* the continuation on its way and the hops it has left
    verdict,        \* of the last inspection: "passed", "off" or the reason of a stop
    inspected,      \* history: the prints seen since the last user message, up to a stop
    intentAt,       \* history: when that was, -1 before the first
    seenAt,         \* history: when the guard was last asked
    asked,          \* history: the inspections since the last user message, at most MaxTurns
    received        \* history: how many requests brought what was inspected, counted up to
                    \* IdenticalRepeats

guardVars == <<turns, tripped, enabled, unavailable, clock, current, verdict, inspected,
               intentAt, seenAt, asked, received>>
configVars == <<enabled, unavailable, clock>>

-----------------------------------------------------------------------------
Reasons == {"identical_error", "ping_pong", "turn_ceiling", "age_ceiling"}
\* Only the time of a user's message is ever looked at.
Intent(at) == [kind |-> "user_intent", print |-> "none", at |-> at]
Continuation(f) == [kind |-> "continuation", print |-> f, at |-> 0]

Turns == [kind : {"user_intent", "continuation"}, print : Fingerprints \cup {"none"},
          at : 0..MaxTime]

GuardTypeOK ==
    /\ turns \in Seq(Turns) /\ Len(turns) <= MaxBuffered
    /\ tripped \in Reasons \cup {"none"}
    /\ enabled \in BOOLEAN /\ unavailable \in BOOLEAN /\ clock \in 0..MaxTime
    /\ current \in [print : Fingerprints \cup {"none"}, hops : 0..MaxHops]
    /\ verdict \in Reasons \cup {"passed", "off"}
    /\ inspected \in Seq(Fingerprints) /\ received \in 0..IdenticalRepeats
    /\ intentAt \in -1..MaxTime /\ seenAt \in 0..MaxTime /\ asked \in 0..MaxTurns

NoRequest == [print |-> "none", hops |-> 0]

GuardInit ==
    /\ turns = <<>> /\ tripped = "none"
    /\ enabled = TRUE /\ unavailable = FALSE /\ clock = 0
    /\ current = NoRequest /\ verdict = "passed"
    /\ inspected = <<>> /\ intentAt = -1 /\ seenAt = 0 /\ asked = 0 /\ received = 0

-----------------------------------------------------------------------------
(* patterns.ts                                                             *)

\* turns.slice(-n)
Latest(s, n) == SubSeq(s, Len(s) - n + 1, Len(s))

AllErrors(window) ==
    \A i \in DOMAIN window :
        window[i].kind = "continuation" /\ window[i].print \in ErrorPrints

IdenticalError(s) ==
    /\ Len(s) >= IdenticalRepeats
    /\ LET window == Latest(s, IdenticalRepeats) IN
       AllErrors(window) /\ \A i \in DOMAIN window : window[i].print = window[1].print

PingPong(s) ==
    /\ Len(s) >= PingPongHalfCycles
    /\ LET window == Latest(s, PingPongHalfCycles) IN
       /\ AllErrors(window) /\ window[1].print # window[2].print
       /\ \A i \in DOMAIN window : window[i].print = window[IF i % 2 = 1 THEN 1 ELSE 2].print

IntentsIn(s) == {i \in DOMAIN s : s[i].kind = "user_intent"}

SinceIntent(s) ==
    IF IntentsIn(s) = {} THEN s
    ELSE SubSeq(s, 1 + CHOOSE i \in IntentsIn(s) : \A j \in IntentsIn(s) : j <= i, Len(s))

TurnCeiling(s) == ContinuationCeiling > 0 /\ Len(SinceIntent(s)) >= ContinuationCeiling

AgeCeiling(s) ==
    /\ MaxAge > 0 /\ IntentsIn(s) # {}
    /\ \E i \in IntentsIn(s) :
        /\ \A j \in IntentsIn(s) : j <= i
        /\ clock - s[i].at >= MaxAge

\* detectLoopStop: the first of HARD_STOP_PATTERNS that matches
Detected(s) ==
    CASE IdenticalError(s) -> "identical_error"
      [] ~IdenticalError(s) /\ PingPong(s) -> "ping_pong"
      [] ~IdenticalError(s) /\ ~PingPong(s) /\ TurnCeiling(s) -> "turn_ceiling"
      [] ~IdenticalError(s) /\ ~PingPong(s) /\ ~TurnCeiling(s) /\ AgeCeiling(s) -> "age_ceiling"
      [] OTHER -> "none"

-----------------------------------------------------------------------------
(* inspect.ts                                                              *)

\* LoopGuardStore.set
Stored(s) == IF Len(s) <= MaxBuffered THEN s ELSE Latest(s, MaxBuffered)

\* Mutant: a stop is forgotten while the guard is off.
InspectOffForgets(next) ==
    turns' = Stored(next) /\ verdict' = "off" /\ tripped' = "none"

\* Mutant: the guard remembers nothing while it is off.
InspectOffBlind(next) ==
    verdict' = "off" /\ UNCHANGED <<turns, tripped>>

\* While the guard is off it only remembers.
InspectOff(next) ==
    turns' = Stored(next) /\ verdict' = "off" /\ UNCHANGED tripped

\* inspectContinuationLoop for a continuation
Inspect(f) ==
    LET next == Append(turns, Continuation(f)) IN
    /\ asked < MaxTurns /\ asked' = asked + 1
    /\ inspected' = IF unavailable \/ tripped # "none" THEN inspected ELSE Append(inspected, f)
    /\ seenAt' = clock
    /\ IF unavailable THEN verdict' = "off" /\ UNCHANGED <<turns, tripped>>
       ELSE IF ~enabled THEN InspectOff(next)
       ELSE IF tripped # "none" THEN verdict' = tripped /\ UNCHANGED <<turns, tripped>>
       ELSE /\ turns' = Stored(next)
            /\ tripped' = Detected(next)
            /\ verdict' = IF tripped' = "none" THEN "passed" ELSE tripped'

-----------------------------------------------------------------------------
(* The requests of the conversation.                                       *)

\* A user's message starts the count anew.
UserIntent ==
    /\ IF unavailable
       THEN verdict' = "off" /\ UNCHANGED <<turns, tripped, intentAt, inspected, asked, received>>
       ELSE /\ turns' = <<Intent(clock)>> /\ tripped' = "none" /\ verdict' = "passed"
            /\ intentAt' = clock /\ inspected' = <<>> /\ asked' = 0 /\ received' = 0
    /\ current' = NoRequest /\ seenAt' = clock
    /\ UNCHANGED configVars

\* A continuation arrives; strategyRoutingChecked is still unset.
Receive(f) ==
    /\ Inspect(f)
    /\ received' = IF unavailable \/ received = IdenticalRepeats THEN received ELSE received + 1
    /\ current' = [print |-> f, hops |-> MaxHops]
    /\ UNCHANGED <<configVars, intentAt>>

\* applyEmptyOutputLayerHop resets strategyRoutingChecked, with the original body
LayerHop ==
    /\ current.hops > 0 /\ verdict \in {"passed", "off"}
    /\ Inspect(current.print)
    /\ current' = [current EXCEPT !.hops = @ - 1]
    /\ UNCHANGED <<configVars, intentAt, received>>

\* An administrator saves the settings; refreshLoopGuardConfigCache may fail.
SaveSettings ==
    /\ enabled' \in BOOLEAN /\ unavailable' \in BOOLEAN
    /\ (unavailable' => enabled')       \* the defaults
    /\ UNCHANGED <<turns, tripped, clock, current, verdict, inspected, intentAt, seenAt,
                   asked, received>>

TimePasses ==
    /\ clock < MaxTime /\ clock' = clock + 1
    /\ UNCHANGED <<turns, tripped, enabled, unavailable, current, verdict, inspected, intentAt,
                   seenAt, asked, received>>

GuardNext ==
    \/ UserIntent
    \/ \E f \in Fingerprints : Receive(f)
    \/ LayerHop
    \/ SaveSettings
    \/ TimePasses

GuardSpec == GuardInit /\ [][GuardNext]_guardVars

-----------------------------------------------------------------------------
(* Correctness: the guard, with its cut buffer and its sticky verdict, against  *)
(* all the continuations it saw since the user's last message.                *)

\* The last k of h are errors that repeat with the period.
SameErrors(h, k, period) ==
    LET n == Len(h) IN
    /\ n >= k
    /\ \A i \in n - k + 1 .. n : h[i] \in ErrorPrints /\ h[i] = h[n - ((n - i) % period)]

ReasonsFor(h, age) ==
    {r \in Reasons :
       CASE r = "identical_error" -> SameErrors(h, IdenticalRepeats, 1)
         [] r = "ping_pong" -> /\ SameErrors(h, PingPongHalfCycles, 2)
                               /\ h[Len(h) - 1] # h[Len(h)]
         [] r = "turn_ceiling" -> ContinuationCeiling > 0 /\ Len(h) >= ContinuationCeiling
         [] OTHER -> MaxAge > 0 /\ h # <<>> /\ age >= MaxAge}

\* How old the user's last message was when the guard was last asked
Age == IF intentAt >= 0 THEN seenAt - intentAt ELSE 0

\* A conversation is stopped only for a reason that its turns since the user's last message
\* gave, at this turn or at an earlier one; and a continuation passes only when its turns give no
\* reason to stop: what the buffer dropped and what was seen while the guard was off does not
\* matter.
GuardExact ==
    /\ verdict \in Reasons =>
          \E n \in DOMAIN inspected : verdict \in ReasonsFor(SubSeq(inspected, 1, n), Age)
    /\ verdict = "passed" => ReasonsFor(inspected, Age) = {}

\* A conversation once stopped stays stopped until the user speaks again, whatever is done to
\* the settings meanwhile.
StopKept == tripped # "none" => tripped' = tripped \/ turns' = <<Intent(clock)>>
StaysStopped == [][StopKept]_guardVars

\* What the guard promises at each of its steps: it stops what its turns condemn and nothing
\* else (GuardExact), and for good (StopKept).
GuardHolds == [][GuardExact' /\ StopKept]_guardVars

=============================================================================
