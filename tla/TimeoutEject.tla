---------------------------- MODULE TimeoutEject ----------------------------
(***************************************************************************)
(* Timeout ejection (timeoutEject.ts): when the first target of a funnel     *)
(* route, its L0, gives no answer in time, later requests of the route skip   *)
(* it, and a background probe restores it.                                   *)
(*                                                                         *)
(* One route.  An administrator may change its L0 or the switch while        *)
(* requests are on their way; each request keeps the route it was routed     *)
(* with.  Only the passage of a request through L0 is modelled: after it the  *)
(* request goes on to the next layer or fails (module GatewayAttempts).      *)
(***************************************************************************)
EXTENDS Naturals

CONSTANTS
    Requests,
    Targets,        \* pairs of provider and model that are L0 at some time
    MaxChanges      \* bound on the administrator's changes

ASSUME TargetsAssumption == Targets # {}
ASSUME MaxChangesAssumption == MaxChanges \in Nat

VARIABLES
    l0,         \* the route's first target
    enabled,    \* the route's timeoutEjectEnabled
    changes,
    up,         \* targets that answer
    record,     \* TimeoutEjectStore.records: "unprobed" is a record without a probeSpec
    probes,     \* probes on their way; a doomed one will not be answered
    request     \* per request: its step, and the target and the switch it was routed with

route == <<l0, enabled, changes>>
vars == <<route, up, record, probes, request>>

Records == {"none", "unprobed", "idle", "probing"}
Fates == {"sound", "doomed"}
Steps == {"done", "routed", "sent", "hanging"}

TypeOK ==
    /\ l0 \in Targets /\ enabled \in BOOLEAN /\ changes \in 0..MaxChanges
    /\ up \subseteq Targets
    /\ record \in [Targets -> Records]
    /\ probes \in [Targets -> [Fates -> 0..1]]
    /\ request \in [Requests -> [step : Steps, target : Targets, enabled : BOOLEAN]]

Init ==
    /\ l0 \in Targets /\ enabled = TRUE /\ changes = 0
    /\ up = Targets
    /\ record = [t \in Targets |-> "none"]
    /\ probes = [t \in Targets |-> [f \in Fates |-> 0]]
    /\ request = [r \in Requests |-> [step |-> "done", target |-> l0, enabled |-> TRUE]]

-----------------------------------------------------------------------------
(* The store.                                                              *)

Ejected(t) == record[t] # "none"
Fate(t) == IF t \in up THEN "sound" ELSE "doomed"

\* Mutant: a probe is started whenever something is known to send.
NoteAnyway(t, withSpec) ==
    IF ~withSpec /\ record[t] \in {"none", "unprobed"}
    THEN /\ record' = [record EXCEPT ![t] = "unprobed"]
         /\ UNCHANGED probes
    ELSE /\ record' = [record EXCEPT ![t] = "probing"]
         /\ probes' = [probes EXCEPT ![t][Fate(t)] = @ + 1]

\* Mutant: a record made by a timeout is not given the probe to send.
NoteWithoutSpec(t, withSpec) ==
    /\ record' = [record EXCEPT ![t] = IF @ = "none" THEN "unprobed" ELSE @]
    /\ UNCHANGED probes

\* markEjected, noteNoAnswerTimeoutEject: a probe is started unless one is on its way or
\* nothing is known to send.
Note(t, withSpec) ==
    IF record[t] = "probing" \/ (~withSpec /\ record[t] \in {"none", "unprobed"})
    THEN /\ record' = [record EXCEPT ![t] = IF @ = "none" THEN "unprobed" ELSE @]
         /\ UNCHANGED probes
    ELSE /\ record' = [record EXCEPT ![t] = "probing"]
         /\ probes' = [probes EXCEPT ![t][Fate(t)] = @ + 1]

\* Mutant: a probe that failed stays noted as in flight.
ProbeFinishedOnSuccess(t, fate, success) ==
    /\ probes[t][fate] > 0
    /\ probes' = [probes EXCEPT ![t][fate] = @ - 1]
    /\ record' = IF success THEN [record EXCEPT ![t] = "none"] ELSE record

\* finishProbe
ProbeFinished(t, fate, success) ==
    /\ probes[t][fate] > 0
    /\ probes' = [probes EXCEPT ![t][fate] = @ - 1]
    /\ record' = [record EXCEPT ![t] = IF @ = "none" \/ success THEN "none"
                                       ELSE IF @ = "probing" THEN "idle" ELSE @]

\* runDiscardedUpstreamProbe
ProbeAnswered(t) ==
    /\ t \in up
    /\ ProbeFinished(t, "sound", TRUE)
    /\ UNCHANGED <<route, up, request>>

ProbeFailed(t) ==
    /\ \E fate \in Fates : (fate = "doomed" \/ t \notin up) /\ ProbeFinished(t, fate, FALSE)
    /\ UNCHANGED <<route, up, request>>

-----------------------------------------------------------------------------
(* Requests.                                                               *)

Moves(r, step) == request' = [request EXCEPT ![r].step = step]

Route(r) ==
    /\ request[r].step = "done"
    /\ request' = [request EXCEPT ![r] = [step |-> "routed", target |-> l0, enabled |-> enabled]]
    /\ UNCHANGED <<route, up, record, probes>>

\* shouldSkipCurrentAttempt: the request hops to the next layer, or fails without one
Skip(r) ==
    /\ request[r].step = "routed" /\ request[r].enabled /\ Ejected(request[r].target)
    /\ Note(request[r].target, FALSE)
    /\ Moves(r, "done")
    /\ UNCHANGED <<route, up>>

\* After the wait for the provider's queue the target is not looked up again.
Send(r) ==
    /\ request[r].step = "routed" /\ ~(request[r].enabled /\ Ejected(request[r].target))
    /\ Moves(r, IF request[r].target \in up THEN "sent" ELSE "hanging")
    /\ UNCHANGED <<route, up, record, probes>>

\* An answer, or an error or a broken stream that is no sign of ejection.
Answered(r) ==
    /\ request[r].step = "sent"
    /\ Moves(r, "done")
    /\ UNCHANGED <<route, up, record, probes>>

\* isNoAnswerTimeoutFailure, maybeNoteTimeoutEject
TimedOut(r) ==
    /\ \/ request[r].step = "hanging"
       \/ request[r].step = "sent" /\ request[r].target \notin up
    /\ IF request[r].enabled THEN Note(request[r].target, TRUE) ELSE UNCHANGED <<record, probes>>
    /\ Moves(r, "done")
    /\ UNCHANGED <<route, up>>

-----------------------------------------------------------------------------
(* The surroundings.                                                       *)

ChangeRoute ==
    /\ changes < MaxChanges /\ changes' = changes + 1
    /\ \/ l0' \in Targets \ {l0} /\ UNCHANGED enabled
       \/ enabled' = ~enabled /\ UNCHANGED l0
    /\ UNCHANGED <<up, record, probes, request>>

GoesDown(t) ==
    /\ t \in up /\ up' = up \ {t}
    /\ UNCHANGED <<route, record, probes, request>>

ComesBack(t) ==
    /\ t \notin up /\ up' = up \cup {t}
    /\ UNCHANGED <<route, record, probes, request>>

Passes(r) == Skip(r) \/ Send(r) \/ Answered(r) \/ TimedOut(r)
ProbeEnds(t) == ProbeAnswered(t) \/ ProbeFailed(t)

Next ==
    \/ \E r \in Requests : Route(r) \/ Passes(r)
    \/ \E t \in Targets : ProbeEnds(t) \/ GoesDown(t) \/ ComesBack(t)
    \/ ChangeRoute

Spec == Init /\ [][Next]_vars

\* Probes and requests have timeouts; the route has traffic.
Fairness ==
    /\ \A r \in Requests : WF_vars(Route(r)) /\ WF_vars(Passes(r))
    /\ \A t \in Targets : WF_vars(ProbeEnds(t))

-----------------------------------------------------------------------------
(* Correctness.                                                            *)

\* An ejected target has exactly the probe its record says is in flight, whatever requests
\* skip it or time out meanwhile ("starts at most one probe per ejected key").
OneProbe ==
    \A t \in Targets : probes[t]["sound"] + probes[t]["doomed"]
                       = IF record[t] = "probing" THEN 1 ELSE 0

\* No target is ejected without the means to restore it: a skip notes a timeout with no
\* probeSpec, and only the request that timed out knows one.
EjectionHasProbe == \A t \in Targets : record[t] # "unprobed"

\* Both: the probes on their way are exactly those the records need to be removed.
ProbesAccounted == OneProbe /\ EjectionHasProbe

\* Once the targets answer again and the switch stays on, L0 comes back for good, even though
\* late timeouts eject it anew and nothing but traffic starts the next probe.
EjectionEnds == <>[](up = Targets /\ enabled) => <>[](record[l0] = "none")

=============================================================================
