----------------------------- MODULE MCServices -----------------------------
(***************************************************************************)
(* The services around the gateway that share nothing with each other, one    *)
(* at a time: mode says which of them runs while the others rest.            *)
(***************************************************************************)
EXTENDS TimeoutEject, SessionQueue, LogWrites, DatabaseMove, AsyncQueue,
        DistillationJobs

CONSTANTS r1, r2, r3, r4, a, b, s1, s2, w

VARIABLE mode

MCThreeRequests == {r1, r2, r3}
MCTwoRequests == {r1, r2}
MCFourTasks == {r1, r2, r3, r4}
MCLimits == {1, 2}
MCOneJob == 1..1
MCTargets == {a, b}
MCTwoSessions == {s1, s2}
MCOneWriter == {w}

OthersRest(m) ==
    /\ mode = m /\ UNCHANGED mode
    /\ m # "ejection" => UNCHANGED vars
    /\ m # "admission" => UNCHANGED sessionVars
    /\ m # "audit" => UNCHANGED auditVars
    /\ m # "request log" => UNCHANGED logVars
    /\ m # "database move" => UNCHANGED moveVars
    /\ m # "slot queue" => UNCHANGED queueVars
    /\ m # "distillation" => UNCHANGED jobVars

ServicesInit ==
    /\ mode \in {"ejection", "admission", "audit", "request log", "database move", "slot queue",
                "distillation"}
    /\ Init /\ SessionInit /\ AuditInit /\ LogInit /\ MoveInit /\ QueueInit /\ JobInit
    /\ mode # "ejection" => l0 = a
    /\ source = <<a, b>>    \* the old rows are alike: one order stands for the other
    /\ mode # "slot queue" => q.limit = 1

ServicesNext ==
    \/ Next /\ OthersRest("ejection")
    \/ SessionNext /\ OthersRest("admission")
    \/ AuditNext /\ OthersRest("audit")
    \/ LogNext /\ OthersRest("request log")
    \/ MoveNext /\ OthersRest("database move")
    \/ QueueNext /\ OthersRest("slot queue")
    \/ JobNext /\ OthersRest("distillation")

allVars == <<mode, vars, sessionVars, auditVars, logVars, moveVars, queueVars, jobVars>>

\* The fairness of each module.  That of the ejection holds while it runs: a request may always
\* be routed, and would otherwise have to be in the other modes as well.
EjectionFairness ==
    /\ \A r \in Requests : /\ WF_vars(mode = "ejection" /\ Route(r))
                           /\ WF_vars(mode = "ejection" /\ Passes(r))
    /\ \A t \in Targets : WF_vars(ProbeEnds(t))

ServicesSpec ==
    /\ ServicesInit /\ [][ServicesNext]_allVars
    /\ EjectionFairness /\ SessionFairness /\ MoveFairness /\ QueueFairness /\ JobFairness

=============================================================================
