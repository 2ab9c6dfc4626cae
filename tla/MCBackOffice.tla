---------------------------- MODULE MCBackOffice ----------------------------
(***************************************************************************)
(* What goes on beside the traffic, one at a time: two distillation jobs in    *)
(* turn over two records, what administrators do with their proposals, the         *)
(* schedule of further ones, the schema of the database at a start, a value of each *)
(* of its columns, and the requests of a client to models that refuse parts of it.  *)
(***************************************************************************)
EXTENDS DistillationJobs, DistillationControl, SchemaUpgrade, StoredValues, OutboundRequest, TLC

CONSTANTS a, r1, r2, p1, p2, p3, a1, a2, w, unset

VARIABLE mode

MCTwoJobs == 1..2
MCControllers == {a}
MCTwoRecords == {r1, r2}
MCSymmetry == Permutations(MCTwoRecords)

\* Databases from before and after every migration that another statement of the start is about
MCVersions == {0, 1, 2, 12, 13, 18, 20, 23, 24, 25, 27, 28, 29, 30, 31, 32, 34, 36, 38}

\* Numbers to both sides of what an integer of PostgreSQL holds; instants to both sides of what
\* its integers and the copy's test for milliseconds take
MCSizes == {0, 1, 170, 500}
MCTimes == {0, 170, 300, 25340}

\* The models: what each does not take, and where it is asked
MCModelAt(openai, anthropic, refuses) ==
    [openai |-> openai, anthropic |-> anthropic, hadAnthropic |-> FALSE, tail |-> "",
     native |-> FALSE, proxied |-> FALSE, ceiling |-> FALSE, refuses |-> refuses]

MCUpstream ==
    [qwen |-> MCModelAt("other", Unset, {"strict in thinking"}),
     stubborn |-> [MCModelAt("other", "other", {"strict, thinking or not", "passback"})
                      EXCEPT !.proxied = TRUE],
     deepseek |-> [MCModelAt("other", Unset, {"passback", "strict in thinking"})
                      EXCEPT !.tail = "/chat/completions"],
     literal |-> MCModelAt("other", Unset, {"knobs", "thinking"}),
     loose |-> [MCModelAt("other", Unset, {"strict", "limit", "thinking"}) EXCEPT !.ceiling = TRUE],
     small |-> MCModelAt("other", "other", {"limit", "thinking", "passback"}),
     relay |-> MCModelAt("other", "other", {"refs", "schema"}),
     moved |-> [MCModelAt("other", Unset, {"usage"}) EXCEPT !.hadAnthropic = TRUE],
     flash |-> [MCModelAt("google", Unset, {"schema", "thinking"}) EXCEPT !.native = TRUE],
     proxy |-> MCModelAt("gcli", Unset, {"refs", "schema"}),
     gemini |-> [MCModelAt("google", Unset, {"refs", "schema", "limit", "usage"})
                    EXCEPT !.native = TRUE],
     gemma |-> MCModelAt("google", Unset, {"refs", "schema", "limit", "usage", "strict in thinking"}),
     claude |-> [MCModelAt(Unset, "claude", {}) EXCEPT !.tail = "/v1/messages"],
     open |-> [MCModelAt("openrouter", Unset, {"capacity", "strict", "passback"})
                  EXCEPT !.hadAnthropic = TRUE],
     opens |-> [MCModelAt("openrouter", "openrouter", {"tool", "strict in thinking"})
                   EXCEPT !.tail = "/chat/completions"]]

MCModels == DOMAIN MCUpstream

MCSchemaOf(types, enum) ==
    [types |-> types, enum |-> enum, const |-> {}, branches |-> {}, format |-> Unset, items |-> Unset]

MCSchemas ==
    {MCSchemaOf({"string"}, {"string"}),
     [MCSchemaOf({"string", "null"}, {"string", "null"}) EXCEPT !.format = "email"],
     [MCSchemaOf({}, {}) EXCEPT !.const = {"boolean"}],
     [MCSchemaOf({}, {}) EXCEPT !.branches = {"array", "null"}, !.items = "bare"],
     [MCSchemaOf({"string"}, {"integer", "string"}) EXCEPT !.format = "date-time"]}

MCAsks ==
    {q \in [protocol : {"openai", "anthropic"}, choice : {"auto", "strict"},
            think : {"model", "off"}, chain : BOOLEAN, refs : BOOLEAN,
            server : {"none", "typed"}, schema : MCSchemas, limit : {"small", "large"},
            stream : BOOLEAN] :
        /\ q.protocol = "openai" => q.server = "none"
        /\ q.stream => q.limit = "large"}

\* A route of one model, and every model before one that something can go over to
MCLayers ==
    {<<m>> : m \in MCModels}
    \cup {<<m, n>> : m \in MCModels, n \in {"qwen", "claude", "opens", "relay"}}

MCPlainAsk ==
    [protocol |-> "openai", choice |-> "auto", think |-> "model", chain |-> FALSE, refs |-> FALSE,
     server |-> "none", schema |-> MCSchemaOf({"string"}, {"string"}), limit |-> "small",
     stream |-> FALSE]

\* Two proposals that pass alone and not together, and one whose rule does not parse
MCProposals == {p1, p2, p3}
MCPayload ==
    [p \in MCProposals |->
        [action |-> IF p = p3 THEN "boundary_rule" ELSE "signal_adjust",
         weights |-> [t \in {"fix"} |-> IF p = p3 THEN 0 ELSE 4],
         patterns |-> IF p = p3 THEN {"("} ELSE {}]]
MCAdmins == {a1, a2}
MCViewers == {w}

\* Two administrators meet, or one and the page, with two of the proposals, as time passes.
OverlayMeets ==
    /\ OverlayNext
    /\ mode = "versions" => seconds' = seconds /\ viewing' = viewing
    /\ mode = "page" => control'[a2].at = "idle" /\ proposal'[p3] = "none" /\ Len(signals') <= 2

MCPatches ==
    {[cronEnabled |-> TRUE, cron |-> unset], [cronEnabled |-> FALSE, cron |-> "nightly"],
     [cronEnabled |-> TRUE, cron |-> "nonsense"], [cronEnabled |-> unset, cron |-> "nightly"],
     [cronEnabled |-> unset, cron |-> ""]}
MCPatchers == {a}

\* A resting module is in one state.
BackOfficeInit ==
    /\ mode \in {"jobs", "versions", "page", "schedule", "schema", "values", "requests"}
    /\ mode # "schema" => driver = "sqlite" /\ from = 0
    /\ mode # "values" => engine = "sqlite" /\ place = <<"users", "words">>
    /\ mode # "requests" => ask = MCPlainAsk /\ funnel = <<"qwen">>
    /\ JobInit
    /\ OverlayInit
    /\ ScheduleInit
    /\ SchemaInit
    /\ ValueInit
    /\ OutboundInit

BackOfficeNext ==
    /\ UNCHANGED mode
    /\ \/ mode = "jobs" /\ JobNext
       \/ mode # "jobs" /\ UNCHANGED jobVars
    /\ \/ mode \in {"versions", "page"} /\ OverlayMeets
       \/ mode \notin {"versions", "page"} /\ UNCHANGED overlayVars
    /\ \/ mode = "schedule" /\ ScheduleNext
       \/ mode # "schedule" /\ UNCHANGED scheduleVars
    /\ \/ mode = "schema" /\ SchemaNext
       \/ mode # "schema" /\ UNCHANGED schemaVars
    /\ \/ mode = "values" /\ ValueNext
       \/ mode # "values" /\ UNCHANGED valueVars
    /\ \/ mode = "requests" /\ OutboundNext
       \/ mode # "requests" /\ UNCHANGED outboundVars

BackOfficeSpec ==
    BackOfficeInit
    /\ [][BackOfficeNext]_<<mode, jobVars, overlayVars, scheduleVars, schemaVars, valueVars,
                            outboundVars>>

=============================================================================
