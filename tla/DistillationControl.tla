------------------------ MODULE DistillationControl ------------------------
(***************************************************************************)
(* What administrators do with what distillation has found, and when it runs     *)
(* (services/distillation, controllers/distillationController.ts).  The jobs       *)
(* themselves are in DistillationJobs.                                        *)
(*                                                                         *)
(* A proposal changes the weights of the words by which requests are classed.    *)
(* Administrators validate the proposals, apply them as a version and roll        *)
(* versions back, in calls of several statements.  Requests are classed by a       *)
(* snapshot in the memory of the process, the administrators' page by a cache.    *)
(*                                                                         *)
(* The second part is the schedule: a PATCH of the settings writes them key by    *)
(* key and replaces the cron task; maintenance stops the task and starts it again. *)
(***************************************************************************)
EXTENDS Integers, Sequences, FiniteSetsExt

CONSTANTS
    Proposals,
    Tokens,            \* words, each with the task whose weights it is in
    Patterns,          \* of boundary rules
    Parses,            \* the patterns RegExp takes
    Payload,           \* what each proposal says: what its adjustments come to, by token
    Admins, Viewers,   \* calls under way at a time, of administrators and of their page
    CacheTTL,          \* CACHE_TTL_MS
    MaxVersions, MaxSeconds, MaxStarts      \* bounds

MaxWeightDelta == 5
Actions == {"confirm", "signal_adjust", "boundary_rule", "ambiguous"}

ASSUME ControlAssumption ==
    /\ Parses \subseteq Patterns
    /\ Payload \in [Proposals -> [action : Actions, weights : [Tokens -> Int],
                                  patterns : SUBSET Patterns]]
    /\ "server" \notin Admins
    /\ CacheTTL \in Nat \ {0} /\ {MaxVersions, MaxSeconds, MaxStarts} \subseteq Nat

VARIABLES
    proposal,        \* status of each row of distillation_routing_proposals
    signals,         \* the rows of distillation_signal_versions, as they are inserted
    cachedOverlay,   \* a version, 0 is null
    cacheAt,
    cachedSnapshot,  \* the version whose weights are in force, 0 is null
    control,         \* each call that validates, applies or rolls back, and the start of the server
    viewing,         \* each GET of the overlay
    seconds,         \* the time
    starts,
    undisturbed,     \* history: the last change of the versions met no other
    inTurn,          \* history: calls came one after the other, one validation before an apply
    lastNewest       \* history: when each version was the newest active one, the last time

overlayVars == <<proposal, signals, cachedOverlay, cacheAt, cachedSnapshot, control, viewing,
                 seconds, starts, undisturbed, inTurn, lastNewest>>

-----------------------------------------------------------------------------
(* Versions.                                                                 *)

\* mergeRoutingAdjustments
MergeRoutingAdjustments(S) ==
    LET counted == {p \in S : Payload[p].action \notin {"confirm", "ambiguous"}}
    IN  [weights |-> [t \in Tokens |-> MapThenSumSet(LAMBDA p : Payload[p].weights[t], counted)],
         patterns |-> UNION {Payload[p].patterns : p \in counted}]

\* Mutant: each is looked at alone.
ValidateEachProposal(S) ==
    \A p \in S : /\ \A t \in Tokens : Payload[p].weights[t] \in -MaxWeightDelta..MaxWeightDelta
                  /\ Payload[p].patterns \subseteq Parses

\* validateRoutingProposals looks at what all of them come to.
ValidateRoutingProposals(S) ==
    LET merged == MergeRoutingAdjustments(S)
    IN  /\ \A t \in Tokens : merged.weights[t] \in -MaxWeightDelta..MaxWeightDelta
        /\ merged.patterns \subseteq Parses

Having(s) == {p \in Proposals : proposal[p] = s}

SignalIds == 0..MaxVersions

\* The active row by created, descending; 0 when none is active.
NewestOf(rows) ==
    LET active == {v \in DOMAIN rows : rows[v].active}
    IN  IF active = {} THEN {0}
        ELSE {v \in active : \A u \in active : rows[u].created <= rows[v].created}

\* applyWeightOverlay: what is added to the weight of a token.
Boost(v, t) == IF v = 0 THEN 0 ELSE signals[v].weights[t]

-----------------------------------------------------------------------------
(* Calls.  alone: history, whether no other change of the versions was met.         *)

Callers_ == Admins \cup {"server"}

NoControl == [at |-> "idle", batch |-> {}, sound |-> FALSE, got |-> 0, since |-> 0, alone |-> TRUE]
NoView == [at |-> "idle", since |-> 0, got |-> 0]

Changing == {"replacing", "inserting", "marking", "deactivating", "query", "answered"}
Changes_(c) == control[c].at \in Changing
UnderWay(a) == control[a].at # "idle"

\* The server listens when its start has read the overlay.
Listens == ~UnderWay("server")

OverlayTypeOK ==
    /\ proposal \in [Proposals -> {"none", "draft", "validated", "validation_failed", "applied"}]
    /\ signals \in Seq([weights : [Tokens -> Int], patterns : SUBSET Patterns,
                        of : SUBSET Proposals, active : BOOLEAN, created : Nat])
    /\ Len(signals) <= MaxVersions
    /\ {cachedOverlay, cachedSnapshot} \subseteq 0..Len(signals) /\ cacheAt \in Nat
    /\ control \in [Callers_ -> [at : Changing \cup {"idle", "judging"}, batch : SUBSET Proposals,
                                 sound : BOOLEAN, got : 0..Len(signals), since : Nat,
                                 alone : BOOLEAN]]
    /\ viewing \in [Viewers -> [at : {"idle", "query", "answered", "done"}, since : Nat,
                                got : 0..Len(signals)]]
    /\ seconds \in Nat /\ starts \in Nat /\ undisturbed \in BOOLEAN /\ inTurn \in BOOLEAN
    /\ lastNewest \in [SignalIds -> Nat]

StartReads == [NoControl EXCEPT !.at = "query", !.since = seconds]

OverlayInit ==
    /\ proposal = [p \in Proposals |-> "none"] /\ signals = <<>>
    /\ cachedOverlay = 0 /\ cacheAt = 0 /\ cachedSnapshot = 0
    /\ seconds = 0 /\ starts = 1
    /\ control = [c \in Callers_ |-> IF c = "server" THEN StartReads ELSE NoControl]
    /\ viewing = [w \in Viewers |-> NoView]
    /\ undisturbed = FALSE /\ inTurn = TRUE
    /\ lastNewest = [v \in SignalIds |-> 0]

\* A call that changes versions meets those under way, and they it.
Enters(a, call) ==
    control' = [c \in Callers_ |->
        IF c = a THEN [call EXCEPT !.alone = \A d \in Callers_ : ~Changes_(d)]
        ELSE [control[c] EXCEPT !.alone = @ /\ ~Changes_(c)]]

Proceeds(a, call) == control' = [control EXCEPT ![a] = call]

\* Nobody else is at it.
InTurn == \A c \in Callers_ : ~UnderWay(c)

NotesNewest(rows, time) ==
    lastNewest' = [v \in SignalIds |-> IF v \in NewestOf(rows) THEN time ELSE lastNewest[v]]

cacheVars == <<cachedOverlay, cacheAt, cachedSnapshot>>

-----------------------------------------------------------------------------
(* Validation.                                                               *)

\* The worker of a job files a proposal.
FileDraft(p) ==
    /\ proposal[p] = "none" /\ Listens
    /\ proposal' = [proposal EXCEPT ![p] = "draft"]
    /\ UNCHANGED <<signals, cacheVars, control, viewing, seconds, starts, undisturbed, inTurn,
                   lastNewest>>

\* validateDraftProposals reads the drafts and judges them together.
ValidateDraftProposals(a) ==
    LET drafts == Having("draft") IN
    /\ Listens /\ ~UnderWay(a) /\ drafts # {}
    /\ Proceeds(a, [NoControl EXCEPT !.at = "judging", !.batch = drafts,
                                 !.sound = ValidateRoutingProposals(drafts)])
    /\ inTurn' = (inTurn /\ InTurn /\ Having("validated") = {})
    /\ UNCHANGED <<proposal, signals, cacheVars, viewing, seconds, starts, undisturbed, lastNewest>>

\* The verdict is written row by row, whatever has become of the row.
WriteVerdict(a) ==
    /\ control[a].at = "judging"
    /\ \E p \in control[a].batch :
          /\ proposal' = [proposal EXCEPT ![p] =
                             IF control[a].sound THEN "validated" ELSE "validation_failed"]
          /\ Proceeds(a, IF control[a].batch = {p} THEN NoControl
                     ELSE [control[a] EXCEPT !.batch = @ \ {p}])
    /\ UNCHANGED <<signals, cacheVars, viewing, seconds, starts, undisturbed, inTurn, lastNewest>>

-----------------------------------------------------------------------------
(* Applying, and rolling back.                                               *)

\* Mutant: the proposals are marked before their version is inserted.
ApplyMarked(a) ==
    LET validated == Having("validated") IN
    /\ Listens /\ ~UnderWay(a) /\ validated # {} /\ Len(signals) < MaxVersions
    /\ Enters(a, [NoControl EXCEPT !.at = "replacing", !.batch = validated])
    /\ inTurn' = (inTurn /\ InTurn)
    /\ proposal' = [p \in Proposals |-> IF p \in validated THEN "applied" ELSE proposal[p]]
    /\ UNCHANGED <<signals, cacheVars, viewing, seconds, starts, undisturbed, lastNewest>>

\* applyValidatedProposals reads what is validated.
ApplyValidatedProposals(a) ==
    LET validated == Having("validated") IN
    /\ Listens /\ ~UnderWay(a) /\ validated # {} /\ Len(signals) < MaxVersions
    /\ Enters(a, [NoControl EXCEPT !.at = "replacing", !.batch = validated])
    /\ inTurn' = (inTurn /\ InTurn)
    /\ UNCHANGED <<proposal, signals, cacheVars, viewing, seconds, starts, undisturbed, lastNewest>>

DeactivateVersions(a) ==
    /\ control[a].at = "replacing"
    /\ signals' = [v \in DOMAIN signals |-> [signals[v] EXCEPT !.active = FALSE]]
    /\ Proceeds(a, [control[a] EXCEPT !.at = "inserting"])
    /\ NotesNewest(signals', seconds)
    /\ UNCHANGED <<proposal, cacheVars, viewing, seconds, starts, undisturbed, inTurn>>

InsertVersion(a) ==
    /\ control[a].at = "inserting" /\ Len(signals) < MaxVersions
    /\ LET merged == MergeRoutingAdjustments(control[a].batch)
       IN  signals' = Append(signals, [weights |-> merged.weights, patterns |-> merged.patterns,
                                       of |-> control[a].batch, active |-> TRUE,
                                       created |-> seconds])
    /\ Proceeds(a, [control[a] EXCEPT !.at = "marking"])
    /\ NotesNewest(signals', seconds)
    /\ UNCHANGED <<proposal, cacheVars, viewing, seconds, starts, undisturbed, inTurn>>

\* Mutant: the cache is not cleared, so that the refresh finds what is in it.
RefreshAsCached(a) ==
    IF cachedOverlay # 0 /\ seconds - cacheAt < CacheTTL
    THEN /\ Proceeds(a, NoControl) /\ cachedSnapshot' = cachedOverlay
         /\ undisturbed' = control[a].alone
         /\ UNCHANGED <<cachedOverlay, cacheAt>>
    ELSE /\ Proceeds(a, [control[a] EXCEPT !.at = "query", !.batch = {}, !.since = seconds])
         /\ UNCHANGED <<cacheVars, undisturbed>>

\* clearRoutingOverlayCache, and refreshRoutingWeightSnapshot up to its query
Refresh(a) ==
    /\ cachedOverlay' = 0 /\ cacheAt' = 0
    /\ Proceeds(a, [control[a] EXCEPT !.at = "query", !.batch = {}, !.since = seconds])
    /\ UNCHANGED <<cachedSnapshot, undisturbed>>

MarkApplied(a) ==
    /\ control[a].at = "marking"
    /\ \E p \in control[a].batch :
          /\ proposal' = [proposal EXCEPT ![p] = "applied"]
          /\ IF control[a].batch = {p} THEN Refresh(a)
             ELSE /\ Proceeds(a, [control[a] EXCEPT !.batch = @ \ {p}])
                  /\ UNCHANGED <<cacheVars, undisturbed>>
    /\ UNCHANGED <<signals, viewing, seconds, starts, inTurn, lastNewest>>

\* rollbackRoutingOverlay reads the newest active version.
RollbackRoutingOverlay(a) ==
    /\ Listens /\ ~UnderWay(a)
    /\ \E v \in NewestOf(signals) :
          IF v = 0
          THEN /\ cachedOverlay' = 0 /\ cacheAt' = 0 /\ UNCHANGED cachedSnapshot
               /\ Enters(a, [NoControl EXCEPT !.at = "query", !.since = seconds])
          ELSE /\ Enters(a, [NoControl EXCEPT !.at = "deactivating", !.got = v])
               /\ UNCHANGED cacheVars
    /\ inTurn' = (inTurn /\ InTurn)
    /\ UNCHANGED <<proposal, signals, viewing, seconds, starts, undisturbed, lastNewest>>

DeactivateNewest(a) ==
    /\ control[a].at = "deactivating"
    /\ signals' = [signals EXCEPT ![control[a].got].active = FALSE]
    /\ Refresh(a)
    /\ NotesNewest(signals', seconds)
    /\ UNCHANGED <<proposal, viewing, seconds, starts, inTurn>>

QueryOverlay(a) ==
    /\ control[a].at = "query"
    /\ \E v \in NewestOf(signals) :
          Proceeds(a, [control[a] EXCEPT !.at = "answered", !.got = v])
    /\ UNCHANGED <<proposal, signals, cacheVars, viewing, seconds, starts, undisturbed, inTurn,
                   lastNewest>>

\* The cache and the snapshot take the answer.
StoreSnapshot(a) ==
    /\ control[a].at = "answered"
    /\ cachedOverlay' = control[a].got /\ cacheAt' = control[a].since
    /\ cachedSnapshot' = control[a].got
    /\ undisturbed' = control[a].alone
    /\ Proceeds(a, NoControl)
    /\ UNCHANGED <<proposal, signals, viewing, seconds, starts, inTurn, lastNewest>>

-----------------------------------------------------------------------------
(* getRoutingOverlay of the administrators' page.                              *)

GetRoutingOverlay(w) ==
    /\ Listens /\ viewing[w].at \in {"idle", "done"}
    /\ viewing' = [viewing EXCEPT ![w] =
           IF cachedOverlay # 0 /\ seconds - cacheAt < CacheTTL
           THEN [at |-> "done", since |-> seconds, got |-> cachedOverlay]
           ELSE [at |-> "query", since |-> seconds, got |-> 0]]
    /\ UNCHANGED <<proposal, signals, cacheVars, control, seconds, starts, undisturbed, inTurn,
                   lastNewest>>

ViewQuery(w) ==
    /\ viewing[w].at = "query"
    /\ \E v \in NewestOf(signals) :
          viewing' = [viewing EXCEPT ![w].at = "answered", ![w].got = v]
    /\ UNCHANGED <<proposal, signals, cacheVars, control, seconds, starts, undisturbed, inTurn,
                   lastNewest>>

\* Mutant: the time is the one at which the answer is stored.
ViewStoreLate(w) ==
    /\ viewing[w].at = "answered"
    /\ cachedOverlay' = viewing[w].got /\ cacheAt' = seconds
    /\ viewing' = [viewing EXCEPT ![w].at = "done"]
    /\ UNCHANGED <<proposal, signals, cachedSnapshot, control, seconds, starts, undisturbed,
                   inTurn, lastNewest>>

ViewStore(w) ==
    /\ viewing[w].at = "answered"
    /\ cachedOverlay' = viewing[w].got /\ cacheAt' = viewing[w].since
    /\ viewing' = [viewing EXCEPT ![w].at = "done"]
    /\ UNCHANGED <<proposal, signals, cachedSnapshot, control, seconds, starts, undisturbed,
                   inTurn, lastNewest>>

-----------------------------------------------------------------------------
SecondPasses ==
    /\ seconds < MaxSeconds /\ seconds' = seconds + 1
    /\ NotesNewest(signals, seconds + 1)
    /\ UNCHANGED <<proposal, signals, cacheVars, control, viewing, starts, undisturbed, inTurn>>

\* The process ends, wherever its calls are, and starts again.
StartAgain ==
    /\ starts < MaxStarts /\ starts' = starts + 1
    /\ cachedOverlay' = 0 /\ cacheAt' = 0 /\ cachedSnapshot' = 0
    /\ control' = [c \in Callers_ |-> IF c = "server" THEN StartReads ELSE NoControl]
    /\ viewing' = [w \in Viewers |-> NoView]
    /\ undisturbed' = FALSE
    /\ inTurn' = (inTurn /\ \A a \in Admins : ~UnderWay(a))
    /\ UNCHANGED <<proposal, signals, seconds, lastNewest>>

OverlayNext ==
    \/ \E p \in Proposals : FileDraft(p)
    \/ \E a \in Admins :
          ValidateDraftProposals(a) \/ WriteVerdict(a) \/ ApplyValidatedProposals(a)
          \/ DeactivateVersions(a) \/ InsertVersion(a) \/ MarkApplied(a)
          \/ RollbackRoutingOverlay(a) \/ DeactivateNewest(a)
    \/ \E c \in Callers_ : QueryOverlay(c) \/ StoreSnapshot(c)
    \/ \E w \in Viewers : GetRoutingOverlay(w) \/ ViewQuery(w) \/ ViewStore(w)
    \/ SecondPasses \/ StartAgain

OverlaySpec == OverlayInit /\ [][OverlayNext]_overlayVars

-----------------------------------------------------------------------------
(* Properties.                                                               *)

\* Requests are classed by the version that is in force: unless two changes of the versions
\* have met, what is added to the weights is what the newest active version adds, also after a
\* restart, an interrupted call, and whatever the page asks meanwhile.
OverlayCurrent ==
    undisturbed /\ (\A c \in Callers_ : ~Changes_(c)) =>
        \E v \in NewestOf(signals) : \A t \in Tokens : Boost(cachedSnapshot, t) = Boost(v, t)

\* No proposal counts as applied without being in a version, wherever a call stopped.
AppliedHasVersion ==
    \A p \in Having("applied") : \E v \in DOMAIN signals : p \in signals[v].of

\* Where administrators act one after the other and validate once before they apply, no version
\* moves a weight further than the validation allows, or has a rule that does not parse.
WeightsBounded ==
    inTurn => \A v \in DOMAIN signals :
                 /\ \A t \in Tokens : signals[v].weights[t] \in -MaxWeightDelta..MaxWeightDelta
                 /\ signals[v].patterns \subseteq Parses

\* The page shows a version that was the newest active one when it asked, or less than CacheTTL before.
OverlayFresh ==
    \A w \in Viewers : viewing[w].at = "done" =>
        lastNewest[viewing[w].got] > viewing[w].since - CacheTTL

OverlayKept == OverlayCurrent /\ AppliedHasVersion /\ WeightsBounded /\ OverlayFresh


-----------------------------------------------------------------------------
(* The schedule (settingsService.ts, scheduler.ts).  It shares nothing with the      *)
(* versions but the process.                                                  *)

CONSTANTS
    Patchers,        \* PATCHes of the settings under way at a time
    Patches,         \* their bodies
    Crons,           \* expressions that can be saved; "" is one of them
    ValidCrons,      \* those cron.validate takes
    DefaultCron,
    Absent,
    MaxTasks         \* bound

ASSUME ScheduleAssumption ==
    /\ ValidCrons \subseteq Crons /\ DefaultCron \in ValidCrons /\ Absent \notin Crons /\ Absent \notin BOOLEAN
    /\ Patches \subseteq [cronEnabled : BOOLEAN \cup {Absent}, cron : Crons \cup {Absent}]
    /\ {"start", "maintenance"} \cap Patchers = {}
    /\ MaxTasks \in Nat

VARIABLES
    settings,        \* the rows of system_settings, Absent where there is none
    currentTask,     \* 0 is null
    tasks,           \* the cron tasks that are not stopped
    made,            \* number of tasks made since the start
    scheduling,      \* each call that schedules: PATCHes, the start, the end of maintenance
    maintained,      \* isMaintenanceActive
    orderly          \* history: since the start no two of them have met

scheduleVars == <<settings, currentTask, tasks, made, scheduling, maintained, orderly>>

-----------------------------------------------------------------------------
Keys == <<"cronEnabled", "cron">>
Schedulers == Patchers \cup {"start", "maintenance"}

NoPatch == [cronEnabled |-> Absent, cron |-> Absent]
NoCallOf == [at |-> "idle", patch |-> NoPatch, key |-> 0, exists |-> FALSE, enabled |-> FALSE,
             cron |-> DefaultCron]

AtWork(c) == scheduling[c].at # "idle"
Alone(c) == \A d \in Schedulers \ {c} : ~AtWork(d)

ScheduleTypeOK ==
    /\ settings \in [cronEnabled : BOOLEAN \cup {Absent}, cron : Crons \cup {Absent}]
    /\ made \in Nat /\ currentTask \in 0..made
    /\ tasks \subseteq [id : 1..made, cron : Crons]
    /\ scheduling \in [Schedulers -> [at : {"idle", "current", "get", "put", "waits", "enabled", "cron",
                                             "decide"},
                                      patch : [cronEnabled : BOOLEAN \cup {Absent},
                                               cron : Crons \cup {Absent}],
                                      key : 0..2, exists : BOOLEAN, enabled : BOOLEAN, cron : Crons]]
    /\ maintained \in BOOLEAN /\ orderly \in BOOLEAN

\* The start schedules when the server listens.
ScheduleInit ==
    /\ settings = NoPatch /\ currentTask = 0 /\ tasks = {} /\ made = 0
    /\ scheduling = [c \in Schedulers |->
          IF c = "start" THEN [NoCallOf EXCEPT !.at = "waits"] ELSE NoCallOf]
    /\ maintained = FALSE /\ orderly = TRUE

Sched(c, call) == scheduling' = [scheduling EXCEPT ![c] = call]

StopsTask ==
    /\ tasks' = {t \in tasks : t.id # currentTask}
    /\ currentTask' = 0

\* Mutant: the task there is goes on.
StopScheduleLeft(c) ==
    /\ Sched(c, [NoCallOf EXCEPT !.at = "enabled"])
    /\ currentTask' = 0
    /\ UNCHANGED tasks

\* scheduleDistillationJobs up to its first query
StopSchedule(c) ==
    /\ Sched(c, [NoCallOf EXCEPT !.at = "enabled"])
    /\ StopsTask

\* The keys of the body that are still to be written
StillToWrite(c) == {i \in (scheduling[c].key + 1)..2 : scheduling[c].patch[Keys[i]] # Absent}

\* updateDistillationSettings goes on to the next key, or to the schedule.
NextKey(c) ==
    IF StillToWrite(c) = {} THEN StopSchedule(c)
    ELSE /\ Sched(c, [scheduling[c] EXCEPT !.at = "get", !.key = Min(StillToWrite(c))])
         /\ UNCHANGED <<currentTask, tasks>>

-----------------------------------------------------------------------------
\* PATCH of the settings; in maintenance it is refused.
PatchSettings(c) ==
    /\ ~maintained /\ ~AtWork(c)
    /\ \E patch \in Patches : Sched(c, [NoCallOf EXCEPT !.at = "current", !.patch = patch])
    /\ orderly' = (orderly /\ Alone(c))
    /\ UNCHANGED <<settings, currentTask, tasks, made, maintained>>

\* getDistillationSettings has answered.
GotCurrent(c) ==
    /\ scheduling[c].at = "current"
    /\ NextKey(c)
    /\ UNCHANGED <<settings, made, maintained, orderly>>

GetSetting(c) ==
    /\ scheduling[c].at = "get"
    /\ Sched(c, [scheduling[c] EXCEPT !.at = "put",
                                      !.exists = settings[Keys[scheduling[c].key]] # Absent])
    /\ UNCHANGED <<settings, currentTask, tasks, made, maintained, orderly>>

\* setSetting: an insert fails when the row has come meanwhile, and with it the PATCH.
SetSetting(c) ==
    LET key == Keys[scheduling[c].key] IN
    /\ scheduling[c].at = "put"
    /\ IF ~scheduling[c].exists /\ settings[key] # Absent
       THEN Sched(c, NoCallOf) /\ UNCHANGED <<settings, currentTask, tasks>>
       ELSE settings' = [settings EXCEPT ![key] = scheduling[c].patch[key]] /\ NextKey(c)
    /\ UNCHANGED <<made, maintained, orderly>>

\* What the start and the end of maintenance await before they schedule
Scheduled(c) ==
    /\ scheduling[c].at = "waits"
    /\ StopSchedule(c)
    /\ UNCHANGED <<settings, made, maintained, orderly>>

ReadEnabled(c) ==
    /\ scheduling[c].at = "enabled"
    /\ Sched(c, [scheduling[c] EXCEPT !.at = "cron", !.enabled = (settings.cronEnabled = TRUE)])
    /\ UNCHANGED <<settings, currentTask, tasks, made, maintained, orderly>>

CronOf(value) == IF value \in {Absent, ""} THEN DefaultCron ELSE value

ReadCron(c) ==
    /\ scheduling[c].at = "cron"
    /\ Sched(c, [scheduling[c] EXCEPT !.at = "decide", !.cron = CronOf(settings.cron)])
    /\ UNCHANGED <<settings, currentTask, tasks, made, maintained, orderly>>

\* A task that another call has made meanwhile is replaced, not stopped.
ScheduleDistillationJobs(c) ==
    /\ scheduling[c].at = "decide"
    /\ IF scheduling[c].enabled /\ scheduling[c].cron \in ValidCrons
       THEN /\ made < MaxTasks /\ made' = made + 1 /\ currentTask' = made + 1
            /\ tasks' = tasks \cup {[id |-> made + 1, cron |-> scheduling[c].cron]}
       ELSE UNCHANGED <<made, currentTask, tasks>>
    /\ Sched(c, NoCallOf)
    /\ UNCHANGED <<settings, maintained, orderly>>

-----------------------------------------------------------------------------
\* setMaintenanceMode(true) stops the task, (false) schedules anew.
EnterMaintenance ==
    /\ ~maintained /\ ~AtWork("maintenance")
    /\ maintained' = TRUE
    /\ StopsTask
    /\ orderly' = (orderly /\ \A c \in Schedulers : ~AtWork(c))
    /\ UNCHANGED <<settings, made, scheduling>>

LeaveMaintenance ==
    /\ maintained
    /\ maintained' = FALSE
    /\ Sched("maintenance", [NoCallOf EXCEPT !.at = "waits"])
    /\ orderly' = (orderly /\ Alone("maintenance"))
    /\ UNCHANGED <<settings, currentTask, tasks, made>>

\* The process ends, wherever its calls are, and starts again.
ScheduleStartsAgain ==
    /\ currentTask' = 0 /\ tasks' = {} /\ made' = 0
    /\ scheduling' = [c \in Schedulers |->
          IF c = "start" THEN [NoCallOf EXCEPT !.at = "waits"] ELSE NoCallOf]
    /\ maintained' = FALSE /\ orderly' = TRUE
    /\ UNCHANGED settings

ScheduleNext ==
    \/ \E c \in Patchers : PatchSettings(c) \/ GotCurrent(c) \/ GetSetting(c) \/ SetSetting(c)
    \/ \E c \in Schedulers :
          Scheduled(c) \/ ReadEnabled(c) \/ ReadCron(c) \/ ScheduleDistillationJobs(c)
    \/ EnterMaintenance \/ LeaveMaintenance \/ ScheduleStartsAgain

ScheduleSpec == ScheduleInit /\ [][ScheduleNext]_scheduleVars

-----------------------------------------------------------------------------
\* Jobs run when the settings say so: unless two calls that schedule have met, the task there is
\* is the one of the settings, and there is no other, nor any in maintenance.
ScheduleKept ==
    orderly /\ (\A c \in Schedulers : ~AtWork(c)) =>
        LET cron == CronOf(settings.cron)
        IN  tasks = IF ~maintained /\ settings.cronEnabled = TRUE /\ cron \in ValidCrons
                    THEN {[id |-> currentTask, cron |-> cron]}
                    ELSE {}

ControlKept == OverlayKept /\ ScheduleKept

=============================================================================
