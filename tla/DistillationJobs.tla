-------------------------- MODULE DistillationJobs --------------------------
(***************************************************************************)
(* Distillation jobs: an administrator (or the cron schedule) creates a     *)
(* job over the audit records that were not learned yet, and pauses,        *)
(* resumes and cancels it (jobService.ts); a background worker analyses the  *)
(* items of the job in batches (worker.ts).                                 *)
(*                                                                         *)
(* A control call is a sequence of database accesses; between two of them   *)
(* the worker goes on.  The worker hears of a call through two sets of       *)
(* flags, cancelledJobs and pausedJobs, which it looks at between items.    *)
(* The workers of a job form a chain: a new one waits for the one before.   *)
(***************************************************************************)
EXTENDS Naturals, FiniteSets

CONSTANTS
    Jobs,
    AuditRecords,        \* audit records of chat_logs
    Controllers,        \* control calls in progress at the same time
    Concurrency,    \* settings.concurrency, the size of a batch
    MaxResumes      \* bound on the resume calls

ASSUME JobsAssumption == Jobs # {}
ASSUME ConcurrencyAssumption == Concurrency \in Nat \ {0}
ASSUME MaxResumesAssumption == MaxResumes \in Nat

VARIABLES
    status,     \* distillation_jobs.status
    item,       \* distillation_job_items.status of each job and record
    learned,    \* distillation_learned_records
    published,  \* records whose fragments are in a skill package, per job
    cancelled,  \* cancelledJobs
    paused,     \* pausedJobs
    worker,     \* per job: where its running worker is
    waiting,    \* per job: workers chained behind it (activeWorkers)
    batch,      \* per job and record: how far the current batch has come
    accum,      \* jobSkillAccum: records with a fragment, or none
    call,       \* per caller: the control call it is in
    resumes,
    wish,       \* history: the last finished pause or cancel, or a resume begun
    discarded   \* history: jobs a cancel call was made for

database == <<status, item, learned, published>>
flags == <<cancelled, paused>>
workerVars == <<worker, waiting, batch, accum>>
history == <<wish, discarded>>
jobVars == <<database, flags, workerVars, call, resumes, history>>

Active == {"pending", "running", "paused"}
Terminal == {"cancelled", "completed"}
Statuses == Active \cup Terminal \cup {"none"}
ItemStatuses == {"none", "pending", "processing", "learned", "skipped", "failed"}
WorkerSteps == {"idle", "start", "read", "run", "loop", "pausing", "cancelling", "publish",
                "complete"}
BatchSteps == {"none", "chosen", "analysing", "inserted"}
NoCall == [op |-> "none", job |-> CHOOSE j \in Jobs : TRUE, chosen |-> {}]
CallSteps == {"none", "create select", "create insert", "create items", "pause write",
              "resume write", "resume items", "cancel write"}

JobTypeOK ==
    /\ status \in [Jobs -> Statuses]
    /\ item \in [Jobs -> [AuditRecords -> ItemStatuses]]
    /\ learned \subseteq AuditRecords
    /\ published \in [Jobs -> SUBSET AuditRecords]
    /\ cancelled \subseteq Jobs /\ paused \subseteq Jobs
    /\ worker \in [Jobs -> WorkerSteps]
    /\ waiting \in [Jobs -> 0..MaxResumes]
    /\ batch \in [Jobs -> [AuditRecords -> BatchSteps]]
    /\ accum \in [Jobs -> SUBSET AuditRecords]
    /\ call \in [Controllers -> [op : CallSteps, job : Jobs, chosen : SUBSET AuditRecords]]
    /\ resumes \in 0..MaxResumes
    /\ wish \in [Jobs -> {"run", "pause", "cancel"}]
    /\ discarded \subseteq Jobs

JobInit ==
    /\ status = [j \in Jobs |-> "none"]
    /\ item = [j \in Jobs |-> [r \in AuditRecords |-> "none"]]
    /\ learned = {}
    /\ published = [j \in Jobs |-> {}]
    /\ cancelled = {} /\ paused = {}
    /\ worker = [j \in Jobs |-> "idle"]
    /\ waiting = [j \in Jobs |-> 0]
    /\ batch = [j \in Jobs |-> [r \in AuditRecords |-> "none"]]
    /\ accum = [j \in Jobs |-> {}]
    /\ call = [c \in Controllers |-> NoCall]
    /\ resumes = 0
    /\ wish = [j \in Jobs |-> "run"]
    /\ discarded = {}

-----------------------------------------------------------------------------
(* Control calls.                                                          *)

Free(c) == call[c].op = "none"
Goes(c, op, j) == call' = [call EXCEPT ![c] = [op |-> op, job |-> j, chosen |-> {}]]
Returns(c) == call' = [call EXCEPT ![c] = NoCall]
In(c, op, j) == call[c].op = op /\ call[c].job = j

\* activeWorkers.has(jobId)
HasWorker(j) == worker[j] # "idle" \/ waiting[j] > 0

\* Mutant: a start is ignored while a worker is there.
StartWorkerOnce(j) ==
    /\ IF HasWorker(j) THEN UNCHANGED worker ELSE worker' = [worker EXCEPT ![j] = "start"]
    /\ UNCHANGED waiting

\* startDistillationWorker
StartWorker(j) ==
    IF HasWorker(j)
    THEN waiting' = [waiting EXCEPT ![j] = @ + 1] /\ UNCHANGED worker
    ELSE worker' = [worker EXCEPT ![j] = "start"] /\ UNCHANGED waiting

\* createDistillationJob: refused while a job is active
Create(c) ==
    /\ Free(c)
    /\ \A j \in Jobs : status[j] \notin Active
    /\ \E j \in Jobs :
          /\ status[j] = "none" /\ \A d \in Controllers : call[d].job # j \/ Free(d)
          /\ Goes(c, "create select", j)
    /\ UNCHANGED <<database, flags, workerVars, resumes, history>>

\* mode full_relearn forgets what was learned; then the records are selected
CreateSelect(c, j) ==
    /\ In(c, "create select", j)
    /\ \E kept \in {learned, {}} :
          /\ learned' = kept
          /\ call' = [call EXCEPT ![c].op = "create insert", ![c].chosen = AuditRecords \ kept]
    /\ UNCHANGED <<status, item, published, flags, workerVars, resumes, history>>

CreateInsert(c, j) ==
    /\ In(c, "create insert", j)
    /\ IF call[c].chosen = {}
       THEN /\ status' = [status EXCEPT ![j] = "completed"]
            /\ Returns(c)
       ELSE /\ status' = [status EXCEPT ![j] = "pending"]
            /\ call' = [call EXCEPT ![c].op = "create items"]
    /\ UNCHANGED <<item, learned, published, flags, workerVars, resumes, history>>

CreateItems(c, j) ==
    /\ In(c, "create items", j)
    /\ item' = [item EXCEPT ![j] =
                   [r \in AuditRecords |-> IF r \in call[c].chosen THEN "pending" ELSE "none"]]
    /\ StartWorker(j)
    /\ Returns(c)
    /\ UNCHANGED <<status, learned, published, flags, batch, accum, resumes, history>>

\* pauseDistillationJob, pauseDistillationWorker: a flag nobody would read is dropped
Pause(c, j) ==
    /\ Free(c) /\ status[j] \in {"pending", "running"}
    /\ paused' = IF HasWorker(j) THEN paused \cup {j} ELSE paused \ {j}
    /\ Goes(c, "pause write", j)
    /\ UNCHANGED <<database, cancelled, workerVars, resumes, history>>

PauseWrite(c, j) ==
    /\ In(c, "pause write", j)
    /\ status' = [status EXCEPT ![j] = "paused"]
    /\ wish' = [wish EXCEPT ![j] = "pause"]
    /\ Returns(c)
    /\ UNCHANGED <<item, learned, published, flags, workerVars, resumes, discarded>>

\* resumeDistillationJob, resumeDistillationWorker
Resume(c, j) ==
    /\ Free(c) /\ status[j] = "paused"
    /\ resumes < MaxResumes /\ resumes' = resumes + 1
    /\ paused' = paused \ {j} /\ cancelled' = cancelled \ {j}
    /\ wish' = [wish EXCEPT ![j] = "run"]
    /\ Goes(c, "resume write", j)
    /\ UNCHANGED <<database, workerVars, discarded>>

ResumeWrite(c, j) ==
    /\ In(c, "resume write", j)
    /\ status' = [status EXCEPT ![j] = "pending"]
    /\ Goes(c, "resume items", j)
    /\ UNCHANGED <<item, learned, published, flags, workerVars, resumes, history>>

ResumeItems(c, j) ==
    /\ In(c, "resume items", j)
    /\ item' = [item EXCEPT ![j] =
                   [r \in AuditRecords |-> IF @[r] = "processing" THEN "pending" ELSE @[r]]]
    /\ StartWorker(j)
    /\ Returns(c)
    /\ UNCHANGED <<status, learned, published, flags, batch, accum, resumes, history>>

\* cancelDistillationJob, cancelDistillationWorker
Cancel(c, j) ==
    /\ Free(c) /\ status[j] \in Active
    /\ cancelled' = IF HasWorker(j) THEN cancelled \cup {j} ELSE cancelled \ {j}
    /\ paused' = paused \ {j}
    /\ accum' = IF worker[j] \in {"loop", "publish", "complete"}  \* it holds the map itself
                THEN accum ELSE [accum EXCEPT ![j] = {}]
    /\ discarded' = discarded \cup {j}
    /\ Goes(c, "cancel write", j)
    /\ UNCHANGED <<database, worker, waiting, batch, resumes, wish>>

CancelWrite(c, j) ==
    /\ In(c, "cancel write", j)
    /\ status' = [status EXCEPT ![j] = "cancelled"]
    /\ wish' = [wish EXCEPT ![j] = "cancel"]
    /\ Returns(c)
    /\ UNCHANGED <<item, learned, published, flags, workerVars, resumes, discarded>>

Control(c, j) ==
    \/ CreateSelect(c, j) \/ CreateInsert(c, j) \/ CreateItems(c, j)
    \/ Pause(c, j) \/ PauseWrite(c, j)
    \/ Resume(c, j) \/ ResumeWrite(c, j) \/ ResumeItems(c, j)
    \/ Cancel(c, j) \/ CancelWrite(c, j)

-----------------------------------------------------------------------------
(* The worker.                                                             *)

Flagged(j) == j \in cancelled \cup paused

GoesTo(j, step) == worker' = [worker EXCEPT ![j] = step]

\* runWorker and the end of its loop both look at the flags and take them down, but in
\* opposite order.
TakeCancel(j) ==
    /\ j \in cancelled
    /\ cancelled' = cancelled \ {j} /\ paused' = paused \ {j}
    /\ accum' = [accum EXCEPT ![j] = {}]
    /\ GoesTo(j, "cancelling")

TakePause(j) ==
    /\ j \in paused
    /\ paused' = paused \ {j}
    /\ GoesTo(j, "pausing")
    /\ UNCHANGED <<cancelled, accum>>

Begin(j) ==
    /\ worker[j] = "start"
    /\ \/ TakeCancel(j)
       \/ j \notin cancelled /\ TakePause(j)
       \/ ~Flagged(j) /\ GoesTo(j, "read") /\ UNCHANGED <<flags, accum>>
    /\ UNCHANGED <<database, waiting, batch, call, resumes, history>>

\* Mutant: the worker does not look at the status of the job.
ReadJobUnchecked(j) ==
    /\ worker[j] = "read"
    /\ GoesTo(j, "run")
    /\ UNCHANGED <<database, flags, waiting, batch, accum, call, resumes, history>>

ReadJob(j) ==
    /\ worker[j] = "read"
    /\ GoesTo(j, IF status[j] \in Terminal THEN "idle" ELSE "run")
    /\ UNCHANGED <<database, flags, waiting, batch, accum, call, resumes, history>>

\* Mutant: every worker of the job begins with no fragments.
RunAfresh(j) ==
    /\ worker[j] = "run"
    /\ status' = [status EXCEPT ![j] = "running"]
    /\ accum' = [accum EXCEPT ![j] = {}]
    /\ GoesTo(j, "loop")
    /\ UNCHANGED <<item, learned, published, flags, waiting, batch, call, resumes, history>>

\* The settings are read, then the job is set running and takes up its fragments.
Run(j) ==
    /\ worker[j] = "run"
    /\ status' = [status EXCEPT ![j] = "running"]
    /\ GoesTo(j, "loop")
    /\ UNCHANGED <<item, learned, published, flags, waiting, batch, accum, call, resumes, history>>

Pending(j) == {r \in AuditRecords : item[j][r] = "pending"}
InBatch(j) == {r \in AuditRecords : batch[j][r] # "none"}
AtLoop(j) == worker[j] = "loop" /\ InBatch(j) = {}

\* select ... where status = 'pending' limit concurrency
SelectBatch(j) ==
    /\ AtLoop(j) /\ ~Flagged(j) /\ Pending(j) # {}
    /\ \E b \in SUBSET Pending(j) :
          /\ Cardinality(b) = Concurrency \/ (b = Pending(j) /\ Cardinality(b) <= Concurrency)
          /\ batch' = [batch EXCEPT ![j] = [r \in AuditRecords |-> IF r \in b THEN "chosen" ELSE "none"]]
    /\ UNCHANGED <<database, flags, worker, waiting, accum, call, resumes, history>>

\* Mutant: after the loop the pause flag is not looked at again.
EndLoopUnpaused(j) ==
    /\ AtLoop(j) /\ (Flagged(j) \/ Pending(j) = {})
    /\ IF j \in cancelled THEN TakeCancel(j) ELSE GoesTo(j, "publish") /\ UNCHANGED <<flags, accum>>
    /\ UNCHANGED <<database, waiting, batch, call, resumes, history>>

EndLoop(j) ==
    /\ AtLoop(j) /\ (Flagged(j) \/ Pending(j) = {})
    /\ \/ TakePause(j)
       \/ j \notin paused /\ TakeCancel(j)
       \/ ~Flagged(j) /\ GoesTo(j, "publish") /\ UNCHANGED <<flags, accum>>
    /\ UNCHANGED <<database, waiting, batch, call, resumes, history>>

WritePaused(j) ==
    /\ worker[j] = "pausing"
    /\ status' = [status EXCEPT ![j] = "paused"]
    /\ GoesTo(j, "idle")
    /\ UNCHANGED <<item, learned, published, flags, waiting, batch, accum, call, resumes, history>>

WriteCancelled(j) ==
    /\ worker[j] = "cancelling"
    /\ status' = [status EXCEPT ![j] = "cancelled"]
    /\ GoesTo(j, "idle")
    /\ UNCHANGED <<item, learned, published, flags, waiting, batch, accum, call, resumes, history>>

\* The fragments are consolidated into skill packages.
Publish(j) ==
    /\ worker[j] = "publish"
    /\ published' = [published EXCEPT ![j] = @ \cup accum[j]]
    /\ GoesTo(j, "complete")
    /\ UNCHANGED <<status, item, learned, flags, waiting, batch, accum, call, resumes, history>>

Complete(j) ==
    /\ worker[j] = "complete"
    /\ status' = [status EXCEPT ![j] = "completed"]
    /\ accum' = [accum EXCEPT ![j] = {}]
    /\ GoesTo(j, "idle")
    /\ UNCHANGED <<item, learned, published, flags, waiting, batch, call, resumes, history>>

\* The next worker of the chain: it does nothing when a flag is up.
NextWorker(j) ==
    /\ worker[j] = "idle" /\ waiting[j] > 0
    /\ waiting' = [waiting EXCEPT ![j] = @ - 1]
    /\ GoesTo(j, IF Flagged(j) THEN "idle" ELSE "start")
    /\ UNCHANGED <<database, flags, batch, accum, call, resumes, history>>

-----------------------------------------------------------------------------
(* The items of a batch, side by side.                                     *)

ToStep(j, r, step) == batch' = [batch EXCEPT ![j][r] = step]
Marks(j, r, s) == item' = [item EXCEPT ![j][r] = s]

ItemBegin(j, r) ==
    /\ batch[j][r] = "chosen"
    /\ IF Flagged(j)
       THEN ToStep(j, r, "none") /\ UNCHANGED item
       ELSE ToStep(j, r, "analysing") /\ Marks(j, r, "processing")
    /\ UNCHANGED <<status, learned, published, flags, worker, waiting, accum, call, resumes, history>>

\* The analyzer fails, or its output is refused.
ItemDropped(j, r) ==
    /\ batch[j][r] = "analysing"
    /\ \E s \in {"skipped", "failed"} : Marks(j, r, s)
    /\ ToStep(j, r, "none")
    /\ UNCHANGED <<status, learned, published, flags, worker, waiting, accum, call, resumes, history>>

\* The fragment is kept, then the record is inserted: a duplicate key fails the item.
ItemLearned(j, r) ==
    /\ batch[j][r] = "analysing"
    /\ accum' = [accum EXCEPT ![j] = @ \cup {r}]
    /\ learned' = learned \cup {r}
    /\ IF r \in learned
       THEN ToStep(j, r, "none") /\ Marks(j, r, "failed")
       ELSE ToStep(j, r, "inserted") /\ UNCHANGED item
    /\ UNCHANGED <<status, published, flags, worker, waiting, call, resumes, history>>

ItemMarked(j, r) ==
    /\ batch[j][r] = "inserted"
    /\ Marks(j, r, "learned") /\ ToStep(j, r, "none")
    /\ UNCHANGED <<status, learned, published, flags, worker, waiting, accum, call, resumes, history>>

Items(j, r) ==
    ItemBegin(j, r) \/ ItemDropped(j, r) \/ ItemLearned(j, r) \/ ItemMarked(j, r)

Work(j) ==
    \/ Begin(j) \/ ReadJob(j) \/ Run(j) \/ SelectBatch(j) \/ EndLoop(j) \/ WritePaused(j)
    \/ WriteCancelled(j) \/ Publish(j) \/ Complete(j) \/ NextWorker(j)
    \/ \E r \in AuditRecords : Items(j, r)

JobNext ==
    \/ \E c \in Controllers : Create(c) \/ \E j \in Jobs : Control(c, j)
    \/ \E j \in Jobs : Work(j)

JobSpec == JobInit /\ [][JobNext]_jobVars

\* A call that was begun goes on; the worker goes on.
Continues(c, j) == ~Free(c) /\ Control(c, j)
JobFairness ==
    /\ \A c \in Controllers : WF_jobVars(\E j \in Jobs : Continues(c, j))
    /\ \A j \in Jobs : WF_jobVars(Work(j))

-----------------------------------------------------------------------------
(* Correctness.                                                            *)

BeginsItem(j) == \E r \in AuditRecords : batch[j][r] = "chosen" /\ batch'[j][r] = "analysing"

\* After a cancel call has returned no further item of the job is analysed, whatever worker
\* was running or chained (cancelDistillationWorker and the checks of runWorker).
CancelledStops == [][\A j \in Jobs : BeginsItem(j) => wish[j] # "cancel"]_jobVars

\* A completed job has no item left to do, although a resume puts items back while the worker
\* goes on, and unless it was cancelled its skill packages hold the fragments of every item it
\* learned, over pauses and the workers that took turns (runWorker and its jobSkillAccum).
CompletedIsPublished ==
    \A j \in Jobs : status[j] = "completed" =>
        \A r \in AuditRecords :
            /\ item[j][r] \notin {"pending", "processing"}
            /\ item[j][r] = "learned" /\ j \notin discarded => r \in published[j]

\* A job that was created or resumed, and not paused or cancelled since, comes to its end: the
\* worker a resume chains behind one that is still stopping is not lost (startDistillationWorker).
JobsFinish ==
    \A j \in Jobs : status[j] \in Active /\ wish[j] = "run"
                      ~> status[j] \in Terminal \/ wish[j] # "run"

=============================================================================
