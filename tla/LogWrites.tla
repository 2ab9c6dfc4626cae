------------------------------ MODULE LogWrites ------------------------------
(***************************************************************************)
(* What the gateway writes of a request while the client has its answer: a row   *)
(* of the request log, patched as the request goes on, and a turn of the audit    *)
(* log.  Neither is waited for; a queue each keeps them in order.              *)
(***************************************************************************)
EXTENDS Integers, Sequences, FiniteSetsExt

-----------------------------------------------------------------------------
(* The audit log of conversations (chatLogInsertQueue.ts, chatLogService.ts,  *)
(* the matching of chatLogQuery.ts).  A finished request hands its turn over    *)
(* and does not wait; its insert reads which conversation the turn continues     *)
(* and the last turn number of it, then writes a row with the next number.       *)
(* The inserts of one client session are chained by promises, so that a read    *)
(* sees what the previous insert wrote.  The chain is known by its last link:    *)
(* the map insertQueues, which a link leaves when nothing was chained after it. *)

CONSTANTS
    Inserts,        \* turns handed over, each once
    Clients         \* clients' session identifiers, resolved to keys of the map

ASSUME InsertsAssumption == "none" \notin Inserts

VARIABLES
    tail,           \* insertQueues: the last link of each key
    insert,         \* per turn: its step, its key, the link before it, the turn it will be
    handedOver,     \* history: the turns in the order they were handed over
    rows            \* chat_logs, in the order of createdAt

auditVars == <<tail, insert, handedOver, rows>>

-----------------------------------------------------------------------------
InsertSteps ==
    {"new",
     "chained",     \* behind its predecessor
     "matching",    \* resolveSessionMatch reads the rows
     "writing", "retrying",     \* the first and the second write
     "settled"}

Links == Inserts \cup {"none"}
Turns == [session : Inserts, turn : 0..Cardinality(Inserts)]

AuditTypeOK ==
    /\ tail \in [Clients -> Links]
    /\ insert \in [Inserts -> [step : InsertSteps, client : Clients \cup {"none"},
                               after : Links, at : Turns]]
    /\ rows \in Seq([insert : Inserts, client : Clients, session : Inserts, turn : Nat])
    /\ \A i, j \in DOMAIN rows : rows[i].insert = rows[j].insert => i = j

New(i) == [step |-> "new", client |-> "none", after |-> "none",
           at |-> [session |-> i, turn |-> 0]]

AuditInit ==
    /\ tail = [c \in Clients |-> "none"]
    /\ insert = [i \in Inserts |-> New(i)]
    /\ handedOver = <<>> /\ rows = <<>>

-----------------------------------------------------------------------------
(* enqueueAuditInsert                                                      *)

SettledLinks == {"none"} \cup {i \in Inserts : insert[i].step = "settled"}

\* prev is the tail of the key, or a resolved promise; the wrapped promise is the new tail.
HandOver(i, c) ==
    /\ insert[i].step = "new"
    /\ insert' = [insert EXCEPT ![i] = [New(i) EXCEPT !.step = "chained", !.client = c,
                                                      !.after = tail[c]]]
    /\ tail' = [tail EXCEPT ![c] = i]
    /\ handedOver' = Append(handedOver, i)
    /\ UNCHANGED rows

\* prev.then(task)
Start(i) ==
    /\ insert[i].step = "chained" /\ insert[i].after \in SettledLinks
    /\ insert' = [insert EXCEPT ![i].step = "matching"]
    /\ UNCHANGED <<tail, handedOver, rows>>

\* Mutant: a link takes the entry down whatever was chained after it.
LeaveAlways(i) == [tail EXCEPT ![insert[i].client] = "none"]

\* The finally of the wrapped promise.
Leave(i) == [tail EXCEPT ![insert[i].client] = IF @ = i THEN "none" ELSE @]

SettleInsert(i) ==
    /\ insert' = [insert EXCEPT ![i].step = "settled"]
    /\ tail' = Leave(i)
    /\ UNCHANGED handedOver

-----------------------------------------------------------------------------
(* processChatLogInsert                                                    *)

\* A turn without summary, a failed read and any other error end the insert without a row.
GiveUp(i) == insert[i].step = "matching" /\ SettleInsert(i) /\ UNCHANGED rows

RowsOf(c) == {k \in DOMAIN rows : rows[k].client = c}

\* findSessionByClientSessionId: the session of the client's latest row, and the last turn of
\* the client's rows in it.
OfClient(c) ==
    LET session == rows[Max(RowsOf(c))].session IN
    [session |-> session,
     turn |-> 1 + Max({rows[k].turn : k \in {n \in RowsOf(c) : rows[n].session = session}})]

\* The other strategies of resolveSessionMatch compare texts and times of the rows: whichever
\* of them matches, if any, it returns a session and the last turn of some rows of it.
ByContent(i) ==
    {[session |-> i, turn |-> 0]}
      \cup {[session |-> rows[k].session, turn |-> rows[k].turn + 1] : k \in DOMAIN rows}

\* resolveSessionMatch: the client's own session has priority 0.
Match(i, at) ==
    IF RowsOf(insert[i].client) # {} THEN at = OfClient(insert[i].client) ELSE at \in ByContent(i)

Resolve(i) ==
    /\ insert[i].step = "matching"
    /\ \E at \in ByContent(i) \cup {OfClient(c) : c \in {d \in Clients : RowsOf(d) # {}}} :
        /\ Match(i, at)
        /\ insert' = [insert EXCEPT ![i].step = "writing", ![i].at = at]
    /\ UNCHANGED <<tail, handedOver, rows>>

Stored(i) == \E k \in DOMAIN rows : rows[k].insert = i

Write(i) ==
    rows' = IF Stored(i) THEN rows
            ELSE Append(rows, [insert |-> i, client |-> insert[i].client,
                               session |-> insert[i].at.session, turn |-> insert[i].at.turn])

\* The write succeeds, or the second one fails, or finds its row stored by the first.
WriteEnds(i) ==
    \/ insert[i].step \in {"writing", "retrying"} /\ Write(i) /\ SettleInsert(i)
    \/ insert[i].step = "retrying" /\ SettleInsert(i) /\ UNCHANGED rows

\* The first write is reported as failed, stored or not; the second follows 50 ms later.
WriteFails(i) ==
    /\ insert[i].step = "writing"
    /\ insert' = [insert EXCEPT ![i].step = "retrying"]
    /\ Write(i) \/ UNCHANGED rows
    /\ UNCHANGED <<tail, handedOver>>

InsertGoesOn(i) == Start(i) \/ GiveUp(i) \/ Resolve(i) \/ WriteEnds(i) \/ WriteFails(i)

AuditNext ==
    \E i \in Inserts : InsertGoesOn(i) \/ \E c \in Clients : HandOver(i, c)

AuditSpec == AuditInit /\ [][AuditNext]_auditVars

-----------------------------------------------------------------------------
(* Correctness.                                                            *)

Before(i, j) ==
    \E m, n \in DOMAIN handedOver : m < n /\ handedOver[m] = i /\ handedOver[n] = j

\* The turns of one client session land in one conversation, in the order in which their
\* requests finished and with turn numbers that grow, whatever was merged into that
\* conversation meanwhile ("stays ordered for merge/turnId").
TurnsOrdered ==
    \A k, n \in DOMAIN rows :
        k < n /\ rows[k].client = rows[n].client
          => /\ Before(rows[k].insert, rows[n].insert)
             /\ rows[k].session = rows[n].session
             /\ rows[k].turn < rows[n].turn

-----------------------------------------------------------------------------
(* The request log (requestLogService.ts): a request inserts its row and      *)
(* patches it as it goes, without waiting for the database.  The writes go     *)
(* through one queue, which one worker at a time empties; a write that fails    *)
(* is tried once more and then dropped.                                      *)
(*                                                                         *)
(* The writes of one log are numbered: 0 is the insert, n the n-th patch, and   *)
(* a row holds the number of the write it was last changed by.                *)

CONSTANTS
    Logs,
    MaxPatches,     \* bound on the patches of one log
    MaxDrains       \* bound on the calls of flushRequestLogQueue under way

ASSUME MaxPatchesAssumption == MaxPatches \in Nat

VARIABLES
    writeQueue,
    isFlushing,
    workers,    \* the write each running worker waits for, and whether it is the retry
    issued,     \* per log: the last write issued, -1 before the insert
    row,        \* per log: the row, -1 without one
    dropped,    \* per log: writes given up
    drains      \* calls of flushRequestLogQueue, each with the writes issued before it

logVars == <<writeQueue, isFlushing, workers, issued, row, dropped, drains>>

-----------------------------------------------------------------------------
Writes == [log : Logs, write : 0..MaxPatches]
Numbers == -1..MaxPatches

LogTypeOK ==
    /\ writeQueue \in Seq(Writes)
    /\ isFlushing \in BOOLEAN
    /\ workers \subseteq [task : Writes, again : BOOLEAN]
    /\ issued \in [Logs -> Numbers] /\ row \in [Logs -> Numbers]
    /\ dropped \in [Logs -> SUBSET (0..MaxPatches)]
    /\ drains \subseteq [Logs -> Numbers]
    /\ isFlushing <=> Cardinality(workers) = 1

LogInit ==
    /\ writeQueue = <<>> /\ isFlushing = FALSE /\ workers = {}
    /\ issued = [l \in Logs |-> -1] /\ row = [l \in Logs |-> -1]
    /\ dropped = [l \in Logs |-> {}] /\ drains = {}

-----------------------------------------------------------------------------
(* The worker.                                                             *)

Waiting(task, again) == [task |-> task, again |-> again]

\* Mutant: every write starts a worker.
EnqueueStartsWorker(task) ==
    /\ isFlushing' = TRUE
    /\ workers' = workers \cup {Waiting(task, FALSE)}
    /\ UNCHANGED writeQueue

\* enqueueTask, triggerFlush: the worker runs up to its first await.
Enqueue(task) ==
    IF isFlushing
    THEN writeQueue' = Append(writeQueue, task) /\ UNCHANGED <<isFlushing, workers>>
    ELSE /\ isFlushing' = TRUE /\ workers' = {Waiting(task, FALSE)}
         /\ UNCHANGED writeQueue

\* The loop of flushQueueWorker: the next write, or the end of the worker.
GoOn(w) ==
    IF writeQueue = <<>>
    THEN workers' = workers \ {w} /\ isFlushing' = FALSE /\ UNCHANGED writeQueue
    ELSE /\ workers' = (workers \ {w}) \cup {Waiting(Head(writeQueue), FALSE)}
         /\ writeQueue' = Tail(writeQueue)
         /\ UNCHANGED isFlushing

\* An insert makes the row, a patch changes the row there is.
Applied(task) ==
    row' = [row EXCEPT ![task.log] =
              IF (@ = -1) = (task.write = 0) THEN task.write ELSE @]

WriteSucceeds(w) ==
    /\ w.task.write = 0 => row[w.task.log] = -1      \* an insert cannot succeed twice
    /\ Applied(w.task)
    /\ GoOn(w)
    /\ UNCHANGED <<issued, dropped, drains>>

\* A write reported as failed, applied or not, is tried again after 50 ms; the second
\* failure is logged and the write forgotten.
LogWriteFails(w) ==
    /\ Applied(w.task) \/ UNCHANGED row
    /\ IF w.again
       THEN /\ GoOn(w)
            /\ dropped' = [dropped EXCEPT ![w.task.log] = @ \cup {w.task.write}]
       ELSE /\ workers' = (workers \ {w}) \cup {Waiting(w.task, TRUE)}
            /\ UNCHANGED <<writeQueue, isFlushing, dropped>>
    /\ UNCHANGED <<issued, drains>>

-----------------------------------------------------------------------------
(* The callers.                                                            *)

\* insertRequestLog, then updateRequestLog and persistRequestLogPatch
Issue(l) ==
    /\ issued[l] < MaxPatches
    /\ issued' = [issued EXCEPT ![l] = @ + 1]
    /\ Enqueue([log |-> l, write |-> issued[l] + 1])
    /\ UNCHANGED <<row, dropped, drains>>

\* flushRequestLogQueue
Drain ==
    /\ Cardinality(drains) < MaxDrains
    /\ drains' = drains \cup {issued}
    /\ UNCHANGED <<writeQueue, isFlushing, workers, issued, row, dropped>>

LogDrained == writeQueue = <<>> /\ ~isFlushing

DrainReturns(d) ==
    /\ LogDrained
    /\ drains' = drains \ {d}
    /\ UNCHANGED <<writeQueue, isFlushing, workers, issued, row, dropped>>

WorkerGoesOn == \E w \in workers : WriteSucceeds(w) \/ LogWriteFails(w)

LogNext ==
    \/ WorkerGoesOn
    \/ \E l \in Logs : Issue(l)
    \/ Drain
    \/ \E d \in drains : DrainReturns(d)

LogSpec == LogInit /\ [][LogNext]_logVars

-----------------------------------------------------------------------------
(* Correctness.                                                            *)

\* The writes of a log reach its row in the order they were issued, a retry of an earlier write
\* never undoes a later one; and flushRequestLogQueue returns only when what was issued before
\* it has been written or given up.
RowsInOrder ==
    [][/\ \A l \in Logs : row'[l] >= row[l]
       /\ \A d \in drains \ drains' : \A l \in Logs :
             \A n \in 0..d[l] : n \in dropped[l] \/ n <= row[l] \/ 0 \in dropped[l]]_logVars

=============================================================================
