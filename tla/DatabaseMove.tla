---------------------------- MODULE DatabaseMove ----------------------------
(***************************************************************************)
(* Moving a running server from SQLite to PostgreSQL: the administrator's      *)
(* call migrate-to-pg (routes/settings.ts), maintenance mode                   *)
(* (services/maintenance.ts, the gate in index.ts), the copy pipeline           *)
(* (db/copy/pipeline.ts), and what goes on beside it: writing requests, the      *)
(* log clean-up, a restart.                                                 *)
(*                                                                         *)
(* One table stands for all of them, in the order SQLite returns its rows; a     *)
(* batch is one row.  The pipeline's steps are separated at its awaits.         *)
(***************************************************************************)
EXTENDS Naturals, Sequences, FiniteSets

CONSTANTS
    Migrations,          \* calls of migrate-to-pg
    Writers,         \* requests that insert a row each
    OldRows,        \* the rows there are
    MaxCleanups, MaxErrors, MaxRestarts     \* bounds

ASSUME OldRowsAssumption == IsFiniteSet(OldRows)

VARIABLES
    source,         \* the SQLite table
    target,         \* the PostgreSQL table, by primary key
    config,         \* the driver in yutrix.config.json
    serving,        \* the driver of the running process
    maintenance,    \* isMaintenanceActive
    flagRow,        \* the row "maintenance" of system_settings
    open,           \* the requests counted in inFlightRequests
    progress,       \* activeProgress, shared by all moves
    move,           \* where each move is, and its locals
    write,          \* where each writing request is
    cleanups, errors, restarts,
    began,          \* history: the rows there were when the move that switched counted them
    disturbed       \* history: rows were deleted while a move copied

moveVars == <<source, target, config, serving, maintenance, flagRow, open, progress, move,
              write, cleanups, errors, restarts, began, disturbed>>

-----------------------------------------------------------------------------
Rows == OldRows \cup Writers
RowSet(s) == {s[i] : i \in DOMAIN s}

NoProgress == [inProgress |-> FALSE, known |-> FALSE, copied |-> 0]

NoMove == [at |-> "idle", total |-> 0, copied |-> 0, offset |-> 0, batch |-> <<>>, counted |-> {}]

Copying == {"prepare", "fetch", "insert", "verify"}
Places == {"idle", "flag", "drain", "off", "unflag", "done"} \cup Copying

MoveTypeOK ==
    /\ source \in Seq(Rows) /\ target \subseteq Rows
    /\ config \in {"sqlite", "postgres"} /\ serving \in {"sqlite", "postgres"}
    /\ maintenance \in BOOLEAN /\ flagRow \in BOOLEAN
    /\ open \subseteq Migrations \cup Writers
    /\ progress \in [inProgress : BOOLEAN, known : BOOLEAN, copied : 0..Cardinality(Rows)]
    /\ \A m \in Migrations : move[m].at \in Places /\ move[m].counted \subseteq Rows
    /\ write \in [Writers -> {"idle", "running", "done"}]
    /\ began \subseteq Rows /\ disturbed \in BOOLEAN

MoveInit ==
    /\ source \in {s \in [1..Cardinality(OldRows) -> OldRows] : RowSet(s) = OldRows}
    /\ target = {} /\ config = "sqlite" /\ serving = "sqlite"
    /\ maintenance = FALSE /\ flagRow = FALSE /\ open = {}
    /\ progress = NoProgress /\ move = [m \in Migrations |-> NoMove]
    /\ write = [w \in Writers |-> "idle"]
    /\ cleanups = 0 /\ errors = 0 /\ restarts = 0 /\ began = {} /\ disturbed = FALSE

-----------------------------------------------------------------------------
At(m, place) == serving = "sqlite" /\ move[m].at = place
Goto(m, place) == move' = [move EXCEPT ![m].at = place]

boundVars == <<cleanups, restarts>>
dataVars == <<source, target, config, serving>>

\* The call: refused while the pipeline of another one runs.
Ask(m) ==
    /\ At(m, "idle")
    /\ IF progress.inProgress
       THEN Goto(m, "done") /\ UNCHANGED <<maintenance, open>>
       ELSE maintenance' = TRUE /\ open' = open \cup {m} /\ Goto(m, "flag")
    /\ UNCHANGED <<dataVars, flagRow, progress, write, boundVars, errors, began, disturbed>>

SetFlag(m) ==
    /\ At(m, "flag") /\ flagRow' = TRUE /\ Goto(m, "drain")
    /\ UNCHANGED <<dataVars, maintenance, open, progress, write, boundVars, errors, began, disturbed>>

\* drainRequests polls until nothing is in flight, its own request included, or 60 s passed;
\* the pipeline then starts with a progress of its own.
DrainEnds(m) ==
    /\ At(m, "drain")
    /\ progress' = [NoProgress EXCEPT !.inProgress = TRUE]
    /\ Goto(m, "prepare")
    /\ UNCHANGED <<dataVars, maintenance, flagRow, open, write, boundVars, errors, began, disturbed>>

\* The rows are counted once.
Count(m) ==
    /\ At(m, "prepare")
    /\ move' = [move EXCEPT ![m].at = IF source = <<>> THEN "verify" ELSE "fetch",
                            ![m].total = Len(source), ![m].counted = RowSet(source)]
    /\ progress' = [progress EXCEPT !.known = TRUE, !.copied = 0]
    /\ UNCHANGED <<dataVars, maintenance, flagRow, open, write, boundVars, errors, began, disturbed>>

\* LIMIT 1 OFFSET offset
Fetch(m) ==
    /\ At(m, "fetch")
    /\ LET first == move[m].offset + 1 IN
       move' = [move EXCEPT ![m].at = "insert",
                            ![m].batch = IF first \in DOMAIN source THEN <<source[first]>> ELSE <<>>]
    /\ UNCHANGED <<dataVars, maintenance, flagRow, open, progress, write, boundVars, errors, began, disturbed>>

\* The catch of runCopyPipeline
Fail(m) ==
    /\ progress' = [progress EXCEPT !.inProgress = FALSE]
    /\ Goto(m, "off")

\* Mutant: the loop stops one batch early.
MoreButOne(m) == move[m].offset + 2 < move[m].total

\* The loop goes on to the next batch.
More(m) == move[m].offset + 1 < move[m].total

\* A plain INSERT; a primary key that is there already fails it, and so does the progress of
\* another move that does not know the table yet.
Insert(m) ==
    /\ At(m, "insert")
    /\ LET rows == RowSet(move[m].batch)
           copied == move[m].copied + Cardinality(rows)
       IN  IF rows \cap target # {} THEN Fail(m) /\ UNCHANGED target
           ELSE /\ target' = target \cup rows
                /\ IF ~progress.known THEN Fail(m)
                   ELSE /\ progress' = [progress EXCEPT !.copied = copied]
                        /\ move' = [move EXCEPT ![m].copied = copied, ![m].offset = @ + 1,
                                     ![m].at = IF More(m) THEN "fetch" ELSE "verify"]
    /\ UNCHANGED <<source, config, serving, maintenance, flagRow, open, write, boundVars,
                   errors, began, disturbed>>

\* The count of the target against the progress
Verified(m) == progress.known /\ Cardinality(target) = progress.copied

\* The configuration is saved in the step that follows the last check.
Verify(m) ==
    /\ At(m, "verify")
    /\ IF Verified(m)
       THEN /\ config' = "postgres" /\ began' = move[m].counted
            /\ progress' = [progress EXCEPT !.inProgress = FALSE]
            /\ Goto(m, "off")
       ELSE Fail(m) /\ UNCHANGED <<config, began>>
    /\ UNCHANGED <<source, target, serving, maintenance, flagRow, open, write, boundVars,
                   errors, disturbed>>

\* The connection to PostgreSQL fails.
TargetError(m) ==
    /\ serving = "sqlite" /\ move[m].at \in Copying /\ errors < MaxErrors /\ errors' = errors + 1
    /\ Fail(m)
    /\ UNCHANGED <<dataVars, maintenance, flagRow, open, write, boundVars, began, disturbed>>

\* Mutant: after a failure maintenance mode is left on.
TurnOffOnSuccess(m) ==
    /\ At(m, "off")
    /\ maintenance' = (maintenance /\ config = "sqlite") /\ Goto(m, "unflag")
    /\ UNCHANGED <<dataVars, flagRow, open, progress, write, boundVars, errors, began, disturbed>>

\* setMaintenanceMode(false), whether the move succeeded or failed
TurnOff(m) ==
    /\ At(m, "off") /\ maintenance' = FALSE /\ Goto(m, "unflag")
    /\ UNCHANGED <<dataVars, flagRow, open, progress, write, boundVars, errors, began, disturbed>>

Unflag(m) ==
    /\ At(m, "unflag") /\ flagRow' = FALSE /\ open' = open \ {m} /\ Goto(m, "done")
    /\ UNCHANGED <<dataVars, maintenance, progress, write, boundVars, errors, began, disturbed>>

MoveStep(m) ==
    SetFlag(m) \/ DrainEnds(m) \/ Count(m) \/ Fetch(m) \/ Insert(m) \/ Verify(m)
    \/ TurnOff(m) \/ Unflag(m)

-----------------------------------------------------------------------------
(* What goes on beside a move.                                             *)

\* The gate refuses what writes while maintenance is on.
WriterStarts(w) ==
    /\ serving = "sqlite" /\ write[w] = "idle" /\ ~maintenance
    /\ write' = [write EXCEPT ![w] = "running"] /\ open' = open \cup {w}
    /\ UNCHANGED <<dataVars, maintenance, flagRow, progress, move, boundVars, errors, began, disturbed>>

WriterEnds(w) ==
    /\ serving = "sqlite" /\ write[w] = "running"
    /\ write' = [write EXCEPT ![w] = "done"] /\ open' = open \ {w}
    /\ source' = Append(source, w)
    /\ UNCHANGED <<target, config, serving, maintenance, flagRow, progress, move, boundVars,
                   errors, began, disturbed>>

\* The log clean-up deletes the oldest rows; maintenance does not stop it.
Cleanup ==
    /\ serving = "sqlite" /\ source # <<>> /\ cleanups < MaxCleanups
    /\ cleanups' = cleanups + 1 /\ source' = Tail(source)
    /\ disturbed' = (disturbed \/ \E m \in Migrations : move[m].at \in Copying)
    /\ UNCHANGED <<target, config, serving, maintenance, flagRow, open, progress, move, write,
                   errors, restarts, began>>

\* The process dies or is restarted, and serves from the configured database.
RestartServer ==
    /\ serving = "sqlite" /\ restarts < MaxRestarts /\ restarts' = restarts + 1
    /\ serving' = config /\ maintenance' = FALSE /\ open' = {} /\ progress' = NoProgress
    /\ move' = [m \in Migrations |-> IF move[m].at = "idle" THEN NoMove
                                ELSE [NoMove EXCEPT !.at = "done"]]
    /\ write' = [w \in Writers |-> IF write[w] = "running" THEN "idle" ELSE write[w]]
    /\ UNCHANGED <<source, target, config, flagRow, cleanups, errors, began, disturbed>>

MoveNext ==
    \/ \E m \in Migrations : Ask(m) \/ MoveStep(m) \/ TargetError(m)
    \/ \E w \in Writers : WriterStarts(w) \/ WriterEnds(w)
    \/ Cleanup
    \/ RestartServer

MoveFairness == \A m \in Migrations : WF_moveVars(MoveStep(m))

MoveSpec == MoveInit /\ [][MoveNext]_moveVars /\ MoveFairness

-----------------------------------------------------------------------------
\* A server is switched to PostgreSQL only when every row it had when its rows were counted is
\* there, as long as nothing was deleted meanwhile: overlapping moves, failures and restarts
\* included.
SwitchedComplete == config = "postgres" /\ ~disturbed => began \subseteq target

\* Maintenance mode ends.
MaintenanceEnds == []<>~maintenance

=============================================================================
