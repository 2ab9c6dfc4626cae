--------------------------- MODULE ProviderTable ---------------------------
(***************************************************************************)
(* What every start of the server does to the providers of an old SQLite     *)
(* database (bootstrap.ts, db/index.ts): the keys kept in two columns of the   *)
(* table providers are copied to the key pool, the table is rebuilt without    *)
(* the columns, and the automatic migrations drop what is left of them.        *)
(*                                                                         *)
(* Each statement commits by itself.  The process can die between any two of   *)
(* them, and a statement of the key migration can fail: its error is caught    *)
(* and the start goes on.                                                   *)
(***************************************************************************)
EXTENDS Naturals

CONSTANTS
    Providers, Keys, NoKey,
    MaxCrashes, MaxFailures     \* bounds on the crashes and the failed statements

ASSUME NoKeyAssumption == NoKey \notin Keys
ASSUME BoundsAssumption == MaxCrashes \in Nat /\ MaxFailures \in Nat

VARIABLES
    legacy,     \* what the two columns hold; never written again
    providers,  \* the table: whether it exists, its legacy columns and its rows
    rebuilt,    \* the table providers_without_legacy_keys
    pool,       \* provider_api_keys: how often a key of a provider is in it
    boot,       \* where the start is
    todo,       \* the keys still to be looked at by the loop
    crashes, failures,
    caught      \* history: bootstrap once caught an error of the key migration

tableVars == <<legacy, providers, rebuilt, pool, boot, todo, crashes, failures, caught>>

-----------------------------------------------------------------------------
Columns == {"openaiApiKeyEncrypted", "anthropicApiKeyEncrypted"}

\* The phases of migrateAndDropLegacyProviderKeyColumns
Migrating == {"check", "copy", "create", "fill", "drop", "rename"}
Phases == Migrating \cup {"down", "auto", "up", "failed"}

NoTable == [exists |-> FALSE, columns |-> {}, rows |-> {}]

\* The keys found in the given columns, each once for its provider (seenInProvider)
LegacyKeys(columns) ==
    {pk \in Providers \X Keys : \E c \in columns : legacy[pk[1]][c] = pk[2]}

TableTypeOK ==
    /\ legacy \in [Providers -> [Columns -> Keys \cup {NoKey}]]
    /\ providers \in [exists : BOOLEAN, columns : SUBSET Columns, rows : SUBSET Providers]
    /\ rebuilt \in [exists : BOOLEAN, columns : SUBSET Columns, rows : SUBSET Providers]
    /\ pool \in [Providers \X Keys -> Nat]
    /\ boot \in Phases /\ todo \subseteq Providers \X Keys
    /\ crashes \in 0..MaxCrashes /\ failures \in 0..MaxFailures /\ caught \in BOOLEAN

\* A database of an older version; its SQL migration may have filled the pool.
TableInit ==
    /\ legacy \in [Providers -> [Columns -> Keys \cup {NoKey}]]
    /\ providers = [exists |-> TRUE, columns |-> Columns, rows |-> Providers]
    /\ rebuilt = NoTable
    /\ pool \in [Providers \X Keys -> {0, 1}]
    /\ \A pk \in Providers \X Keys : pool[pk] = 1 => pk \in LegacyKeys(Columns)
    /\ boot = "down" /\ todo = {} /\ crashes = 0 /\ failures = 0 /\ caught = FALSE

-----------------------------------------------------------------------------
StartServer ==
    /\ boot \in {"down", "failed"} /\ boot' = "check"
    /\ UNCHANGED <<legacy, providers, rebuilt, pool, todo, crashes, failures, caught>>

\* Nothing to do without the table or without legacy columns.
ReadLegacy ==
    /\ boot = "check"
    /\ IF providers.exists /\ providers.columns # {}
       THEN boot' = "copy" /\ todo' = LegacyKeys(providers.columns)
       ELSE boot' = "auto" /\ UNCHANGED todo
    /\ UNCHANGED <<legacy, providers, rebuilt, pool, crashes, failures, caught>>

\* A key is inserted unless the pool has it.
WithKey(pk) == [pool EXCEPT ![pk] = IF @ = 0 THEN 1 ELSE @]

CopyKey ==
    /\ boot = "copy"
    /\ \E pk \in todo : pool' = WithKey(pk) /\ todo' = todo \ {pk}
    /\ UNCHANGED <<legacy, providers, rebuilt, boot, crashes, failures, caught>>

\* Mutant: the rebuild starts before the keys are all copied.
DropLeftoverEarly ==
    /\ boot = "copy" /\ boot' = "create" /\ rebuilt' = NoTable /\ todo' = {}
    /\ UNCHANGED <<legacy, providers, pool, crashes, failures, caught>>

\* A table left over by an earlier start is dropped.
DropLeftover ==
    /\ boot = "copy" /\ todo = {}
    /\ boot' = "create" /\ rebuilt' = NoTable
    /\ UNCHANGED <<legacy, providers, pool, todo, crashes, failures, caught>>

CreateRebuilt ==
    /\ boot = "create" /\ boot' = "fill"
    /\ rebuilt' = [exists |-> TRUE, columns |-> {}, rows |-> {}]
    /\ UNCHANGED <<legacy, providers, pool, todo, crashes, failures, caught>>

FillRebuilt ==
    /\ boot = "fill" /\ boot' = "drop"
    /\ rebuilt' = [rebuilt EXCEPT !.rows = providers.rows]
    /\ UNCHANGED <<legacy, providers, pool, todo, crashes, failures, caught>>

DropProviders ==
    /\ boot = "drop" /\ boot' = "rename"
    /\ providers' = NoTable
    /\ UNCHANGED <<legacy, rebuilt, pool, todo, crashes, failures, caught>>

RenameRebuilt ==
    /\ boot = "rename" /\ boot' = "auto"
    /\ providers' = rebuilt /\ rebuilt' = NoTable
    /\ UNCHANGED <<legacy, pool, todo, crashes, failures, caught>>

\* A statement of the key migration fails; bootstrap logs the error and goes on.
MigrationFails ==
    /\ boot \in Migrating /\ failures < MaxFailures
    /\ failures' = failures + 1 /\ boot' = "auto" /\ todo' = {} /\ caught' = TRUE
    /\ UNCHANGED <<legacy, providers, rebuilt, pool, crashes>>

\* runAutoMigrations drops the columns that are left, the OpenAI one first.
DropColumn ==
    /\ boot = "auto" /\ providers.exists
    /\ \E c \in providers.columns :
        /\ c = "openaiApiKeyEncrypted" \/ "openaiApiKeyEncrypted" \notin providers.columns
        /\ providers' = [providers EXCEPT !.columns = @ \ {c}]
    /\ UNCHANGED <<legacy, rebuilt, pool, boot, todo, crashes, failures, caught>>

ServerUp ==
    /\ boot = "auto" /\ providers.exists /\ providers.columns = {} /\ boot' = "up"
    /\ UNCHANGED <<legacy, providers, rebuilt, pool, todo, crashes, failures, caught>>

\* An automatic migration fails for another reason than a column that is there (or gone)
\* already, as each of them does when the table is missing: the start is given up.
StartGivenUp ==
    /\ boot = "auto" /\ boot' = "failed"
    /\ providers.exists => failures < MaxFailures
    /\ failures' = IF providers.exists THEN failures + 1 ELSE failures
    /\ UNCHANGED <<legacy, providers, rebuilt, pool, todo, crashes, caught>>

Crash ==
    /\ boot \notin {"down", "failed"} /\ crashes < MaxCrashes
    /\ crashes' = crashes + 1 /\ boot' = "down" /\ todo' = {}
    /\ UNCHANGED <<legacy, providers, rebuilt, pool, failures, caught>>

TableNext ==
    \/ StartServer \/ ReadLegacy \/ CopyKey
    \/ DropLeftover \/ CreateRebuilt \/ FillRebuilt \/ DropProviders \/ RenameRebuilt
    \/ MigrationFails
    \/ DropColumn \/ ServerUp \/ StartGivenUp
    \/ Crash

TableSpec == TableInit /\ [][TableNext]_tableVars

-----------------------------------------------------------------------------
InSomeColumn(pk) == providers.exists /\ pk \in LegacyKeys(providers.columns)

\* Wherever the process dies and whatever statement fails, all providers are in the table or in
\* its rebuilt copy, and a server that comes up has them in the table, without legacy columns; a
\* key is in the pool or still in its column, as long as every statement of the key migration
\* that was run succeeded; and a migration that is run again after a crash or a failure puts no
\* key into the pool twice.
CatalogKept ==
    /\ \/ providers.exists /\ providers.rows = Providers
       \/ rebuilt.exists /\ rebuilt.rows = Providers
    /\ boot = "up" => providers = [exists |-> TRUE, columns |-> {}, rows |-> Providers]
    /\ ~caught => \A pk \in LegacyKeys(Columns) : pool[pk] > 0 \/ InSomeColumn(pk)
    /\ \A pk \in Providers \X Keys : pool[pk] <= 1

=============================================================================
