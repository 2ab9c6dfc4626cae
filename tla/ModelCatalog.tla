---------------------------- MODULE ModelCatalog ----------------------------
(***************************************************************************)
(* The models of one provider: the rows of provider_models, which are written   *)
(* from the provider's own list when it is created, tested or refreshed          *)
(* (controllers/providerUpdateController.ts, providerModelController.ts), from   *)
(* its manual models then and at every start (startup/seed.ts), by the          *)
(* operator who sets limits, prices and switches, and by the provider's deletion *)
(* (providerController.ts).                                                    *)
(*                                                                         *)
(* A refresh reads the rows once, then writes row after row; calls of several    *)
(* administrators interleave with it.  A row is identified by its id: a model    *)
(* that was deleted and inserted again has another one.  (provider, model) is    *)
(* unique: a second insert fails, and with it the rest of the call.             *)
(*                                                                         *)
(* At the end, the cache of the aliases of the models.                         *)
(***************************************************************************)
EXTENDS Naturals, FiniteSets

CONSTANTS
    Models, Administrators,
    Settings,          \* what an operator sets on a row
    Custom,            \* those of them that keep a row from being deleted
    MaxRows, MaxSaves, MaxStarts  \* bounds: on inserts, on saves, on calls and starts

ASSUME SettingsAssumption == Custom \subseteq Settings /\ IsFiniteSet(Models)

VARIABLES
    provider,  \* "absent", "there" or "deleted"
    manual,    \* its manualModels
    rows,      \* provider_models, one row of a model or none
    inserted,  \* rows inserted so far: the next id
    jobs,      \* the call of each administrator
    saves, starts,
    kept       \* history: models whose settings an operator saved while no call
               \* had already read the row as one to delete

modelVars == <<provider, manual, rows, inserted, jobs, saves, starts, kept>>

-----------------------------------------------------------------------------
NoRow == [id |-> 0, active |-> FALSE, set |-> {}]
Present(m) == rows[m] # NoRow

\* saw: the rows a call has read; list: the models of the provider; left: the
\* models it has not come to in its present loop; test: whether it is an update with
\* a test; then, manual: whether the manual models follow, and which
NoJob == [at |-> "none", saw |-> [m \in Models |-> NoRow], list |-> {}, left |-> {},
          test |-> FALSE, then |-> FALSE, manual |-> {}]

\* Mutant: a model an operator switched off has no configuration of its own.
HasCustomConfigOn(row) == row.set \cap (Custom \ {"off"}) # {}

HasCustomConfig(row) == row.set \cap Custom # {}

CatalogTypeOK ==
    /\ provider \in {"absent", "there", "deleted"}
    /\ manual \subseteq Models /\ kept \subseteq Models
    /\ \A m \in Models : rows[m] \in [id : 0..MaxRows, active : BOOLEAN, set : SUBSET Settings]

CatalogInit ==
    /\ provider = "absent" /\ manual = {}
    /\ rows = [m \in Models |-> NoRow] /\ inserted = 0
    /\ jobs = [a \in Administrators |-> NoJob]
    /\ saves = 0 /\ starts = 0 /\ kept = {}

Does(a, at) == jobs[a].at = at
Free(a) == Does(a, "none") /\ starts < MaxStarts /\ starts' = starts + 1
Done(a) == jobs' = [jobs EXCEPT ![a] = NoJob]
Step_(a, m) == jobs' = [jobs EXCEPT ![a].left = @ \ {m}]

\* What an insert does to the row: none if there is one already.
Insert(a, m) ==
    /\ inserted < MaxRows
    /\ IF Present(m) THEN Done(a) /\ UNCHANGED <<rows, inserted>>
       ELSE /\ rows' = [rows EXCEPT ![m] = [id |-> inserted + 1, active |-> TRUE, set |-> {}]]
            /\ inserted' = inserted + 1
            /\ Step_(a, m)

\* UPDATE ... SET active WHERE id
SetActive(m, id, active) ==
    rows' = IF rows[m].id = id THEN [rows EXCEPT ![m].active = active] ELSE rows

-----------------------------------------------------------------------------
\* createProvider: the row of the provider, then one model after the other
CreateProvider(a, list, byHand) ==
    /\ Free(a) /\ provider = "absent"
    /\ provider' = "there" /\ manual' = byHand
    /\ jobs' = [jobs EXCEPT ![a] = [NoJob EXCEPT !.at = "insert", !.list = list \cup byHand,
                                                 !.left = list \cup byHand]]
    /\ UNCHANGED <<rows, inserted, saves, kept>>

\* refreshModels awaits the provider's answer: a failure changes no model.
StartRefresh(a) ==
    /\ Free(a) /\ provider = "there"
    /\ jobs' = [jobs EXCEPT ![a].at = "fetch"]
    /\ UNCHANGED <<provider, manual, rows, inserted, saves, kept>>

RefreshFails(a) ==
    /\ Does(a, "fetch")
    /\ Done(a)
    /\ UNCHANGED <<provider, manual, rows, inserted, saves, starts, kept>>

\* updateProvider writes the provider; with a test session the tested list
\* follows, and after it the manual models if they have changed.
UpdateProvider(a, tested, list, byHand) ==
    /\ Free(a) /\ provider = "there"
    /\ manual' = byHand
    /\ jobs' = [jobs EXCEPT ![a] = [NoJob EXCEPT
                    !.at = IF tested THEN "tested" ELSE "manual", !.list = list,
                    !.test = tested, !.then = byHand # manual, !.manual = byHand]]
    /\ UNCHANGED <<provider, rows, inserted, saves, kept>>

\* The rows of now and the provider's list: first the rows there are
ReadRows(a, list) ==
    /\ Does(a, "fetch") \/ (Does(a, "tested") /\ list = jobs[a].list)
    /\ jobs' = [jobs EXCEPT ![a].at = "prune", ![a].saw = rows, ![a].list = list,
                            ![a].left = {m \in Models : Present(m)}]
    /\ UNCHANGED <<provider, manual, rows, inserted, saves, starts, kept>>

\* A row that is not listed is switched to inactive, or deleted if it was not
\* configured when it was read; one that is listed and was inactive becomes active.
\* Only an update leaves a row it read as inactive alone.
PruneRow(a, m) ==
    /\ Does(a, "prune") /\ m \in jobs[a].left
    /\ LET row == jobs[a].saw[m] IN
       IF m \in jobs[a].list
       THEN IF row.active THEN UNCHANGED rows ELSE SetActive(m, row.id, TRUE)
       ELSE IF HasCustomConfig(row)
       THEN IF jobs[a].test /\ ~row.active THEN UNCHANGED rows
            ELSE SetActive(m, row.id, FALSE)
       ELSE rows' = IF rows[m].id = row.id THEN [rows EXCEPT ![m] = NoRow] ELSE rows
    /\ Step_(a, m)
    /\ UNCHANGED <<provider, manual, inserted, saves, starts, kept>>

\* then the listed models it saw no row of, or an inactive one
EndPrune(a) ==
    /\ Does(a, "prune") /\ jobs[a].left = {}
    /\ jobs' = [jobs EXCEPT ![a].at = "insert",
                            ![a].left = {m \in jobs[a].list : ~jobs[a].saw[m].active}]
    /\ UNCHANGED <<provider, manual, rows, inserted, saves, starts, kept>>

InsertRow(a, m) ==
    /\ Does(a, "insert") \/ Does(a, "by hand")
    /\ m \in jobs[a].left
    /\ IF Does(a, "insert") /\ jobs[a].saw[m] # NoRow
       THEN SetActive(m, jobs[a].saw[m].id, TRUE) /\ Step_(a, m) /\ UNCHANGED inserted
       ELSE Insert(a, m)
    /\ UNCHANGED <<provider, manual, saves, starts, kept>>

EndInsert(a) ==
    /\ Does(a, "insert") /\ jobs[a].left = {}
    /\ IF jobs[a].then THEN jobs' = [jobs EXCEPT ![a].at = "manual"] ELSE Done(a)
    /\ UNCHANGED <<provider, manual, rows, inserted, saves, starts, kept>>

\* The manual models that have no row yet
ReadManual(a) ==
    /\ Does(a, "manual")
    /\ IF jobs[a].then
       THEN jobs' = [jobs EXCEPT ![a].at = "by hand",
                                 ![a].left = {m \in jobs[a].manual : ~Present(m)}]
       ELSE Done(a)
    /\ UNCHANGED <<provider, manual, rows, inserted, saves, starts, kept>>

EndManual(a) ==
    /\ Does(a, "by hand") /\ jobs[a].left = {}
    /\ Done(a)
    /\ UNCHANGED <<provider, manual, rows, inserted, saves, starts, kept>>

\* deleteProvider: the provider, then its models
DeleteProvider(a) ==
    /\ Free(a) /\ provider = "there"
    /\ provider' = "deleted"
    /\ jobs' = [jobs EXCEPT ![a].at = "drop"]
    /\ UNCHANGED <<manual, rows, inserted, saves, kept>>

DeleteModels(a) ==
    /\ Does(a, "drop")
    /\ rows' = [m \in Models |-> NoRow] /\ kept' = {}
    /\ Done(a)
    /\ UNCHANGED <<provider, manual, inserted, saves, starts>>

\* A row some call has read as one to delete
Doomed(m) ==
    \E a \in Administrators :
        /\ Does(a, "prune") /\ m \in jobs[a].left \ jobs[a].list
        /\ jobs[a].saw[m].set \cap Custom = {}

\* updateModelConfig, or bulkUpdateModels with its transaction: one write each
SaveSettings_(chosen, set) ==
    /\ saves < MaxSaves /\ saves' = saves + 1
    /\ \E m \in chosen : Present(m)
    /\ rows' = [m \in Models |-> IF m \in chosen /\ Present(m)
                                 THEN [rows[m] EXCEPT !.set = set] ELSE rows[m]]
    /\ kept' = (kept \ chosen)
               \cup {m \in chosen : Present(m) /\ set \cap Custom # {} /\ ~Doomed(m)}
    /\ UNCHANGED <<provider, manual, inserted, jobs, starts>>

\* The server stops in the middle of every call; it starts with syncManualModels,
\* before it listens.
RestartServer ==
    /\ starts < MaxStarts /\ starts' = starts + 1
    /\ jobs' = [a \in Administrators |-> NoJob]
    /\ LET missing == IF provider = "there" THEN {m \in manual : ~Present(m)} ELSE {} IN
       /\ inserted + Cardinality(missing) <= MaxRows
       /\ inserted' = inserted + Cardinality(missing)
       /\ \E id \in [missing -> (inserted + 1)..inserted'] :
             /\ \A m, n \in missing : id[m] = id[n] => m = n
             /\ rows' = [m \in Models |-> IF m \in missing
                             THEN [id |-> id[m], active |-> TRUE, set |-> {}] ELSE rows[m]]
    /\ UNCHANGED <<provider, manual, saves, kept>>

CatalogNext ==
    \/ \E a \in Administrators :
          \/ \E list, byHand \in SUBSET Models :
                \/ CreateProvider(a, list, byHand)
                \/ \E tested \in BOOLEAN : UpdateProvider(a, tested, list, byHand)
          \/ \E list \in SUBSET Models : ReadRows(a, list)
          \/ \E m \in Models : PruneRow(a, m) \/ InsertRow(a, m)
          \/ StartRefresh(a) \/ RefreshFails(a) \/ EndPrune(a) \/ EndInsert(a)
          \/ ReadManual(a) \/ EndManual(a) \/ DeleteProvider(a) \/ DeleteModels(a)
    \/ \E chosen \in SUBSET Models, set \in SUBSET Settings : SaveSettings_(chosen, set)
    \/ RestartServer

CatalogSpec == CatalogInit /\ [][CatalogNext]_modelVars

-----------------------------------------------------------------------------
(* Properties.                                                               *)

\* The limits, prices and switches an operator saved for a model stay, however
\* the provider's list changes, comes back or fails to come, and whichever calls
\* overlap; only a call that had read the row before the save may delete it.
SettingsKept == \A m \in kept : rows[m].set \cap Custom # {}

-----------------------------------------------------------------------------
(* The cache of model aliases (utils/modelAlias.ts), for one model: lookups    *)
(* read provider_models and remember the alias for a while; an administrator    *)
(* who changes it makes the cache forget it (updateModelConfig and             *)
(* bulkUpdateModels of controllers/providerModelController.ts), and a refresh   *)
(* of the provider's models may delete the row.  A lookup awaits its query.     *)
(* Of the rows above it knows one column of one row, so its state is its own.   *)

CONSTANTS
    Lookers,
    KeptFor,          \* MODEL_ALIAS_CACHE_TTL_MS
    MaxNames, MaxTicks \* bounds: on aliases given, on the time

ASSUME KeptForAssumption == KeptFor \in Nat \ {0}
ASSUME AliasBoundsAssumption == MaxNames \in Nat /\ MaxTicks \in Nat

VARIABLES
    alias,      \* in the row: 0 is none, the others are numbered as they are given
    names,      \* number of aliases given
    cached,     \* the entry of the cache
    looking,    \* each lookup under way
    saving,     \* a save between its statements
    ticks,      \* the time
    lastTrue    \* history: when each alias was the one in the row, the last time

aliasVars == <<alias, names, cached, looking, saving, ticks, lastTrue>>

-----------------------------------------------------------------------------
\* missed: history, whether a save was under way or over when the entry was made
NoEntry == [alias |-> 0, expires |-> 0, missed |-> FALSE]
NotLooking == [at |-> "none", since |-> 0, alias |-> 0]

AliasTypeOK ==
    /\ alias \in 0..MaxNames /\ names \in 0..MaxNames /\ ticks \in 0..MaxTicks
    /\ cached \in [alias : 0..MaxNames, expires : 0..(MaxTicks + KeptFor), missed : BOOLEAN]
    /\ looking \in [Lookers -> [at : {"none", "query", "answered"}, since : 0..MaxTicks,
                                alias : 0..MaxNames]]
    /\ saving \in {"none", "one", "bulk"}

AliasInit ==
    /\ alias = 0 /\ names = 0 /\ cached = NoEntry
    /\ looking = [l \in Lookers |-> NotLooking]
    /\ saving = "none" /\ ticks = 0
    /\ lastTrue = [v \in 0..MaxNames |-> 0]

Alive == cached.expires > ticks

Becomes(v) == alias' = v /\ lastTrue' = [lastTrue EXCEPT ![v] = ticks]

-----------------------------------------------------------------------------
\* resolveModelAlias: from the cache, or by a query whose answer it stores.
Lookup(l) ==
    /\ looking[l].at = "none" /\ ~Alive
    /\ looking' = [looking EXCEPT ![l] = [at |-> "query", since |-> ticks, alias |-> 0]]
    /\ UNCHANGED <<alias, names, cached, saving, ticks, lastTrue>>

QueryAnswers(l) ==
    /\ looking[l].at = "query"
    /\ looking' = [looking EXCEPT ![l].at = "answered", ![l].alias = alias]
    /\ UNCHANGED <<alias, names, cached, saving, ticks, lastTrue>>

\* Mutant: the entry is kept from the moment it is stored.
StoreLate(l) ==
    /\ looking[l].at = "answered"
    /\ cached' = [alias |-> looking[l].alias, expires |-> ticks + KeptFor,
                  missed |-> saving # "none" \/ looking[l].alias # alias]
    /\ looking' = [looking EXCEPT ![l] = NotLooking]
    /\ UNCHANGED <<alias, names, saving, ticks, lastTrue>>

\* The time is the one read before the query.
Store(l) ==
    /\ looking[l].at = "answered"
    /\ cached' = [alias |-> looking[l].alias, expires |-> looking[l].since + KeptFor,
                  missed |-> saving # "none" \/ looking[l].alias # alias]
    /\ looking' = [looking EXCEPT ![l] = NotLooking]
    /\ UNCHANGED <<alias, names, saving, ticks, lastTrue>>

\* updateModelConfig writes the row, then clears the entry.
SaveAlias ==
    /\ saving = "none" /\ names < MaxNames
    /\ names' = names + 1 /\ Becomes(names + 1)
    /\ saving' = "one"
    /\ UNCHANGED <<cached, looking, ticks>>

ClearAfterSave ==
    /\ saving = "one"
    /\ cached' = NoEntry /\ saving' = "none"
    /\ UNCHANGED <<alias, names, looking, ticks, lastTrue>>

\* bulkUpdateModels clears it inside the transaction: the others see the new
\* alias when it commits, later.
ClearInBulk ==
    /\ saving = "none" /\ names < MaxNames
    /\ cached' = NoEntry /\ saving' = "bulk"
    /\ UNCHANGED <<alias, names, looking, ticks, lastTrue>>

CommitBulk ==
    /\ saving = "bulk"
    /\ names' = names + 1 /\ Becomes(names + 1)
    /\ saving' = "none"
    /\ UNCHANGED <<cached, looking, ticks>>

\* A refresh deletes the row of a model its provider no longer lists; the cache
\* is not told.
DeleteModelRow ==
    /\ alias # 0
    /\ Becomes(0)
    /\ cached' = [cached EXCEPT !.missed = TRUE]
    /\ UNCHANGED <<names, looking, saving, ticks>>

TimeGoesOn ==
    /\ ticks < MaxTicks
    /\ ticks' = ticks + 1
    /\ lastTrue' = [lastTrue EXCEPT ![alias] = ticks + 1]
    /\ UNCHANGED <<alias, names, cached, looking, saving>>

AliasNext ==
    \/ \E l \in Lookers : Lookup(l) \/ QueryAnswers(l) \/ Store(l)
    \/ SaveAlias \/ ClearAfterSave \/ ClearInBulk \/ CommitBulk
    \/ DeleteModelRow \/ TimeGoesOn

AliasSpec == AliasInit /\ [][AliasNext]_aliasVars

-----------------------------------------------------------------------------
(* Properties.                                                               *)

\* What the cache answers was the model's alias less than KeptFor ago, however
\* long a query takes and whatever save it overlaps; and unless a save or the
\* deletion of the row met a lookup, it is the alias of now.
AliasFresh ==
    Alive => /\ ticks - lastTrue[cached.alias] < KeptFor
             /\ cached.alias = alias \/ cached.missed \/ saving = "one"

=============================================================================
