------------------------ MODULE AdministrationProofs ------------------------
(***************************************************************************)
(* The data an administrator keeps in the server, for any providers, keys,     *)
(* users, groups, callers and lookups: the cache of aliases is never older      *)
(* than it may be, the rebuild of the table of providers loses nothing, the      *)
(* accounts stay consistent, the loop guard stops a conversation exactly when     *)
(* its turns are a reason to, a server that is set up stays so, and the         *)
(* settings of a model last as long as the provider offers it.                 *)
(***************************************************************************)
EXTENDS ProviderTable, Accounts, LoopGuard, FirstSetup, ModelCatalog, FiniteSetTheorems,
        TLAPS

-----------------------------------------------------------------------------
(* The cache of aliases                                                                *)

Entries == [alias : 0..MaxNames, expires : 0..(MaxTicks + KeptFor), missed : BOOLEAN]
LookRecords == [at : {"none", "query", "answered"}, since : 0..MaxTicks, alias : 0..MaxNames]

AliasTypes ==
    /\ AliasTypeOK
    /\ lastTrue \in [0..MaxNames -> 0..MaxTicks]

\* The alias of now is true now, and whatever is remembered of another was true no earlier than
\* the moment its lookup began.
AliasTimes ==
    /\ lastTrue[alias] = ticks
    /\ \A v \in 0..MaxNames : lastTrue[v] <= ticks
    /\ \A l \in Lookers : /\ looking[l].since <= ticks
                          /\ looking[l].at = "answered" =>
                               looking[l].since <= lastTrue[looking[l].alias]
    /\ cached.expires <= lastTrue[cached.alias] + KeptFor

\* An entry that differs from the row has met a save, or the clearing of it is to come.
AliasMet ==
    /\ cached.alias = alias \/ cached.missed \/ saving = "one" \/ cached.expires = 0
    /\ saving = "bulk" => /\ names < MaxNames
                          /\ cached.missed \/ cached.expires = 0

AliasInv == AliasTypes /\ AliasTimes /\ AliasMet

LEMMA AliasBegins == AliasInit => AliasInv
<1> SUFFICES ASSUME AliasInit PROVE AliasInv
  OBVIOUS
<1> USE DEF AliasInit, NoEntry, NotLooking
<1>1. AliasTypes
  BY KeptForAssumption, AliasBoundsAssumption DEF AliasTypes, AliasTypeOK
<1>2. AliasTimes
  BY KeptForAssumption, AliasBoundsAssumption DEF AliasTimes
<1>3. AliasMet
  BY DEF AliasMet
<1> QED
  BY <1>1, <1>2, <1>3 DEF AliasInv

\* The times of all that is remembered only grow, so what held of them holds on.
LEMMA LookupKeeps ==
  ASSUME AliasInv, NEW l \in Lookers, Lookup(l) \/ QueryAnswers(l) \/ Store(l)
  PROVE  AliasInv'
<1> USE KeptForAssumption, AliasBoundsAssumption
<1>1. /\ AliasTypes /\ AliasTimes /\ AliasMet
      /\ alias \in 0..MaxNames /\ ticks \in 0..MaxTicks /\ names \in 0..MaxNames
      /\ looking[l] \in LookRecords /\ looking \in [Lookers -> LookRecords]
      /\ cached \in Entries /\ lastTrue \in [0..MaxNames -> 0..MaxTicks]
  BY DEF AliasInv, AliasTypes, AliasTypeOK, Entries, LookRecords
<1>2. CASE Lookup(l)
  <2> USE <1>2 DEF Lookup
  <2>1. AliasTypes'
    BY <1>1 DEF AliasTypes, AliasTypeOK
  <2>2. AliasTimes'
    BY <1>1 DEF AliasTimes, LookRecords
  <2>3. AliasMet'
    BY <1>1 DEF AliasMet
  <2> QED
    BY <2>1, <2>2, <2>3 DEF AliasInv
<1>3. CASE QueryAnswers(l)
  <2> USE <1>3 DEF QueryAnswers
  <2>1. AliasTypes'
    BY <1>1 DEF AliasTypes, AliasTypeOK
  <2>2. AliasTimes'
    BY <1>1 DEF AliasTimes, LookRecords
  <2>3. AliasMet'
    BY <1>1 DEF AliasMet
  <2> QED
    BY <2>1, <2>2, <2>3 DEF AliasInv
<1>4. CASE Store(l)
  <2> USE <1>4 DEF Store
  <2>1. looking[l].since + KeptFor \in 0..(MaxTicks + KeptFor)
    BY <1>1 DEF LookRecords
  <2>2. cached' \in Entries
    BY <1>1, <2>1 DEF LookRecords, Entries
  <2>3. AliasTypes'
    BY <1>1, <2>2 DEF AliasTypes, AliasTypeOK, Entries, NotLooking
  <2>4. AliasTimes'
    <3>1. looking[l].at = "answered" /\ looking[l].since \in Nat
      BY <1>1 DEF LookRecords
    <3>2. looking[l].since <= lastTrue[looking[l].alias] /\ looking[l].alias \in 0..MaxNames
      BY <1>1, <3>1 DEF AliasTimes, LookRecords
    <3>3. cached'.expires <= lastTrue'[cached'.alias] + KeptFor
      BY <1>1, <3>1, <3>2
    <3>4. \A k \in Lookers : looking'[k] = looking[k] \/ looking'[k] = NotLooking
      BY <1>1
    <3>5. \A k \in Lookers : /\ looking'[k].since <= ticks'
                             /\ looking'[k].at = "answered" =>
                                  looking'[k].since <= lastTrue'[looking'[k].alias]
      BY <1>1, <3>4 DEF AliasTimes, NotLooking
    <3> QED
      BY <1>1, <3>3, <3>5 DEF AliasTimes
  <2>5. AliasMet'
    BY <1>1 DEF AliasMet, LookRecords
  <2> QED
    BY <2>3, <2>4, <2>5 DEF AliasInv
<1> QED
  BY <1>2, <1>3, <1>4

LEMMA SaveKeeps ==
  ASSUME AliasInv,
         SaveAlias \/ ClearAfterSave \/ ClearInBulk \/ CommitBulk \/ DeleteModelRow \/ TimeGoesOn
  PROVE  AliasInv'
<1> USE KeptForAssumption, AliasBoundsAssumption
<1>1. /\ AliasTypes /\ AliasTimes /\ AliasMet
      /\ alias \in 0..MaxNames /\ ticks \in 0..MaxTicks /\ names \in 0..MaxNames
      /\ looking \in [Lookers -> LookRecords]
      /\ cached \in Entries /\ lastTrue \in [0..MaxNames -> 0..MaxTicks]
  BY DEF AliasInv, AliasTypes, AliasTypeOK, Entries, LookRecords
<1>2. CASE SaveAlias
  <2> USE <1>2 DEF SaveAlias, Becomes
  <2>1. AliasTypes'
    BY <1>1 DEF AliasTypes, AliasTypeOK
  <2>2. AliasTimes'
    BY <1>1 DEF AliasTimes, LookRecords, Entries
  <2>3. AliasMet'
    BY <1>1 DEF AliasMet
  <2> QED
    BY <2>1, <2>2, <2>3 DEF AliasInv
<1>3. CASE ClearAfterSave
  <2> USE <1>3 DEF ClearAfterSave, NoEntry
  <2>1. AliasTypes'
    BY <1>1 DEF AliasTypes, AliasTypeOK
  <2>2. AliasTimes'
    BY <1>1 DEF AliasTimes, LookRecords, Entries
  <2>3. AliasMet'
    BY <1>1 DEF AliasMet
  <2> QED
    BY <2>1, <2>2, <2>3 DEF AliasInv
<1>4. CASE ClearInBulk
  <2> USE <1>4 DEF ClearInBulk, NoEntry
  <2>1. AliasTypes'
    BY <1>1 DEF AliasTypes, AliasTypeOK
  <2>2. AliasTimes'
    BY <1>1 DEF AliasTimes, LookRecords, Entries
  <2>3. AliasMet'
    BY <1>1 DEF AliasMet
  <2> QED
    BY <2>1, <2>2, <2>3 DEF AliasInv
<1>5. CASE CommitBulk
  <2> USE <1>5 DEF CommitBulk, Becomes
  <2>0. names < MaxNames
    BY <1>1 DEF AliasMet
  <2>1. AliasTypes'
    BY <1>1, <2>0 DEF AliasTypes, AliasTypeOK
  <2>2. AliasTimes'
    BY <1>1, <2>0 DEF AliasTimes, LookRecords, Entries
  <2>3. AliasMet'
    BY <1>1 DEF AliasMet
  <2> QED
    BY <2>1, <2>2, <2>3 DEF AliasInv
<1>6. CASE DeleteModelRow
  <2> USE <1>6 DEF DeleteModelRow, Becomes
  <2>0. cached' \in Entries /\ lastTrue' \in [0..MaxNames -> 0..MaxTicks]
    BY <1>1 DEF Entries
  <2>1. AliasTypes'
    BY <1>1, <2>0 DEF AliasTypes, AliasTypeOK, Entries
  <2>2. AliasTimes'
    BY <1>1 DEF AliasTimes, LookRecords, Entries
  <2>3. AliasMet'
    BY <1>1 DEF AliasMet, Entries
  <2> QED
    BY <2>1, <2>2, <2>3 DEF AliasInv
<1>7. CASE TimeGoesOn
  <2> USE <1>7 DEF TimeGoesOn
  <2>1. AliasTypes'
    BY <1>1 DEF AliasTypes, AliasTypeOK
  <2>2. AliasTimes'
    BY <1>1 DEF AliasTimes, LookRecords, Entries
  <2>3. AliasMet'
    BY <1>1 DEF AliasMet
  <2> QED
    BY <2>1, <2>2, <2>3 DEF AliasInv
<1> QED
  BY <1>2, <1>3, <1>4, <1>5, <1>6, <1>7

\* The inductive invariant of the cache of aliases: what it remembers was true no earlier than
\* the lookup that stored it began (utils/modelAlias.ts).
THEOREM AliasInvariant == AliasSpec => []AliasInv
<1>1. AliasInv /\ [AliasNext]_aliasVars => AliasInv'
  <2> SUFFICES ASSUME AliasInv, [AliasNext]_aliasVars PROVE AliasInv'
    OBVIOUS
  <2>1. CASE AliasNext
    BY <2>1, LookupKeeps, SaveKeeps DEF AliasNext
  <2>2. CASE UNCHANGED aliasVars
    BY <2>2 DEF aliasVars, AliasInv, AliasTypes, AliasTypeOK, AliasTimes, AliasMet
  <2> QED
    BY <2>1, <2>2
<1> QED
  BY <1>1, AliasBegins, PTL DEF AliasSpec

\* What the cache answers was the model's alias less than its time to live ago, and is the alias
\* of now unless a save or the deletion of the row met the lookup: for any number of lookups.
THEOREM AliasesAreFresh == AliasSpec => []AliasFresh
<1>1. AliasInv => AliasFresh
  <2> SUFFICES ASSUME AliasInv PROVE AliasFresh
    OBVIOUS
  <2>1. /\ ticks \in 0..MaxTicks /\ cached \in Entries
        /\ lastTrue[cached.alias] \in 0..MaxTicks
        /\ cached.expires <= lastTrue[cached.alias] + KeptFor
        /\ AliasMet
    BY DEF AliasInv, AliasTypes, AliasTypeOK, AliasTimes, Entries
  <2> QED
    BY <2>1, KeptForAssumption DEF AliasFresh, Alive, AliasMet, Entries
<1> QED
  BY <1>1, AliasInvariant, PTL

-----------------------------------------------------------------------------
(* ProviderTable                                                             *)

Full(t) == t.exists /\ t.columns = {} /\ t.rows = Providers

\* Where the rows are: the table is whole or gone, and when it is gone its copy is whole.
RowsSomewhere ==
    /\ providers.exists => providers.rows = Providers
    /\ ~providers.exists => /\ Full(rebuilt) /\ providers.columns = {}
                            /\ boot \notin {"copy", "create", "fill", "drop", "up"}
    /\ boot = "fill" => rebuilt.exists /\ rebuilt.columns = {}
    /\ boot \in {"drop", "rename"} => Full(rebuilt)
    /\ boot = "rename" => ~providers.exists
    /\ boot = "up" => providers.columns = {}

\* Where the keys are: in the pool, in a column, or about to be copied from one.
KeysSomewhere ==
    /\ \A pk \in Providers \X Keys : pool[pk] <= 1
    /\ ~caught => /\ \A pk \in LegacyKeys(Columns) : pool[pk] > 0 \/ InSomeColumn(pk)
                  /\ boot = "auto" => providers.columns = {}
                  /\ boot = "copy" =>
                       \A pk \in LegacyKeys(providers.columns) : pool[pk] > 0 \/ pk \in todo
                  /\ boot \in {"create", "fill", "drop"} =>
                       \A pk \in LegacyKeys(providers.columns) : pool[pk] > 0

CatalogInv == TableTypeOK /\ RowsSomewhere /\ KeysSomewhere

LEMMA CatalogBegins == TableInit => CatalogInv
<1> SUFFICES ASSUME TableInit PROVE CatalogInv
  OBVIOUS
<1>1. TableTypeOK
  <2>1. pool \in [Providers \X Keys -> Nat]
    BY DEF TableInit
  <2>2. /\ legacy \in [Providers -> [Columns -> Keys \cup {NoKey}]]
        /\ boot \in Phases /\ todo \subseteq Providers \X Keys /\ caught \in BOOLEAN
    BY DEF TableInit, Phases
  <2>3. /\ providers \in [exists : BOOLEAN, columns : SUBSET Columns, rows : SUBSET Providers]
        /\ rebuilt \in [exists : BOOLEAN, columns : SUBSET Columns, rows : SUBSET Providers]
    BY DEF TableInit, NoTable
  <2>4. crashes \in 0..MaxCrashes /\ failures \in 0..MaxFailures
    BY BoundsAssumption DEF TableInit
  <2> QED
    BY <2>1, <2>2, <2>3, <2>4 DEF TableTypeOK
<1>2. RowsSomewhere
  BY DEF TableInit, RowsSomewhere
<1>3. KeysSomewhere
  <2>1. \A pk \in Providers \X Keys : pool[pk] \in {0, 1}
    BY DEF TableInit
  <2> QED
    BY <2>1 DEF TableInit, KeysSomewhere, InSomeColumn
<1> QED
  BY <1>1, <1>2, <1>3 DEF CatalogInv

LEMMA KeysOfFewer ==
  ASSUME NEW S, NEW T, S \subseteq T
  PROVE  LegacyKeys(S) \subseteq LegacyKeys(T)
  BY DEF LegacyKeys

LEMMA KeysOfNone == LegacyKeys({}) = {}
  BY DEF LegacyKeys

\* The columns of the old table hold no other keys than those of all columns.
LEMMA ColumnedIsLegacy ==
  ASSUME TableTypeOK
  PROVE  LegacyKeys(providers.columns) \subseteq LegacyKeys(Columns)
  BY KeysOfFewer DEF TableTypeOK

\* The steps up to the rebuild leave the tables alone.
LEMMA KeyStepKeeps ==
  ASSUME CatalogInv, StartServer \/ ReadLegacy \/ CopyKey \/ DropLeftover
  PROVE  CatalogInv'
<1> USE BoundsAssumption
<1>1. TableTypeOK /\ RowsSomewhere /\ KeysSomewhere
  BY DEF CatalogInv
<1>2. CASE StartServer
  <2> USE <1>2 DEF StartServer
  <2>1. TableTypeOK'
    BY <1>1 DEF TableTypeOK, Phases, Migrating
  <2>2. RowsSomewhere'
    BY <1>1 DEF RowsSomewhere, Full
  <2>3. KeysSomewhere'
    BY <1>1 DEF KeysSomewhere, InSomeColumn, LegacyKeys
  <2> QED
    BY <2>1, <2>2, <2>3 DEF CatalogInv
<1>3. CASE ReadLegacy
  <2> USE <1>3 DEF ReadLegacy
  <2>0. LegacyKeys(providers.columns) \subseteq Providers \X Keys
    BY DEF LegacyKeys
  <2>1. TableTypeOK'
    BY <1>1, <2>0 DEF TableTypeOK, Phases, Migrating
  <2>2. RowsSomewhere'
    BY <1>1 DEF RowsSomewhere, Full
  <2>3. KeysSomewhere'
    <3>1. /\ LegacyKeys(Columns)' = LegacyKeys(Columns)
          /\ LegacyKeys(providers.columns)' = LegacyKeys(providers.columns)
          /\ \A pk : InSomeColumn(pk)' <=> InSomeColumn(pk)
      BY DEF LegacyKeys, InSomeColumn
    <3>2. boot' = "auto" => providers.columns = {}
      BY <1>1 DEF RowsSomewhere
    <3> QED
      BY <1>1, <3>1, <3>2 DEF KeysSomewhere
  <2> QED
    BY <2>1, <2>2, <2>3 DEF CatalogInv
<1>4. CASE CopyKey
  <2> PICK pk \in todo : pool' = WithKey(pk) /\ todo' = todo \ {pk}
    BY <1>4 DEF CopyKey
  <2> USE <1>4 DEF CopyKey
  <2>0. /\ pool \in [Providers \X Keys -> Nat] /\ pk \in Providers \X Keys
        /\ \A x \in Providers \X Keys : pool[x] <= 1
    BY <1>1 DEF TableTypeOK, KeysSomewhere
  <2>1. /\ pool' \in [Providers \X Keys -> Nat]
        /\ \A x \in Providers \X Keys : pool'[x] <= 1 /\ (pool[x] > 0 => pool'[x] > 0)
        /\ pool'[pk] > 0
    BY <2>0 DEF WithKey
  <2>2. TableTypeOK'
    BY <1>1, <2>1 DEF TableTypeOK
  <2>3. RowsSomewhere'
    BY <1>1 DEF RowsSomewhere, Full
  <2>4. KeysSomewhere'
    <3>1. /\ LegacyKeys(Columns)' = LegacyKeys(Columns)
          /\ LegacyKeys(providers.columns)' = LegacyKeys(providers.columns)
          /\ \A x : InSomeColumn(x)' <=> InSomeColumn(x)
          /\ LegacyKeys(Columns) \subseteq Providers \X Keys
          /\ LegacyKeys(providers.columns) \subseteq Providers \X Keys
      BY DEF LegacyKeys, InSomeColumn
    <3> QED
      BY <1>1, <2>1, <3>1 DEF KeysSomewhere
  <2> QED
    BY <2>2, <2>3, <2>4 DEF CatalogInv
<1>5. CASE DropLeftover
  <2> USE <1>5 DEF DropLeftover
  <2>1. TableTypeOK'
    BY <1>1 DEF TableTypeOK, Phases, Migrating, NoTable
  <2>2. RowsSomewhere'
    BY <1>1 DEF RowsSomewhere, Full
  <2>3. KeysSomewhere'
    BY <1>1 DEF KeysSomewhere, InSomeColumn, LegacyKeys
  <2> QED
    BY <2>1, <2>2, <2>3 DEF CatalogInv
<1> QED
  BY <1>2, <1>3, <1>4, <1>5

\* The rebuild
LEMMA RebuildKeeps ==
  ASSUME CatalogInv, CreateRebuilt \/ FillRebuilt \/ DropProviders \/ RenameRebuilt
  PROVE  CatalogInv'
<1> USE BoundsAssumption
<1>1. TableTypeOK /\ RowsSomewhere /\ KeysSomewhere
  BY DEF CatalogInv
<1>2. CASE CreateRebuilt
  <2> USE <1>2 DEF CreateRebuilt
  <2>1. TableTypeOK'
    BY <1>1 DEF TableTypeOK, Phases, Migrating
  <2>2. RowsSomewhere'
    BY <1>1 DEF RowsSomewhere, Full
  <2>3. KeysSomewhere'
    BY <1>1 DEF KeysSomewhere, InSomeColumn, LegacyKeys
  <2> QED
    BY <2>1, <2>2, <2>3 DEF CatalogInv
<1>3. CASE FillRebuilt
  <2> USE <1>3 DEF FillRebuilt
  <2>1. TableTypeOK'
    BY <1>1 DEF TableTypeOK, Phases, Migrating
  <2>2. RowsSomewhere'
    <3>1. rebuilt' = [exists |-> rebuilt.exists, columns |-> rebuilt.columns, rows |-> providers.rows]
      BY <1>1 DEF TableTypeOK
    <3> QED
      BY <1>1, <3>1 DEF RowsSomewhere, Full
  <2>3. KeysSomewhere'
    BY <1>1 DEF KeysSomewhere, InSomeColumn, LegacyKeys
  <2> QED
    BY <2>1, <2>2, <2>3 DEF CatalogInv
<1>4. CASE DropProviders
  <2> USE <1>4 DEF DropProviders
  <2>1. TableTypeOK'
    BY <1>1 DEF TableTypeOK, Phases, Migrating, NoTable
  <2>2. RowsSomewhere'
    BY <1>1 DEF RowsSomewhere, Full, NoTable
  <2>3. KeysSomewhere'
    <3>1. LegacyKeys(Columns)' = LegacyKeys(Columns)
      BY DEF LegacyKeys
    <3>2. ~caught => \A pk \in LegacyKeys(Columns) : pool[pk] > 0
      BY <1>1 DEF KeysSomewhere, InSomeColumn
    <3> QED
      BY <1>1, <3>1, <3>2 DEF KeysSomewhere
  <2> QED
    BY <2>1, <2>2, <2>3 DEF CatalogInv
<1>5. CASE RenameRebuilt
  <2> USE <1>5 DEF RenameRebuilt
  <2>1. TableTypeOK'
    BY <1>1 DEF TableTypeOK, Phases, Migrating, NoTable
  <2>2. RowsSomewhere'
    BY <1>1 DEF RowsSomewhere, Full
  <2>3. KeysSomewhere'
    <3>1. LegacyKeys(Columns)' = LegacyKeys(Columns)
      BY DEF LegacyKeys
    <3>2. ~caught => \A pk \in LegacyKeys(Columns) : pool[pk] > 0
      BY <1>1 DEF KeysSomewhere, RowsSomewhere, InSomeColumn
    <3>3. providers'.columns = {}
      BY <1>1 DEF RowsSomewhere, Full
    <3> QED
      BY <1>1, <3>1, <3>2, <3>3 DEF KeysSomewhere
  <2> QED
    BY <2>1, <2>2, <2>3 DEF CatalogInv
<1> QED
  BY <1>2, <1>3, <1>4, <1>5

\* The rest of the start, its failures and its ends
LEMMA StartKeeps ==
  ASSUME CatalogInv, MigrationFails \/ DropColumn \/ ServerUp \/ StartGivenUp \/ Crash
  PROVE  CatalogInv'
<1> USE BoundsAssumption
<1>1. TableTypeOK /\ RowsSomewhere /\ KeysSomewhere
  BY DEF CatalogInv
<1>2. CASE MigrationFails
  <2> USE <1>2 DEF MigrationFails
  <2>1. TableTypeOK'
    BY <1>1 DEF TableTypeOK, Phases
  <2>2. RowsSomewhere'
    BY <1>1 DEF RowsSomewhere, Full
  <2>3. KeysSomewhere'
    BY <1>1 DEF KeysSomewhere
  <2> QED
    BY <2>1, <2>2, <2>3 DEF CatalogInv
<1>3. CASE DropColumn
  <2> PICK c \in providers.columns : providers' = [providers EXCEPT !.columns = @ \ {c}]
    BY <1>3 DEF DropColumn
  <2> USE <1>3 DEF DropColumn
  <2>0. providers' = [exists |-> TRUE, columns |-> providers.columns \ {c}, rows |-> Providers]
    BY <1>1 DEF TableTypeOK, RowsSomewhere
  <2>1. TableTypeOK'
    BY <1>1, <2>0 DEF TableTypeOK
  <2>2. RowsSomewhere'
    BY <1>1, <2>0 DEF RowsSomewhere, Full
  <2>3. KeysSomewhere'
    <3>1. caught
      BY <1>1 DEF KeysSomewhere
    <3> QED
      BY <1>1, <3>1 DEF KeysSomewhere
  <2> QED
    BY <2>1, <2>2, <2>3 DEF CatalogInv
<1>4. CASE ServerUp \/ StartGivenUp \/ Crash
  <2> USE <1>4 DEF ServerUp, StartGivenUp, Crash
  <2>1. TableTypeOK'
    BY <1>1 DEF TableTypeOK, Phases
  <2>2. RowsSomewhere'
    BY <1>1 DEF RowsSomewhere, Full
  <2>3. KeysSomewhere'
    <3>1. LegacyKeys(Columns)' = LegacyKeys(Columns) /\ \A x : InSomeColumn(x)' <=> InSomeColumn(x)
      BY DEF LegacyKeys, InSomeColumn
    <3> QED
      BY <1>1, <3>1 DEF KeysSomewhere
  <2> QED
    BY <2>1, <2>2, <2>3 DEF CatalogInv
<1> QED
  BY <1>2, <1>3, <1>4

\* The inductive invariant of the start on an old database: where the rows and the keys are in
\* each of its phases (migrateAndDropLegacyProviderKeyColumns, runAutoMigrations).
THEOREM CatalogInvariant == TableSpec => []CatalogInv
<1>1. CatalogInv /\ [TableNext]_tableVars => CatalogInv'
  <2> SUFFICES ASSUME CatalogInv, [TableNext]_tableVars PROVE CatalogInv'
    OBVIOUS
  <2>1. CASE TableNext
    BY <2>1, KeyStepKeeps, RebuildKeeps, StartKeeps DEF TableNext
  <2>2. CASE UNCHANGED tableVars
    BY <2>2 DEF tableVars, CatalogInv, TableTypeOK, RowsSomewhere, KeysSomewhere, Full,
                InSomeColumn, LegacyKeys
  <2> QED
    BY <2>1, <2>2
<1> QED
  BY <1>1, CatalogBegins, PTL DEF TableSpec

\* No crash and no failed statement of the rebuild loses a provider; one that failed loses no
\* key unless its error was caught; and no key comes into the pool twice.
THEOREM CatalogIsKept == TableSpec => []CatalogKept
<1>1. CatalogInv => CatalogKept
  <2> SUFFICES ASSUME CatalogInv PROVE CatalogKept
    OBVIOUS
  <2>1. TableTypeOK /\ RowsSomewhere /\ KeysSomewhere
    BY DEF CatalogInv
  <2>2. \/ providers.exists /\ providers.rows = Providers
        \/ rebuilt.exists /\ rebuilt.rows = Providers
    BY <2>1 DEF RowsSomewhere, Full
  <2>3. boot = "up" => providers = [exists |-> TRUE, columns |-> {}, rows |-> Providers]
    BY <2>1 DEF RowsSomewhere, TableTypeOK
  <2> QED
    BY <2>1, <2>2, <2>3 DEF CatalogKept, KeysSomewhere
<1> QED
  BY <1>1, CatalogInvariant, PTL

-----------------------------------------------------------------------------
(* Accounts                                                                  *)

AtMostOne(S) == \A x, y \in S : x = y

\* The memberships of a user the repair leaves
Left(u) == {g \in Groups : <<u, g>> \in members \ surplus}

AccountTypes ==
    /\ AccountTypeOK
    /\ keys \in [Users -> Seq(KeyStatus)]

\* What a handler knows at a statement from those before it
CallsOK ==
    \A c \in Callers :
        /\ calls[c].op = "register" /\ calls[c].at = "write" => calls[c].used < MaxUses
        /\ calls[c].op = "deleteGroup" /\ calls[c].at = "write" => calls[c].group # DefaultGroup
        /\ calls[c].op = "deleteUser" /\ calls[c].at = "write" => users[calls[c].user] # "absent"
        /\ calls[c].op = "addMember" /\ calls[c].at = "clear" => calls[c].group \notin calls[c].saw
        /\ calls[c].op = "patchUser" => calls[c].status # "revoked"

\* The repair leaves one membership of each user, then the index keeps it so.
Exclusive ==
    /\ indexed => \A u \in Users : AtMostOne(GroupsOf(u))
    /\ stage = "up" => indexed /\ surplus = {}
    /\ stage = "index" => \A u \in Users : AtMostOne(Left(u)) /\ (GroupsOf(u) # {} => Left(u) # {})

\* A call that is about to give its user a group: it does, whatever the others do.
Joins(c) ==
    \/ calls[c].op = "addMember" /\ calls[c].at = "write" /\ calls[c].group \notin calls[c].saw
    \/ calls[c].op = "createUser" /\ calls[c].at = "join"

Belongs(u) ==
    \/ users[u] = "absent" \/ u \in excused \/ GroupsOf(u) # {}
    \/ \E c \in Callers : Joins(c) /\ calls[c].user = u

Belonging == \A u \in Users : Belongs(u)

\* The keys of a user whose calls did not overlap, and the one call about them
KeysOf(u) ==
    /\ AtMostOne(AboutKeysOf(u))
    /\ AtMostOne(Unrevoked(u))
    /\ \A c \in AboutKeysOf(u) :
          /\ calls[c].op = "createKey" /\ calls[c].at = "write" => Unrevoked(u) = {}
          /\ calls[c].op = "patchKey" /\ calls[c].at = "write" =>
               calls[c].status = "revoked" \/ calls[c].key \in Unrevoked(u)

KeysOK == \A u \in Users \ clashed : KeysOf(u)

AccountInv == AccountTypes /\ CallsOK /\ Exclusive /\ Belonging /\ KeysOK

LEMMA OneAtMost ==
  ASSUME NEW S, AtMostOne(S)
  PROVE  Cardinality(S) <= 1
<1>1. CASE S = {}
  <2>1. Cardinality({}) = 0
    BY FS_EmptySet
  <2> QED
    BY <1>1, <2>1
<1>2. CASE S # {}
  <2>1. PICK x : x \in S
    BY <1>2
  <2>2. S = {x}
    BY <2>1 DEF AtMostOne
  <2>3. Cardinality({x}) = 1
    BY FS_Singleton
  <2> QED
    BY <2>2, <2>3
<1> QED
  BY <1>1, <1>2

LEMMA RestingIsCall == Resting \in Call
<1>1. (CHOOSE u \in Users : TRUE) \in Users
  BY CountsAssumption
<1>2. 1 \in 1..MaxKeys /\ 0 \in 0..MaxUses
  BY CountsAssumption
<1> QED
  BY <1>1, <1>2, DefaultAssumption DEF Resting, Call, Ops, KeyStatus

LEMMA AccountsBegin == AccountInit => AccountInv
<1> SUFFICES ASSUME AccountInit PROVE AccountInv
  OBVIOUS
<1>1. AccountTypes
  <2>1. calls \in [Callers -> Call]
    BY RestingIsCall DEF AccountInit
  <2>2. keys \in [Users -> Seq(KeyStatus)] /\ \A u \in Users : keys[u] = <<>>
    BY DEF AccountInit
  <2>3. invite \in [used : 0..MaxUses, active : BOOLEAN]
    BY CountsAssumption DEF AccountInit
  <2>4. \A u \in Users : Len(keys[u]) <= MaxKeys /\ DOMAIN keys[u] = {}
    BY <2>2, CountsAssumption
  <2>5. /\ users \in [Users -> {"absent", "active", "disabled", "deleted"}]
        /\ groups \subseteq Groups /\ DefaultGroup \in groups
        /\ members \subseteq Users \X Groups /\ indexed \in BOOLEAN
        /\ stage \in {"repair", "index", "up"} /\ surplus \subseteq members
    BY DefaultAssumption DEF AccountInit
  <2> QED
    BY <2>1, <2>2, <2>3, <2>4, <2>5 DEF AccountTypes, AccountTypeOK
<1>2. CallsOK
  BY DEF AccountInit, CallsOK, Resting
<1>3. Exclusive
  BY DEF AccountInit, Exclusive
<1>4. Belonging
  BY DEF AccountInit, Belonging, Belongs
<1>5. KeysOK
  BY DEF AccountInit, KeysOK, KeysOf, AtMostOne, AboutKeysOf, Unrevoked, Resting, KeyOps
<1> QED
  BY <1>1, <1>2, <1>3, <1>4, <1>5 DEF AccountInv

-----------------------------------------------------------------------------
(* What a step of one call leaves as it was                                   *)

\* One call takes its next statement, or ends.
Moves(c, x) == calls' = [calls EXCEPT ![c] = x]

LEMMA GoesMoves ==
  ASSUME AccountInv, NEW c \in Callers, NEW at \in {"read", "check", "clear", "write", "join"},
         Goes(c, at)
  PROVE  /\ calls' \in [Callers -> Call]
         /\ calls'[c].op = calls[c].op /\ calls'[c].at = at /\ calls'[c].user = calls[c].user
         /\ calls'[c].group = calls[c].group /\ calls'[c].saw = calls[c].saw
         /\ calls'[c].used = calls[c].used /\ calls'[c].status = calls[c].status
         /\ calls'[c].key = calls[c].key
         /\ \A d \in Callers \ {c} : calls'[d] = calls[d]
<1>1. calls \in [Callers -> Call] /\ calls[c] \in Call
  BY DEF AccountInv, AccountTypes, AccountTypeOK
<1>2. calls' = [calls EXCEPT ![c] = [calls[c] EXCEPT !.at = at]]
  BY <1>1 DEF Goes
<1>3. [calls[c] EXCEPT !.at = at] \in Call
  BY <1>1 DEF Call
<1> QED
  BY <1>1, <1>2, <1>3 DEF Call

LEMMA EndsMoves ==
  ASSUME AccountInv, NEW c \in Callers, Ends(c)
  PROVE  /\ calls' \in [Callers -> Call] /\ calls'[c].op = "idle"
         /\ \A d \in Callers \ {c} : calls'[d] = calls[d]
<1>1. calls \in [Callers -> Call]
  BY DEF AccountInv, AccountTypes, AccountTypeOK
<1>2. Resting.op = "idle"
  BY DEF Resting
<1> QED
  BY <1>1, <1>2, RestingIsCall DEF Ends

LEMMA TypesFrame ==
  ASSUME AccountInv, calls' \in [Callers -> Call],
         users' = users, members' = members, keys' = keys, invite' = invite, groups' = groups,
         UNCHANGED <<indexed, stage, surplus>>
  PROVE  AccountTypes'
<1>1. AccountTypeOK /\ keys \in [Users -> Seq(KeyStatus)]
  BY DEF AccountInv, AccountTypes
<1> QED
  BY <1>1 DEF AccountTypes, AccountTypeOK

\* The index, the repair and the memberships rest.
LEMMA ExclusiveFrame ==
  ASSUME AccountInv, members' = members, UNCHANGED <<indexed, stage, surplus>>
  PROVE  Exclusive'
<1>1. Exclusive
  BY DEF AccountInv
<1>2. \A u : GroupsOf(u)' = GroupsOf(u) /\ Left(u)' = Left(u)
  BY DEF GroupsOf, Left
<1> QED
  BY <1>1, <1>2 DEF Exclusive, AtMostOne

\* Who belongs to a group goes on to, as long as no joining call ends.
LEMMA BelongingFrame ==
  ASSUME AccountInv, excused \subseteq excused',
         \A u \in Users : /\ users[u] = "absent" => users'[u] = "absent" \/ Belongs(u)'
                          /\ GroupsOf(u) # {} => GroupsOf(u)' # {} \/ Belongs(u)',
         \A u \in Users, c \in Callers :
            Joins(c) /\ calls[c].user = u => calls'[c] = calls[c] \/ Belongs(u)'
  PROVE  Belonging'
<1> SUFFICES ASSUME NEW u \in Users PROVE Belongs(u)'
  BY DEF Belonging
<1>1. Belongs(u)
  BY DEF AccountInv, Belonging
<1>2. CASE users[u] = "absent" \/ u \in excused \/ GroupsOf(u) # {}
  <2>1. CASE Belongs(u)'
    BY <2>1
  <2>2. CASE users'[u] = "absent" \/ u \in excused' \/ GroupsOf(u)' # {}
    BY <2>2 DEF Belongs
  <2> QED
    BY <1>2, <2>1, <2>2
<1>3. CASE \E c \in Callers : Joins(c) /\ calls[c].user = u
  <2>1. PICK c \in Callers : Joins(c) /\ calls[c].user = u
    BY <1>3
  <2>2. CASE calls'[c] = calls[c]
    <3>1. Joins(c)' /\ calls'[c].user = u
      BY <2>1, <2>2 DEF Joins
    <3> QED
      BY <3>1 DEF Belongs
  <2> QED
    BY <2>1, <2>2
<1> QED
  BY <1>1, <1>2, <1>3 DEF Belongs

\* The keys rest, and so do the calls about them, except those that end.
LEMMA KeysFrame ==
  ASSUME AccountInv, keys' = keys, clashed \subseteq clashed',
         \A c \in Callers : calls'[c] = calls[c] \/ calls'[c].op \notin KeyOps
  PROVE  KeysOK'
<1> SUFFICES ASSUME NEW u \in Users \ clashed PROVE KeysOf(u)'
  BY DEF KeysOK
<1>1. KeysOf(u)
  BY DEF AccountInv, KeysOK
<1>2. Unrevoked(u)' = Unrevoked(u)
  BY DEF Unrevoked
<1>3. \A c \in AboutKeysOf(u)' : c \in AboutKeysOf(u) /\ calls'[c] = calls[c]
  BY DEF AboutKeysOf
<1> QED
  BY <1>1, <1>2, <1>3 DEF KeysOf, AtMostOne

\* What a handler knows stays true of the calls that are not in this step.
LEMMA CallsFrame ==
  ASSUME AccountInv, \A u \in Users : users[u] # "absent" => users'[u] # "absent",
         \A c \in Callers :
            \/ calls'[c] = calls[c]
            \/ calls'[c].op = "idle"
            \/ calls'[c].at \in {"check", "read", "join"} /\ calls'[c].op # "patchUser"
            \/ calls'[c].op \in {"addMember", "createKey", "patchKey", "revokeKey"}
               /\ calls'[c].at = "write"
            \/ calls'[c].op = "createKey"
  PROVE  CallsOK'
<1>1. CallsOK /\ calls \in [Callers -> Call]
  BY DEF AccountInv, AccountTypes, AccountTypeOK
<1> SUFFICES ASSUME NEW c \in Callers
    PROVE  /\ calls'[c].op = "register" /\ calls'[c].at = "write" => calls'[c].used < MaxUses
           /\ calls'[c].op = "deleteGroup" /\ calls'[c].at = "write" => calls'[c].group # DefaultGroup
           /\ calls'[c].op = "deleteUser" /\ calls'[c].at = "write" => users'[calls'[c].user] # "absent"
           /\ calls'[c].op = "addMember" /\ calls'[c].at = "clear" => calls'[c].group \notin calls'[c].saw
           /\ calls'[c].op = "patchUser" => calls'[c].status # "revoked"
  BY DEF CallsOK
<1>2. CASE calls'[c] = calls[c]
  <2>1. calls[c].user \in Users
    BY <1>1 DEF Call
  <2> QED
    BY <1>1, <1>2, <2>1 DEF CallsOK
<1>3. CASE calls'[c] # calls[c]
  BY <1>3
<1> QED
  BY <1>2, <1>3

-----------------------------------------------------------------------------
(* The steps                                                                 *)

LEMMA UpFacts ==
  ASSUME AccountInv, NEW c \in Callers
  PROVE  /\ calls \in [Callers -> Call] /\ calls[c] \in Call
         /\ calls[c].user \in Users /\ calls[c].group \in Groups /\ calls[c].saw \subseteq Groups
         /\ calls[c].key \in 1..MaxKeys /\ calls[c].status \in KeyStatus
         /\ users \in [Users -> {"absent", "active", "disabled", "deleted"}]
         /\ members \subseteq Users \X Groups
         /\ stage = "up" => indexed /\ surplus = {} /\ \A u \in Users : AtMostOne(GroupsOf(u))
<1>1. calls \in [Callers -> Call] /\ calls[c] \in Call
  BY DEF AccountInv, AccountTypes, AccountTypeOK
<1>2. Exclusive /\ AccountTypeOK
  BY DEF AccountInv, AccountTypes
<1>3. stage = "up" => indexed /\ surplus = {} /\ \A u \in Users : AtMostOne(GroupsOf(u))
  BY <1>2 DEF Exclusive
<1>4. /\ calls[c].user \in Users /\ calls[c].group \in Groups /\ calls[c].saw \subseteq Groups
      /\ calls[c].key \in 1..MaxKeys /\ calls[c].status \in KeyStatus
  BY <1>1 DEF Call
<1> QED
  BY <1>1, <1>2, <1>3, <1>4 DEF AccountTypeOK

\* A statement that changes no membership and makes no user
LEMMA RestKeeps ==
  ASSUME AccountInv, NEW c \in Callers, calls' \in [Callers -> Call],
         \A d \in Callers \ {c} : calls'[d] = calls[d], ~Joins(c),
         AccountTypes', CallsOK', KeysOK',
         \A u \in Users : users[u] = "absent" => users'[u] = "absent",
         UNCHANGED <<members, excused, indexed, stage, surplus>>
  PROVE  AccountInv'
<1>1. \A u : GroupsOf(u)' = GroupsOf(u)
  BY DEF GroupsOf
<1>2. \A d \in Callers : Joins(d) => calls'[d] = calls[d]
  OBVIOUS
<1>3. Exclusive'
  BY ExclusiveFrame
<1>4. Belonging'
  BY <1>1, <1>2, BelongingFrame
<1> QED
  BY <1>3, <1>4 DEF AccountInv

\* The same for a call that is not about keys and writes nothing
LEMMA ReadKeeps ==
  ASSUME AccountInv, NEW c \in Callers, calls' \in [Callers -> Call],
         \A d \in Callers \ {c} : calls'[d] = calls[d], ~Joins(c),
         calls'[c].op \notin KeyOps, CallsOK',
         UNCHANGED <<users, groups, members, indexed, keys, invite, stage, surplus,
                     excused, clashed>>
  PROVE  AccountInv'
<1>1. AccountTypes'
  BY TypesFrame
<1>2. KeysOK'
  BY KeysFrame
<1> QED
  BY <1>1, <1>2, RestKeeps

LEMMA MemberReadKeeps ==
  ASSUME AccountInv, NEW c \in Callers, AddMemberRead(c) \/ AddMemberCheck(c)
  PROVE  AccountInv'
<1>1. CASE AddMemberRead(c)
  <2>1. Goes(c, "check") \/ Ends(c)
    BY <1>1 DEF AddMemberRead
  <2>2. /\ calls' \in [Callers -> Call] /\ \A d \in Callers \ {c} : calls'[d] = calls[d]
        /\ \/ calls'[c].op = "idle"
           \/ calls'[c].op = "addMember" /\ calls'[c].at = "check"
    BY <1>1, <2>1, GoesMoves, EndsMoves DEF AddMemberRead, At
  <2>3. CallsOK'
    BY <1>1, <2>2, CallsFrame DEF AddMemberRead
  <2>4. ~Joins(c)
    BY <1>1 DEF AddMemberRead, At, Joins
  <2> QED
    BY <1>1, <2>2, <2>3, <2>4, ReadKeeps DEF AddMemberRead, KeyOps
<1>2. CASE AddMemberCheck(c)
  <2> DEFINE saw == GroupsOf(calls[c].user)
             at == IF saw \ {calls[c].group} # {} THEN "clear" ELSE "write"
             x == [calls[c] EXCEPT !.saw = saw, !.at = at]
  <2>1. calls \in [Callers -> Call] /\ calls[c] \in Call /\ AtMostOne(saw) /\ saw \subseteq Groups
    BY <1>2, UpFacts DEF AddMemberCheck, At, GroupsOf
  <2>2. /\ x \in Call /\ x.op = "addMember" /\ x.at = at /\ x.saw = saw
        /\ x.group = calls[c].group
    BY <1>2, <2>1 DEF AddMemberCheck, At, Call
  <2>3. calls' = [calls EXCEPT ![c] = x]
    BY <1>2, <2>1 DEF AddMemberCheck
  <2> HIDE DEF x
  <2>4. /\ calls' \in [Callers -> Call] /\ calls'[c] = x
        /\ \A d \in Callers \ {c} : calls'[d] = calls[d]
    BY <2>1, <2>2, <2>3
  <2>5. CallsOK'
    <3>1. CASE at = "write"
      BY <1>2, <2>2, <2>4, <3>1, CallsFrame DEF AddMemberCheck
    <3>2. CASE at = "clear"
      <4>1. calls[c].group \notin saw
        BY <2>1, <3>2 DEF AtMostOne
      <4>2. CallsOK
        BY DEF AccountInv
      <4> QED
        BY <1>2, <2>2, <2>4, <3>2, <4>1, <4>2 DEF CallsOK, AddMemberCheck
    <3> QED
      BY <3>1, <3>2
  <2>6. ~Joins(c)
    BY <1>2 DEF AddMemberCheck, At, Joins
  <2> QED
    BY <1>2, <2>2, <2>4, <2>5, <2>6, ReadKeeps DEF AddMemberCheck, KeyOps
<1> QED
  BY <1>1, <1>2

\* The memberships of a call's user, or of a deleted group, go.
LEMMA MemberClearKeeps ==
  ASSUME AccountInv, NEW c \in Callers,
         AddMemberClear(c) \/ RemoveMember(c) \/ DeleteGroupMembers(c)
  PROVE  AccountInv'
<1>1. /\ calls \in [Callers -> Call] /\ calls[c] \in Call /\ stage = "up" /\ surplus = {}
      /\ indexed /\ members \subseteq Users \X Groups /\ calls[c].user \in Users
      /\ \A u \in Users : AtMostOne(GroupsOf(u))
  BY UpFacts DEF AddMemberClear, RemoveMember, DeleteGroupMembers, At
<1>2. /\ calls' \in [Callers -> Call] /\ \A d \in Callers \ {c} : calls'[d] = calls[d]
      /\ calls'[c].op \notin KeyOps
  <2>1. CASE AddMemberClear(c)
    BY <2>1, GoesMoves DEF AddMemberClear, At, KeyOps
  <2>2. CASE RemoveMember(c)
    BY <2>2, EndsMoves DEF RemoveMember, KeyOps
  <2>3. CASE DeleteGroupMembers(c)
    BY <2>3, GoesMoves, EndsMoves DEF DeleteGroupMembers, At, KeyOps
  <2> QED
    BY <2>1, <2>2, <2>3
<1>3. members' \subseteq members
  BY DEF AddMemberClear, RemoveMember, DeleteGroupMembers
<1>4. AccountTypes'
  <2>1. AccountTypes
    BY DEF AccountInv
  <2> QED
    BY <1>1, <1>2, <1>3, <2>1 DEF AccountTypes, AccountTypeOK, AddMemberClear, RemoveMember,
       DeleteGroupMembers
<1>5. CallsOK'
  <2>1. CASE AddMemberClear(c)
    <3>1. calls'[c].op = "addMember" /\ calls'[c].at = "write"
      BY <2>1, GoesMoves DEF AddMemberClear, At
    <3> QED
      BY <1>2, <2>1, <3>1, CallsFrame DEF AddMemberClear
  <2>2. CASE RemoveMember(c)
    <3>1. calls'[c].op = "idle"
      BY <2>2, EndsMoves DEF RemoveMember
    <3> QED
      BY <1>2, <2>2, <3>1, CallsFrame DEF RemoveMember
  <2>3. CASE DeleteGroupMembers(c)
    <3>1. CallsOK
      BY DEF AccountInv
    <3>2. \/ calls'[c].op = "idle"
          \/ calls'[c].op = "deleteGroup" /\ calls'[c].group # DefaultGroup
      BY <2>3, GoesMoves, EndsMoves DEF DeleteGroupMembers, At
    <3> QED
      BY <1>2, <2>3, <3>1, <3>2 DEF CallsOK, DeleteGroupMembers
  <2> QED
    BY <2>1, <2>2, <2>3
<1>6. Exclusive'
  <2>1. \A u : GroupsOf(u)' \subseteq GroupsOf(u)
    BY <1>3 DEF GroupsOf
  <2>2. UNCHANGED <<indexed, stage, surplus>>
    BY DEF AddMemberClear, RemoveMember, DeleteGroupMembers
  <2> QED
    BY <1>1, <2>1, <2>2 DEF Exclusive, AtMostOne
<1>7. Belonging'
  <2>1. CASE AddMemberClear(c)
    <3>1. /\ calls'[c].op = "addMember" /\ calls'[c].at = "write"
          /\ calls'[c].user = calls[c].user /\ calls'[c].group \notin calls'[c].saw
      BY <2>1, GoesMoves DEF AddMemberClear, At, AccountInv, CallsOK
    <3>2. Belongs(calls[c].user)' /\ ~Joins(c)
      <4>1. Joins(c)'
        BY <3>1 DEF Joins
      <4> QED
        BY <2>1, <3>1, <4>1 DEF Belongs, AddMemberClear, At, Joins
    <3>3. \A u \in Users : u # calls[c].user => GroupsOf(u)' = GroupsOf(u)
      BY <2>1 DEF AddMemberClear, GroupsOf
    <3>4. \A u \in Users : GroupsOf(u) # {} => GroupsOf(u)' # {} \/ Belongs(u)'
      <4> SUFFICES ASSUME NEW u \in Users, GroupsOf(u) # {}, GroupsOf(u)' = {} PROVE Belongs(u)'
        OBVIOUS
      <4>1. calls'[c].user = u /\ Joins(c)'
        BY <3>1, <3>3 DEF Joins
      <4> QED
        BY <4>1 DEF Belongs
    <3> QED
      BY <1>2, <2>1, <3>2, <3>4, BelongingFrame DEF AddMemberClear
  <2>2. CASE RemoveMember(c)
    <3>1. \A u \in Users : GroupsOf(u) # {} => GroupsOf(u)' # {} \/ u \in excused'
      BY <2>2, <1>1 DEF RemoveMember, GroupsOf
    <3>2. \A u \in Users : u \in excused' => Belongs(u)'
      BY DEF Belongs
    <3>3. excused \subseteq excused' /\ ~Joins(c) /\ users' = users
      BY <2>2 DEF RemoveMember, Joins, At
    <3> QED
      BY <1>2, <3>1, <3>2, <3>3, BelongingFrame
  <2>3. CASE DeleteGroupMembers(c)
    <3>1. \A u \in Users : GroupsOf(u) # {} => GroupsOf(u)' # {} \/ u \in excused'
      BY <2>3, <1>1 DEF DeleteGroupMembers, GroupsOf
    <3>2. \A u \in Users : u \in excused' => Belongs(u)'
      BY DEF Belongs
    <3>3. excused \subseteq excused' /\ ~Joins(c) /\ users' = users
      BY <2>3 DEF DeleteGroupMembers, Joins, At
    <3> QED
      BY <1>2, <3>1, <3>2, <3>3, BelongingFrame
  <2> QED
    BY <2>1, <2>2, <2>3
<1>8. KeysOK'
  BY <1>2, KeysFrame DEF AddMemberClear, RemoveMember, DeleteGroupMembers
<1> QED
  BY <1>4, <1>5, <1>6, <1>7, <1>8 DEF AccountInv

\* INSERT INTO user_group_members while the index is there
LEMMA JoinedOne ==
  ASSUME AccountInv, stage = "up", NEW u \in Users, NEW g \in Groups, members' = Joined(u, g)
  PROVE  /\ members' \subseteq Users \X Groups /\ members \subseteq members'
         /\ \A v \in Users : AtMostOne(GroupsOf(v)') /\ GroupsOf(v) \subseteq GroupsOf(v)'
         /\ GroupsOf(u)' # {}
<1>1. /\ indexed /\ \A v \in Users : AtMostOne(GroupsOf(v))
      /\ members \subseteq Users \X Groups
  BY DEF AccountInv, Exclusive, AccountTypes, AccountTypeOK
<1>2. CASE GroupsOf(u) # {}
  <2>1. members' = members
    BY <1>1, <1>2 DEF Joined
  <2>2. \A v : GroupsOf(v)' = GroupsOf(v)
    BY <2>1 DEF GroupsOf
  <2> QED
    BY <1>1, <1>2, <2>1, <2>2
<1>3. CASE GroupsOf(u) = {}
  <2>1. members' = members \cup {<<u, g>>}
    BY <1>3 DEF Joined
  <2>2. GroupsOf(u)' = {g}
    BY <1>3, <2>1 DEF GroupsOf
  <2>3. \A v \in Users : v # u => GroupsOf(v)' = GroupsOf(v)
    BY <2>1 DEF GroupsOf
  <2> QED
    BY <1>1, <1>3, <2>1, <2>2, <2>3 DEF AtMostOne
<1> QED
  BY <1>2, <1>3

\* A statement that may add memberships, at most to one for each user
LEMMA JoinKeeps ==
  ASSUME AccountInv, stage = "up", NEW c \in Callers, calls[c].op \notin KeyOps,
         calls' \in [Callers -> Call], calls'[c].op \notin KeyOps,
         \A d \in Callers \ {c} : calls'[d] = calls[d],
         \A u \in Users : AtMostOne(GroupsOf(u)') /\ GroupsOf(u) \subseteq GroupsOf(u)',
         members' \subseteq Users \X Groups,
         users' \in [Users -> {"absent", "active", "disabled", "deleted"}],
         invite' \in [used : 0..MaxUses, active : BOOLEAN],
         \A u \in Users : users[u] = "absent" => users'[u] = "absent" \/ Belongs(u)',
         \A u \in Users : Joins(c) /\ calls[c].user = u => Belongs(u)',
         CallsOK',
         UNCHANGED <<groups, indexed, keys, stage, surplus, excused, clashed>>
  PROVE  AccountInv'
<1>1. indexed /\ surplus = {} /\ AccountTypes
  BY DEF AccountInv, Exclusive
<1>2. AccountTypes'
  BY <1>1 DEF AccountTypes, AccountTypeOK
<1>3. Exclusive'
  BY <1>1 DEF Exclusive
<1>4. Belonging'
  <2>1. \A u \in Users, d \in Callers :
           Joins(d) /\ calls[d].user = u => calls'[d] = calls[d] \/ Belongs(u)'
    OBVIOUS
  <2> QED
    BY <2>1, BelongingFrame
<1>5. KeysOK'
  BY KeysFrame
<1> QED
  BY <1>2, <1>3, <1>4, <1>5 DEF AccountInv

LEMMA AddMemberWriteKeeps ==
  ASSUME AccountInv, NEW c \in Callers, AddMemberWrite(c)
  PROVE  AccountInv'
<1>1. /\ stage = "up" /\ calls[c].op = "addMember" /\ calls[c].user \in Users
      /\ calls[c].group \in Groups /\ members \subseteq Users \X Groups
      /\ \A u \in Users : AtMostOne(GroupsOf(u))
      /\ users \in [Users -> {"absent", "active", "disabled", "deleted"}]
  BY UpFacts DEF AddMemberWrite, At
<1>2. /\ calls' \in [Callers -> Call] /\ \A d \in Callers \ {c} : calls'[d] = calls[d]
      /\ calls'[c].op = "idle"
  BY EndsMoves DEF AddMemberWrite
<1>3. /\ \A u \in Users : AtMostOne(GroupsOf(u)') /\ GroupsOf(u) \subseteq GroupsOf(u)'
      /\ members' \subseteq Users \X Groups
      /\ \A u \in Users : u = calls[c].user /\ Joins(c) => GroupsOf(u)' # {}
  <2>1. CASE calls[c].group \in calls[c].saw
    <3>1. members' = members
      BY <2>1 DEF AddMemberWrite
    <3>2. \A u : GroupsOf(u)' = GroupsOf(u)
      BY <3>1 DEF GroupsOf
    <3>3. ~Joins(c)
      BY <1>1, <2>1 DEF Joins
    <3> QED
      BY <1>1, <3>1, <3>2, <3>3
  <2>2. CASE calls[c].group \notin calls[c].saw
    <3>1. PICK u \in Users : u = calls[c].user
      BY <1>1
    <3>2. members' = Joined(u, calls[c].group)
      BY <2>2, <3>1 DEF AddMemberWrite
    <3> QED
      BY <1>1, <3>1, <3>2, JoinedOne
  <2> QED
    BY <2>1, <2>2
<1>4. \A u \in Users : Joins(c) /\ calls[c].user = u => Belongs(u)'
  BY <1>3 DEF Belongs
<1>5. CallsOK'
  BY <1>2, CallsFrame DEF AddMemberWrite
<1>6. invite' \in [used : 0..MaxUses, active : BOOLEAN]
  BY DEF AddMemberWrite, AccountInv, AccountTypes, AccountTypeOK
<1> QED
  BY <1>1, <1>2, <1>3, <1>4, <1>5, <1>6, JoinKeeps DEF AddMemberWrite, KeyOps

\* New users
LEMMA NewUserReadKeeps ==
  ASSUME AccountInv, NEW c \in Callers,
         NewUserRead(c, "createUser") \/ NewUserRead(c, "register") \/ RegisterCheck(c)
  PROVE  AccountInv'
<1>1. CASE NewUserRead(c, "createUser") \/ NewUserRead(c, "register")
  <2>1. Goes(c, "check") \/ Ends(c)
    BY <1>1 DEF NewUserRead
  <2>2. /\ calls' \in [Callers -> Call] /\ \A d \in Callers \ {c} : calls'[d] = calls[d]
        /\ \/ calls'[c].op = "idle"
           \/ calls'[c].op \in {"createUser", "register"} /\ calls'[c].at = "check"
    BY <1>1, <2>1, GoesMoves, EndsMoves DEF NewUserRead, At
  <2>3. CallsOK'
    BY <1>1, <2>2, CallsFrame DEF NewUserRead
  <2>4. ~Joins(c)
    BY <1>1 DEF NewUserRead, At, Joins
  <2> QED
    BY <1>1, <2>2, <2>3, <2>4, ReadKeeps DEF NewUserRead, KeyOps
<1>2. CASE RegisterCheck(c)
  <2> DEFINE x == [calls[c] EXCEPT !.at = "write", !.used = invite.used]
  <2>1. calls \in [Callers -> Call] /\ calls[c] \in Call /\ invite.used \in 0..MaxUses
    BY DEF AccountInv, AccountTypes, AccountTypeOK
  <2>2. x \in Call /\ x.op = "register" /\ x.at = "write" /\ x.used = invite.used
    BY <1>2, <2>1 DEF RegisterCheck, At, Call
  <2>3. \/ calls' = [calls EXCEPT ![c] = x] /\ invite.used < MaxUses
        \/ Ends(c)
    BY <1>2, <2>1 DEF RegisterCheck
  <2> HIDE DEF x
  <2>4. /\ calls' \in [Callers -> Call] /\ \A d \in Callers \ {c} : calls'[d] = calls[d]
        /\ \/ calls'[c].op = "idle"
           \/ calls'[c] = x /\ invite.used < MaxUses
    BY <2>1, <2>2, <2>3, EndsMoves
  <2>5. CallsOK'
    <3>1. CallsOK
      BY DEF AccountInv
    <3> QED
      BY <1>2, <2>2, <2>4, <3>1 DEF CallsOK, RegisterCheck
  <2>6. ~Joins(c)
    BY <1>2 DEF RegisterCheck, At, Joins
  <2> QED
    BY <1>2, <2>2, <2>4, <2>5, <2>6, ReadKeeps DEF RegisterCheck, KeyOps
<1> QED
  BY <1>1, <1>2

LEMMA CreateUserKeeps ==
  ASSUME AccountInv, NEW c \in Callers, CreateUserInsert(c) \/ CreateUserJoin(c)
  PROVE  AccountInv'
<1>1. /\ stage = "up" /\ calls[c].op = "createUser" /\ calls[c].user \in Users
      /\ calls[c].op \notin KeyOps
      /\ members \subseteq Users \X Groups
      /\ \A u \in Users : AtMostOne(GroupsOf(u))
      /\ users \in [Users -> {"absent", "active", "disabled", "deleted"}]
  BY UpFacts DEF CreateUserInsert, CreateUserJoin, At, KeyOps
<1>2. /\ calls' \in [Callers -> Call] /\ \A d \in Callers \ {c} : calls'[d] = calls[d]
      /\ \/ calls'[c].op = "idle"
         \/ /\ calls'[c].op = "createUser" /\ calls'[c].at = "join"
            /\ calls'[c].user = calls[c].user
  BY <1>1, GoesMoves, EndsMoves DEF CreateUserInsert, CreateUserJoin
<1>3. invite' \in [used : 0..MaxUses, active : BOOLEAN] /\ calls'[c].op \notin KeyOps
  BY <1>2 DEF CreateUserInsert, CreateUserJoin, AccountInv, AccountTypes, AccountTypeOK, KeyOps
<1>4. CASE CreateUserInsert(c)
  <2>1. /\ users' \in [Users -> {"absent", "active", "disabled", "deleted"}]
        /\ \A u \in Users : users[u] # "absent" => users'[u] # "absent"
    BY <1>1, <1>4 DEF CreateUserInsert
  <2>2. \A u \in Users : users[u] = "absent" => users'[u] = "absent" \/ Belongs(u)'
    <3> SUFFICES ASSUME NEW u \in Users, users[u] = "absent", users'[u] # "absent" PROVE Belongs(u)'
      OBVIOUS
    <3>1. u = calls[c].user /\ Goes(c, "join")
      BY <1>1, <1>4 DEF CreateUserInsert
    <3>2. Joins(c)' /\ calls'[c].user = u
      BY <1>1, <3>1, GoesMoves DEF Joins
    <3> QED
      BY <3>2 DEF Belongs
  <2>3. ~Joins(c)
    BY <1>4 DEF CreateUserInsert, At, Joins
  <2>4. \A u \in Users : GroupsOf(u)' = GroupsOf(u)
    BY <1>4 DEF CreateUserInsert, GroupsOf
  <2>5. CallsOK'
    BY <1>2, <2>1, CallsFrame
  <2> QED
    BY <1>1, <1>2, <1>3, <1>4, <2>1, <2>2, <2>3, <2>4, <2>5, JoinKeeps DEF CreateUserInsert
<1>5. CASE CreateUserJoin(c)
  <2>1. PICK u \in Users : u = calls[c].user
    BY <1>1
  <2>2. members' = Joined(u, DefaultGroup)
    BY <1>5, <2>1 DEF CreateUserJoin
  <2>3. /\ members' \subseteq Users \X Groups
        /\ \A v \in Users : AtMostOne(GroupsOf(v)') /\ GroupsOf(v) \subseteq GroupsOf(v)'
        /\ GroupsOf(u)' # {}
    BY <1>1, <2>2, JoinedOne, DefaultAssumption
  <2>4. \A v \in Users : Joins(c) /\ calls[c].user = v => Belongs(v)'
    BY <2>1, <2>3 DEF Belongs
  <2>5. CallsOK'
    BY <1>2, <1>5, CallsFrame DEF CreateUserJoin
  <2> QED
    BY <1>1, <1>2, <1>3, <1>5, <2>3, <2>4, <2>5, JoinKeeps DEF CreateUserJoin
<1> QED
  BY <1>4, <1>5

LEMMA RegisterWriteKeeps ==
  ASSUME AccountInv, NEW c \in Callers, RegisterWrite(c)
  PROVE  AccountInv'
<1>1. /\ stage = "up" /\ calls[c].op = "register" /\ calls[c].at = "write"
      /\ calls[c].user \in Users /\ calls[c].op \notin KeyOps
      /\ members \subseteq Users \X Groups
      /\ \A u \in Users : AtMostOne(GroupsOf(u))
      /\ users \in [Users -> {"absent", "active", "disabled", "deleted"}]
  BY UpFacts DEF RegisterWrite, At, KeyOps
<1>2. /\ calls' \in [Callers -> Call] /\ \A d \in Callers \ {c} : calls'[d] = calls[d]
      /\ calls'[c].op = "idle" /\ calls'[c].op \notin KeyOps
  BY EndsMoves DEF RegisterWrite, KeyOps
<1>3. invite' \in [used : 0..MaxUses, active : BOOLEAN]
  <2>1. invite \in [used : 0..MaxUses, active : BOOLEAN] /\ calls[c] \in Call
    BY UpFacts DEF AccountInv, AccountTypes, AccountTypeOK
  <2>2. calls[c].used \in 0..MaxUses /\ calls[c].used < MaxUses
    BY <1>1, <2>1 DEF AccountInv, CallsOK, Call
  <2>3. calls[c].used + 1 \in 0..MaxUses
    BY <2>2, CountsAssumption
  <2> QED
    BY <2>1, <2>3 DEF RegisterWrite
<1>4. PICK u \in Users : u = calls[c].user
  BY <1>1
<1>5. /\ members' \subseteq Users \X Groups
      /\ \A v \in Users : AtMostOne(GroupsOf(v)') /\ GroupsOf(v) \subseteq GroupsOf(v)'
      /\ users[u] = "absent" => GroupsOf(u)' # {}
      /\ users' \in [Users -> {"absent", "active", "disabled", "deleted"}]
      /\ \A v \in Users : v # u => users'[v] = users[v]
      /\ users[u] # "absent" => users'[u] = users[u]
  <2>1. CASE users[u] = "absent"
    <3>1. members' = Joined(u, DefaultGroup) /\ users' = [users EXCEPT ![u] = "active"]
      BY <1>4, <2>1 DEF RegisterWrite
    <3> QED
      BY <1>1, <2>1, <3>1, JoinedOne, DefaultAssumption
  <2>2. CASE users[u] # "absent"
    <3>1. members' = members /\ users' = users
      BY <1>4, <2>2 DEF RegisterWrite
    <3>2. \A v : GroupsOf(v)' = GroupsOf(v)
      BY <3>1 DEF GroupsOf
    <3> QED
      BY <1>1, <2>2, <3>1, <3>2
  <2> QED
    BY <2>1, <2>2
<1>6. \A v \in Users : users[v] = "absent" => users'[v] = "absent" \/ Belongs(v)'
  BY <1>5 DEF Belongs
<1>7. ~Joins(c)
  BY <1>1 DEF Joins
<1>8. CallsOK'
  <2>1. \A v \in Users : users[v] # "absent" => users'[v] # "absent"
    BY <1>5
  <2> QED
    BY <1>2, <2>1, CallsFrame
<1> QED
  BY <1>1, <1>2, <1>3, <1>5, <1>6, <1>7, <1>8, JoinKeeps DEF RegisterWrite

LEMMA UserKeeps ==
  ASSUME AccountInv, NEW c \in Callers, PatchUser(c) \/ DeleteGroup(c)
  PROVE  AccountInv'
<1>1. /\ calls' \in [Callers -> Call] /\ \A d \in Callers \ {c} : calls'[d] = calls[d]
      /\ calls'[c].op = "idle" /\ calls'[c].op \notin KeyOps
  BY EndsMoves DEF PatchUser, DeleteGroup, KeyOps
<1>2. /\ AccountTypeOK /\ CallsOK /\ calls[c].user \in Users /\ calls[c].status \in KeyStatus
      /\ calls[c].group \in Groups
  BY UpFacts DEF AccountInv, AccountTypes
<1>3. /\ users' \in [Users -> {"absent", "active", "disabled", "deleted"}]
      /\ \A u \in Users : users[u] = "absent" <=> users'[u] = "absent"
  <2>1. CASE PatchUser(c)
    <3>1. calls[c].status \in {"active", "disabled"}
      BY <1>2, <2>1 DEF PatchUser, At, CallsOK, KeyStatus
    <3> QED
      BY <1>2, <2>1, <3>1 DEF PatchUser, AccountTypeOK
  <2>2. CASE DeleteGroup(c)
    BY <1>2, <2>2 DEF DeleteGroup, AccountTypeOK
  <2> QED
    BY <2>1, <2>2
<1>4. AccountTypes'
  <2>1. groups' \subseteq Groups /\ DefaultGroup \in groups'
    BY <1>2 DEF PatchUser, DeleteGroup, At, AccountTypeOK, CallsOK
  <2>2. keys \in [Users -> Seq(KeyStatus)]
    BY DEF AccountInv, AccountTypes
  <2>3. UNCHANGED <<members, indexed, keys, invite, stage, surplus>>
    BY DEF PatchUser, DeleteGroup
  <2> QED
    BY <1>1, <1>2, <1>3, <2>1, <2>2, <2>3 DEF AccountTypes, AccountTypeOK
<1>5. CallsOK'
  BY <1>1, <1>3, CallsFrame
<1>6. KeysOK'
  BY <1>1, KeysFrame DEF PatchUser, DeleteGroup
<1>7. ~Joins(c)
  BY DEF PatchUser, DeleteGroup, At, Joins
<1> QED
  BY <1>1, <1>3, <1>4, <1>5, <1>6, <1>7, RestKeeps DEF PatchUser, DeleteGroup

-----------------------------------------------------------------------------
(* The keys of a user                                                         *)

\* A statement of the one call about the keys of a user
LEMMA OwnKeys ==
  ASSUME AccountInv, NEW c \in Callers, calls[c].op \in KeyOps, clashed' = clashed,
         \A d \in Callers \ {c} : calls'[d] = calls[d],
         calls'[c].op \in KeyOps => calls'[c].user = calls[c].user,
         \A v \in Users : v # calls[c].user => keys'[v] = keys[v],
         \A u \in Users : u = calls[c].user /\ KeysOf(u) =>
            /\ AtMostOne(Unrevoked(u)')
            /\ calls'[c].op = "createKey" /\ calls'[c].at = "write" => Unrevoked(u)' = {}
            /\ calls'[c].op = "patchKey" /\ calls'[c].at = "write" =>
                 calls'[c].status = "revoked" \/ calls'[c].key \in Unrevoked(u)'
  PROVE  KeysOK'
<1> SUFFICES ASSUME NEW u \in Users \ clashed PROVE KeysOf(u)'
  BY DEF KeysOK
<1>1. KeysOf(u)
  BY DEF AccountInv, KeysOK
<1>2. AboutKeysOf(u)' \subseteq AboutKeysOf(u)
  BY DEF AboutKeysOf
<1>3. AtMostOne(AboutKeysOf(u)')
  BY <1>1, <1>2 DEF KeysOf, AtMostOne
<1>4. CASE u = calls[c].user
  <2>1. c \in AboutKeysOf(u)
    BY <1>4 DEF AboutKeysOf
  <2>2. \A d \in AboutKeysOf(u)' : d = c
    BY <1>1, <1>2, <2>1 DEF KeysOf, AtMostOne
  <2> QED
    BY <1>1, <1>3, <1>4, <2>2 DEF KeysOf
<1>5. CASE u # calls[c].user
  <2>1. Unrevoked(u)' = Unrevoked(u)
    BY <1>5 DEF Unrevoked
  <2>2. c \notin AboutKeysOf(u)
    BY <1>5 DEF AboutKeysOf
  <2>3. \A d \in AboutKeysOf(u)' : d \in AboutKeysOf(u) /\ d \in Callers \ {c}
    BY <1>2, <2>2 DEF AboutKeysOf
  <2> QED
    BY <1>1, <1>3, <2>1, <2>3 DEF KeysOf
<1> QED
  BY <1>4, <1>5

LEMMA KeyTypes ==
  ASSUME AccountInv, calls' \in [Callers -> Call],
         keys' \in [Users -> Seq(KeyStatus)], \A u \in Users : Len(keys'[u]) <= MaxKeys,
         users' = users, members' = members, invite' = invite, groups' = groups,
         UNCHANGED <<indexed, stage, surplus>>
  PROVE  AccountTypes'
<1>1. AccountTypeOK
  BY DEF AccountInv, AccountTypes
<1>2. \A u \in Users : \A i \in DOMAIN keys'[u] : keys'[u][i] \in KeyStatus
  OBVIOUS
<1> QED
  BY <1>1, <1>2 DEF AccountTypes, AccountTypeOK

\* Every key of a user revoked
LEMMA RevokeAllTypes ==
  ASSUME AccountInv, NEW u \in Users, keys' = RevokeAll(u)
  PROVE  /\ keys' \in [Users -> Seq(KeyStatus)] /\ \A v \in Users : Len(keys'[v]) <= MaxKeys
         /\ \A v \in Users : v # u => keys'[v] = keys[v]
         /\ Unrevoked(u)' = {}
<1>1. /\ keys \in [Users -> Seq(KeyStatus)] /\ \A v \in Users : Len(keys[v]) <= MaxKeys
  BY DEF AccountInv, AccountTypes, AccountTypeOK
<1> DEFINE k == [i \in DOMAIN keys[u] |-> "revoked"]
<1>2. k \in Seq(KeyStatus) /\ Len(k) = Len(keys[u]) /\ \A i \in DOMAIN k : k[i] = "revoked"
  <2>1. DOMAIN keys[u] = 1..Len(keys[u]) /\ Len(keys[u]) \in Nat
    BY <1>1
  <2>2. k \in [1..Len(keys[u]) -> KeyStatus]
    BY <2>1 DEF KeyStatus
  <2>3. k \in Seq(KeyStatus) /\ DOMAIN k = 1..Len(keys[u])
    BY <2>1, <2>2
  <2> QED
    BY <2>1, <2>3
<1>3. keys' = [keys EXCEPT ![u] = k]
  BY <1>1 DEF RevokeAll
<1> HIDE DEF k
<1>4. keys'[u] = k /\ \A v \in Users : v # u => keys'[v] = keys[v]
  BY <1>1, <1>3
<1>5. keys' \in [Users -> Seq(KeyStatus)]
  BY <1>1, <1>2, <1>3
<1>6. \A v \in Users : Len(keys'[v]) <= MaxKeys
  BY <1>1, <1>2, <1>4
<1>7. Unrevoked(u)' = {}
  BY <1>2, <1>4 DEF Unrevoked
<1> QED
  BY <1>4, <1>5, <1>6, <1>7

LEMMA RevokeAllKeeps ==
  ASSUME AccountInv, NEW c \in Callers, DeleteUserKeys(c) \/ CreateKeyClear(c)
  PROVE  AccountInv'
<1>1. /\ calls[c].op \in {"deleteUser", "createKey"} /\ calls[c].user \in Users /\ ~Joins(c)
      /\ calls[c].op \in KeyOps
  BY UpFacts DEF DeleteUserKeys, CreateKeyClear, At, Joins, KeyOps
<1>2. \/ Ends(c) /\ keys' = keys
      \/ /\ Goes(c, "write") /\ keys' = RevokeAll(calls[c].user)
         /\ calls[c].op = "deleteUser" => users[calls[c].user] # "absent"
  BY DEF DeleteUserKeys, CreateKeyClear, At
<1>3. /\ calls' \in [Callers -> Call] /\ \A d \in Callers \ {c} : calls'[d] = calls[d]
      /\ \/ calls'[c].op = "idle" /\ keys' = keys
         \/ /\ calls'[c].op = calls[c].op /\ calls'[c].at = "write"
            /\ calls'[c].user = calls[c].user
            /\ calls[c].op = "deleteUser" => users[calls[c].user] # "absent"
            /\ keys' = RevokeAll(calls[c].user)
  <2>1. CASE Ends(c) /\ keys' = keys
    BY <2>1, EndsMoves
  <2>2. CASE /\ Goes(c, "write") /\ keys' = RevokeAll(calls[c].user)
             /\ calls[c].op = "deleteUser" => users[calls[c].user] # "absent"
    BY <2>2, GoesMoves
  <2> QED
    BY <1>2, <2>1, <2>2
<1>4. PICK u \in Users : u = calls[c].user
  BY <1>1
<1>5. /\ keys' \in [Users -> Seq(KeyStatus)] /\ \A v \in Users : Len(keys'[v]) <= MaxKeys
      /\ \A v \in Users : v # u => keys'[v] = keys[v]
      /\ \/ calls'[c].op = "idle" /\ keys' = keys
         \/ Unrevoked(u)' = {} /\ calls'[c].op = calls[c].op
  <2>1. CASE calls'[c].op = "idle" /\ keys' = keys
    BY <2>1 DEF AccountInv, AccountTypes, AccountTypeOK
  <2>2. CASE keys' = RevokeAll(u) /\ calls'[c].op = calls[c].op
    BY <2>2, RevokeAllTypes
  <2> QED
    BY <1>3, <1>4, <2>1, <2>2
<1>6. UNCHANGED <<users, groups, members, indexed, invite, stage, surplus, excused, clashed>>
  BY DEF DeleteUserKeys, CreateKeyClear
<1>7. AccountTypes'
  BY <1>3, <1>5, <1>6, KeyTypes
<1>8. CallsOK'
  <2>1. CallsOK
    BY DEF AccountInv
  <2> QED
    BY <1>1, <1>3, <1>6, <2>1 DEF CallsOK
<1>9. KeysOK'
  <2>1. \A v \in Users : v = calls[c].user /\ KeysOf(v) =>
            /\ AtMostOne(Unrevoked(v)')
            /\ calls'[c].op = "createKey" /\ calls'[c].at = "write" => Unrevoked(v)' = {}
            /\ calls'[c].op = "patchKey" /\ calls'[c].at = "write" =>
                 calls'[c].status = "revoked" \/ calls'[c].key \in Unrevoked(v)'
    <3> SUFFICES ASSUME KeysOf(u)
                 PROVE  /\ AtMostOne(Unrevoked(u)')
                        /\ calls'[c].op = "createKey" /\ calls'[c].at = "write" => Unrevoked(u)' = {}
                        /\ calls'[c].op = "patchKey" /\ calls'[c].at = "write" =>
                             calls'[c].status = "revoked" \/ calls'[c].key \in Unrevoked(u)'
      BY <1>4
    <3>1. CASE calls'[c].op = "idle" /\ keys' = keys
      <4>1. Unrevoked(u)' = Unrevoked(u)
        BY <3>1 DEF Unrevoked
      <4> QED
        BY <3>1, <4>1 DEF KeysOf
    <3>2. CASE Unrevoked(u)' = {} /\ calls'[c].op = calls[c].op
      BY <1>1, <3>2 DEF AtMostOne
    <3> QED
      BY <1>5, <3>1, <3>2
  <2>2. calls'[c].op \in KeyOps => calls'[c].user = calls[c].user
    BY <1>3 DEF KeyOps
  <2> QED
    BY <1>1, <1>3, <1>4, <1>5, <1>6, <2>1, <2>2, OwnKeys
<1> QED
  BY <1>1, <1>3, <1>6, <1>7, <1>8, <1>9, RestKeeps

LEMMA DeleteUserKeeps ==
  ASSUME AccountInv, NEW c \in Callers, DeleteUser(c)
  PROVE  AccountInv'
<1>1. /\ calls' \in [Callers -> Call] /\ \A d \in Callers \ {c} : calls'[d] = calls[d]
      /\ calls'[c].op = "idle" /\ calls'[c].op \notin KeyOps
  BY EndsMoves DEF DeleteUser, KeyOps
<1>2. AccountTypeOK /\ CallsOK /\ calls[c].user \in Users /\ users[calls[c].user] # "absent"
  BY UpFacts DEF AccountInv, AccountTypes, DeleteUser, At, CallsOK
<1>3. /\ users' \in [Users -> {"absent", "active", "disabled", "deleted"}]
      /\ \A u \in Users : users[u] = "absent" <=> users'[u] = "absent"
  BY <1>2 DEF DeleteUser, AccountTypeOK
<1>4. AccountTypes'
  <2>1. keys \in [Users -> Seq(KeyStatus)]
    BY DEF AccountInv, AccountTypes
  <2> QED
    BY <1>1, <1>2, <1>3, <2>1 DEF AccountTypes, AccountTypeOK, DeleteUser
<1>5. CallsOK'
  BY <1>1, <1>3, CallsFrame
<1>6. KeysOK'
  BY <1>1, KeysFrame DEF DeleteUser
<1>7. ~Joins(c)
  BY DEF DeleteUser, At, Joins
<1> QED
  BY <1>1, <1>3, <1>4, <1>5, <1>6, <1>7, RestKeeps DEF DeleteUser

LEMMA KeyReadKeeps ==
  ASSUME AccountInv, NEW c \in Callers,
         CreateKeyRead(c) \/ ChangeKeyRead(c, "patchKey") \/ ChangeKeyRead(c, "revokeKey")
  PROVE  AccountInv'
<1>1. /\ calls[c].op \in {"createKey", "patchKey", "revokeKey"} /\ calls[c].user \in Users
      /\ ~Joins(c) /\ calls[c].op \in KeyOps /\ calls[c].key \in 1..MaxKeys
      /\ UNCHANGED <<users, groups, members, indexed, keys, invite, stage, surplus, excused, clashed>>
  BY UpFacts DEF CreateKeyRead, ChangeKeyRead, At, Joins, KeyOps
<1>2. PICK u \in Users : u = calls[c].user
  BY <1>1
<1>3. /\ calls' \in [Callers -> Call] /\ \A d \in Callers \ {c} : calls'[d] = calls[d]
      /\ \/ calls'[c].op = "idle"
         \/ /\ calls'[c].op = calls[c].op /\ calls'[c].user = u
            /\ \/ calls[c].op = "createKey"
               \/ calls'[c].at = "write"
            /\ calls[c].op = "createKey" /\ calls'[c].at = "write" => Unrevoked(u) = {}
            /\ calls[c].op = "patchKey" =>
                 calls'[c].status = "revoked" \/ calls'[c].key \in Unrevoked(u)
  <2>1. CASE Ends(c)
    BY <2>1, EndsMoves
  <2>2. CASE CreateKeyRead(c) /\ ~Ends(c)
    <3>1. calls[c].op = "createKey"
      BY <2>2 DEF CreateKeyRead, At
    <3>2. CASE Unrevoked(u) = {}
      <4>1. Goes(c, "write")
        BY <1>2, <2>2, <3>2 DEF CreateKeyRead
      <4> QED
        BY <1>2, <3>1, <3>2, <4>1, GoesMoves
    <3>3. CASE Unrevoked(u) # {}
      <4>1. Goes(c, "clear")
        BY <1>2, <2>2, <3>3 DEF CreateKeyRead
      <4> QED
        BY <1>2, <3>1, <3>3, <4>1, GoesMoves
    <3> QED
      BY <3>2, <3>3
  <2>3. CASE (ChangeKeyRead(c, "patchKey") \/ ChangeKeyRead(c, "revokeKey")) /\ ~Ends(c)
    <3>1. /\ Goes(c, "write") /\ calls[c].op \in {"patchKey", "revokeKey"}
          /\ calls[c].key \in DOMAIN keys[u]
          /\ keys[u][calls[c].key] = "revoked" /\ calls[c].op = "patchKey" =>
               calls[c].status = "revoked"
      BY <1>2, <2>3 DEF ChangeKeyRead, At
    <3>2. calls[c].op = "patchKey" => calls[c].status = "revoked" \/ calls[c].key \in Unrevoked(u)
      BY <3>1 DEF Unrevoked
    <3> QED
      BY <1>2, <3>1, <3>2, GoesMoves
  <2> QED
    BY <2>1, <2>2, <2>3
<1>4. AccountTypes'
  BY <1>1, <1>3, TypesFrame
<1>5. CallsOK'
  <2>1. CallsOK
    BY DEF AccountInv
  <2> QED
    BY <1>1, <1>3, <2>1 DEF CallsOK
<1>6. KeysOK'
  <2>1. Unrevoked(u)' = Unrevoked(u)
    BY <1>1 DEF Unrevoked
  <2>2. \A v \in Users : v = calls[c].user /\ KeysOf(v) =>
            /\ AtMostOne(Unrevoked(v)')
            /\ calls'[c].op = "createKey" /\ calls'[c].at = "write" => Unrevoked(v)' = {}
            /\ calls'[c].op = "patchKey" /\ calls'[c].at = "write" =>
                 calls'[c].status = "revoked" \/ calls'[c].key \in Unrevoked(v)'
    BY <1>2, <1>3, <2>1 DEF KeysOf
  <2>3. calls'[c].op \in KeyOps => calls'[c].user = calls[c].user
    BY <1>2, <1>3 DEF KeyOps
  <2> QED
    BY <1>1, <1>3, <2>2, <2>3, OwnKeys
<1> QED
  BY <1>1, <1>3, <1>4, <1>5, <1>6, RestKeeps

LEMMA KeyWriteKeeps ==
  ASSUME AccountInv, NEW c \in Callers,
         CreateKeyInsert(c) \/ ChangeKeyWrite(c, "patchKey") \/ ChangeKeyWrite(c, "revokeKey")
  PROVE  AccountInv'
<1>1. /\ calls[c].op \in {"createKey", "patchKey", "revokeKey"} /\ calls[c].user \in Users
      /\ calls[c].at = "write" /\ calls[c].status \in KeyStatus /\ calls[c].key \in 1..MaxKeys
      /\ ~Joins(c) /\ calls[c].op \in KeyOps
      /\ UNCHANGED <<users, groups, members, indexed, invite, stage, surplus, excused, clashed>>
  BY UpFacts DEF CreateKeyInsert, ChangeKeyWrite, At, Joins, KeyOps
<1>2. PICK u \in Users : u = calls[c].user
  BY <1>1
<1>3. /\ calls' \in [Callers -> Call] /\ \A d \in Callers \ {c} : calls'[d] = calls[d]
      /\ calls'[c].op = "idle" /\ calls'[c].op \notin KeyOps
  BY EndsMoves DEF CreateKeyInsert, ChangeKeyWrite, KeyOps
<1>4. /\ keys \in [Users -> Seq(KeyStatus)] /\ \A v \in Users : Len(keys[v]) <= MaxKeys
      /\ keys[u] \in Seq(KeyStatus) /\ Len(keys[u]) \in Nat
  BY DEF AccountInv, AccountTypes, AccountTypeOK
<1>5. /\ keys' \in [Users -> Seq(KeyStatus)] /\ \A v \in Users : Len(keys'[v]) <= MaxKeys
      /\ \A v \in Users : v # u => keys'[v] = keys[v]
      /\ KeysOf(u) => AtMostOne(Unrevoked(u)')
  <2>1. CASE CreateKeyInsert(c)
    <3> DEFINE s == Append(keys[u], "active")
    <3>1. /\ s \in Seq(KeyStatus) /\ Len(s) = Len(keys[u]) + 1
          /\ \A i \in 1..Len(keys[u]) : s[i] = keys[u][i]
      BY <1>4 DEF KeyStatus
    <3>2. keys' = [keys EXCEPT ![u] = s] /\ Len(keys[u]) < MaxKeys
      BY <1>2, <1>4, <2>1 DEF CreateKeyInsert
    <3> HIDE DEF s
    <3>3. keys'[u] = s /\ \A v \in Users : v # u => keys'[v] = keys[v]
      BY <1>4, <3>2
    <3>4. \A v \in Users : Len(keys'[v]) <= MaxKeys
      BY <1>4, <3>1, <3>2, <3>3, CountsAssumption
    <3>5. keys' \in [Users -> Seq(KeyStatus)]
      BY <1>4, <3>1, <3>2
    <3>6. ASSUME KeysOf(u) PROVE AtMostOne(Unrevoked(u)')
      <4>1. Unrevoked(u) = {}
        <5>1. c \in AboutKeysOf(u) /\ calls[c].op = "createKey"
          BY <1>1, <1>2, <2>1 DEF AboutKeysOf, CreateKeyInsert, At
        <5> QED
          BY <1>1, <3>6, <5>1 DEF KeysOf
      <4>2. \A i \in 1..Len(keys[u]) : keys[u][i] = "revoked"
        BY <1>4, <4>1 DEF Unrevoked
      <4>3. \A i \in Unrevoked(u)' : i = Len(s)
        BY <1>4, <3>1, <3>3, <4>2 DEF Unrevoked
      <4> QED
        BY <4>3 DEF AtMostOne
    <3> QED
      BY <3>3, <3>4, <3>5, <3>6
  <2>2. CASE ChangeKeyWrite(c, "patchKey") \/ ChangeKeyWrite(c, "revokeKey")
    <3> DEFINE k == calls[c].key
               x == IF calls[c].op = "revokeKey" THEN "revoked" ELSE calls[c].status
               s == [keys[u] EXCEPT ![k] = x]
    <3>1. x \in KeyStatus
      BY <1>1 DEF KeyStatus
    <3>2. keys' = [keys EXCEPT ![u] = s]
      BY <1>2, <1>4, <2>2 DEF ChangeKeyWrite, At
    <3>3. x # "revoked" => calls[c].op = "patchKey" /\ calls[c].status # "revoked"
      BY <1>1, <2>2 DEF ChangeKeyWrite, At
    <3> HIDE DEF x, k
    <3>4. s \in Seq(KeyStatus) /\ Len(s) = Len(keys[u]) /\ DOMAIN s = DOMAIN keys[u]
      <4>1. DOMAIN s = DOMAIN keys[u] /\ DOMAIN keys[u] = 1..Len(keys[u])
        BY <1>4
      <4>2. keys[u] \in [1..Len(keys[u]) -> KeyStatus]
        BY <1>4
      <4>3. s \in [1..Len(keys[u]) -> KeyStatus]
        BY <3>1, <4>2
      <4>4. s \in Seq(KeyStatus)
        BY <1>4, <4>3
      <4> QED
        BY <1>4, <4>1, <4>4
    <3>5. \A i \in DOMAIN s : s[i] = IF i = k THEN x ELSE keys[u][i]
      BY <1>4
    <3> HIDE DEF s
    <3>6. keys'[u] = s /\ \A v \in Users : v # u => keys'[v] = keys[v]
      BY <1>4, <3>2
    <3>7. keys' \in [Users -> Seq(KeyStatus)]
      BY <1>4, <3>2, <3>4
    <3>8. \A v \in Users : Len(keys'[v]) <= MaxKeys
      BY <1>4, <3>4, <3>6
    <3>9. ASSUME KeysOf(u) PROVE AtMostOne(Unrevoked(u)')
      <4>1. x # "revoked" => k \in Unrevoked(u)
        <5>1. c \in AboutKeysOf(u)
          BY <1>1, <1>2 DEF AboutKeysOf
        <5> QED
          BY <1>1, <3>3, <3>9, <5>1 DEF KeysOf, k
      <4>2. Unrevoked(u)' \subseteq Unrevoked(u)
        BY <3>4, <3>5, <3>6, <4>1 DEF Unrevoked
      <4> QED
        BY <3>9, <4>2 DEF KeysOf, AtMostOne
    <3> QED
      BY <3>6, <3>7, <3>8, <3>9
  <2> QED
    BY <2>1, <2>2
<1>6. AccountTypes'
  BY <1>1, <1>3, <1>5, KeyTypes
<1>7. CallsOK'
  BY <1>1, <1>3, CallsFrame
<1>8. KeysOK'
  <2>1. \A v \in Users : v = calls[c].user /\ KeysOf(v) =>
            /\ AtMostOne(Unrevoked(v)')
            /\ calls'[c].op = "createKey" /\ calls'[c].at = "write" => Unrevoked(v)' = {}
            /\ calls'[c].op = "patchKey" /\ calls'[c].at = "write" =>
                 calls'[c].status = "revoked" \/ calls'[c].key \in Unrevoked(v)'
    BY <1>2, <1>3, <1>5
  <2>2. \A v \in Users : v # calls[c].user => keys'[v] = keys[v]
    BY <1>2, <1>5
  <2> QED
    BY <1>1, <1>3, <2>1, <2>2, OwnKeys
<1> QED
  BY <1>1, <1>3, <1>6, <1>7, <1>8, RestKeeps

LEMMA ArriveKeeps ==
  ASSUME AccountInv, NEW c \in Callers, NEW op \in Ops \ {"idle"}, NEW u \in Users, Arrive(c, op, u)
  PROVE  AccountInv'
<1> DEFINE Asked(g, k, s) == [Resting EXCEPT !.op = op, !.user = u, !.group = g, !.key = k, !.status = s]
<1>1. PICK g \in Groups, k \in 1..MaxKeys, s \in KeyStatus :
         /\ op = "patchUser" => s # "revoked"
         /\ calls' = [calls EXCEPT ![c] = Asked(g, k, s)]
  BY DEF Arrive
<1>2. /\ Asked(g, k, s) \in Call /\ Asked(g, k, s).op = op /\ Asked(g, k, s).user = u
      /\ Asked(g, k, s).status = s /\ Asked(g, k, s).at = "read"
  BY RestingIsCall DEF Resting, Call
<1> DEFINE x == Asked(g, k, s)
<1> HIDE DEF Asked, x
<1>3. /\ calls' \in [Callers -> Call] /\ calls'[c] = x /\ x.op = op /\ x.user = u /\ x.at = "read"
      /\ x.op = "patchUser" => x.status # "revoked"
      /\ \A d \in Callers \ {c} : calls'[d] = calls[d]
  BY <1>1, <1>2, UpFacts DEF x
<1>4. calls[c].op = "idle" /\ ~Joins(c)
  BY DEF Arrive, Joins
<1>5. UNCHANGED <<users, groups, members, indexed, keys, invite, stage, surplus, excused>>
  BY DEF Arrive
<1>6. AccountTypes'
  BY <1>3, <1>5, TypesFrame
<1>7. CallsOK'
  <2>1. CallsOK
    BY DEF AccountInv
  <2> QED
    BY <1>3, <1>5, <2>1 DEF CallsOK
<1>8. KeysOK'
  <2> SUFFICES ASSUME NEW v \in Users \ clashed' PROVE KeysOf(v)'
    BY DEF KeysOK
  <2>1. v \notin clashed /\ (op \in KeyOps /\ v = u => AboutKeysOf(u) = {})
    BY DEF Arrive
  <2>2. KeysOf(v)
    BY <2>1 DEF AccountInv, KeysOK
  <2>3. Unrevoked(v)' = Unrevoked(v)
    BY <1>5 DEF Unrevoked
  <2>4. \A d \in AboutKeysOf(v)' : \/ d \in AboutKeysOf(v) /\ calls'[d] = calls[d]
                                   \/ d = c /\ op \in KeyOps /\ v = u
    BY <1>3 DEF AboutKeysOf
  <2>5. AtMostOne(AboutKeysOf(v)')
    BY <2>1, <2>2, <2>4 DEF KeysOf, AtMostOne
  <2> QED
    BY <1>3, <2>2, <2>3, <2>4, <2>5 DEF KeysOf
<1> QED
  BY <1>3, <1>4, <1>5, <1>6, <1>7, <1>8, RestKeeps

LEMMA PatchInviteKeeps ==
  ASSUME AccountInv, PatchInvite
  PROVE  AccountInv'
<1>1. /\ UNCHANGED <<users, groups, members, indexed, keys, calls, stage, surplus, excused, clashed>>
      /\ invite' = [invite EXCEPT !.active = ~@]
  BY DEF PatchInvite
<1>2. AccountTypes'
  <2>1. AccountTypeOK /\ keys \in [Users -> Seq(KeyStatus)]
    BY DEF AccountInv, AccountTypes
  <2>2. invite' \in [used : 0..MaxUses, active : BOOLEAN]
    BY <1>1, <2>1 DEF AccountTypeOK
  <2> QED
    BY <1>1, <2>1, <2>2 DEF AccountTypes, AccountTypeOK
<1>3. CallsOK'
  BY <1>1 DEF AccountInv, CallsOK
<1>4. Exclusive'
  BY <1>1, ExclusiveFrame
<1>5. Belonging'
  <2>1. \A u : GroupsOf(u)' = GroupsOf(u)
    BY <1>1 DEF GroupsOf
  <2> QED
    BY <1>1, <2>1, BelongingFrame
<1>6. KeysOK'
  BY <1>1, KeysFrame
<1> QED
  BY <1>2, <1>3, <1>4, <1>5, <1>6 DEF AccountInv

\* The start
LEMMA RestartKeeps ==
  ASSUME AccountInv, Restart
  PROVE  AccountInv'
<1>1. /\ UNCHANGED <<users, groups, members, indexed, keys, invite, clashed>>
      /\ stage' = "repair" /\ surplus' = {} /\ calls' = [c \in Callers |-> Resting]
      /\ \A c \in Callers : Joins(c) => calls[c].user \in excused'
      /\ excused \subseteq excused'
  BY DEF Restart, Joins
<1>2. /\ calls' \in [Callers -> Call]
      /\ \A c \in Callers : calls'[c].op = "idle" /\ calls'[c].op \notin KeyOps
  BY <1>1, RestingIsCall DEF Resting, KeyOps
<1>3. AccountTypes'
  <2>1. AccountTypeOK /\ keys \in [Users -> Seq(KeyStatus)]
    BY DEF AccountInv, AccountTypes
  <2> QED
    BY <1>1, <1>2, <2>1 DEF AccountTypes, AccountTypeOK
<1>4. CallsOK'
  BY <1>1, <1>2, CallsFrame
<1>5. Exclusive'
  <2>1. \A u : GroupsOf(u)' = GroupsOf(u)
    BY <1>1 DEF GroupsOf
  <2> QED
    BY <1>1, <2>1 DEF AccountInv, Exclusive, AtMostOne
<1>6. Belonging'
  <2>1. \A u : GroupsOf(u)' = GroupsOf(u)
    BY <1>1 DEF GroupsOf
  <2>2. \A u \in Users, c \in Callers : Joins(c) /\ calls[c].user = u => Belongs(u)'
    BY <1>1 DEF Belongs
  <2> QED
    BY <1>1, <2>1, <2>2, BelongingFrame
<1>7. KeysOK'
  BY <1>1, <1>2, KeysFrame
<1> QED
  BY <1>3, <1>4, <1>5, <1>6, <1>7 DEF AccountInv

LEMMA RepairKeeps ==
  ASSUME AccountInv, Repair \/ RepairChunk \/ CreateIndex
  PROVE  AccountInv'
<1>1. UNCHANGED <<users, groups, keys, invite, calls, excused, clashed>>
  BY DEF Repair, RepairChunk, CreateIndex
<1>2. AccountTypeOK /\ Exclusive /\ CallsOK /\ keys \in [Users -> Seq(KeyStatus)]
  BY DEF AccountInv, AccountTypes
<1>3. CallsOK' /\ KeysOK'
  <2>1. KeysOK'
    BY <1>1, KeysFrame
  <2> QED
    BY <1>1, <1>2, <2>1 DEF CallsOK
<1>4. AccountTypes'
  <2>1. /\ members' \subseteq Users \X Groups /\ surplus' \subseteq members'
        /\ stage' \in {"repair", "index", "up"} /\ indexed' \in BOOLEAN
    BY <1>2 DEF Repair, RepairChunk, CreateIndex, AccountTypeOK
  <2> QED
    BY <1>1, <1>2, <2>1 DEF AccountTypes, AccountTypeOK
<1>5. /\ Exclusive'
      /\ \A u \in Users : GroupsOf(u) # {} => GroupsOf(u)' # {}
  <2>1. CASE Repair
    <3>1. PICK one \in [Users -> Groups] :
             /\ \A u \in Users : GroupsOf(u) # {} => KeepOne(u, one[u])
             /\ surplus' = {m \in members : m[2] # one[m[1]]}
      BY <2>1 DEF Repair
    <3>2. members' = members /\ stage' = "index" /\ indexed' = indexed
      BY <2>1 DEF Repair
    <3>3. \A u : GroupsOf(u)' = GroupsOf(u)
      BY <3>2 DEF GroupsOf
    <3>4. \A u \in Users : AtMostOne(Left(u)') /\ (GroupsOf(u) # {} => Left(u)' # {})
      <4> TAKE u \in Users
      <4>1. Left(u)' = {g \in GroupsOf(u) : g = one[u]}
        BY <3>1, <3>2 DEF Left, GroupsOf
      <4>2. GroupsOf(u) # {} => one[u] \in GroupsOf(u)
        BY <3>1 DEF KeepOne
      <4> QED
        BY <4>1, <4>2 DEF AtMostOne
    <3> QED
      BY <1>2, <3>2, <3>3, <3>4 DEF Exclusive, AtMostOne
  <2>2. CASE RepairChunk
    <3>1. PICK chunk \in SUBSET surplus : members' = members \ chunk /\ surplus' = surplus \ chunk
      BY <2>2 DEF RepairChunk
    <3>2. stage = "index" /\ stage' = "index" /\ indexed' = indexed
      BY <2>2 DEF RepairChunk
    <3>3. \A u : /\ Left(u)' = Left(u) /\ Left(u)' \subseteq GroupsOf(u)'
                 /\ GroupsOf(u)' \subseteq GroupsOf(u)
      BY <3>1 DEF Left, GroupsOf
    <3> QED
      BY <1>2, <3>2, <3>3 DEF Exclusive, AtMostOne
  <2>3. CASE CreateIndex
    <3>1. /\ members' = members /\ stage = "index" /\ stage' = "up"
          /\ surplus = {} /\ surplus' = {}
          /\ indexed' = \A u \in Users : Cardinality(GroupsOf(u)) <= 1
      BY <2>3 DEF CreateIndex
    <3>2. \A u : Left(u) = GroupsOf(u) /\ GroupsOf(u)' = GroupsOf(u)
      BY <3>1 DEF Left, GroupsOf
    <3>3. \A u \in Users : AtMostOne(GroupsOf(u))
      BY <1>2, <3>1, <3>2 DEF Exclusive
    <3>4. \A u \in Users : Cardinality(GroupsOf(u)) <= 1
      BY <3>3, OneAtMost
    <3>5. indexed'
      BY <3>1, <3>4
    <3> QED
      BY <3>1, <3>2, <3>3, <3>5 DEF Exclusive, AtMostOne
  <2> QED
    BY <2>1, <2>2, <2>3
<1>6. Belonging'
  BY <1>1, <1>5, BelongingFrame
<1> QED
  BY <1>3, <1>4, <1>5, <1>6 DEF AccountInv

\* The inductive invariant of the accounts: what each call knows between its statements, and what
\* it still owes its user (routes/users.ts, groups.ts, apiKeys.ts, auth.ts).
THEOREM AccountInvariant == AccountSpec => []AccountInv
<1>1. AccountInv /\ [AccountNext]_accountVars => AccountInv'
  <2> SUFFICES ASSUME AccountInv, [AccountNext]_accountVars PROVE AccountInv'
    OBVIOUS
  <2>1. CASE Repair \/ RepairChunk \/ CreateIndex \/ Restart \/ PatchInvite
    BY <2>1, RepairKeeps, RestartKeeps, PatchInviteKeeps
  <2>2. CASE \E c \in Callers, op \in Ops \ {"idle"}, u \in Users : Arrive(c, op, u)
    BY <2>2, ArriveKeeps
  <2>3. ASSUME NEW c \in Callers,
               \/ AddMemberRead(c) \/ AddMemberCheck(c) \/ AddMemberClear(c) \/ AddMemberWrite(c)
               \/ RemoveMember(c) \/ DeleteGroupMembers(c) \/ DeleteGroup(c)
        PROVE  AccountInv'
    BY <2>3, MemberReadKeeps, MemberClearKeeps, AddMemberWriteKeeps, UserKeeps
  <2>4. ASSUME NEW c \in Callers,
               \/ NewUserRead(c, "createUser") \/ CreateUserInsert(c) \/ CreateUserJoin(c)
               \/ NewUserRead(c, "register") \/ RegisterCheck(c) \/ RegisterWrite(c)
        PROVE  AccountInv'
    BY <2>4, NewUserReadKeeps, CreateUserKeeps, RegisterWriteKeeps
  <2>5. ASSUME NEW c \in Callers,
               \/ PatchUser(c) \/ DeleteUserKeys(c) \/ DeleteUser(c)
               \/ CreateKeyRead(c) \/ CreateKeyClear(c) \/ CreateKeyInsert(c)
               \/ ChangeKeyRead(c, "patchKey") \/ ChangeKeyWrite(c, "patchKey")
               \/ ChangeKeyRead(c, "revokeKey") \/ ChangeKeyWrite(c, "revokeKey")
        PROVE  AccountInv'
    BY <2>5, UserKeeps, DeleteUserKeeps, RevokeAllKeeps, KeyReadKeeps, KeyWriteKeeps
  <2>6. CASE UNCHANGED accountVars
    <3>1. UNCHANGED <<users, groups, members, indexed, keys, invite, calls, stage, surplus,
                      excused, clashed>>
      BY <2>6 DEF accountVars
    <3>2. /\ \A u : GroupsOf(u)' = GroupsOf(u) /\ Left(u)' = Left(u) /\ Unrevoked(u)' = Unrevoked(u)
          /\ \A u : AboutKeysOf(u)' = AboutKeysOf(u)
          /\ \A c : Joins(c)' <=> Joins(c)
      BY <3>1 DEF GroupsOf, Left, Unrevoked, AboutKeysOf, Joins
    <3>3. AccountTypes' /\ CallsOK' /\ Exclusive'
      BY <3>1, <3>2 DEF AccountInv, AccountTypes, AccountTypeOK, CallsOK, Exclusive, AtMostOne
    <3>4. Belonging'
      BY <3>1, <3>2, BelongingFrame
    <3>5. KeysOK'
      BY <3>1, KeysFrame
    <3> QED
      BY <3>3, <3>4, <3>5 DEF AccountInv
  <2> QED
    BY <2>1, <2>2, <2>3, <2>4, <2>5, <2>6 DEF AccountNext
<1> QED
  BY <1>1, AccountsBegin, PTL DEF AccountSpec

\* Every user is in exactly one group, except between the statements of a move and after what takes
\* one away; and a user whose calls did not overlap has at most one key that is not revoked: for
\* any callers, users and groups, and any size of the chunks of the repair.
THEOREM AccountsStayConsistent == AccountSpec => []AccountsConsistent
<1>1. AccountInv => AccountsConsistent
  <2> SUFFICES ASSUME AccountInv PROVE InOneGroup /\ OneUnrevokedKey
    BY DEF AccountsConsistent
  <2>1. Exclusive /\ Belonging /\ KeysOK
    BY DEF AccountInv
  <2>2. InOneGroup
    <3> SUFFICES ASSUME stage = "up", NEW u \in Users
        PROVE  /\ Cardinality(GroupsOf(u)) <= 1
               /\ \/ users[u] = "absent" \/ u \in excused \/ GroupsOf(u) # {}
                  \/ \E c \in Callers : calls[c].op \in {"addMember", "createUser"}
                                        /\ calls[c].user = u /\ calls[c].at \in {"write", "join"}
      BY DEF InOneGroup
    <3>1. Cardinality(GroupsOf(u)) <= 1
      BY <2>1, OneAtMost DEF Exclusive
    <3> QED
      BY <2>1, <3>1 DEF Belonging, Belongs, Joins
  <2>3. OneUnrevokedKey
    BY <2>1, OneAtMost DEF OneUnrevokedKey, KeysOK, KeysOf
  <2> QED
    BY <2>2, <2>3
<1> QED
  BY <1>1, AccountInvariant, PTL
-----------------------------------------------------------------------------
(* LoopGuard                                                                 *)

\* The settings the guard can keep to: no pattern looks further back than the buffer reaches,
\* and a limit on the age comes with one on the turns.  The defaults are such (5, 6, 400 and a
\* buffer of 500 turns); the table of settings accepts others.
FitsBuffer ==
    /\ IdenticalRepeats <= MaxBuffered + 1 /\ PingPongHalfCycles <= MaxBuffered + 1
    /\ ContinuationCeiling <= MaxBuffered + 1
    /\ MaxAge > 0 => ContinuationCeiling > 0

\* The buffer s of at most b turns against the whole history h of continuations: all of it after
\* the user's message, or the end of it.
WholeMirror(s, h, at) ==
    /\ at >= 0 /\ Len(s) = Len(h) + 1 /\ s[1] = Intent(at)
    /\ \A i \in 1..Len(h) : s[i + 1] = Continuation(h[i])

EndMirror(s, h, at, b) ==
    /\ Len(s) <= Len(h) /\ (Len(s) = b \/ (Len(s) = Len(h) /\ at = -1))
    /\ \A i \in 1..Len(s) : s[i] = Continuation(h[Len(h) - Len(s) + i])

Mirrors(s, h, at, b) == WholeMirror(s, h, at) \/ EndMirror(s, h, at, b)

\* A continuation is added to both.
LEMMA NextMirrors ==
  ASSUME NEW s, s \in Seq(Turns), NEW h, h \in Seq(Fingerprints), NEW at \in Int,
         NEW f \in Fingerprints, Len(s) <= MaxBuffered, Mirrors(s, h, at, MaxBuffered)
  PROVE  /\ Append(s, Continuation(f)) \in Seq(Turns)
         /\ Append(h, f) \in Seq(Fingerprints)
         /\ Len(Append(s, Continuation(f))) <= MaxBuffered + 1
         /\ Len(Append(h, f)) = Len(h) + 1
         /\ Mirrors(Append(s, Continuation(f)), Append(h, f), at, MaxBuffered + 1)
<1> DEFINE c == Continuation(f)
           t == Append(s, c)
           g == Append(h, f)
<1>1. c \in Turns
  BY LimitsAssumption DEF Continuation, Turns
<1>2. /\ t \in Seq(Turns) /\ Len(t) = Len(s) + 1 /\ t[Len(s) + 1] = c
      /\ \A i \in 1..Len(s) : t[i] = s[i]
  <2> HIDE DEF c
  <2> QED  BY <1>1
<1>3. /\ g \in Seq(Fingerprints) /\ Len(g) = Len(h) + 1 /\ g[Len(h) + 1] = f
      /\ \A i \in 1..Len(h) : g[i] = h[i]
  OBVIOUS
<1>4. Len(s) \in Nat /\ Len(h) \in Nat /\ MaxBuffered \in Nat
  BY LimitsAssumption
<1>5. Mirrors(t, g, at, MaxBuffered + 1)
  <2>1. CASE WholeMirror(s, h, at)
    <3> HIDE DEF t, g
    <3>1. Len(t) = Len(g) + 1 /\ t[1] = Intent(at) /\ at >= 0
      BY <1>2, <1>3, <1>4, <2>1 DEF WholeMirror
    <3>2. \A i \in 1..Len(g) : t[i + 1] = Continuation(g[i])
      BY <1>2, <1>3, <1>4, <2>1 DEF WholeMirror
    <3> QED  BY <3>1, <3>2 DEF Mirrors, WholeMirror
  <2>2. CASE EndMirror(s, h, at, MaxBuffered)
    <3> HIDE DEF t, g
    <3>1. Len(t) <= Len(g) /\ (Len(t) = MaxBuffered + 1 \/ (Len(t) = Len(g) /\ at = -1))
      BY <1>2, <1>3, <1>4, <2>2 DEF EndMirror
    <3>2. \A i \in 1..Len(t) : t[i] = Continuation(g[Len(g) - Len(t) + i])
      <4> SUFFICES ASSUME NEW i \in 1..Len(t)
                   PROVE  t[i] = Continuation(g[Len(g) - Len(t) + i])
        OBVIOUS
      <4>1. CASE i = Len(s) + 1
        <5>1. Len(g) - Len(t) + i = Len(h) + 1
          BY <1>2, <1>3, <1>4, <4>1
        <5> QED  BY <5>1, <4>1, <1>2, <1>3
      <4>2. CASE i \in 1..Len(s)
        <5>1. /\ Len(g) - Len(t) + i = Len(h) - Len(s) + i
              /\ Len(h) - Len(s) + i \in 1..Len(h)
          BY <1>2, <1>3, <1>4, <2>2, <4>2 DEF EndMirror
        <5> QED  BY <5>1, <4>2, <2>2, <1>2, <1>3 DEF EndMirror
      <4> QED  BY <1>2, <1>4, <4>1, <4>2
    <3> QED  BY <3>1, <3>2 DEF Mirrors, EndMirror
  <2> QED  BY <2>1, <2>2 DEF Mirrors
<1> QED
  BY <1>2, <1>3, <1>4, <1>5

\* Cutting the buffer drops the oldest turn, the user's message first.
LEMMA StoredMirrors ==
  ASSUME NEW t, t \in Seq(Turns), NEW g, g \in Seq(Fingerprints), NEW at \in Int,
         Len(t) <= MaxBuffered + 1, Len(g) > 0, Mirrors(t, g, at, MaxBuffered + 1)
  PROVE  /\ Stored(t) \in Seq(Turns) /\ Len(Stored(t)) <= MaxBuffered
         /\ Mirrors(Stored(t), g, at, MaxBuffered)
<1>1. Len(t) \in Nat /\ Len(g) \in Nat /\ MaxBuffered \in Nat
  BY LimitsAssumption
<1>2. CASE Len(t) <= MaxBuffered
  <2>1. Stored(t) = t
    BY <1>2 DEF Stored
  <2>2. Mirrors(t, g, at, MaxBuffered)
    BY <1>1, <1>2 DEF Mirrors, EndMirror
  <2> QED  BY <2>1, <2>2, <1>2
<1>3. CASE Len(t) = MaxBuffered + 1
  <2> DEFINE s == SubSeq(t, 2, MaxBuffered + 1)
  <2>1. Stored(t) = s
    BY <1>1, <1>3 DEF Stored, Latest
  <2>2. /\ s \in Seq(Turns) /\ Len(s) = MaxBuffered
        /\ \A i \in 1..MaxBuffered : s[i] = t[i + 1]
    BY <1>1, <1>3
  <2>3. EndMirror(s, g, at, MaxBuffered)
    <3> HIDE DEF s
    <3>1. CASE WholeMirror(t, g, at)
      BY <1>1, <1>3, <2>2, <3>1 DEF WholeMirror, EndMirror
    <3>2. CASE EndMirror(t, g, at, MaxBuffered + 1)
      BY <1>1, <1>3, <2>2, <3>2 DEF EndMirror
    <3> QED  BY <3>1, <3>2 DEF Mirrors
  <2> HIDE DEF s
  <2> QED  BY <2>1, <2>2, <2>3 DEF Mirrors
<1> QED
  BY <1>1, <1>2, <1>3

\* The last k turns of the buffer are the last k continuations, or begin with the user's message.
LEMMA Window ==
  ASSUME NEW t, t \in Seq(Turns), NEW g, g \in Seq(Fingerprints), NEW at \in Int,
         Len(t) <= MaxBuffered + 1, Mirrors(t, g, at, MaxBuffered + 1),
         NEW k \in Nat, k > 0, k <= MaxBuffered + 1
  PROVE  /\ k <= Len(g) => /\ k <= Len(t) /\ DOMAIN Latest(t, k) = 1..k
                           /\ \A j \in 1..k : Latest(t, k)[j] = Continuation(g[Len(g) - k + j])
         /\ k > Len(g) /\ k <= Len(t) =>
              /\ DOMAIN Latest(t, k) = 1..k
              /\ Latest(t, k)[1].kind # "continuation"
<1>1. Len(t) \in Nat /\ Len(g) \in Nat /\ MaxBuffered \in Nat
  BY LimitsAssumption
<1>2. ASSUME k <= Len(t)
      PROVE  /\ DOMAIN Latest(t, k) = 1..k
             /\ \A j \in 1..k : Latest(t, k)[j] = t[Len(t) - k + j]
  BY <1>1, <1>2 DEF Latest
<1>3. ASSUME k <= Len(g)
      PROVE  /\ k <= Len(t) /\ DOMAIN Latest(t, k) = 1..k
             /\ \A j \in 1..k : Latest(t, k)[j] = Continuation(g[Len(g) - k + j])
  <2>1. CASE WholeMirror(t, g, at)
    <3>1. \A j \in 1..k : t[Len(t) - k + j] = Continuation(g[Len(g) - k + j])
      <4> SUFFICES ASSUME NEW j \in 1..k PROVE t[Len(t) - k + j] = Continuation(g[Len(g) - k + j])
        OBVIOUS
      <4>1. Len(g) - k + j \in 1..Len(g) /\ Len(t) - k + j = (Len(g) - k + j) + 1
        BY <1>1, <1>3, <2>1 DEF WholeMirror
      <4> QED  BY <4>1, <2>1 DEF WholeMirror
    <3> QED  BY <1>1, <1>2, <1>3, <2>1, <3>1 DEF WholeMirror
  <2>2. CASE EndMirror(t, g, at, MaxBuffered + 1)
    <3>1. k <= Len(t)
      BY <1>1, <1>3, <2>2 DEF EndMirror
    <3>2. \A j \in 1..k : t[Len(t) - k + j] = Continuation(g[Len(g) - k + j])
      <4> SUFFICES ASSUME NEW j \in 1..k PROVE t[Len(t) - k + j] = Continuation(g[Len(g) - k + j])
        OBVIOUS
      <4>1. /\ Len(t) - k + j \in 1..Len(t)
            /\ Len(g) - Len(t) + (Len(t) - k + j) = Len(g) - k + j
        BY <1>1, <3>1
      <4> QED  BY <4>1, <2>2 DEF EndMirror
    <3> QED  BY <1>2, <3>1, <3>2
  <2> QED  BY <2>1, <2>2 DEF Mirrors
<1>4. ASSUME k > Len(g), k <= Len(t)
      PROVE  DOMAIN Latest(t, k) = 1..k /\ Latest(t, k)[1].kind # "continuation"
  <2>1. WholeMirror(t, g, at)
    BY <1>1, <1>4 DEF Mirrors, EndMirror
  <2>2. k = Len(t)
    BY <1>1, <1>4, <2>1 DEF WholeMirror
  <2>3. Latest(t, k)[1] = t[1]
    BY <1>1, <1>2, <2>2
  <2> QED  BY <1>2, <1>4, <2>1, <2>3 DEF WholeMirror, Intent
<1> QED
  BY <1>1, <1>3, <1>4
LEMMA ErrorsMatch ==
  ASSUME NEW t, t \in Seq(Turns), NEW g, g \in Seq(Fingerprints), NEW at \in Int,
         Len(t) <= MaxBuffered + 1, Mirrors(t, g, at, MaxBuffered + 1),
         IdenticalRepeats <= MaxBuffered + 1
  PROVE  IdenticalError(t) <=> SameErrors(g, IdenticalRepeats, 1)
<1> DEFINE k == IdenticalRepeats
           n == Len(g)
           w == Latest(t, k)
<1>1. k \in Nat /\ k >= 3 /\ n \in Nat /\ Len(t) \in Nat
  BY FloorsAssumption
<1>2. CASE k > n
  <2>1. ~SameErrors(g, k, 1)
    BY <1>1, <1>2 DEF SameErrors
  <2>2. k <= Len(t) => DOMAIN w = 1..k /\ w[1].kind # "continuation"
    BY <1>1, <1>2, Window
  <2>3. ~IdenticalError(t)
    BY <1>1, <2>2 DEF IdenticalError, AllErrors
  <2> QED  BY <2>1, <2>3
<1>3. CASE k <= n
  <2>1. /\ k <= Len(t) /\ DOMAIN w = 1..k
        /\ \A j \in 1..k : w[j] = Continuation(g[n - k + j])
    BY <1>1, <1>3, Window
  <2> HIDE DEF w
  <2>2. \A j \in 1..k : w[j].kind = "continuation" /\ w[j].print = g[n - k + j]
    BY <2>1 DEF Continuation
  <2>3. IdenticalError(t) <=> \A j \in 1..k : /\ g[n - k + j] \in ErrorPrints
                                              /\ g[n - k + j] = g[n - k + 1]
    <3>1. 1 \in 1..k
      BY <1>1
    <3>2. IdenticalError(t) <=> \A j \in 1..k : /\ w[j].kind = "continuation"
                                                /\ w[j].print \in ErrorPrints
                                                /\ w[j].print = w[1].print
      BY <1>1, <2>1 DEF IdenticalError, AllErrors, w
    <3> QED  BY <2>2, <3>1, <3>2
  <2>4. SameErrors(g, k, 1) <=> \A i \in n - k + 1 .. n : g[i] \in ErrorPrints /\ g[i] = g[n]
    <3>1. \A i \in n - k + 1 .. n : n - ((n - i) % 1) = n
      BY <1>1, <1>3
    <3> QED  BY <1>1, <1>3, <3>1 DEF SameErrors
  <2>5. ASSUME \A j \in 1..k : g[n - k + j] \in ErrorPrints /\ g[n - k + j] = g[n - k + 1],
               NEW i \in n - k + 1 .. n
        PROVE  g[i] \in ErrorPrints /\ g[i] = g[n]
    <3>1. /\ i - (n - k) \in 1..k /\ n - k + (i - (n - k)) = i
          /\ k \in 1..k /\ n - k + k = n
      BY <1>1, <1>3
    <3> QED  BY <2>5, <3>1
  <2>6. ASSUME \A i \in n - k + 1 .. n : g[i] \in ErrorPrints /\ g[i] = g[n],
               NEW j \in 1..k
        PROVE  g[n - k + j] \in ErrorPrints /\ g[n - k + j] = g[n - k + 1]
    <3>1. n - k + j \in n - k + 1 .. n /\ n - k + 1 \in n - k + 1 .. n
      BY <1>1, <1>3
    <3> QED  BY <2>6, <3>1
  <2> QED  BY <2>3, <2>4, <2>5, <2>6
<1> QED
  BY <1>1, <1>2, <1>3

\* Counted from the end of a window or from its begin, the halves of the cycle are the same.
LEMMA Parity ==
  ASSUME NEW k \in Nat, k >= 2, NEW j \in 1..k
  PROVE  /\ (k - j) % 2 \in {0, 1}
         /\ (k - j) % 2 = 0 <=> j % 2 = k % 2
         /\ j % 2 \in {0, 1} /\ k % 2 \in {0, 1}
         /\ (k - 1) % 2 # k % 2
         /\ k - ((k - j) % 2) \in 1..k
  OBVIOUS

LEMMA PingPongMatches ==
  ASSUME NEW t, t \in Seq(Turns), NEW g, g \in Seq(Fingerprints), NEW at \in Int,
         Len(t) <= MaxBuffered + 1, Mirrors(t, g, at, MaxBuffered + 1),
         PingPongHalfCycles <= MaxBuffered + 1
  PROVE  PingPong(t) <=> /\ SameErrors(g, PingPongHalfCycles, 2)
                         /\ g[Len(g) - 1] # g[Len(g)]
<1> DEFINE k == PingPongHalfCycles
           n == Len(g)
           w == Latest(t, k)
           u(j) == g[n - k + j]
<1>1. k \in Nat /\ k >= 6 /\ n \in Nat /\ Len(t) \in Nat
  BY FloorsAssumption
<1>2. CASE k > n
  <2>1. ~SameErrors(g, k, 2)
    BY <1>1, <1>2 DEF SameErrors
  <2>2. k <= Len(t) => DOMAIN w = 1..k /\ w[1].kind # "continuation"
    BY <1>1, <1>2, Window
  <2>3. ~PingPong(t)
    BY <1>1, <2>2 DEF PingPong, AllErrors
  <2> QED  BY <2>1, <2>3
<1>3. CASE k <= n
  <2>1. /\ k <= Len(t) /\ DOMAIN w = 1..k
        /\ \A j \in 1..k : w[j] = Continuation(u(j))
    BY <1>1, <1>3, Window
  <2> HIDE DEF w
  <2>2. \A j \in 1..k : w[j].kind = "continuation" /\ w[j].print = u(j)
    BY <2>1 DEF Continuation
  <2>3. PingPong(t) <=> /\ u(1) # u(2)
                        /\ \A j \in 1..k : /\ u(j) \in ErrorPrints
                                           /\ u(j) = u(IF j % 2 = 1 THEN 1 ELSE 2)
    <3>1. 1 \in 1..k /\ 2 \in 1..k /\ \A j \in 1..k : (IF j % 2 = 1 THEN 1 ELSE 2) \in 1..k
      BY <1>1
    <3> HIDE DEF u
    <3> QED
      BY <1>1, <2>1, <2>2, <3>1 DEF PingPong, AllErrors, w
  <2>4. SameErrors(g, k, 2) <=> \A j \in 1..k : /\ u(j) \in ErrorPrints
                                                /\ u(j) = u(k - ((k - j) % 2))
    <3>1. ASSUME SameErrors(g, k, 2), NEW j \in 1..k
          PROVE  u(j) \in ErrorPrints /\ u(j) = u(k - ((k - j) % 2))
      <4>1. n - k + j \in n - k + 1 .. n /\ n - (n - k + j) = k - j
        BY <1>1, <1>3
      <4>2. g[n - k + j] \in ErrorPrints /\ g[n - k + j] = g[n - ((n - (n - k + j)) % 2)]
        BY <3>1, <4>1 DEF SameErrors
      <4>3. (k - j) % 2 \in {0, 1}
        BY <1>1, Parity
      <4>4. n - ((n - (n - k + j)) % 2) = n - k + (k - ((k - j) % 2))
        BY <1>1, <4>1, <4>3
      <4> QED  BY <4>2, <4>4
    <3>2. ASSUME \A j \in 1..k : u(j) \in ErrorPrints /\ u(j) = u(k - ((k - j) % 2))
          PROVE  SameErrors(g, k, 2)
      <4> SUFFICES ASSUME NEW i \in n - k + 1 .. n
                   PROVE  g[i] \in ErrorPrints /\ g[i] = g[n - ((n - i) % 2)]
        BY <1>1, <1>3 DEF SameErrors
      <4> DEFINE j == i - (n - k)
      <4>1. j \in 1..k /\ n - k + j = i /\ n - i = k - j
        BY <1>1, <1>3
      <4>2. (k - j) % 2 \in {0, 1}
        BY <1>1, <4>1, Parity
      <4>3. n - ((n - i) % 2) = n - k + (k - ((k - j) % 2))
        BY <1>1, <4>1, <4>2
      <4> HIDE DEF j
      <4>4. u(j) \in ErrorPrints /\ u(j) = u(k - ((k - j) % 2))
        BY <3>2, <4>1
      <4> QED  BY <4>1, <4>3, <4>4
    <3> QED  BY <3>1, <3>2
  <2>5. g[n - 1] = u(k - 1) /\ g[n] = u(k)
    BY <1>1, <1>3
  <2> HIDE DEF u
  <2>6. ASSUME u(1) # u(2), \A j \in 1..k : u(j) = u(IF j % 2 = 1 THEN 1 ELSE 2)
        PROVE  /\ \A j \in 1..k : u(j) = u(k - ((k - j) % 2))
               /\ u(k - 1) # u(k)
    <3>1. ASSUME NEW j \in 1..k
          PROVE  u(j) = u(k - ((k - j) % 2))
      <4>1. LET m == k - ((k - j) % 2) IN m \in 1..k /\ m % 2 = j % 2
        BY <1>1
      <4> QED  BY <2>6, <4>1
    <3>2. k \in 1..k /\ k - 1 \in 1..k /\ (k % 2 = 1 <=> (k - 1) % 2 # 1)
      BY <1>1
    <3>3. u(k - 1) # u(k)
      BY <2>6, <3>2
    <3> QED  BY <3>1, <3>3
  <2>7. ASSUME u(k - 1) # u(k), \A j \in 1..k : u(j) = u(k - ((k - j) % 2))
        PROVE  /\ \A j \in 1..k : u(j) = u(IF j % 2 = 1 THEN 1 ELSE 2)
               /\ u(1) # u(2)
    <3>1. ASSUME NEW j \in 1..k
          PROVE  u(j) = u(IF j % 2 = 1 THEN 1 ELSE 2)
      <4> DEFINE m == IF j % 2 = 1 THEN 1 ELSE 2
      <4>1. m \in 1..k /\ m % 2 = j % 2
        BY <1>1
      <4>2. k - ((k - j) % 2) = k - ((k - m) % 2)
        BY <1>1, <4>1
      <4> QED  BY <2>7, <4>1, <4>2
    <3>2. 1 \in 1..k /\ 2 \in 1..k /\ {k - ((k - 1) % 2), k - ((k - 2) % 2)} = {k - 1, k}
      BY <1>1
    <3>3. u(1) = u(k - ((k - 1) % 2)) /\ u(2) = u(k - ((k - 2) % 2))
      BY <2>7, <3>2
    <3>4. u(1) # u(2)
      BY <2>7, <3>2, <3>3
    <3> QED  BY <3>1, <3>4
  <2> QED  BY <2>3, <2>4, <2>5, <2>6, <2>7
<1> QED
  BY <1>1, <1>2, <1>3
LEMMA IntentsFound ==
  ASSUME NEW t, t \in Seq(Turns), NEW g, g \in Seq(Fingerprints), NEW at \in Int,
         Mirrors(t, g, at, MaxBuffered + 1)
  PROVE  /\ WholeMirror(t, g, at) => IntentsIn(t) = {1} /\ 1 \in DOMAIN t
         /\ EndMirror(t, g, at, MaxBuffered + 1) => IntentsIn(t) = {}
<1>1. Len(t) \in Nat /\ Len(g) \in Nat /\ DOMAIN t = 1..Len(t)
  OBVIOUS
<1>2. ASSUME WholeMirror(t, g, at)
      PROVE  IntentsIn(t) = {1} /\ 1 \in DOMAIN t
  <2>1. 1 \in DOMAIN t /\ t[1].kind = "user_intent"
    BY <1>1, <1>2 DEF WholeMirror, Intent
  <2>2. ASSUME NEW i \in DOMAIN t, i # 1
        PROVE  t[i].kind # "user_intent"
    <3>1. i - 1 \in 1..Len(g) /\ (i - 1) + 1 = i
      BY <1>1, <1>2, <2>2 DEF WholeMirror
    <3>2. t[i] = Continuation(g[i - 1])
      BY <1>2, <3>1 DEF WholeMirror
    <3> QED  BY <3>2 DEF Continuation
  <2> QED  BY <2>1, <2>2 DEF IntentsIn
<1>3. ASSUME EndMirror(t, g, at, MaxBuffered + 1)
      PROVE  IntentsIn(t) = {}
  <2>1. \A i \in DOMAIN t : t[i].kind = "continuation"
    BY <1>1, <1>3 DEF EndMirror, Continuation
  <2> QED  BY <2>1 DEF IntentsIn
<1> QED
  BY <1>2, <1>3

LEMMA CeilingMatches ==
  ASSUME NEW t, t \in Seq(Turns), NEW g, g \in Seq(Fingerprints), NEW at \in Int,
         Mirrors(t, g, at, MaxBuffered + 1), ContinuationCeiling <= MaxBuffered + 1
  PROVE  TurnCeiling(t) <=> ContinuationCeiling > 0 /\ Len(g) >= ContinuationCeiling
<1>1. /\ Len(t) \in Nat /\ Len(g) \in Nat
      /\ ContinuationCeiling \in Nat /\ MaxBuffered \in Nat
  BY LimitsAssumption
<1>2. CASE WholeMirror(t, g, at)
  <2>1. IntentsIn(t) = {1}
    BY <1>2, IntentsFound
  <2>2. SinceIntent(t) = SubSeq(t, 2, Len(t))
    BY <2>1 DEF SinceIntent
  <2>3. Len(t) = Len(g) + 1
    BY <1>2 DEF WholeMirror
  <2>4. Len(SinceIntent(t)) = Len(g)
    BY <1>1, <2>2, <2>3
  <2> QED  BY <2>4 DEF TurnCeiling
<1>3. CASE EndMirror(t, g, at, MaxBuffered + 1)
  <2>1. SinceIntent(t) = t
    BY <1>3, IntentsFound DEF SinceIntent
  <2>2. Len(t) <= Len(g) /\ (Len(t) = MaxBuffered + 1 \/ Len(t) = Len(g))
    BY <1>3 DEF EndMirror
  <2> QED  BY <1>1, <2>1, <2>2 DEF TurnCeiling
<1> QED
  BY <1>2, <1>3 DEF Mirrors

\* The time of the user's message is known as long as it is in the buffer; when it no longer is,
\* the turns have reached their ceiling.
LEMMA AgeMatches ==
  ASSUME NEW t, t \in Seq(Turns), NEW g, g \in Seq(Fingerprints), NEW at \in Int,
         at >= -1, clock \in Nat, Mirrors(t, g, at, MaxBuffered + 1), FitsBuffer, g # <<>>
  PROVE  LET age == IF at >= 0 THEN clock - at ELSE 0 IN
         /\ AgeCeiling(t) => MaxAge > 0 /\ age >= MaxAge
         /\ MaxAge > 0 /\ age >= MaxAge => AgeCeiling(t) \/ TurnCeiling(t)
<1> DEFINE age == IF at >= 0 THEN clock - at ELSE 0
<1>1. /\ Len(t) \in Nat /\ Len(g) \in Nat /\ MaxAge \in Nat
      /\ ContinuationCeiling \in Nat /\ MaxBuffered \in Nat
  BY LimitsAssumption
<1>2. CASE WholeMirror(t, g, at)
  <2>1. IntentsIn(t) = {1} /\ t[1].at = at /\ at >= 0
    BY <1>2, IntentsFound DEF WholeMirror, Intent
  <2>2. AgeCeiling(t) <=> MaxAge > 0 /\ clock - at >= MaxAge
    BY <2>1 DEF AgeCeiling
  <2> QED  BY <2>1, <2>2
<1>3. CASE EndMirror(t, g, at, MaxBuffered + 1)
  <2>1. ~AgeCeiling(t)
    BY <1>3, IntentsFound DEF AgeCeiling
  <2>2. ASSUME MaxAge > 0, age >= MaxAge
        PROVE  TurnCeiling(t)
    <3>1. at # -1
      BY <1>1, <2>2
    <3>2. Len(t) = MaxBuffered + 1 /\ Len(t) <= Len(g)
      BY <1>3, <3>1 DEF EndMirror
    <3>3. ContinuationCeiling > 0 /\ ContinuationCeiling <= MaxBuffered + 1
      BY <2>2 DEF FitsBuffer
    <3>4. Len(g) >= ContinuationCeiling
      BY <1>1, <3>2, <3>3
    <3> QED  BY <3>3, <3>4, CeilingMatches
  <2> QED  BY <2>1, <2>2
<1> QED
  BY <1>2, <1>3 DEF Mirrors

\* On any buffer that mirrors the history the detector finds a reason the history gives, and finds
\* one when there is one.
LEMMA Detects ==
  ASSUME NEW t, t \in Seq(Turns), NEW g, g \in Seq(Fingerprints), NEW at \in Int,
         at >= -1, clock \in Nat, Len(t) <= MaxBuffered + 1,
         Mirrors(t, g, at, MaxBuffered + 1), FitsBuffer, g # <<>>,
         NEW age, age = (IF at >= 0 THEN clock - at ELSE 0)
  PROVE  /\ Detected(t) \in Reasons \cup {"none"}
         /\ Detected(t) # "none" => Detected(t) \in ReasonsFor(g, age)
         /\ Detected(t) = "none" => ReasonsFor(g, age) = {}
<1>1. IdenticalError(t) <=> SameErrors(g, IdenticalRepeats, 1)
  BY ErrorsMatch DEF FitsBuffer
<1>2. PingPong(t) <=> /\ SameErrors(g, PingPongHalfCycles, 2)
                      /\ g[Len(g) - 1] # g[Len(g)]
  BY PingPongMatches DEF FitsBuffer
<1>3. TurnCeiling(t) <=> ContinuationCeiling > 0 /\ Len(g) >= ContinuationCeiling
  BY CeilingMatches DEF FitsBuffer
<1>4. /\ AgeCeiling(t) => MaxAge > 0 /\ age >= MaxAge
      /\ MaxAge > 0 /\ age >= MaxAge => AgeCeiling(t) \/ TurnCeiling(t)
  BY AgeMatches
<1>5. /\ "identical_error" \in ReasonsFor(g, age) <=> IdenticalError(t)
      /\ "ping_pong" \in ReasonsFor(g, age) <=> PingPong(t)
      /\ "turn_ceiling" \in ReasonsFor(g, age) <=> TurnCeiling(t)
      /\ AgeCeiling(t) => "age_ceiling" \in ReasonsFor(g, age)
      /\ "age_ceiling" \in ReasonsFor(g, age) => AgeCeiling(t) \/ TurnCeiling(t)
      /\ \A r \in ReasonsFor(g, age) : r \in Reasons
  BY <1>1, <1>2, <1>3, <1>4 DEF ReasonsFor, Reasons
<1>6. CASE IdenticalError(t)
  BY <1>5, <1>6 DEF Detected, Reasons
<1>7. CASE ~IdenticalError(t) /\ PingPong(t)
  BY <1>5, <1>7 DEF Detected, Reasons
<1>8. CASE ~IdenticalError(t) /\ ~PingPong(t) /\ TurnCeiling(t)
  BY <1>5, <1>8 DEF Detected, Reasons
<1>9. CASE ~IdenticalError(t) /\ ~PingPong(t) /\ ~TurnCeiling(t) /\ AgeCeiling(t)
  BY <1>5, <1>9 DEF Detected, Reasons
<1>10. CASE ~IdenticalError(t) /\ ~PingPong(t) /\ ~TurnCeiling(t) /\ ~AgeCeiling(t)
  <2>1. Detected(t) = "none"
    BY <1>10 DEF Detected
  <2>2. ReasonsFor(g, age) = {}
    BY <1>5, <1>10 DEF Reasons
  <2> QED  BY <2>1, <2>2 DEF Reasons
<1> QED
  BY <1>6, <1>7, <1>8, <1>9, <1>10
\* Some prefix of the history gave the reason r.
Gave(r, h, age) == \E n \in DOMAIN h : r \in ReasonsFor(SubSeq(h, 1, n), age)

\* What the guard remembers: the buffer mirrors the history until a stop, and the stop has a
\* reason in it.
GuardMemory ==
    /\ intentAt <= seenAt /\ seenAt <= clock
    /\ tripped = "none" => Mirrors(turns, inspected, intentAt, MaxBuffered)
    /\ tripped # "none" => Gave(tripped, inspected, Age)

\* What it last answered
GuardAnswer ==
    /\ verdict \in Reasons => verdict = tripped
    /\ verdict = "passed" => tripped = "none" /\ ReasonsFor(inspected, Age) = {}

\* A request that may hop is a continuation.
GuardRequest == current.hops > 0 => current.print \in Fingerprints

GuardInv == GuardTypeOK /\ GuardRequest /\ GuardMemory /\ GuardAnswer

LEMMA NoReasonYet == \A age : ReasonsFor(<<>>, age) = {}
BY FloorsAssumption, LimitsAssumption DEF ReasonsFor, Reasons, SameErrors

LEMMA AgeGrows ==
  ASSUME NEW r, NEW h, NEW x \in Int, NEW y \in Int, x <= y, Gave(r, h, x)
  PROVE  Gave(r, h, y)
<1>1. PICK n \in DOMAIN h : r \in ReasonsFor(SubSeq(h, 1, n), x)
  BY DEF Gave
<1>2. r \in ReasonsFor(SubSeq(h, 1, n), y)
  <2>1. x >= MaxAge => y >= MaxAge
    BY LimitsAssumption
  <2> DEFINE q == SubSeq(h, 1, n)
  <2> HIDE DEF q
  <2> QED  BY <1>1, <2>1 DEF ReasonsFor, q
<1> QED
  BY <1>2 DEF Gave

LEMMA GuardBegins == GuardInit => GuardInv
<1> SUFFICES ASSUME GuardInit PROVE GuardInv
  OBVIOUS
<1> USE DEF GuardInit
<1>1. GuardTypeOK
  <2>1. turns \in Seq(Turns) /\ Len(turns) = 0 /\ inspected \in Seq(Fingerprints)
    OBVIOUS
  <2>2. /\ clock \in 0..MaxTime /\ seenAt \in 0..MaxTime /\ intentAt \in -1..MaxTime
        /\ asked \in 0..MaxTurns /\ received \in 0..IdenticalRepeats
        /\ current.hops \in 0..MaxHops /\ 0 <= MaxBuffered
    BY FloorsAssumption, LimitsAssumption DEF NoRequest
  <2>3. current \in [print : Fingerprints \cup {"none"}, hops : 0..MaxHops]
    BY <2>2 DEF NoRequest
  <2>4. verdict = "passed" /\ tripped = "none" /\ enabled \in BOOLEAN /\ unavailable \in BOOLEAN
    OBVIOUS
  <2> QED  BY <2>1, <2>2, <2>3, <2>4 DEF GuardTypeOK
<1>2. GuardMemory
  BY LimitsAssumption DEF GuardMemory, Mirrors, EndMirror
<1>3. GuardAnswer
  BY NoReasonYet DEF GuardAnswer, Reasons
<1>4. GuardRequest
  BY DEF GuardRequest, NoRequest
<1> QED
  BY <1>1, <1>2, <1>3, <1>4 DEF GuardInv

\* An inspection keeps the memory and answers by it.
LEMMA InspectKeeps ==
  ASSUME FitsBuffer, GuardInv, NEW f \in Fingerprints, Inspect(f),
         UNCHANGED <<enabled, unavailable, clock, intentAt>>
  PROVE  /\ turns' \in Seq(Turns) /\ Len(turns') <= MaxBuffered
         /\ tripped' \in Reasons \cup {"none"} /\ verdict' \in Reasons \cup {"passed", "off"}
         /\ inspected' \in Seq(Fingerprints) /\ seenAt' \in 0..MaxTime /\ asked' \in 0..MaxTurns
         /\ GuardMemory' /\ GuardAnswer'
<1>1. /\ turns \in Seq(Turns) /\ Len(turns) <= MaxBuffered
      /\ tripped \in Reasons \cup {"none"} /\ inspected \in Seq(Fingerprints)
      /\ clock \in 0..MaxTime /\ clock \in Nat /\ seenAt \in 0..MaxTime /\ asked \in 0..MaxTurns
      /\ intentAt \in Int /\ intentAt >= -1
      /\ GuardMemory /\ GuardAnswer
  BY LimitsAssumption DEF GuardInv, GuardTypeOK
<1>2. /\ intentAt' = intentAt /\ clock' = clock /\ seenAt' = clock
      /\ seenAt' \in 0..MaxTime /\ asked' \in 0..MaxTurns
      /\ intentAt' <= seenAt' /\ seenAt' <= clock'
  BY <1>1, LimitsAssumption DEF Inspect, GuardMemory
<1>3. Age \in Int /\ Age' \in Int /\ Age <= Age'
  BY <1>1, <1>2 DEF Age, GuardMemory
<1>4. Age' = IF intentAt >= 0 THEN clock - intentAt ELSE 0
  BY <1>2 DEF Age
<1> DEFINE next == Append(turns, Continuation(f))
           seen == Append(inspected, f)
\* Nothing is remembered: the settings are not known, or the conversation is stopped already.
<1>5. ASSUME UNCHANGED <<tripped, inspected, turns>>
      PROVE  GuardMemory'
  BY <1>1, <1>2, <1>3, <1>5, AgeGrows DEF GuardMemory
<1>6. CASE unavailable
  <2>1. tripped' = tripped /\ inspected' = inspected /\ turns' = turns /\ verdict' = "off"
    BY <1>6 DEF Inspect
  <2>2. GuardAnswer'
    BY <2>1 DEF GuardAnswer, Reasons
  <2>3. GuardMemory'
    BY <1>5, <2>1
  <2>4. /\ turns' \in Seq(Turns) /\ Len(turns') <= MaxBuffered
        /\ tripped' \in Reasons \cup {"none"} /\ inspected' \in Seq(Fingerprints)
    BY <1>1, <2>1
  <2>5. verdict' \in Reasons \cup {"passed", "off"}
    BY <2>1
  <2> QED  BY <1>2, <2>2, <2>3, <2>4, <2>5
<1>7. CASE ~unavailable /\ tripped # "none"
  <2>1. UNCHANGED <<tripped, inspected>>
    BY <1>7 DEF Inspect, InspectOff
  <2>2. GuardMemory'
    BY <1>1, <1>2, <1>3, <1>7, <2>1, AgeGrows DEF GuardMemory
  <2>3. CASE enabled
    <3>1. turns' = turns /\ verdict' = tripped
      BY <1>7, <2>3 DEF Inspect
    <3>2. GuardAnswer'
      BY <1>1, <1>7, <2>1, <3>1 DEF GuardAnswer, Reasons
    <3>3. /\ turns' \in Seq(Turns) /\ Len(turns') <= MaxBuffered
          /\ tripped' \in Reasons \cup {"none"} /\ inspected' \in Seq(Fingerprints)
      BY <1>1, <2>1, <3>1
    <3>4. verdict' \in Reasons \cup {"passed", "off"}
      BY <1>1, <1>7, <3>1
    <3> QED  BY <1>2, <2>2, <3>2, <3>3, <3>4
  <2>4. CASE ~enabled
    <3>1. turns' = Stored(next) /\ verdict' = "off"
      BY <1>7, <2>4 DEF Inspect, InspectOff
    <3>2. GuardAnswer'
      BY <3>1 DEF GuardAnswer, Reasons
    <3>3. next \in Seq(Turns) /\ Len(next) <= MaxBuffered + 1
      <4>1. Continuation(f) \in Turns
        BY LimitsAssumption DEF Continuation, Turns
      <4> QED  BY <1>1, <4>1, LimitsAssumption
    <3> HIDE DEF next
    <3>4. Stored(next) \in Seq(Turns) /\ Len(Stored(next)) <= MaxBuffered
      BY <3>3, LimitsAssumption DEF Stored, Latest
    <3> QED  BY <1>1, <1>2, <2>1, <2>2, <3>1, <3>2, <3>4
  <2> QED  BY <2>3, <2>4
<1>8. CASE ~unavailable /\ tripped = "none"
  <2>1. inspected' = seen
    BY <1>8 DEF Inspect
  <2>2. /\ next \in Seq(Turns) /\ Len(next) <= MaxBuffered + 1
        /\ seen \in Seq(Fingerprints) /\ Len(seen) > 0
        /\ Mirrors(next, seen, intentAt, MaxBuffered + 1)
    <3>1. Mirrors(turns, inspected, intentAt, MaxBuffered)
      BY <1>1, <1>8 DEF GuardMemory
    <3>2. /\ next \in Seq(Turns) /\ Len(next) <= MaxBuffered + 1
          /\ seen \in Seq(Fingerprints) /\ Len(seen) = Len(inspected) + 1
          /\ Mirrors(next, seen, intentAt, MaxBuffered + 1)
      BY <1>1, <3>1, NextMirrors
    <3> QED  BY <1>1, <3>2
  <2> HIDE DEF next, seen
  <2>3. /\ Stored(next) \in Seq(Turns) /\ Len(Stored(next)) <= MaxBuffered
        /\ Mirrors(Stored(next), seen, intentAt, MaxBuffered)
    BY <1>1, <2>2, StoredMirrors
  <2>4. /\ Detected(next) \in Reasons \cup {"none"}
        /\ Detected(next) # "none" => Detected(next) \in ReasonsFor(seen, Age')
        /\ Detected(next) = "none" => ReasonsFor(seen, Age') = {}
    <3>1. seen # <<>>
      BY <2>2
    <3>2. intentAt >= -1 /\ intentAt \in Int /\ clock \in Nat
      BY <1>1
    <3> DEFINE age == Age'
    <3>3. age = IF intentAt >= 0 THEN clock - intentAt ELSE 0
      BY <1>4
    <3> HIDE DEF age
    <3>4. /\ Detected(next) \in Reasons \cup {"none"}
          /\ Detected(next) # "none" => Detected(next) \in ReasonsFor(seen, age)
          /\ Detected(next) = "none" => ReasonsFor(seen, age) = {}
      BY <2>2, <3>1, <3>2, <3>3, Detects
    <3> QED  BY <3>4 DEF age
  <2>5. turns' = Stored(next)
    BY <1>8 DEF Inspect, InspectOff, next
  <2>6. CASE enabled
    <3>1. /\ tripped' = Detected(next)
          /\ verdict' = IF tripped' = "none" THEN "passed" ELSE tripped'
      BY <1>8, <2>6 DEF Inspect, next
    <3>2. tripped' # "none" => Gave(tripped', seen, Age')
      <4>1. Len(seen) \in DOMAIN seen /\ SubSeq(seen, 1, Len(seen)) = seen
        BY <2>2
      <4> QED  BY <2>4, <3>1, <4>1 DEF Gave
    <3>3. GuardMemory'
      BY <1>2, <2>1, <2>3, <2>5, <3>2 DEF GuardMemory
    <3>4. GuardAnswer'
      BY <2>1, <2>4, <3>1 DEF GuardAnswer, Reasons
    <3> QED  BY <1>2, <2>1, <2>2, <2>3, <2>4, <2>5, <3>1, <3>3, <3>4
  <2>7. CASE ~enabled
    <3>1. tripped' = "none" /\ verdict' = "off"
      BY <1>8, <2>7 DEF Inspect, InspectOff
    <3>2. GuardMemory'
      BY <1>2, <2>1, <2>3, <2>5, <3>1 DEF GuardMemory
    <3>3. GuardAnswer'
      BY <3>1 DEF GuardAnswer, Reasons
    <3> QED  BY <1>2, <2>1, <2>2, <2>3, <2>5, <3>1, <3>2, <3>3
  <2> QED  BY <2>6, <2>7
<1> QED
  BY <1>1, <1>6, <1>7, <1>8
LEMMA GuardStep == FitsBuffer /\ GuardInv /\ [GuardNext]_guardVars => GuardInv'
<1> SUFFICES ASSUME FitsBuffer, GuardInv, [GuardNext]_guardVars PROVE GuardInv'
  OBVIOUS
<1>1. /\ turns \in Seq(Turns) /\ Len(turns) <= MaxBuffered
      /\ tripped \in Reasons \cup {"none"} /\ inspected \in Seq(Fingerprints)
      /\ verdict \in Reasons \cup {"passed", "off"}
      /\ enabled \in BOOLEAN /\ unavailable \in BOOLEAN /\ clock \in 0..MaxTime
      /\ current \in [print : Fingerprints \cup {"none"}, hops : 0..MaxHops]
      /\ seenAt \in 0..MaxTime /\ asked \in 0..MaxTurns /\ received \in 0..IdenticalRepeats
      /\ intentAt \in -1..MaxTime
      /\ GuardRequest /\ GuardMemory /\ GuardAnswer
  BY DEF GuardInv, GuardTypeOK
<1>2. CASE UserIntent
  <2> USE <1>2 DEF UserIntent
  <2>1. /\ UNCHANGED <<enabled, unavailable, clock>> /\ seenAt' = clock /\ current' = NoRequest
        /\ NoRequest \in [print : Fingerprints \cup {"none"}, hops : 0..MaxHops]
    BY LimitsAssumption DEF configVars, NoRequest
  <2>2. GuardRequest'
    BY <2>1 DEF GuardRequest, NoRequest
  <2>3. CASE unavailable
    <3>1. /\ verdict' = "off" /\ turns' = turns /\ tripped' = tripped /\ intentAt' = intentAt
          /\ inspected' = inspected /\ asked' = asked /\ received' = received
      BY <2>3
    <3>2. GuardTypeOK'
      BY <1>1, <2>1, <3>1 DEF GuardTypeOK
    <3>3. Age \in Int /\ Age' \in Int /\ Age <= Age'
      BY <1>1, <2>1, <3>1 DEF Age, GuardMemory
    <3>4. GuardMemory'
      <4>1. intentAt' <= seenAt' /\ seenAt' <= clock'
        BY <1>1, <2>1, <3>1 DEF GuardMemory
      <4>2. tripped # "none" => Gave(tripped, inspected, Age')
        BY <1>1, <3>3, AgeGrows DEF GuardMemory
      <4> QED  BY <1>1, <3>1, <4>1, <4>2 DEF GuardMemory
    <3>5. GuardAnswer'
      BY <3>1 DEF GuardAnswer, Reasons
    <3> QED  BY <2>2, <3>2, <3>4, <3>5 DEF GuardInv
  <2>4. CASE ~unavailable
    <3>1. /\ verdict' = "passed" /\ turns' = <<Intent(clock)>> /\ tripped' = "none"
          /\ intentAt' = clock /\ inspected' = <<>> /\ asked' = 0 /\ received' = 0
      BY <2>4
    <3>2. /\ turns' \in Seq(Turns) /\ Len(turns') = 1 /\ turns'[1] = Intent(clock)
      <4>1. Intent(clock) \in Turns
        BY <1>1 DEF Intent, Turns
      <4> HIDE DEF UserIntent
      <4> QED  BY <3>1, <4>1
    <3>3. inspected' \in Seq(Fingerprints) /\ Len(inspected') = 0
      BY <3>1
    <3>4. GuardTypeOK'
      <4>1. intentAt' \in -1..MaxTime /\ asked' \in 0..MaxTurns /\ received' \in 0..IdenticalRepeats
            /\ Len(turns') <= MaxBuffered
        BY <1>1, <3>1, <3>2, FloorsAssumption, LimitsAssumption
      <4>2. tripped' \in Reasons \cup {"none"} /\ verdict' \in Reasons \cup {"passed", "off"}
        BY <3>1
      <4> QED  BY <1>1, <2>1, <3>2, <3>3, <4>1, <4>2 DEF GuardTypeOK
    <3>5. GuardMemory'
      <4>1. WholeMirror(turns', inspected', intentAt')
        BY <1>1, <3>1, <3>2, <3>3 DEF WholeMirror
      <4>2. intentAt' <= seenAt' /\ seenAt' <= clock'
        BY <1>1, <2>1, <3>1
      <4> QED  BY <3>1, <4>1, <4>2 DEF GuardMemory, Mirrors
    <3>6. GuardAnswer'
      BY <3>1, NoReasonYet DEF GuardAnswer, Reasons
    <3> QED  BY <2>2, <3>4, <3>5, <3>6 DEF GuardInv
  <2> QED  BY <2>3, <2>4
<1>3. ASSUME NEW f \in Fingerprints, Receive(f)
      PROVE  GuardInv'
  <2>1. Inspect(f) /\ UNCHANGED <<enabled, unavailable, clock, intentAt>>
    BY <1>3 DEF Receive, configVars
  <2>2. received' \in 0..IdenticalRepeats
    BY <1>1, <1>3, FloorsAssumption DEF Receive
  <2>3. current' \in [print : Fingerprints \cup {"none"}, hops : 0..MaxHops]
    BY <1>3, LimitsAssumption DEF Receive
  <2>4. GuardRequest'
    BY <1>3 DEF Receive, GuardRequest
  <2> QED
    BY <1>1, <2>1, <2>2, <2>3, <2>4, InspectKeeps DEF GuardInv, GuardTypeOK
<1>4. CASE LayerHop
  <2>1. PICK f : f = current.print
    OBVIOUS
  <2>2. Inspect(f) /\ UNCHANGED <<enabled, unavailable, clock, intentAt, received>>
    BY <1>4, <2>1 DEF LayerHop, configVars
  <2>3. f \in Fingerprints
    BY <1>1, <1>4, <2>1 DEF LayerHop, GuardRequest
  <2> DEFINE fewer == [current EXCEPT !.hops = @ - 1]
  <2>4. current.hops \in 1..MaxHops /\ current.hops - 1 \in 0..MaxHops
    BY <1>1, <1>4, LimitsAssumption DEF LayerHop
  <2>5. fewer = [print |-> f, hops |-> current.hops - 1]
    BY <1>1, <2>1
  <2>6. current' = fewer
    BY <1>4 DEF LayerHop
  <2> HIDE DEF fewer
  <2>7. current' \in [print : Fingerprints \cup {"none"}, hops : 0..MaxHops]
    BY <2>3, <2>4, <2>5, <2>6
  <2>8. GuardRequest'
    BY <2>3, <2>5, <2>6 DEF GuardRequest
  <2> QED
    BY <1>1, <2>2, <2>3, <2>7, <2>8, InspectKeeps DEF GuardInv, GuardTypeOK
<1>5. CASE SaveSettings
  <2>1. /\ UNCHANGED <<turns, tripped, clock, current, verdict, inspected, intentAt, seenAt,
                       asked, received>>
        /\ enabled' \in BOOLEAN /\ unavailable' \in BOOLEAN
    BY <1>5 DEF SaveSettings
  <2>2. GuardTypeOK'
    BY <1>1, <2>1 DEF GuardTypeOK
  <2>3. GuardRequest' /\ GuardMemory' /\ GuardAnswer'
    BY <1>1, <2>1 DEF GuardRequest, GuardMemory, GuardAnswer, Age
  <2> QED  BY <2>2, <2>3 DEF GuardInv
<1>6. CASE TimePasses
  <2>1. /\ UNCHANGED <<turns, tripped, enabled, unavailable, current, verdict, inspected,
                       intentAt, seenAt, asked, received>>
        /\ clock < MaxTime /\ clock' = clock + 1
    BY <1>6 DEF TimePasses
  <2>2. GuardTypeOK'
    BY <1>1, <2>1, LimitsAssumption DEF GuardTypeOK
  <2>3. seenAt' <= clock'
    BY <1>1, <2>1 DEF GuardMemory
  <2>4. GuardRequest' /\ GuardMemory' /\ GuardAnswer'
    BY <1>1, <2>1, <2>3 DEF GuardRequest, GuardMemory, GuardAnswer, Age
  <2> QED  BY <2>2, <2>4 DEF GuardInv
<1>7. CASE UNCHANGED guardVars
  BY <1>7 DEF guardVars, GuardInv, GuardTypeOK, GuardRequest, GuardMemory, GuardAnswer, Age
<1> QED
  BY <1>2, <1>3, <1>4, <1>5, <1>6, <1>7 DEF GuardNext

\* With settings that fit the buffer, the guard's memory is what it has to be.
THEOREM GuardInvariant ==
  ASSUME FitsBuffer PROVE GuardSpec => []GuardInv
<1>1. FitsBuffer
  OBVIOUS
<1> QED
  BY <1>1, GuardBegins, GuardStep, PTL DEF GuardSpec

\* With settings that fit the buffer, a conversation is stopped only for a reason its turns since
\* the user's last message gave, and a continuation passes only when they give none (inspect.ts,
\* patterns.ts, store.ts).
THEOREM GuardIsExact ==
  ASSUME FitsBuffer PROVE GuardSpec => []GuardExact
<1>1. GuardInv => GuardExact
  BY DEF GuardInv, GuardMemory, GuardAnswer, GuardExact, Gave, Reasons
<1> QED
  BY <1>1, GuardInvariant, PTL

\* A stopped conversation stays stopped until the user speaks, for any settings (inspect.ts).
THEOREM StopsStay == GuardSpec => StaysStopped
<1>1. ASSUME [GuardNext]_guardVars, tripped # "none"
      PROVE  tripped' = tripped \/ turns' = <<Intent(clock)>>
  <2>1. ASSUME NEW f, Inspect(f)
        PROVE  tripped' = tripped
    BY <1>1, <2>1 DEF Inspect, InspectOff
  <2>2. CASE UserIntent
    BY <2>2 DEF UserIntent
  <2>3. CASE \E f \in Fingerprints : Receive(f)
    BY <2>1, <2>3 DEF Receive
  <2>4. CASE LayerHop
    BY <2>1, <2>4 DEF LayerHop
  <2>5. CASE SaveSettings \/ TimePasses \/ UNCHANGED guardVars
    BY <2>5 DEF SaveSettings, TimePasses, guardVars
  <2> QED  BY <1>1, <2>2, <2>3, <2>4, <2>5 DEF GuardNext
<1>2. [GuardNext]_guardVars => [StopKept]_guardVars
  BY <1>1 DEF StopKept
<1> QED
  BY <1>2, PTL DEF GuardSpec, StaysStopped

\* Both together: what the guard promises a client whose settings fit the buffer.
THEOREM GuardKeeps ==
  ASSUME FitsBuffer PROVE GuardSpec => GuardHolds
<1>1. GuardSpec => []GuardExact /\ [][StopKept]_guardVars
  BY GuardIsExact, StopsStay DEF StaysStopped
<1> QED
  BY <1>1, PTL DEF GuardHolds

-----------------------------------------------------------------------------
(* FirstSetup                                                                *)

Secrets == SetupIds \cup {Deployed}
DbRecords == [made : BOOLEAN, tables : BOOLEAN, admins : [Names -> SetupIds \cup {Nothing}],
              domain : SetupIds \cup {Nothing}, seeds : SUBSET Seeding, keys : SUBSET Secrets]
SetupPhases == {"down", "connect", "fresh?", "setup", "migrate", "up"} \cup Seeding
SetupRecords == [at : {"absent", "refused", "failed", "lost", "ok"} \cup AtWork,
                 db : Dbs \cup {Nothing}, name : Names \cup {Nothing}, found : BOOLEAN]

SetupTypes ==
    /\ given \in {EnvOf(Nothing, Deployed)} \cup {EnvOf(d, Unattended) : d \in {Nothing} \cup Dbs}
    /\ file \in {Nothing} \cup {ConfigOf(d) : d \in Dbs}
    /\ dbs \in [Dbs -> DbRecords]
    /\ phase \in SetupPhases
    /\ env \in [driver : {Nothing, "postgres", "sqlite"}, url : Urls \cup {Nothing},
                path : Files \cup {Nothing}, secret : Secrets]
    /\ connected \in Dbs \cup {Nothing}
    /\ completed \in BOOLEAN /\ pending \in BOOLEAN
    /\ setups \in [SetupIds -> SetupRecords]
    /\ finished \in [by : SetupIds \cup {Nothing}, db : Dbs \cup {Nothing},
                     name : Names \cup {Nothing}]
    /\ overlapped \in BOOLEAN /\ misread \in BOOLEAN

\* The database the deployed environment names
Home == IF given.url # Nothing THEN given.url ELSE given.path

\* A server that is set up does not look fresh.
Served ==
    /\ connected \in Dbs /\ SomeAdmin(connected)
    /\ completed \/ (Loaded = connected /\ dbs[connected].made)

NoWork == \A c \in SetupIds : ~Working(c)

PhaseFits ==
    /\ phase \in {"down", "connect", "fresh?"} =>
          NoWork /\ env = given /\ ~completed /\ ~pending /\ setups[Unattended] = NoSetup
    /\ phase = "fresh?" => connected = Loaded /\ dbs[Loaded].made
    /\ phase = "setup" =>
          /\ given.secret = Unattended /\ ~pending
          /\ \A c \in Setups : ~Working(c)
          /\ completed => setups[Unattended].at = "ok"
          /\ setups[Unattended].at = "ok" => Served /\ completed
    /\ phase \in {"migrate", "up"} \cup Seeding =>
          IF pending THEN phase = "up" /\ given.secret = Deployed /\ ~Working(Unattended)
          ELSE NoWork /\ Served

\* One setup at work, and how far it has come
WorkFits(c) == Working(c) =>
    LET s == setups[c] IN
    /\ \A o \in SetupIds : Working(o) => o = c
    /\ finished.by = Nothing /\ ~completed
    /\ s.db \in Dbs /\ s.name \in Names
    /\ c = Unattended /\ given.driver # Nothing => s.db = Home
    /\ s.at # "asked" => file = ConfigOf(s.db)
    /\ s.at \notin {"asked", "connect"} => connected = s.db
    /\ s.at \in {"domain", "done"} \cup Seeding => dbs[s.db].admins[s.name] = c
    /\ s.at \in {"done"} \cup Seeding => dbs[s.db].domain = c
    /\ s.at \in {"policies", "group", "done"} => "settings" \in dbs[s.db].seeds
    /\ s.at = "done" => "group" \in dbs[s.db].seeds

FinishedFits == finished.by # Nothing =>
    LET d == finished.db IN
    /\ NoWork /\ ~pending
    /\ d \in Dbs /\ finished.name \in Names
    /\ file = ConfigOf(d)
    /\ dbs[d].admins[finished.name] = finished.by /\ dbs[d].domain = finished.by
    /\ {"settings", "group"} \subseteq dbs[d].seeds
    /\ given.driver # Nothing => d = Home
    /\ phase \notin {"down", "connect"} => connected = d

SetupOK == PhaseFits /\ FinishedFits /\ \A c \in SetupIds : WorkFits(c)

SetupInv == SetupTypes /\ (~overlapped /\ ~misread => SetupOK)

\* The statements a setup runs, and what follows each
LEMMA WorkOrder ==
  /\ AtWork = {"asked", "connect", "migrate", "look", "admin", "domain", "settings", "policies",
               "group", "done"}
  /\ Following("migrate") = "look" /\ Following("look") = "admin" /\ Following("admin") = "domain"
  /\ Following("domain") = "settings" /\ Following("settings") = "policies"
  /\ Following("policies") = "group" /\ Following("group") = "done"
<1>1. 1..9 = {1, 2, 3, 4, 5, 6, 7, 8, 9} /\ 2..9 = {2, 3, 4, 5, 6, 7, 8, 9}
  OBVIOUS
<1>2. /\ Writing[1] = "connect" /\ Writing[2] = "migrate" /\ Writing[3] = "look"
      /\ Writing[4] = "admin" /\ Writing[5] = "domain" /\ Writing[6] = "settings"
      /\ Writing[7] = "policies" /\ Writing[8] = "group" /\ Writing[9] = "done"
  BY DEF Writing
<1>3. AtWork = {"asked"} \cup {Writing[i] : i \in {1, 2, 3, 4, 5, 6, 7, 8, 9}}
  BY <1>1 DEF AtWork
<1>4. AtWork = {"asked", "connect", "migrate", "look", "admin", "domain", "settings", "policies",
                "group", "done"}
  BY <1>2, <1>3
<1>5. ASSUME NEW k \in 2..9
      PROVE  Following(Writing[k - 1]) = Writing[k]
  <2>1. \A i \in 2..9 : Writing[i - 1] = Writing[k - 1] => i = k
    BY <1>1, <1>2
  <2>2. (CHOOSE i \in 2..9 : Writing[i - 1] = Writing[k - 1]) = k
    BY <2>1
  <2> QED
    BY <2>2 DEF Following
<1>6. /\ Following(Writing[2]) = Writing[3] /\ Following(Writing[3]) = Writing[4]
      /\ Following(Writing[4]) = Writing[5] /\ Following(Writing[5]) = Writing[6]
      /\ Following(Writing[6]) = Writing[7] /\ Following(Writing[7]) = Writing[8]
      /\ Following(Writing[8]) = Writing[9]
  <2>1. /\ Following(Writing[3 - 1]) = Writing[3] /\ Following(Writing[4 - 1]) = Writing[4]
        /\ Following(Writing[5 - 1]) = Writing[5] /\ Following(Writing[6 - 1]) = Writing[6]
        /\ Following(Writing[7 - 1]) = Writing[7] /\ Following(Writing[8 - 1]) = Writing[8]
        /\ Following(Writing[9 - 1]) = Writing[9]
    BY <1>5
  <2> QED  BY <2>1
<1> QED
  BY <1>2, <1>4, <1>6

\* With the deployed environment the server finds the database that names, or the file does.
LEMMA LoadedAfterStart ==
  ASSUME SetupTypes, env = given
  PROVE  /\ Loaded \in Dbs
         /\ given.driver # Nothing => Loaded = Home
         /\ given.driver = Nothing => \A d \in Dbs : file = ConfigOf(d) => Loaded = d
         /\ given.driver = Nothing /\ file = Nothing => Loaded = DefaultFile
<1>1. PICK d \in {Nothing} \cup Dbs, s \in {Deployed, Unattended} : given = EnvOf(d, s)
  BY DEF SetupTypes
<1>2. DefaultFile \in Dbs /\ Nothing \notin Dbs /\ Nothing \notin {"postgres", "sqlite"} /\ Files \cap Urls = {}
  BY SetupAssumption DEF Dbs
<1>3. CASE d \in Dbs
  <2>1. CASE d \in Urls
    BY <1>1, <1>2, <2>1 DEF EnvOf, Loaded, Home, Driver, Dbs
  <2>2. CASE d \in Files
    BY <1>1, <1>2, <2>2 DEF EnvOf, Loaded, Home, Driver, Dbs
  <2> QED  BY <1>3, <2>1, <2>2 DEF Dbs
<1>4. CASE d = Nothing
  <2>1. env.driver = Nothing /\ env.url = Nothing /\ env.path = Nothing /\ given.driver = Nothing
    BY <1>1, <1>2, <1>4 DEF EnvOf, Dbs
  <2>2. ASSUME NEW f \in Dbs, file = ConfigOf(f)
        PROVE  Loaded = f
    <3>1. file # Nothing
      BY <2>2, SetupAssumption
    <3> QED
      BY <1>2, <2>1, <2>2, <3>1 DEF Loaded, ConfigOf, Driver, Dbs
  <2>3. file = Nothing => Loaded = DefaultFile
    BY <1>2, <2>1 DEF Loaded, DefaultConfig
  <2>4. file = Nothing \/ \E f \in Dbs : file = ConfigOf(f)
    BY DEF SetupTypes
  <2> QED
    BY <1>2, <2>1, <2>2, <2>3, <2>4
<1> QED
  BY <1>3, <1>4

\* The databases are empty and nothing is connected before the first start.
LEMMA SetupBegin == SetupInit => SetupInv
<1> SUFFICES ASSUME SetupInit PROVE SetupInv
  OBVIOUS
<1> USE DEF SetupInit
<1>0. Nothing \notin SetupIds
  BY SetupAssumption
<1>1. SetupTypes
  <2>1. EmptyDb \in DbRecords
    BY DEF EmptyDb, DbRecords
  <2>2. NoSetup \in SetupRecords
    BY DEF NoSetup, SetupRecords
  <2>3. given \in {EnvOf(Nothing, Deployed)} \cup {EnvOf(d, Unattended) : d \in {Nothing} \cup Dbs}
    OBVIOUS
  <2>4. ASSUME NEW d \in {Nothing} \cup Dbs, NEW s \in {Deployed, Unattended}
        PROVE  EnvOf(d, s) \in [driver : {Nothing, "postgres", "sqlite"}, url : Urls \cup {Nothing},
                                path : Files \cup {Nothing}, secret : Secrets]
    BY DEF EnvOf, Driver, Secrets, SetupIds
  <2>5. env \in [driver : {Nothing, "postgres", "sqlite"}, url : Urls \cup {Nothing},
                 path : Files \cup {Nothing}, secret : Secrets]
    BY <2>3, <2>4
  <2> QED
    BY <2>1, <2>2, <2>3, <2>5 DEF SetupTypes, SetupPhases
<1>2. \A c \in SetupIds : ~Working(c)
  BY WorkOrder DEF Working, NoSetup
<1>3. Unattended \in SetupIds
  BY DEF SetupIds
<1>4. PhaseFits
  BY <1>2, <1>3 DEF PhaseFits, NoWork, Seeding
<1>5. FinishedFits /\ \A c \in SetupIds : WorkFits(c)
  BY <1>2 DEF FinishedFits, WorkFits
<1> QED
  BY <1>1, <1>4, <1>5 DEF SetupInv, SetupOK

\* What is kept of the databases when nobody writes an administrator or a domain
Grows == \A d \in Dbs : /\ dbs'[d].admins = dbs[d].admins /\ dbs'[d].domain = dbs[d].domain
                        /\ dbs[d].made => dbs'[d].made
                        /\ dbs[d].seeds \subseteq dbs'[d].seeds

\* A database with an administrator keeps it.
LEMMA AdminsStay ==
  ASSUME Grows, NEW d \in Dbs
  PROVE  SomeAdmin(d)' <=> SomeAdmin(d)
BY DEF Grows, SomeAdmin

\* A step of the setup at work that does not finish it keeps the rest.
LEMMA WorkStep ==
  ASSUME SetupTypes, SetupOK, NEW c \in SetupIds, Working(c),
         \A o \in SetupIds : o # c => setups'[o] = setups[o],
         setups'[c].at \in AtWork \cup {"refused", "failed"}, Working(c)' => WorkFits(c)',
         UNCHANGED <<given, phase, completed, pending, finished>>
  PROVE  SetupOK'
<1>1. /\ \A o \in SetupIds : o # c => ~Working(o)
      /\ finished.by = Nothing /\ ~completed
  BY DEF SetupOK, WorkFits
<1>2. \A o \in SetupIds : o # c => ~Working(o)'
  BY <1>1 DEF Working
<1>3. /\ given' = given /\ phase' = phase /\ completed' = completed /\ pending' = pending
      /\ finished' = finished
  OBVIOUS
<1>4. setups'[c].at # "ok"
  BY WorkOrder
<1>5. PhaseFits'
  <2>1. phase \notin {"down", "connect", "fresh?"} /\ PhaseFits
    BY DEF SetupOK, PhaseFits, NoWork
  <2>2. ASSUME phase = "setup"
        PROVE  /\ given.secret = Unattended /\ ~pending /\ c = Unattended
               /\ \A o \in Setups : ~Working(o)'
    <3>1. given.secret = Unattended /\ ~pending /\ c = Unattended
      BY <2>1, <2>2 DEF PhaseFits, SetupIds
    <3>2. \A o \in Setups : o # c /\ o \in SetupIds
      BY <3>1, SetupAssumption DEF SetupIds
    <3> QED  BY <1>2, <3>1, <3>2
  <2>3. ASSUME phase \in {"migrate", "up"} \cup Seeding
        PROVE  pending /\ phase = "up" /\ given.secret = Deployed /\ ~Working(Unattended)'
    <3>1. pending /\ phase = "up" /\ given.secret = Deployed /\ c # Unattended
      BY <2>1, <2>3 DEF PhaseFits, NoWork
    <3> QED  BY <1>2, <3>1 DEF SetupIds
  <2>4. phase = "setup" => setups'[Unattended].at # "ok"
    BY <1>4, <2>2
  <2> QED
    BY <1>1, <1>3, <2>1, <2>2, <2>3, <2>4 DEF PhaseFits
<1>6. FinishedFits'
  BY <1>1, <1>3 DEF FinishedFits
<1>7. ASSUME NEW o \in SetupIds PROVE WorkFits(o)'
  BY <1>2 DEF WorkFits
<1> QED
  BY <1>5, <1>6, <1>7 DEF SetupOK

\* A setup that goes on or fails keeps its database and its administrator.
LEMMA PutOK ==
  ASSUME SetupTypes, NEW c \in SetupIds,
         NEW x \in {"absent", "refused", "failed", "lost", "ok"} \cup AtWork, Put(c, x)
  PROVE  /\ setups' \in [SetupIds -> SetupRecords]
         /\ setups'[c].at = x /\ setups'[c].db = setups[c].db /\ setups'[c].name = setups[c].name
         /\ \A o \in SetupIds : o # c => setups'[o] = setups[o]
<1>1. setups \in [SetupIds -> SetupRecords]
  BY DEF SetupTypes
<1>2. setups' = [setups EXCEPT ![c] = [setups[c] EXCEPT !.at = x]]
  BY <1>1 DEF Put
<1>3. [setups[c] EXCEPT !.at = x] \in SetupRecords
  BY <1>1 DEF SetupRecords
<1> QED
  BY <1>1, <1>2, <1>3 DEF SetupRecords

\* The configuration names a database or none.
LEMMA LoadedType == ASSUME SetupTypes PROVE Loaded \in Dbs \cup {Nothing}
<1> DEFINE f == IF file = Nothing THEN DefaultConfig ELSE file
<1>1. f.url \in Dbs \cup {Nothing} /\ f.path \in Dbs
  <2>1. DefaultFile \in Dbs
    BY SetupAssumption DEF Dbs
  <2>2. CASE file = Nothing
    BY <2>1, <2>2 DEF DefaultConfig
  <2>3. CASE file # Nothing
    <3>1. PICK d \in Dbs : file = ConfigOf(d)
      BY <2>3 DEF SetupTypes
    <3> QED  BY <2>1, <2>3, <3>1 DEF ConfigOf
  <2> QED  BY <2>2, <2>3
<1>2. env.url \in Dbs \cup {Nothing} /\ env.path \in Dbs \cup {Nothing}
  BY DEF SetupTypes, Dbs
<1> QED
  BY <1>1, <1>2 DEF Loaded

\* A seed, or the passing over of one, leaves the databases of their type.
LEMMA SeedTypes ==
  ASSUME dbs \in [Dbs -> DbRecords], NEW at \in Seeding, Seed(at)
  PROVE  dbs' \in [Dbs -> DbRecords]
<1>1. dbs' = dbs \/ dbs' = [dbs EXCEPT ![connected].seeds = @ \cup {at}]
  BY DEF Seed, SeedSettings, SeedPolicies, EnsureDefaultGroup, Seeded
<1>2. [dbs EXCEPT ![connected].seeds = @ \cup {at}] \in [Dbs -> DbRecords]
  BY DEF DbRecords
<1> QED
  BY <1>1, <1>2

\* The types, through a start, a stop and a stored key
LEMMA ProcessTypes ==
  ASSUME SetupTypes,
         \/ Boot \/ BootConnect \/ BootDecides \/ UnattendedDone \/ Bootstrap
         \/ StartFails \/ ProcessDies \/ StoreKey
  PROVE  SetupTypes'
<1>1. /\ dbs \in [Dbs -> DbRecords] /\ setups \in [SetupIds -> SetupRecords]
      /\ env.secret \in Secrets /\ Loaded \in Dbs \cup {Nothing}
  BY LoadedType DEF SetupTypes
<1>2. CASE Boot
  BY <1>2 DEF Boot, SetupTypes, SetupPhases
<1>3. CASE BootConnect
  <2>1. dbs' \in [Dbs -> DbRecords]
    <3>1. dbs' = [dbs EXCEPT ![Loaded].made = TRUE, ![Loaded].tables = @ \/ Loaded \in Urls]
      BY <1>3 DEF BootConnect
    <3> QED  BY <1>1, <3>1 DEF DbRecords
  <2> QED  BY <1>1, <1>3, <2>1 DEF BootConnect, SetupTypes, SetupPhases
<1>4. CASE BootDecides
  <2>1. PICK fresh \in BOOLEAN :
          /\ Counted(fresh)
          /\ pending' = (fresh /\ given.secret = Deployed)
          /\ phase' = IF ~fresh THEN "migrate" ELSE IF pending' THEN "up" ELSE "setup"
          /\ setups' = IF phase' # "setup" THEN setups
                       ELSE [setups EXCEPT ![Unattended] =
                               [at |-> "asked", name |-> CHOOSE n \in Names : TRUE, found |-> FALSE,
                                db |-> IF given.driver = Nothing THEN DefaultFile ELSE Loaded]]
    BY <1>4 DEF BootDecides
  <2>2. DefaultFile \in Dbs /\ (CHOOSE n \in Names : TRUE) \in Names
    BY SetupAssumption DEF Dbs
  <2>3. [at |-> "asked", name |-> CHOOSE n \in Names : TRUE, found |-> FALSE,
         db |-> IF given.driver = Nothing THEN DefaultFile ELSE Loaded] \in SetupRecords
    BY <1>1, <2>2, WorkOrder DEF SetupRecords
  <2>4. setups' \in [SetupIds -> SetupRecords]
    BY <1>1, <2>1, <2>3
  <2>5. misread' \in BOOLEAN
    BY <2>1 DEF Counted, SetupTypes
  <2>6. pending' \in BOOLEAN
    BY <2>1
  <2>7. phase' \in SetupPhases
    BY <2>1 DEF SetupPhases
  <2> QED
    BY <1>4, <2>4, <2>5, <2>6, <2>7 DEF BootDecides, SetupTypes
<1>5. CASE UnattendedDone
  BY <1>5 DEF UnattendedDone, SetupTypes, SetupPhases
<1>6. CASE Bootstrap
  <2>1. dbs' \in [Dbs -> DbRecords]
    <3>1. dbs' = [dbs EXCEPT ![connected].tables = TRUE] \/ (phase \in Seeding /\ Seed(phase))
      BY <1>6 DEF Bootstrap, Seed, Seeding
    <3>2. [dbs EXCEPT ![connected].tables = TRUE] \in [Dbs -> DbRecords]
      BY <1>1 DEF DbRecords
    <3> QED  BY <1>1, <3>1, <3>2, SeedTypes
  <2>2. phase' \in SetupPhases
    BY <1>6, WorkOrder DEF Bootstrap, SetupPhases, Seeding
  <2> QED  BY <1>6, <2>1, <2>2 DEF Bootstrap, SetupTypes
<1>7. CASE StartFails \/ ProcessDies
  <2>1. Gone /\ UNCHANGED <<given, file, dbs, boots, finished, overlapped, misread>>
    BY <1>7 DEF StartFails, ProcessDies
  <2>2. setups' \in [SetupIds -> SetupRecords]
    <3>1. NoSetup \in SetupRecords
      BY DEF NoSetup, SetupRecords
    <3>2. \A c \in SetupIds : [setups[c] EXCEPT !.at = IF @ \in AtWork THEN "lost" ELSE @] \in SetupRecords
      BY <1>1 DEF SetupRecords
    <3> QED  BY <2>1, <3>1, <3>2 DEF Gone
  <2>3. env' \in [driver : {Nothing, "postgres", "sqlite"}, url : Urls \cup {Nothing},
                  path : Files \cup {Nothing}, secret : Secrets]
    <3>1. PICK d \in {Nothing} \cup Dbs, s \in {Deployed, Unattended} : given = EnvOf(d, s)
      BY DEF SetupTypes
    <3> QED  BY <2>1, <3>1 DEF Gone, EnvOf, Driver, Secrets, SetupIds
  <2> QED  BY <2>1, <2>2, <2>3 DEF Gone, SetupTypes, SetupPhases
<1>8. CASE StoreKey
  <2>1. dbs' \in [Dbs -> DbRecords]
    <3>1. dbs' = [dbs EXCEPT ![connected].keys = @ \cup {env.secret}]
      BY <1>8 DEF StoreKey
    <3> QED  BY <1>1, <3>1 DEF DbRecords
  <2> QED  BY <1>8, <2>1 DEF StoreKey, SetupTypes
<1> QED
  BY <1>2, <1>3, <1>4, <1>5, <1>6, <1>7, <1>8

\* The types, through the statements of a setup
LEMMA CallTypes ==
  ASSUME SetupTypes, NEW c \in SetupIds,
         \/ RouteCheck(c) \/ SetupBegins(c) \/ Connect(c) \/ Migrate(c) \/ FindAdmin(c)
         \/ WriteAdmin(c) \/ WriteDomain(c) \/ SetupSeeds(c) \/ Finish(c) \/ SetupFails(c)
  PROVE  SetupTypes'
<1>1. /\ dbs \in [Dbs -> DbRecords] /\ setups \in [SetupIds -> SetupRecords]
      /\ misread \in BOOLEAN /\ overlapped \in BOOLEAN
  BY DEF SetupTypes
<1>2. CASE RouteCheck(c)
  <2>1. PICK fresh \in BOOLEAN, d \in Dbs, n \in Names :
          /\ Counted(fresh)
          /\ setups' = [setups EXCEPT ![c] = [at |-> IF fresh THEN "asked" ELSE "refused",
                                              db |-> d, name |-> n, found |-> FALSE]]
    BY <1>2 DEF RouteCheck
  <2>2. setups' \in [SetupIds -> SetupRecords]
    BY <1>1, <2>1, WorkOrder DEF SetupRecords
  <2>3. misread' \in BOOLEAN
    BY <1>1, <2>1 DEF Counted
  <2>4. overlapped' \in BOOLEAN
    BY <1>2 DEF RouteCheck
  <2> QED
    BY <1>2, <2>2, <2>3, <2>4 DEF RouteCheck, SetupTypes
<1>3. CASE SetupBegins(c)
  <2>1. PICK fresh \in BOOLEAN :
          /\ Counted(fresh) /\ Put(c, IF fresh THEN "connect" ELSE "refused")
          /\ IF fresh THEN SaveConfig(c) ELSE UNCHANGED <<file, env>>
    BY <1>3 DEF SetupBegins
  <2>2. setups' \in [SetupIds -> SetupRecords]
    BY <2>1, PutOK, WorkOrder
  <2>3. misread' \in BOOLEAN
    BY <1>1, <2>1 DEF Counted
  <2>4. UNCHANGED <<given, dbs, phase, connected, completed, pending, boots, finished, overlapped>>
    BY <1>3 DEF SetupBegins
  <2>5. CASE ~fresh
    BY <2>1, <2>2, <2>3, <2>4, <2>5 DEF SetupTypes
  <2>6. CASE fresh
    <3>1. SaveConfig(c) /\ setups[c].db \in Dbs \cup {Nothing}
      BY <1>1, <2>1, <2>6 DEF SetupRecords
    <3>2. \A d \in Dbs \cup {Nothing} : \E e \in Dbs : ConfigOf(d) = ConfigOf(e)
      BY SetupAssumption DEF ConfigOf, Driver, Dbs
    <3>3. file' \in {Nothing} \cup {ConfigOf(d) : d \in Dbs}
      BY <3>1, <3>2 DEF SaveConfig
    <3>4. env' \in [driver : {Nothing, "postgres", "sqlite"}, url : Urls \cup {Nothing},
                    path : Files \cup {Nothing}, secret : Secrets]
      BY <3>1 DEF SaveConfig, SetupTypes, Driver, Secrets
    <3> QED  BY <2>2, <2>3, <2>4, <3>3, <3>4 DEF SetupTypes
  <2> QED  BY <2>5, <2>6
<1>4. CASE Connect(c)
  <2>1. Put(c, "migrate")
    BY <1>4 DEF Connect
  <2>2. setups' \in [SetupIds -> SetupRecords]
    BY <2>1, PutOK, WorkOrder
  <2>3. setups[c].db \in Dbs \cup {Nothing}
    BY <1>1 DEF SetupRecords
  <2>4. dbs' = dbs \/ dbs' = [dbs EXCEPT ![setups[c].db].made = TRUE]
    BY <1>4 DEF Connect
  <2>5. dbs' \in [Dbs -> DbRecords]
    BY <1>1, <2>4 DEF DbRecords
  <2>6. connected' \in Dbs \cup {Nothing}
    BY <1>4, <2>3 DEF Connect, SetupTypes
  <2> QED
    BY <1>4, <2>2, <2>5, <2>6 DEF Connect, SetupTypes
<1>5. CASE Migrate(c) \/ FindAdmin(c) \/ WriteAdmin(c) \/ WriteDomain(c) \/ SetupSeeds(c)
  <2>1. UNCHANGED elsewhere
    BY <1>5 DEF Migrate, FindAdmin, WriteAdmin, WriteDomain, SetupSeeds
  <2>2. setups[c].at \in {"migrate", "look", "admin", "domain", "settings", "policies", "group"}
    BY <1>5 DEF Migrate, FindAdmin, WriteAdmin, WriteDomain, SetupSeeds, Reaches, Seeding
  <2>3. Following(setups[c].at) \in AtWork
    BY <2>2, WorkOrder
  <2>4. setups' \in [SetupIds -> SetupRecords]
    <3>1. CASE FindAdmin(c)
      <4>1. setups' = [setups EXCEPT ![c].at = Following(setups[c].at),
                             ![c].found = dbs[connected].admins[setups[c].name] # Nothing]
        BY <1>1, <3>1 DEF FindAdmin
      <4>2. setups[c] \in SetupRecords
        BY <1>1
      <4>3. [setups[c] EXCEPT !.at = Following(setups[c].at),
                    !.found = dbs[connected].admins[setups[c].name] # Nothing] \in SetupRecords
        BY <2>3, <4>2 DEF SetupRecords
      <4>4. setups' = [setups EXCEPT ![c] = [setups[c] EXCEPT !.at = Following(setups[c].at),
                    !.found = dbs[connected].admins[setups[c].name] # Nothing]]
        BY <1>1, <4>1
      <4> QED  BY <1>1, <4>3, <4>4
    <3>2. CASE ~FindAdmin(c)
      <4>1. Put(c, Following(setups[c].at))
        BY <1>5, <3>2 DEF Migrate, WriteAdmin, WriteDomain, SetupSeeds, GoesOn
      <4> QED  BY <2>3, <4>1, PutOK
    <3> QED  BY <3>1, <3>2
  <2>5. dbs' \in [Dbs -> DbRecords]
    <3>1. CASE Migrate(c)
      <4>1. dbs' = [dbs EXCEPT ![connected].tables = TRUE]
        BY <3>1 DEF Migrate
      <4> QED  BY <1>1, <4>1 DEF DbRecords
    <3>2. CASE FindAdmin(c)
      BY <1>1, <3>2 DEF FindAdmin
    <3>3. CASE WriteAdmin(c)
      <4>1. dbs' = [dbs EXCEPT ![connected].admins[setups[c].name] = c]
        BY <3>3 DEF WriteAdmin
      <4> QED  BY <1>1, <4>1 DEF DbRecords
    <3>4. CASE WriteDomain(c)
      <4>1. dbs' = [dbs EXCEPT ![connected].domain = c]
        BY <3>4 DEF WriteDomain
      <4> QED  BY <1>1, <4>1 DEF DbRecords
    <3>5. CASE SetupSeeds(c)
      BY <1>1, <3>5, SeedTypes DEF SetupSeeds
    <3> QED  BY <1>5, <3>1, <3>2, <3>3, <3>4, <3>5
  <2> QED
    BY <2>1, <2>4, <2>5 DEF elsewhere, SetupTypes
<1>6. CASE Finish(c) \/ SetupFails(c)
  <2>1. Put(c, "ok") \/ Put(c, "failed")
    BY <1>6 DEF Finish, SetupFails
  <2>2. setups' \in [SetupIds -> SetupRecords]
    BY <2>1, PutOK
  <2>3. CASE Finish(c)
    <3>1. finished' \in [by : SetupIds \cup {Nothing}, db : Dbs \cup {Nothing}, name : Names \cup {Nothing}]
      BY <1>1, <2>3 DEF Finish, SetupRecords
    <3> QED  BY <2>2, <2>3, <3>1 DEF Finish, SetupTypes
  <2>4. CASE SetupFails(c)
    BY <2>2, <2>4 DEF SetupFails, SetupTypes
  <2> QED  BY <1>6, <2>3, <2>4
<1> QED
  BY <1>2, <1>3, <1>4, <1>5, <1>6

\* A seed only adds to the database connected to.
LEMMA SeedGrows ==
  ASSUME dbs \in [Dbs -> DbRecords], NEW at \in Seeding, Seed(at)
  PROVE  /\ Grows
         /\ at \in {"settings", "group"} /\ connected \in Dbs => at \in dbs'[connected].seeds
<1>1. \/ dbs' = dbs /\ at = "policies"
      \/ dbs' = [dbs EXCEPT ![connected].seeds = @ \cup {at}]
  BY DEF Seed, SeedSettings, SeedPolicies, EnsureDefaultGroup, Seeded
<1>2. CASE dbs' = dbs /\ at = "policies"
  BY <1>2 DEF Grows
<1>3. CASE dbs' = [dbs EXCEPT ![connected].seeds = @ \cup {at}]
  BY <1>3 DEF Grows, DbRecords
<1> QED
  BY <1>1, <1>2, <1>3

\* The steps of a setup that is at work
LEMMA CallSteps ==
  ASSUME SetupTypes, SetupOK, NEW c \in SetupIds, ~misread',
         \/ SetupBegins(c) \/ Connect(c) \/ Migrate(c) \/ FindAdmin(c)
         \/ WriteAdmin(c) \/ WriteDomain(c) \/ SetupSeeds(c) \/ SetupFails(c)
  PROVE  SetupOK'
<1>1. /\ dbs \in [Dbs -> DbRecords] /\ setups \in [SetupIds -> SetupRecords] /\ WorkFits(c)
  BY DEF SetupTypes, SetupOK
<1>2. Working(c) /\ UNCHANGED <<given, phase, completed, pending, finished>>
  <2>1. setups[c].at \in {"asked", "connect", "migrate", "look", "admin", "domain", "settings",
                          "policies", "group", "done"}
    <3>1. 2..8 = {2, 3, 4, 5, 6, 7, 8}
      OBVIOUS
    <3>2. SetupFails(c) => setups[c].at \in {Writing[i] : i \in {2, 3, 4, 5, 6, 7, 8}}
      BY <3>1 DEF SetupFails
    <3>3. SetupFails(c) => setups[c].at \in AtWork
      BY <3>2 DEF AtWork
    <3> QED
      BY <3>3, WorkOrder DEF SetupBegins, Connect, Migrate, FindAdmin, WriteAdmin, WriteDomain,
         SetupSeeds, Reaches, Seeding
  <2>2. Working(c)
    BY <2>1, WorkOrder DEF Working
  <2>3. UNCHANGED <<given, phase, completed, pending, finished>>
    BY DEF SetupBegins, Connect, Migrate, FindAdmin, WriteAdmin, WriteDomain, SetupSeeds,
       SetupFails, elsewhere
  <2> QED  BY <2>2, <2>3
<1>3. /\ \A o \in SetupIds : o # c => ~Working(o)
      /\ finished.by = Nothing /\ ~completed /\ setups[c].db \in Dbs /\ setups[c].name \in Names
      /\ c = Unattended /\ given.driver # Nothing => setups[c].db = Home
  BY <1>1, <1>2 DEF WorkFits
\* The last part: where the setup has come to.
<1>4. ASSUME NEW x \in AtWork, setups' \in [SetupIds -> SetupRecords],
             setups'[c].at = x, setups'[c].db = setups[c].db, setups'[c].name = setups[c].name,
             \A o \in SetupIds : o # c => setups'[o] = setups[o],
             x # "asked" => file' = ConfigOf(setups[c].db),
             x \notin {"asked", "connect"} => connected' = setups[c].db,
             x \in {"domain", "done"} \cup Seeding => dbs'[setups[c].db].admins[setups[c].name] = c,
             x \in {"done"} \cup Seeding => dbs'[setups[c].db].domain = c,
             x \in {"policies", "group", "done"} => "settings" \in dbs'[setups[c].db].seeds,
             x = "done" => "group" \in dbs'[setups[c].db].seeds
      PROVE  SetupOK'
  <2>1. \A o \in SetupIds : o # c => ~Working(o)'
    BY <1>3, <1>4 DEF Working
  <2>2. /\ finished'.by = Nothing /\ ~completed' /\ setups'[c].db \in Dbs /\ setups'[c].name \in Names
        /\ c = Unattended /\ given'.driver # Nothing => setups'[c].db = Home'
    BY <1>2, <1>3, <1>4 DEF Home
  <2>3. WorkFits(c)'
    BY <1>4, <2>1, <2>2 DEF WorkFits
  <2> QED
    BY <1>2, <1>4, <2>3, WorkStep
<1>5. CASE SetupBegins(c)
  <2>1. PICK fresh \in BOOLEAN :
          /\ Counted(fresh) /\ Put(c, IF fresh THEN "connect" ELSE "refused")
          /\ IF fresh THEN SaveConfig(c) ELSE UNCHANGED <<file, env>>
    BY <1>5 DEF SetupBegins
  <2>2. CASE fresh
    <3>1. Put(c, "connect") /\ file' = ConfigOf(setups[c].db)
      BY <2>1, <2>2 DEF SaveConfig
    <3>2. "connect" \in AtWork /\ "connect" \notin {"domain", "done"} \cup Seeding
      BY WorkOrder DEF Seeding
    <3>3. /\ setups' \in [SetupIds -> SetupRecords]
          /\ setups'[c].at = "connect" /\ setups'[c].db = setups[c].db
          /\ setups'[c].name = setups[c].name /\ \A o \in SetupIds : o # c => setups'[o] = setups[o]
      BY <3>1, <3>2, PutOK
    <3> QED
      BY <1>4, <3>1, <3>2, <3>3
  <2>3. CASE ~fresh
    <3>1. Put(c, "refused")
      BY <2>1, <2>3
    <3>2. setups'[c].at = "refused" /\ \A o \in SetupIds : o # c => setups'[o] = setups[o]
      BY <3>1, PutOK
    <3>3. ~Working(c)'
      BY <3>2, WorkOrder DEF Working
    <3> QED
      BY <1>2, <3>2, <3>3, WorkStep
  <2> QED  BY <2>2, <2>3
<1>6. CASE SetupFails(c)
  <2>1. Put(c, "failed")
    BY <1>6 DEF SetupFails
  <2>2. setups'[c].at = "failed" /\ \A o \in SetupIds : o # c => setups'[o] = setups[o]
    BY <2>1, PutOK
  <2>3. ~Working(c)'
    BY <2>2, WorkOrder DEF Working
  <2> QED
    BY <1>2, <2>2, <2>3, WorkStep
<1>7. CASE Connect(c)
  <2>1. Put(c, "migrate") /\ setups[c].at = "connect" /\ file' = file
    BY <1>7 DEF Connect
  <2>2. "migrate" \in AtWork /\ "migrate" \notin {"domain", "done"} \cup Seeding
    BY WorkOrder DEF Seeding
  <2>3. /\ setups' \in [SetupIds -> SetupRecords]
        /\ setups'[c].at = "migrate" /\ setups'[c].db = setups[c].db
        /\ setups'[c].name = setups[c].name /\ \A o \in SetupIds : o # c => setups'[o] = setups[o]
    BY <2>1, <2>2, PutOK
  <2>4. file' = ConfigOf(setups[c].db)
    BY <1>1, <1>2, <2>1 DEF WorkFits
  <2>5. connected' = setups[c].db
    BY <1>7 DEF Connect, SameDb
  <2> QED
    BY <1>4, <2>2, <2>3, <2>4, <2>5
<1>8. CASE Migrate(c) \/ FindAdmin(c) \/ WriteAdmin(c) \/ WriteDomain(c) \/ SetupSeeds(c)
  <2>1. /\ setups[c].at \in {"migrate", "look", "admin", "domain", "settings", "policies", "group"}
        /\ file' = file /\ connected' = connected
    BY <1>8 DEF Migrate, FindAdmin, WriteAdmin, WriteDomain, SetupSeeds, Reaches, Seeding, elsewhere
  <2>2. /\ file = ConfigOf(setups[c].db) /\ connected = setups[c].db
        /\ setups[c].at \in {"domain", "done"} \cup Seeding => dbs[setups[c].db].admins[setups[c].name] = c
        /\ setups[c].at \in {"done"} \cup Seeding => dbs[setups[c].db].domain = c
        /\ setups[c].at \in {"policies", "group", "done"} => "settings" \in dbs[setups[c].db].seeds
    BY <1>1, <1>2, <2>1 DEF WorkFits
  <2> DEFINE x == Following(setups[c].at)
  <2>3. x \in AtWork /\ x # "asked"
    BY <2>1, WorkOrder
  <2>4. /\ setups' \in [SetupIds -> SetupRecords]
        /\ setups'[c].at = x /\ setups'[c].db = setups[c].db
        /\ setups'[c].name = setups[c].name /\ \A o \in SetupIds : o # c => setups'[o] = setups[o]
    <3>1. CASE FindAdmin(c)
      <4>1. setups' = [setups EXCEPT ![c].at = Following(setups[c].at),
                             ![c].found = dbs[connected].admins[setups[c].name] # Nothing]
        BY <1>1, <3>1 DEF FindAdmin
      <4>2. SetupTypes'
        BY <3>1, CallTypes
      <4>3. setups' \in [SetupIds -> SetupRecords]
        BY <4>2 DEF SetupTypes
      <4> QED  BY <1>1, <4>1, <4>3 DEF SetupRecords
    <3>2. CASE ~FindAdmin(c)
      <4>1. Put(c, x)
        BY <1>8, <3>2 DEF Migrate, WriteAdmin, WriteDomain, SetupSeeds, GoesOn
      <4> QED  BY <2>3, <4>1, PutOK
    <3> QED  BY <3>1, <3>2
  <2>5. CASE Migrate(c) \/ FindAdmin(c)
    <3>1. setups[c].at \in {"migrate", "look"}
      BY <2>5 DEF Migrate, FindAdmin, Reaches
    <3>2. x \notin {"domain", "done"} \cup Seeding /\ x \notin {"policies", "group", "done"}
      BY <3>1, WorkOrder DEF Seeding
    <3> HIDE DEF x
    <3> QED  BY <1>4, <2>1, <2>2, <2>3, <2>4, <3>2
  <2>6. CASE WriteAdmin(c)
    <3>1. setups[c].at = "admin" /\ dbs' = [dbs EXCEPT ![connected].admins[setups[c].name] = c]
      BY <2>6 DEF WriteAdmin, Reaches
    <3>2. x = "domain" /\ "domain" \notin {"done"} \cup Seeding
      BY <3>1, WorkOrder DEF Seeding
    <3>3. dbs'[setups[c].db].admins[setups[c].name] = c
      BY <1>1, <1>3, <2>2, <3>1 DEF DbRecords
    <3> HIDE DEF x
    <3> QED  BY <1>4, <2>1, <2>2, <2>3, <2>4, <3>2, <3>3
  <2>7. CASE WriteDomain(c)
    <3>1. setups[c].at = "domain" /\ dbs' = [dbs EXCEPT ![connected].domain = c]
      BY <2>7 DEF WriteDomain, Reaches
    <3>2. x = "settings"
      BY <3>1, WorkOrder
    <3>3. dbs'[setups[c].db].admins[setups[c].name] = c /\ dbs'[setups[c].db].domain = c
      BY <1>1, <1>3, <2>2, <3>1 DEF DbRecords
    <3> HIDE DEF x
    <3> QED  BY <1>4, <2>1, <2>2, <2>3, <2>4, <3>2, <3>3
  <2>8. CASE SetupSeeds(c)
    <3>1. setups[c].at \in Seeding /\ Seed(setups[c].at)
      BY <2>8 DEF SetupSeeds
    <3>2. Grows /\ (setups[c].at \in {"settings", "group"} => setups[c].at \in dbs'[setups[c].db].seeds)
      BY <1>1, <1>3, <2>2, <3>1, SeedGrows
    <3>3. dbs'[setups[c].db].admins[setups[c].name] = c /\ dbs'[setups[c].db].domain = c
      BY <1>3, <2>2, <3>1, <3>2 DEF Grows
    <3>4. \/ setups[c].at = "settings" /\ x = "policies"
          \/ setups[c].at = "policies" /\ x = "group"
          \/ setups[c].at = "group" /\ x = "done"
      BY <3>1, WorkOrder DEF Seeding
    <3>5. "settings" \in dbs'[setups[c].db].seeds
      BY <1>3, <2>2, <3>2, <3>4 DEF Grows
    <3>6. x = "done" => "group" \in dbs'[setups[c].db].seeds
      BY <3>2, <3>4
    <3>7. file' = ConfigOf(setups[c].db) /\ connected' = setups[c].db
      BY <2>1, <2>2
    <3> HIDE DEF x
    <3> QED  BY <1>4, <2>3, <2>4, <3>3, <3>5, <3>6, <3>7
  <2> QED  BY <1>8, <2>5, <2>6, <2>7, <2>8
<1> QED
  BY <1>5, <1>6, <1>7, <1>8

\* A call that is let through finds a server that is not set up, with no setup at work.
LEMMA CallArrives ==
  ASSUME SetupTypes, SetupOK, NEW c \in SetupIds, ~misread', ~overlapped', RouteCheck(c)
  PROVE  SetupOK'
<1>1. PICK fresh \in BOOLEAN, d \in Dbs, n \in Names :
        /\ Counted(fresh)
        /\ setups' = [setups EXCEPT ![c] = [at |-> IF fresh THEN "asked" ELSE "refused",
                                            db |-> d, name |-> n, found |-> FALSE]]
  BY DEF RouteCheck
<1>2. /\ phase = "up" /\ c \in Setups /\ \A o \in SetupIds : ~Working(o)
      /\ given' = given /\ file' = file /\ dbs' = dbs /\ phase' = phase /\ env' = env
      /\ connected' = connected /\ completed' = completed /\ pending' = pending
      /\ finished' = finished
  BY DEF RouteCheck
<1>3. /\ setups' \in [SetupIds -> SetupRecords]
      /\ setups'[c] = [at |-> IF fresh THEN "asked" ELSE "refused", db |-> d, name |-> n, found |-> FALSE]
      /\ \A o \in SetupIds : o # c => setups'[o] = setups[o]
  BY <1>1, WorkOrder DEF SetupTypes, SetupRecords
<1>4. c # Unattended /\ PhaseFits /\ FinishedFits /\ "asked" \in AtWork /\ "refused" \notin AtWork
  BY <1>2, SetupAssumption, WorkOrder DEF SetupOK
<1>5. ASSUME ~pending PROVE ~fresh
  <2>1. Served
    BY <1>2, <1>4, <1>5 DEF PhaseFits
  <2>2. connected # Nothing
    BY <2>1, SetupAssumption DEF Served
  <2>3. ~Fresh
    BY <2>1, <2>2 DEF Served, Fresh
  <2>4. fresh = Fresh \/ misread'
    BY <1>1 DEF Counted
  <2> QED  BY <1>1, <2>3, <2>4
<1>6. \A o \in SetupIds : o # c => ~Working(o)'
  BY <1>2, <1>3 DEF Working
<1>7. Working(c)' => fresh
  BY <1>3, <1>4 DEF Working
<1>8. PhaseFits'
  <2>1. CASE pending
    BY <1>2, <1>4, <1>6, <2>1 DEF PhaseFits, SetupIds, Seeding
  <2>2. CASE ~pending
    <3>1. NoWork'
      BY <1>5, <1>6, <1>7, <2>2 DEF NoWork
    <3>2. Served'
      BY <1>2, <1>4, <2>2 DEF PhaseFits, Served, SomeAdmin, Loaded
    <3> QED  BY <1>2, <2>2, <3>1, <3>2 DEF PhaseFits, Seeding
  <2> QED  BY <2>1, <2>2
<1>9. fresh => pending /\ finished.by = Nothing /\ ~completed
  <2>1. fresh => pending
    BY <1>1, <1>5
  <2>2. pending => finished.by = Nothing
    BY <1>4 DEF FinishedFits
  <2>3. fresh => ~completed
    BY <1>1 DEF Counted, Fresh
  <2> QED  BY <2>1, <2>2, <2>3
<1>10. FinishedFits'
  <2>1. ASSUME finished.by # Nothing PROVE NoWork'
    BY <1>6, <1>7, <1>9, <2>1 DEF NoWork
  <2> QED  BY <1>2, <1>4, <2>1 DEF FinishedFits, Home
<1>11. WorkFits(c)'
  BY <1>2, <1>3, <1>4, <1>6, <1>7, <1>9, WorkOrder DEF WorkFits, Seeding
<1>12. \A o \in SetupIds : o # c => WorkFits(o)'
  BY <1>6 DEF WorkFits
<1> QED
  BY <1>8, <1>10, <1>11, <1>12 DEF SetupOK

\* What a setup is answered ok for is there.
LEMMA CallEnds ==
  ASSUME SetupTypes, SetupOK, NEW c \in SetupIds, Finish(c)
  PROVE  SetupOK'
<1>1. /\ setups[c].at = "done" /\ completed' /\ ~pending' /\ Put(c, "ok")
      /\ finished' = [by |-> c, db |-> setups[c].db, name |-> setups[c].name]
      /\ given' = given /\ file' = file /\ dbs' = dbs /\ phase' = phase /\ env' = env
      /\ connected' = connected
  BY DEF Finish
<1>2. Working(c) /\ "ok" \notin AtWork
  BY <1>1, WorkOrder DEF Working
<1>3. /\ \A o \in SetupIds : o # c => ~Working(o)
      /\ setups[c].db \in Dbs /\ setups[c].name \in Names
      /\ c = Unattended /\ given.driver # Nothing => setups[c].db = Home
      /\ file = ConfigOf(setups[c].db) /\ connected = setups[c].db
      /\ dbs[setups[c].db].admins[setups[c].name] = c /\ dbs[setups[c].db].domain = c
      /\ "settings" \in dbs[setups[c].db].seeds /\ "group" \in dbs[setups[c].db].seeds
  BY <1>1, <1>2 DEF SetupOK, WorkFits
<1>4. setups'[c].at = "ok" /\ \A o \in SetupIds : o # c => setups'[o] = setups[o]
  BY <1>1, PutOK
<1>5. NoWork'
  BY <1>2, <1>3, <1>4 DEF NoWork, Working
<1>6. Served'
  <2>1. c # Nothing
    BY SetupAssumption
  <2>2. SomeAdmin(connected)
    BY <1>3, <2>1 DEF SomeAdmin
  <2> QED  BY <1>1, <1>3, <2>2 DEF Served, SomeAdmin
<1>7. PhaseFits /\ phase \notin {"down", "connect", "fresh?"}
  BY <1>2 DEF SetupOK, PhaseFits, NoWork
<1>8. phase = "setup" => c = Unattended /\ given.secret = Unattended
  BY <1>2, <1>7 DEF PhaseFits, SetupIds
<1>9. PhaseFits'
  <2>1. phase = "setup" => /\ given.secret = Unattended /\ setups'[Unattended].at = "ok"
                           /\ \A o \in Setups : ~Working(o)'
    BY <1>4, <1>5, <1>8 DEF NoWork, SetupIds
  <2> QED
    BY <1>1, <1>5, <1>6, <1>7, <2>1 DEF PhaseFits, Seeding
<1>10. given.driver # Nothing => setups[c].db = Home
  <2>1. CASE c = Unattended
    BY <1>3, <2>1
  <2>2. CASE c # Unattended
    <3>1. given.secret = Deployed
      BY <1>2, <1>7, <1>8, <2>2 DEF PhaseFits, NoWork, SetupPhases, SetupTypes
    <3>2. given = EnvOf(Nothing, Deployed)
      BY <3>1, SetupAssumption DEF SetupTypes, EnvOf
    <3>3. given.driver = Nothing
      BY <3>2 DEF EnvOf
    <3> QED  BY <3>3
  <2> QED  BY <2>1, <2>2
<1>11. FinishedFits'
  BY <1>1, <1>3, <1>5, <1>10 DEF FinishedFits, Home
<1> QED
  BY <1>5, <1>9, <1>11 DEF SetupOK, WorkFits, NoWork

\* Steps of the process while no setup changes: the databases may grow.
LEMMA ServerStep ==
  ASSUME SetupTypes, SetupOK, Grows, PhaseFits',
         UNCHANGED <<given, file, setups, completed, finished>>, ~pending => ~pending',
         phase \notin {"down", "connect"} /\ phase' \notin {"down", "connect"} => connected' = connected,
         phase \in {"down", "connect"} /\ phase' \notin {"down", "connect"} =>
             env = given /\ connected' = Loaded,
         NoWork \/ connected' = connected
  PROVE  SetupOK'
<1>1. FinishedFits /\ (NoWork' <=> NoWork)
  BY DEF SetupOK, NoWork, Working
<1>2. FinishedFits'
  <2> SUFFICES ASSUME finished.by # Nothing
               PROVE  FinishedFits'
    BY DEF FinishedFits
  <2>1. /\ NoWork /\ ~pending /\ finished.db \in Dbs /\ finished.name \in Names
        /\ file = ConfigOf(finished.db)
        /\ dbs[finished.db].admins[finished.name] = finished.by /\ dbs[finished.db].domain = finished.by
        /\ {"settings", "group"} \subseteq dbs[finished.db].seeds
        /\ given.driver # Nothing => finished.db = Home
        /\ phase \notin {"down", "connect"} => connected = finished.db
    BY <1>1 DEF FinishedFits
  <2>2. /\ dbs'[finished.db].admins[finished.name] = finished.by /\ dbs'[finished.db].domain = finished.by
        /\ {"settings", "group"} \subseteq dbs'[finished.db].seeds
    BY <2>1 DEF Grows
  <2>3. env = given => Loaded = finished.db
    BY <2>1, LoadedAfterStart
  <2>4. phase' \notin {"down", "connect"} => connected' = finished.db
    BY <2>1, <2>3
  <2>5. given' = given /\ file' = file /\ finished' = finished /\ NoWork' /\ ~pending'
    BY <1>1, <2>1
  <2> QED
    BY <2>1, <2>2, <2>4, <2>5 DEF FinishedFits, Home
<1>3. ASSUME NEW c \in SetupIds PROVE WorkFits(c)'
  <2> SUFFICES ASSUME Working(c)' PROVE WorkFits(c)'
    BY DEF WorkFits
  <2>1. Working(c) /\ WorkFits(c) /\ ~NoWork /\ setups' = setups /\ file' = file /\ given' = given
    BY DEF Working, NoWork, SetupOK
  <2>2. connected' = connected /\ setups[c].db \in Dbs /\ finished' = finished /\ completed' = completed
    BY <2>1 DEF WorkFits
  <2>3. /\ dbs'[setups[c].db].admins = dbs[setups[c].db].admins
        /\ dbs'[setups[c].db].domain = dbs[setups[c].db].domain
        /\ dbs[setups[c].db].seeds \subseteq dbs'[setups[c].db].seeds
    BY <2>2 DEF Grows
  <2> QED
    BY <2>1, <2>2, <2>3 DEF WorkFits, Working, Home
<1> QED
  BY <1>2, <1>3 DEF SetupOK

\* A start goes through its phases.
LEMMA ServerSteps ==
  ASSUME SetupTypes, SetupOK, ~misread',
         Boot \/ BootConnect \/ UnattendedDone \/ Bootstrap \/ StoreKey
  PROVE  SetupOK'
<1>1. /\ dbs \in [Dbs -> DbRecords] /\ PhaseFits /\ Unattended \in SetupIds /\ completed \in BOOLEAN
  BY DEF SetupTypes, SetupOK, SetupIds
<1>2. CASE Boot
  <2>1. /\ phase = "down" /\ phase' = "connect" /\ given' = given /\ file' = file /\ dbs' = dbs
        /\ env' = env /\ connected' = connected /\ completed' = completed /\ pending' = pending
        /\ setups' = setups /\ finished' = finished
    BY <1>2 DEF Boot
  <2>2. PhaseFits'
    BY <1>1, <2>1 DEF PhaseFits, NoWork, Working, Seeding
  <2>3. Grows
    BY <2>1 DEF Grows
  <2> QED  BY <2>1, <2>2, <2>3, ServerStep
<1>3. CASE BootConnect
  <2>1. /\ phase = "connect" /\ phase' = "fresh?" /\ given' = given /\ file' = file
        /\ env' = env /\ connected' = Loaded /\ completed' = completed /\ pending' = pending
        /\ setups' = setups /\ finished' = finished
        /\ dbs' = [dbs EXCEPT ![Loaded].made = TRUE, ![Loaded].tables = @ \/ Loaded \in Urls]
    BY <1>3 DEF BootConnect
  <2>2. env = given /\ NoWork
    BY <1>1, <2>1 DEF PhaseFits
  <2>3. Loaded \in Dbs
    BY <2>2, LoadedAfterStart
  <2>4. Grows /\ dbs'[Loaded].made
    BY <1>1, <2>1, <2>3 DEF Grows, DbRecords
  <2>5. Loaded' = Loaded
    BY <2>1 DEF Loaded
  <2>6. PhaseFits'
    BY <1>1, <2>1, <2>4, <2>5 DEF PhaseFits, NoWork, Working, Seeding
  <2> QED  BY <2>1, <2>2, <2>4, <2>6, ServerStep
<1>4. CASE UnattendedDone
  <2>1. /\ phase = "setup" /\ phase' = "migrate" /\ given' = given /\ file' = file /\ dbs' = dbs
        /\ env' = env /\ connected' = connected /\ completed' = completed /\ pending' = pending
        /\ setups' = setups /\ finished' = finished /\ setups[Unattended].at = "ok"
    BY <1>4 DEF UnattendedDone
  <2>2. Served /\ ~pending /\ \A c \in Setups : ~Working(c)
    BY <1>1, <2>1 DEF PhaseFits
  <2>3. NoWork
    BY <2>1, <2>2, WorkOrder DEF NoWork, Working, SetupIds
  <2>4. Served' /\ NoWork'
    BY <2>1, <2>2, <2>3 DEF Served, SomeAdmin, Loaded, NoWork, Working
  <2>5. PhaseFits'
    BY <2>1, <2>2, <2>4 DEF PhaseFits, Seeding
  <2>6. Grows
    BY <2>1 DEF Grows
  <2> QED  BY <2>1, <2>5, <2>6, ServerStep
<1>5. CASE Bootstrap
  <2>1. /\ phase \in {"migrate"} \cup Seeding /\ given' = given /\ file' = file
        /\ env' = env /\ connected' = connected /\ completed' = completed /\ pending' = pending
        /\ setups' = setups /\ finished' = finished
    BY <1>5 DEF Bootstrap
  <2>2. phase' \in {"up"} \cup Seeding
    BY <1>5, WorkOrder DEF Bootstrap, Seeding
  <2>3. Served /\ ~pending /\ NoWork
    BY <1>1, <2>1 DEF PhaseFits, Seeding
  <2>4. Grows
    <3>1. dbs' = [dbs EXCEPT ![connected].tables = TRUE] \/ (phase \in Seeding /\ Seed(phase))
      BY <1>5 DEF Bootstrap, Seed, Seeding
    <3>2. CASE dbs' = [dbs EXCEPT ![connected].tables = TRUE]
      BY <1>1, <3>2 DEF Grows, DbRecords
    <3>3. CASE phase \in Seeding /\ Seed(phase)
      BY <1>1, <3>3, SeedGrows
    <3> QED  BY <3>1, <3>2, <3>3
  <2>5. Served' /\ NoWork'
    <3>1. SomeAdmin(connected)' /\ (dbs[connected].made => dbs'[connected].made)
      BY <2>1, <2>3, <2>4 DEF Served, Grows, SomeAdmin
    <3>2. Loaded' = Loaded
      BY <2>1 DEF Loaded
    <3> QED  BY <2>1, <2>3, <3>1, <3>2 DEF Served, NoWork, Working
  <2>6. PhaseFits'
    BY <2>1, <2>2, <2>3, <2>5 DEF PhaseFits, Seeding
  <2>7. phase \notin {"down", "connect"} /\ phase' \notin {"down", "connect"}
    BY <2>1, <2>2 DEF Seeding
  <2> QED  BY <2>1, <2>4, <2>6, <2>7, ServerStep
<1>6. CASE StoreKey
  <2>1. /\ phase = "up" /\ ~pending /\ phase' = phase /\ given' = given /\ file' = file
        /\ env' = env /\ connected' = connected /\ completed' = completed /\ pending' = pending
        /\ setups' = setups /\ finished' = finished
        /\ dbs' = [dbs EXCEPT ![connected].keys = @ \cup {env.secret}]
    BY <1>6 DEF StoreKey
  <2>2. Served /\ NoWork
    BY <1>1, <2>1 DEF PhaseFits
  <2>3. Grows
    BY <1>1, <2>1 DEF Grows, DbRecords
  <2>4. Served' /\ NoWork'
    <3>1. SomeAdmin(connected)' /\ (dbs[connected].made => dbs'[connected].made)
      BY <2>1, <2>2, <2>3 DEF Served, Grows, SomeAdmin
    <3>2. Loaded' = Loaded
      BY <2>1 DEF Loaded
    <3> QED  BY <2>1, <2>2, <3>1, <3>2 DEF Served, NoWork, Working
  <2>5. PhaseFits'
    BY <2>1, <2>4 DEF PhaseFits, Seeding
  <2> QED  BY <2>1, <2>3, <2>5, ServerStep
<1> QED
  BY <1>2, <1>3, <1>4, <1>5, <1>6

\* A server that is not set up is found to be so, and the one that is set up is not.
LEMMA ServerDecides ==
  ASSUME SetupTypes, SetupOK, ~misread', BootDecides
  PROVE  SetupOK'
<1>1. PICK fresh \in BOOLEAN :
        /\ Counted(fresh)
        /\ pending' = (fresh /\ given.secret = Deployed)
        /\ phase' = IF ~fresh THEN "migrate" ELSE IF pending' THEN "up" ELSE "setup"
        /\ setups' = IF phase' # "setup" THEN setups
                     ELSE [setups EXCEPT ![Unattended] =
                             [at |-> "asked", name |-> CHOOSE n \in Names : TRUE, found |-> FALSE,
                              db |-> IF given.driver = Nothing THEN DefaultFile ELSE Loaded]]
  BY DEF BootDecides
<1>2. /\ phase = "fresh?" /\ given' = given /\ file' = file /\ dbs' = dbs /\ env' = env
      /\ connected' = connected /\ completed' = completed /\ finished' = finished
  BY DEF BootDecides
<1>3. /\ NoWork /\ env = given /\ ~completed /\ ~pending /\ setups[Unattended] = NoSetup
      /\ connected = Loaded /\ dbs[Loaded].made /\ FinishedFits
  BY <1>2 DEF SetupOK, PhaseFits
<1>4. fresh <=> Fresh
  BY <1>1 DEF Counted
<1>5. Loaded \in Dbs /\ (given.driver # Nothing => Loaded = Home) /\ DefaultFile \in Dbs
  BY <1>3, LoadedAfterStart, SetupAssumption DEF Dbs
<1>6. fresh <=> ~SomeAdmin(connected)
  BY <1>3, <1>4, <1>5, SetupAssumption DEF Fresh
<1>7. CASE ~fresh
  <2>1. phase' = "migrate" /\ setups' = setups /\ ~pending'
    BY <1>1, <1>7
  <2>2. Served' /\ NoWork'
    BY <1>2, <1>3, <1>5, <1>6, <1>7, <2>1 DEF Served, SomeAdmin, Loaded, NoWork, Working
  <2>3. PhaseFits'
    BY <2>1, <2>2 DEF PhaseFits, Seeding
  <2>4. Grows
    BY <1>2 DEF Grows
  <2> QED  BY <1>2, <1>3, <2>1, <2>3, <2>4, ServerStep
<1>8. CASE fresh
  <2>1. finished.by = Nothing
    <3> SUFFICES ASSUME finished.by # Nothing PROVE FALSE
      OBVIOUS
    <3>1. finished.name \in Names /\ dbs[connected].admins[finished.name] = finished.by
      BY <1>2, <1>3 DEF FinishedFits
    <3> QED  BY <1>6, <1>8, <3>1 DEF SomeAdmin
  <2>2. CASE given.secret = Deployed
    <3>1. phase' = "up" /\ setups' = setups /\ pending'
      BY <1>1, <1>8, <2>2
    <3>2. NoWork' /\ Unattended \in SetupIds
      BY <1>3, <3>1 DEF NoWork, Working, SetupIds
    <3>3. PhaseFits'
      BY <1>2, <2>2, <3>1, <3>2 DEF PhaseFits, NoWork, Seeding
    <3>4. FinishedFits' /\ \A c \in SetupIds : WorkFits(c)'
      BY <1>2, <2>1, <3>2 DEF FinishedFits, WorkFits, NoWork
    <3> QED  BY <3>3, <3>4 DEF SetupOK
  <2>3. CASE given.secret # Deployed
    <3> DEFINE d == IF given.driver = Nothing THEN DefaultFile ELSE Loaded
               n == CHOOSE x \in Names : TRUE
    <3>1. phase' = "setup" /\ ~pending' /\ given.secret = Unattended
      <4>1. phase' = "setup" /\ ~pending'
        BY <1>1, <1>8, <2>3
      <4>2. PICK e \in {Nothing} \cup Dbs, x \in {Deployed, Unattended} : given = EnvOf(e, x)
        BY DEF SetupTypes
      <4>3. given.secret = x
        BY <4>2 DEF EnvOf
      <4> QED
        BY <2>3, <4>1, <4>3
    <3>2. setups' = [setups EXCEPT ![Unattended] = [at |-> "asked", name |-> n, found |-> FALSE, db |-> d]]
      BY <1>1, <3>1
    <3>3. d \in Dbs /\ n \in Names /\ (given.driver # Nothing => d = Home)
      BY <1>5, SetupAssumption
    <3> HIDE DEF d, n
    <3>4. /\ setups'[Unattended] = [at |-> "asked", name |-> n, found |-> FALSE, db |-> d]
          /\ \A o \in SetupIds : o # Unattended => setups'[o] = setups[o]
      BY <3>2 DEF SetupTypes, SetupIds
    <3>5. \A o \in SetupIds : o # Unattended => ~Working(o)'
      BY <1>3, <3>4 DEF NoWork, Working
    <3>6. \A o \in Setups : ~Working(o)'
      BY <3>5, SetupAssumption DEF SetupIds
    <3>7. PhaseFits'
      BY <1>2, <1>3, <3>1, <3>4, <3>6 DEF PhaseFits, Seeding
    <3>8. WorkFits(Unattended)'
      BY <1>2, <1>3, <2>1, <3>3, <3>4, <3>5 DEF WorkFits, Seeding, Home
    <3>9. FinishedFits' /\ \A o \in SetupIds : o # Unattended => WorkFits(o)'
      BY <1>2, <2>1, <3>5 DEF FinishedFits, WorkFits
    <3> QED  BY <3>7, <3>8, <3>9 DEF SetupOK
  <2> QED  BY <2>2, <2>3
<1> QED
  BY <1>7, <1>8

\* A process that is gone leaves the file and the databases.
LEMMA ServerStops ==
  ASSUME SetupTypes, SetupOK, StartFails \/ ProcessDies
  PROVE  SetupOK'
<1>1. /\ Gone /\ given' = given /\ file' = file /\ dbs' = dbs /\ finished' = finished
  BY DEF StartFails, ProcessDies
<1>2. /\ phase' = "down" /\ env' = given /\ ~completed' /\ ~pending'
      /\ setups' = [c \in SetupIds |->
                    IF c = Unattended THEN NoSetup
                    ELSE [setups[c] EXCEPT !.at = IF @ \in AtWork THEN "lost" ELSE @]]
  BY <1>1 DEF Gone
<1>3. NoWork'
  <2>1. "lost" \notin AtWork /\ NoSetup.at \notin AtWork
    BY WorkOrder DEF NoSetup
  <2>2. ASSUME NEW c \in SetupIds PROVE setups'[c].at \notin AtWork
    BY <1>2, <2>1 DEF SetupTypes, SetupRecords
  <2> QED  BY <2>2 DEF NoWork, Working
<1>4. setups'[Unattended] = NoSetup
  BY <1>2 DEF SetupIds
<1>5. PhaseFits'
  BY <1>1, <1>2, <1>3, <1>4 DEF PhaseFits, Seeding
<1>6. FinishedFits'
  BY <1>1, <1>2, <1>3 DEF SetupOK, FinishedFits, Home
<1>7. \A c \in SetupIds : WorkFits(c)'
  BY <1>3 DEF WorkFits, NoWork
<1> QED
  BY <1>5, <1>6, <1>7 DEF SetupOK

\* Every step keeps the invariant.
LEMMA SetupStep == ASSUME SetupInv, [SetupNext]_setupVars PROVE SetupInv'
<1>1. CASE UNCHANGED setupVars
  <2>1. /\ given' = given /\ file' = file /\ dbs' = dbs /\ phase' = phase /\ env' = env
        /\ connected' = connected /\ completed' = completed /\ pending' = pending
        /\ setups' = setups /\ finished' = finished /\ overlapped' = overlapped /\ misread' = misread
    BY <1>1 DEF setupVars
  <2> QED
    BY <2>1 DEF SetupInv, SetupTypes, SetupOK, PhaseFits, FinishedFits, WorkFits, NoWork, Served,
                Working, SomeAdmin, Loaded, Home
<1>2. CASE SetupNext
  <2>1. SetupTypes
    BY DEF SetupInv
  <2>2. SetupTypes'
    BY <1>2, <2>1, ProcessTypes, CallTypes DEF SetupNext
  <2>3. (misread => misread') /\ (overlapped => overlapped')
    <3>1. ASSUME NEW fresh, Counted(fresh) PROVE misread => misread'
      BY <3>1 DEF Counted
    <3>2. CASE Boot \/ BootConnect \/ UnattendedDone \/ Bootstrap \/ StartFails \/ ProcessDies
               \/ StoreKey
      BY <3>2 DEF Boot, BootConnect, UnattendedDone, Bootstrap, StartFails, ProcessDies, StoreKey
    <3>3. CASE BootDecides
      <4>1. overlapped' = overlapped /\ \E fresh \in BOOLEAN : Counted(fresh)
        BY <3>3 DEF BootDecides
      <4> QED  BY <3>1, <4>1
    <3>4. ASSUME NEW c \in SetupIds, RouteCheck(c)
          PROVE  (misread => misread') /\ (overlapped => overlapped')
      <4>1. (overlapped => overlapped') /\ \E fresh \in BOOLEAN : Counted(fresh)
        BY <3>4 DEF RouteCheck
      <4> QED  BY <3>1, <4>1
    <3>5. ASSUME NEW c \in SetupIds, SetupBegins(c)
          PROVE  (misread => misread') /\ (overlapped => overlapped')
      <4>1. (overlapped => overlapped') /\ \E fresh \in BOOLEAN : Counted(fresh)
        BY <3>5 DEF SetupBegins
      <4> QED  BY <3>1, <4>1
    <3>6. ASSUME NEW c \in SetupIds, Connect(c) \/ Finish(c) \/ SetupFails(c)
          PROVE  (misread => misread') /\ (overlapped => overlapped')
      BY <3>6 DEF Connect, Finish, SetupFails
    <3>7. ASSUME NEW c \in SetupIds,
                 \/ Migrate(c) \/ FindAdmin(c) \/ WriteAdmin(c) \/ WriteDomain(c) \/ SetupSeeds(c)
          PROVE  (misread => misread') /\ (overlapped => overlapped')
      BY <3>7 DEF Migrate, FindAdmin, WriteAdmin, WriteDomain, SetupSeeds, elsewhere
    <3> QED
      BY <1>2, <3>2, <3>3, <3>4, <3>5, <3>6, <3>7 DEF SetupNext
  <2>4. ASSUME ~misread', ~overlapped' PROVE SetupOK'
    <3>1. SetupOK
      BY <2>3, <2>4 DEF SetupInv
    <3>2. CASE Boot \/ BootConnect \/ UnattendedDone \/ Bootstrap \/ StoreKey
      BY <2>1, <2>4, <3>1, <3>2, ServerSteps
    <3>3. CASE BootDecides
      BY <2>1, <2>4, <3>1, <3>3, ServerDecides
    <3>4. CASE StartFails \/ ProcessDies
      BY <2>1, <3>1, <3>4, ServerStops
    <3>5. ASSUME NEW c \in SetupIds, RouteCheck(c) PROVE SetupOK'
      BY <2>1, <2>4, <3>1, <3>5, CallArrives
    <3>6. ASSUME NEW c \in SetupIds, Finish(c) PROVE SetupOK'
      BY <2>1, <3>1, <3>6, CallEnds
    <3>7. ASSUME NEW c \in SetupIds,
                 \/ SetupBegins(c) \/ Connect(c) \/ Migrate(c) \/ FindAdmin(c)
                 \/ WriteAdmin(c) \/ WriteDomain(c) \/ SetupSeeds(c) \/ SetupFails(c)
          PROVE  SetupOK'
      BY <2>1, <2>4, <3>1, <3>7, CallSteps
    <3> QED
      BY <1>2, <3>2, <3>3, <3>4, <3>5, <3>6, <3>7 DEF SetupNext
  <2> QED
    BY <2>2, <2>4 DEF SetupInv
<1> QED
  BY <1>1, <1>2

\* As long as setups do not overlap and the users can be counted, the phase of the process, the
\* setup at work and what an earlier one was answered ok for fit together, wherever a statement
\* fails or the process dies.
THEOREM SetupInvariant == SetupSpec => []SetupInv
<1>1. SetupInv /\ [SetupNext]_setupVars => SetupInv'
  BY SetupStep
<1> QED
  BY SetupBegin, <1>1, PTL DEF SetupSpec

\* SetupKept, for all setups, names and databases, any number of starts and failures.
THEOREM SetupIsKept == SetupSpec => []SetupKept
<1>1. SetupInv => SetupKept
  <2> SUFFICES ASSUME SetupInv, ~overlapped, ~misread
               PROVE  /\ phase = "up" /\ ~pending => SomeAdmin(connected)
                      /\ finished.by # Nothing =>
                           /\ file = ConfigOf(finished.db)
                           /\ dbs[finished.db].admins[finished.name] = finished.by
                           /\ dbs[finished.db].domain = finished.by
                           /\ {"settings", "group"} \subseteq dbs[finished.db].seeds
                           /\ phase = "up" => connected = finished.db
    BY DEF SetupKept
  <2>1. PhaseFits /\ FinishedFits
    BY DEF SetupInv, SetupOK
  <2>2. phase = "up" /\ ~pending => SomeAdmin(connected)
    BY <2>1 DEF PhaseFits, Served
  <2> QED
    BY <2>1, <2>2 DEF FinishedFits
<1> QED
  BY <1>1, SetupInvariant, PTL

-----------------------------------------------------------------------------
(* ModelCatalog                                                              *)

ModelRows == [id : Nat, active : BOOLEAN, set : SUBSET Settings]
CatalogPlaces == {"none", "fetch", "tested", "manual", "prune", "insert", "by hand", "drop"}
CatalogJobs == [at : CatalogPlaces, saw : [Models -> ModelRows], list : SUBSET Models,
                left : SUBSET Models, test : BOOLEAN, then : BOOLEAN, manual : SUBSET Models]

\* A model that is kept is not one that a call is about to delete.
ModelInv ==
    /\ manual \subseteq Models /\ kept \subseteq Models /\ inserted \in Nat
    /\ rows \in [Models -> ModelRows]
    /\ jobs \in [Administrators -> CatalogJobs]
    /\ SettingsKept
    /\ \A m \in kept : ~Doomed(m)

\* A row with settings is there.
LEMMA KeptPresent == ASSUME ModelInv, NEW m \in kept PROVE m \in Models /\ Present(m)
BY DEF ModelInv, SettingsKept, Present, NoRow

\* Calls that get on with their work, and rows that keep their settings, keep the invariant.
LEMMA CatalogStep ==
  ASSUME ModelInv, NEW a \in Administrators,
         jobs' \in [Administrators -> CatalogJobs],
         \A b \in Administrators : b # a => jobs'[b] = jobs[b],
         jobs'[a].at = "prune" =>
            \/ /\ jobs[a].at = "prune" /\ jobs'[a].left \subseteq jobs[a].left
               /\ jobs'[a].list = jobs[a].list /\ jobs'[a].saw = jobs[a].saw
            \/ jobs'[a].saw = rows,
         manual' \subseteq Models, kept' = kept, inserted' \in Nat,
         rows' \in [Models -> ModelRows],
         \A m \in kept : rows'[m].set = rows[m].set
  PROVE  ModelInv'
<1>1. SettingsKept'
  BY DEF ModelInv, SettingsKept
<1>2. ASSUME NEW m \in kept PROVE ~Doomed(m)'
  <2> SUFFICES ASSUME NEW b \in Administrators, jobs'[b].at = "prune",
                      m \in jobs'[b].left \ jobs'[b].list, jobs'[b].saw[m].set \cap Custom = {}
               PROVE  FALSE
    BY DEF Doomed, Does
  <2>1. /\ ~(jobs[b].at = "prune" /\ m \in jobs[b].left \ jobs[b].list
             /\ jobs[b].saw[m].set \cap Custom = {})
        /\ rows[m].set \cap Custom # {}
    BY <1>2 DEF ModelInv, SettingsKept, Doomed, Does
  <2>2. CASE b = a
    BY <2>1, <2>2
  <2>3. CASE b # a
    BY <2>1, <2>3
  <2> QED
    BY <2>2, <2>3
<1> QED
  BY <1>1, <1>2 DEF ModelInv

\* No row and no call, as values
LEMMA NoneTypes == NoRow \in ModelRows /\ NoJob \in CatalogJobs /\ NoJob.at = "none"
<1>1. NoRow \in ModelRows
  BY DEF NoRow, ModelRows
<1>2. [m \in Models |-> NoRow] \in [Models -> ModelRows]
  BY <1>1
<1>3. ASSUME NEW seen \in [Models -> ModelRows]
      PROVE  [at |-> "none", saw |-> seen, list |-> {}, left |-> {},
              test |-> FALSE, then |-> FALSE, manual |-> {}] \in CatalogJobs
  BY DEF CatalogJobs, CatalogPlaces
<1>4. NoJob.at = "none"
  BY DEF NoJob
<1>5. NoJob \in CatalogJobs
  BY <1>2, <1>3 DEF NoJob
<1> QED
  BY <1>1, <1>4, <1>5

\* One field of a call is changed.
LEMMA JobWith ==
  ASSUME NEW job \in CatalogJobs
  PROVE  /\ \A x \in CatalogPlaces : LET j == [job EXCEPT !.at = x] IN
                j \in CatalogJobs /\ j.at = x /\ j.list = job.list /\ j.saw = job.saw /\ j.left = job.left
         /\ \A x \in SUBSET Models : LET j == [job EXCEPT !.left = x] IN
                j \in CatalogJobs /\ j.at = job.at /\ j.list = job.list /\ j.saw = job.saw /\ j.left = x
         /\ \A x \in SUBSET Models : LET j == [job EXCEPT !.list = x] IN
                j \in CatalogJobs /\ j.at = job.at /\ j.saw = job.saw
         /\ \A x \in SUBSET Models : LET j == [job EXCEPT !.manual = x] IN
                j \in CatalogJobs /\ j.at = job.at
         /\ \A x \in [Models -> ModelRows] : LET j == [job EXCEPT !.saw = x] IN
                j \in CatalogJobs /\ j.at = job.at /\ j.saw = x
         /\ \A x \in BOOLEAN : [job EXCEPT !.test = x] \in CatalogJobs /\ [job EXCEPT !.test = x].at = job.at
         /\ \A x \in BOOLEAN : [job EXCEPT !.then = x] \in CatalogJobs /\ [job EXCEPT !.then = x].at = job.at
<1>1. \A x \in CatalogPlaces : LET j == [job EXCEPT !.at = x] IN
                j \in CatalogJobs /\ j.at = x /\ j.list = job.list /\ j.saw = job.saw /\ j.left = job.left
  BY DEF CatalogJobs
<1>2. \A x \in SUBSET Models : LET j == [job EXCEPT !.left = x] IN
                j \in CatalogJobs /\ j.at = job.at /\ j.list = job.list /\ j.saw = job.saw /\ j.left = x
  BY DEF CatalogJobs
<1>3. \A x \in SUBSET Models : LET j == [job EXCEPT !.list = x] IN
                j \in CatalogJobs /\ j.at = job.at /\ j.saw = job.saw
  BY DEF CatalogJobs
<1>4. \A x \in SUBSET Models : LET j == [job EXCEPT !.manual = x] IN
                j \in CatalogJobs /\ j.at = job.at
  BY DEF CatalogJobs
<1>5. \A x \in [Models -> ModelRows] : LET j == [job EXCEPT !.saw = x] IN
                j \in CatalogJobs /\ j.at = job.at /\ j.saw = x
  BY DEF CatalogJobs
<1>6. \A x \in BOOLEAN : [job EXCEPT !.test = x] \in CatalogJobs /\ [job EXCEPT !.test = x].at = job.at
  BY DEF CatalogJobs
<1>7. \A x \in BOOLEAN : [job EXCEPT !.then = x] \in CatalogJobs /\ [job EXCEPT !.then = x].at = job.at
  BY DEF CatalogJobs
<1> QED
  BY <1>1, <1>2, <1>3, <1>4, <1>5, <1>6, <1>7

\* The calls of the administrators
LEMMA CatalogCalls ==
  ASSUME ModelInv, NEW a \in Administrators,
         \/ \E list, byHand \in SUBSET Models :
               \/ CreateProvider(a, list, byHand)
               \/ \E tested \in BOOLEAN : UpdateProvider(a, tested, list, byHand)
         \/ StartRefresh(a) \/ RefreshFails(a) \/ EndInsert(a) \/ ReadManual(a)
         \/ EndManual(a) \/ DeleteProvider(a)
  PROVE  ModelInv'
<1>1. /\ rows \in [Models -> ModelRows] /\ jobs \in [Administrators -> CatalogJobs]
      /\ manual \subseteq Models /\ inserted \in Nat
  BY DEF ModelInv
<1>2. NoRow \in ModelRows /\ NoJob \in CatalogJobs /\ NoJob.at = "none"
  BY NoneTypes
<1>3. rows' = rows /\ kept' = kept /\ inserted' = inserted
  BY DEF CreateProvider, UpdateProvider, StartRefresh, RefreshFails, EndInsert, ReadManual,
         EndManual, DeleteProvider
<1>4. manual' \subseteq Models
  BY <1>1 DEF CreateProvider, UpdateProvider, StartRefresh, RefreshFails, EndInsert, ReadManual,
         EndManual, DeleteProvider
<1>5. PICK job \in CatalogJobs : job.at # "prune" /\ jobs' = [jobs EXCEPT ![a] = job]
  <2>1. ASSUME NEW list \in SUBSET Models, NEW byHand \in SUBSET Models,
               CreateProvider(a, list, byHand)
        PROVE  \E job \in CatalogJobs : job.at # "prune" /\ jobs' = [jobs EXCEPT ![a] = job]
    <3> DEFINE j == [NoJob EXCEPT !.at = "insert", !.list = list \cup byHand, !.left = list \cup byHand]
    <3>1. "insert" \in CatalogPlaces
      BY DEF CatalogPlaces
    <3> DEFINE j1 == [NoJob EXCEPT !.at = "insert"]
    <3>10. j1 \in CatalogJobs /\ j1.at = "insert"
      BY <1>2, <3>1, JobWith
    <3> HIDE DEF j1
    <3> DEFINE j2 == [j1 EXCEPT !.list = list \cup byHand]
    <3>11. j2 \in CatalogJobs /\ j2.at = "insert"
      BY <3>10, <3>1, JobWith
    <3> HIDE DEF j2
    <3> DEFINE j3 == [j2 EXCEPT !.left = list \cup byHand]
    <3>12. j3 \in CatalogJobs /\ j3.at = "insert"
      BY <3>11, <3>1, JobWith
    <3> HIDE DEF j3
    <3>2. j \in CatalogJobs /\ j.at = "insert"
      BY <3>12 DEF j1, j2, j3
    <3> QED  BY <2>1, <3>2 DEF CreateProvider
  <2>2. ASSUME NEW list \in SUBSET Models, NEW byHand \in SUBSET Models, NEW tested \in BOOLEAN,
               UpdateProvider(a, tested, list, byHand)
        PROVE  \E job \in CatalogJobs : job.at # "prune" /\ jobs' = [jobs EXCEPT ![a] = job]
    <3> DEFINE j == [NoJob EXCEPT !.at = IF tested THEN "tested" ELSE "manual", !.list = list,
                    !.test = tested, !.then = byHand # manual, !.manual = byHand]
    <3>1. (byHand # manual) \in BOOLEAN
      OBVIOUS
    <3>2. (IF tested THEN "tested" ELSE "manual") \in CatalogPlaces \ {"prune"}
      BY DEF CatalogPlaces
    <3> DEFINE j1 == [NoJob EXCEPT !.at = IF tested THEN "tested" ELSE "manual"]
    <3>10. j1 \in CatalogJobs /\ j1.at # "prune"
      BY <1>2, <3>1, <3>2, JobWith
    <3> HIDE DEF j1
    <3> DEFINE j2 == [j1 EXCEPT !.list = list]
    <3>11. j2 \in CatalogJobs /\ j2.at # "prune"
      BY <3>10, <3>1, <3>2, JobWith
    <3> HIDE DEF j2
    <3> DEFINE j3 == [j2 EXCEPT !.test = tested]
    <3>12. j3 \in CatalogJobs /\ j3.at # "prune"
      BY <3>11, <3>1, <3>2, JobWith
    <3> HIDE DEF j3
    <3> DEFINE j4 == [j3 EXCEPT !.then = byHand # manual]
    <3>13. j4 \in CatalogJobs /\ j4.at # "prune"
      BY <3>12, <3>1, <3>2, JobWith
    <3> HIDE DEF j4
    <3> DEFINE j5 == [j4 EXCEPT !.manual = byHand]
    <3>14. j5 \in CatalogJobs /\ j5.at # "prune"
      BY <3>13, <3>1, <3>2, JobWith
    <3> HIDE DEF j5
    <3>3. j \in CatalogJobs /\ j.at # "prune"
      BY <3>14 DEF j1, j2, j3, j4, j5
    <3> QED  BY <2>2, <3>3 DEF UpdateProvider
  <2>3. ASSUME NEW at \in CatalogPlaces, at # "prune", jobs' = [jobs EXCEPT ![a].at = at]
        PROVE  \E job \in CatalogJobs : job.at # "prune" /\ jobs' = [jobs EXCEPT ![a] = job]
    <3> DEFINE j == [jobs[a] EXCEPT !.at = at]
    <3>1. j \in CatalogJobs /\ j.at = at
      BY <1>1 DEF CatalogJobs
    <3> QED  BY <2>3, <3>1
  <2>4. ASSUME Done(a)
        PROVE  \E job \in CatalogJobs : job.at # "prune" /\ jobs' = [jobs EXCEPT ![a] = job]
    BY <1>2, <2>4 DEF Done
  <2>5. ASSUME NEW s \in SUBSET Models, jobs' = [jobs EXCEPT ![a].at = "by hand", ![a].left = s]
        PROVE  \E job \in CatalogJobs : job.at # "prune" /\ jobs' = [jobs EXCEPT ![a] = job]
    <3> DEFINE j == [jobs[a] EXCEPT !.at = "by hand", !.left = s]
    <3>1. "by hand" \in CatalogPlaces
      BY DEF CatalogPlaces
    <3>2. jobs[a] \in CatalogJobs
      BY <1>1
    <3> DEFINE j1 == [jobs[a] EXCEPT !.at = "by hand"]
    <3>10. j1 \in CatalogJobs /\ j1.at = "by hand"
      BY <3>2, <3>1, JobWith
    <3> HIDE DEF j1
    <3> DEFINE j2 == [j1 EXCEPT !.left = s]
    <3>11. j2 \in CatalogJobs /\ j2.at = "by hand"
      BY <3>10, <3>1, JobWith
    <3> HIDE DEF j2
    <3>3. j \in CatalogJobs /\ j.at = "by hand"
      BY <3>11 DEF j1, j2
    <3> QED  BY <2>5, <3>3
  <2>6. CASE StartRefresh(a) \/ DeleteProvider(a) \/ RefreshFails(a) \/ EndManual(a) \/ EndInsert(a)
    BY <2>3, <2>4, <2>6 DEF CatalogPlaces, StartRefresh, DeleteProvider, RefreshFails, EndManual, EndInsert
  <2>7. CASE ReadManual(a)
    <3>1. {m \in jobs[a].manual : ~Present(m)} \in SUBSET Models
      BY <1>1 DEF CatalogJobs
    <3> QED  BY <2>4, <2>5, <2>7, <3>1 DEF ReadManual
  <2> QED
    BY <2>1, <2>2, <2>6, <2>7
<1>6. /\ jobs' \in [Administrators -> CatalogJobs] /\ jobs'[a].at # "prune"
      /\ \A b \in Administrators : b # a => jobs'[b] = jobs[b]
  BY <1>1, <1>5
<1> QED
  BY <1>1, <1>3, <1>4, <1>6, CatalogStep

\* The loops over rows: only a row without settings goes.
LEMMA CatalogLoops ==
  ASSUME ModelInv, NEW a \in Administrators,
         \/ \E list \in SUBSET Models : ReadRows(a, list)
         \/ \E m \in Models : PruneRow(a, m) \/ InsertRow(a, m)
         \/ EndPrune(a)
  PROVE  ModelInv'
<1>1. /\ rows \in [Models -> ModelRows] /\ jobs \in [Administrators -> CatalogJobs]
      /\ manual \subseteq Models /\ inserted \in Nat /\ kept \subseteq Models
  BY DEF ModelInv
<1>2. NoRow \in ModelRows /\ NoJob \in CatalogJobs /\ NoJob.at = "none"
  BY NoneTypes
<1>3. ASSUME NEW list \in SUBSET Models, ReadRows(a, list)
      PROVE  ModelInv'
  <2> DEFINE j == [jobs[a] EXCEPT !.at = "prune", !.saw = rows, !.list = list,
                                  !.left = {m \in Models : Present(m)}]
  <2> DEFINE here == {m \in Models : Present(m)}
  <2>1. j \in CatalogJobs /\ j.saw = rows
    <3>1. here \in SUBSET Models /\ "prune" \in CatalogPlaces /\ jobs[a] \in CatalogJobs
      BY <1>1 DEF CatalogPlaces
    <3> HIDE DEF here
    <3> DEFINE j1 == [jobs[a] EXCEPT !.at = "prune"]
    <3>10. j1 \in CatalogJobs /\ j1.at = "prune"
      BY <3>1, <1>1, JobWith
    <3> HIDE DEF j1
    <3> DEFINE j2 == [j1 EXCEPT !.saw = rows]
    <3>11. j2 \in CatalogJobs /\ j2.saw = rows
      BY <1>1, <3>1, <3>10, JobWith
    <3> HIDE DEF j2
    <3> DEFINE j3 == [j2 EXCEPT !.list = list]
    <3>12. j3 \in CatalogJobs /\ j3.saw = rows
      BY <1>1, <3>1, <3>11, JobWith
    <3> HIDE DEF j3
    <3> DEFINE j4 == [j3 EXCEPT !.left = here]
    <3>13. j4 \in CatalogJobs /\ j4.saw = rows
      BY <1>1, <3>1, <3>12, JobWith
    <3> HIDE DEF j4
    <3> QED
      BY <3>13 DEF j1, j2, j3, j4, here
  <2>2. jobs' = [jobs EXCEPT ![a] = j]
    BY <1>3 DEF ReadRows
  <2> HIDE DEF j
  <2>3. /\ jobs' \in [Administrators -> CatalogJobs] /\ jobs'[a].saw = rows
        /\ \A b \in Administrators : b # a => jobs'[b] = jobs[b]
    BY <1>1, <2>1, <2>2
  <2>4. manual' = manual /\ rows' = rows /\ inserted' = inserted /\ kept' = kept
    BY <1>3 DEF ReadRows
  <2> QED  BY <1>1, <2>3, <2>4, CatalogStep
<1>4. CASE EndPrune(a)
  <2> DEFINE j == [jobs[a] EXCEPT !.at = "insert", !.left = {m \in jobs[a].list : ~jobs[a].saw[m].active}]
  <2> DEFINE open == {m \in jobs[a].list : ~jobs[a].saw[m].active}
  <2>1. j \in CatalogJobs /\ j.at = "insert"
    <3>1. open \in SUBSET Models /\ "insert" \in CatalogPlaces /\ jobs[a] \in CatalogJobs
      BY <1>1 DEF CatalogPlaces, CatalogJobs
    <3> HIDE DEF open
    <3> DEFINE j1 == [jobs[a] EXCEPT !.at = "insert"]
    <3>10. j1 \in CatalogJobs /\ j1.at = "insert"
      BY <3>1, JobWith
    <3> HIDE DEF j1
    <3> DEFINE j2 == [j1 EXCEPT !.left = open]
    <3>11. j2 \in CatalogJobs /\ j2.at = "insert"
      BY <1>1, <3>1, <3>10, JobWith
    <3> HIDE DEF j2
    <3> QED
      BY <3>11 DEF j1, j2, open
  <2>2. jobs' = [jobs EXCEPT ![a] = j]
    BY <1>4 DEF EndPrune
  <2> HIDE DEF j
  <2>3. /\ jobs' \in [Administrators -> CatalogJobs] /\ jobs'[a].at # "prune"
        /\ \A b \in Administrators : b # a => jobs'[b] = jobs[b]
    BY <1>1, <2>1, <2>2
  <2>4. manual' = manual /\ rows' = rows /\ inserted' = inserted /\ kept' = kept
    BY <1>4 DEF EndPrune
  <2> QED  BY <1>1, <2>3, <2>4, CatalogStep
<1>5. ASSUME NEW m \in Models, Step_(a, m)
      PROVE  /\ jobs' \in [Administrators -> CatalogJobs]
             /\ jobs'[a].at = jobs[a].at /\ jobs'[a].left \subseteq jobs[a].left
             /\ jobs'[a].list = jobs[a].list /\ jobs'[a].saw = jobs[a].saw
             /\ \A b \in Administrators : b # a => jobs'[b] = jobs[b]
  <2> DEFINE j == [jobs[a] EXCEPT !.left = @ \ {m}]
  <2>1. /\ j \in CatalogJobs /\ j.at = jobs[a].at /\ j.left \subseteq jobs[a].left
        /\ j.list = jobs[a].list /\ j.saw = jobs[a].saw
    BY <1>1 DEF CatalogJobs
  <2>2. jobs' = [jobs EXCEPT ![a] = j]
    BY <1>5 DEF Step_
  <2> HIDE DEF j
  <2> QED  BY <1>1, <2>1, <2>2
<1>6. ASSUME NEW m \in Models, NEW id, NEW active \in BOOLEAN, SetActive(m, id, active)
      PROVE  rows' \in [Models -> ModelRows] /\ \A n \in kept : rows'[n].set = rows[n].set
  <2> DEFINE r == [rows[m] EXCEPT !.active = active]
  <2>1. r \in ModelRows /\ r.set = rows[m].set
    BY <1>1 DEF ModelRows
  <2>2. rows' = rows \/ rows' = [rows EXCEPT ![m] = r]
    BY <1>6 DEF SetActive
  <2> HIDE DEF r
  <2> QED  BY <1>1, <2>1, <2>2
<1>7. ASSUME NEW m \in Models, PruneRow(a, m)
      PROVE  ModelInv'
  <2>1. /\ Step_(a, m) /\ manual' = manual /\ inserted' = inserted /\ kept' = kept
        /\ jobs[a].at = "prune" /\ m \in jobs[a].left
    BY <1>7 DEF PruneRow, Does
  <2>2. rows' \in [Models -> ModelRows] /\ \A n \in kept : rows'[n].set = rows[n].set
    <3>1. CASE rows' = rows \/ \E active \in BOOLEAN : SetActive(m, jobs[a].saw[m].id, active)
      BY <1>1, <1>6, <3>1
    <3>2. CASE /\ m \notin jobs[a].list /\ ~HasCustomConfig(jobs[a].saw[m])
               /\ rows' = [rows EXCEPT ![m] = NoRow]
      <4>1. m \notin kept
        BY <2>1, <3>2 DEF ModelInv, Doomed, Does, HasCustomConfig
      <4> QED  BY <1>1, <1>2, <3>2, <4>1
    <3> QED
      BY <1>7, <3>1, <3>2 DEF PruneRow
  <2> QED
    BY <1>1, <1>5, <2>1, <2>2, CatalogStep
<1>8. ASSUME NEW m \in Models, InsertRow(a, m)
      PROVE  ModelInv'
  <2>1. /\ manual' = manual /\ kept' = kept /\ jobs[a].at # "prune"
    BY <1>8 DEF InsertRow, Does
  <2>2. CASE SetActive(m, jobs[a].saw[m].id, TRUE) /\ Step_(a, m) /\ inserted' = inserted
    BY <1>1, <1>5, <1>6, <2>1, <2>2, CatalogStep
  <2>3. CASE Insert(a, m)
    <3>1. CASE Done(a) /\ rows' = rows /\ inserted' = inserted
      <4>1. /\ jobs' \in [Administrators -> CatalogJobs] /\ jobs'[a].at # "prune"
            /\ \A b \in Administrators : b # a => jobs'[b] = jobs[b]
        BY <1>1, <1>2, <3>1 DEF Done
      <4> QED  BY <1>1, <2>1, <3>1, <4>1, CatalogStep
    <3>2. CASE /\ ~Present(m) /\ Step_(a, m) /\ inserted' = inserted + 1
               /\ rows' = [rows EXCEPT ![m] = [id |-> inserted + 1, active |-> TRUE, set |-> {}]]
      <4>1. m \notin kept
        BY <3>2, KeptPresent
      <4>2. [id |-> inserted + 1, active |-> TRUE, set |-> {}] \in ModelRows /\ inserted' \in Nat
        BY <1>1, <3>2 DEF ModelRows
      <4>3. rows' \in [Models -> ModelRows] /\ \A n \in kept : rows'[n].set = rows[n].set
        BY <1>1, <3>2, <4>1, <4>2
      <4> QED  BY <1>1, <1>5, <2>1, <3>2, <4>2, <4>3, CatalogStep
    <3> QED
      BY <2>3, <3>1, <3>2 DEF Insert
  <2> QED
    BY <1>8, <2>2, <2>3 DEF InsertRow
<1> QED
  BY <1>3, <1>4, <1>7, <1>8

\* What happens to rows elsewhere: a deleted provider, a save, a start.
LEMMA CatalogOthers ==
  ASSUME ModelInv,
         \/ \E a \in Administrators : DeleteModels(a)
         \/ \E chosen \in SUBSET Models, set \in SUBSET Settings : SaveSettings_(chosen, set)
         \/ RestartServer
  PROVE  ModelInv'
<1>1. /\ rows \in [Models -> ModelRows] /\ jobs \in [Administrators -> CatalogJobs]
      /\ manual \subseteq Models /\ inserted \in Nat /\ kept \subseteq Models
  BY DEF ModelInv
<1>2. NoRow \in ModelRows /\ NoJob \in CatalogJobs /\ NoJob.at = "none"
  BY NoneTypes
<1>3. ASSUME NEW a \in Administrators, DeleteModels(a) PROVE ModelInv'
  <2>1. /\ kept' = {} /\ rows' = [m \in Models |-> NoRow] /\ manual' = manual /\ inserted' = inserted
        /\ jobs' = [jobs EXCEPT ![a] = NoJob]
    BY <1>3 DEF DeleteModels, Done
  <2>2. rows' \in [Models -> ModelRows] /\ jobs' \in [Administrators -> CatalogJobs]
    BY <1>1, <1>2, <2>1
  <2> QED
    BY <1>1, <2>1, <2>2 DEF ModelInv, SettingsKept
<1>4. ASSUME NEW chosen \in SUBSET Models, NEW set \in SUBSET Settings, SaveSettings_(chosen, set)
      PROVE  ModelInv'
  <2>1. /\ rows' = [m \in Models |-> IF m \in chosen /\ Present(m)
                                     THEN [rows[m] EXCEPT !.set = set] ELSE rows[m]]
        /\ kept' = (kept \ chosen)
               \cup {m \in chosen : Present(m) /\ set \cap Custom # {} /\ ~Doomed(m)}
        /\ manual' = manual /\ inserted' = inserted /\ jobs' = jobs
    BY <1>4 DEF SaveSettings_
  <2>2. ASSUME NEW m \in Models PROVE [rows[m] EXCEPT !.set = set] \in ModelRows
    BY <1>1 DEF ModelRows
  <2>3. rows' \in [Models -> ModelRows] /\ kept' \subseteq Models
    BY <1>1, <2>1, <2>2
  <2>4. ASSUME NEW m \in kept' PROVE rows'[m].set \cap Custom # {} /\ ~Doomed(m)
    <3>1. CASE m \in kept /\ m \notin chosen
      BY <1>1, <2>1, <3>1 DEF ModelInv, SettingsKept
    <3>2. CASE m \in chosen /\ Present(m) /\ set \cap Custom # {} /\ ~Doomed(m)
      <4>1. rows'[m] = [rows[m] EXCEPT !.set = set] /\ rows[m] \in ModelRows
        BY <1>1, <2>1, <3>2
      <4>2. rows'[m].set = set
        BY <4>1 DEF ModelRows
      <4> QED  BY <3>2, <4>2
    <3> QED  BY <2>1, <3>1, <3>2
  <2>5. \A m \in kept' : ~Doomed(m)'
    BY <2>1, <2>4 DEF Doomed, Does
  <2> QED
    BY <1>1, <2>1, <2>3, <2>4, <2>5 DEF ModelInv, SettingsKept
<1>5. ASSUME RestartServer PROVE ModelInv'
  <2> DEFINE missing == IF provider = "there" THEN {m \in manual : ~Present(m)} ELSE {}
  <2>1. /\ jobs' = [a \in Administrators |-> NoJob]
        /\ inserted' = inserted + Cardinality(missing)
        /\ \E id \in [missing -> (inserted + 1)..inserted'] :
             rows' = [m \in Models |-> IF m \in missing
                             THEN [id |-> id[m], active |-> TRUE, set |-> {}] ELSE rows[m]]
        /\ manual' = manual /\ kept' = kept
    BY <1>5 DEF RestartServer
  <2>2. \A m \in missing : ~Present(m)
    OBVIOUS
  <2>3. inserted' \in Nat
    <3>1. missing \subseteq Models
      BY <1>1
    <3>2. Cardinality(missing) \in Nat
      BY <3>1, SettingsAssumption, FS_Subset, FS_CardinalityType
    <3> QED
      BY <1>1, <2>1, <3>2
  <2> HIDE DEF missing
  <2>4. PICK id \in [missing -> (inserted + 1)..inserted'] :
             rows' = [m \in Models |-> IF m \in missing
                             THEN [id |-> id[m], active |-> TRUE, set |-> {}] ELSE rows[m]]
    BY <2>1
  <2>5. ASSUME NEW m \in missing PROVE [id |-> id[m], active |-> TRUE, set |-> {}] \in ModelRows
    <3>1. id[m] \in (inserted + 1)..inserted'
      BY <2>4
    <3>2. id[m] \in Nat
      BY <1>1, <2>3, <3>1
    <3> QED  BY <3>2 DEF ModelRows
  <2>6. rows' \in [Models -> ModelRows]
    BY <1>1, <2>4, <2>5
  <2>7. \A m \in kept : rows'[m] = rows[m]
    BY <1>1, <2>2, <2>4, KeptPresent
  <2>8. SettingsKept'
    BY <2>1, <2>7 DEF ModelInv, SettingsKept
  <2>9. jobs' \in [Administrators -> CatalogJobs]
    BY <1>2, <2>1
  <2>10. \A m \in kept' : ~Doomed(m)'
    BY <1>2, <2>1 DEF Doomed, Does
  <2> QED
    BY <1>1, <2>1, <2>3, <2>6, <2>8, <2>9, <2>10 DEF ModelInv
<1> QED
  BY <1>3, <1>4, <1>5

\* A model whose settings are kept is not one that a call is about to delete, however calls overlap.
THEOREM ModelInvariant == CatalogSpec => []ModelInv
<1>1. CatalogInit => ModelInv
  <2> SUFFICES ASSUME CatalogInit PROVE ModelInv
    OBVIOUS
  <2>1. rows \in [Models -> ModelRows] /\ jobs \in [Administrators -> CatalogJobs]
    BY NoneTypes DEF CatalogInit
  <2> QED
    BY <2>1 DEF CatalogInit, ModelInv, SettingsKept
<1>2. ModelInv /\ [CatalogNext]_modelVars => ModelInv'
  <2>1. CASE CatalogNext
    <3> SUFFICES ASSUME ModelInv PROVE ModelInv'
      OBVIOUS
    <3>1. CASE \E a \in Administrators :
                 \/ \E list, byHand \in SUBSET Models :
                       \/ CreateProvider(a, list, byHand)
                       \/ \E tested \in BOOLEAN : UpdateProvider(a, tested, list, byHand)
                 \/ StartRefresh(a) \/ RefreshFails(a) \/ EndInsert(a) \/ ReadManual(a)
                 \/ EndManual(a) \/ DeleteProvider(a)
      BY <3>1, CatalogCalls
    <3>2. CASE \E a \in Administrators :
                 \/ \E list \in SUBSET Models : ReadRows(a, list)
                 \/ \E m \in Models : PruneRow(a, m) \/ InsertRow(a, m)
                 \/ EndPrune(a)
      BY <3>2, CatalogLoops
    <3>3. CASE \/ \E a \in Administrators : DeleteModels(a)
               \/ \E chosen \in SUBSET Models, set \in SUBSET Settings : SaveSettings_(chosen, set)
               \/ RestartServer
      BY <3>3, CatalogOthers
    <3> QED
      BY <2>1, <3>1, <3>2, <3>3 DEF CatalogNext
  <2>2. CASE UNCHANGED modelVars
    BY <2>2 DEF modelVars, ModelInv, SettingsKept, Doomed, Does
  <2> QED
    BY <2>1, <2>2
<1> QED
  BY <1>1, <1>2, PTL DEF CatalogSpec

\* SettingsKept, for any models, settings and administrators, and any number of calls and starts.
THEOREM SettingsAreKept == CatalogSpec => []SettingsKept
<1>1. ModelInv => SettingsKept
  BY DEF ModelInv
<1> QED
  BY <1>1, ModelInvariant, PTL

=============================================================================
