--------------------------- MODULE SchemaUpgrade ---------------------------
(***************************************************************************)
(* What a start does to the schema of the database before it serves           *)
(* (bootstrap.ts, startup/migrations.ts, db/index.ts, the SQL files of           *)
(* drizzle/): columns that are added early, records of migrations that are        *)
(* seeded, the SQL migrations, the rebuild of the table providers, the automatic    *)
(* migrations, the columns that are ensured, and the conversion of old routes.        *)
(*                                                                         *)
(* The start is a script of statements.  Each commits by itself; only the SQL   *)
(* migrations share one transaction.  The schema is a set of columns: those      *)
(* that more than one statement is about, that a check looks at or that a         *)
(* statement drops.  One name stands for the columns a migration adds together.    *)
(***************************************************************************)
EXTENDS Naturals, Sequences, FiniteSets

LOCAL INSTANCE SequencesExt

CONSTANTS
    Versions,          \* how many migrations the databases of the instance have had
    MaxStops           \* bound on the crashes and failures of a statement

ASSUME SchemaBounds == Versions \subseteq Nat /\ MaxStops \in Nat

VARIABLES
    driver,    \* "sqlite" or "postgres"
    from,      \* the migrations the database had had before the first start: those below it
    schema,    \* the columns <<table, column>> there are
    records,   \* __drizzle_migrations: migrations that were run, and that were seeded
    at,        \* the next statement of the script, 0 while no start is under way
    stuck,     \* the last start ended with a migration that cannot be run
    targets,   \* per old route what its targets were converted to
    serving,   \* a second instance of the server has found the migrations completed
    stops

schemaVars == <<driver, from, schema, records, at, stuck, targets, serving, stops>>

-----------------------------------------------------------------------------
\* The SQL migrations

Col(t, cs) == {<<t, c>> : c \in cs}
R == "endpoint_routes"
P == "providers"
M == "provider_models"
L == "request_logs"
C == "chat_logs"
LegacyColumns == Col(P, {"openaiApiKeyEncrypted", "anthropicApiKeyEncrypted"})

Journal == (0..35) \cup {37}
PgJournal == 0..2

\* What a migration adds.  A table is the column "id" of it.
Adds(v) ==
    CASE v = 0  -> Col(R, {"id"}) \cup Col(P, {"id"}) \cup LegacyColumns
                   \cup Col(M, {"id", "protocol"}) \cup Col(L, {"id"})
                   \cup {<<"users", "id">>, <<"subdomains", "unique name">>}
      [] v = 4  -> Col(R, {"fallbackEnabled"})
      [] v = 6  -> Col(R, {"name"})
      [] v = 7  -> Col(R, {"allowClientModel"}) \cup {<<"user_route_overrides", "id">>}
      [] v = 8  -> Col(M, {"maxOutputTokens"}) \cup Col(L, {"cost"})
      [] v = 9  -> Col(M, {"active"})
      [] v = 10 -> Col(P, {"upstreamProxyUrl"})
      [] v = 11 -> Col(M, {"tokenizerRepo"})
      [] v = 12 -> {<<"user_groups", "id">>}
      [] v = 14 -> Col(C, {"id"})
      [] v = 17 -> Col(C, {"responseHash"})
      [] v = 18 -> Col(C, {"conversationRootHash"})
      [] v = 19 -> Col(R, {"fallbackMatchTarget"})
      [] v = 20 -> Col(C, {"detectedClient"})
      [] v = 21 -> {<<"response_cache", "id">>}
      [] v = 22 -> Col(R, {"schedules"})
      [] v = 23 -> Col(M, {"routingGuideline"}) \cup Col(R, {"agenticRoutingEnabled"})
                   \cup Col(L, {"routingTrace"})
      [] v = 26 -> {<<"user_groups", "maxInputTokens">>, <<"users", "maxInputTokensOverride">>}
      [] v = 27 -> {<<"agentic_routing_cache", "id">>}
      [] v = 28 -> Col(R, {"strategyRoutingEnabled"})
      [] v = 30 -> {<<"user_route_overrides", "strategyRoutingRules">>}
                   \cup Col(C, {"ttft_ms", "cached_tokens", "is_aborted"})
                   \cup Col(R, {"fallbackStrategyRoutingEnabled"})
                   \cup Col(P, {"hourlyTokenLimit"}) \cup Col(L, {"providerApiKeyId"})
      [] v = 31 -> Col(R, {"retryCount"}) \cup Col(P, {"streamTimeoutMs"})
      [] v = 33 -> Col(M, {"contextWindowTokens"})
      [] v = 34 -> Col(R, {"ipWhitelist"})
      [] v = 37 -> {<<"distillation_jobs", "id">>}
      [] OTHER -> {}

\* What a migration drops.  A migration that copies a table drops every column it does not list.
RoutesCopied(v) == Col(R, {"id", "name", "fallbackEnabled", "fallbackMatchTarget", "schedules",
                           "allowClientModel"})
                   \cup IF v = 24 THEN Col(R, {"agenticRoutingEnabled"}) ELSE {}
ModelsCopied == Col(M, {"id", "maxOutputTokens", "tokenizerRepo", "active"})
OfTable(t, s) == {c \in s : c[1] = t}

Drops(v, s) ==
    CASE v = 24 -> Col(M, {"protocol"}) \cup (OfTable(R, s) \ RoutesCopied(24))
      [] v = 28 -> Col("agentic_routing_cache", {"id"}) \cup (OfTable(R, s) \ RoutesCopied(28))
                   \cup (OfTable(M, s) \ ModelsCopied)
      [] v = 35 -> {<<"subdomains", "unique name">>}
      [] OTHER -> {}

\* The columns a migration cannot do without: those it copies, and the tables it adds to.
Reads(v) ==
    (CASE v = 24 -> RoutesCopied(24) [] v = 28 -> RoutesCopied(28) \cup ModelsCopied
       [] OTHER -> {})
    \cup IF v \in {0, 7, 12, 14, 21, 27} THEN {}      \* CREATE TABLE IF NOT EXISTS
         ELSE {<<c[1], "id">> : c \in {d \in Adds(v) : d[2] # "id"}}

\* The statement that creates a table of migration 37 fails if it is there, an added column too.
Clashes(v) == IF v = 37 THEN Adds(v) ELSE {c \in Adds(v) : v # 0 /\ c[2] # "id"}

PgAdds(v) == CASE v = 0 -> {<<R, "id">>} [] v = 1 -> {<<R, "hosts">>}
               [] OTHER -> {<<R, "modelProfiles">>}
PgClashes(v) == IF v = 2 THEN {} ELSE PgAdds(v)       \* the third adds IF NOT EXISTS

\* The order of the journal is not that of its times: 19 is older than 17 and 18.
When(v) == CASE v = 17 -> 36 [] v = 18 -> 37 [] v = 19 -> 34 [] OTHER -> 2 * v

\* drizzle runs, in the order of the journal, every migration newer than the newest record.
Versioned == IF driver = "sqlite" THEN Journal ELSE PgJournal

PendingMigrations ==
    SelectSeq([i \in 1..38 |-> i - 1],
              LAMBDA v : v \in Versioned /\ \A r \in records : When(r[1]) < When(v))

RunOne(v, s) ==
    IF driver = "sqlite"
    THEN [ok |-> Reads(v) \subseteq s /\ Clashes(v) \cap s = {},
          schema |-> (s \ Drops(v, s)) \cup Adds(v)]
    ELSE [ok |-> PgClashes(v) \cap s = {}, schema |-> s \cup PgAdds(v)]

\* One transaction: all of them, or none.
RunAll(vs, s) ==
    FoldLeft(LAMBDA r, v : IF r.ok THEN [RunOne(v, r.schema) EXCEPT !.schema =
                                             IF RunOne(v, r.schema).ok THEN @ ELSE s]
                           ELSE r,
             [ok |-> TRUE, schema |-> s], vs)

-----------------------------------------------------------------------------
\* The script of a start

Each(do, cs) == [i \in DOMAIN cs |-> [do |-> do, what |-> cs[i]]]
On(t, cs) == [i \in DOMAIN cs |-> <<t, cs[i]>>]

\* Added before the SQL migrations
AnalyticsColumns == On(L, <<"providerApiKeyId">>) \o On(C, <<"ttft_ms", "cached_tokens", "is_aborted">>)
TokenLimitColumns == <<<<"user_groups", "maxInputTokens">>, <<"users", "maxInputTokensOverride">>>>

MigrationsToSeed == <<4, 10, 17, 18, 19, 20, 21, 22, 23, 26, 27, 28, 30>>

\* A migration is seeded when what it leaves behind is found.
ShouldSeed(v) ==
    CASE v = 4  -> <<R, "fallbackEnabled">> \in schema
      [] v = 10 -> <<P, "upstreamProxyUrl">> \in schema
      [] v = 17 -> <<C, "responseHash">> \in schema
      [] v = 18 -> <<C, "conversationRootHash">> \in schema
      [] v = 19 -> <<R, "fallbackMatchTarget">> \in schema
      [] v = 20 -> <<C, "detectedClient">> \in schema
      [] v = 21 -> <<"response_cache", "id">> \in schema
      [] v = 22 -> <<R, "schedules">> \in schema
      [] v = 23 -> Adds(23) \subseteq schema
      [] v = 26 -> <<"user_groups", "maxInputTokens">> \in schema
      [] v = 27 -> <<"agentic_routing_cache", "id">> \in schema
      [] v = 28 -> /\ <<R, "strategyRoutingEnabled">> \in schema
                   /\ {<<R, "agenticRoutingEnabled">>, <<M, "routingGuideline">>,
                       <<"agentic_routing_cache", "id">>} \cap schema = {}
      [] OTHER -> <<P, "hourlyTokenLimit">> \in schema

\* The hashes these are seeded with are not those of their files.
OtherHash == {17, 18, 19, 21, 27}
IsRecorded(v) == <<v, "seeded">> \in records \/ (v \notin OtherHash /\ <<v, "run">> \in records)

EnsuredTables == <<<<"user_route_overrides", "id">>, <<"user_groups", "id">>,
                   <<"response_cache", "id">>, <<"distillation_jobs", "id">>>>

AutoColumns ==
    On(P, <<"upstreamProxyUrl", "hourlyTokenLimit">>)
    \o On(M, <<"maxOutputTokens", "contextWindowTokens", "tokenizerRepo", "alias", "active">>)
    \o On(R, <<"name", "fallbackEnabled", "fallbackMatchTarget", "fallbackStrategyRoutingEnabled",
               "strategyRoutingEnabled", "allowClientModel", "schedules", "ipWhitelist",
               "retryCount", "routingMode", "targets", "timeoutEjectEnabled", "hosts",
               "modelProfiles">>)
    \o <<<<"users", "maxInputTokensOverride">>>>
    \o On(L, <<"cost", "routingTrace">>)
    \o On("user_route_overrides", <<"strategyRoutingRules", "useClientModel">>)
    \o On(C, <<"conversationRootHash", "ttft_ms", "cached_tokens", "is_aborted">>)
AutoDropped == On(P, <<"openaiApiKeyEncrypted", "anthropicApiKeyEncrypted">>)

FunnelColumns == On(M, <<"alias">>) \o On(R, <<"targets">>)
                 \o On("user_route_overrides", <<"useClientModel">>)
                 \o On(R, <<"timeoutEjectEnabled">>)
RouteNullableTextColumns == On(R, <<"hosts", "modelProfiles">>)
StrategyColumns == On(R, <<"strategyRoutingEnabled", "routingMode">>) \o On(L, <<"routingTrace">>)

\* Routes with a single target, with a fallback, and with a fallback that names no provider
OldRoutes == {"single", "with fallback", "fallback to none"}

\* Indexes are created last; one that fails is logged, and nothing depends on it.
AnalyticsIndexes == <<"request log">>
HotPathIndexes == <<"hot path">>

SqliteScript ==
    Each("add", AnalyticsColumns) \o Each("add", TokenLimitColumns)
    \o Each("seed", MigrationsToSeed)
    \o Each("migrate", <<"sqlite">>) \o Each("rebuild", <<P>>)
    \o Each("create", EnsuredTables) \o Each("auto", AutoColumns) \o Each("drop", AutoDropped)
    \o Each("try", On(C, <<"responseHash">>) \o On(R, <<"fallbackMatchTarget", "schedules">>))
    \o Each("add", FunnelColumns) \o Each("convert", SetToSeq(OldRoutes))
    \o Each("add", RouteNullableTextColumns \o StrategyColumns \o TokenLimitColumns
                    \o On(M, <<"contextWindowTokens">>))
    \o Each("index", AnalyticsIndexes \o HotPathIndexes)
    \o Each("drop", <<<<"subdomains", "unique name">>>>)

PostgresScript == Each("migrate", <<"postgres">>) \o Each("add", RouteNullableTextColumns)

Script == IF driver = "sqlite" THEN SqliteScript ELSE PostgresScript
Up == Len(Script) + 1
Doing(do) == at \in DOMAIN Script /\ Script[at].do = do
What == Script[at].what
TableOf(c) == <<c[1], "id">>

-----------------------------------------------------------------------------
SchemaTypeOK ==
    /\ driver \in {"sqlite", "postgres"} /\ from \in Nat
    /\ records \subseteq Versioned \X {"run", "seeded"}
    /\ at \in 0..Up /\ stuck \in BOOLEAN /\ serving \in BOOLEAN /\ stops \in 0..MaxStops
    /\ targets \in [OldRoutes -> {"none", "first", "both"}]

\* A new database, or one with the migrations below from; the automatic migrations of the
\* release before migration 30 may have added its columns.
SchemaInit ==
    /\ driver \in {"sqlite", "postgres"} /\ from \in Versions
    /\ records = {<<v, "run">> : v \in {w \in Versioned : w < from}}
    /\ \E eager \in BOOLEAN :
        /\ eager => driver = "sqlite" /\ from \in 29..30
        /\ schema = RunAll(SelectSeq([i \in 1..38 |-> i - 1],
                                     LAMBDA v : v \in Versioned /\ v < from), {}).schema
                    \cup IF eager THEN Adds(30) ELSE {}
    /\ at = 0 /\ stuck = FALSE /\ serving = FALSE /\ stops = 0
    /\ targets = [r \in OldRoutes |-> "none"]

StartUpgrade ==
    /\ at = 0 /\ at' = 1 /\ stuck' = FALSE
    /\ UNCHANGED <<driver, from, schema, records, targets, serving, stops>>

\* A column is added unless it is there; without its table addColumnIfMissing does nothing.
AddColumn ==
    /\ Doing("add") \/ Doing("try")
    /\ schema' = IF TableOf(What) \in schema THEN schema \cup {What} ELSE schema
    /\ at' = at + 1
    /\ UNCHANGED <<driver, from, records, stuck, targets, serving, stops>>

\* Without the table of the records nothing is seeded.
SeedMigration ==
    /\ Doing("seed")
    /\ records' = IF records # {} /\ ShouldSeed(What) /\ ~IsRecorded(What)
                  THEN records \cup {<<What, "seeded">>} ELSE records
    /\ at' = at + 1
    /\ UNCHANGED <<driver, from, schema, stuck, targets, serving, stops>>

\* A migration that cannot be run undoes the whole transaction and ends the start.
MigrateSchema ==
    /\ Doing("migrate")
    /\ LET run == RunAll(PendingMigrations, schema)
       IN  /\ schema' = run.schema
           /\ IF run.ok
              THEN /\ records' = records \cup {<<PendingMigrations[i], "run">> : i \in DOMAIN PendingMigrations}
                   /\ at' = at + 1 /\ UNCHANGED stuck
              ELSE at' = 0 /\ stuck' = TRUE /\ UNCHANGED records
    /\ UNCHANGED <<driver, from, targets, serving, stops>>

\* The rebuilt table has the columns of the list in bootstrap.ts, without those of 30 and 31.
RebuildProviders ==
    /\ Doing("rebuild")
    /\ schema' = IF LegacyColumns \cap schema # {}
                 THEN schema \ (LegacyColumns \cup Col(P, {"hourlyTokenLimit", "streamTimeoutMs"}))
                 ELSE schema
    /\ at' = at + 1
    /\ UNCHANGED <<driver, from, records, stuck, targets, serving, stops>>

EnsureTable ==
    /\ Doing("create") /\ schema' = schema \cup {What} /\ at' = at + 1
    /\ UNCHANGED <<driver, from, records, stuck, targets, serving, stops>>

\* Errors about a column that is there, or gone, are ignored; a missing table ends the start.
RunAutoMigration ==
    /\ Doing("auto")
    /\ IF TableOf(What) \in schema
       THEN schema' = schema \cup {What} /\ at' = at + 1
       ELSE at' = 0 /\ UNCHANGED schema
    /\ UNCHANGED <<driver, from, records, stuck, targets, serving, stops>>

DropObsolete ==
    /\ Doing("drop") /\ schema' = schema \ {What} /\ at' = at + 1
    /\ UNCHANGED <<driver, from, records, stuck, targets, serving, stops>>

Converted(r) == IF r = "with fallback" THEN "both" ELSE "first"

\* A route that has targets is left alone.
ConvertRoute ==
    /\ Doing("convert")
    /\ targets' = [targets EXCEPT ![What] = IF @ = "none" THEN Converted(What) ELSE @]
    /\ at' = at + 1
    /\ UNCHANGED <<driver, from, schema, records, stuck, serving, stops>>

CreateIndexes ==
    /\ Doing("index") /\ at' = at + 1
    /\ UNCHANGED <<driver, from, schema, records, stuck, targets, serving, stops>>

\* Mutant: an error of the SQL migrations is logged like the others.
CaughtMigrations == {"seed", "migrate", "rebuild", "create", "try", "index"}

\* The errors of some statements are caught, and the start goes on without them.
Caught == {"seed", "rebuild", "create", "try", "index"}

StatementFails ==
    /\ at \in DOMAIN Script /\ stops < MaxStops /\ stops' = stops + 1
    /\ at' = IF Script[at].do \in Caught THEN at + 1 ELSE 0
    /\ UNCHANGED <<driver, from, schema, records, stuck, targets, serving>>

\* The server is stopped or dies, and is started again.
StopUpgrade ==
    /\ at \in 1..Up /\ stops < MaxStops /\ stops' = stops + 1
    /\ at' = 0
    /\ UNCHANGED <<driver, from, schema, records, stuck, targets, serving>>

\* A second instance waits until as many migrations are recorded as the journal has.
SecondInstanceServes ==
    /\ ~serving /\ Cardinality(records) >= Cardinality(Versioned) /\ serving' = TRUE
    /\ UNCHANGED <<driver, from, schema, records, at, stuck, targets, stops>>

SchemaNext ==
    \/ StartUpgrade \/ AddColumn \/ SeedMigration \/ MigrateSchema \/ RebuildProviders
    \/ EnsureTable \/ RunAutoMigration \/ DropObsolete \/ ConvertRoute \/ CreateIndexes
    \/ StatementFails \/ StopUpgrade \/ SecondInstanceServes

SchemaSpec == SchemaInit /\ [][SchemaNext]_schemaVars

-----------------------------------------------------------------------------
\* schema.sqlite.ts and schema.pg.ts, as far as the columns above go
Obsolete == LegacyColumns
            \cup Col(M, {"protocol", "routingGuideline"}) \cup Col(R, {"agenticRoutingEnabled"})
            \cup {<<"agentic_routing_cache", "id">>, <<"subdomains", "unique name">>}

Needed ==
    IF driver = "sqlite"
    THEN ((UNION {Adds(v) : v \in Journal})
          \cup Range(AutoColumns \o FunnelColumns \o StrategyColumns)) \ Obsolete
    ELSE {<<R, "id">>, <<R, "hosts">>, <<R, "modelProfiles">>}

\* From whatever version a database comes, wherever a start was stopped and whatever statement
\* failed before: a server that serves has every column its code reads and writes, none that is
\* obsolete, and a route made before there were targets has exactly those it had; a start ends with
\* a migration that cannot be run only if the database has not had migration 30; and a second
\* instance does not serve a new database before the first has migrated it.  streamTimeoutMs is
\* excepted (see SchemaComplete).
SchemaKept ==
    /\ at = Up =>
        /\ Needed \ {<<P, "streamTimeoutMs">>} \subseteq schema
        /\ Obsolete \cap schema = {}
        /\ driver = "sqlite" =>
            targets = [r \in OldRoutes |-> IF r = "with fallback" THEN "both" ELSE "first"]
    /\ stuck => from \in 1..30
    /\ serving /\ from = 0 => PendingMigrations = <<>>

\* The tables have the columns schema.sqlite.ts gives them when the server is up.
SchemaComplete == at = Up => Needed \subseteq schema

=============================================================================
