---------------------------- MODULE StoredValues ----------------------------
(***************************************************************************)
(* What a stored value means: it is written through the modes of SQLite's      *)
(* schema on either database, converted by the catalogue's types when the       *)
(* database is moved to PostgreSQL (db/copy/reflect.ts, db/copy/codec.ts), held  *)
(* in a column of schema.pg.ts, and read through the modes of SQLite's schema     *)
(* again (db/schema.ts exports that one for both).                             *)
(*                                                                         *)
(* One value of one column at a time.  Sizes from 100 on count in units of ten    *)
(* million: 170 is the time in seconds, 214 the largest integer of PostgreSQL,   *)
(* 1000 the number above which the copy takes a time for milliseconds.           *)
(***************************************************************************)
EXTENDS Integers, TLC

CONSTANTS
    Sizes,          \* numbers the server stores
    Times           \* instants the server stores, in seconds

ASSUME ValueAssumption == Sizes \subseteq Nat /\ Times \subseteq Nat

VARIABLES
    engine,         \* the database the server uses
    place,          \* the table and the column of the value
    cell,           \* what the database holds
    meaning,        \* what the server meant
    seeded,         \* a migration wrote the value
    handed          \* "no", "moved" or "refused": what became of the move

valueVars == <<engine, place, cell, meaning, seeded, handed>>

-----------------------------------------------------------------------------
\* JavaScript's values.  A numeral is a string of digits.
Null == [js |-> "null"]
Num(n) == [js |-> "number", n |-> n, half |-> FALSE]
Broken(n) == [js |-> "number", n |-> n, half |-> TRUE]
Numeral(n) == [js |-> "numeral", n |-> n, half |-> FALSE]
Bool(b) == [js |-> "boolean", b |-> b]
Words == [js |-> "string"]
Instant(s) == [js |-> "Date", seconds |-> s]

Now == 170
LargestInteger == 214
MillisFrom == 1000

Of(type, columns) == [c \in columns |-> type]

-----------------------------------------------------------------------------
(* The tables as SQLite's schema has them, with the modes in which columns are read and       *)
(* written (schema.sqlite.ts); a column that is not named is text.                        *)

SqliteAccess ==
       "users" :> (Of("integer", {"maxInputTokensOverride"}) @@ Of("timestamp", {"createdAt",
           "updatedAt", "lastLoginAt"}))
    @@ "invite_codes" :> (Of("integer", {"maxUses", "usedCount"}) @@ Of("timestamp",
           {"expiresAt", "createdAt"}))
    @@ "api_keys" :> (Of("integer", {"rpmLimit", "tpmLimit", "concurrencyLimit"})
           @@ Of("timestamp", {"expiresAt", "createdAt", "lastUsedAt"}))
    @@ "providers" :> (Of("boolean", {"enabled"}) @@ Of("integer", {"concurrencyLimit",
           "timeoutMs", "streamTimeoutMs", "maxOutputTokens", "hourlyTokenLimit"})
           @@ Of("timestamp", {"lastTestAt", "createdAt", "updatedAt"}))
    @@ "provider_api_keys" :> Of("timestamp", {"createdAt", "updatedAt", "lastUsedAt"})
    @@ "provider_models" :> (Of("boolean", {"enabled", "active"}) @@ Of("integer",
           {"contextWindowTokens", "maxOutputTokens"}) @@ Of("real", {"inputTokenPricePerM",
           "outputTokenPricePerM"}) @@ Of("timestamp", {"createdAt"}))
    @@ "provider_test_sessions" :> Of("timestamp", {"expiresAt", "createdAt"})

SqliteRouting ==
       "subdomains" :> (Of("boolean", {"enabled"}) @@ Of("timestamp", {"createdAt",
           "updatedAt"}))
    @@ "endpoints" :> (Of("boolean", {"enabled"}) @@ Of("integer", {"timeoutMs",
           "queueTimeoutMs", "maxBodyMb"}) @@ Of("timestamp", {"createdAt", "updatedAt"}))
    @@ "endpoint_routes" :> (Of("boolean", {"enabled", "fallbackEnabled", "fallbackMatchTarget",
           "fallbackStrategyRoutingEnabled", "strategyRoutingEnabled", "allowClientModel",
           "timeoutEjectEnabled"}) @@ Of("integer", {"retryCount", "weight", "priority"})
           @@ Of("timestamp", {"createdAt", "updatedAt"}))
    @@ "user_route_overrides" :> (Of("boolean", {"useClientModel"}) @@ Of("timestamp",
           {"createdAt", "updatedAt"}))
    @@ "prompt_policies" :> (Of("boolean", {"enabled"}) @@ Of("integer", {"version"})
           @@ Of("timestamp", {"createdAt", "updatedAt"}))

SqliteTraffic ==
       "prompt_injection_records" :> Of("timestamp", {"createdAt"})
    @@ "request_logs" :> (Of("boolean", {"streaming"}) @@ Of("integer", {"statusCode",
           "inputTokens", "outputTokens", "cacheReadTokens", "cacheWriteTokens", "totalTokens",
           "latencyMs", "ttftMs"}) @@ Of("real", {"cost"}) @@ Of("timestamp", {"createdAt"}))
    @@ "system_settings" :> Of("timestamp", {"createdAt", "updatedAt"})
    @@ "user_groups" :> (Of("boolean", {"isDefault"}) @@ Of("integer", {"maxInputTokens"})
           @@ Of("timestamp", {"createdAt", "updatedAt"}))
    @@ "user_group_members" :> Of("timestamp", {"createdAt"})
    @@ "route_authorizations" :> Of("timestamp", {"createdAt"})
    @@ "openapi_keys" :> Of("timestamp", {"createdAt", "lastUsedAt"})

SqliteLogs ==
       "chat_logs" :> (Of("boolean", {"is_aborted"}) @@ Of("integer", {"turnId", "inputTokens",
           "outputTokens", "latencyMs", "ttft_ms", "cached_tokens"}) @@ Of("timestamp",
           {"createdAt"}))
    @@ "action_logs" :> Of("timestamp", {"createdAt"})
    @@ "response_cache" :> (Of("integer", {"hitCount"}) @@ Of("timestamp", {"lastHitAt",
           "createdAt", "updatedAt"}))
    @@ "distillation_jobs" :> (Of("integer", {"maxRecords", "totalItems", "processedItems",
           "failedItems"}) @@ Of("timestamp", {"timeRangeStart", "timeRangeEnd", "startedAt",
           "completedAt", "createdAt"}))

SqliteLearning ==
       "distillation_job_items" :> Of("timestamp", {"processedAt", "createdAt"})
    @@ "distillation_learned_records" :> Of("timestamp", {"learnedAt"})
    @@ "distillation_routing_proposals" :> Of("timestamp", {"createdAt"})
    @@ "distillation_signal_versions" :> (Of("boolean", {"isActive"}) @@ Of("timestamp",
           {"createdAt"}))
    @@ "distillation_skill_packages" :> (Of("integer", {"version", "sourceRecordCount"})
           @@ Of("timestamp", {"createdAt"}))

SqliteSchema ==
    SqliteAccess @@ SqliteRouting @@ SqliteTraffic @@ SqliteLogs @@ SqliteLearning

-----------------------------------------------------------------------------
(* The tables of PostgreSQL (schema.pg.ts).                                            *)

PgLogs ==
       "action_logs" :> Of("bigint", {"createdAt"})
    @@ "api_keys" :> (Of("integer", {"rpmLimit", "tpmLimit", "concurrencyLimit"}) @@ Of("bigint",
           {"expiresAt", "createdAt", "lastUsedAt"}))
    @@ "chat_logs" :> (Of("boolean", {"is_aborted"}) @@ Of("integer", {"turnId", "inputTokens",
           "outputTokens", "latencyMs", "ttft_ms", "cached_tokens"}) @@ Of("bigint",
           {"createdAt"}))
    @@ "distillation_job_items" :> Of("bigint", {"processedAt", "createdAt"})

PgLearning ==
       "distillation_jobs" :> (Of("integer", {"maxRecords", "totalItems", "processedItems",
           "failedItems"}) @@ Of("bigint", {"timeRangeStart", "timeRangeEnd", "startedAt",
           "completedAt", "createdAt"}))
    @@ "distillation_learned_records" :> Of("bigint", {"learnedAt"})
    @@ "distillation_routing_proposals" :> Of("bigint", {"createdAt"})
    @@ "distillation_signal_versions" :> (Of("boolean", {"isActive"}) @@ Of("bigint",
           {"createdAt"}))
    @@ "distillation_skill_packages" :> (Of("integer", {"version", "sourceRecordCount"})
           @@ Of("bigint", {"createdAt"}))

PgRouting ==
       "endpoint_routes" :> (Of("boolean", {"enabled", "fallbackEnabled", "fallbackMatchTarget",
           "fallbackStrategyRoutingEnabled", "strategyRoutingEnabled", "allowClientModel",
           "timeoutEjectEnabled"}) @@ Of("integer", {"retryCount", "weight", "priority"})
           @@ Of("bigint", {"createdAt", "updatedAt"}))
    @@ "endpoints" :> (Of("boolean", {"enabled"}) @@ Of("integer", {"timeoutMs",
           "queueTimeoutMs", "maxBodyMb"}) @@ Of("bigint", {"createdAt", "updatedAt"}))
    @@ "invite_codes" :> (Of("integer", {"maxUses", "usedCount"}) @@ Of("bigint", {"expiresAt",
           "createdAt"}))
    @@ "openapi_keys" :> Of("bigint", {"createdAt", "lastUsedAt"})
    @@ "prompt_injection_records" :> Of("bigint", {"createdAt"})

PgProviders ==
       "prompt_policies" :> (Of("boolean", {"enabled"}) @@ Of("integer", {"version"})
           @@ Of("bigint", {"createdAt", "updatedAt"}))
    @@ "provider_api_keys" :> Of("bigint", {"createdAt", "updatedAt", "lastUsedAt"})
    @@ "provider_models" :> (Of("boolean", {"enabled", "active"}) @@ Of("integer",
           {"contextWindowTokens", "maxOutputTokens"}) @@ Of("double precision",
           {"inputTokenPricePerM", "outputTokenPricePerM"}) @@ Of("bigint", {"createdAt"}))
    @@ "provider_test_sessions" :> Of("bigint", {"expiresAt", "createdAt"})
    @@ "providers" :> (Of("boolean", {"enabled"}) @@ Of("integer", {"concurrencyLimit",
           "timeoutMs", "streamTimeoutMs", "maxOutputTokens", "hourlyTokenLimit"})
           @@ Of("bigint", {"lastTestAt", "createdAt", "updatedAt"}))

PgTraffic ==
       "request_logs" :> (Of("boolean", {"streaming"}) @@ Of("integer", {"statusCode",
           "inputTokens", "outputTokens", "cacheReadTokens", "cacheWriteTokens", "totalTokens",
           "latencyMs", "ttftMs"}) @@ Of("double precision", {"cost"}) @@ Of("bigint",
           {"createdAt"}))
    @@ "response_cache" :> (Of("integer", {"hitCount"}) @@ Of("bigint", {"lastHitAt",
           "createdAt", "updatedAt"}))
    @@ "route_authorizations" :> Of("bigint", {"createdAt"})
    @@ "subdomains" :> (Of("boolean", {"enabled"}) @@ Of("bigint", {"createdAt", "updatedAt"}))
    @@ "system_settings" :> Of("bigint", {"createdAt", "updatedAt"})
    @@ "user_group_members" :> Of("bigint", {"createdAt"})
    @@ "user_groups" :> (Of("boolean", {"isDefault"}) @@ Of("integer", {"maxInputTokens"})
           @@ Of("bigint", {"createdAt", "updatedAt"}))

PgUsers ==
       "user_route_overrides" :> (Of("boolean", {"useClientModel"}) @@ Of("bigint", {"createdAt",
           "updatedAt"}))
    @@ "users" :> (Of("integer", {"maxInputTokensOverride"}) @@ Of("bigint", {"createdAt",
           "updatedAt", "lastLoginAt"}))

PgSchema ==
    PgLogs @@ PgLearning @@ PgRouting @@ PgProviders @@ PgTraffic @@ PgUsers

-----------------------------------------------------------------------------
(* The catalogue by which values are converted (catalog.ts).                          *)

CatalogKeys ==
       "action_logs" :> Of("unix_seconds", {"createdAt"})
    @@ "api_keys" :> (Of("int", {"rpmLimit", "tpmLimit", "concurrencyLimit"})
           @@ Of("unix_seconds", {"expiresAt", "createdAt", "lastUsedAt"}))

CatalogChats ==
       "chat_logs" :> (Of("bool", {"is_aborted"}) @@ Of("int", {"turnId", "inputTokens",
           "outputTokens", "latencyMs", "ttft_ms", "cached_tokens"}) @@ Of("unix_seconds",
           {"createdAt"}))

CatalogItems ==
       "distillation_job_items" :> Of("unix_seconds", {"processedAt", "createdAt"})

CatalogJobs ==
       "distillation_jobs" :> (Of("int", {"maxRecords", "totalItems", "processedItems",
           "failedItems"}) @@ Of("unix_seconds", {"timeRangeStart", "timeRangeEnd", "startedAt",
           "completedAt", "createdAt"}) @@ Of("json_text", {"userIdsFilter"}))
    @@ "distillation_learned_records" :> Of("unix_seconds", {"learnedAt"})

CatalogSignals ==
       "distillation_routing_proposals" :> (Of("unix_seconds", {"createdAt"}) @@ Of("json_text",
           {"payload"}))
    @@ "distillation_signal_versions" :> (Of("bool", {"isActive"}) @@ Of("unix_seconds",
           {"createdAt"}) @@ Of("json_text", {"weightOverrides", "boundaryRules",
           "proposalIds"}))

CatalogSkills ==
       "distillation_skill_packages" :> (Of("int", {"version", "sourceRecordCount"})
           @@ Of("unix_seconds", {"createdAt"}) @@ Of("json_text", {"files"}))

CatalogRoutes ==
       "endpoint_routes" :> (Of("bool", {"enabled", "fallbackEnabled", "fallbackMatchTarget",
           "fallbackStrategyRoutingEnabled", "strategyRoutingEnabled", "allowClientModel",
           "timeoutEjectEnabled"}) @@ Of("int", {"retryCount", "weight", "priority"})
           @@ Of("unix_seconds", {"createdAt", "updatedAt"}) @@ Of("json_text",
           {"fallbackStrategyRoutingRules", "strategyRoutingRules", "targets", "modelProfiles",
           "schedules", "ipWhitelist"}))

CatalogEndpoints ==
       "endpoints" :> (Of("bool", {"enabled"}) @@ Of("int", {"timeoutMs", "queueTimeoutMs",
           "maxBodyMb"}) @@ Of("unix_seconds", {"createdAt", "updatedAt"}))

CatalogInvitations ==
       "invite_codes" :> (Of("int", {"maxUses", "usedCount"}) @@ Of("unix_seconds", {"expiresAt",
           "createdAt"}))
    @@ "openapi_keys" :> Of("unix_seconds", {"createdAt", "lastUsedAt"})

CatalogInjections ==
       "prompt_injection_records" :> Of("unix_seconds", {"createdAt"})

CatalogPolicies ==
       "prompt_policies" :> (Of("bool", {"enabled"}) @@ Of("int", {"version"})
           @@ Of("unix_seconds", {"createdAt", "updatedAt"}))
    @@ "provider_api_keys" :> Of("unix_seconds", {"createdAt", "updatedAt", "lastUsedAt"})

CatalogModels ==
       "provider_models" :> (Of("bool", {"enabled", "active"}) @@ Of("int",
           {"contextWindowTokens", "maxOutputTokens"}) @@ Of("real", {"inputTokenPricePerM",
           "outputTokenPricePerM"}) @@ Of("unix_seconds", {"createdAt"}) @@ Of("json_text",
           {"rawJson"}))
    @@ "provider_test_sessions" :> (Of("unix_seconds", {"expiresAt", "createdAt"})
           @@ Of("json_text", {"models"}))

CatalogProviders ==
       "providers" :> (Of("bool", {"enabled"}) @@ Of("int", {"concurrencyLimit", "timeoutMs",
           "streamTimeoutMs", "maxOutputTokens", "hourlyTokenLimit"}) @@ Of("unix_seconds",
           {"lastTestAt", "createdAt", "updatedAt"}) @@ Of("json_text", {"manualModels"}))

CatalogRequests ==
       "request_logs" :> (Of("bool", {"streaming"}) @@ Of("int", {"statusCode", "inputTokens",
           "outputTokens", "cacheReadTokens", "cacheWriteTokens", "totalTokens", "latencyMs",
           "ttftMs"}) @@ Of("real", {"cost"}) @@ Of("unix_seconds", {"createdAt"}))

CatalogAnswers ==
       "response_cache" :> (Of("int", {"hitCount"}) @@ Of("unix_seconds", {"lastHitAt",
           "createdAt", "updatedAt"}))
    @@ "route_authorizations" :> Of("unix_seconds", {"createdAt"})

CatalogSettings ==
       "subdomains" :> (Of("bool", {"enabled"}) @@ Of("unix_seconds", {"createdAt",
           "updatedAt"}))
    @@ "system_settings" :> Of("unix_seconds", {"createdAt", "updatedAt"})
    @@ "user_group_members" :> Of("unix_seconds", {"createdAt"})

CatalogGroups ==
       "user_groups" :> (Of("bool", {"isDefault"}) @@ Of("int", {"maxInputTokens"})
           @@ Of("unix_seconds", {"createdAt", "updatedAt"}))
    @@ "user_route_overrides" :> (Of("bool", {"useClientModel"}) @@ Of("unix_seconds",
           {"createdAt", "updatedAt"}) @@ Of("json_text", {"strategyRoutingRules"}))

CatalogUsers ==
       "users" :> (Of("int", {"maxInputTokensOverride"}) @@ Of("unix_seconds", {"createdAt",
           "updatedAt", "lastLoginAt"}))

Catalog ==
    CatalogKeys @@ CatalogChats @@ CatalogItems @@ CatalogJobs @@ CatalogSignals
    @@ CatalogSkills @@ CatalogRoutes @@ CatalogEndpoints @@ CatalogInvitations
    @@ CatalogInjections @@ CatalogPolicies @@ CatalogModels @@ CatalogProviders
    @@ CatalogRequests @@ CatalogAnswers @@ CatalogSettings @@ CatalogGroups @@ CatalogUsers

-----------------------------------------------------------------------------
(* Conversions                                                              *)

TypeIn(schema, t, c) == IF c \in DOMAIN schema[t] THEN schema[t][c] ELSE "text"

\* getReflectedTables: the catalogue's type of a column both schemas have
LogicalType(t, c) == TypeIn(Catalog, t, c)

\* drizzle's columns of SQLite: what a mode makes of a value the server stores, and back
MapToDriver(mode, v) ==
    IF v = Null THEN Null ELSE
    CASE mode = "boolean" -> Num(IF v.b THEN 1 ELSE 0)
      [] mode = "timestamp" -> Num(v.seconds)
      [] OTHER -> v

MapFromDriver(mode, v) ==
    IF v = Null THEN Null ELSE
    CASE mode = "boolean" -> Bool(v \in {Bool(TRUE), Num(1), Numeral(1)})
      [] mode = "timestamp" -> Instant(v.n)
      [] OTHER -> v

\* Mutant: no test for milliseconds.
DecodeWithoutMillis(v, type) ==
    IF v = Null THEN Null ELSE
    CASE type = "bool" -> Bool(v # Num(0))
      [] type \in {"text", "json_text"} /\ v.js = "number" -> [v EXCEPT !.js = "numeral"]
      [] OTHER -> v

DecodeValue(v, type) ==
    IF v = Null THEN Null ELSE
    CASE type = "bool" -> Bool(v # Num(0))
      [] type = "unix_seconds" -> Num(IF v.n > MillisFrom THEN v.n \div 1000 ELSE v.n)
      [] type = "int" -> Num(v.n)
      [] type \in {"text", "json_text"} /\ v.js = "number" -> [v EXCEPT !.js = "numeral"]
      [] OTHER -> v

EncodeValue(v, type) ==
    IF v = Null THEN Null ELSE
    CASE type = "bool" -> Bool(v # Bool(FALSE))
      [] type \in {"unix_seconds", "int"} -> Num(v.n)
      [] type \in {"text", "json_text"} /\ v.js = "number" -> [v EXCEPT !.js = "numeral"]
      [] OTHER -> v

\* PostgreSQL reads a parameter as text of the column's type, and refuses what is not.
PgAccepts(type, v) ==
    \/ v = Null \/ type = "text"
    \/ type = "boolean" /\ v \in {Bool(TRUE), Bool(FALSE), Num(0), Num(1), Numeral(0), Numeral(1)}
    \/ /\ type \in {"integer", "bigint", "double precision"} /\ v.js \in {"number", "numeral"}
       /\ v.half => type = "double precision"
       /\ type = "integer" => v.n <= LargestInteger

\* What pg returns: a bigint comes as a string.
PgReturns(type, v) ==
    IF v = Null THEN Null ELSE
    CASE type = "boolean" -> Bool(v \in {Bool(TRUE), Num(1), Numeral(1)})
      [] type = "bigint" -> Numeral(v.n)
      [] type \in {"integer", "double precision"} -> [v EXCEPT !.js = "number"]
      [] OTHER -> v

-----------------------------------------------------------------------------
Columns(t) == DOMAIN SqliteSchema[t] \cup DOMAIN PgSchema[t] \cup DOMAIN Catalog[t] \cup {"words"}

\* How the three descriptions of a column go together.  No constant is in it: TLC decides it.
Kinds == {<<"boolean", "bool", "boolean">>, <<"integer", "int", "integer">>,
          <<"real", "real", "double precision">>, <<"timestamp", "unix_seconds", "bigint">>,
          <<"text", "text", "text">>, <<"text", "json_text", "text">>}

ASSUME TablesAgree ==
    /\ \A t \in DOMAIN SqliteSchema : \A c \in Columns(t) :
          <<TypeIn(SqliteSchema, t, c), LogicalType(t, c), TypeIn(PgSchema, t, c)>> \in Kinds
    /\ \A c \in {"createdAt", "updatedAt"} :
          TypeIn(SqliteSchema, "provider_api_keys", c) = "timestamp"

Mode == TypeIn(SqliteSchema, place[1], place[2])
PgType == TypeIn(PgSchema, place[1], place[2])

Meanings(mode) ==
    {Null} \cup (CASE mode = "boolean" -> {Bool(TRUE), Bool(FALSE)}
                   [] mode = "integer" -> {Num(n) : n \in Sizes}
                   [] mode = "real" -> {Num(1), Broken(1)}
                   [] mode = "timestamp" -> {Instant(s) : s \in Times}
                   [] OTHER -> {Words})

ValueInit ==
    /\ engine \in {"sqlite", "postgres"}
    /\ place \in UNION {{t} \X Columns(t) : t \in DOMAIN SqliteSchema}
    /\ cell = Null /\ meaning = Null /\ seeded = FALSE /\ handed = "no"

\* The server stores a value; on PostgreSQL the statement may be refused.
Store(v) ==
    LET parameter == MapToDriver(Mode, v)
    IN  /\ engine = "postgres" => PgAccepts(PgType, parameter)
        /\ cell' = IF engine = "postgres" THEN PgReturns(PgType, parameter) ELSE parameter
        /\ meaning' = v /\ seeded' = FALSE
        /\ handed' = IF handed = "refused" THEN "no" ELSE handed
        /\ UNCHANGED <<engine, place>>

\* Migration 25 stores the times of the keys it finds in milliseconds.
StoreMillis ==
    /\ engine = "sqlite" /\ place \in {"provider_api_keys"} \X {"createdAt", "updatedAt"}
    /\ handed = "no"
    /\ cell' = Num(1000 * Now) /\ meaning' = Instant(Now) /\ seeded' = TRUE
    /\ UNCHANGED <<engine, place, handed>>

\* The copy: a value PostgreSQL refuses ends the move, and the server stays where it is.
MoveValue ==
    LET type == LogicalType(place[1], place[2])
        value == EncodeValue(DecodeValue(cell, type), type)
    IN  /\ engine = "sqlite" /\ handed = "no"
        /\ IF PgAccepts(PgType, value)
           THEN cell' = PgReturns(PgType, value) /\ engine' = "postgres" /\ handed' = "moved"
           ELSE handed' = "refused" /\ UNCHANGED <<cell, engine>>
        /\ UNCHANGED <<place, meaning, seeded>>

ValueNext ==
    \/ \E v \in Meanings(Mode) : Store(v)
    \/ StoreMillis
    \/ MoveValue

ValueSpec == ValueInit /\ [][ValueNext]_valueVars

-----------------------------------------------------------------------------
(* Correctness.                                                            *)

\* A value is read as it was meant, on either database and after a move, in every column of
\* every table; and a move is refused for nothing but a number PostgreSQL's integers are too
\* small for.  Excepted are the times migration 25 stored in milliseconds, until a move puts
\* them right, and, once moved, instants after the year 2286, which the copy takes for
\* milliseconds (decodeValue, encodeValue, schema.sqlite.ts, schema.pg.ts, catalog.ts).
ValuesKept ==
    /\ \/ MapFromDriver(Mode, cell) = meaning
       \/ seeded /\ engine = "sqlite"
       \/ handed = "moved" /\ meaning.js = "Date" /\ meaning.seconds > MillisFrom
    /\ handed = "refused" => PgType = "integer" /\ cell.n > LargestInteger

=============================================================================
