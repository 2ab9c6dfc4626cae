# Yutrix: TLA+ models and proofs

Yutrix (formerly PromptGate) is a self-hosted LLM gateway. Clients send OpenAI-,
Responses- or Anthropic-shaped requests; the server checks the API key, picks a
route, tries the providers of the route's *funnel* with the keys of each, forwards
the answer as JSON or as a stream, and logs what it did. Administrators configure
providers, keys, limits and routes while traffic runs, start *distillation jobs*
that analyse the audit log in the background, and may move the whole database from
SQLite to PostgreSQL. It is one Node.js process: code between two `await`s runs
alone, and everything else interleaves.

This directory models the parts where that interleaving, the retry logic, the
translation of streams and the accounting of resources are hard to get right, checks
them with TLC, and proves part of the results with TLAPS.

Paths below are relative to `src/apps/server/src/` unless they start with `src/`.
`GE` is `routes/gateway/gatewayExecutor.ts`, `SF` is `routes/gateway/streamForwarder.ts`,
`RA` is `routes/gateway/responsesAdapter.ts`, `PA` is
`routes/gateway/protocolAdapter.ts`.

## 1. The system

### Components, their state and their operations

| Component | State | Operations | Hard behaviour | Correct when |
|---|---|---|---|---|
| Async queue (`utils/asyncQueue.ts`) | limit, activeCount, line of closures | add, hold, release, settle, set concurrency | a slot may outlive its task; the limit changes under load | no slot leaks or is freed twice; nobody waits beside a free slot |
| Concurrency slots (`routes/gateway/concurrency.ts`, GE, `upstream.ts`) | one global queue, one queue per API key and per provider | nested add, hold by a stream, `releaseSlots`, limits re-read | hold-and-wait over three queues; retries inside and outside of them | upstream work within all limits; no lock-up |
| Attempt loop (GE 640-3040) | attempt and cycle counts, layer, tried and preferred keys, last error, budgets, reply, log row | attempt, judge, hop, rotate, rescue, respond | fourteen ways to go round again, six of which give the attempt back; keys vanish, providers are disabled, clients leave | ends; no answer replaced once seen; errors funnel down; the log tells the truth |
| Strategy routing and the size of a request (`services/strategyRouting.ts`, `fallback.ts`, `degradePolicy.ts`, `inputTokenLimitGuard.ts`, `longContextRouting.ts`, ...) | current layer, what is left of the body, which moves were made | move by size, summarise, cut, move by images, hop on busy, on error, on "too long", on a blank answer | moves undo each other; the uncut body comes back | ends; images reach a model that sees them |
| Class of a request (`services/strategyRouting.ts` 316-926 and 1199-1650, `strategyRouteFailureAnalysis.ts`, `strategyRouteBugAnalysis.ts`, `strategyRouteContentAnalysis.ts`, `strategyRouteUtterances.ts`) | the class an attempt carries | read from the text, gate by size, inherit over moves, read again | four analyses of one text overrule each other; the class is judged again on another body by another path | rests on something in the text; nothing short is long; no failure is missed |
| Stream forwarding (SF, `streaming.ts`, RA 880-2167) | the client's open message, held usage and end, tool calls, rounds | chunk, end, cut off, next round, next attempt | three grammars; what was shown cannot be taken back | one well-formed message, all of it, with its end |
| Whole answers and Google's streams (`upstream.ts`, `googleNativeAdapter.ts`, RA 690-843, `cache.ts`, `streaming.ts`) | the answer, what the client was shown of it before, the audit's copy | convert, wrap as a stream, wrap again, observe | five shapes of bodies, three clients; a body may answer a request for a stream | says what the upstream said, with its end |
| Bodies of requests (PA, RA 195-466, `googleNativeAdapter.ts`, `inputTokenLimit.ts`, `contextCompression.ts`, `payload.ts`) | the messages, the uncut copy, the conversations that had the prompt policy | translate, cut, summarise, inject, go back to the copy | three protocols in, four kinds of upstream; a copy that is the original; an upstream refuses a history with one call unanswered, for good | calls and results paired; the newest turns complete and in order; a policy once |
| Outbound requests (GE 1399-1672 and 2208-2260, `providerAdapters/`, `compatibility/`, `providerConstraintRecovery.ts`, `googleNativeAdapter.ts`, `upstream.ts`) | the mends planned for each model, the attempt's address, adapter and body | build the body anew, fit it to the address, mend it, send it; read a refusal | five kinds of addresses, seven rewrites in a row, refusals in any order, mends kept per model over hops | a model is left only when it cannot be satisfied, and what is sent is the client's but for what was refused |
| Timeout ejection (`timeoutEject.ts`) | a record per route and target, probes in flight | eject, skip, probe, restore | late timeouts, concurrent skips, probes that fail | one probe; ejection ends |
| Session admission (`sessionQueueManager.ts`, `sessionAdmission.ts`) | a queue per session, last activity | acquire with a timeout, release, clean up | timeouts racing the grant; clean-up racing an arrival | one holder per session; no waiter lost |
| Loop guard (`services/loopGuard/`) | a buffer of turns per conversation, whether it is stopped | inspect, stop, user speaks | hops inspect twice; settings change or cannot be read meanwhile | stops loops, and nothing else |
| Audit log inserts (`services/chatLogInsertQueue.ts`, `chatLogService`) | a promise chain per conversation, rows | enqueue, insert, retry | the last task takes the chain down; duplicate turn numbers | turns of a conversation numbered in order |
| Request log (`services/requestLogService.ts`) | a queue of writes, a worker | add, patch, retry, drain | a failed write may have been applied | a row shows its last patch |
| Distillation jobs (`services/distillation/jobService.ts`, `worker.ts`) | jobs, items and learned records in the database; flags, chain of workers, fragments in memory | create, pause, resume, cancel; the worker's steps | control calls between the worker's awaits; a resume while the old worker stops | nothing lost, nothing done twice or after a cancel; ends |
| Database move, maintenance, clean-up (`db/copy/pipeline.ts`, `routes/settings.ts`, `utils/maintenance.ts`, `utils/logCleanup.ts`) | two databases, the saved configuration, the maintenance flag | copy in batches, verify, switch; write, delete old rows | failure, retry, restart at any point; overlapping calls | switched only to a complete copy; maintenance ends |
| Start-up migrations (`bootstrap.ts`, `db/index.ts`, `startup/migrations.ts`) | tables providers and provider keys, group memberships | copy keys, rebuild a table, drop columns, remove surplus memberships | crash between any two statements; failed statements | no provider and no key lost |
| Schema of the database (`startup/migrations.ts`, `db/migrate-sqlite.ts`, `db/migrate-pg.ts`, `drizzle/`) | tables and columns, the records of the migrations applied | ensure columns before and after, seed records from what is found, apply SQL migrations | three mechanisms add the same columns; databases of every age; crashes and failed statements | every start that succeeds leaves the whole schema, and no column is lost |
| Values of the database (`db/catalog.ts`, `db/schema.sqlite.ts`, `db/schema.pg.ts`, `db/copy/codec.ts`, `db/copy/reflect.ts`) | a value of a column, in one engine | write, read, move to the other engine | three descriptions of 160 columns; seconds and milliseconds; 32 bits | a value means the same after a move |
| Users, groups, API keys, invite codes (`routes/users.ts`, `groups.ts`, `apiKeys.ts`, `auth.ts`, `inviteCodes.ts`) | memberships, key states, user states, use counts | handlers of several statements each | two administrators at once | a user in at most one group; one unrevoked key |
| Tables of routes (`services/routeService.ts`, `controllers/adminRouteMutateController.ts`, `routes/subdomains.ts`, `endpoints.ts`; read by `routes/gateway/routing.ts`, `authorization.ts`) | host rows, endpoints, routes, authorizations | create, update, delete of each, in several statements; a request looks up host, route and authorization | host rows are shared and cleaned up; a call may stop between statements; a request reads between them | a route nobody touches goes on serving |
| Models of a provider (`controllers/providerModelController.ts`, `providerUpdateController.ts`, `startup/seed.ts`, `utils/modelAlias.ts`) | rows of models with what operators set, a cache of aliases | create, refresh, update, save settings, restart | a refresh acts on what it read; a lookup stores what it asked for earlier | what an operator set stays; no alias older than its time |
| First-run setup (`services/setup.ts`, `routes/setup.ts`, `db/config.ts`, `index.ts`) | the configuration file, the environment, the connection, what the process remembers of the setup | complete a setup statement by statement, unattended setup, start, restart | file and connection change before the database was tried; overlapping setups; crash between statements | a finished setup survives every restart |
| Entry of a request (`routes/gateway/gatewayHandlers.ts`, `auth.ts`, `authorization.ts`, `utils/ipAcl.ts`, `services/userTokenLimits.ts`) | rows of keys, users, groups and grants; the rule of source addresses, block lists compiled for it; a limit per user and group | key, route, address, role, groups, grants, limit, admission, a statement each; administrators write the same rows | a request is judged by rows that never held together; a list compiled for an earlier rule | served and limited by what held, refused for what did not |
| Choice of provider and model (`routes/gateway/routing.ts`, `utils/scheduleEvaluator.ts`, `services/routeModelProfiles.ts`, `opcAgentRouting.ts`, `clientModelOverride.ts`, `controllers/userRouteController.ts`) | the row of the route with its profiles and schedules, the row a user has stored for it | take a profile or a schedule, draw a layer, apply the stored choice, decide; store a choice, statement by statement | five rewrites of one table in a row; windows over midnight; calls that overlap | asked of a pair the table names, or the one the user chose |
| Routing overlay (`services/distillation/jobService.ts`, `routingOverlay.ts`, `proposalValidation.ts`, `routingMerger.ts`, `controllers/distillationController.ts`) | the proposals and versions in the database; in memory the snapshot that classes requests and the cache the page reads | validate, apply, roll back, look at; start | calls of several statements and no transaction; a read stored after a later one | classed by the version in force, of proposals that were judged together |
| Schedule of distillation (`services/distillation/scheduler.ts`, `settingsService.ts`) | two rows of settings, the cron task | patch, maintenance, start | the task is stopped, settings are awaited, and then it is replaced | the task of the settings and no other |
| Response cache, other administration, statistics, web UI | configuration and queries | | | see section 6 |

How they interact: the **entry** authenticates the request, looks up its route in the
**tables of routes**, judges it by address and grants and passes **session
admission**; then `executeGatewayRequest` settles by the **choice** of the table, the layer and
the model where it begins, and enters the **global queue**, inside it the **API key's queue**, asks the **loop guard**, and inside that
runs the **attempt loop**. Each attempt of a classic route asks **timeout ejection**; on
a strategy route the layer is chosen by **strategy routing**, the size of the request and
its images. The attempt enters the **provider's queue** and fetches. A stream that
begins calls `hold` on all three queues, so that the slots outlive the tasks until the
stream ends; **stream forwarding** translates it to the client's protocol. The
**continuity** check after the reply may send the request round again from the global
queue, on the same open reply. Every step writes the **request log** through its queue; a
success also enqueues an **audit insert**, which is what **distillation** reads later.
Administrators act through the database: the gateway sees a new limit, a disabled
provider or a lost key when it reads the row again. A **database move** puts the whole
server into maintenance.

### Plan

Written, in this order: the queue with its abstract specification and proofs
(`AsyncQueueOps`, `AsyncQueue`, `SlotPool`); three kinds of queue
composed (`GatewaySlots`); the attempt loop (`GatewayAttempts`); `DistillationJobs`;
`TimeoutEject` with proofs; stream forwarding (`StreamChunks`, one
module per client protocol, `StreamReply`); the bodies of requests
(`Conversation`); answers that come whole (`WholeAnswer`); the requests that are sent
(`OutboundRequest`); the services with a queue of their own
(`SessionQueue`, `LogWrites`, `DatabaseMove`); what an
administrator and a start change (`ProviderTable`, `Accounts`, `LoopGuard`);
`StrategyRoute`; the configuration a request is routed by (`RouteTable`,
`ModelCatalog`); `FirstSetup`; the database (`SchemaUpgrade`, `StoredValues`); the class of a request
(`TaskClass`); the entry of a request (`GatewayEntry`) and what it is first asked of (`ModelChoice`);
what administrators do with the findings of distillation, and when it runs (`DistillationControl`).

Proved, in this order: the queue and the pool, the ejection; the lemmas on queues that
every user of them needs, and with them the session locks and the nested slots; the two
logs; the attempt loop; the move to PostgreSQL; the administration: the rebuild of the
providers, the accounts, the cache of aliases, the loop guard; the distillation jobs; the
first-run setup; the models of a provider; strategy routing; the tables of routes; the values of the
database; the requests that are sent; the class of a request; the entry and the choice of a model; the control of
distillation (section 4). What is left to TLC is so for a reason given there.

## 2. The modules

Definitions carry the names of the code where TLA+ allows it. A definition whose
comment begins with "Mutant:", or whose name extends the name of the definition
below it (`FetchStreamNoHold`), is a deliberately wrong version of that definition:
putting it in the place of the right one must make a property fail, which shows
that the property says something. Nothing else uses them.

### AsyncQueueOps, AsyncQueue, SlotPool

`AsyncQueueOps` is the pure part of `utils/asyncQueue.ts` on a record of limit,
active count and line; because JavaScript does not interrupt a method, each
method is one step that already contains the `processQueue` it ends with.
`AsyncQueue` adds the tasks: `Add`, `Hold`, `Release` (idempotent for each release
function), `Settle` (frees the slot unless the task called `hold`),
`SetConcurrency`. A release may come before or after its task settles.

`SlotPool` is what a limit promises, without counters or callbacks: a set of
holders, a line, a capacity; whoever arrives joins the line, and after each change
exactly the front that fits is let in. `ImplementsSlotPool` maps the holders to the
tasks that occupy a slot (`Occupiers`).

### GatewaySlots

The nested `add` calls of `executeGatewayRequest`. The record `sys` holds all
queues and the place of every request, because leaving one queue starts other
requests in the next one within the same step; `GlobalFreed`, `KeyFreed` and
`ProviderFreed` compose these drains in the order of the code. Whoever the global queue
starts enters the queue of its key, which may start it at once: `EnterKey` is that for one
request, and the recursive function `Entering` for all that are started, one after the other. The outcome of
an attempt (error, answer, stream) is a choice; why the loop goes on is the
subject of `GatewayAttempts`. `EmptyJsonAnswers` lets a streaming request be
answered by an empty JSON body, the case in which the code breaks its own
accounting; it is off in the passing run.

### GatewayAttempts

One request of a classic route (classic is the code's word for a route without
strategy). `pc` is the place in `executeGatewayRequest`: choose the attempt
("loop", "resolve", "keys"), wait and fetch ("queued", "fetch"), judge the answer
before anything is sent ("judge"), send or forward it ("respond"), the decision
matrix for a stream that failed ("matrix", "failing"), and the continuity check
("stage2"). Each action is a branch of the code with all its assignments. An
answer is a kind (`AnswerKinds`) with the key it came from and whether its
error is retryable; a stream is judged by how it ends (`StreamEnds`). `rejected`
is a history variable. The client may leave between any two steps; `KeyLost` and
`DisableProvider` are other requests and the administrator.

`Answers`, `StreamEnds`, `Local`, `Changes` and `Modes` select what the
environment may do in an instance.

### StrategyRoute

One request of a strategy route, seen from its size, its images and its class. A layer has a model of
its own and may have rules for images, for long contexts and for the rest (the rules of the code by class, of
which the classes without images are told apart only by the long context); it may be without strategy
routing (`enabled`) and may compress (`compress`). `given` has what does not change: the layers, the window of
each model (0: unknown), the models a rule may name (`valid`), the request as it came, its class, the quota of
input tokens, and whether it streams or continues a turn of tools, and on which model that was. `body` is
what is left of the request, `at` the current attempt: its layer, model, class, and whether it is a fallback
that chooses anew. The flags are `checked` (`strategyRoutingChecked`), `override` and `hopped`
(`longContextOverrideApplied`, `overflowHopApplied`), `layerHopped` and `compressed`; the counters
`attempts`, `cycles`, `blanks` and `busy` bound the loop; `failed` are the models that failed, and `asked` is a
history.

A turn of the loop is the quota and the choice by class (`ChooseByTask`); the size against the window, which
moves (`HopForSize`), summarises (`Compress`) or at most cuts (`Stay`); a refusal before the fetch (`Refused`),
a full queue (`Busy`) or none (`Admit`); the Vision Guard (`Guard`); and the outcome of the fetch: `Answered`,
`Fails`, `Retry`, too long for the upstream (`CompressAfterOverflow`, `HopAfterOverflow`), or blank
(`BlankAgain`, `BlankHop`, `BlankEnd`).

### TaskClass

How that class is found (`classifyStrategyTask`) and what becomes of it. The regular expressions
are data: a text is what they find in it. It has signs as a whole ("writes", "reads logs",
"codes"); clauses, each with signs and with mentions of failures, which have signs themselves
("negated", "if before", "framed"); clauses about bugs; lines and fenced blocks, counted by what
they look like; and the utterances it contains. What the four analyses make of that is modelled
branch by branch: `Live` and `Failing` (`strategyRouteFailureAnalysis.ts`: a mention in a clause
of a plan is no failure), `IsDebug` (`strategyRouteBugAnalysis.ts`), `ContentClass`
(`strategyRouteContentAnalysis.ts`), `Hit` (`strategyRouteUtterances.ts`), and their order
(`Opening`, `Debug`, `Rest`). The actions are those that use or change the class of an attempt: the choice
at the head of the loop (`Decide`, `Skip`), a cut (`Shorten`), a move for the size (`SizeHop`), a refusal
(`FallBack`, which inherits the class or reads the text anew), the end of the long-context chain
(`ToVision`), a blank answer (`EmptyHop`). Whether a layer has a valid rule for the class is a choice
here and the subject of `StrategyRoute`.

### StreamChunks, the three streams, StreamReply

`StreamChunks` is what an OpenAI-compatible upstream may send: text, reasoning, tool
calls by index, a finish reason, usage, an error or the mere end. `OpenAIStream`,
`AnthropicStream` and `ResponsesStream` are the forwarder for each protocol of the
client: each maps the state of the open message and a chunk to the new state and the
events written, with the block, item or choice that is open, the usage and end that
are held back, and the repairs at the end of a round. The second part of `StreamChunks` is written from
the protocols, not from the forwarder: the automaton of events a client may be sent (`Parse`).
`StreamReply` composes them with what the attempt loop does around the forwarder on one
open reply: a failed attempt repeated, a round cut off by its length and continued,
the end. Text and arguments are numbered pieces, so that loss, duplication and
order show.

### Conversation

Its first part has the functions that rewrite the messages of a request, over messages whose
parts are text, images, thoughts, calls of tools and results, each with a number. There is
one for each pair of protocols that the code has a path for: Responses to chat
(`ResponsesToChat`), Anthropic to chat (`AnthropicToChat`), to the Anthropic of others
(`Compatible`), chat to Google (`ChatToGoogle`); and the cut by turns, the summary, the
demand to go on after an answer of thoughts only, and the four positions of the policy.

The second part is a client that speaks or returns results, and the gateway that sends
what it makes of the whole history, attempt after attempt, until one is answered. `body`
is `resolvedBody`, `original` the copy `originalBody`, and `shared` says that they are one
object, which the retry after a blank answer makes them: a cut is made in place. An
attempt may go to any upstream the client's protocol can be served by, may cut at any
turn (the count of tokens is not modelled) and may summarise once. The client keeps what
its protocol can express: thoughts go back to an Anthropic client only.

### WholeAnswer

What `executeUpstreamFetch` makes of an answer that is no stream of the upstream's own
protocol: `origin` is a chat completion, a message of an Anthropic upstream, a body in the shape of such a
message from another upstream (`"shaped"`), what Google sends (whole, or in
pieces of data), a hit of the response cache, or an error. `AnswerWhole` converts it for a request
without stream, or fails when a call's arguments cannot be parsed (`upstream.ts:696`); `AnswerWrapped` makes a stream of a JSON body and `FakeRestored` makes it again for
the client (`restoreFakeStreamIfNeeded`); `GoogleData` and `GoogleEnd` are the adapter of Google's
streams; `audit` is what `StreamAuditObserver` notes of a stream. `Understood` reads what was
handed on by the rules of its own protocol, `Meant` the upstream's answer by those of its own:
`AnswerKept` compares the two, after `Told` has taken from the answer what the code is known not
to tell a client; `Illegible` and `Refused` are the answers a client cannot read or does not get. Section 5
lists all of these.

### OutboundRequest

What is sent to a model, attempt after attempt. `Dispatch` chooses the address and its adapter,
`Path`, `Credential` and `Through` the rest of the request but its body; `Outbound` is the body,
built from the client's by the functions of the code in their order: `TransformRequestBody`,
`AdaptRequestProtocol`, `OpenRouterTools`, `ApplyProviderCompatibility`, the mends, and for Google's own
interface `BuildGoogleNativeRequest`. A body is a record of what upstreams refuse: whether a call of
a tool is demanded, thinking, reasoning in the history, `$ref` in results, the schema of a tool (with the
six steps of `SanitizeGeminiSchema`), the limit, the usage option, tools of Anthropic's servers, the
switches of thinking. An upstream (`Upstream`, external) has addresses and refuses some of these, one
complaint at a time, whichever it finds first; the texts of its complaints are their meanings, which
`MentionsThinking` and its neighbours read. `PlanConstraintRecovery` plans a mend or none; `Recover` notes
it for the model. `MendedAsNeeded` has its own definition of the models that can be satisfied
(`Mendable`), by what they refuse and where they are, not by what the functions do; the schemas that the
functions leave unfit are named in it (`UntypedDates`).

### SessionQueue, LogWrites, DatabaseMove

`SessionQueue` puts `AsyncQueueOps` with limit 1 behind a map from sessions to queues:
`acquireLock` with its capacity and its timer, the task that notices its caller has
gone, the release, and the periodic clean-up of idle sessions. `LogWrites` has the two logs a
request is written to, which share nothing: the audit log, a
chain of promises per conversation and the insert with its read of the last turn number
and its retry on a duplicate; and the request log, the queue of inserts and patches with
its one worker, a retry after a delay, and `drain`; a failed write may or may not have
been applied. `DatabaseMove` is the pipeline of one table (plan, count, copy in
batches, verify, save the configuration), the maintenance gate around it, the writers
and the clean-up that run beside it, errors, and a restart at any step.

### ProviderTable, Accounts, LoopGuard

`ProviderTable` is a start of the server statement by statement: copying the keys of the
old columns into the key table, rebuilding `providers`, dropping the columns; it may crash
after any statement and be started again. `Accounts` has every handler that changes a
membership, a key or a user, split at its database calls. `LoopGuard` is `inspect.ts`
with its four patterns on a bounded buffer; its reference definition (`ReasonsFor`)
says over the whole history, not the buffer, what a loop is.

### RouteTable, ModelCatalog

`RouteTable` has the rows of `subdomains` by host name, of `endpoints` by path, of
`endpoint_routes`, and the routes one user is authorized for. `edit` is the one call of an
administrator under way, with the statement it has come to; `ServerStops` abandons it there.
`request` is one request on its way from host to row (`Arrive_`, `FindSibling`), to route
(`FindRoute`) and to authorization (`Authorize`), each a query of its own. Two history
variables say what a property may not demand: `withdrawn`, the hosts an administrator
disabled or deleted himself, and `unchecked`, the routes written by the handlers that
compare no keys. The page of routes begins on tables it has made itself (`RouteInit`).

`ModelCatalog` has the rows of `provider_models` of one provider. A refresh or an update with a
test reads the rows (`saw`), then goes through them one statement at a time (`PruneRow`,
`InsertRow`), while saves, other calls and restarts (`syncManualModels`) write the same rows.
`Settings` is what an operator may set, `Custom` the part that keeps a row from being deleted.
Its second part is the cache over the alias of one model, with lookups that await their query.

### GatewayEntry

One route and the rows a request to it is judged by. `ExtractAndValidateApiKey`, `ResolveRoute`, `CheckAddress`,
`ReadGroups`, `CheckDirectGrant`, `CheckGroupGrants`, `ReadOverride`, `ReadGroupLimits` are the
queries of `proxyHandler` in their order, `Statements` those of administrators, which may come between
any two: grants are replaced by a deletion and an insert (`RevokeAll`, `InsertPending`), a rule of addresses is validated and
written (`SaveIpRule`). `compiled` is the cache of block lists. A request carries two
history variables, what held at some moment since it arrived (`ever`) and what held all the time (`always`): the first is what may
serve it, the second what it must not be refused.

### ModelChoice

One route, any of the shapes its row may have, and one user. `ReadRoute` and `StartAttempt` make the table a request goes by: a profile
named by the client's model (`ApplyRouteModelProfile`), else the schedule in force (`FindActiveSchedule`); `InitialLayer` draws
by weight, `InitialPair` collapses what is left of a legacy matrix. `ReadChoice` and `CheckFixedModel` are `resolveUserRouteOverride` with
its two queries, `DecideStrategy` the choice of strategy routing among the rules the layer has. `SaveRead` to `SaveWrite` are the call that stores a choice.
`source` keeps the table as it was read, `schedule` and `when` which schedule was taken and when.

### FirstSetup

`given` is the environment the server is deployed with, `env` that of the process, which a
setup changes; `file` the configuration file; `connected` the database in use. `Loaded` is what
`loadDbConfig` makes of the environment and the file, `Fresh` the check whether
the server is set up, for which every failure reads as fresh. `completeSetup` is split at its
statements (`Writing`): connect, migrate, look for the administrator, write him and the domain,
seed. `BootDecides` chooses between bootstrap, the setup the environment describes, and the
wizard. A setup may be called by the wizard twice, a statement may fail, and the process
may die anywhere and be started again.

### SchemaUpgrade, StoredValues

`SchemaUpgrade` is a start of the server as the database sees it: the columns ensured early, the
records of migrations seeded from what is found, the SQL migrations (`drizzle/`) each with the columns
it creates, moves or needs, and the columns ensured late; on PostgreSQL its own list. `from` is the
version the database was left at, `SchemaComplete` what the code's queries then need. A statement
may fail and the process may die at any step (`MaxStops`), and be started again.

`StoredValues` follows one value of one column of any of the 28 tables: it is written through the
schema of one engine (`SqliteSchema`, `PgSchema`), moved (`DecodeValue`, `EncodeValue` by the types of the
catalogue), and read through the schema of the other. The three descriptions of the columns are
tables in the module, transcribed from the three files; `ValuesKept` compares what was written
with what is read. `TablesAgree` says how the three go together: a column is described in one of six ways (`Kinds`).

### DistillationJobs

Control calls are split at their database accesses; the worker at its awaits, down
to each item of a batch. `cancelled` and `paused` are the flag sets,
`worker`/`waiting` the chain in `activeWorkers`, `accum` the fragments: what is in
`jobSkillAccum`, or in the map the running worker still holds after a cancel has
deleted the entry. The processed and failed counters, the proposals and the
content of the fragments are left out. `wish` and `discarded` are history
variables.

### DistillationControl

A proposal says what it adds to the weights of words and which patterns it brings. `ValidateDraftProposals` to `StoreSnapshot` are the
calls of administrators on proposals and versions, a statement each: a version holds what its proposals come to together
(`MergeRoutingAdjustments`). `cachedSnapshot` is what requests are classed by, read at the start and behind each change;
`cachedOverlay` with its time is what `getActiveRoutingOverlay` keeps for the page. The process may end anywhere and start again. Three
history variables say what a property may not demand or has to compare with: `undisturbed` (the last change of the versions met no other),
`inTurn` (calls came one after the other, one validation before an apply) and `lastNewest` (when each version was last the newest active one).

The second part is the schedule. A `PATCH` writes the settings key by key, and like the start and the end of maintenance it then
stops the task there is, awaits both settings, and makes the next. `tasks` are the tasks that run; `currentTask` is the one the
process can still stop. `orderly` is a history variable: since the start no two of these calls have met.

### TimeoutEject

One route whose L0 the administrator may change. A record is "unprobed" (no
`probeSpec`), "idle" or "probing" (`probeInFlight`). A request captures the route
when it is routed, is skipped or sent, and is answered or times out; a request or a
probe sent to a target that is down is never answered, also when the target
recovers meanwhile.

### The MC modules

`MCServices` and `MCAdministration` check several modules that share no state in one
run: the initial states choose one of them (`mode`), and the others stay in theirs. That is
the same as a run each. `MCRequest` does so with what becomes of one request: its entry (`GatewayEntry`), what it is asked of
(`ModelChoice`), its class (`TaskClass`), the way up (`Conversation`), the way down (`StreamReply`), and the answers that
come whole (`WholeAnswer`); `MCBackOffice` with the
distillation jobs, their control, the schema, the values and the outbound requests. The other MC modules
instantiate one specification.

## 3. What TLC checks

All runs are exhaustive within their bounds.

| Run | Instance | Shows |
|---|---|---|
| `gateway_slots` | 2 requests of one key, 2 providers, limits 1-2, 2 attempts, 1 more cycle, one limit change | `LimitsEnforced`, `NoSlotLost`, `EveryRequestEnds`: holding two slots while waiting for the third never locks up |
| `gateway_slots_empty_json` | 3 requests, wrapped empty JSON | **violates** `LimitsEnforced` |
| `attempts` | 2 layers with 1 and 2 keys, JSON and streams, key errors, all refusals of the gateway, lost keys, disabled providers | `AllAsked` |
| `attempts_stream` | the same funnel, blank answers and streams, capacity errors, cut streams, one retry | `EndIsTrue`, `NoFetchAfterVisible`, `Terminates` |
| `strategy_route` | routes of 2 and 3 layers with rules for images, long contexts and the rest, or without some, one that compresses, one without strategy routing; windows unknown, 1 and 2, bodies of 2-4; with and without images, quota, and the continuation of a turn | `ImagesToVision`, `RoutingEnds` |
| `one_request` | entry: one or two requests in turn, of a client and of the system's key; one user, two groups; an IPv4, an IPv6 and no address; six rules; one change by an administrator; choice: one request of one user, or two calls that store one of four choices; six routes, two sets of models, three times, two rolls, one change by an administrator; class: 24 sentences, alone and in pairs, three short aliases, with and without images, as a user's and as a continuation; up: three client protocols, four kinds of upstream, 3 turns, one exchange of up to 2 calls, one image, a policy in four positions; down: three client protocols, 4 chunks per round, 2 calls on 2 indices, one custom tool, one retry, two rounds; whole: six kinds of answers of up to three parts, Google's in up to three pieces, for three clients, with and without stream | `EntryJudged`; `ModelChosen`; `ClassStands`; `ConversationKept`; `MessageWhole`, `RetriesUnseen`; `AnswerKept` |
| `message_shown_raw` | the whole answers | **violates** `MessageReadable` |
| `services` | each of seven services alone: the queue (4 tasks, limits 1 and 2, one hold each), one distillation job (2 records, 2 resumes), ejection, admission, audit inserts, request log, database move | `QueuedTasksStart`; `ImplementsSlotPool`: the queue refines the abstract pool, so that no slot leaks or is freed twice; `JobsFinish`; `ProbesAccounted`, `EjectionEnds`; `OneHolder`, `WaiterServed`; `TurnsOrdered`; `RowsInOrder`; `SwitchedComplete`, `MaintenanceEnds` |
| `administration` | each of seven: a start of the server, accounts, loop guard, routes, models, aliases, setup | `CatalogKept`; `AccountsConsistent`; `GuardHolds`; `RouteServed`; `SettingsKept`; `AliasFresh`; `SetupKept` |
| `column_lost` | the schema at a start | **violates** `SchemaComplete` |
| `setup_secret_lost` | the setup | **violates** `KeysReadable` |
| `back_office` | each of six parts: 2 distillation jobs in turn, 2 records, batches of 2, one resume; three proposals, two administrators, or one and the page, three versions (two with the page), two starts; a caller of five patches of the schedule, the start, maintenance, two tasks; databases of nineteen ages, with two stops; a value of every column, on either engine; requests with every combination of what may be refused to fifteen models, over routes of one and two layers | `CompletedIsPublished`, `CancelledStops`; `ControlKept`; `SchemaKept`; `ValuesKept`; `MendedAsNeeded` |

Distillation is checked twice: `back_office` needs two jobs and reduces their records by symmetry,
which the liveness of `services` does not allow. Where several facts are about one thing they are
the conjuncts of one property: `AccountsConsistent` is `InOneGroup` and
`OneUnrevokedKey`, `AllAsked` is `KeysRotate` and `ErrorsFunnelDown`, `ControlKept` is `OverlayCurrent`, `AppliedHasVersion`,
`WeightsBounded`, `OverlayFresh` and `ScheduleKept`, `EntryJudged` is `ServedAsAllowed`, `RefusedWithCause` and `LimitFounded`, `ModelChosen` is `ChoiceStands`,
`PairConfigured`, `FirstLayerWeighted`, `ScheduleInForce` and `ChoicesExclusive`, `ImagesToVision` is `ImagesSeen` and `VisionExhausted`, `MessageWhole` is `OneMessage` and
`NothingLost`, `GuardHolds` is `GuardExact` and `StopKept` at each step, `ClassStands` is `VisionKept`, `LongIsLong`,
`FailureSeen`, `AlarmFounded` and `IntentKept`, `ProbesAccounted` is `OneProbe` and `EjectionHasProbe`, and
`ConversationKept` is `ToolsPaired` and `ConversationSent`, of which the once-per-conversation
policy (`PolicyOnce`) is a conjunct.

### Bounds, and why they are enough

- *Queues.* Four tasks fill two slots and leave two in line, so order in the line, a
  limit lowered below its use and raised again, and late releases all meet. One
  hold per task is what the gateway does in every path but the one
  `gateway_slots_empty_json` shows.
- *Slots.* `MaxAttempts` and `MaxCycles` stand for the budgets of the attempt loop;
  with two attempts and one further cycle a request releases and re-enters each
  queue in every way the code has. Two requests of one key contend for the key's
  queue and the global one and may hold different providers.
- *Attempts.* Two layers are one hop; the second layer has two keys so that a
  rotation and its end occur. The budgets are those of the code (capacity 2, empty 1,
  reasoning 3, cycles 5) in `attempts`, with reasoning 1 and cycles 3 in
  `attempts_stream`, where the property is that the budgets bound the loops and
  the size of the budget does not matter. `retryCount` is 0 or 1; every further
  retry repeats the same branch.
- *Strategy routes.* Sizes are 1-4 and windows 1, 2 or unknown on a scale on which the size gate is 2 and the floor
  of the class of long contexts is 3, so a request may fit everywhere, only on some layers, or nowhere. Three
  layers are needed for a long-context chain that is neither the first nor the last
  model. `MaxCycles` is 2 for the code's 5, `MaxBlanks` 1. `MaxBusy` bounds how often
  a provider's queue is full; it is what makes `RoutingEnds` true, see section 5.
- *Streams.* Four chunks in a round give two calls with text before or between them, or
  a call whose arguments come in two parts; two rounds give one seam. `MaxCycles` is 2 for
  the code's 5: a third round meets the same held state as the second.
- *Conversation.* A summary keeps two turns, so three turns are the fewest it can shorten; a cut
  before, after or without it leaves any suffix. One answer with calls may come in any turn, with
  one or two calls, the first to a server tool; results come with or without text and an image.
  Attempts, retries and rewrites in one request are not bounded: the reachable bodies are finite.
  The policy is checked with two turns, in which the second request must not carry it again.
- *Answers.* Text alone, after a thought, before two calls; a thought alone or before a call; nothing.
  Calls come with the reason for calls and, in messages and bodies of their shape, also cut; a chat completion
  may have a call whose arguments are cut short, with either reason, and thoughts in tags.
  A stream of Google has up to two pieces of data before the one with the reason. Of a continued
  reply the client has seen none or one of two pieces of text.
- *Class.* Each sentence makes one branch of an analysis decide; what one sentence does to
  another needs two. Sizes 0-2 lie on both sides of the floor 1. The moves are not bounded: the
  reachable states are finite.
- *Services.* Two requests and two targets for the ejection: one skipped or in flight from
  before, one sent during the recovery. Three callers on two sessions with a
  capacity of one give a holder, a waiter and a refusal, or a lapsed waiter in
  between; four queues are made and thrown away. Three inserts are a chain, its
  tail and a late-comer. Two patches of one log suffice for a retry to overtake. Two
  moves, one writer, a clean-up, an error and a restart, on three rows.
- *Administration.* Two providers and two keys, two crashes and two failed statements, so
  that a start after a crash crashes again. Three calls on one user with two keys and
  two groups beside the default group. The loop guard has the code's thresholds 3 and 6 and
  lower values for the ceiling, the age and the buffer, with a buffer no shorter than the
  longest pattern, as in the code (500 against 40).
- *Routes.* Two domains, a label on both and one on the second only: a host has a sibling row, none, or
  two. Up to two routes are there at first, each with no, one or two hosts, and one call is made
  of any kind, stopped anywhere; a request is repeated without end. A route is lost through a
  host row or a key it shares, for which two routes and a third to be made suffice. Unknown
  hosts are refused, as the seeds set it.
- *Entry.* What a request is judged by is read in nine statements; one change by an administrator may come before or
  behind each of them, and the replacement of the grants is two. `theme` says which of rule, grants, limits and key the initial rows vary; the change
  may be of any. The six rules are none, one open to a family, an address, an address with a family, a net, and one that does not parse;
  a second request, where the rule or the key varies, meets the block lists and the row the first has left. Limits are none, 0 and 1.
- *Choice.* The six routes are in strategy mode; classic with a first layer of weight 0 and weights short of 100; a legacy row; a row
  without layers; one with a profile and two schedules, of which one runs over midnight and one to the start of the next day; one
  whose schedule forbids what the route allows. The three times (60, 400 and 3000 minutes into the week) lie behind midnight in the first window,
  on the second window's own day, and behind midnight in the second; for the sixth route the first of them lies outside of its window. They
  pass only on routes with schedules. The two rolls (0 and 70) lie in the first
  weight that is not 0, and where the weights short of 100 end. `theme` says what meets: two calls of the user, for `ChoicesExclusive`, or one call, one change and a request.
  Where these bounds end the entry or the choice, the run lets it rest.
- *Models.* Two models and two administrators: a refresh, and a refresh, an update or a restart beside
  it; three inserts, so that one model is deleted and made again. One save, of a setting that counts, of
  the alias, which does not, or of both. Aliases: two names, two lookups, times 0 to 4 with entries
  kept for 2.
- *Setup.* Two calls of the wizard beside the unattended setup, two files and two databases, one of
  which cannot be reached; three starts, so that a restart follows a restart, and one failed
  statement. Nothing is assumed fair: setups need not end.
- *Distillation.* A second job appears only after the first is cancelled or complete,
  while the first one's worker may still be busy; two records give a batch whose
  items finish in either order. `MaxResumes` bounds pause-resume rounds.
  One control call is in progress at a time (see section 5).
- *Control of distillation.* Two administrators overlap in any two statements of their calls, a restart may come between them, and a
  third version follows the two they may leave active. The page is checked with one administrator, as its cache is
  about when a version was in force: entries are kept for 2 (`CacheTTL`), and time goes from 0 to 2. A proposal alone within the limits,
  two that are beyond them together, and one whose pattern does not parse are what a validation can meet.
  Two tasks, as a task is lost when a second replaces it.
- *Schema.* Nineteen of the versions a database may come from: before and after every migration that
  another statement of the start is about. Two stops, so that a start after a stop stops again.
- *Values.* Every column of every table. Numbers and times lie to both sides of what 32 bits hold and of
  the threshold between seconds and milliseconds, on a scale of ten million.
- *Outbound requests.* Fifteen models: one or two complaints that meet in one mend, none that does,
  a mend that is refused, and each kind of address, with a slot taken away, a path already in the
  address, a proxy or a ceiling. Two layers show what a hop carries over; one attempt
  (`MaxTries`) is the hardest case for `AskedBoundedly`, as every mend must give it back. Two retries
  for capacity are the code's default.

`CHECK_DEADLOCK FALSE` is set where the system rests when it has nothing to do: the
services, the administration, a finished request or job, and a gateway whose bounded requests have come and gone.

### Fairness

- `AsyncQueue` (`QueueFairness`): every task settles and every release function is called. The
  gateway's tasks end by a timeout, and `releaseSlots` is in a `finally`.
- `GatewaySlots`: a request that is in no line goes on: fetches have
  `attemptTimeoutMs`, streams an idle timeout. Nothing is assumed about lines.
- `GatewayAttempts`, `StrategyRoute`: weak fairness of the request's own steps. Nothing
  is assumed of the client or the administrator.
- `DistillationJobs` (`JobFairness`): weak fairness of the worker of each job and of a control call
  that has begun; an administrator need not call anything. The analyzer's answer
  is part of the worker's step: a hanging analyzer would stop a job, and the code
  has no timeout of its own there.
- `TimeoutEject`: probes and requests end by their timeouts. `EjectionEnds` also
  needs traffic on the route (`WF` of `Route`), since only a request starts the next
  probe; that targets stay up and the switch stays on is the premise of the property.
- `SessionQueue`: a holder releases (`finally`) and the task of a caller that gave up
  notices it. The timer of a waiter is *not* fair: `WaiterServed` is about the lock.
- `DatabaseMove`: a move that has begun goes on; its statements return or fail.
- `GatewayEntry`, `ModelChoice`, `DistillationControl` and the modules of the administration state safety only and assume none.

## 4. What is proved

`ServiceProofs`, the queue (for every finite set of tasks and every set of positive
limits; `QueueInvariant` and its consequences under `HoldsPerTask = 1`):

- `QueueInvariant`: `Spec => []IInv`. `ActiveIsOccupancy` alone is not inductive: to know
  that a task leaving the line was not in a slot before, and that two tasks taken
  from the line are two, one needs that the line holds each "queued" task once and
  nobody else (`QueueMatches`); to know that a settling task with a release function
  keeps exactly one slot, one needs `HoldsOK`; and `NoIdleSlot` is what makes `Add` of
  a task with room leave an empty line. `IInv` is their conjunction with the types.
  The core is `DrainKeepsAccounts`: taking *n* tasks from the front raises both the
  counter and the number of occupiers by *n*; every action reduces to it through
  `ProcessQueueIInv`.
- `SlotAccounting`, `WorkConservation`, `StartsRespectLimit`: the invariant's
  consequences.
- `QueueImplementsPool`: every behaviour is one of `SlotPool`, initial state and step
  by step.

`AsyncQueueOpsProofs` states what each operator of the queue does to its accounts, for whoever
uses it: `Accounts(q, W, O)` says that the line of `q` is the set `W`, each once, and that the counter is
the number of `O`; `Served(q)` that nobody waits beside a free slot. `DrainAccounts`, `AddAccounts`,
`FreeAccounts` and `ResizeAccounts` are what the next two modules cite. `LeastNumber` (a set of
numbers that is not empty has a least one) stands in for the induction theorem: what is said of the first
*n* is proved by looking at the least *n* for which it fails.

`ServiceProofs`, the session locks (for every set of callers and sessions, any capacity and any number of queues):

- `LocksInvariant`, `SessionsAreExclusive`. That a queue of limit 1 has one holder says
  nothing of a session, which may have had several queues: the invariant adds that everybody
  who waits for or holds the lock of a session is in the queue the map names (`Together`). The
  clean-up keeps it because a queue with counter 0 and an empty line has nobody in it, which is
  what `Accounts` says; a caller whose timer has fired still counts as waiting until it is started.

`GatewaySlotsProofs` (for every set of requests, keys, providers and limits, any number of attempts,
cycles and changes of limits):

- `SlotsInvariant`, `NoSlotIsLost`, `LimitsAreEnforced`. One step drains several queues one after
  the other, and in between counters and places disagree. `SysAccounts` is therefore stated for any value
  of `sys` with four sets that say how far the step has come: who holds a slot beyond its stay in each kind of queue,
  and whom the global queue has started but who has not entered its key's queue. There is a lemma for each
  operator (`KeyFreedOK`, `EnterKeyOK`, `GlobalDrain`, ...), and a step is their composition. That `Entering` is the function its
  recursion describes is shown for each number of started requests (`EnteringSteps`).
- Hypotheses: no stream is answered by an empty JSON body, since there the code loses a slot
  (run `gateway_slots_empty_json`); for `LimitsAreEnforced` also that no limit is
  changed, since a limit lowered under load is exceeded until enough slots are free.

`ServiceProofs`, the others (for every set of requests, targets, inserts, clients, logs, rows, moves, jobs and records;
any number of changes, patches, retries, failures, restarts and calls):

- `StoreInvariant`, `ProbesAreAccounted`: the types and `ProbesAccounted` (`OneProbe`, `EjectionHasProbe`)
  together are inductive. Each needs the other: a probe is started only when none is noted, which is safe
  only if the note is exact; and a failing probe leaves "idle" rather than "unprobed" because it was noted.
- `AuditInvariant`, `TurnsStayOrdered`. The turn number is read in one step and written in another. What keeps
  it true in between is the chain: every earlier turn of the client is settled, or stands before the
  last link of the chain (`Chained`), also after the map has dropped that link; so nobody of the same client writes
  while an insert holds a number it has read (`AtOK`).
- `LogInvariant`, `RowsStayInOrder` (an action property). The write in the worker's hand and the
  queue behind it are one line, in the order in which the writes were made and all ahead of the row
  (`LineOrdered`, `AheadOfRow`); a write not in it is done or was given up
  (`NothingForgotten`), which is what `drain` promises.
- `MoveInvariant`, `SwitchIsComplete`. Nothing locks the table that is copied: writers that began before
  maintenance still add rows, and a restart or another move may come at any await. The rows counted are a prefix of a table that only grows
  at its end, and a move has inserted that prefix up to its offset (`CopyGoesOn`). The proof needs neither the last
  check of the counts nor the refusal of a second move: they guard against what is outside of the property. Deletions are its
  hypothesis (`~disturbed`): the log clean-up makes the copy skip a row (section 5).
- `JobInvariant`, `CompletedArePublished`, `CancelledJobsStop` (an action property). The invariant has a part
  for each pair of variables that two actors write: the batch and the worker's place (`BatchFits`), the
  fragments and the items (`Gathered`), the end of a job (`EndFits`), a job that is being created
  (`NewFits`), and the flag of a cancel, which the code takes down in one place and which a worker
  that starts later must do without (`Stopped`). The hypothesis `OneCall` is one control call at a time:
  a cancel that overlaps a creation is lost (section 5), and so the properties fail for two.
- `StoredInvariant`, `ValuesAreKept`. For each way in which a column may be described, storing, moving and reading give back
  what was meant (`Keeps`, one lemma for each kind of column), for all numbers and instants. That every column of
  the 28 tables is described in one of these ways is `TablesAgree`: it has no constant in it, and TLC evaluates it in full in the run
  `back_office`; the theorem takes it from there.

`OutboundRequestProofs` (for all models, with any addresses and any of the refusals, all requests, routes, budgets and waits):

- `OutboundInvariant`, `ModelsAreMended`. What a number of mends makes of a body does not depend on their order
  (`MendedFields`), so the body that is sent is known from the set of codes planned for its model (`SentFields`). Two facts
  carry the invariant: what is planned is for something the model refuses and was not planned before (`PlanFits`), which bounds
  the requests by the four codes (`SendsBounded`) and gives what may differ from the request that was asked (`SentAsAsked`); and a
  model that can be satisfied has no complaint without a mend that is left (`ComplaintMended`), one case for each of the twelve
  complaints. The schemas need a lemma of their own (`SchemaTaken`): what `SanitizeGeminiSchema` returns is what Gemini takes, whatever
  the types, branches, enumerations and constants, except for one kind of schema, which the failing proof found (section 5). The
  proof also named the conditions in `Mendable` that the models of the run happen to fulfil.
- Hypothesis: `OutboundAssumption`, which types the constants and says that a client of OpenAI's dialect cannot name tools of
  Anthropic's servers.

`GatewayAttemptsProofs` (for every funnel, set of keys, budget and set of answers):

- `LoopInvariant`: the types and, for each place of the loop, what the answer at hand can be
  (`AnswerFits`); an attempt that is given back was taken before (`CountersOK`).
- `ErrorsComeLast`: an upstream's error on its way to the client comes from the last layer
  (`ErrorsAtTheEnd`). `ShownIsFinal` (an action property): where another fetch may follow, no word has
  been shown (`OutputFits`). Both without hypothesis.
- `BlamedKeysStayAway`: a rejected key is marked as tried, unless the loop has left the layer or
  the request is ending; without hypothesis. `KeysAreRotated`: the keys an answer was offered are noted with it, and
  have been tried when the error of a key goes to the client (`OffersFit`). `AllAreAsked` is all three. Their hypothesis
  `StreamErrorsRotate` leaves out streams that break with an error for which the code does not rotate (section 5).
- `EndsAreTrue`: a request that is left alone ends with what an upstream said, and its row agrees. The
  invariant `EndInv` pays for every cycle of continuity with a retry or a hop (`ReplyFits`), and keeps an attempt and a
  key in reserve wherever the loop goes on (`LoopGoesOn`). `Undisturbed` states the hypotheses. The one on
  numbers is `MaxEmpty + MaxReasoning + LastLayer <= MaxCycles + 1`: with the code's budgets (1, 3 and 5)
  it holds up to two layers. With three, and both budgets spent, the hop of a blank answer comes after the last cycle,
  and the row stays queued (section 5); the runs, which have two layers, do not reach this, and the proof
  found where the bound lies.

`AdministrationProofs` (for any providers, keys, models, users, groups, callers, lookups, names, turns, setups and databases; any
number of crashes, failures and saves):

- `CatalogInvariant`, `CatalogIsKept`. For each phase of the rebuild the invariant says in which of the tables the rows
  are (`RowsSomewhere`) and in which of the columns and the pool the keys are (`KeysSomewhere`); a crash changes
  the phase and nothing else.
- `AccountInvariant`, `AccountsStayConsistent`. A call is split at its statements, and between them the user it is about may be in
  no group or in two. The invariant says what each call still owes (`Belongs`, `KeysOf`), and that the calls that
  the code does not let overlap do not (`Exclusive`).
- `AliasInvariant`, `AliasesAreFresh`. A lookup reads, awaits and stores, and the alias may change in
  between. An entry ends a fixed time after its lookup *began*, and what the lookup read was true no
  earlier than that (`AliasTimes`), so an answer is never older than the code's minute.
- `GuardInvariant`, `GuardIsExact`, `GuardKeeps`. The guard decides on a buffer that is cut, the property is about the whole history:
  until a stop the buffer is all of it behind the user's message, or the end of it (`Mirrors`). One lemma for
  each pattern (`ErrorsMatch`, `PingPongMatches`, `CeilingMatches`, `AgeMatches`) says that buffer and history
  agree, and `Detects` that they name the same reason. The hypothesis is `FitsBuffer`: no pattern looks back further than the buffer, and
  a limit on the age comes with one on the turns. The defaults are such (5, 6, 400, and a buffer of 500 turns); the
  table of settings accepts others, for which the property fails (section 5). `StopsStay` (an action property) needs no hypothesis.
- `SetupInvariant`, `SetupIsKept`. Any setup may stop at any statement, with its file, its environment and half of its rows
  written. The invariant says, while setups do not overlap and the users can be counted, which setup is at work and how far
  it has come (`WorkFits`), what each phase of the process knows of the database (`PhaseFits`), and where what was answered
  ok for is (`FinishedFits`). It holds together because a setup at work means that none was answered ok: a server with an
  administrator does not look fresh (`Served`). That needs the database the server *loads* to be the one it is
  connected to, so the invariant follows the environment a setup leaves behind. The assumption
  `SetupAssumption` says that files, databases, names and calls are told apart from what stands for nothing.
- `ModelInvariant`, `SettingsAreKept`. A refresh reads the rows, waits for the provider, and deletes later by what it has read. The
  property alone is not inductive: it needs that a model whose settings are kept is not `Doomed`, that is, in nobody's list of rows
  to delete, which a call takes up only when it sees no settings and a save after that leaves the model out of `kept`. The
  proof needs the finiteness of `Models` for the ids of new rows and nothing on how many calls overlap.

`RoutingProofs` (for every route, request, size, window, budget, host and path):

- `RouteInvariant`, `ImagesAreSeen`, `ImagesGoToVision`. A request is moved by its class, its size, its images, errors and full queues, and
  none of these moves knows the others. The invariant says what they keep between them until a blank answer comes: only a move for the size puts
  images on the chain of long contexts (`Seen`), and any other stands on the model for images of its layer, with every model for images on
  the layers before it asked or too small (`PassedBy`). One lemma for each kind of move (`LargerTarget`, `FallbackPasses`,
  `GuardStep`, ...) shows that it steps over no such model. `ImagesAreSeen` is without hypothesis. `ImagesGoToVision` has `RulesHold`:
  a layer with a model for images is switched on and the model is valid. On a layer that is switched off the choice by class
  leaves a request with images on the layer's own model, and an error before the guard moves it on without having offered it to
  the model for images. `MaxBlanks # 0` is the code's 1; with 0 the first blank answer would be a hop that counts as none.
- `TableInvariant`, `RoutesAreServed`, without hypothesis. A call compares its hosts with the other routes in its first
  statement and writes its row several awaits later. The invariant carries the comparison over the gap (`SaveFits`, `Separate`), so that
  checked routes share no host on a path (`KeysUnique`): what is written without a comparison is either not active
  (a placeholder), on a path that had no route (`POST` of an endpoint), or counted as unchecked. The other half is that a
  host which a route needs keeps its row (`RowsThere`), through clean-ups, deletions of other routes and stops between any two
  statements; an administrator who takes it away is the exception `withdrawn` names. A request that a route has served since it
  came then finds that route and no other checked one (`OneRoute`, `RequestFits`). The ids of new rows need not be fresh for this.
- `ClassTheorem`, for every text, whatever its clauses, mentions, bugs, blocks and utterances are, and every order of moves.
  `ClassFounded` says of one text what the class "debug" rests on, and how the three ways of reading it (with images, as an
  intent, below the floor) differ: only where the text speaks of an image or is long. The step from there to a request on
  its way is `Standing`: the class an attempt carries and the class it was last judged by are both such as the text can
  have, so inheriting it on another layer and reading it again there cannot disagree. Hypothesis: `IncomingAssumption`, the types
  of what is counted.

- `OverlayInvariant`, `OverlayIsKept`, for any proposals, words, rules, calls and pages. No call is a transaction, so each part of the
  property needs to know what a call under way has in hand. `SnapshotFits`: the answer a call has read is still the newest version, as long as it
  has met no other. `MarksFit`: what is about to be marked as applied is in a version. `TurnsFit`: while calls come one after the
  other, what stands as validated was judged together (`Settled`), and the one call under way differs from that by what it has done so far (`BatchFits`).
  `TimesFit`: whatever was read, is kept or is shown was in force at the time noted with it, or later. `VersionsMerged` ties the weights
  of a version to its proposals. That the weights are whole numbers (the types of `OverlayTypeOK`) is left to TLC: a sum over a
  set is a fold, and the proof would be an induction over it. Nothing else in the proof needs it.
- `ScheduleInvariant`, `ControlIsKept`. `ScheduleFits` says what the one call at work knows (`SchedulerFits`): from its stop to its end
  there is no task, what it has read of the settings is what they say, and nothing schedules in maintenance.

`EntryProofs` (for any keys, users, groups, addresses, rules, limits, tables, schedules, weights, rolls and choices; any number
of requests, calls and changes at a time):

- `EntryInvariant`, `EntriesAreJudged` with its parts `ServedOnlyAsAllowed`, `RefusedOnlyWithCause`, `LimitIsFounded`, without hypothesis. The rows may change between any two
  statements of a request, so nothing can be said of the rows as they are. `RequestOK` therefore speaks of the request alone: what it was judged by
  is in `ever`, what it was not granted is not in `always`. `Outlives` says that this survives every statement of
  anybody, as the one set only grows and the other only shrinks; each step of the request then has to add what it read itself (`HoldsNow`,
  `JudgedStep`). The block lists need `CacheRight`: a list that was compiled is the one of its text, which is why a cache over all routes is
  sound.
- `ChoiceInvariant`, `ModelsAreChosen` with its parts `ChoicesStand`, `PairsConfigured`, `FirstLayersWeighted`, `SchedulesInForce`, `ChoicesOfOneKind`, without
  hypothesis. `ChoiceInv` says of a request what its start has made of the table it read (`StartPart`: schedule, layer, pair) and what
  the user's choice has made of that (`TablePart`: one clause for each kind of choice, with the flags it cleared), and of the rows on their
  way to the database that they hold one choice (`OneKind`, from `Normalized`). The operators have lemmas of their own: `TwoDaysSuffice` (a
  window on any day that holds a moment is one of today's or yesterday's, as no window is longer than two days), `FirstDueFound`, `FirstLayerRight` (the layer drawn
  has a weight, whatever the sums), `InitialPairRight`, `ClientsPairRight` (what is asked for a named model), `DecidesRight`.

The assumptions are the named `ASSUME`s of the modules, which TLC evaluates in each run.

Only model-checked:

- all liveness (`EveryRequestEnds`, `Terminates`, `JobsFinish`, ...): TLAPS as used here has no
  support for liveness under fairness or for `ENABLED`;
- what is defined by recursion over data: the translations of streams, of bodies and of answers
  (`MessageWhole`, `ConversationKept`, `AnswerKept`, `RetriesUnseen`), as the provers cannot instantiate the
  induction theorems of the library. Over numbers, where one counterexample less is enough, `LeastNumber` takes
  their place;
- `SchemaKept`, a fold over the list of migrations transcribed from the code, where
  the instance is the code's own list and TLC's enumeration of the versions is complete.

## 5. Where the code disagrees with what is said of it

Shown by a run (the counterexample is the evidence):

1. `gateway_slots_empty_json`: an empty JSON answer to a streaming request is
   wrapped as a stream and holds all slots; the retry (GE:2137) releases them and
   goes on inside the same tasks. The retried attempt runs without global and key
   slots, and a later stream releases a second time.
2. `column_lost`: migration 0000 makes the legacy key columns also in a new SQLite database, so the
   table `providers` is rebuilt after the SQL migrations, from a list of columns that lacks two of those
   they had just added (`bootstrap.ts:88`). One is added again later, `streamTimeoutMs` is not: inserts of a
   provider fail. `SchemaKept` excepts this column.
3. `setup_secret_lost`: the wizard keeps the secret it is given in the environment of the process
   only (`services/setup.ts:264`); after a restart the keys stored with it cannot be read.
4. `message_shown_raw`: a JSON body in the shape of an Anthropic message, which answers a streaming
   chat client, is coerced before it is wrapped (`upstream.ts:593`), but wrapped again from the body as
   it came (GE:115): the client is shown the JSON of the message as its text.
Met while modelling, without a run of their own; the passing runs exclude them by
their instance or a stated exception.

*The attempt loop*

- A client that leaves while its attempt waits for the provider's queue still causes a
  fetch (GE:1795), against `routes/gateway/clientClosed.ts:147`.
- A refusal made by the gateway on a streaming request is logged as failed, then
  overwritten as success (GE:2886), against rule 4 of `src/docs/request-log-lifecycle.md`.
  `LogAgrees`, a part of `EndIsTrue`, is checked without such refusals.
- A hop to a provider that was disabled meanwhile ends without an answer (GE:825),
  and `lastUpstreamError` may be forwarded again after its stream was consumed when
  the other keys vanish (GE:1343). `NoInternalError`, the other part, is checked without
  `KeyLost` and `DisableProvider`.
- Once the capacity budget of a model is spent, a 429 no longer rotates keys
  (`gatewayExecutorUtils.ts:125`; a test asserts it); `KeysTriedFirst`, a part of `AllAsked`, says so.
- With the default adapter an authentication error inside a stream has class
  "unknown" and the key is not rotated (GE:2650); the runs use the OpenRouter
  classification.
- A hop in the last allowed continuity cycle leaves the log row queued (GE:2842); it
  takes three layers and the full budgets. A cache hit after a hop leaves the row of
  the first layer queued (`cache.ts:61`).
- `finalizeGatewayTerminalFailure` closes the reply before it finalizes the log, against
  rule 5 of `src/docs/request-log-lifecycle.md`.
- The abort listeners are taken off after the first continuity cycle (GE:2966), so a
  later disconnect does not abort a fetch. In the model a disconnect is only seen
  by the checks.
- `src/README.md:212` calls fallback single-level; the code cascades through the funnel.
- The once-per-conversation prompt policy notes its conversation before the fetch and is
  applied inside the attempt loop (`payload.ts:309`, GE:1545): a retry or a fallback of the
  first request finds the note and is sent without the policy, and two overlapping
  first requests are both given it (`src/docs/verification.md`, section 3).

*Strategy routing*

- There is an endless way: a vision model refuses a cut request as too long, the
  long-context chain is entered, all of it is busy, and the choice for images offers the
  vision model again (`checkConcurrencyFallback` passes no failed models), which
  refuses again. GE:203 speaks of a "Hard limit on total engine loops per request"; these hops
  do not count as loops, nor does a blank hop of a JSON answer (GE:2129).
  `RoutingEnds` therefore rests on `MaxBusy`.
- After a long-context move the Vision Guard is off (GE:1676) and a blank answer brings
  the uncut body with its images back to a text model, against `degradePolicy.ts:6` and
  `emptyOutputLayerHop.ts:48`. `ImagesSeen` excepts it.
- The flag that the context was compressed survives a blank hop that restores the
  uncompressed body; after such a hop a quota no longer clips (`inputTokenLimitGuard.ts:31`
  against `degradePolicy.ts:4`); a blank hop skips vision models not yet tried; with a single
  attempt it leaves attemptCount at -1.
- The branch "protocol_error" (`strategyRouting.ts:444`) is never reached: its option is set only together with
  `skipAgentic`, whose markers include its own and are looked for first.
- `skipDebugTheme` (`strategyRouting.ts:743`) has no effect: no live failure is left where it is read, so words
  that name a failure never count.
- A fallback that has no class reads a tool's continuation as it would a fresh request
  (`strategyRouting.ts:1635`): its markers make it "code". The class "vision" is inherited there after the images were cut.

*Outbound requests* (`Mendable` says which of them it excepts)

- The mend "disable_thinking" is one code for two rewrites. Planned first for a refusal of thinking, it does
  not strip the reasoning of the history, and "reasoning_content must be passed back", said next, finds
  the code used: the model is left (`providerConstraintRecovery.ts:222`).
- The mend writes four switches at once, `enable_thinking` among them; a model that does not know one of them
  refuses the mend, which is not taken back.
- On a body in Anthropic's dialect "relax" writes the text "auto", which that dialect does not take, and `$ref`
  in the results of tools is not looked for. On Google's own body no mend has an effect: one identical
  request is repeated before the model is left.
- GE:1503 and `bypassProtocolAdaptation` say that Anthropic payloads go to OpenRouter as they are; the
  dialect is cut down first all the same (`anthropicOutboundProfile.ts:175`).
- A provider whose Anthropic address is taken away after its route was saved, and whose OpenAI address no
  adapter owns, is replaced by api.anthropic.com, with the provider's key (GE:1457). With Google's own
  address in its place a body in Anthropic's dialect reaches the conversion for Google; the instance has no such
  provider.
- The switch by which an Anthropic client turns thinking off is lost when its request is converted.

*Choice of provider and model*

- The model a user has fixed is looked up with the provider of the route's first layer, but only the
  model of the attempt is replaced (`routes/gateway/authorization.ts:252`): a classic route that begins at its second layer asks that
  layer's provider for it. `ChoiceStands` therefore speaks of the model, and `PairConfigured` of the provider.
- The rules a user has stored replace those of the route (`authorization.ts:241`), which are not looked at
  when the route has layers (`services/strategyRouting.ts` 1217-1221), and every route saved by the API has.
- A legacy row, which the gateway treats as classic, is still decided by the rules its
  layer has kept (`strategyRouting.ts:1225` asks for the flag, not for the mode), against `src/docs/classic-routing-spec.md:44`.

*The database*

- A failed statement of the key migration is logged, the start goes on and the next step drops the
  columns that still hold the keys (`bootstrap.ts:269`, `db/index.ts:341`); `CatalogKept` excepts it.
- SQLite databases with 1 to 29 migrations never start: columns ensured early make 0026 and 0030 fail as
  duplicates, or the records seeded make the migrator skip 0019 and 0022, so that 0028 fails. This is against
  the comment at `startup/migrations.ts` 706. A second instance counts records of migrations, and seeded ones
  have other hashes, so the count may be up to 4 too high. 0019 is dated before 0017 and 0018, and 0036 is
  not in the journal.
- A move takes numbers above 10^10 for milliseconds: an expiry after the year 2286 becomes one of 1978. 0025
  stores the times of provider keys in milliseconds, which SQLite reads as the year 57000 until a move
  corrects them. Integers beyond 32 bits, which `hourlyTokenLimit` may have, make a move fail.
- On PostgreSQL some raw SQL fails, as camelCase columns are not quoted: the sum for an hourly limit
  (GE:1267), the queries of `analyticsQueryBuilder`, the use of `strftime` in `analyticsService`. The text of
  queries is not modelled.

*Streams*

- After a cutoff by length the forwarder no longer writes (SF:1502) but reports the end of
  an error event nobody wrote as told (SF:1333). `OneMessage` fails with
  `FailAfterCutoff = TRUE`.
- Arguments of a call that is continued after text, or after another call, are lost in
  both adapters (SF:1404, against the comment at SF:1114). `NothingLost` fails with
  `Interleaving = TRUE`. In a continued OpenAI round, text after a call becomes part of
  the call's arguments (SF 808-821).
- Usage may be sent twice in a continued OpenAI reply; usage on a length chunk that
  carries text is dropped although it counts as forwarded; a withheld finish chunk with
  usage is replayed, so that two finish reasons are sent.
- A failure after a withheld reasoning-only round of a Responses client is written
  without the state of the stream: new response id, event numbers from 0. Completed output
  items are in the order of their ends, output_text is that of the last message only.
- The native Anthropic passthrough, which is not modelled, uses block index 0 again after a
  round of thinking only.

*Services*

- The session queue, the ejection: a record of a target that is no longer L0 is never
  probed; the admin page shows the route as ejected until the process restarts
  (`timeoutEject.ts:105`). Probes bypass the concurrency queues. With no further layer a
  skipped request fails at once.
- Audit: a turn of another client merged into a conversation makes later turn numbers
  repeat; the message of PostgreSQL for a duplicate is not recognised by the test for
  "UNIQUE constraint".
- Request log: a write that fails twice is dropped although the comment
  (`requestLogService.ts` 54-56) says none is; after a dropped insert its patches have no row;
  `flushRequestLogQueue` has no caller at shutdown.
- Database move: two calls that start a move both pass the check of progress
  (`routes/settings.ts:498`, which is set only after the drain), and the first to fail ends
  maintenance while the other still copies (`routes/settings.ts:517`). The drain counts its
  own request and so waits its full 60 s. "idempotent multi-row INSERT"
  (`db/copy/pipeline.ts:76`) is a plain insert: after a partial copy a retry fails. Clean-up
  during the copy makes it skip a row, and the verification compares what was
  copied with what arrived. Writes after the count, or between the end of
  maintenance and the restart, are lost at the switch. The flag row survives a crash.

*Start and administration*

- A crash between dropping `providers` and renaming its copy: no later start succeeds. The
  rows are kept (`CatalogKept`), in the copy. The rebuilt table has no columns
  hourlyTokenLimit and streamTimeoutMs.
- A group deleted while a user is put into it leaves an orphan membership
  (`groups.ts:224`). Two overlapping creations leave two keys unrevoked, and an
  administrator's change of status may overwrite a revocation. Two overlapping registrations
  count one use of an invite code. A crash between the insert of a user and of the
  membership leaves the user in no group.
- Loop guard: the two inspections of a hop count a turn twice ("repeated 5 times",
  `loopGuard/inspect.ts:26`); with the ceiling off the age limit is lost once the buffer of
  500 drops the user's message, and ceilings above 501 (the buffer and the turn at hand) never trip; a turn seen while
  the guard is unavailable is not noted as the user's.
- Routes. An update cleans up the first host a route had, not the others it no longer has; the row left
  over is one more sibling, and two siblings stand for no third host (`routes/gateway/routing.ts:95`).
  Deleting a host deletes the routes that have it first and leaves those that have it later, whose
  requests are then refused when unknown hosts are. POST and PATCH of a single route, and POST of an
  endpoint, compare no keys; the routes they leave behind, and the placeholders of a new host,
  make `createAdminRoute` refuse the same key. `saveRouteAuthorizations` deletes before it
  inserts: users are refused in between, and for good after a crash. `allowFallback` is not read by
  `resolveEndpointAndRoute`. Two overlapping creations both pass the comparison, and a clean-up may
  delete a host row between another call's find-or-create and its insert. `RouteServed` is
  checked for one administrator and excepts hosts that were withdrawn.
- Models. The alias and the tokenizer are not among the settings that keep a row
  (`providerModelController.ts:193`): a refresh deletes them with the row. It also deletes manual models
  nobody configured, which come back at the next start only. A refresh beside the deletion of
  the provider leaves rows without a provider; two refreshes of a new model fail on the unique key,
  and the second then reports the failure of a test. Bulk updates clear the alias cache before
  they commit, and a deletion does not clear it: the old alias may stay for its minute.
- Setup. `completeSetup` checks for a fresh installation and then awaits, so two
  overlapping completions both pass and write into each other's database (`SetupKept` is claimed for
  setups that do not overlap). A failure after the insert of the administrator leaves the process
  pending but not fresh: the wizard is refused and the gateway closed until a restart; a crash there
  loses the main domain. A saved PostgreSQL that cannot be reached ends every later start.
  `DATABASE_URL` of a failed attempt stays in the environment. A failed count of the users reads as
  a fresh server.

*Distillation*

- Pause, resume and pause again while one item is analysed: the worker chained by the resume
  runs the paused job (`worker.ts:64`, against
  `src/apps/server/tests/distillationControls.test.ts:409`).
- Two control calls on one job: a cancel between the insert of the job
  and of its items finds no worker and is lost. A cancel while the worker writes
  "paused" leaves the job paused, and it can be resumed without its fragments. Also, a
  cancelled job whose batch is still in flight may be joined by a new job, and its
  worker then sets it running again, so that two jobs are active, against
  `src/apps/server/tests/distillationControls.test.ts:69`.
- A restart leaves a distillation job "running" with no worker.
- Two changes of the versions that overlap: both are left active (each deactivates before either inserts, `jobService.ts` 216-261), and
  the older of their two answers may be stored last, so that requests are classed by a version that is no longer in force, until the next change.
- A call of validation may put a proposal that was applied meanwhile back to validated. Proposals that were judged in two validations are
  applied together without being judged again: 4 and 4 come to 8, beyond `MAX_WEIGHT_DELTA`; what was judged together may be applied
  in part. `WeightsBounded` is claimed for one validation before an apply.
- A version replaces the one before it; what that one added is gone. Routing reads of a version the weights only, never its boundary rules.
- Only the instance that applied reads its snapshot again; with several (`NODE_APP_INSTANCE`, `index.ts:340`) the others go on with the
  version of their start. The model is one process.
- Calls that schedule and overlap (a `PATCH`, the start, the end of maintenance) leave a cron task that nobody can stop before a restart, or one
  that runs in maintenance (`scheduler.ts` 17-40: the task is stopped, then the settings are awaited). `ScheduleKept` is claimed where they do
  not. A `PATCH` that inserts a key another has just inserted fails, and does not schedule what it has written.
- The version of a published skill never exceeds 2 (`worker.ts` 288-295).

*Bodies of requests*

- After an answer of thoughts only the gateway adds them and a demand to go on
  (`ReasoningExhaustionStrategy.ts:76`). The cut takes that demand for the newest turn, and
  what the client asked last is dropped whole, against "drops older conversation turns
  first" (`src/README.md:176`). `ConversationSent` excepts it.
- `inputTokenLimitGuard.ts:86`: when the fixed parts alone exceed the limit the error is
  logged and the uncut request sent, against "the request is rejected with a structured
  gateway error" (`src/README.md:177`).
- The retry after a blank answer hands out `originalBody` itself
  (`EmptyOutputStrategy.ts:152`), and later cuts shorten the copy that retries go back to.
- The policy (`payload.ts` 323-392): "messages_unshift" on an Anthropic upstream puts it
  nowhere and still notes the conversation; "system" goes before the client's instructions on
  an OpenAI upstream and replaces them on an Anthropic one; "replace_system" for an Anthropic
  client on an OpenAI upstream leaves the top-level `system`; appending to a system message
  whose content is a list yields "[object Object]".
- RA around 430: an assistant message between a call and its output becomes a message of its
  own, so that the result no longer follows its call; the comment speaks of merging.
- PA: a message with nothing but a document is dropped, and so is a call beside a
  result; `tool_choice` is kept when all tools are dropped.
- The OpenRouter adapter refuses a history with server tools
  (`providerAdapters/openRouterAdapter.ts` 400-446), but their types have been stripped before it
  is asked (GE 1585-1603): it never sees one.
- A schema of a tool that has `items` and `format: "date-time"` but no type becomes an array that keeps the format
  (`geminiSchema.ts` 103-143: the format is looked at before the items tell the type), which Gemini refuses.

*Bodies of answers* (`Told`, `Illegible` and `Refused`, by which `AnswerKept` judges, say what of this it excepts)

- A JSON answer with text and tool calls that is wrapped as a stream of chunks loses its text;
  with thoughts only, the thoughts are shown as text.
- An Anthropic client is not told the thoughts of a chat completion, nor that the model
  refused (`stop_sequence`); a Responses client is told of a refusal as of a completed response.
- A body in the shape of an Anthropic message, from an upstream that is not Anthropic, answers a request
  without stream: an Anthropic client gets its blocks, but the reason is looked for in `choices` (`upstream.ts`
  686-712), so that a message that asks for tools or was cut is said to have met a stop sequence; a chat
  client gets the body as it came, without choices (745-748); a Responses client gets its text
  only, as a completed response without the calls (RA 719-748).
- Such a body, coerced for a stream, asks for tools whenever it has calls, also when it was cut (`upstream.ts` 810-814).
- An Anthropic client's request without stream fails when the arguments of a call in a chat completion are no
  JSON, which is what a cut answer has: `JSON.parse` throws (`upstream.ts:696`), the whole answer is lost, and the
  executor treats it as a failed attempt (GE 1930-1975).
- Thoughts in `<think>` tags stay in the text of an answer without stream.
- A wrapped message ignores what a continued reply has shown before and repeats it
  (`upstream.ts` 897-960 write the blocks, not the shortened text).
- Google: a cut answer with tool calls is reported as a call of tools; once there was a call, every
  later chunk carries a finish reason; a chunk with usage and no reason counts as the end, which then
  has no reason; a stream that breaks off without a reason ends with "stop".
- A JSON body with an error and status 200 that answers a request without stream is passed on as a
  success, to an Anthropic client as an empty message.
- A hit of the response cache answers an Anthropic client with a chat completion
  (`cache.ts:151`). The cache is asked by a hash of the last turn's text alone, so an answer given
  in one conversation, by one model, serves the same words in another.
- The observer does not record Anthropic's thinking deltas.

## 6. What is not modelled, and why

The components with no module are listed in `PROJECT.json` with the reason: they are
transformations of data whose values the properties here do not distinguish
(parameters, tokenizer), single-row administration, read-only queries, or user interface.
Within the modelled parts, left out are:

- *attempt loop*: delegation of tools, stitching of a loop-truncated answer, the input-size
  chain (which is in `StrategyRoute` for strategy routes);
- *strategy routes*: best effort, legacy routes without targets, disabled providers,
  rotation of keys (in `GatewayAttempts`);
- *class of a request*: what a pattern matches (a text has a sign or has not; signs that exclude each
  other may come together, which only adds texts), the words with their weights and the overlay that changes them (a score is
  an input), the cut to 8000 characters, the first analyses that `strategyRouteUtterances.ts` still exports and nobody calls;
- *streams*: upstreams that speak Anthropic or Responses natively, keep-alive comments,
  the counting of tokens, disconnects (in `GatewayAttempts`). The upstream of the passing
  run conforms: nothing after the finish reason but usage, the first delta of a call has its
  id and name, a delta continues the latest call with no text between;
- *whole answers*: what an adapter changes in a body (`transformNonStreamResponse`, which only
  Google's adapter has, for Gemma's thoughts), errors with status 200 without stream (section 5), bodies with both
  choices and the blocks of a message;
- *request bodies*: the count of tokens (a cut may come anywhere), documents, system messages
  whose content is a list, an assistant message between a call and its output (section 5 has
  what becomes of the last three), images fetched or turned into text;
- *outbound requests*: refusals whose body cannot be parsed, rate limits and rejected keys (in
  `GatewayAttempts`), images, the parameters every upstream takes, environment switches
  (`GOOGLE_NATIVE_ADAPTER`), a schema's nesting (each schema is sanitized alone, and `sanitizeGeminiSchema`
  calls itself on each);
- *database*: the text of queries, indices, the unique and not-null constraints, which both schemas state
  alike; the connection proxies;
- *services*: matching of conversations by their text, columns and live events of the
  request log, crons; the server is one
  process, as in the code;
- *distillation*: the counters, the analyzer, the skill packages and their export, the other settings; statements of the control calls
  that fail; what a proposal says but for its weights and patterns;
- *endpoints*: `PATCH` of an endpoint (`routes/endpoints.ts` 224-278), which rewrites one row.
