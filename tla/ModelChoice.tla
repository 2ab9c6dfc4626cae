---------------------------- MODULE ModelChoice ----------------------------
(***************************************************************************)
(* Which provider and model a request is first sent to (routing.ts 332-351,      *)
(* authorization.ts 146-282), and how a user comes to have a say in it             *)
(* (userRouteController.ts).                                                  *)
(*                                                                         *)
(* A route has a table of layers.  The model a client names may select another    *)
(* table, a profile; else a schedule may replace the table for some hours.  A      *)
(* classic route begins at a layer drawn by weight, the others at the first.       *)
(* Where the table allows it, the choice the user has stored moves the request:    *)
(* to the model the client names, to a fixed model, or to rules of the user's own. *)
(* What strategyRouting.ts then makes of the rules is StrategyRoute's subject; here *)
(* it may take any rule that is on, or none.                                    *)
(***************************************************************************)
EXTENDS Integers, Sequences, FiniteSets

CONSTANTS
    Providers, Models, NoModel,
    Cases,             \* rows of endpoint_routes an administrator may save
    Wants,             \* bodies of PUT /api/user/routes/:id/override
    Offers,            \* sets of rows of provider_models, as <<provider, model>>
    Callers, Savers,   \* requests and calls of the user, at a time
    DailyStart,        \* analyticsStartOfDay
    Times,             \* moments, in minutes since a Sunday began
    Rolls,             \* what 100 * Math.random() may be, rounded down
    NoRow, NoSchedule,
    MaxEdits, MaxSaves, MaxAsks     \* bounds

Day == 1440

\* A rule of a layer, a layer, a schedule.  Two rules of a layer have two tasks, as
\* parseStrategyRoutingRules leaves them.
Tasks == {"general", "other"}
RuleRecords == [task : Tasks, provider : Providers, model : Models, on : BOOLEAN]
RuleLists == {rules \in Seq(RuleRecords) :
                 \A i, j \in DOMAIN rules : rules[i].task = rules[j].task => i = j}
Layers == [provider : Providers, model : Models, weight : -1..100, strategy : BOOLEAN,
           rules : RuleLists]
Schedules == [days : SUBSET (0..6), start : 0..(Day - 1), end : 0..(Day - 1), next : BOOLEAN,
              daily : BOOLEAN, provider : Providers, model : Models, layers : Seq(Layers),
              allow : BOOLEAN]
Profiles == [name : Models, mode : {"classic", "strategy"}, layers : Seq(Layers) \ {<<>>}]
Modes == {"classic", "strategy", "opc_agent"}
Rows == [mode : Modes, provider : Providers, model : Models, layers : Seq(Layers),
         strategy : BOOLEAN, rules : RuleLists, allow : BOOLEAN, profiles : Seq(Profiles),
         schedules : Seq(Schedules)]

ASSUME ChoiceAssumption ==
    /\ NoModel \notin Models /\ NoSchedule \notin Schedules
    /\ DailyStart \in 0..(Day - 1) /\ Times \subseteq Nat /\ Rolls \subseteq 0..99
    /\ Cases \subseteq Rows
    /\ Offers \subseteq SUBSET (Providers \X Models)
    /\ Wants # {}
    /\ Wants \subseteq [client : BOOLEAN, model : Models \cup {NoModel}, rules : RuleLists]
    /\ NoRow \notin [id : Nat, client : BOOLEAN, model : Models \cup {NoModel}, rules : RuleLists]

VARIABLES
    route,       \* the row of the route
    listed,     \* rows of provider_models
    now,         \* the clock
    row,         \* the user's row of user_route_overrides for the route, or NoRow
    savers,      \* calls that store a choice
    callers,     \* requests
    edits, saves, asks

choiceVars == <<route, listed, now, row, savers, callers, edits, saves, asks>>

StoredChoices == [id : Nat, client : BOOLEAN, model : Models \cup {NoModel}, rules : RuleLists]

-----------------------------------------------------------------------------
(* Schedules (utils/scheduleEvaluator.ts).                                     *)

EndOf(s) == IF s.daily THEN DailyStart ELSE s.end
EndsNextDay(s) == s.daily \/ s.next

\* The window of a schedule that begins on day d holds t.
Holds(s, d, t) ==
    /\ d % 7 \in s.days
    /\ d * Day + s.start <= t
    /\ t < (IF EndsNextDay(s) THEN d + 1 ELSE d) * Day + EndOf(s)

\* Mutant: only the windows that begin today are tried.
HoldsToday(s, t) == Holds(s, t \div Day, t)

\* The candidate days of findActiveSchedule: yesterday and today.
InWindow(s, t) == \E offset \in {-1, 0} : Holds(s, t \div Day + offset, t)

Active(list, t) == {i \in DOMAIN list : InWindow(list[i], t)}
Least(set) == CHOOSE i \in set : \A j \in set : i <= j
Largest(set) == CHOOSE i \in set : \A j \in set : j <= i

FindActiveSchedule(list, t) ==
    IF Active(list, t) = {} THEN NoSchedule ELSE list[Least(Active(list, t))]

PlainLayer(provider, model) ==
    [provider |-> provider, model |-> model, weight |-> -1, strategy |-> FALSE, rules |-> <<>>]

\* resolveActiveRouteProperties: a schedule without a table of its own is one layer.  Mode and
\* rules stay the route's.
ResolveActiveRouteProperties(table, s) ==
    IF s = NoSchedule THEN table
    ELSE [table EXCEPT
             !.layers = IF s.layers = <<>> THEN <<PlainLayer(s.provider, s.model)>> ELSE s.layers,
             !.provider = s.provider, !.model = s.model, !.allow = s.allow, !.strategy = FALSE]

\* applyRouteModelProfile: the model named has been used up to select the table, so that
\* neither a schedule nor a stored choice is looked at.
ApplyRouteModelProfile(table, asked) ==
    LET named == {i \in DOMAIN table.profiles : table.profiles[i].name = asked} IN
    IF named = {} THEN table
    ELSE LET p == table.profiles[Least(named)] IN
         [table EXCEPT !.mode = p.mode, !.layers = p.layers, !.provider = p.layers[1].provider,
                       !.model = p.layers[1].model, !.strategy = FALSE, !.rules = <<>>,
                       !.allow = FALSE, !.schedules = <<>>]

-----------------------------------------------------------------------------
(* The first layer (services/opcAgentRouting.ts).                              *)

IsClassic(table) == table.mode \in {"classic", "opc_agent"}

\* normalizeClassicTargetWeight: tens count; a layer without one has all if it is the first.
Weight(table, i) ==
    LET w == table.layers[i].weight IN
    IF w >= 0 /\ w % 10 = 0 THEN w ELSE IF i = 1 THEN 100 ELSE 0

Positive(table) == {i \in DOMAIN table.layers : Weight(table, i) > 0}

\* The weights up to each layer.
Cumulative(table) ==
    LET sum[i \in 0..Len(table.layers)] == IF i = 0 THEN 0 ELSE sum[i - 1] + Weight(table, i)
    IN  sum

\* Mutant: a roll beyond the weights begins at the first layer.
FirstOfAll(table) == 1

\* Where the weights do not add up to 100, the last layer with one takes the rest.
BeyondWeights(table) == IF Positive(table) = {} THEN 1 ELSE Largest(Positive(table))

SelectClassicInitialTargetIndex(table, roll) ==
    LET sum == Cumulative(table)
        reached == {i \in Positive(table) : sum[i] >= 100 \/ roll < sum[i]} IN
    IF Len(table.layers) <= 1 \/ Weight(table, 1) >= 100 THEN 1
    ELSE IF reached = {} THEN BeyondWeights(table)
    ELSE Least(reached)

Pair(x) == <<x.provider, x.model>>
GeneralRules(rules) == {i \in DOMAIN rules : rules[i].task = "general"}

\* Mutant: the seed takes the model of a rule and stays with the layer's provider.
SeedsModelOnly(layer) ==
    IF layer.rules = <<>> THEN Pair(layer) ELSE <<layer.provider, layer.rules[1].model>>

\* seedModelFromLegacyTarget: the general rule of a legacy matrix, on or off, else its first.
SeedModelFromLegacyTarget(layer) ==
    IF GeneralRules(layer.rules) # {}
    THEN Pair(layer.rules[CHOOSE i \in GeneralRules(layer.rules) : TRUE])
    ELSE IF layer.rules # <<>> THEN Pair(layer.rules[1]) ELSE Pair(layer)

\* createInitialAttemptState
InitialLayer(table, roll) ==
    IF IsClassic(table) THEN SelectClassicInitialTargetIndex(table, roll) ELSE 1

InitialPair(table, layer) ==
    IF table.layers = <<>> THEN Pair(table)
    ELSE IF IsClassic(table) THEN SeedModelFromLegacyTarget(table.layers[layer])
    ELSE Pair(table.layers[layer])

-----------------------------------------------------------------------------
(* The model the client names (services/clientModelOverride.ts).               *)

\* extractL0Config
L0Base(table) == IF table.layers = <<>> THEN Pair(table) ELSE Pair(table.layers[1])
L0Rules(table) == IF table.layers = <<>> THEN table.rules ELSE table.layers[1].rules

\* resolveClientModelAgainstL0: rules that are on, then the layer itself; who names none of
\* their models gets the general rule, else the layer.
ResolveClientModelAgainstL0(table, asked) ==
    LET rules == L0Rules(table)
        hits == {i \in DOMAIN rules : rules[i].on /\ rules[i].model = asked}
        general == {i \in GeneralRules(rules) : rules[i].on} IN
    IF hits # {} THEN Pair(rules[Least(hits)])
    ELSE IF L0Base(table)[2] = asked THEN L0Base(table)
    ELSE IF general # {} THEN Pair(rules[Least(general)]) ELSE L0Base(table)

\* Mutant: the flag of the route is cleared, the one of its first layer forgotten.
RouteFlagOff(table) == [table EXCEPT !.strategy = FALSE]

\* No rule may move the request from the first layer any more.
StrategyOff(table) ==
    IF table.layers = <<>> THEN [table EXCEPT !.strategy = FALSE]
    ELSE [table EXCEPT !.strategy = FALSE, !.layers[1].strategy = FALSE]

\* The flag and the rules resolveStrategyRoutingDecision goes by: those of the layer, whatever
\* the route's.
LayerStrategy(table, layer) ==
    IF layer \in DOMAIN table.layers THEN table.layers[layer].strategy ELSE table.strategy
LayerRules(table, layer) ==
    IF layer \in DOMAIN table.layers THEN table.layers[layer].rules ELSE table.rules

-----------------------------------------------------------------------------
(* State.                                                                    *)

\* A request: the table it goes by, the one it read (as history), the roll of its start, and
\* whose choice it has taken, if any.
CallerRecords ==
    [at : {"idle", "read", "started", "fixed", "decide", "asked"}, named : Models \cup {NoModel},
     table : Rows, source : Rows, schedule : Schedules \cup {NoSchedule}, when : Nat, layer : Nat,
     pair : Providers \X Models, by : {"nobody", "client", "fixed", "rules"},
     choice : StoredChoices \cup {NoRow}, seen : SUBSET (Providers \X Models)]

SaverRecords ==
    [at : {"idle", "judge", "delete", "check", "find", "write"}, given : Wants, want : StoredChoices,
     table : Rows, found : {-1} \cup Nat]

\* normalizeUserRouteOverridePayload: client before rules before a fixed model.
NormalizeUserRouteOverridePayload(want) ==
    IF want.client THEN [id |-> 0, client |-> TRUE, model |-> NoModel, rules |-> <<>>]
    ELSE IF want.rules # <<>>
    THEN [id |-> 0, client |-> FALSE, model |-> NoModel, rules |-> want.rules]
    ELSE [id |-> 0, client |-> FALSE, model |-> want.model, rules |-> <<>>]

IsDefault(choice) == ~choice.client /\ choice.rules = <<>> /\ choice.model = NoModel

NoChoice == [id |-> 0, client |-> FALSE, model |-> NoModel, rules |-> <<>>]

ChoiceInit ==
    /\ route \in Cases /\ listed \in Offers /\ now \in Times
    /\ row = NoRow
    /\ savers \in [Savers -> [at : {"idle"}, given : {CHOOSE want \in Wants : TRUE},
                               want : {NoChoice}, table : {route}, found : {-1}]]
    /\ callers = [c \in Callers |->
                     [at |-> "idle", named |-> NoModel, table |-> route, source |-> route,
                      schedule |-> NoSchedule, when |-> 0, layer |-> 1, pair |-> Pair(route),
                      by |-> "nobody", choice |-> NoRow, seen |-> {}]]
    /\ edits = 0 /\ saves = 0 /\ asks = 0

-----------------------------------------------------------------------------
(* A request.                                                                *)

Keep == UNCHANGED <<route, listed, now, row, savers, edits, saves>>

\* The row of the route is read; a profile may take its place.
ReadRoute(c) ==
    /\ callers[c].at = "idle" /\ asks < MaxAsks
    /\ asks' = asks + 1
    /\ \E named \in Models \cup {NoModel} :
          LET table == ApplyRouteModelProfile(route, named) IN
          callers' = [callers EXCEPT ![c] =
              [@ EXCEPT !.at = "read", !.named = named, !.table = table, !.source = table,
                        !.schedule = NoSchedule, !.by = "nobody", !.choice = NoRow,
                        !.seen = {}]]
    /\ Keep

\* The day's start is read behind an await, then the clock, and the first attempt is made.
StartAttempt(c) ==
    LET q == callers[c]
        s == FindActiveSchedule(q.table.schedules, now)
        table == ResolveActiveRouteProperties(q.table, s) IN
    /\ q.at = "read"
    /\ \E roll \in Rolls :
          LET layer == InitialLayer(table, roll) IN
          callers' = [callers EXCEPT ![c] =
              [@ EXCEPT !.at = IF table.allow THEN "started" ELSE "decide",
                        !.table = table, !.source = table, !.schedule = s, !.when = now,
                        !.layer = layer, !.pair = InitialPair(table, layer)]]
    /\ Keep /\ UNCHANGED asks

\* The rules of the user become those of the route.
WithRules(table, rules) == IF rules = <<>> THEN table ELSE [table EXCEPT !.rules = rules]

\* resolveUserRouteOverride: the user's row.
ReadChoice(c) ==
    LET q == callers[c] IN
    /\ q.at = "started"
    /\ \/ /\ row = NoRow
          /\ callers' = [callers EXCEPT ![c].at = "decide"]
       \/ /\ row # NoRow /\ row.client /\ row.model = NoModel
          /\ callers' = [callers EXCEPT ![c] =
                [@ EXCEPT !.at = "decide", !.by = "client", !.choice = row,
                          !.pair = ResolveClientModelAgainstL0(q.table, q.named),
                          !.table = StrategyOff(q.table)]]
       \/ /\ row # NoRow /\ ~(row.client /\ row.model = NoModel)
          /\ callers' = [callers EXCEPT ![c] =
                [@ EXCEPT !.at = IF row.model = NoModel THEN "decide" ELSE "fixed",
                          !.by = IF row.rules = <<>> THEN "nobody" ELSE "rules",
                          !.choice = row,
                          !.table = WithRules(q.table, row.rules)]]
    /\ Keep /\ UNCHANGED asks

\* The fixed model is looked up with the provider of the route; only the model of the attempt
\* is set.
CheckFixedModel(c) ==
    LET q == callers[c] IN
    /\ q.at = "fixed"
    /\ IF <<q.table.provider, q.choice.model>> \in listed
       THEN callers' = [callers EXCEPT ![c] =
                [@ EXCEPT !.at = "decide", !.by = "fixed", !.seen = listed,
                          !.pair = <<q.pair[1], q.choice.model>>,
                          !.table = StrategyOff(q.table)]]
       ELSE callers' = [callers EXCEPT ![c].at = "decide"]
    /\ Keep /\ UNCHANGED asks

\* resolveStrategyRoutingDecision: a rule that is on may be taken, or, when a tool answers, the
\* model of the route, which the turn before had.
DecideStrategy(c) ==
    LET q == callers[c]
        rules == LayerRules(q.table, q.layer) IN
    /\ q.at = "decide"
    /\ \/ callers' = [callers EXCEPT ![c].at = "asked"]
       \/ /\ LayerStrategy(q.table, q.layer)
          /\ callers' = [callers EXCEPT ![c] = [@ EXCEPT !.at = "asked", !.pair = Pair(q.table)]]
       \/ /\ LayerStrategy(q.table, q.layer)
          /\ \E i \in DOMAIN rules :
                /\ rules[i].on
                /\ callers' = [callers EXCEPT ![c] = [@ EXCEPT !.at = "asked",
                                                              !.pair = Pair(rules[i])]]
    /\ Keep /\ UNCHANGED asks

LeaveCaller(c) ==
    /\ callers[c].at = "asked"
    /\ callers' = [callers EXCEPT ![c].at = "idle"]
    /\ Keep /\ UNCHANGED asks

-----------------------------------------------------------------------------
(* PUT /api/user/routes/:id/override.                                         *)

SaverGoes(s, at) == savers' = [savers EXCEPT ![s].at = at]
KeepAll == UNCHANGED <<route, listed, now, callers, edits, asks>>

\* A user without a grant, and a route that is gone or disabled, are refused.
SaveRead(s) ==
    /\ savers[s].at = "idle" /\ saves < MaxSaves
    /\ saves' = saves + 1
    /\ \E want \in Wants :
          savers' = [savers EXCEPT ![s] =
              [@ EXCEPT !.at = "judge", !.given = want, !.table = route,
                        !.want = NormalizeUserRouteOverridePayload(want)]]
    /\ KeepAll /\ UNCHANGED row

\* What the schedule in force allows, and no rules for a classic route; the default deletes.
SaveJudge(s) ==
    LET q == savers[s]
        table == ResolveActiveRouteProperties(q.table,
                     FindActiveSchedule(q.table.schedules, now)) IN
    /\ q.at = "judge"
    /\ \/ /\ ~table.allow \/ (IsClassic(table) /\ q.given.rules # <<>>)
          /\ SaverGoes(s, "idle")
       \/ /\ table.allow /\ ~(IsClassic(table) /\ q.given.rules # <<>>)
          /\ savers' = [savers EXCEPT ![s].table = table,
                           ![s].at = IF IsDefault(q.want) THEN "delete"
                                     ELSE IF q.want.client THEN "find" ELSE "check"]
    /\ KeepAll /\ UNCHANGED <<row, saves>>

SaveDelete(s) ==
    /\ savers[s].at = "delete"
    /\ row' = NoRow
    /\ SaverGoes(s, "idle")
    /\ KeepAll /\ UNCHANGED saves

\* A fixed model the provider in force does not offer is refused, and rules that name one.
SaveCheck(s) ==
    LET q == savers[s]
        known(model) == <<q.table.provider, model>> \in listed
        right == /\ q.want.model # NoModel => known(q.want.model)
                 /\ \A i \in DOMAIN q.want.rules :
                       q.want.rules[i].provider = q.table.provider => known(q.want.rules[i].model)
    IN
    /\ q.at = "check"
    /\ SaverGoes(s, IF right THEN "find" ELSE "idle")
    /\ KeepAll /\ UNCHANGED <<row, saves>>

SaveFind(s) ==
    /\ savers[s].at = "find"
    /\ savers' = [savers EXCEPT ![s].at = "write",
                                ![s].found = IF row = NoRow THEN -1 ELSE row.id]
    /\ KeepAll /\ UNCHANGED <<row, saves>>

\* Mutant: what the choice does not say stays as it was stored.
OnlyWhatIsSaid(old, want) ==
    [old EXCEPT !.client = want.client \/ @,
                !.model = IF want.model = NoModel THEN @ ELSE want.model,
                !.rules = IF want.rules = <<>> THEN @ ELSE want.rules]

\* All three columns are written.
Updated(old, want) == [want EXCEPT !.id = old.id]

\* The row found is updated, if it still is there; else one is inserted, which fails if the
\* user has one by now (unq_user_route).
SaveWrite(s) ==
    LET q == savers[s] IN
    /\ q.at = "write"
    /\ row' = IF q.found >= 0
              THEN IF row # NoRow /\ row.id = q.found THEN Updated(row, q.want) ELSE row
              ELSE IF row = NoRow THEN [q.want EXCEPT !.id = saves] ELSE row
    /\ SaverGoes(s, "idle")
    /\ KeepAll /\ UNCHANGED saves

-----------------------------------------------------------------------------
(* Administrators and the clock.                                              *)

Edited == edits < MaxEdits /\ edits' = edits + 1

\* One statement writes the row of a route.
SaveRoute ==
    /\ Edited /\ route' \in Cases
    /\ UNCHANGED <<listed, now, row, savers, callers, saves, asks>>

SaveModels ==
    /\ Edited /\ listed' \in Offers
    /\ UNCHANGED <<route, now, row, savers, callers, saves, asks>>

Tick ==
    /\ now' \in Times /\ now' > now
    /\ UNCHANGED <<route, listed, row, savers, callers, edits, saves, asks>>

CallerSteps(c) ==
    ReadRoute(c) \/ StartAttempt(c) \/ ReadChoice(c) \/ CheckFixedModel(c) \/ DecideStrategy(c) \/ LeaveCaller(c)

SaverSteps(s) ==
    SaveRead(s) \/ SaveJudge(s) \/ SaveDelete(s) \/ SaveCheck(s) \/ SaveFind(s) \/ SaveWrite(s)

ChoiceNext ==
    \/ \E c \in Callers : CallerSteps(c)
    \/ \E s \in Savers : SaverSteps(s)
    \/ SaveRoute \/ SaveModels \/ Tick

ChoiceSpec == ChoiceInit /\ [][ChoiceNext]_choiceVars
-----------------------------------------------------------------------------
(* Properties.                                                               *)

ChoiceTypeOK ==
    /\ route \in Cases /\ listed \in Offers /\ now \in Times
    /\ row \in StoredChoices \cup {NoRow}
    /\ savers \in [Savers -> SaverRecords] /\ callers \in [Callers -> CallerRecords]
    /\ saves \in Nat

\* The pairs the rules of the first layer may lead to, and those of a table in all.
OnOf(rules) == {Pair(rules[i]) : i \in {j \in DOMAIN rules : rules[j].on}}
GeneralOf(rules) == {Pair(rules[i]) : i \in {j \in GeneralRules(rules) : rules[j].on}}
RulesOf(rules) == {Pair(rules[i]) : i \in DOMAIN rules}
Configured(table) ==
    {Pair(table)} \cup RulesOf(table.rules)
    \cup UNION {{Pair(table.layers[i])} \cup RulesOf(table.layers[i].rules) :
                    i \in DOMAIN table.layers}

\* What the README says of Client Override: a model of the first layer that is named is the one
\* asked; else the general rule, else the layer's own model.
IsClients(pair, table, named) ==
    LET pairs == OnOf(L0Rules(table)) \cup {L0Base(table)}
        general == GeneralOf(L0Rules(table)) IN
    IF \E p \in pairs : p[2] = named THEN pair \in pairs /\ pair[2] = named
    ELSE IF general # {} THEN pair \in general ELSE pair = L0Base(table)

\* The choice of a user is final: whoever lets the client choose gets the model it names or the
\* one named for the rest, whoever fixed a model gets it, and only one the provider of the route
\* offered when it was checked; no rule of the layer moves the request afterwards
\* (authorization.ts:199-282, clientModelOverride.ts).  Only the first layer's flag is cleared:
\* a classic route whose other layers kept theirs is excepted.
ChoiceStands == \A c \in Callers :
    LET q == callers[c] IN
    q.at = "asked" /\ (q.layer = 1 \/ ~LayerStrategy(q.source, q.layer)) =>
        /\ q.by = "client" => IsClients(q.pair, q.source, q.named)
        /\ q.by = "fixed" =>
              q.pair[2] = q.choice.model /\ <<q.source.provider, q.pair[2]>> \in q.seen

\* A request is asked of a pair the table it read names, be it the row of the route, a profile
\* or a schedule; only a fixed model is asked of a configured provider beside it, and a row
\* without layers takes the user's rules.
PairConfigured == \A c \in Callers :
    LET q == callers[c] IN
    q.at = "asked" =>
        \/ q.pair \in Configured(q.source)
        \/ /\ q.by = "fixed" /\ q.pair[2] = q.choice.model
           /\ \E p \in Configured(q.source) : p[1] = q.pair[1]
        \/ q.by = "rules" /\ q.source.layers = <<>> /\ q.pair \in RulesOf(q.choice.rules)

\* No request begins at a layer without a weight, unless none has one; a route in strategy mode
\* begins at its first (opcAgentRouting.ts:44-74, whatever the roll and the weights).
FirstLayerWeighted == \A c \in Callers :
    LET q == callers[c] IN
    q.at \notin {"idle", "read"} =>
        IF IsClassic(q.source) /\ Positive(q.source) # {}
        THEN q.layer \in Positive(q.source) ELSE q.layer = 1

\* A schedule is due when a window of any day holds the moment.
Due(s, t) == \E d \in -7..(t \div Day + 7) : Holds(s, d, t)

\* The schedule a request goes by is the first of its route that was due when it looked, and
\* none if none was: windows that ran over midnight or to the start of the next day included
\* (scheduleEvaluator.ts:63-105).
ScheduleInForce == \A c \in Callers :
    LET q == callers[c]
        due == {i \in DOMAIN q.source.schedules : Due(q.source.schedules[i], q.when)} IN
    q.at \notin {"idle", "read"} =>
        IF q.schedule = NoSchedule THEN due = {}
        ELSE \E i \in due : /\ q.schedule = q.source.schedules[i]
                             /\ \A j \in due : i <= j
                             /\ q.source.provider = q.schedule.provider

\* The row of a user holds one kind of choice, whatever was stored before and whichever calls
\* overlap (userRouteController.ts:225-253; authorization.ts:196 says of fixed model and client
\* override: "mutually exclusive at persistence").
ChoicesExclusive == row # NoRow =>
    Cardinality({kind \in {"client", "fixed", "rules"} :
                    \/ kind = "client" /\ row.client
                    \/ kind = "fixed" /\ row.model # NoModel
                    \/ kind = "rules" /\ row.rules # <<>>}) = 1

\* Of every request the five hold at once: one pair is chosen, out of one table, by one schedule,
\* from one layer, by at most one kind of choice (authorization.ts, routing.ts).
ModelChosen ==
    ChoiceStands /\ PairConfigured /\ FirstLayerWeighted /\ ScheduleInForce /\ ChoicesExclusive

=============================================================================
