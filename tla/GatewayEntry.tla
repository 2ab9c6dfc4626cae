--------------------------- MODULE GatewayEntry ---------------------------
(***************************************************************************)
(* How a request enters the gateway (routes/gateway/gatewayHandlers.ts,          *)
(* proxyHandler): its API key, the source addresses its route admits, the       *)
(* grant its user needs, the limit of input tokens it gets, the admission.      *)
(*                                                                         *)
(* Each of these is a read of the database behind an await of its own, and the  *)
(* administrators' statements fall between them: a request is judged by rows    *)
(* that never held together.  What a request may count on is what it saw hold   *)
(* at some moment of its life; what it may be refused for is what did not hold   *)
(* all through it.                                                          *)
(*                                                                         *)
(* One route: which one serves a request is RouteTable's.  The calls that       *)
(* write keys, users and groups are Accounts', those that save a route           *)
(* RouteTable's; here each of their statements may come at any moment.           *)
(***************************************************************************)
EXTENDS Integers, FiniteSets

CONSTANTS
    Requests,            \* requests at a time
    Keys, Users, Groups,
    OwnerOf,             \* the user of each API key
    SystemKey, NoKey,    \* pg_system_..., and a request without a key
    NoUser,              \* no x-promptgate-user-id header
    V4, V6,              \* client addresses
    Unknown,             \* an address that is not an IP
    Tokens,              \* single addresses, CIDR subnets and ranges
    Covers,              \* the addresses of each
    WellFormed,          \* the tokens that parse
    Rules,               \* texts of ipWhitelist, sets of tokens
    NoLimit,             \* maxInputTokensOverride is null
    MaxTokens, MaxRequests, MaxChanges   \* bounds

Open == {"any", "any4", "any6"}    \* "*" or "all", "0.0.0.0/0", "::/0"

ASSUME KeyAssumption ==
    /\ OwnerOf \in [Keys -> Users] /\ SystemKey \notin Keys /\ NoKey \notin Keys
    /\ SystemKey # NoKey /\ NoUser \notin Users /\ Users \cap Groups = {}
ASSUME AddressAssumption ==
    /\ Unknown \notin V4 \cup V6 /\ V4 \cap V6 = {}
    /\ Covers \in [Tokens -> SUBSET (V4 \cup V6)] /\ WellFormed \subseteq Tokens
    /\ Tokens \cap Open = {} /\ Rules \subseteq SUBSET (Open \cup Tokens) /\ {} \in Rules
ASSUME LimitAssumption == NoLimit \notin Int /\ MaxTokens \in Nat

VARIABLES
    keys,        \* rows of api_keys: status, and whether expiresAt is past
    rows,        \* rows of users: role and maxInputTokensOverride
    limits,      \* maxInputTokens of each group
    belongs,     \* rows of user_group_members
    granted,     \* users and groups with a row of route_authorizations
    restoring,     \* what saveRouteAuthorizations is about to insert
    rule,        \* ipWhitelist of the route
    compiled,    \* compiledCache: the block list of each text compiled so far
    requests,
    arrived, changes     \* counts, for the bounds

tableVars == <<keys, rows, limits, belongs, granted, restoring, rule>>
entryVars == <<keys, rows, limits, belongs, granted, restoring, rule, compiled, requests,
               arrived, changes>>

-----------------------------------------------------------------------------
(* The tables.                                                               *)

Addresses == V4 \cup V6 \cup {Unknown}
NotCompiled == [addresses |-> {}, there |-> FALSE]
KeyRows == [status : {"absent", "active", "disabled", "revoked"}, expired : BOOLEAN]
UserRows == [role : {"none", "admin", "user"}, limit : (0..MaxTokens) \cup {NoLimit}]

KeyValid(k) == keys[k].status = "active" /\ ~keys[k].expired
GroupsOf(u) == {g \in Groups : <<u, g>> \in belongs}

\* A request: what it presented, what its reads found, and, as history, what held at some
\* moment since it arrived and what held at every moment.
EntrySteps == {"idle", "key", "route", "user", "groups", "direct", "group", "limit",
          "groupLimits", "admission", "served", "answered"}
Reasons == {"none", "badKey", "noUser", "noRoute", "forbidden", "busy", "counted"}

\* What a request may have seen hold.
Facts ==
    ({"key"} \X Keys) \cup ({"address"} \X Addresses) \cup ({"role"} \X {"none", "admin", "user"})
    \cup ({"granted"} \X (Users \cup Groups)) \cup ({"member", "through"} \X Groups)
    \cup ({"override"} \X ((0..MaxTokens) \cup {NoLimit}))
    \cup ({"limits"} \X SUBSET (0..MaxTokens))

RequestRecords ==
    [at : EntrySteps, key : Keys \cup {SystemKey, NoKey}, user : Users \cup {NoUser},
     ip : Addresses, rule : Rules, member : SUBSET Groups, limit : 0..MaxTokens,
     why : Reasons, ever : SUBSET Facts, always : SUBSET Facts]

Idle == [at |-> "idle", key |-> NoKey, user |-> NoUser, ip |-> Unknown, rule |-> {},
         member |-> {}, limit |-> 0, why |-> "none", ever |-> {}, always |-> {}]

\* normalizeTokenLimit: what is not a number of tokens is no limit.
NormalizeTokenLimit(n) == IF n < 0 THEN 0 ELSE n

-----------------------------------------------------------------------------
(* Source addresses (utils/ipAcl.ts).                                         *)

IsUnrestrictedIpAcl(text) == text \subseteq Open

\* addRuleToBlockList for each token that restricts
BlockList(text) == UNION {Covers[t] : t \in text \ Open}

\* Mutant: one block list for the route, whatever its text is by now.
RouteCacheKey(text) == {}

CacheKey(text) == text

\* compileIpAcl: the list compiled before for this text, else a new one.
CompileIpAcl(text) ==
    IF compiled[CacheKey(text)].there THEN compiled[CacheKey(text)].addresses
    ELSE BlockList(text)

\* The tokens that open the rule to a family are tried before the block list.
Opened(ip, text) ==
    \/ "any" \in text
    \/ "any4" \in text /\ ip \in V4
    \/ "any6" \in text /\ ip \in V6

\* isClientIpAllowed: an address that is no IP passes only where nothing is restricted.
IsClientIpAllowed(ip, text) ==
    \/ IsUnrestrictedIpAcl(text)
    \/ ip # Unknown /\ (Opened(ip, text) \/ ip \in CompileIpAcl(text))

\* The block list is compiled only when it comes to it.
Compiles(ip, text) == ~IsUnrestrictedIpAcl(text) /\ ip # Unknown /\ ~Opened(ip, text)

\* normalizeIpAclForStorage: a text with a token that does not parse is refused, one that
\* restricts nothing is stored as null.
ValidateIpAcl(text) == IsUnrestrictedIpAcl(text) \/ text \subseteq Open \cup WellFormed
ForStorage(text) == IF IsUnrestrictedIpAcl(text) THEN {} ELSE text

\* What the README says of a rule: without tokens, or with none that restricts, every client;
\* else the clients one of its tokens covers.
Admits(text, ip) ==
    \/ \A t \in text : t \in Open
    \/ ip # Unknown /\ \E t \in text :
          \/ t = "any" \/ (t = "any4" /\ ip \in V4) \/ (t = "any6" /\ ip \in V6)
          \/ t \in Tokens /\ ip \in Covers[t]

-----------------------------------------------------------------------------
(* The history of a request: facts about it that hold now.                    *)

Now(q) ==
    {<<"key", k>> : k \in {j \in Keys \cap {q.key} : KeyValid(j)}}
    \cup {<<"address", a>> : a \in {b \in {q.ip} : Admits(rule, b)}}
    \cup {<<"role", rows[u].role>> : u \in Users \cap {q.user}}
    \cup {<<"granted", x>> : x \in granted}
    \cup {<<"member", g>> : g \in GroupsOf(q.user)}
    \cup {<<"through", g>> : g \in GroupsOf(q.user) \cap granted}
    \cup {<<"override", rows[u].limit>> : u \in {v \in Users \cap {q.user} : rows[v].role # "none"}}
    \cup {<<"limits", {limits[g] : g \in GroupsOf(q.user)}>>}

Judging(q) == q.at \notin {"idle", "served", "answered"}

\* Every step takes the requests to new, and those in progress have lived through what held
\* before it.
Lived(new) ==
    [r \in Requests |->
        IF Judging(requests[r])
        THEN [new[r] EXCEPT !.ever = @ \cup Now(requests[r]),
                            !.always = @ \cap Now(requests[r])]
        ELSE new[r]]

EntryTypeOK ==
    /\ keys \in [Keys -> KeyRows] /\ rows \in [Users -> UserRows]
    /\ limits \in [Groups -> 0..MaxTokens] /\ belongs \subseteq Users \X Groups
    /\ granted \subseteq Users \cup Groups /\ restoring \subseteq Users \cup Groups
    /\ rule \in Rules
    /\ compiled \in [Rules -> [addresses : SUBSET (V4 \cup V6), there : BOOLEAN]]
    /\ requests \in [Requests -> RequestRecords]

EntryInit ==
    /\ keys \in [Keys -> KeyRows] /\ rows \in [Users -> UserRows]
    /\ \A u \in Users : rows[u].role = "none" => rows[u].limit = NoLimit
    /\ \A k \in Keys : rows[OwnerOf[k]].role # "none"
    /\ limits \in [Groups -> 0..MaxTokens]
    /\ belongs \in SUBSET (Users \X Groups)
    /\ granted \in SUBSET (Users \cup Groups) /\ restoring = {}
    /\ rule \in {ForStorage(text) : text \in {t \in Rules : ValidateIpAcl(t)}}
    /\ compiled = [text \in Rules |-> NotCompiled]
    /\ requests = [r \in Requests |-> Idle]
    /\ arrived = 0 /\ changes = 0

-----------------------------------------------------------------------------
(* The request.                                                              *)

Answer(r, why) == requests' = Lived([requests EXCEPT ![r].at = "answered", ![r].why = why])
Goes(r, at) == requests' = Lived([requests EXCEPT ![r].at = at])

Presented(k, u, a) == [Idle EXCEPT !.key = k, !.user = u, !.ip = a]

\* The life of a request begins with what holds as it arrives.
Begins(r, q, at, why) ==
    requests' = Lived([requests EXCEPT
        ![r] = [q EXCEPT !.at = at, !.why = why, !.ever = Now(q), !.always = Now(q)]])

\* proxyHandler up to its first await: the tokens of a body are counted for anyone; the key is
\* taken from the headers; the system's key acts for the user its header names.
Arrive(r) ==
    /\ requests[r].at = "idle" /\ arrived < MaxRequests
    /\ arrived' = arrived + 1
    /\ \E k \in Keys \cup {SystemKey, NoKey}, u \in Users \cup {NoUser}, a \in Addresses :
          /\ k \in Keys => u = OwnerOf[k]
          /\ k = NoKey => u = NoUser
          /\ \/ Begins(r, Presented(k, u, a), "answered", "counted")
             \/ k = NoKey /\ Begins(r, Presented(k, u, a), "answered", "badKey")
             \/ k = SystemKey /\ u = NoUser /\ Begins(r, Presented(k, u, a), "answered", "noUser")
             \/ k = SystemKey /\ u # NoUser /\ Begins(r, Presented(k, u, a), "route", "none")
             \/ k \in Keys /\ Begins(r, Presented(k, u, a), "key", "none")
    /\ UNCHANGED <<tableVars, compiled, changes>>

\* SELECT ... FROM api_keys WHERE keyHash = ...
ExtractAndValidateApiKey(r) ==
    /\ requests[r].at = "key"
    /\ IF KeyValid(requests[r].key) THEN Goes(r, "route") ELSE Answer(r, "badKey")
    /\ UNCHANGED <<tableVars, compiled, arrived, changes>>

\* resolveSubdomain, adaptResponsesRequestToChat and resolveEndpointAndRoute, which may each
\* answer; the row of the route is read once.
ResolveRoute(r) ==
    /\ requests[r].at = "route"
    /\ \/ Answer(r, "noRoute")
       \/ requests' = Lived([requests EXCEPT ![r].at = "user", ![r].rule = rule])
    /\ UNCHANGED <<tableVars, compiled, arrived, changes>>

Bypasses(q) == q.key = SystemKey \/ (q.user \in Users /\ rows[q.user].role = "admin")

\* checkRouteAuthorization up to its second statement: the row of the user, and in the same
\* step the address, against the rule read with the route.
CheckAddress(r) ==
    LET q == requests[r] IN
    /\ q.at = "user"
    /\ compiled' = IF Compiles(q.ip, q.rule)
                   THEN [compiled EXCEPT ![CacheKey(q.rule)] =
                            [addresses |-> CompileIpAcl(q.rule), there |-> TRUE]]
                   ELSE compiled
    /\ \/ ~IsClientIpAllowed(q.ip, q.rule) /\ Answer(r, "forbidden")
       \/ IsClientIpAllowed(q.ip, q.rule) /\ Bypasses(q) /\ Goes(r, "limit")
       \/ IsClientIpAllowed(q.ip, q.rule) /\ ~Bypasses(q) /\ Goes(r, "groups")
    /\ UNCHANGED <<tableVars, arrived, changes>>

ReadGroups(r) ==
    /\ requests[r].at = "groups"
    /\ requests' = Lived([requests EXCEPT ![r].at = "direct",
                                          ![r].member = GroupsOf(requests[r].user)])
    /\ UNCHANGED <<tableVars, compiled, arrived, changes>>

\* Mutant: a grant of the user's own is not looked for when the user has groups.
GroupsOnlyGranted(q) == q.member = {} /\ q.user \in granted

DirectlyGranted(q) == q.user \in granted

CheckDirectGrant(r) ==
    LET q == requests[r] IN
    /\ q.at = "direct"
    /\ \/ DirectlyGranted(q) /\ Goes(r, "limit")
       \/ ~DirectlyGranted(q) /\ q.member # {} /\ Goes(r, "group")
       \/ ~DirectlyGranted(q) /\ q.member = {} /\ Answer(r, "forbidden")
    /\ UNCHANGED <<tableVars, compiled, arrived, changes>>

\* The groups are those read two statements before.
CheckGroupGrants(r) ==
    LET q == requests[r] IN
    /\ q.at = "group"
    /\ IF q.member \cap granted # {} THEN Goes(r, "limit") ELSE Answer(r, "forbidden")
    /\ UNCHANGED <<tableVars, compiled, arrived, changes>>

-----------------------------------------------------------------------------
(* The limit of input tokens (services/userTokenLimits.ts).                    *)

\* Mutant: the smallest limit of the groups, a group without one included.
SmallestOf(u) ==
    LET all == {limits[g] : g \in GroupsOf(u)} IN
    IF all = {} THEN 0 ELSE CHOOSE n \in all : \A m \in all : n <= m

\* The strictest limit of the user's groups that have one; 0 is none.
StrictestOf(u) ==
    LET positive == {limits[g] : g \in GroupsOf(u)} \ {0} IN
    IF positive = {} THEN 0 ELSE CHOOSE n \in positive : \A m \in positive : n <= m

ReadOverride(r) ==
    LET q == requests[r] IN
    /\ q.at = "limit"
    /\ \/ /\ rows[q.user].role = "none"
          /\ requests' = Lived([requests EXCEPT ![r].at = "admission"])
       \/ /\ rows[q.user].role # "none" /\ rows[q.user].limit # NoLimit
          /\ requests' = Lived([requests EXCEPT ![r].at = "admission",
                                                ![r].limit = rows[q.user].limit])
       \/ /\ rows[q.user].role # "none" /\ rows[q.user].limit = NoLimit
          /\ Goes(r, "groupLimits")
    /\ UNCHANGED <<tableVars, compiled, arrived, changes>>

ReadGroupLimits(r) ==
    /\ requests[r].at = "groupLimits"
    /\ requests' = Lived([requests EXCEPT ![r].at = "admission",
                                          ![r].limit = StrictestOf(requests[r].user)])
    /\ UNCHANGED <<tableVars, compiled, arrived, changes>>

\* runWithSessionAdmission, which SessionQueue models: the executor runs, or the session's
\* queue is full or its wait ends (429).
Admit(r) ==
    /\ requests[r].at = "admission"
    /\ Goes(r, "served") \/ Answer(r, "busy")
    /\ UNCHANGED <<tableVars, compiled, arrived, changes>>

Leave(r) ==
    /\ requests[r].at \in {"served", "answered"}
    /\ requests' = Lived([requests EXCEPT ![r] = Idle])
    /\ UNCHANGED <<tableVars, compiled, arrived, changes>>

-----------------------------------------------------------------------------
(* What administrators, users and the clock change meanwhile.                  *)

Changed ==
    /\ changes < MaxChanges /\ changes' = changes + 1
    /\ requests' = Lived(requests)
    /\ UNCHANGED <<compiled, arrived>>

\* Of two PATCH of a key the later write stands, whatever the other read; a key is created
\* active.
WriteKeyStatus(k) ==
    /\ Changed
    /\ \E s \in {"active", "disabled", "revoked"} :
          /\ keys[k].status = "absent" => s = "active"
          /\ keys' = [keys EXCEPT ![k].status = s]
    /\ UNCHANGED <<rows, limits, belongs, granted, restoring, rule>>

\* The time of expiresAt passes, or an administrator moves it.
MoveExpiry(k) ==
    /\ Changed
    /\ keys' = [keys EXCEPT ![k].expired = ~@]
    /\ UNCHANGED <<rows, limits, belongs, granted, restoring, rule>>

\* PATCH /api/admin/users/:id; no row of users is ever deleted.
PatchUser(u) ==
    /\ Changed /\ rows[u].role # "none"
    /\ \E role \in {"admin", "user"}, n \in (0..MaxTokens) \cup {NoLimit} :
          rows' = [rows EXCEPT ![u] = [role |-> role, limit |-> n]]
    /\ UNCHANGED <<keys, limits, belongs, granted, restoring, rule>>

\* PATCH /api/admin/groups/:id.  One that names no limit writes the limit it read before, so
\* any value may be written.
PatchGroup(g) ==
    /\ Changed
    /\ \E n \in -1..MaxTokens : limits' = [limits EXCEPT ![g] = NormalizeTokenLimit(n)]
    /\ UNCHANGED <<keys, rows, belongs, granted, restoring, rule>>

Join(u, g) ==
    /\ Changed /\ rows[u].role # "none"
    /\ belongs' = belongs \cup {<<u, g>>}
    /\ UNCHANGED <<keys, rows, limits, granted, restoring, rule>>

LeaveGroup(u, g) ==
    /\ Changed /\ <<u, g>> \in belongs
    /\ belongs' = belongs \ {<<u, g>>}
    /\ UNCHANGED <<keys, rows, limits, granted, restoring, rule>>

\* saveRouteAuthorizations: all rows of the route are deleted ...
RevokeAll ==
    /\ Changed
    /\ granted' = {}
    /\ \E to \in SUBSET (Users \cup Groups) : restoring' = to
    /\ UNCHANGED <<keys, rows, limits, belongs, rule>>

\* ... and the next statement inserts the new ones.
InsertPending ==
    /\ restoring # {}
    /\ granted' = granted \cup restoring /\ restoring' = {}
    /\ requests' = Lived(requests)
    /\ UNCHANGED <<keys, rows, limits, belongs, rule, compiled, arrived, changes>>

\* DELETE of a group takes its grants first.
RevokeGroup(g) ==
    /\ Changed /\ g \in granted
    /\ granted' = granted \ {g}
    /\ UNCHANGED <<keys, rows, limits, belongs, restoring, rule>>

SaveIpRule ==
    /\ Changed
    /\ \E text \in Rules : ValidateIpAcl(text) /\ rule' = ForStorage(text)
    /\ UNCHANGED <<keys, rows, limits, belongs, granted, restoring>>

RequestSteps(r) ==
    \/ Arrive(r) \/ ExtractAndValidateApiKey(r) \/ ResolveRoute(r) \/ CheckAddress(r)
    \/ ReadGroups(r) \/ CheckDirectGrant(r) \/ CheckGroupGrants(r) \/ ReadOverride(r)
    \/ ReadGroupLimits(r) \/ Admit(r) \/ Leave(r)

Statements ==
    \/ \E k \in Keys : WriteKeyStatus(k) \/ MoveExpiry(k)
    \/ \E u \in Users : PatchUser(u)
    \/ \E g \in Groups : PatchGroup(g) \/ RevokeGroup(g)
    \/ \E u \in Users, g \in Groups : Join(u, g) \/ LeaveGroup(u, g)
    \/ RevokeAll \/ InsertPending \/ SaveIpRule

EntryNext == (\E r \in Requests : RequestSteps(r)) \/ Statements

EntrySpec == EntryInit /\ [][EntryNext]_entryVars

-----------------------------------------------------------------------------
(* Properties.                                                               *)

\* A user may use the route: an administrator or the system's key, by a grant of their own, or
\* by a group.
Entitled(q) ==
    \/ q.key = SystemKey
    \/ <<"role", "admin">> \in q.ever
    \/ <<"granted", q.user>> \in q.ever
    \/ \E g \in Groups : <<"member", g>> \in q.ever /\ <<"granted", g>> \in q.ever

\* A request the executor runs had a key that was valid, an address its route admitted and a
\* user who was granted the route, each at some moment since it arrived: what was taken away
\* before it arrived, by a rule, a key, a role, a group or a grant, does not serve it, whatever
\* block lists were compiled for earlier texts (gatewayHandlers.ts, auth.ts, authorization.ts,
\* ipAcl.ts).
ServedAsAllowed == \A r \in Requests : requests[r].at = "served" =>
    LET q == requests[r] IN
    /\ q.key = SystemKey \/ <<"key", q.key>> \in q.ever
    /\ <<"address", q.ip>> \in q.ever
    /\ Entitled(q)

\* A request is refused for its key or for its right only if the key, the address, or every
\* way to the route failed it at some moment: two grants that overlap in time, or a rule that
\* was replaced by one that admits it too, never cost it the answer.
RefusedWithCause == \A r \in Requests : requests[r].at = "answered" =>
    LET q == requests[r] IN
    /\ q.why = "badKey" => q.key = NoKey \/ <<"key", q.key>> \notin q.always
    /\ q.why = "forbidden" =>
          \/ <<"address", q.ip>> \notin q.always
          \/ /\ q.key # SystemKey
             /\ <<"role", "admin">> \notin q.always
             /\ <<"granted", q.user>> \notin q.always
             /\ \A g \in Groups : <<"through", g>> \notin q.always

\* n is the strictest limit of the set: none where no group has one.
IsStrictest(n, set) ==
    /\ n = 0 => set \subseteq {0}
    /\ n # 0 => n \in set /\ \A m \in set \ {0} : n <= m

\* The limit of a request that runs is the user's own, or, while there was none, the strictest
\* of the groups the user was in at one moment; a limit that held all along is the one applied
\* (userTokenLimits.ts: the two reads are two statements).
LimitFounded == \A r \in Requests : requests[r].at \in {"admission", "served"} =>
    LET q == requests[r] IN
    /\ \/ <<"override", q.limit>> \in q.ever
       \/ <<"role", "none">> \in q.ever /\ q.limit = 0
       \/ /\ <<"override", NoLimit>> \in q.ever
          /\ \E set \in SUBSET (0..MaxTokens) :
                <<"limits", set>> \in q.ever /\ IsStrictest(q.limit, set)
    /\ \A n \in 0..MaxTokens : <<"override", n>> \in q.always => q.limit = n

\* The judgement of a request is founded, whichever way it goes: what serves it, what refuses
\* it and what limits it held during its life (gatewayHandlers.ts).
EntryJudged == ServedAsAllowed /\ RefusedWithCause /\ LimitFounded

=============================================================================
