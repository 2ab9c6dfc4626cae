----------------------------- MODULE RouteTable -----------------------------
(***************************************************************************)
(* The three tables by which a request finds its route: subdomains, endpoints  *)
(* and endpoint_routes, with the authorizations of one ordinary user.          *)
(* Administrators write them through the route page                            *)
(* (controllers/adminRouteMutateController.ts, services/routeService.ts) and    *)
(* the older pages of hosts and endpoints (routes/subdomains.ts, endpoints.ts); *)
(* a request of that user reads them (routes/gateway/routing.ts,               *)
(* authorization.ts).                                                        *)
(*                                                                         *)
(* A handler writes with an await between its statements and no transaction:   *)
(* every write is a step, between which the request reads and the server may   *)
(* stop.  One administrator works at a time.  A host row is identified by its  *)
(* hostname, which is unique, and an endpoint by its path: the protocol is one. *)
(***************************************************************************)
EXTENDS Naturals, Sequences, FiniteSets

CONSTANTS
    Hosts,
    Offered,            \* the hosts an administrator binds routes to
    Domain, Prefix,     \* of each host: its main domain, its label under it
    Primary,            \* the first main domain
    Apex,               \* the prefix of a main domain itself
    Wildcard,           \* null: no host row, all hosts
    Paths, Responses, Chat,
    AllowUnknown,       \* the setting allowUnknownHostFallback
    MaxRoutes, MaxMade, MaxEdits \* bounds: on routes, on those there at first

ASSUME HostAssumption == Offered \subseteq Hosts /\ Wildcard \notin Hosts /\ MaxRoutes \in Nat
ASSUME PathAssumption == {Responses, Chat} \subseteq Paths

VARIABLES
    hostRows,   \* subdomains: no row, or one that is enabled or disabled
    endpoints,  \* paths with a row in endpoints
    routes,     \* endpoint_routes
    granted,    \* routes the user is authorized for
    edit,       \* the administrator's call
    edits,
    request,    \* the user's request
    withdrawn,  \* history: hosts an administrator removed or disabled himself
    unchecked   \* history: routes last written by a handler that does not
                \* compare them with the others

routeVars == <<hostRows, endpoints, routes, granted, edit, edits, request,
               withdrawn, unchecked>>

-----------------------------------------------------------------------------
RouteIds == 1..MaxRoutes
NoRoute == [path |-> "none", sub |-> Wildcard, hosts |-> {}, enabled |-> FALSE,
            active |-> FALSE]
IsRoute(r) == routes[r] # NoRoute

NoEdit == [op |-> "none", at |-> "none", route |-> 1, path |-> Chat, hosts |-> <<>>,
           left |-> {}, on |-> FALSE, give |-> "keep", keep |-> FALSE]
NotAsked == [at |-> "none", host |-> Wildcard, path |-> Chat, row |-> Wildcard,
              left |-> <<>>, route |-> 0, answer |-> "none", steady |-> {}]

\* Ids are never used twice: not while a call or a request still holds one.
FreeIds == {r \in RouteIds : ~IsRoute(r) /\ r # request.route
                             /\ (edit.op = "none" \/ r # edit.route)}
NewId == CHOOSE r \in FreeIds : \A q \in FreeIds : r <= q

\* parseRouteHosts(route.hosts, hostname): the hosts a route is bound to.
HostsOf(r) == IF routes[r].hosts # {} THEN routes[r].hosts
              ELSE IF routes[r].sub # Wildcard /\ hostRows[routes[r].sub] = "none"
                   THEN {Wildcard} ELSE {routes[r].sub}

\* What parseRouteHosts and validateRouteDomainBindings accept: all hosts, or a
\* list with one host of a main domain at most.
HostLists == {<<>>} \cup {<<h>> : h \in Offered}
             \cup {l \in Offered \X Offered : Domain[l[1]] # Domain[l[2]]}
HostSet(list) == IF list = <<>> THEN {Wildcard} ELSE {list[i] : i \in DOMAIN list}

\* collectRouteIdentityIssues: another route has one of the hosts on that path.
KeyTaken(r, hosts, path) ==
    \E q \in RouteIds \ {r} :
        IsRoute(q) /\ routes[q].path = path /\ HostsOf(q) \cap hosts # {}

\* Mutant: the hosts a route lists after its first one do not count.
UnusedFirst(h) == \A r \in RouteIds : IsRoute(r) => routes[r].sub # h

Unused(h) == \A r \in RouteIds : IsRoute(r) => routes[r].sub # h /\ h \notin routes[r].hosts

\* cleanupUnusedRouteSubdomain
Cleaned(h) == IF hostRows[h] # "none" /\ Unused(h)
              THEN [hostRows EXCEPT ![h] = "none"] ELSE hostRows

\* A database on which some routes have been made on the route page.
MadeRoutes == {NoRoute} \cup
    {[path |-> path, sub |-> IF list = <<>> THEN Wildcard ELSE list[1],
      hosts |-> HostSet(list) \ {Wildcard}, enabled |-> TRUE, active |-> TRUE] :
         path \in Paths, list \in HostLists}

RouteInit ==
    /\ routes \in [RouteIds -> MadeRoutes]
    /\ \A r \in RouteIds : r > MaxMade => ~IsRoute(r)
    /\ hostRows = [h \in Hosts |->
                    IF \E r \in RouteIds : h \in routes[r].hosts THEN "enabled" ELSE "none"]
    /\ \A r \in RouteIds : IsRoute(r) => ~KeyTaken(r, HostsOf(r), routes[r].path)
    /\ endpoints = {routes[r].path : r \in {q \in RouteIds : IsRoute(q)}}
    /\ granted = {r \in RouteIds : IsRoute(r)}
    /\ withdrawn = {} /\ unchecked = {}
    /\ edit = NoEdit /\ edits = 0
    /\ request = NotAsked

-----------------------------------------------------------------------------
(* The request.                                                              *)

\* A route that serves requests for h and path, as long as no one changes it.
Serves(r, h, path) ==
    /\ routes[r].enabled /\ routes[r].active /\ routes[r].path = path
    /\ h \in HostsOf(r) /\ h \notin withdrawn /\ r \in granted \ unchecked

Answer(answer) == request' = [request EXCEPT !.at = "answered", !.answer = answer]

Goto(row) ==
    IF row # Wildcard /\ hostRows[row] = "disabled" THEN Answer("host disabled")
    ELSE request' = [request EXCEPT !.at = "route", !.row = row]

\* resolveCandidateEndpointPaths
Candidates(path) == IF path = Responses THEN <<Responses, Chat>> ELSE <<path>>

\* findSubdomainForHost, its first query: the row of exactly this host.
Arrive_(h, path) ==
    /\ request.at = "none"
    /\ LET new == [NotAsked EXCEPT !.host = h, !.path = path, !.left = Candidates(path),
                        !.steady = {r \in RouteIds : Serves(r, h, path)}] IN
       request' = IF hostRows[h] = "none" THEN [new EXCEPT !.at = "sibling"]
                  ELSE IF hostRows[h] = "disabled"
                       THEN [new EXCEPT !.at = "answered", !.answer = "host disabled"]
                       ELSE [new EXCEPT !.at = "route", !.row = h]

\* The host is a main domain, or the only row with its label stands for it, or
\* unknown hosts are accepted.
Siblings(h) == {s \in Hosts : hostRows[s] # "none" /\ Prefix[s] = Prefix[h]}

FindSibling ==
    /\ request.at = "sibling"
    /\ IF Prefix[request.host] = Apex THEN Goto(Wildcard)
       ELSE IF Cardinality(Siblings(request.host)) = 1
            THEN Goto(CHOOSE s \in Siblings(request.host) : TRUE)
       ELSE IF AllowUnknown THEN Goto(Wildcard) ELSE Answer("no host")

ByHost(r) == IF routes[r].hosts # {} THEN {request.host, request.row} \cap routes[r].hosts # {}
             ELSE request.row # Wildcard /\ routes[r].sub = request.row
ForAll(r) == routes[r].hosts = {} /\ routes[r].sub = Wildcard
Matching(rs) == IF \E r \in rs : ByHost(r) THEN {r \in rs : ByHost(r)}
                ELSE {r \in rs : ForAll(r)}

\* resolveEndpointAndRoute, one candidate path; equal priorities in any order.
FindRoute ==
    /\ request.at = "route"
    /\ LET all  == {r \in RouteIds : IsRoute(r) /\ routes[r].active
                                     /\ routes[r].path = Head(request.left)}
           live == Matching({r \in all : routes[r].enabled})
       IN \/ \E r \in live : request' = [request EXCEPT !.at = "authorize", !.route = r,
                                !.steady = IF r \in unchecked THEN {} ELSE @]
          \/ /\ live = {} /\ Matching(all) # {}
             /\ Answer("route disabled")
          \/ /\ live = {} /\ Matching(all) = {}
             /\ IF Len(request.left) > 1
                THEN request' = [request EXCEPT !.left = Tail(@)]
                ELSE Answer("no route")

\* checkRouteAuthorization
Authorize ==
    /\ request.at = "authorize"
    /\ Answer(IF request.route \in granted THEN "served" ELSE "forbidden")

EndRequest == request.at = "answered" /\ request' = NotAsked

RequestStep ==
    /\ \/ \E h \in Hosts, path \in Paths : Arrive_(h, path)
       \/ FindSibling \/ FindRoute \/ Authorize \/ EndRequest
    /\ UNCHANGED <<hostRows, endpoints, routes, granted, edit, edits, withdrawn, unchecked>>

-----------------------------------------------------------------------------
(* The route page: create, update and delete.                                *)

Begins(op) == edit.op = "none" /\ edits < MaxEdits /\ edits' = edits + 1
At_(op, at) == edit.op \in op /\ edit.at = at /\ UNCHANGED edits
Goes_(at) == edit' = [edit EXCEPT !.at = at]

\* createAdminRoute, its checks
CreateRoute(list, path, on, give) ==
    /\ Begins("create") /\ FreeIds # {}
    /\ ~KeyTaken(0, HostSet(list), path)
    /\ edit' = [NoEdit EXCEPT !.op = "create", !.route = NewId, !.path = path, !.hosts = list,
                    !.at = IF list = <<>> THEN "endpoint" ELSE "hosts", !.on = on, !.give = give,
                    !.left = HostSet(list) \ {Wildcard}]
    /\ UNCHANGED <<hostRows, endpoints, routes, granted, withdrawn, unchecked>>

\* updateAdminRoute: the hosts may be left out, and the authorizations.
UpdateRoute(r, keep, list, path, on, give) ==
    /\ Begins("update") /\ IsRoute(r)
    /\ ~KeyTaken(r, IF keep THEN HostsOf(r) ELSE HostSet(list), path)
    /\ edit' = [NoEdit EXCEPT !.op = "update", !.route = r, !.path = path, !.hosts = list,
                    !.at = IF keep \/ list = <<>> THEN "endpoint" ELSE "hosts",
                    !.keep = keep, !.on = on, !.give = give,
                    !.left = IF keep THEN {} ELSE HostSet(list) \ {Wildcard}]
    /\ UNCHANGED <<hostRows, endpoints, routes, granted, withdrawn, unchecked>>

\* findOrCreateRouteSubdomain, in the order of the list; a row is left as it is.
FindOrCreateHost ==
    /\ At_({"create", "update"}, "hosts")
    /\ LET h == edit.hosts[CHOOSE i \in DOMAIN edit.hosts :
                    edit.hosts[i] \in edit.left /\ \A j \in 1..(i - 1) : edit.hosts[j] \notin edit.left]
       IN /\ hostRows' = [hostRows EXCEPT ![h] = IF @ = "none" THEN "enabled" ELSE @]
          /\ withdrawn' = IF hostRows[h] = "none" THEN withdrawn \ {h} ELSE withdrawn
          /\ edit' = [edit EXCEPT !.left = @ \ {h},
                                  !.at = IF edit.left = {h} THEN "endpoint" ELSE "hosts"]
    /\ UNCHANGED <<endpoints, routes, granted, unchecked>>

FindOrCreateEndpoint ==
    /\ At_({"create", "update"}, "endpoint")
    /\ endpoints' = endpoints \cup {edit.path}
    /\ Goes_("route")
    /\ UNCHANGED <<hostRows, routes, granted, withdrawn, unchecked>>

\* The row as it will be: an update that enables a route also makes it active.
Saved ==
    LET old == routes[edit.route] IN
    [path |-> edit.path,
     sub |-> IF edit.keep THEN old.sub ELSE IF edit.hosts = <<>> THEN Wildcard ELSE edit.hosts[1],
     hosts |-> IF edit.keep THEN old.hosts ELSE HostSet(edit.hosts) \ {Wildcard},
     enabled |-> edit.on,
     active |-> edit.op = "create" \/ edit.on \/ old.active]

SaveRoute ==
    /\ At_({"create", "update"}, "route")
    /\ routes' = [routes EXCEPT ![edit.route] = Saved]
    /\ unchecked' = unchecked \ {edit.route}
    /\ LET old == routes[edit.route].sub
           stale == IF edit.op = "update" THEN {old} \ {Wildcard, Saved.sub} ELSE {}
       IN edit' = [edit EXCEPT !.left = stale, !.at = "cleanup"]
    /\ UNCHANGED <<hostRows, endpoints, granted, withdrawn>>

\* After an update the first host it had; after a deletion every host.
CleanUp ==
    /\ At_({"create", "update", "delete"}, "cleanup")
    /\ IF edit.left = {}
       THEN /\ edit' = IF edit.op = "delete" \/ edit.give = "keep" THEN NoEdit
                       ELSE [edit EXCEPT !.at = "revoke"]
            /\ UNCHANGED hostRows
       ELSE \E h \in edit.left :
            /\ hostRows' = Cleaned(h)
            /\ edit' = [edit EXCEPT !.left = @ \ {h}]
    /\ UNCHANGED <<endpoints, routes, granted, withdrawn, unchecked>>

\* saveRouteAuthorizations deletes them all, then inserts the new ones.
RevokeGrants ==
    /\ At_({"create", "update"}, "revoke")
    /\ granted' = granted \ {edit.route}
    /\ Goes_("grant")
    /\ UNCHANGED <<hostRows, endpoints, routes, withdrawn, unchecked>>

InsertGrants ==
    /\ At_({"create", "update"}, "grant")
    /\ granted' = IF edit.give = "yes" THEN granted \cup {edit.route} ELSE granted
    /\ edit' = NoEdit
    /\ UNCHANGED <<hostRows, endpoints, routes, withdrawn, unchecked>>

\* deleteAdminRoute: the authorizations, the route, the host rows.
DeleteRoute(r) ==
    /\ Begins("delete") /\ IsRoute(r)
    /\ granted' = granted \ {r}
    /\ edit' = [NoEdit EXCEPT !.op = "delete", !.at = "route", !.route = r]
    /\ UNCHANGED <<hostRows, endpoints, routes, withdrawn, unchecked>>

DeleteRow ==
    /\ At_({"delete"}, "route")
    /\ routes' = [routes EXCEPT ![edit.route] = NoRoute]
    /\ unchecked' = unchecked \ {edit.route}
    /\ edit' = [edit EXCEPT !.at = "cleanup",
                    !.left = (routes[edit.route].hosts \cup {routes[edit.route].sub}) \ {Wildcard}]
    /\ UNCHANGED <<hostRows, endpoints, granted, withdrawn>>

-----------------------------------------------------------------------------
(* The pages of hosts and of endpoints.                                      *)

Row(path, sub, on, active) ==
    [path |-> path, sub |-> sub, hosts |-> {}, enabled |-> on, active |-> active]

\* POST /api/admin/subdomains, refused when a host of any domain has the label
PostSubdomain(h, on) ==
    /\ Begins("host") /\ Domain[h] = Primary /\ Prefix[h] # Apex
    /\ Siblings(h) = {} /\ Cardinality(FreeIds) >= Cardinality(endpoints)
    /\ hostRows' = [hostRows EXCEPT ![h] = IF on THEN "enabled" ELSE "disabled"]
    /\ withdrawn' = IF on THEN withdrawn \ {h} ELSE withdrawn \cup {h}
    /\ edit' = [NoEdit EXCEPT !.op = "host", !.at = "rows", !.hosts = <<h>>, !.left = endpoints,
                              !.route = 0]
    /\ UNCHANGED <<endpoints, routes, granted, unchecked>>

\* A placeholder route for one endpoint
AddPlaceholder ==
    /\ At_({"host"}, "rows")
    /\ IF edit.left = {} THEN edit' = NoEdit /\ UNCHANGED routes
       ELSE \E path \in edit.left :
            /\ routes' = [routes EXCEPT ![NewId] = Row(path, edit.hosts[1], FALSE, FALSE)]
            /\ edit' = [edit EXCEPT !.left = @ \ {path}]
    /\ UNCHANGED <<hostRows, endpoints, granted, withdrawn, unchecked>>

\* PATCH /api/admin/subdomains/:id
PatchSubdomain(h) ==
    /\ Begins("none") /\ hostRows[h] # "none"
    /\ hostRows' = [hostRows EXCEPT ![h] = IF @ = "enabled" THEN "disabled" ELSE "enabled"]
    /\ withdrawn' = IF hostRows[h] = "enabled" THEN withdrawn \cup {h} ELSE withdrawn \ {h}
    /\ UNCHANGED <<endpoints, routes, granted, edit, unchecked>>

\* DELETE /api/admin/subdomains/:id: the routes whose first host it is, the row
DeleteSubdomain(h) ==
    /\ Begins("drop") /\ hostRows[h] # "none"
    /\ routes' = [r \in RouteIds |-> IF routes[r].sub = h THEN NoRoute ELSE routes[r]]
    /\ granted' = {r \in granted : routes[r].sub # h}
    /\ unchecked' = {r \in unchecked : routes[r].sub # h}
    /\ edit' = [NoEdit EXCEPT !.op = "drop", !.at = "row", !.hosts = <<h>>, !.route = 0]
    /\ UNCHANGED <<hostRows, endpoints, withdrawn>>

DeleteHostRow ==
    /\ At_({"drop"}, "row")
    /\ hostRows' = [hostRows EXCEPT ![edit.hosts[1]] = "none"]
    /\ withdrawn' = withdrawn \cup {edit.hosts[1]}
    /\ edit' = NoEdit
    /\ UNCHANGED <<endpoints, routes, granted, unchecked>>

\* POST /api/admin/endpoints, for a path that has no endpoint: its row, then a
\* route for every enabled host and, for unknown hosts, one for all
PostEndpoint(path, configured) ==
    LET enabled == {h \in Hosts : hostRows[h] = "enabled"} IN
    /\ Begins("endpoint") /\ path \notin endpoints /\ enabled # {}
    /\ Cardinality(FreeIds) > Cardinality(enabled)
    /\ endpoints' = endpoints \cup {path}
    /\ edit' = [NoEdit EXCEPT !.op = "endpoint", !.at = "rows", !.path = path, !.on = configured,
                    !.left = enabled \cup (IF AllowUnknown THEN {Wildcard} ELSE {}), !.route = 0]
    /\ UNCHANGED <<hostRows, routes, granted, withdrawn, unchecked>>

AddEndpointRoute ==
    /\ At_({"endpoint"}, "rows")
    /\ IF edit.left = {} THEN edit' = NoEdit /\ UNCHANGED routes
       ELSE \E h \in edit.left :
            /\ h = Wildcard => edit.left = {Wildcard}
            /\ routes' = [routes EXCEPT ![NewId] = Row(edit.path, h, edit.on, edit.on)]
            /\ edit' = [edit EXCEPT !.left = @ \ {h}]
    /\ UNCHANGED <<hostRows, endpoints, granted, withdrawn, unchecked>>

\* DELETE /api/admin/endpoints/:id
DeleteEndpoint(path) ==
    /\ Begins("close") /\ path \in endpoints
    /\ routes' = [r \in RouteIds |-> IF routes[r].path = path THEN NoRoute ELSE routes[r]]
    /\ granted' = {r \in granted : routes[r].path # path}
    /\ unchecked' = {r \in unchecked : routes[r].path # path}
    /\ edit' = [NoEdit EXCEPT !.op = "close", !.at = "row", !.path = path, !.route = 0]
    /\ UNCHANGED <<hostRows, endpoints, withdrawn>>

DeleteEndpointRow ==
    /\ At_({"close"}, "row")
    /\ endpoints' = endpoints \ {edit.path}
    /\ edit' = NoEdit
    /\ UNCHANGED <<hostRows, routes, granted, withdrawn, unchecked>>

\* POST and PATCH of a single route compare it with no other one.
PostEndpointRoute(path, h, on) ==
    /\ Begins("none") /\ path \in endpoints /\ FreeIds # {}
    /\ h # Wildcard => hostRows[h] = "enabled"
    /\ routes' = [routes EXCEPT ![NewId] = Row(path, h, on, TRUE)]
    /\ unchecked' = unchecked \cup {NewId}
    /\ UNCHANGED <<hostRows, endpoints, granted, edit, withdrawn>>

PatchEndpointRoute(r, h, on) ==
    /\ Begins("none") /\ IsRoute(r)
    /\ h # Wildcard => hostRows[h] = "enabled"
    /\ routes' = [routes EXCEPT ![r] = [@ EXCEPT !.sub = h, !.enabled = on]]
    /\ unchecked' = unchecked \cup {r}
    /\ UNCHANGED <<hostRows, endpoints, granted, edit, withdrawn>>

\* DELETE of a single route leaves its host rows and its authorizations.
DeleteEndpointRoute(r) ==
    /\ Begins("none") /\ IsRoute(r)
    /\ routes' = [routes EXCEPT ![r] = NoRoute]
    /\ granted' = granted \ {r} /\ unchecked' = unchecked \ {r}
    /\ UNCHANGED <<hostRows, endpoints, edit, withdrawn>>

-----------------------------------------------------------------------------
\* A stop of the server: nothing of a call is undone or resumed.
ServerStops ==
    /\ edit # NoEdit
    /\ edit' = NoEdit
    /\ UNCHANGED <<hostRows, endpoints, routes, granted, edits, withdrawn, unchecked>>

EditStep ==
    \/ \E list \in HostLists, path \in Paths, on \in BOOLEAN, give \in {"yes", "no"} :
          \/ CreateRoute(list, path, on, give)
          \/ \E r \in RouteIds : UpdateRoute(r, FALSE, list, path, on, give)
    \/ \E r \in RouteIds, path \in Paths, on \in BOOLEAN : UpdateRoute(r, TRUE, <<>>, path, on, "keep")
    \/ FindOrCreateHost \/ FindOrCreateEndpoint \/ SaveRoute \/ CleanUp
    \/ RevokeGrants \/ InsertGrants \/ DeleteRow
    \/ \E r \in RouteIds : DeleteRoute(r) \/ DeleteEndpointRoute(r)
    \/ \E h \in Offered : \/ PatchSubdomain(h) \/ DeleteSubdomain(h)
                          \/ \E on \in BOOLEAN : PostSubdomain(h, on)
    \/ AddPlaceholder \/ DeleteHostRow \/ AddEndpointRoute \/ DeleteEndpointRow
    \/ \E path \in Paths : \/ DeleteEndpoint(path)
                           \/ \E on \in BOOLEAN : PostEndpoint(path, on)
    \/ \E h \in Offered \cup {Wildcard}, on \in BOOLEAN :
          \/ \E path \in Paths : PostEndpointRoute(path, h, on)
          \/ \E r \in RouteIds : PatchEndpointRoute(r, h, on)
    \/ ServerStops

\* The request keeps track of the routes that have served its host all along.
Watched ==
    request' = [request EXCEPT !.steady = {r \in @ :
                    \A h \in Hosts, path \in Paths :
                        h = request.host /\ path = request.path => Serves(r, h, path)'}]

RouteNext == RequestStep \/ (EditStep /\ Watched)

RouteSpec == RouteInit /\ [][RouteNext]_routeVars

-----------------------------------------------------------------------------
(* Properties.                                                               *)

RouteTypeOK ==
    /\ hostRows \in [Hosts -> {"none", "enabled", "disabled"}]
    /\ endpoints \subseteq Paths /\ granted \cup unchecked \cup request.steady \subseteq RouteIds
    /\ \A r \in RouteIds : IsRoute(r) =>
          /\ routes[r].path \in Paths /\ routes[r].sub \in Hosts \cup {Wildcard}
          /\ routes[r].hosts \subseteq Hosts

\* A route serves every request for its hosts that its users send while no one
\* changes the route itself or takes its host away, whatever is done meanwhile
\* or was done before to the routes, hosts and endpoints around it, however far
\* a call came before the server stopped.  Only a route written by a page that
\* does not compare keys may take its place.
RouteServed ==
    (request.at = "answered" /\ request.steady # {}) =>
        /\ request.answer = "served"
        /\ request.route \in request.steady
=============================================================================
