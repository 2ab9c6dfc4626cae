-------------------------- MODULE MCAdministration --------------------------
(***************************************************************************)
(* The parts that keep the data of the server: its setup, the start on an old  *)
(* database, the accounts, the loop guard with its settings, the routes, the   *)
(* models of a provider and the cache of their aliases.  They share nothing;    *)
(* mode says which of them runs.                                             *)
(***************************************************************************)
EXTENDS ProviderTable, Accounts, LoopGuard, RouteTable, ModelCatalog,
        FirstSetup

CONSTANTS p1, p2, k1, k2, a, b, u1, g0, g1, g2, e1, e2, ok,
          api1, api2, ai2, d1, d2, anyHost, chat, responses, m1, m2, l1, l2,
          c1, c2, f0, f1, pg, badPg, root

VARIABLE mode

MCProviders == {p1, p2}
MCKeys == {k1, k2}
MCCallers == {a, b}
MCUsers == {u1}
MCGroups == {g0, g1, g2}
MCFingerprints == {e1, e2, ok}
MCErrorPrints == {e1, e2}

\* Three hosts: api.d1, api.d2 and ai.d2; routes are offered for two of them.
MCHosts == {api1, api2, ai2}
MCOffered == {api1, ai2}
MCDomain == [h \in MCHosts |-> IF h = api1 THEN d1 ELSE d2]
MCPrefix == [h \in MCHosts |-> IF h = ai2 THEN "ai" ELSE "api"]
MCPaths == {chat, responses}
MCModels == {m1, m2}
MCSettings == {"off", "alias"}
MCCustom == {"off"}
MCLookers == {l1, l2}

MCSetups == {c1, c2}
MCNames == {root}
MCFiles == {f0, f1}
MCUrls == {pg, badPg}
MCUnreachable == {badPg}

\* A resting module is in one state.
AdministrationInit ==
    /\ mode \in {"start", "accounts", "loop guard", "routes", "models", "aliases",
                "setup"}
    /\ TableInit
    /\ mode # "start" => legacy = [p \in Providers |-> [c \in Columns |-> NoKey]]
    /\ AccountInit
    /\ mode # "accounts" => users = [u \in Users |-> "absent"]
    /\ SetupInit
    /\ mode # "setup" => given.secret = Deployed
    /\ GuardInit /\ CatalogInit /\ AliasInit
    /\ IF mode = "routes" THEN RouteInit
       ELSE RouteInit /\ \A r \in RouteIds : ~IsRoute(r)

AdministrationNext ==
    /\ UNCHANGED mode
    /\ \/ mode = "start" /\ TableNext
       \/ mode # "start" /\ UNCHANGED tableVars
    /\ \/ mode = "accounts" /\ AccountNext
       \/ mode # "accounts" /\ UNCHANGED accountVars
    /\ \/ mode = "loop guard" /\ GuardNext
       \/ mode # "loop guard" /\ UNCHANGED guardVars
    /\ \/ mode = "routes" /\ RouteNext
       \/ mode # "routes" /\ UNCHANGED routeVars
    /\ \/ mode = "models" /\ CatalogNext
       \/ mode # "models" /\ UNCHANGED modelVars
    /\ \/ mode = "aliases" /\ AliasNext
       \/ mode # "aliases" /\ UNCHANGED aliasVars
    /\ \/ mode = "setup" /\ SetupNext
       \/ mode # "setup" /\ UNCHANGED setupVars

AdministrationSpec ==
    AdministrationInit
    /\ [][AdministrationNext]_<<mode, tableVars, accountVars, guardVars, routeVars,
                                modelVars, aliasVars, setupVars>>

=============================================================================
