----------------------------- MODULE FirstSetup -----------------------------
(***************************************************************************)
(* The first-run setup and the start of the server around it (setup.ts,       *)
(* routes/setup.ts, db/config.ts, db/index.ts, index.ts).                     *)
(*                                                                         *)
(* A setup writes the configuration file, changes the environment of the       *)
(* process, connects to the database it was given, migrates it, and writes the  *)
(* administrator and the settings, one statement at a time.  Any statement can   *)
(* fail, the process can die anywhere, and calls of several administrators      *)
(* interleave at every await.  A restart keeps the file and the databases and    *)
(* has the deployed environment again.                                       *)
(***************************************************************************)
LOCAL INSTANCE Naturals

CONSTANTS
    Setups,         \* calls of POST /api/setup/complete, each made once
    Unattended,     \* the setup of the starting process
    Names,          \* names of administrators
    Files, Urls,    \* the SQLite files and the PostgreSQL databases
    DefaultFile, Unreachable,   \* a member of Files; a subset of Urls
    Deployed,       \* the secret of a server deployed without an administrator's name
    Nothing,
    MaxBoots, MaxMisses         \* bounds on the starts and on the failed statements

VARIABLES
    given,      \* the environment the server is deployed with
    file,       \* data/yutrix.config.json
    dbs,        \* the databases
    phase,      \* of the process; "up" once it listens
    env,        \* process.env
    connected,  \* currentDb: the database connected to
    completed,  \* setupCompletedInMemory
    pending,    \* setupPendingState
    setups,     \* the calls
    boots, misses,
    finished,   \* history: the setup last answered with ok
    overlapped, \* history: two setups were at work at the same time
    misread     \* history: the users of a database could not be counted

setupVars == <<given, file, dbs, phase, env, connected, completed, pending, setups, boots,
               misses, finished, overlapped, misread>>

-----------------------------------------------------------------------------
Dbs == Files \cup Urls
Driver(d) == IF d \in Urls THEN "postgres" ELSE "sqlite"
SetupIds == Setups \cup {Unattended}

\* admins: the password of every administrator; keys: the secrets the stored keys of
\* providers are encrypted with.
EmptyDb == [made |-> FALSE, tables |-> FALSE, admins |-> [n \in Names |-> Nothing],
            domain |-> Nothing, seeds |-> {}, keys |-> {}]

SomeAdmin(d) == \E n \in Names : dbs[d].admins[n] # Nothing

\* YutrixDbConfig as it is read without a file and as completeSetup builds it
DefaultConfig == [driver |-> "sqlite", path |-> DefaultFile, url |-> Nothing]
ConfigOf(d) == [driver |-> Driver(d), path |-> IF d \in Files THEN d ELSE DefaultFile,
                url |-> IF d \in Urls THEN d ELSE Nothing]

\* Nothing stands for what is not there, undefined or null.
ASSUME SetupAssumption ==
    /\ Files \cap Urls = {} /\ DefaultFile \in Files
    /\ Unattended \notin Setups \cup {Deployed} /\ Names # {}
    /\ Nothing \notin Dbs \cup SetupIds \cup Names \cup {"postgres", "sqlite"}
    /\ \A d \in Dbs : ConfigOf(d) # Nothing

EnvOf(d, secret) ==
    [driver |-> IF d = Nothing THEN Nothing ELSE Driver(d),
     url |-> IF d \in Urls THEN d ELSE Nothing,
     path |-> IF d \in Files THEN d ELSE Nothing, secret |-> secret]

\* The environment first, then the file, then the default.
Loaded ==
    LET f == IF file = Nothing THEN DefaultConfig ELSE file
        postgres == env.url # Nothing \/ env.driver = "postgres"
    IN  IF postgres \/ (env.driver = Nothing /\ f.driver = "postgres")
        THEN IF env.url # Nothing THEN env.url ELSE f.url
        ELSE IF env.path # Nothing THEN env.path ELSE f.path

\* Not set up as far as the process can tell: whatever goes wrong reads as fresh.
Fresh ==
    /\ ~completed
    /\ \/ Loaded \in Files /\ ~dbs[Loaded].made
       \/ connected = Nothing
       \/ ~SomeAdmin(connected)

NoSetup == [at |-> "absent", db |-> Nothing, name |-> Nothing, found |-> FALSE]

\* The statements of completeSetup, in order; bootstrap runs the Seeding again.
Writing == <<"connect", "migrate", "look", "admin", "domain", "settings", "policies", "group",
             "done">>
Seeding == {"settings", "policies", "group"}
Following(s) == Writing[CHOOSE i \in 2..9 : Writing[i - 1] = s]
AtWork == {"asked"} \cup {Writing[i] : i \in 1..9}

SetupInit ==
    /\ given \in {EnvOf(Nothing, Deployed)}
                 \cup {EnvOf(d, Unattended) : d \in {Nothing} \cup (Dbs \ Unreachable)}
    /\ file = Nothing /\ dbs = [d \in Dbs |-> EmptyDb]
    /\ phase = "down" /\ env = given /\ connected = Nothing
    /\ completed = FALSE /\ pending = FALSE
    /\ setups = [c \in SetupIds |-> NoSetup]
    /\ boots = 0 /\ misses = 0
    /\ finished = [by |-> Nothing, db |-> Nothing, name |-> Nothing]
    /\ overlapped = FALSE /\ misread = FALSE

-----------------------------------------------------------------------------
(* The start of the process: index.ts *)

Boot ==
    /\ phase = "down" /\ boots < MaxBoots
    /\ boots' = boots + 1 /\ phase' = "connect"
    /\ UNCHANGED <<given, file, dbs, env, connected, completed, pending, setups, misses,
                   finished, overlapped, misread>>

\* initDb() without arguments: a start that cannot connect is given up (StartFails).
BootConnect ==
    /\ phase = "connect" /\ Loaded \notin Unreachable
    /\ connected' = Loaded /\ phase' = "fresh?"
    /\ dbs' = [dbs EXCEPT ![Loaded].made = TRUE,
                          ![Loaded].tables = @ \/ Loaded \in Urls]
    /\ UNCHANGED <<given, file, env, completed, pending, setups, boots, misses, finished,
                   overlapped, misread>>

\* The count of the users, or its failure.
Counted(fresh) ==
    \/ fresh = Fresh /\ UNCHANGED <<misses, misread>>
    \/ /\ ~completed /\ ~Fresh /\ fresh /\ misses < MaxMisses
       /\ misses' = misses + 1 /\ misread' = TRUE

\* Set up already: bootstrap.  Else the setup the environment describes, or the wizard.
BootDecides ==
    /\ phase = "fresh?"
    /\ \E fresh \in BOOLEAN :
        /\ Counted(fresh)
        /\ pending' = (fresh /\ given.secret = Deployed)
        /\ phase' = IF ~fresh THEN "migrate" ELSE IF pending' THEN "up" ELSE "setup"
        /\ setups' = IF phase' # "setup" THEN setups
                     ELSE [setups EXCEPT ![Unattended] =
                             [at |-> "asked", name |-> CHOOSE n \in Names : TRUE, found |-> FALSE,
                              db |-> IF given.driver = Nothing THEN DefaultFile ELSE Loaded]]
    /\ UNCHANGED <<given, file, dbs, env, connected, completed, boots, finished, overlapped>>

UnattendedDone ==
    /\ phase = "setup" /\ setups[Unattended].at = "ok"
    /\ phase' = "migrate"
    /\ UNCHANGED <<given, file, dbs, env, connected, completed, pending, setups, boots, misses,
                   finished, overlapped, misread>>

\* A seed adds what is missing to the database connected to.
Seeded(seed) == dbs' = [dbs EXCEPT ![connected].seeds = @ \cup {seed}]

\* Branding, concurrency, model discovery and loop guard
SeedSettings == Seeded("settings") /\ UNCHANGED misses

\* The built-in prompt policies: a failure is logged and passed over.
SeedPolicies ==
    \/ Seeded("policies") /\ UNCHANGED misses
    \/ misses < MaxMisses /\ misses' = misses + 1 /\ UNCHANGED dbs

EnsureDefaultGroup == Seeded("group") /\ UNCHANGED misses

Seed(at) == \/ at = "settings" /\ SeedSettings
            \/ at = "policies" /\ SeedPolicies
            \/ at = "group" /\ EnsureDefaultGroup

\* bootstrap: the migrations, an administrator of its own where there is none, the seeds
Bootstrap ==
    /\ phase \in {"migrate"} \cup Seeding
    /\ \/ /\ phase = "migrate" /\ dbs' = [dbs EXCEPT ![connected].tables = TRUE]
          /\ UNCHANGED misses
       \/ Seed(phase)
    /\ phase' = CASE phase = "migrate" -> "settings" [] phase = "group" -> "up"
                  [] OTHER -> Following(phase)
    /\ UNCHANGED <<given, file, env, connected, completed, pending, setups, boots, finished,
                   overlapped, misread>>

\* The state of a process that is gone
Gone ==
    /\ phase' = "down" /\ env' = given /\ connected' = Nothing
    /\ completed' = FALSE /\ pending' = FALSE
    /\ setups' = [c \in SetupIds |->
                    IF c = Unattended THEN NoSetup
                    ELSE [setups[c] EXCEPT !.at = IF @ \in AtWork THEN "lost" ELSE @]]

\* The process exits when its database, its own setup or a step of bootstrap fails.
StartFails ==
    /\ \/ phase = "connect" /\ Loaded \in Unreachable /\ UNCHANGED misses
       \/ setups[Unattended].at \in {"failed", "refused"} /\ UNCHANGED misses
       \/ /\ phase \in {"connect", "migrate", "settings", "group"}
          /\ misses < MaxMisses /\ misses' = misses + 1
    /\ Gone
    /\ UNCHANGED <<given, file, dbs, boots, finished, overlapped, misread>>

ProcessDies ==
    /\ phase # "down" /\ boots < MaxBoots
    /\ Gone
    /\ UNCHANGED <<given, file, dbs, boots, misses, finished, overlapped, misread>>

-----------------------------------------------------------------------------
(* POST /api/setup/complete; the setup of a starting process skips the route *)

Working(c) == setups[c].at \in AtWork
Put(c, at) == setups' = [setups EXCEPT ![c].at = at]

RouteCheck(c) ==
    /\ phase = "up" /\ c \in Setups /\ setups[c].at = "absent"
    /\ \E fresh \in BOOLEAN, d \in Dbs, n \in Names :
        /\ Counted(fresh)
        /\ setups' = [setups EXCEPT ![c] = [at |-> IF fresh THEN "asked" ELSE "refused",
                                            db |-> d, name |-> n, found |-> FALSE]]
    /\ overlapped' = (overlapped \/ \E o \in SetupIds : Working(o))
    /\ UNCHANGED <<given, file, dbs, phase, env, connected, completed, pending, boots, finished>>

\* The file and the environment are written before the database is tried.  What an earlier
\* attempt put into the environment for the other driver stays there.
SaveConfig(c) ==
    LET d == setups[c].db IN
    /\ file' = ConfigOf(d)
    /\ env' = [driver |-> Driver(d), secret |-> c,
               url |-> IF d \in Urls THEN d ELSE env.url,
               path |-> IF d \in Files THEN d ELSE env.path]

\* completeSetup checks once more; from there to the connection nothing comes between.
SetupBegins(c) ==
    /\ setups[c].at = "asked"
    /\ \E fresh \in BOOLEAN :
        /\ Counted(fresh) /\ Put(c, IF fresh THEN "connect" ELSE "refused")
        /\ IF fresh THEN SaveConfig(c) ELSE UNCHANGED <<file, env>>
    /\ UNCHANGED <<given, dbs, phase, connected, completed, pending, boots, finished, overlapped>>

\* Mutant: the files of two configurations are not compared.
SameDriver(d) == connected # Nothing /\ Driver(connected) = Driver(d)

\* isSameConfig: the connection is kept when it is to the same database.
SameDb(d) == connected = d

Connect(c) ==
    /\ setups[c].at = "connect" /\ Put(c, "migrate")
    /\ LET d == setups[c].db IN
        IF SameDb(d) THEN UNCHANGED <<connected, dbs>>
        ELSE connected' = d /\ dbs' = [dbs EXCEPT ![d].made = TRUE]
    /\ UNCHANGED <<given, file, phase, env, completed, pending, boots, misses, finished,
                   overlapped, misread>>

\* Every statement goes to the database connected to now.  The migrations are those of the
\* driver asked for; a name is inserted only once.
CanRun(c) ==
    CASE setups[c].at = "migrate" ->
            connected \notin Unreachable /\ Driver(connected) = Driver(setups[c].db)
      [] setups[c].at = "admin" ->
            setups[c].found \/ dbs[connected].admins[setups[c].name] = Nothing
      [] OTHER -> TRUE

\* The next statement of the setup, when it can be run
Reaches(c, at) == setups[c].at = at /\ CanRun(c)
GoesOn(c) == Put(c, Following(setups[c].at))
elsewhere == <<given, file, phase, env, connected, completed, pending, boots, finished,
               overlapped, misread>>

Migrate(c) ==
    /\ Reaches(c, "migrate") /\ GoesOn(c)
    /\ dbs' = [dbs EXCEPT ![connected].tables = TRUE]
    /\ UNCHANGED <<elsewhere, misses>>

FindAdmin(c) ==
    /\ Reaches(c, "look")
    /\ setups' = [setups EXCEPT ![c].at = Following(@),
                      ![c].found = dbs[connected].admins[setups[c].name] # Nothing]
    /\ UNCHANGED <<elsewhere, dbs, misses>>

WriteAdmin(c) ==
    /\ Reaches(c, "admin") /\ GoesOn(c)
    /\ dbs' = [dbs EXCEPT ![connected].admins[setups[c].name] = c]
    /\ UNCHANGED <<elsewhere, misses>>

WriteDomain(c) ==
    /\ Reaches(c, "domain") /\ GoesOn(c)
    /\ dbs' = [dbs EXCEPT ![connected].domain = c]
    /\ UNCHANGED <<elsewhere, misses>>

SetupSeeds(c) ==
    /\ setups[c].at \in Seeding /\ Seed(setups[c].at) /\ GoesOn(c)
    /\ UNCHANGED elsewhere

\* The last seed returns: the gate is opened and the call is answered.
Finish(c) ==
    /\ setups[c].at = "done" /\ Put(c, "ok")
    /\ completed' = TRUE /\ pending' = FALSE
    /\ finished' = [by |-> c, db |-> setups[c].db, name |-> setups[c].name]
    /\ UNCHANGED <<given, file, dbs, phase, env, connected, boots, misses, overlapped, misread>>

\* An error ends the setup with status 500; nothing of what was done is taken back.
SetupFails(c) ==
    /\ setups[c].at \in {Writing[i] : i \in 2..8} \ {"policies"} /\ Put(c, "failed")
    /\ IF CanRun(c) THEN misses < MaxMisses /\ misses' = misses + 1 ELSE UNCHANGED misses
    /\ UNCHANGED <<given, file, dbs, phase, env, connected, completed, pending, boots, finished,
                   overlapped, misread>>

\* An administrator stores the key of a provider: it is encrypted with the secret of the
\* environment.  The gate lets no such request through while the setup is pending.
StoreKey ==
    /\ phase = "up" /\ ~pending /\ SomeAdmin(connected)
    /\ dbs' = [dbs EXCEPT ![connected].keys = @ \cup {env.secret}]
    /\ UNCHANGED <<given, file, phase, env, connected, completed, pending, setups, boots, misses,
                   finished, overlapped, misread>>

SetupNext ==
    \/ Boot \/ BootConnect \/ BootDecides \/ UnattendedDone \/ Bootstrap
    \/ StartFails \/ ProcessDies \/ StoreKey
    \/ \E c \in SetupIds : \/ RouteCheck(c) \/ SetupBegins(c) \/ Connect(c)
                           \/ Migrate(c) \/ FindAdmin(c) \/ WriteAdmin(c) \/ WriteDomain(c)
                           \/ SetupSeeds(c) \/ Finish(c) \/ SetupFails(c)

SetupSpec == SetupInit /\ [][SetupNext]_setupVars

-----------------------------------------------------------------------------
\* Setups one after the other, each of them wherever it fails or the process dies: a server that
\* is up and lets requests through is connected to a database with an administrator; and what a
\* setup was answered ok for stays, through later setups and restarts: the file names its
\* database, which has its administrator with its password, its domain, the settings and the
\* default group, and the server that is up uses it.  (Claimed as long as the users of a
\* database that has some could be counted: a count that fails reads as a fresh server.)
SetupKept ==
    ~overlapped /\ ~misread =>
      /\ phase = "up" /\ ~pending => SomeAdmin(connected)
      /\ finished.by # Nothing =>
           LET d == finished.db IN
           /\ file = ConfigOf(d)
           /\ dbs[d].admins[finished.name] = finished.by
           /\ dbs[d].domain = finished.by /\ {"settings", "group"} \subseteq dbs[d].seeds
           /\ phase = "up" => connected = d

\* "The system encrypts the API keys of the providers with this secret": a key stored by a
\* server that was set up can be read again after a restart.
KeysReadable == phase = "up" /\ ~pending => dbs[connected].keys \subseteq {env.secret}

=============================================================================
