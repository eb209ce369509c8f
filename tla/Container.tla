------------------------------ MODULE Container ------------------------------
(***************************************************************************)
(* The api container of the management server: the entrypoint of           *)
(* infra/mgmt/Dockerfile.api, the two services it starts, and docker, which *)
(* starts it again (restart: unless-stopped of docker-compose.yml).  The    *)
(* database keeps its schema and the admins over restarts; it may be down. *)
(* The bot is that of BotProcess.                                          *)
(***************************************************************************)
EXTENDS BotProcess

CONSTANTS Usernames,     \* values of ADMIN_USERNAME
          Environments,  \* what .env may be
          MaxRetries,    \* MAX_RETRIES
          MaxFaults      \* bound: outages, crashes, stops and signals together

\* What .env may lack: a DATABASE_URL where a database answers; one that names
\* the async driver; ADMIN_USERNAME; ADMIN_PASSWORD; what api.main needs to be
\* imported (JWT_SECRET_KEY, a TELEMT_PROXY_PORT that is a number); what the bot
\* reads; a BOT_TOKEN that Telegram accepts.
Parts == {"database", "driver", "ADMIN_USERNAME", "ADMIN_PASSWORD", "api", "bot", "token"}

ASSUME ContainerAssumption ==
    /\ MaxRetries \in Nat \ {0}
    /\ MaxFaults \in Nat
    /\ Environments \subseteq [username : Usernames, lacks : SUBSET Parts]

VARIABLES
    database,  \* "up" or "down"
    schema,    \* alembic's revision: "none" or "head"
    admins,    \* admin_users: the names in it
    env,       \* .env as the container was created with it
    entry,     \* the step of the entrypoint; "down" when the container has ended,
               \* "stopped" when it was stopped by hand or never started
    tries,     \* RETRY_COUNT
    api,       \* the API server: "off", "starting", "up" or "ended"
    faults

containerVars == <<database, schema, admins, env, entry, tries, api, faults>>
vars == <<botVars, containerVars>>

\* Everything holds values of its own kind; no service outlives its container.
TypeOK ==
    /\ BotTypeOK
    /\ database \in {"up", "down"}
    /\ schema \in {"none", "head"}
    /\ admins \subseteq Usernames
    /\ env \in Environments
    /\ entry \in {"stopped", "down", "waiting", "migrating", "seeding", "start api", "start bot", "wait"}
    /\ tries \in 0..(MaxRetries - 1)
    /\ api \in {"off", "starting", "up", "ended"}
    /\ faults \in 0..MaxFaults
    /\ entry # "wait" => bot = "off"

-------------------------------------------------------------------------------
\* Every process of the container goes with the script, which is its PID 1.
AllEnd(to) ==
    /\ entry' = to
    /\ tries' = 0
    /\ api' = "off"
    /\ bot' = "off"
    /\ Forgotten
    /\ UNCHANGED <<database, schema, admins, env>>

ContainerEnds == AllEnd("down")

Step(from, to) == entry = from /\ entry' = to

Lacks(part) == part \in env.lacks

\* The three commands before the services find what they need.
CanConnect == database = "up" /\ ~Lacks("database")
CanMigrate == database = "up" /\ ~Lacks("driver")
CanSeed ==
    /\ database = "up"
    /\ ~Lacks("ADMIN_USERNAME")
    /\ env.username \in admins \/ ~Lacks("ADMIN_PASSWORD")

\* docker compose up, once the database is healthy, with what .env holds then.
Up ==
    /\ database = "up"
    /\ Step("stopped", "waiting")
    /\ env' \in Environments
    /\ UNCHANGED <<botVars, database, schema, admins, tries, api, faults>>

\* docker starts a container that ended, whatever its exit code.
Restart ==
    /\ Step("down", "waiting")
    /\ UNCHANGED <<botVars, database, schema, admins, env, tries, api, faults>>

Connect ==
    /\ CanConnect
    /\ Step("waiting", "migrating")
    /\ UNCHANGED <<botVars, database, schema, admins, env, tries, api, faults>>

\* Mutant: the last try sleeps too.
RetryOnceMore ==
    /\ entry = "waiting"
    /\ ~CanConnect
    /\ IF tries + 1 > MaxRetries
       THEN ContainerEnds
       ELSE tries' = tries + 1
            /\ UNCHANGED <<botVars, database, schema, admins, env, entry, api>>
    /\ UNCHANGED faults

\* A failed try sleeps; the last one ends the script.
Retry ==
    /\ entry = "waiting"
    /\ ~CanConnect
    /\ IF tries + 1 >= MaxRetries
       THEN ContainerEnds
       ELSE tries' = tries + 1
            /\ UNCHANGED <<botVars, database, schema, admins, env, entry, api>>
    /\ UNCHANGED faults

\* alembic upgrade head, in one transaction.
Migrate ==
    /\ CanMigrate
    /\ Step("migrating", "seeding")
    /\ schema' = "head"
    /\ UNCHANGED <<botVars, database, admins, env, tries, api, faults>>

\* Mutant: the admin is inserted, which fails when the table has it.
SeedTwiceFails ==
    /\ entry = "seeding"
    /\ CanSeed
    /\ IF env.username \in admins
       THEN ContainerEnds
       ELSE /\ entry' = "start api"
            /\ admins' = admins \cup {env.username}
            /\ UNCHANGED <<botVars, database, schema, env, tries, api>>
    /\ UNCHANGED faults

\* The admin is created when the table has none of the name: ADMIN_PASSWORD is
\* not read otherwise.
Seed ==
    /\ CanSeed
    /\ Step("seeding", "start api")
    /\ admins' = admins \cup {env.username}
    /\ UNCHANGED <<botVars, database, schema, env, tries, api, faults>>

\* Mutant: a failure to create the admin is not looked at.
ScriptFailsUnseen ==
    /\ IF entry = "migrating"
       THEN ~CanMigrate /\ ContainerEnds
       ELSE /\ ~CanSeed
            /\ Step("seeding", "start api")
            /\ UNCHANGED <<botVars, database, schema, admins, env, tries, api>>
    /\ UNCHANGED faults

\* set -e: neither is retried.
ScriptFails ==
    /\ \/ entry = "migrating" /\ ~CanMigrate
       \/ entry = "seeding" /\ ~CanSeed
    /\ ContainerEnds
    /\ UNCHANGED faults

StartApi ==
    /\ Step("start api", "start bot")
    /\ api' = "starting"
    /\ UNCHANGED <<botVars, database, schema, admins, env, tries, faults>>

StartBot ==
    /\ Step("start bot", "wait")
    /\ Launch
    /\ UNCHANGED <<database, schema, admins, env, tries, api, faults>>

\* Mutant: the script waits for both services.
ServiceEndedBoth ==
    /\ entry = "wait"
    /\ api = "ended" /\ bot = "ended"
    /\ ContainerEnds
    /\ UNCHANGED faults

\* wait -n, whatever code it returns and whichever ended first.
ServiceEnded ==
    /\ entry = "wait"
    /\ api = "ended" \/ bot = "ended"
    /\ ContainerEnds
    /\ UNCHANGED faults

Script ==
    \/ Restart \/ Connect \/ Retry \/ Migrate \/ Seed \/ ScriptFails
    \/ StartApi \/ StartBot \/ ServiceEnded

-------------------------------------------------------------------------------
\* uvicorn imports api.main, and with it deps.py and links.py.
ImportApi ==
    /\ api = "starting"
    /\ api' = IF Lacks("api") THEN "ended" ELSE "up"
    /\ UNCHANGED <<botVars, database, schema, admins, env, entry, tries, faults>>

BotGoesOn == Configure(~Lacks("bot")) \/ StartPolling(~Lacks("token")) \/ Closing

Bot ==
    /\ BotGoesOn \/ \E h \in Handlers : Handling(h)
    /\ UNCHANGED containerVars

Fault == faults < MaxFaults /\ faults' = faults + 1

ApiEnds ==
    /\ Fault
    /\ api \in {"starting", "up"}
    /\ api' = "ended"
    /\ UNCHANGED <<botVars, database, schema, admins, env, entry, tries>>

BotEnds ==
    /\ Fault
    /\ BotCrash \/ PollingEnds
    /\ UNCHANGED <<database, schema, admins, env, entry, tries, api>>

DatabaseFails ==
    /\ Fault
    /\ database = "up"
    /\ database' = "down"
    /\ UNCHANGED <<botVars, schema, admins, env, entry, tries, api>>

DatabaseReturns ==
    /\ database = "down"
    /\ database' = "up"
    /\ UNCHANGED <<botVars, schema, admins, env, entry, tries, api, faults>>

\* A command of the script fails for another reason, or the container is killed.
ScriptDies ==
    /\ Fault
    /\ entry \notin {"stopped", "down"}
    /\ ContainerEnds

\* docker stop: bash, as PID 1 and without a trap, ignores the SIGTERM, passes
\* it on to nobody, and everything is killed when the grace period is over.
Stop ==
    /\ Fault
    /\ entry # "stopped"
    /\ AllEnd("stopped")

Init ==
    /\ database \in {"up", "down"}
    /\ schema = "none"
    /\ admins = {}
    /\ env \in Environments
    /\ entry = "stopped"
    /\ tries = 0
    /\ api = "off"
    /\ bot = "off"
    /\ BotFresh
    /\ faults = 0

Next ==
    \/ Script \/ Up \/ ImportApi \/ Bot
    \/ ApiEnds \/ BotEnds \/ ScriptDies \/ DatabaseFails \/ DatabaseReturns \/ Stop

Spec == Init /\ [][Next]_vars

\* Docker and bash run their next step, the two services their own; the database
\* comes back.  Nobody has to send an update, nor to start a stopped container.
Fairness ==
    /\ WF_vars(Script)
    /\ WF_vars(ImportApi)
    /\ WF_vars(BotGoesOn /\ UNCHANGED containerVars)
    /\ WF_vars(DatabaseReturns)

FairSpec == Spec /\ Fairness

-------------------------------------------------------------------------------
\* Neither service ever runs against a database without its tables or without
\* the admin its .env names, after however many failed starts and changes of
\* .env, and whatever .env lacks.
ServicesAreReady ==
    api \in {"starting", "up"} \/ Live => schema = "head" /\ env.username \in admins

\* "container stops if either crashes" (Dockerfile.api:129): whatever .env lacks
\* and whichever service ends, at whatever step of the other one, neither goes
\* on for good without the other.
NeitherAlone == []<>((api = "up") <=> (bot = "polling"))

\* No start with this .env ever comes to the end: it lacks something, or it lacks
\* the password and there is no admin of the name yet.
Hopeless ==
    \/ env.lacks \ {"ADMIN_PASSWORD"} # {}
    \/ Lacks("ADMIN_PASSWORD") /\ env.username \notin admins

\* Whatever outages, crashes and failing commands: unless it is stopped by hand,
\* a container comes to run both services for good, and a start with nothing
\* but ADMIN_PASSWORD missing does so as soon as the admin is there.
BothRun ==
    <>[](\/ entry = "stopped"
         \/ Hopeless
         \/ api = "up" /\ bot = "polling")
=============================================================================
