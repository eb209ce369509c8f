# telemt-mgmt in TLA+

Specifications, model-checking runs and machine-checked proofs for the
management layer of the Telemt MTProxy: the Telegram bot, the Admin API, the
admin panel, the database they share, and the shell scripts that deploy and move
the servers. `PROJECT.json` is the index (components, runs, mutants, the source
lines behind every definition, hazards, theorems).

## 1. The system

| Component | State it keeps | Operations | Talks to |
|---|---|---|---|
| **telemt** (external HTTP service, `:9091`) | accounts, their secrets, disabled flags | create, get, disable, enable, rotate, statistics | called by bot and API |
| **telemt_proxy package** (C1) `client.py`, `router.py`, `database.py`, `models.py`, `hashing.py`, `link.py`, `qr.py` | rows of `proxy_users` | `/start`, the `get_proxy` callback | telemt, PostgreSQL, Telegram |
| **standalone bot** (C2) `bot/` | the process, the one telemt client its concurrent handlers share | start, poll, close | C1, Telegram |
| **Admin API** (C3) `api/` | rows of `proxy_users`, `labelled_links`, `admin_users`; the login rate limiter's timestamps and the pool of database connections (in memory) | login; list, disable, enable users; list, create, delete links; statistics; health | telemt, PostgreSQL |
| **admin panel** (C4) `frontend/` | JWT in `localStorage`, component state, requests in flight | login, paging, toggling, creating and deleting links | C3 |
| **database and container** `alembic/`, `infra/mgmt/Dockerfile.api` | schema, first admin | wait for the database, migrate, seed, start both services, stop both when one stops | PostgreSQL |
| **deploy scripts** (C5, C7) `infra/*/deploy-*.sh`, `infra/lib/common.sh` | the `.env` file of each server, generated configurations, certificates, firewall, running containers | prompt, generate secrets, save, generate, start; re-run | operator, Docker, certbot |
| **migration** `scripts/migrate.sh`, `scripts/cloudflare-dns.sh` | files on two servers, DNS record | stop, archive, copy, deploy, switch DNS, check | ssh, Cloudflare |
| **documentation validator** `scripts/validate_docs.py` | a run's sets and the stack of its search | collect, check, cite, depend, search for a cycle | the documents |
| landing page (C6), monitoring, QR and link text, `set-models.py` | — | — | — |

Interactions. A press of "Get Proxy" and every admin request write *two* stores
one after the other, telemt first and PostgreSQL second, without a common
transaction and without a retry. Handlers of one process interleave at every
`await`; bot and API are two processes of one container and stop together. A
telemt call that timed out may have been executed, or may still be executed
later. The panel is a third place that holds a copy of the state. The deploy
scripts keep their only memory in `.env`, written line by line while an operator
may interrupt them.

What is hard here, in the order of importance: partial failure between the two
stores; overlapping handlers for one account; ambiguous timeouts and late calls;
restarts; stale copies (the local `is_active`, the panel, an old `.env`); an
interrupted script that is run again; the rate limiter that checks, awaits and
then records; connections held across slow calls; an entrypoint that starts over
wherever the last start ended.

## 2. Modules

| Module | Models | Checked by | Proved in |
|---|---|---|---|
| `Lifecycle` | what provisioning promises about one account (abstract) | `RefinesLifecycle` | `ProvisioningRefinement` |
| `Provisioning` | bot callback, link and user routes, telemt, both tables, failures | `MCProvisioning`, 5 runs | `ProvisioningProofs` |
| `LoginLimiter` | `POST /api/auth/login` and its rate limiter | 1 run | `LoginLimiterProofs` |
| `EnvFile` | `.env`, `load_env`, `save_env_var`, `prompt_for` of `common.sh` | through the next two | `TunnelProofs` |
| `ExitDeploy` | `deploy-exit.sh`, interrupted and re-run | `ExitKeyGap`, and through `Tunnel` | `TunnelProofs` |
| `EntryDeploy` | `deploy-entry.sh` | through `Tunnel` | `TunnelProofs` |
| `Tunnel` | both scripts and the operator who carries the values over (composition) | 1 run | `TunnelProofs` |
| `AdminApi` | tokens, `get_current_user`, sessions on the connection pool, what every route awaits | 1 run | `AdminApiProofs` |
| `UserTable` | `list_users` and the panel's table of users | `MCUserTable`, 1 run | `UserTableProofs` |
| `BotProcess` | the process of the standalone bot and its telemt client | through `Container` | `ContainerProofs` |
| `Container` | the entrypoint, the two services it starts and docker's restart (composition) | `MCContainer`, 1 run | `ContainerProofs` |
| `ValidateDocs` | `validate_docs.py` | `MCValidateDocs`, 1 run | `ValidateDocsProofs` |

`MCProvisioning`, `MCUserTable` and `MCValidateDocs` define the symmetry sets, the
last one also the folders and `MCContainer` the `.env` files that their configurations
name; every other constant gets its value in the `.cfg` file of the run.

## 3. Provisioning

**State.** `telemtSecret`, `telemtDisabled`: telemt. `proxyUsers`, `links`: the
committed rows. `pc`, `name`, `held`, `outcome`: one record per running handler
(its place between two awaits, its account, the secret in its local variable,
what its caller was answered). `late`: calls whose sender gave up and that telemt
may still execute. `served`, `reEnabled`: history. `faults`: counts failures.

**Actions and code.** `GetProxy` is `_handle_get_proxy` up to its first telemt
call, `CreateUser`/`GetUser` the call, `StoreUser` the commit, `SendLink` the two
messages (the link, then its QR code; if something fails at the second, `HandlerFails`
may have delivered the link). `CreateLink`, `CreateUser`, `FlushUser`, `CommitLink` are `create_link`;
`DeleteLink`, `DisableUser`, `RemoveLink` are `delete_link`; `ToggleUser` with
`DisableUser`/`EnableUser` are the two user routes. `ConnectionFails` (timeout or
connection error, the request lost or still under way), `TelemtRefuses` (4xx/5xx
without effect), `HandlerFails` (database or Telegram), `Crash` (the container;
uncommitted work is gone). `Finish` always gives up what was not committed: the
session is closed by its context manager.

The insert of `FlushUser` waits while another transaction holds an uncommitted
row of the same name: that is PostgreSQL's unique index. Two accounts never share
a hash in the model (`TelegramUsers` and `Labels` are disjoint names); the
16-hex-digit truncation is not modelled.

**Open questions become parameters.** Nothing in the repository says what telemt
answers to `create` of an existing name (`ConflictOnCreate`), and the repository
contradicts itself about whether `get` carries the secret (`SecretInGet`).

**Properties and runs.**

| Run | Instance | What it shows |
|---|---|---|
| `ProvisioningAdmin` | 1 label, 3 requests, 1 failure | the second 409 of `create_link` is dead code; a deleted label's account stays off; a 201, a 409 and the confirmation of a delete stay true; every request ends, also behind a row lock; the invariant the proofs use |
| `ProvisioningMixed` | 1 user, 1 label, 2 callbacks, 1 request, 1 failure, 2 secrets | types, with no stored link without a secret; no row without its account; no foreign, invented or empty secret leaves the system; the refinement of `Lifecycle` |
| `ProvisioningServes` | 1 user, 2 callbacks, 1 request, 2 failures | who keeps pressing is served, *if* telemt's create is idempotent; until something fails, one of two overlapping presses is enough and the stores agree at rest |
| `ProvisioningSameLink`, `ProvisioningListedStatus` | small | two disagreements of section 7 |

Three requests are enough for a create, a delete and a second create to overlap;
two callbacks for the race on the unique constraint; two failures, where users
retry, for a failure of the retry. Tasks are symmetric in the runs without liveness.

**Fairness.** `WF` on "telemt answers this task, or the task's handler goes on":
the event loop resumes every coroutine whose await is over, and httpx bounds each
call by a timeout (which is then one of the counted failures). No fairness for
users, for late calls or for failures. `EventuallyServed` assumes of the user
only that he keeps pressing.

**What was learned.** With `ConflictOnCreate = TRUE`, one crash between telemt's
create and the commit locks a user out for good (`EventuallyServed` fails there);
a review in the repository names it as a known limitation. A label that was
deleted can never be created again (`retired` has no way out), because
`delete_link` keeps the `proxy_users` row and telemt keeps the account.

## 4. Further modules

### Login and rate limiter (`LoginLimiter`)

**State.** `attempts`: the limiter's list per address, as ages in clock ticks
instead of `time.monotonic()` stamps (an age stops at the window, beyond which no
test of the code looks). `pc`, `client`: one login per task and where it stands
between two awaits. `promise`: history, the last `Retry-After` an address was
given, how many failures were counted then, and whether another was recorded since.

**Actions.** `Admit`/`Limit` is the test at the top of `login`, `Refuse` the 429,
`FindAdmin` the database, `Accept` and `Reject` what follows bcrypt,
`LookupFails` a failing database, `Tick` the clock. `LoopFree` keeps the clock
and other handlers out of the short stretch without an await between the test and
the 429, except that time may pass between its two readings of the clock.

| Run | Instance | What it shows |
|---|---|---|
| `LoginLimiter` | 1 address, 3 logins at once, maximum 3, window 3 s of 2 ticks | the list never holds more than maximum + concurrent logins − 1; who waits for `Retry-After` has one failure less against him, or none; the list stays in order; a limit ends by time alone; the inductive invariant |

Three concurrent logins let the count go past the maximum by two, and then one failure
less is not enough: `RetryAfterFreesOne` says what is true there too, and section 7 what
is not. With the maximum counted, one less ends the limit. 2 ticks per
second make the rounding of `Retry-After` visible. The lists of different
addresses never meet in the code, so one address is enough for the run; the
proofs have any number. Fairness: the clock only.

### Deploy scripts (`EnvFile`, `ExitDeploy`, `EntryDeploy`, `Tunnel`)

**State.** `exitEnv` is `.env`, `exitShell` the variables of a running script,
`exitPc` the step it is at. `exitFiles` are the values in the generated
configurations, `exitLoaded` those each container was created with (a running
container does not notice a new file), `exitUp` the containers that run. Secrets
are numbered as they are made; both halves of a key pair have one number. The
entry server has the same variables; `told` is what the last summary said.

**Actions.** One per step of the script that asks, generates, saves or starts
something, in the script's order. `Ask`, `Secret` and `Generate` stand for the
places with the same text. `ExitRunFails` ends a run at any step: Ctrl-C, a lost
connection, an answer that ends the script, or any tool that fails under
`set -euo pipefail` (`xray`, `docker`, `grep` in lines 388-394), with `compose up` and
`compose down` done in part and a rollback that may fail. `DnsNotReady`, `CertbotFails`,
`ComposeDownFails`, `ComposeUpFails` are failures the script handles or ignores.
`PublicKeyUnbound` and `StartExitFails` end a run because of what `.env` holds, so that
the next run ends there too; only these two are labelled "died". `EditExitEnv` is the
operator who edits one of the variables in `Edited` before a re-run. A secret is
generated and saved in one step, and a file is written in one; the two steps between
which an interruption matters, the saves of the key pair, are apart.

| Run | Instance | What it shows |
|---|---|---|
| `Tunnel` | both scripts; 1 own domain, 1 third-party, lists with blanks, 2 troubles and 2 edits on the exit server, 1 trouble on the entry server | a saved secret never changes; no container runs with a secret that `.env` does not hold (other values may be old ones, section 7); both ends match whenever both run; nothing entered goes stale; running the script again completes, unless `.env` has become unusable in one of the two known ways; a repeated run asks and changes nothing |
| `ExitKeyGap` | 1 interruption | half a key pair in `.env` (section 7) |

Five values are generated in a first run and one more for each interruption that
loses one. `EventuallyDeployed` excepts the two states `Unusable` names, a line
bash cannot load and half a key pair; `ExitKeyGap` shows the way into the second, and with
`IpLists = {blank}` and `MaxTroubles = 0` in its configuration the way into the first. Troubles are finite: a tool that fails for ever is outside the property. In `Tunnel`
the operator edits TLS_DOMAIN and MANAGEMENT_IPS; an edited SNI has to be carried to the
entry server again, which `TunnelMatches` does not promise. Fairness: the operator answers and
starts the script again; no step of the script waits for anything else.
The entry script asks nothing that the summary does not answer, and nothing is
assumed of it. `AcceptsDefaults` says whether its operator presses Enter at the
one question with a default (section 7).

### Admin API: tokens, sessions and the pool (`AdminApi`)

**State.** `clock`, `issuedAt`: the wall clock in fractions of a second and the
time the token in use was made. `isActive`: the admin's row. Per request its
place (`pc`), what its route still awaits (`left`), whether its session holds a
connection (`holds`) and its answer. `wasActive` is history.

**Actions.** `Begin`/`RefuseToken` are `jwt.decode`, which runs before anything is
awaited; `Connect`/`PoolTimeout` the first query of the session, which takes a
connection of the pool (`pool_size` + `max_overflow`); `Authenticate`/`RefuseAdmin`
the rest of `get_current_user`; `Await` one query or one telemt call of the route,
`Merge` its answer; `TelemtFails` the 502 of the routes and of the handler in
`main.py`, the 404 of the two user routes, and the 500 of what neither catches (the model
allows all three at every telemt call), `DatabaseFails` the 500 of a connection that is not
opened or a query that fails; `Close`
the end of `get_db_session`, which gives the connection back after the answer. The
routes are the sequences of their awaits, so all five read and toggle routes are
one model; the two routes that write links await the same things and are in
`Provisioning`. FastAPI gives the route and `get_current_user` *one* session: that
is why nobody holds a connection and waits for a second one.

| Run | Instance | What it shows |
|---|---|---|
| `AdminApi` | 3 requests, 2 connections, lifetime 1 s of 2 readings | no data without an active account, however long the request waited; a token loses nothing to its two roundings; whoever waits for a connection gets one although nobody uses the pool's timeout |

Three requests on two connections are the smallest crowd in which somebody waits
while others hold; two readings a second make the rounding visible. Fairness:
every request goes on when its await is over, because httpx bounds the telemt
calls; that the pool's timeout fires is *not* assumed, and new requests stop
coming at some time (a premise of `WaitersConnect`: the pool is not fair to
somebody who waits in a stream of others).

### List of users (`UserTable`)

**State.** `committed`, `inserting`, `lastId`: `proxy_users`, whose ids come from a
sequence and become visible out of order. `page`, `data`, `loading`, `error`,
`acting`: the component's state. `job`: a call of `fetchUsers` or `handleToggle`
per job, with the page of its closure and what the server has answered so far.
`goal`, `seen`, `overlap`: history.

**Actions.** `Open` is the mount, `NextPage`/`PreviousPage` the buttons with the
effect they trigger, `Toggle` to `ToggleFails` the two halves of `handleToggle`,
`CountUsers` and `SelectPage` the two queries of `list_users`, `Show`/`FetchFails`
the end of `fetchUsers`. `Insert`, `Commit`, `Rollback` are the bot and the other
admins.

| Run | Instance | What it shows |
|---|---|---|
| `UserTable` | 3 calls in flight, 3 rows, pages of 1 row | the table at rest shows the page its buttons count from; turning the pages shows everybody who was settled |

Both properties except a page turned while a toggle was in flight (`overlap`):
`handleToggle` then fetches the page of its closure. Removing the exception makes
TLC find that, as it should. A user is *settled* when no transaction with a
smaller id is open: only such rows keep their position from below, and for others
the promise would be false (a late commit pushes a row to a page that was already
shown). Three rows of pages of one are needed for a row in front of, on and behind
the page.

### Bot process and container (`BotProcess`, `Container`)

**State.** `bot` is the place in `main`/`run_bot`; `client`, `made`, `open` the lazily
created httpx client; `task` what each handler does and on which client its request
is out. `entry` is the step of the entrypoint, `tries` its counter, `api` the other
service; `database`, `schema`, `admins` what survives a restart; `env` the `.env` that
`docker compose up` last read: the admin's name and what the file lacks, of `Parts`.

**Actions.** `Connect`/`Retry`, `Migrate`, `Seed`, `ScriptFails` (`set -e`),
`StartApi`, `StartBot`, `ServiceEnded` (`wait -n`) are the entrypoint in its order,
`ScriptDies` every other end of it; `ImportApi` is the import of `api.main`;
`Restart` is `restart: unless-stopped`, `Up` and `Stop` the operator. `Configure`
is `BotConfig.from_env` and what `setup_bot` refuses; `StartPolling` (which a refused token
ends, at every start), `PollingEnds`, `CloseClient`,
`ForgetClient`, `CloseSession` are `run_bot` with its `finally`, cut at its awaits;
`Request` is `_get_client` and the first half of `_request`. aiogram, which is
external, runs each update in a task of its own and does not wait for it when
polling stops. `ApiEnds`, `BotEnds`, `ScriptDies`, `DatabaseFails` and `Stop` are the
faults. Left out: a service that ends before bash gets to `wait -n`, which some versions of
bash then do not report.

| Run | Instance | What it shows |
|---|---|---|
| `Container` | 2 handlers, 2 admin names, an `.env` that lacks nothing or one of 7 parts, 3 tries, 5 faults | services run only with tables and the admin of `.env`; one client for telemt at a time; neither service goes on for good without the other; both come to run for good unless the container is stopped by hand or no start with this `.env` can succeed (`Hopeless`) |

`Hopeless` is read off the code: a variable a step of the entrypoint or a service cannot do
without, or a token that Telegram refuses, fails every start, and so does a missing
`ADMIN_PASSWORD` as long as there is no admin of the name; with the admin there it is never
read, and the container runs. For such an `.env` `NeitherAlone` still says that what is
restarted is restarted as a whole. Five faults allow a failed start, a crash while running and an outage during the
next start. Fairness: docker, bash and the bot take their next step and the
database comes back; users and operators owe nothing.

### Validator of the documents (`ValidateDocs`)

**State.** `folder`: the documents in the order of their paths. `phase`: the part of
`main` that runs next. `known`, `errors`, `ticketDeps`: its variables. `color`,
`stack`, `todo`, `cycle`: `detect_cycle`, where `stack` is both the list it passes
along and the recursion.

**Actions.** `Collect`, `Check`, `Cite`, `Depend`, `Report` are the loops of `main`;
`Root`, `Descend`, `PassOver`, `Found`, `Return`, `NoCycle` the search, call by call,
with the dependencies of a ticket in any order.

| Run | Instance | What it shows |
|---|---|---|
| `ValidateDocs` | folders of at most 3 documents of a sample (`MCValidateDocs`) over 3 tickets, 1 other artefact, 1 id that is not checked, 1 unlisted id | a cycle is reported exactly when there is one; what is printed is one; exit code 0 means a sound folder |

The sample has every ticket with at most two dependencies, and of the other documents one
of each sort: without an id, with a wrong name or field, citing with and without a pin;
the proofs have every folder. Three tickets have every kind of cycle a search can meet: a loop of one, of two, of
three, one behind a path, none. The program ends, so a state without a successor is
no deadlock.

## 5. Proofs

TLAPS proves the following for every value of the constants: sets of users, labels and
tasks, numbers of failures and secrets, both answers to the open questions. Assumed are
only the named constant assumptions of the modules; the one further hypothesis,
`SniCarriedOver`, is stated in the two theorems that need it.

`ProvisioningProofs`: the inductive invariant is `IndInv`. The safety properties
are not inductive by themselves, because a handler acts on what it learned some
awaits earlier; `TaskKnowledge` says what that is at every place in the code and
`FlushExclusive` that one uncommitted row per name exists. The argument is in two
layers: `NextShape` shows once, action by action, that every step has the *shape*
`StepShape` (what a step can do to a task, to the tables, to telemt, to answers);
the lemmas `Next...` derive each part of the invariant from the shape alone. The
theorems `Inductive`, `TypeCorrect`, `RowsAlwaysHaveTelemtUser`,
`SecondConflictNeverReached`, `SecretsAlwaysIssued`, `DeletedLabelsStayDisabled`
and `LinkAnswersAlwaysStayTrue` follow; the last one covers the 201 and 409 of
`create_link` and the confirmation of `delete_link`, and not the 200 of the two user
routes, which another call may undo. `IdleStoresAlwaysAgree` needs one more invariant,
`NoOrphans`: until something fails no abandoned call is under way, and an account
telemt has without a row is one that a running task is about to store.

`ProvisioningRefinement`: `Implements`, the refinement of `Lifecycle`. A step that
writes no table is a `Provision`, a `Deliver` or a stutter, one that does is a
`Register`, a `List` or a `Retire`.

`LoginLimiterProofs`: for any maximum, window, resolution of the clock and any
finite set of concurrent logins. `LimiterInv` adds to the types how many logins can
be between test and record (`InFlightBounded`) and, for every address with a
promise, where its list stands relative to the promised time (`PromiseHolds`).
The rounding of `retry_after` is one lemma about division. `OldestFirst`, the list in
order of time, is what makes the cleanup, which drops a prefix in the model, the filter
it is in the code (`CleanupInOrder` counts the stamps behind a position). `LimiterInductive`,
`FailuresStayBounded`, `RetryAfterFrees` (one counted failure less, or none, after the promised
time, also with a list above the maximum), `CleanupAlwaysFilters`.

`AdminApiProofs`: for any number of requests, connections, any lifetime and any
resolution of the clock. `TypeOK` carries what the other two need (who is being
authenticated holds a connection). `OnlyActiveAdmins` is strengthened by: a request
past its authentication was active at some time since it began. `TokenLifetime` is
arithmetic about the two divisions: `SecondIsFloor`, `WholeSeconds` and
`AcceptedWhileValid`.
`PoolSafe` (no more connections out than there are, and who waits for one holds none)
is the part of `WaitersConnect` that needs no fairness: from it follows
`NoCircularWait`, a request in front of an empty pool waits for one that is past its own
wait. That the other one also ends is what the run checks under fairness.
`TypesHold`, `DataOnlyForActiveAdmins`, `TokensLive`, `PoolNeverDeadlocks`.

`UserTableProofs`: for any number of calls, rows and any page size. The invariant
`TableInv` (`OnePage`, `GoalStays`, `PagesSeen`) says that while nobody toggled out of
turn at most one fetch is in flight and it is for `page`, and that the rows of the goal
on the pages up to the one shown have been seen. The lemmas about `PageOf` count rows by their position: a
settled row keeps its position whatever is committed later, because everything in
front of it is already there. `TypesHold`, `TableShowsItsPage`, `EveryoneIsShown`.

`ContainerProofs`: for any handlers, names, tries and faults and whatever `.env` lacks. `ServicesAreReady`
is strengthened per step of the script (`Prepared`: past the migration the schema is
there, past the seeding the admin), `OneConnection` by `Connected`: whoever sends
while the bot polls does so on the client the object holds. `TypesHold`, `ReadyWhenServing`,
`OneConnectionHolds`.

`ValidateDocsProofs`: for folders of any size, any ids and every order of the search.
What a depth-first search leaves behind is an invariant about colours (white nodes
untouched, the stack grey and each node of it a dependency of the one below, `IsPath`;
black nodes with only black dependencies, `DoneClosed`) together with `DoneOrdered`:
every set of circular tickets has a node that is not black. Were a node the last of
such a set to turn black, none of the others, black before it, would depend on it
(`DoneClosed`), and it not on itself: the others would already have been a circular
set of black nodes. `TypesHold`, `ReportedCyclesAreCycles`, `CyclesAreFound`,
`CleanFoldersAreSound`.

`TunnelProofs`: for any domains, lists of addresses and SNIs and any number of secrets,
interruptions, failures and edits. `Place` numbers the steps of `deploy-exit.sh`, so that
one formula, `Progress`, says for every step which names are in `.env` and in the script's
variables: those whose step lies behind. Around it:

- `ShellFollows`: a running script has what `.env` holds; `Pairs`: the two halves of a
  key pair belong together wherever both are, also while only one is saved.
- `SelfSteal`: past its steps the script's own domain is saved, confirmed and certified.
- `FilesAreSaved`: generated files and running containers hold values of `.env`, or none.
- `Repeats`: a completed run leaves a state (`Complete`) in which a run finds nothing to
  ask for and writes what is there.

`FixedStay` (no step changes a secret or the SNI in `.env` once it is set) is proved
action by action and is what the rest leans on. The entry server needs only `EntryInv`:
what it was told, by whichever run, is what `.env` of the exit server holds. An interrupted
run saves *some* values, so the order of its questions matters, and `EntryInv` says it.
`TypesHold`, `DeployedIsAlwaysSaved`, `SecretsStay`, `RepeatsAreIdle` have no hypothesis.
`EnteredIsNeverStale` and `BothEndsMatch` have `SniCarriedOver`: the operator leaves the SNI
in `.env` alone and types the one of the summary, or presses Enter and both scripts have the
same default. It holds in the
run `Tunnel`; without it TLC finds `TunnelMatches` violated (section 7).
The last section is about half a key pair, where the run `ExitKeyGap` ends.
`HalfAPairIsForGood`: out of it (`Stuck`) no number of re-runs and edits of the editable
values gets `.env`, it never comes to a summary again.

Only model-checked: everything under fairness (`EventuallyServed`, `PressIsServed`,
`EveryRequestEnds`, `LimitEnds`, `WaitersConnect`, `NeitherAlone`, `BothRun`,
`EventuallyDeployed`).
Liveness and ENABLED are out of the prover's reach. Every invariant and every action
property of a passing run is a theorem.

## 6. Plan

Done: provisioning with its refinement and proofs, the rate limiter, the admin API's
tokens and pool, the list of users with the panel's table, the bot's process and the
container, the validator of the documents, each with proofs; the exit and entry
deploy scripts and the tunnel, with proofs. Next, in this order:

1. **Migration** (`scripts/migrate.sh`, `cloudflare-dns.sh`): two servers, archive, DNS
   record with a time to live, an end of the script at any step. Properties: no state
   of the script from which the printed rollback does not restore service; the new
   server runs with the old one's secrets; a passed health check means the new server
   answers. Bounds: 2 servers, 2 troubles.
2. **Management server** (`deploy-mgmt.sh`): the salt against existing rows, the
   panel's build, the certificate; composed with `Container`.
3. **Rest of the admin panel**: the token in the browser and the page of links, with
   answers out of order.

## 7. Disagreements found

1. **Same link twice.** `hashing.py:12` promises the same link at every press;
   `router.py:186` asks telemt's `get` for the secret and falls back to `""`, and
   `schemas.py:19` says that `get` carries none. (`ProvisioningSameLink`)
2. **Listed status.** `api/schemas.py` documents `is_disabled` as a field from
   telemt; `users.py:98` computes it from a local column nobody writes.
   (`ProvisioningListedStatus`)
3. **Half a key pair.** `deploy-exit.sh:85` promises an idempotent re-run; a run
   interrupted between lines 416 and 417 makes every later run end at line 415.
   (`ExitKeyGap`)

Met while modelling and part of the models, without a run of their own:

- `deploy-exit.sh:514` and `:623` trim blanks in lists of addresses, so they are allowed;
  `common.sh:101` writes them unquoted and `common.sh:36` cannot load them again, although
  `deploy-exit.sh:85` promises a re-run (`StartExitFails`).
- `deploy-exit.sh:704` says that a re-run updates the configuration; a failing
  `compose down` is ignored (657, 660), and `up -d` leaves a running Xray with the file it
  read when it was created (`ComposeDownFails`, then `ComposeUp`).
- `deploy-exit.sh:309` says that `SELF_STEAL_DOMAIN` is cleared; line 176 has made the test
  at 310 false (`ThirdPartyDomain`).
- `links.py:216` calls the disable of `delete_link` best-effort; a connection
  error or a telemt error ends the deletion (`RemoveLink` is not reached).
- `auth.py:92-93` computes `Retry-After` from the oldest failure alone. Where concurrent
  logins have pushed the list above the maximum (`AttemptsBounded` says how far), who waits
  that long is still limited by the rest. Its docstring promises no more than the time
  until the oldest failure expires (`RetryAfterFreesOne`).
- A page turned while a toggle is in flight leaves the table on one page and its buttons on
  another (`UserTable.tsx:51`; the exception `overlap` of `ShownPageIsAsked`).
- `deploy-exit.sh:396` has the operator enter a key that is not saved yet
  (`KeyPair`).
- `deploy-entry.sh:115` calls its default SNI safe; `deploy-exit.sh:455-465` has
  replaced the same default because it "breaks the VLESS-Reality uTLS handshake".
  With `AcceptsDefaults = TRUE` and another `EntryDefaultSni` than the exit
  server's, TLC finds `TunnelMatches` violated.
- `bot/main.py:64` and `:103` promise no lingering connections; a handler that
  still runs after `aclose` makes `_get_client` create a client that nobody closes
  (`Request` while `bot = "closing session"`).
- `Dockerfile.api:133` kills what still runs, but `set -e` ends the script at a
  non-zero `wait -n` in line 130; that the other service goes is docker's doing, the
  script being PID 1 (`AllEnd`). For the same reason `docker stop` waits for its
  grace period: bash passes the signal on to nobody.
- An incomplete `.env` restarts the whole container for ever, both services or, if the
  entrypoint does not get that far, none (`Hopeless`); so does a port that is no number (a
  `ValueError` that `main` does not expect) and a refused token. A changed
  `ADMIN_PASSWORD` has no effect after the first start (`Seed`).
- `validate_docs.py:17` says that every dependency must be an existing *ticket*;
  line 202 accepts any artefact. Line 171 keeps the last of two documents with one
  id, and the dependencies of the other are never looked at. Check 5 is said to cover every reference, 194-195 look at the prose only; ids
  `Q-TKT-...` have no entry in `ARTEFACTS` and get no deep checks; the comment at
  205 says Kahn, the code searches depth-first.

## 8. Not modelled

- Hashing and its collisions, link text and QR codes: pure functions without state.
- The landing page, monitoring and Grafana: static configuration, and deploy
  scripts of the shape of `deploy-entry.sh` without anything to keep.
- `set-models.py`: rewrites a JSON file of the developers' tools in one go. The
  front matter parser, arguments and wording of `validate_docs.py`: a document is
  what the parser leaves of it.
- `deploy-mgmt.sh`, `migrate.sh`, `cloudflare-dns.sh`, the panel's page of links,
  its login page and the token in `localStorage`: not yet, see the plan. Their
  hazards are listed.
- The proxy data plane (telemt, Xray, Angie) is not in this repository; what the
  code uses of telemt is external in `Provisioning`.
