---------------------------- MODULE Provisioning ----------------------------
(***************************************************************************)
(* Accounts of the proxy live in two stores without a common transaction:  *)
(* telemt (an external HTTP service) and the PostgreSQL tables proxy_users *)
(* and labelled_links.  The bot's get_proxy callback and the Admin API's   *)
(* link and user routes write them one after the other; requests run       *)
(* concurrently and interleave at every await.                             *)
(*                                                                         *)
(* A task is one running handler.  A step is the code between two awaits   *)
(* whose effect others can see; a request's first database query is part   *)
(* of the step that starts it, because nothing it did before is visible.   *)
(*                                                                         *)
(* telemt is external.  What its create answers for a name it already has  *)
(* and whether its get carries the secret are not settled by the           *)
(* repository, so both are parameters.                                     *)
(***************************************************************************)
EXTENDS Naturals, FiniteSets

CONSTANTS
    TelegramUsers,     \* Telegram users; one stands for both of its hashes
    Labels,            \* admin labels; one stands for its hash and its row id
    BotTasks,          \* callbacks the dispatcher runs at the same time
    ApiTasks,          \* admin requests being served at the same time
    ConflictOnCreate,  \* create of an existing name: an error (TRUE), or the user
    SecretInGet,       \* does telemt's GET of a user carry the secret?
    MaxSecret,         \* bound: secrets telemt generates for one account
    MaxFaults          \* bound: failures of telemt, database, Telegram, container

ASSUME TasksDisjoint == BotTasks \cap ApiTasks = {}
ASSUME AccountsDisjoint == TelegramUsers \cap Labels = {} /\ TelegramUsers \cup Labels # {}
ASSUME BoundsAreNaturals == MaxSecret \in Nat \ {0} /\ MaxFaults \in Nat
ASSUME ChoicesAreBoolean == ConflictOnCreate \in BOOLEAN /\ SecretInGet \in BOOLEAN

Names == TelegramUsers \cup Labels
Tasks == BotTasks \cup ApiTasks

\* Secrets of an account are numbered in the order telemt generates them;
\* NoSecret is both "no such account" and the empty string of `secret or ""`.
NoSecret == 0
Secrets == 0 .. MaxSecret

ProxyUserRow == [telemt_username : Names, source : {"bot", "admin_label"},
                 is_active : BOOLEAN]
\* The proxy link of a label names a secret, never the empty string.
LinkRow == [label : Labels, secret : Secrets \ {NoSecret}]

\* Requests that change telemt and can still be under way after their sender
\* has given up on them.
LateCall == [op : {"create", "disable", "enable"}, name : Names]

VARIABLES
    telemtSecret,    \* telemt: current secret of each account
    telemtDisabled,  \* telemt: accounts switched off
    reEnabled,       \* history: accounts an enable has reached
    late,            \* abandoned calls telemt may still execute
    proxyUsers,      \* committed rows of proxy_users
    links,           \* committed rows of labelled_links
    pc,              \* where each task is; "idle" when it runs nothing
    name,            \* the account of the task's (last) request
    held,            \* the secret the task holds in a local variable
    outcome,         \* how the task's last request ended
    served,          \* history: links sent to Telegram users
    faults           \* failures so far

telemtVars == <<telemtSecret, telemtDisabled, reEnabled>>
dbVars == <<proxyUsers, links>>
taskVars == <<pc, name, held, outcome>>
vars == <<telemtVars, late, dbVars, taskVars, served, faults>>

BotPCs == {"idle", "getting", "creating", "created", "sending"}
ApiPCs == {"idle", "creating", "created", "flushed", "disabling", "removing",
           "userDisabling", "userEnabling"}

Outcomes == {"none", "sent", "noReply", "lost", "200", "201", "404", "409",
             "500", "502", "deleted", "delete404", "delete500", "delete502"}

TypeOK ==
    /\ telemtSecret \in [Names -> Secrets]
    /\ telemtDisabled \subseteq Names
    /\ reEnabled \subseteq Names
    /\ late \subseteq LateCall
    /\ proxyUsers \subseteq ProxyUserRow
    /\ links \subseteq LinkRow
    /\ pc \in [Tasks -> BotPCs \cup ApiPCs]
    /\ \A t \in BotTasks : pc[t] \in BotPCs
    /\ \A t \in ApiTasks : pc[t] \in ApiPCs
    /\ name \in [Tasks -> Names]
    /\ held \in [Tasks -> Secrets]
    /\ outcome \in [Tasks -> Outcomes]
    /\ served \subseteq [name : TelegramUsers, secret : Secrets]
    /\ faults \in 0 .. MaxFaults

Init ==
    /\ telemtSecret = [n \in Names |-> NoSecret]
    /\ telemtDisabled = {}
    /\ reEnabled = {}
    /\ late = {}
    /\ proxyUsers = {}
    /\ links = {}
    /\ pc = [t \in Tasks |-> "idle"]
    /\ name = [t \in Tasks |-> CHOOSE n \in Names : TRUE]
    /\ held = [t \in Tasks |-> NoSecret]
    /\ outcome = [t \in Tasks |-> "none"]
    /\ served = {}
    /\ faults = 0

-----------------------------------------------------------------------------
(* How tasks move.  Except for Begin, the account of a request is fixed.   *)

Begin(t, n, to) ==
    /\ pc[t] = "idle"
    /\ pc' = [pc EXCEPT ![t] = to]
    /\ name' = [name EXCEPT ![t] = n]
    /\ outcome' = [outcome EXCEPT ![t] = "none"]
    /\ UNCHANGED held

Continue(t, from, to) ==
    /\ pc[t] = from
    /\ pc' = [pc EXCEPT ![t] = to]
    /\ UNCHANGED <<name, held, outcome>>

\* The handler returns or its exception reaches the framework; the session
\* closes, which rolls back whatever was not committed.
Finish(t, result) ==
    /\ pc' = [pc EXCEPT ![t] = "idle"]
    /\ held' = [held EXCEPT ![t] = NoSecret]
    /\ outcome' = [outcome EXCEPT ![t] = result]
    /\ UNCHANGED name

HasRow(n) == \E r \in proxyUsers : r.telemt_username = n
HasLink(l) == \E r \in links : r.label = l
Known(n) == telemtSecret[n] # NoSecret

AddProxyUser(n, source) ==
    proxyUsers' = proxyUsers \cup
        {[telemt_username |-> n, source |-> source, is_active |-> TRUE]}

\* Exceptions of the telemt client as the routes answer them: connection
\* errors become 502, "not found" becomes 404 where the route catches it, and
\* everything else is a 500.  The bot catches nothing: its user hears nothing.
Failure(t, error) ==
    IF t \in BotTasks THEN "noReply"
    ELSE IF pc[t] = "disabling" \/ pc[t] = "removing"
         THEN IF error = "connection" THEN "delete502" ELSE "delete500"
    ELSE IF error = "connection" THEN "502"
    ELSE IF error = "notFound" /\ pc[t] \in {"userDisabling", "userEnabling"} THEN "404"
    ELSE "500"

-----------------------------------------------------------------------------
(* telemt, executing the request a task waits for, or a late one.          *)

\* The effect of a request on telemt's accounts.
Execute(op, n) ==
    /\ telemtSecret' = IF op = "create" /\ ~Known(n)
                       THEN [telemtSecret EXCEPT ![n] = 1] ELSE telemtSecret
    /\ telemtDisabled' = IF op = "disable" /\ Known(n) THEN telemtDisabled \cup {n}
                         ELSE IF op = "enable" THEN telemtDisabled \ {n}
                         ELSE telemtDisabled
    /\ reEnabled' = IF op = "enable" THEN reEnabled \cup {n} ELSE reEnabled

\* POST /v1/users answers with the user and its secret, or with an error when
\* the name is taken and telemt treats that as a conflict.
CreateUser(t) ==
    /\ pc[t] = "creating"
    /\ Execute("create", name[t])
    /\ IF Known(name[t]) /\ ConflictOnCreate
       THEN Finish(t, Failure(t, "api"))
       ELSE /\ pc' = [pc EXCEPT ![t] = "created"]
            /\ held' = [held EXCEPT ![t] = telemtSecret'[name[t]]]
            /\ UNCHANGED <<name, outcome>>
    /\ UNCHANGED <<late, dbVars, served, faults>>

GetUser(t) ==
    /\ pc[t] = "getting"
    /\ IF Known(name[t])
       THEN /\ pc' = [pc EXCEPT ![t] = "sending"]
            /\ held' = [held EXCEPT ![t] =
                   IF SecretInGet THEN telemtSecret[name[t]] ELSE NoSecret]
            /\ UNCHANGED <<name, outcome>>
       ELSE Finish(t, Failure(t, "notFound"))
    /\ UNCHANGED <<telemtVars, late, dbVars, served, faults>>

DisableUser(t) ==
    /\ pc[t] \in {"disabling", "userDisabling"}
    /\ Execute("disable", name[t])
    /\ IF ~Known(name[t]) THEN Finish(t, Failure(t, "notFound"))
       ELSE IF pc[t] = "disabling" THEN Continue(t, "disabling", "removing")
       ELSE Finish(t, "200")
    /\ UNCHANGED <<late, dbVars, served, faults>>

EnableUser(t) ==
    /\ pc[t] = "userEnabling"
    /\ Execute("enable", name[t])
    /\ Finish(t, IF Known(name[t]) THEN "200" ELSE Failure(t, "notFound"))
    /\ UNCHANGED <<late, dbVars, served, faults>>

\* The request changing telemt that a task has under way, if any.
InFlight(t) ==
    [op |-> CASE pc[t] = "creating" -> "create"
              [] pc[t] \in {"disabling", "userDisabling"} -> "disable"
              [] OTHER -> "enable",
     name |-> name[t]]

Calling == {"getting", "creating", "disabling", "userDisabling", "userEnabling"}
Mutating == Calling \ {"getting"}

\* Mutant: the bot swallows the error and sends whatever it has.
ConnectionFailsButSends(t) ==
    /\ pc[t] \in Calling
    /\ faults < MaxFaults
    /\ IF t \in BotTasks THEN Continue(t, pc[t], "sending")
       ELSE Finish(t, Failure(t, "connection"))
    /\ faults' = faults + 1
    /\ UNCHANGED <<telemtVars, late, dbVars, served>>

\* Mutant: delete_link carries on after a failed disable, as its comment says.
ConnectionFailsBestEffort(t) ==
    /\ pc[t] \in Calling
    /\ faults < MaxFaults
    /\ IF pc[t] = "disabling" THEN Continue(t, "disabling", "removing")
       ELSE Finish(t, Failure(t, "connection"))
    /\ faults' = faults + 1
    /\ UNCHANGED <<telemtVars, late, dbVars, served>>

\* ConnectError or a timeout.  The request was lost, or it is still on its way
\* (a lost answer is a late request executed at once).
ConnectionFails(t) ==
    /\ pc[t] \in Calling
    /\ faults < MaxFaults
    /\ late' \in {late} \cup (IF pc[t] \in Mutating THEN {late \cup {InFlight(t)}} ELSE {})
    /\ Finish(t, Failure(t, "connection"))
    /\ faults' = faults + 1
    /\ UNCHANGED <<telemtVars, dbVars, served>>

\* telemt answers 401, 403 or 5xx without executing the request.
TelemtRefuses(t) ==
    /\ pc[t] \in Calling
    /\ faults < MaxFaults
    /\ Finish(t, Failure(t, "api"))
    /\ faults' = faults + 1
    /\ UNCHANGED <<telemtVars, late, dbVars, served>>

LateArrival(c) ==
    /\ c \in late
    /\ Execute(c.op, c.name)
    /\ late' = late \ {c}
    /\ UNCHANGED <<dbVars, taskVars, served, faults>>

\* A program embedding the package, or an operator, rotates a secret.
RotateSecret(n) ==
    /\ telemtSecret[n] \in 1 .. MaxSecret - 1
    /\ telemtSecret' = [telemtSecret EXCEPT ![n] = @ + 1]
    /\ UNCHANGED <<telemtDisabled, reEnabled, late, dbVars, taskVars, served, faults>>

-----------------------------------------------------------------------------
(* The bot: get_proxy.                                                     *)

\* Mutant: the row is written before telemt knows the account.
GetProxyStoresFirst(t, u) ==
    /\ Begin(t, u, IF HasRow(u) THEN "getting" ELSE "created")
    /\ UNCHANGED <<telemtVars, late, dbVars, served, faults>>

\* Mutant: no lookup of the user's row.
GetProxyAlwaysCreates(t, u) ==
    /\ Begin(t, u, "creating")
    /\ UNCHANGED <<telemtVars, late, dbVars, served, faults>>

\* A user presses the button; the handler looks the user's row up and calls
\* telemt, to get the user or to create it.
GetProxy(t, u) ==
    /\ Begin(t, u, IF HasRow(u) THEN "getting" ELSE "creating")
    /\ UNCHANGED <<telemtVars, late, dbVars, served, faults>>

\* Mutant: add without commit.
StoreUserUncommitted(t) ==
    /\ t \in BotTasks
    /\ Continue(t, "created", "sending")
    /\ UNCHANGED <<telemtVars, late, dbVars, served, faults>>

\* Mutant: a new user is stored but not answered.
StoreUserSilently(t) ==
    /\ t \in BotTasks /\ pc[t] = "created"
    /\ AddProxyUser(name[t], "bot")
    /\ Finish(t, "noReply")
    /\ UNCHANGED <<telemtVars, late, links, served, faults>>

\* session.add and commit; a concurrent press that committed first makes the
\* unique constraint fail and the handler end with the exception.
StoreUser(t) ==
    /\ t \in BotTasks /\ pc[t] = "created"
    /\ IF HasRow(name[t])
       THEN Finish(t, "noReply") /\ UNCHANGED proxyUsers
       ELSE Continue(t, "created", "sending") /\ AddProxyUser(name[t], "bot")
    /\ UNCHANGED <<telemtVars, late, links, served, faults>>

Deliver(t) == served' = served \cup {[name |-> name[t], secret |-> held[t]]}

\* The link goes out, then its QR code; HandlerFails is the failure of either.
SendLink(t) ==
    /\ pc[t] = "sending"
    /\ Deliver(t)
    /\ Finish(t, "sent")
    /\ UNCHANGED <<telemtVars, late, dbVars, faults>>

-----------------------------------------------------------------------------
(* The Admin API: create_link, delete_link, disable_user, enable_user.     *)

CreateLink(t, l) ==
    /\ IF HasLink(l)
       THEN /\ pc[t] = "idle"
            /\ name' = [name EXCEPT ![t] = l]
            /\ outcome' = [outcome EXCEPT ![t] = "409"]
            /\ UNCHANGED <<pc, held>>
       ELSE Begin(t, l, "creating")
    /\ UNCHANGED <<telemtVars, late, dbVars, served, faults>>

\* Mutant: the uniqueness check does not see uncommitted rows.
FlushUserUnlocked(t) ==
    /\ t \in ApiTasks /\ pc[t] = "created"
    /\ IF HasRow(name[t]) THEN Finish(t, "409") ELSE Continue(t, "created", "flushed")
    /\ UNCHANGED <<telemtVars, late, dbVars, served, faults>>

\* Mutant: the insert also waits for requests that have not inserted yet.
FlushUserWaitsForAll(t) ==
    /\ t \in ApiTasks /\ pc[t] = "created"
    /\ \A o \in ApiTasks \ {t} : pc[o] \in {"created", "flushed"} => name[o] # name[t]
    /\ IF HasRow(name[t]) THEN Finish(t, "409") ELSE Continue(t, "created", "flushed")
    /\ UNCHANGED <<telemtVars, late, dbVars, served, faults>>

\* db.flush inserts the proxy_users row.  While another transaction holds an
\* uncommitted row with the same username the insert waits for its end.
FlushUser(t) ==
    /\ t \in ApiTasks /\ pc[t] = "created"
    /\ \A o \in ApiTasks : pc[o] = "flushed" => name[o] # name[t]
    /\ IF HasRow(name[t]) THEN Finish(t, "409") ELSE Continue(t, "created", "flushed")
    /\ UNCHANGED <<telemtVars, late, dbVars, served, faults>>

\* Mutant: the link is built without the secret, as a misread answer and the
\* fallback of `telemt_user.secret or ""` would have it.
InsertLinkWithoutSecret(t) ==
    /\ AddProxyUser(name[t], "admin_label")
    /\ links' = links \cup {[label |-> name[t], secret |-> NoSecret]}

\* The commit makes both rows visible, or neither.
InsertLink(t) ==
    /\ AddProxyUser(name[t], "admin_label")
    /\ links' = links \cup {[label |-> name[t], secret |-> held[t]]}

CommitLink(t) ==
    /\ pc[t] = "flushed"
    /\ IF HasLink(name[t])
       THEN Finish(t, "409") /\ UNCHANGED dbVars
       ELSE InsertLink(t) /\ Finish(t, "201")
    /\ UNCHANGED <<telemtVars, late, served, faults>>

DeleteLink(t, l) ==
    /\ IF HasLink(l)
       THEN Begin(t, l, "disabling")
       ELSE /\ pc[t] = "idle"
            /\ name' = [name EXCEPT ![t] = l]
            /\ outcome' = [outcome EXCEPT ![t] = "delete404"]
            /\ UNCHANGED <<pc, held>>
    /\ UNCHANGED <<telemtVars, late, dbVars, served, faults>>

\* Mutant: the proxy_users row goes with the link.
DropLinkAndUser(t) ==
    /\ links' = {r \in links : r.label # name[t]}
    /\ proxyUsers' = {r \in proxyUsers : r.telemt_username # name[t]}

DropLink(t) ==
    /\ links' = {r \in links : r.label # name[t]}
    /\ UNCHANGED proxyUsers

\* Deleting a row a concurrent request has already deleted is no error.
RemoveLink(t) ==
    /\ pc[t] = "removing"
    /\ DropLink(t)
    /\ Finish(t, "deleted")
    /\ UNCHANGED <<telemtVars, late, served, faults>>

ToggleUser(t, n, to) ==
    /\ to \in {"userDisabling", "userEnabling"}
    /\ Begin(t, n, to)
    /\ UNCHANGED <<telemtVars, late, dbVars, served, faults>>

-----------------------------------------------------------------------------
(* Failures on this side.                                                  *)

\* The database or Telegram fails a handler between its calls to telemt.  A
\* commit whose answer is lost may have happened (for StoreUser, that is the
\* commit followed by a failure while sending), and a handler that fails while
\* sending may have sent the link but not its QR code.
HandlerFails(t) ==
    /\ pc[t] \notin Calling \cup {"idle"}
    /\ faults < MaxFaults
    /\ \/ UNCHANGED <<dbVars, served>>
       \/ pc[t] = "flushed" /\ ~HasLink(name[t]) /\ InsertLink(t) /\ UNCHANGED served
       \/ pc[t] = "removing" /\ DropLink(t) /\ UNCHANGED served
       \/ pc[t] = "sending" /\ Deliver(t) /\ UNCHANGED dbVars
    /\ Finish(t, Failure(t, "internal"))
    /\ faults' = faults + 1
    /\ UNCHANGED <<telemtVars, late>>

\* The container stops: bot and API are gone together, and so are all
\* uncommitted transactions.  Requests on their way may still arrive.
Crash ==
    /\ faults < MaxFaults
    /\ \E t \in Tasks : pc[t] # "idle"
    /\ \E arriving \in SUBSET {InFlight(t) : t \in {o \in Tasks : pc[o] \in Mutating}} :
           late' = late \cup arriving
    /\ pc' = [t \in Tasks |-> "idle"]
    /\ held' = [t \in Tasks |-> NoSecret]
    /\ outcome' = [t \in Tasks |-> IF pc[t] = "idle" THEN outcome[t] ELSE "lost"]
    /\ faults' = faults + 1
    /\ UNCHANGED <<name, telemtVars, dbVars, served>>

-----------------------------------------------------------------------------
TelemtAnswers(t) == CreateUser(t) \/ GetUser(t) \/ DisableUser(t) \/ EnableUser(t)

HandlerStep(t) ==
    \/ StoreUser(t) \/ SendLink(t)
    \/ FlushUser(t) \/ CommitLink(t) \/ RemoveLink(t)

Next ==
    \/ \E t \in BotTasks, u \in TelegramUsers : GetProxy(t, u)
    \/ \E t \in ApiTasks, l \in Labels : CreateLink(t, l) \/ DeleteLink(t, l)
    \/ \E t \in ApiTasks, n \in Names, to \in {"userDisabling", "userEnabling"} :
           ToggleUser(t, n, to)
    \/ \E t \in Tasks : TelemtAnswers(t) \/ HandlerStep(t)
    \/ \E t \in Tasks : ConnectionFails(t) \/ TelemtRefuses(t) \/ HandlerFails(t)
    \/ \E c \in LateCall : LateArrival(c)
    \/ \E n \in Names : RotateSecret(n)
    \/ Crash

\* The event loop resumes every task whose await is over, and telemt answers
\* unless one of the counted failures happens instead.  Nobody has to press a
\* button, and an abandoned call need not arrive.
Fairness == \A t \in Tasks : WF_vars(TelemtAnswers(t) \/ HandlerStep(t))

Spec == Init /\ [][Next]_vars /\ Fairness

-----------------------------------------------------------------------------
(* Properties.                                                             *)

\* Every row of proxy_users, and every task about to write one, has its
\* account in telemt: get_proxy and create_link write telemt first.
RowsHaveTelemtUser ==
    /\ \A r \in proxyUsers : Known(r.telemt_username)
    /\ \A t \in Tasks : pc[t] \in {"created", "flushed"} => Known(name[t])

\* The tables obey their UNIQUE and FOREIGN KEY constraints.  CommitLink does
\* not look at proxy_users again: the row lock taken by the flush protects it.
TablesConsistent ==
    /\ \A r, s \in proxyUsers : r.telemt_username = s.telemt_username => r = s
    /\ \A r, s \in links : r.label = s.label => r = s
    /\ \A r \in links : HasRow(r.label)

\* The last except-branch of create_link ("Label already exists" at commit) is
\* dead: proxy_users rows are never deleted, so a label that passed the flush
\* cannot have a link.
SecondConflictUnreachable ==
    \A t \in ApiTasks : pc[t] = "flushed" => ~HasRow(name[t]) /\ ~HasLink(name[t])

\* A link stored for an admin or, where telemt's GET carries the secret, sent to
\* a user has a secret telemt issued for that very account, whatever
\* interleaved and failed.
SecretsWereIssued ==
    /\ \A r \in links : r.secret \in 1 .. telemtSecret[r.label]
    /\ SecretInGet => \A s \in served : s.secret \in 1 .. telemtSecret[s.name]

\* Once delete_link has removed a link its account stays switched off in
\* telemt, unless somebody asked to enable it.  A create that arrives late, a
\* crash between the two stores or a second delete does not revive it.
DeletedLabelsDisabled ==
    \A l \in Labels : HasRow(l) /\ ~HasLink(l) => l \in telemtDisabled \cup reEnabled

\* What create_link and delete_link told an admin stays true while the answer
\* is on the screen: a 201 or 409 means the name is taken for good, "deleted"
\* that no link is left.  (The 200 of disable_user and enable_user promises no
\* more than that telemt did it: another call may undo it.)
LinkAnswersStayTrue ==
    \A t \in ApiTasks :
        /\ outcome[t] \in {"201", "409"} => HasRow(name[t])
        /\ outcome[t] = "deleted" => HasRow(name[t]) /\ ~HasLink(name[t])

-----------------------------------------------------------------------------
(* The inductive invariant.                                                *)

\* Bot tasks work on Telegram users, create_link and delete_link on labels.
NamesFit ==
    \A t \in Tasks :
        /\ pc[t] \in {"getting", "sending"} => name[t] \in TelegramUsers
        /\ pc[t] \in {"creating", "created"} =>
               name[t] \in IF t \in BotTasks THEN TelegramUsers ELSE Labels
        /\ pc[t] \in {"flushed", "disabling", "removing"} => name[t] \in Labels

\* What a task has learned stays true until it acts on it.
TaskKnowledge ==
    \A t \in Tasks :
        /\ pc[t] \in {"created", "flushed"} => held[t] \in 1 .. telemtSecret[name[t]]
        /\ pc[t] \in {"getting", "sending"} => HasRow(name[t])
        /\ pc[t] = "sending" /\ SecretInGet => held[t] \in 1 .. telemtSecret[name[t]]
        /\ pc[t] \in {"disabling", "removing"} => HasRow(name[t])
        /\ pc[t] = "removing" => name[t] \in telemtDisabled \cup reEnabled

\* The uncommitted row of a flushed insert is exclusive.
FlushExclusive ==
    \A t, o \in ApiTasks :
        pc[t] = "flushed" /\ pc[o] = "flushed" /\ name[t] = name[o] => t = o

\* Everything above together is preserved by every step.  TablesConsistent and
\* FlushExclusive are there for SecondConflictUnreachable, the rest because a
\* task acts on what it learned some awaits ago.
IndInv ==
    /\ TypeOK
    /\ NamesFit
    /\ TaskKnowledge
    /\ FlushExclusive
    /\ RowsHaveTelemtUser
    /\ TablesConsistent
    /\ SecondConflictUnreachable
    /\ SecretsWereIssued
    /\ DeletedLabelsDisabled
    /\ LinkAnswersStayTrue

\* Without failures the two stores name the same accounts whenever no request
\* is running, also after concurrent presses by the same user.
IdleStoresAgree ==
    faults = 0 /\ (\A t \in Tasks : pc[t] = "idle")
        => \A n \in Names : Known(n) <=> HasRow(n)

\* No request waits for ever, in particular not for another one's row lock.
EveryRequestEnds == \A t \in Tasks : pc[t] # "idle" ~> pc[t] = "idle"

Served(u) == \E s \in served : s.name = u

\* A user who keeps pressing the button gets a link, however the (finitely
\* many) failures fall.  Holds only if telemt's create is idempotent.
EventuallyServed ==
    \A u \in TelegramUsers :
        ([]<><<\E t \in BotTasks : GetProxy(t, u)>>_vars) => <>Served(u)

\* Until something fails pressing once is enough, also when several presses of
\* the same user overlap and only one of them can win.
PressIsServed ==
    \A u \in TelegramUsers :
        (\E t \in BotTasks : pc[t] # "idle" /\ name[t] = u) ~> (Served(u) \/ faults > 0)

\* The refinement: where an account stands, read off both stores.
Stage(n) ==
    IF ~Known(n) THEN "unknown"
    ELSE IF ~HasRow(n) THEN "orphan"
    ELSE IF n \in TelegramUsers THEN "known"
    ELSE IF HasLink(n) THEN "listed" ELSE "retired"

L == INSTANCE Lifecycle WITH
        stage <- [n \in Names |-> Stage(n)],
        delivered <- {s.name : s \in served}

\* Provisioning implements Lifecycle: accounts advance one stage at a time, a
\* deleted label never comes back, and only known users are sent a link.
RefinesLifecycle == L!LifecycleSpec

-----------------------------------------------------------------------------
(* What the repository says and these handlers do not do.                  *)

\* hashing.py: "the same Telegram user pressing 'Get Proxy' twice gets the
\* same link"
SameLinkEveryTime == \A r, s \in served : r.name = s.name => r.secret = s.secret

\* api/schemas.py: the is_disabled of a listed user comes from telemt.  The
\* list shows ~is_active of the local row.
ListedStatusIsTelemts ==
    \A r \in proxyUsers :
        (\A t \in Tasks : pc[t] = "idle" \/ name[t] # r.telemt_username)
            => (~r.is_active <=> r.telemt_username \in telemtDisabled)
=============================================================================
