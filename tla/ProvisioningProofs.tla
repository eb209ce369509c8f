------------------------- MODULE ProvisioningProofs -------------------------
(* Theorems about Provisioning for every set of users, labels and tasks.   *)
EXTENDS Provisioning, TLAPS

USE DEF Names, Tasks, Secrets, NoSecret

-----------------------------------------------------------------------------
(* Lemmas about the helpers.                                               *)

\* Failure is one of the outcomes.
LEMMA FailureType ==
    ASSUME NEW t \in Tasks, NEW error
    PROVE  Failure(t, error) \in Outcomes
BY DEF Failure, Outcomes

\* Ending a request keeps the types of the task variables.
LEMMA FinishType ==
    ASSUME TypeOK, NEW t \in Tasks, NEW result \in Outcomes, Finish(t, result)
    PROVE  /\ pc' \in [Tasks -> BotPCs \cup ApiPCs]
           /\ \A b \in BotTasks : pc'[b] \in BotPCs
           /\ \A a \in ApiTasks : pc'[a] \in ApiPCs
           /\ name' \in [Tasks -> Names]
           /\ held' \in [Tasks -> Secrets]
           /\ outcome' \in [Tasks -> Outcomes]
BY BoundsAreNaturals DEF TypeOK, Finish, BotPCs, ApiPCs

\* So does moving on, to a place in the code that the task's handlers have.
LEMMA ContinueType ==
    ASSUME TypeOK, NEW t \in Tasks, NEW from, NEW to \in BotPCs \cup ApiPCs,
           t \in BotTasks => to \in BotPCs, t \in ApiTasks => to \in ApiPCs,
           Continue(t, from, to)
    PROVE  /\ pc' \in [Tasks -> BotPCs \cup ApiPCs]
           /\ \A b \in BotTasks : pc'[b] \in BotPCs
           /\ \A a \in ApiTasks : pc'[a] \in ApiPCs
           /\ name' \in [Tasks -> Names]
           /\ held' \in [Tasks -> Secrets]
           /\ outcome' \in [Tasks -> Outcomes]
BY DEF TypeOK, Continue

\* And so does starting a request.
LEMMA BeginType ==
    ASSUME TypeOK, NEW t \in Tasks, NEW n \in Names, NEW to \in BotPCs \cup ApiPCs,
           t \in BotTasks => to \in BotPCs, t \in ApiTasks => to \in ApiPCs,
           Begin(t, n, to)
    PROVE  /\ pc' \in [Tasks -> BotPCs \cup ApiPCs]
           /\ \A b \in BotTasks : pc'[b] \in BotPCs
           /\ \A a \in ApiTasks : pc'[a] \in ApiPCs
           /\ name' \in [Tasks -> Names]
           /\ held' \in [Tasks -> Secrets]
           /\ outcome' \in [Tasks -> Outcomes]
BY DEF TypeOK, Begin, Outcomes

\* A request executed by telemt keeps the types of telemt's variables.
LEMMA ExecuteType ==
    ASSUME TypeOK, NEW op, NEW n \in Names, Execute(op, n)
    PROVE  /\ telemtSecret' \in [Names -> Secrets]
           /\ telemtDisabled' \subseteq Names
           /\ reEnabled' \subseteq Names
BY BoundsAreNaturals DEF TypeOK, Execute

\* Inserting a row keeps the type of the table.
LEMMA AddProxyUserType ==
    ASSUME TypeOK, NEW n \in Names, NEW source \in {"bot", "admin_label"},
           AddProxyUser(n, source)
    PROVE  proxyUsers' \subseteq ProxyUserRow
<1>1. [telemt_username |-> n, source |-> source, is_active |-> TRUE] \in ProxyUserRow
    BY Zenon DEF ProxyUserRow
<1> QED BY <1>1, Zenon DEF TypeOK, AddProxyUser

\* The request a task has under way is one telemt can execute late.
LEMMA InFlightType ==
    ASSUME TypeOK, NEW t \in Tasks
    PROVE  InFlight(t) \in LateCall
BY DEF TypeOK, InFlight, LateCall

-----------------------------------------------------------------------------
(* Type correctness.                                                       *)

\* The initial state is well typed.
LEMMA InitTypeOK == Init => TypeOK
<1> SUFFICES ASSUME Init PROVE TypeOK
    OBVIOUS
<1>1. (CHOOSE n \in Names : TRUE) \in Names
    BY AccountsDisjoint
<1> QED BY <1>1, BoundsAreNaturals DEF Init, TypeOK, BotPCs, ApiPCs, Outcomes

\* Every step keeps the state well typed.
LEMMA NextTypeOK == TypeOK /\ NamesFit /\ TaskKnowledge /\ [Next]_vars => TypeOK'
<1> SUFFICES ASSUME TypeOK, NamesFit, TaskKnowledge, [Next]_vars PROVE TypeOK'
    OBVIOUS
<1>fin. ASSUME NEW t \in Tasks, NEW result \in Outcomes, Finish(t, result),
               UNCHANGED <<telemtVars, late, dbVars, served>>, faults' \in 0 .. MaxFaults
        PROVE  TypeOK'
    BY <1>fin, FinishType DEF TypeOK, telemtVars, dbVars
<1>beg. ASSUME NEW t \in Tasks, NEW n \in Names, NEW to \in BotPCs \cup ApiPCs,
               t \in BotTasks => to \in BotPCs, t \in ApiTasks => to \in ApiPCs,
               Begin(t, n, to), UNCHANGED <<telemtVars, late, dbVars, served, faults>>
        PROVE  TypeOK'
    BY <1>beg, BeginType DEF TypeOK, telemtVars, dbVars
<1>1. ASSUME NEW t \in BotTasks, NEW u \in TelegramUsers, GetProxy(t, u) PROVE TypeOK'
    BY <1>1, <1>beg, TasksDisjoint DEF GetProxy, BotPCs, ApiPCs
<1>2. ASSUME NEW t \in ApiTasks, NEW l \in Labels, CreateLink(t, l) PROVE TypeOK'
    <2>1. CASE HasLink(l)
        BY <1>2, <2>1 DEF CreateLink, TypeOK, Outcomes, telemtVars, dbVars
    <2>2. CASE ~HasLink(l)
        BY <1>2, <2>2, <1>beg, TasksDisjoint DEF CreateLink, ApiPCs
    <2> QED BY <2>1, <2>2
<1>3. ASSUME NEW t \in ApiTasks, NEW l \in Labels, DeleteLink(t, l) PROVE TypeOK'
    <2>1. CASE ~HasLink(l)
        BY <1>3, <2>1 DEF DeleteLink, TypeOK, Outcomes, telemtVars, dbVars
    <2>2. CASE HasLink(l)
        BY <1>3, <2>2, <1>beg, TasksDisjoint DEF DeleteLink, ApiPCs
    <2> QED BY <2>1, <2>2
<1>4. ASSUME NEW t \in ApiTasks, NEW n \in Names, NEW to, ToggleUser(t, n, to)
      PROVE  TypeOK'
    BY <1>4, <1>beg, TasksDisjoint DEF ToggleUser, ApiPCs
<1>5. ASSUME NEW t \in Tasks, CreateUser(t) PROVE TypeOK'
    <2>1. name[t] \in Names /\ t \in BotTasks \cup ApiTasks
        BY DEF TypeOK
    <2>2. /\ telemtSecret' \in [Names -> Secrets]
          /\ telemtDisabled' \subseteq Names
          /\ reEnabled' \subseteq Names
        BY <1>5, <2>1, ExecuteType DEF CreateUser
    <2>3. CASE Finish(t, Failure(t, "api"))
        BY <1>5, <2>2, <2>3, FailureType, FinishType DEF CreateUser, TypeOK, dbVars
    <2>4. CASE ~ (Known(name[t]) /\ ConflictOnCreate)
        <3>1. /\ pc' = [pc EXCEPT ![t] = "created"]
              /\ held' = [held EXCEPT ![t] = telemtSecret'[name[t]]]
              /\ UNCHANGED <<name, outcome, late, dbVars, served, faults>>
            BY <1>5, <2>4 DEF CreateUser
        <3>2. telemtSecret'[name[t]] \in Secrets
            BY <2>1, <2>2
        <3> QED BY <3>1, <3>2, <2>2 DEF TypeOK, dbVars, BotPCs, ApiPCs
    <2> QED BY <1>5, <2>3, <2>4 DEF CreateUser
<1>6. ASSUME NEW t \in Tasks, GetUser(t) PROVE TypeOK'
    <2>1. CASE ~Known(name[t])
        BY <1>6, <2>1, <1>fin, FailureType DEF GetUser, TypeOK
    <2>2. CASE Known(name[t])
        BY <1>6, <2>2, BoundsAreNaturals
        DEF GetUser, TypeOK, telemtVars, dbVars, BotPCs, ApiPCs
    <2> QED BY <2>1, <2>2
<1>7. ASSUME NEW t \in Tasks, DisableUser(t) PROVE TypeOK'
    <2>1. name[t] \in Names
        BY DEF TypeOK
    <2>2. /\ telemtSecret' \in [Names -> Secrets]
          /\ telemtDisabled' \subseteq Names
          /\ reEnabled' \subseteq Names
        BY <1>7, <2>1, ExecuteType DEF DisableUser
    <2>3. ASSUME NEW result \in Outcomes, Finish(t, result) PROVE TypeOK'
        BY <1>7, <2>2, <2>3, FinishType DEF DisableUser, TypeOK, dbVars
    <2>4. CASE Continue(t, "disabling", "removing")
        <3>1. t \notin BotTasks
            BY <2>4 DEF Continue, TypeOK, BotPCs
        <3> QED BY <1>7, <2>2, <2>4, <3>1, ContinueType
                DEF DisableUser, TypeOK, dbVars, ApiPCs
    <2> QED BY <1>7, <2>3, <2>4, FailureType DEF DisableUser, Outcomes
<1>8. ASSUME NEW t \in Tasks, EnableUser(t) PROVE TypeOK'
    <2>1. name[t] \in Names
        BY DEF TypeOK
    <2>2. /\ telemtSecret' \in [Names -> Secrets]
          /\ telemtDisabled' \subseteq Names
          /\ reEnabled' \subseteq Names
        BY <1>8, <2>1, ExecuteType DEF EnableUser
    <2>3. ASSUME NEW result \in Outcomes, Finish(t, result) PROVE TypeOK'
        BY <1>8, <2>2, <2>3, FinishType DEF EnableUser, TypeOK, dbVars
    <2> QED BY <1>8, <2>3, FailureType DEF EnableUser, Outcomes
<1>9. ASSUME NEW t \in Tasks, StoreUser(t) PROVE TypeOK'
    <2>1. CASE HasRow(name[t])
        BY <1>9, <2>1, <1>fin DEF StoreUser, TypeOK, Outcomes, dbVars
    <2>2. CASE ~HasRow(name[t])
        BY <1>9, <2>2, AddProxyUserType, ContinueType, TasksDisjoint
        DEF StoreUser, TypeOK, telemtVars, BotPCs
    <2> QED BY <2>1, <2>2
<1>10. ASSUME NEW t \in Tasks, SendLink(t) PROVE TypeOK'
    <2>1. [name |-> name[t], secret |-> held[t]] \in [name : TelegramUsers, secret : Secrets]
        BY <1>10 DEF SendLink, NamesFit, TypeOK
    <2>2. "sent" \in Outcomes
        BY DEF Outcomes
    <2> QED BY <1>10, <2>1, <2>2, FinishType DEF SendLink, Deliver, TypeOK, telemtVars, dbVars
<1>11. ASSUME NEW t \in Tasks, FlushUser(t) PROVE TypeOK'
    <2>1. CASE HasRow(name[t])
        BY <1>11, <2>1, <1>fin DEF FlushUser, TypeOK, Outcomes
    <2>2. CASE ~HasRow(name[t])
        BY <1>11, <2>2, ContinueType, TasksDisjoint
        DEF FlushUser, TypeOK, telemtVars, dbVars, ApiPCs
    <2> QED BY <2>1, <2>2
<1>ins. ASSUME NEW t \in Tasks, pc[t] = "flushed", InsertLink(t)
        PROVE  proxyUsers' \subseteq ProxyUserRow /\ links' \subseteq LinkRow
    <2>1. name[t] \in Labels /\ telemtSecret[name[t]] \in Secrets
        BY <1>ins DEF NamesFit, TypeOK
    <2>3. held[t] \in Secrets \ {NoSecret}
        BY <1>ins, <2>1, BoundsAreNaturals DEF TaskKnowledge
    <2>2. [label |-> name[t], secret |-> held[t]] \in LinkRow
        BY <2>1, <2>3, Zenon DEF LinkRow
    <2> QED BY <1>ins, <2>1, <2>2, AddProxyUserType DEF InsertLink, TypeOK
<1>12. ASSUME NEW t \in Tasks, CommitLink(t) PROVE TypeOK'
    <2>1. CASE HasLink(name[t])
        BY <1>12, <2>1, <1>fin DEF CommitLink, TypeOK, Outcomes, dbVars
    <2>2. CASE ~HasLink(name[t])
        <3>1. pc[t] = "flushed" /\ InsertLink(t) /\ Finish(t, "201") /\ "201" \in Outcomes
            BY <1>12, <2>2 DEF CommitLink, Outcomes
        <3> QED BY <1>12, <3>1, <1>ins, FinishType DEF CommitLink, TypeOK, telemtVars
    <2> QED BY <2>1, <2>2
<1>13. ASSUME NEW t \in Tasks, RemoveLink(t) PROVE TypeOK'
    <2>1. "deleted" \in Outcomes
        BY DEF Outcomes
    <2> QED BY <1>13, <2>1, FinishType DEF RemoveLink, DropLink, TypeOK, telemtVars
<1>14. ASSUME NEW t \in Tasks, ConnectionFails(t) PROVE TypeOK'
    <2>1. late' \subseteq LateCall
        BY <1>14, InFlightType DEF ConnectionFails, TypeOK
    <2>2. faults' \in 0 .. MaxFaults
        BY <1>14, BoundsAreNaturals DEF ConnectionFails, TypeOK
    <2>3. Failure(t, "connection") \in Outcomes
        BY FailureType
    <2> QED BY <1>14, <2>1, <2>2, <2>3, FinishType
            DEF ConnectionFails, TypeOK, telemtVars, dbVars
<1>15. ASSUME NEW t \in Tasks, TelemtRefuses(t) PROVE TypeOK'
    <2>1. faults' \in 0 .. MaxFaults
        BY <1>15, BoundsAreNaturals DEF TelemtRefuses, TypeOK
    <2> QED BY <1>15, <2>1, <1>fin, FailureType DEF TelemtRefuses
<1>16. ASSUME NEW t \in Tasks, HandlerFails(t) PROVE TypeOK'
    <2>1. faults' \in 0 .. MaxFaults
        BY <1>16, BoundsAreNaturals DEF HandlerFails, TypeOK
    <2>2. proxyUsers' \subseteq ProxyUserRow /\ links' \subseteq LinkRow
        BY <1>16, <1>ins DEF HandlerFails, DropLink, TypeOK, dbVars
    <2>4. served' \subseteq [name : TelegramUsers, secret : Secrets]
        <3>1. CASE UNCHANGED served
            BY <3>1 DEF TypeOK
        <3>2. CASE pc[t] = "sending" /\ Deliver(t)
            <4>1. [name |-> name[t], secret |-> held[t]]
                  \in [name : TelegramUsers, secret : Secrets]
                BY <3>2 DEF NamesFit, TypeOK
            <4> QED BY <3>2, <4>1 DEF Deliver, TypeOK
        <3> QED BY <1>16, <3>1, <3>2 DEF HandlerFails
    <2>3. Failure(t, "internal") \in Outcomes
        BY FailureType
    <2> QED BY <1>16, <2>1, <2>2, <2>3, <2>4, FinishType DEF HandlerFails, TypeOK, telemtVars
<1>17. ASSUME NEW c \in LateCall, LateArrival(c) PROVE TypeOK'
    <2>1. c.name \in Names
        BY DEF LateCall
    <2>2. /\ telemtSecret' \in [Names -> Secrets]
          /\ telemtDisabled' \subseteq Names
          /\ reEnabled' \subseteq Names
        BY <1>17, <2>1, ExecuteType DEF LateArrival
    <2> QED BY <1>17, <2>2 DEF LateArrival, TypeOK, taskVars, dbVars
<1>18. ASSUME NEW n \in Names, RotateSecret(n) PROVE TypeOK'
    BY <1>18, BoundsAreNaturals DEF RotateSecret, TypeOK, taskVars, dbVars
<1>19. CASE Crash
    <2>1. late' \subseteq LateCall
        BY <1>19, InFlightType DEF Crash, TypeOK
    <2>2. faults' \in 0 .. MaxFaults
        BY <1>19, BoundsAreNaturals DEF Crash, TypeOK
    <2> QED BY <1>19, <2>1, <2>2, BoundsAreNaturals
            DEF Crash, TypeOK, telemtVars, dbVars, BotPCs, ApiPCs, Outcomes
<1>20. CASE UNCHANGED vars
    BY <1>20 DEF vars, telemtVars, dbVars, taskVars, TypeOK
<1> QED BY <1>1, <1>2, <1>3, <1>4, <1>5, <1>6, <1>7, <1>8, <1>9, <1>10, <1>11, <1>12,
           <1>13, <1>14, <1>15, <1>16, <1>17, <1>18, <1>19, <1>20
        DEF Next, TelemtAnswers, HandlerStep

-----------------------------------------------------------------------------
(* What one step does to a task and to the two tables.  The invariants     *)
(* below are proved from these descriptions, not action by action.         *)

\* The tables and telemt's accounts after the step.
RowNext(n) == \E r \in proxyUsers' : r.telemt_username = n
KnownNext(n) == telemtSecret'[n] # NoSecret

USE DEF RowNext, KnownNext

\* A request of task o starts.
Starts(o) ==
    /\ pc[o] = "idle"
    /\ \/ /\ o \in BotTasks /\ name'[o] \in TelegramUsers
          /\ pc'[o] = IF HasRow(name'[o]) THEN "getting" ELSE "creating"
       \/ /\ o \in ApiTasks /\ name'[o] \in Labels
          /\ \/ pc'[o] = "creating" /\ ~HasLink(name'[o])
             \/ pc'[o] = "disabling" /\ HasLink(name'[o])
       \/ pc'[o] \in {"userDisabling", "userEnabling"}

\* Task o learns something from telemt or from the database and moves on.
Learns(o) ==
    /\ name'[o] = name[o]
    /\ \/ /\ pc[o] = "creating" /\ pc'[o] = "created"
          /\ held'[o] = telemtSecret'[name[o]] /\ KnownNext(name[o])
       \/ /\ pc[o] = "getting" /\ pc'[o] = "sending" /\ Known(name[o])
          /\ held'[o] = IF SecretInGet THEN telemtSecret[name[o]] ELSE NoSecret
       \/ /\ pc[o] = "disabling" /\ pc'[o] = "removing" /\ name[o] \in telemtDisabled'
       \/ /\ o \in BotTasks /\ held'[o] = held[o]
          /\ pc[o] = "created" /\ pc'[o] = "sending" /\ RowNext(name[o])
       \/ /\ o \in ApiTasks /\ held'[o] = held[o]
          /\ pc[o] = "created" /\ pc'[o] = "flushed" /\ ~HasRow(name[o])
          /\ \A p \in ApiTasks : pc[p] = "flushed" => name[p] # name[o]

TaskStep(o) ==
    \/ pc'[o] = pc[o] /\ name'[o] = name[o] /\ held'[o] = held[o]
    \/ pc'[o] = "idle"
    \/ Starts(o)
    \/ Learns(o)

\* The tables change only by the three commits.
TablesStep ==
    \/ UNCHANGED dbVars
    \/ \E t \in BotTasks : pc[t] = "created" /\ pc'[t] = "sending" /\ ~HasRow(name[t])
           /\ AddProxyUser(name[t], "bot") /\ UNCHANGED links
    \/ \E t \in ApiTasks : pc[t] = "flushed" /\ pc'[t] = "idle" /\ InsertLink(t)
    \/ \E t \in ApiTasks : pc[t] = "removing" /\ pc'[t] = "idle" /\ DropLink(t)

ServedStep ==
    \/ UNCHANGED served
    \/ /\ UNCHANGED dbVars
       /\ \E t \in BotTasks : pc[t] = "sending"
              /\ served' = served \cup {[name |-> name[t], secret |-> held[t]]}

\* telemt never forgets an account or a secret, and switches an account on
\* only when asked to.
TelemtStep ==
    \A n \in Names :
        /\ telemtSecret'[n] >= telemtSecret[n]
        /\ n \in telemtDisabled \cup reEnabled => n \in telemtDisabled' \cup reEnabled'

\* An account appears in telemt alone.
AccountStep ==
    \/ \A n \in Names : Known(n)' <=> Known(n)
    \/ /\ UNCHANGED <<dbVars, served>>
       /\ \E m \in Names : ~Known(m) /\ Known(m)'
              /\ \A n \in Names \ {m} : Known(n)' <=> Known(n)

\* Two tasks never move in one step, except to "idle".
OneTaskMoves ==
    \A o, p \in Tasks : o # p /\ pc'[o] # pc[o] /\ pc'[p] # pc[p]
                            => pc'[o] = "idle" /\ pc'[p] = "idle"

\* The answers kept by LinkAnswersStayTrue are given only when they are true.
OutcomeStep ==
    \A t \in ApiTasks :
        \/ outcome'[t] = outcome[t] /\ name'[t] = name[t]
        \/ outcome'[t] \notin {"201", "409", "deleted"}
        \/ outcome'[t] \in {"201", "409"} /\ RowNext(name'[t])
        \/ outcome'[t] = "409" /\ HasLink(name'[t])
        \/ outcome'[t] = "deleted" /\ name'[t] = name[t] /\ pc[t] = "removing" /\ DropLink(t)

StepShape ==
    /\ \A o \in Tasks : TaskStep(o)
    /\ TablesStep
    /\ ServedStep
    /\ TelemtStep
    /\ AccountStep
    /\ OneTaskMoves
    /\ OutcomeStep

\* A request executed by telemt has the shape of telemt's part of a step.
LEMMA ExecuteShape ==
    ASSUME TypeOK, NEW op, NEW m \in Names, Execute(op, m),
           UNCHANGED <<dbVars, served>>
    PROVE  TelemtStep /\ AccountStep
BY DEF TypeOK, Execute, Known, TelemtStep, AccountStep

\* Steps that leave telemt alone have the trivial shape there.
LEMMA TelemtUntouched ==
    ASSUME TypeOK, UNCHANGED telemtVars
    PROVE  TelemtStep /\ AccountStep
BY DEF TypeOK, Known, TelemtStep, AccountStep, telemtVars

\* Ending a request moves one task, to "idle".
LEMMA FinishShape ==
    ASSUME TypeOK, NEW t \in Tasks, NEW result \in Outcomes, Finish(t, result)
    PROVE  /\ \A o \in Tasks : TaskStep(o)
           /\ OneTaskMoves
           /\ name' = name /\ pc'[t] = "idle" /\ outcome'[t] = result
           /\ \A o \in Tasks \ {t} : outcome'[o] = outcome[o]
BY DEF TypeOK, Finish, TaskStep, OneTaskMoves

\* A step of one task that keeps its outcome or resets it.
LEMMA OneStep ==
    ASSUME TypeOK, NEW t \in Tasks,
           \A o \in Tasks \ {t} : /\ pc'[o] = pc[o] /\ name'[o] = name[o]
                                  /\ held'[o] = held[o] /\ outcome'[o] = outcome[o],
           outcome'[t] = "none" \/ (outcome'[t] = outcome[t] /\ name'[t] = name[t]),
           TaskStep(t)
    PROVE  (\A o \in Tasks : TaskStep(o)) /\ OneTaskMoves /\ OutcomeStep
BY DEF TaskStep, OneTaskMoves, OutcomeStep

\* An inserted row is there.
LEMMA InsertedRow ==
    ASSUME NEW n, NEW source, AddProxyUser(n, source)
    PROVE  RowNext(n)
<1> DEFINE row == [telemt_username |-> n, source |-> source, is_active |-> TRUE]
<1>1. row \in proxyUsers' /\ row.telemt_username = n
    BY DEF AddProxyUser
<1> QED BY <1>1

\* Every step of the system has this shape.
LEMMA NextShape == TypeOK /\ NamesFit /\ [Next]_vars => StepShape
<1> SUFFICES ASSUME TypeOK, NamesFit, [Next]_vars PROVE StepShape
    OBVIOUS
<1>fail. ASSUME NEW t \in Tasks, NEW result \in Outcomes \ {"201", "409", "deleted"},
                Finish(t, result), UNCHANGED telemtVars, TablesStep, ServedStep
         PROVE  StepShape
    BY <1>fail, FinishShape, TelemtUntouched DEF StepShape, OutcomeStep
<1>fails. ASSUME NEW t \in Tasks, NEW error
          PROVE  Failure(t, error) \in Outcomes \ {"201", "409", "deleted"}
    BY DEF Failure, Outcomes
<1>1. ASSUME NEW t \in BotTasks, NEW u \in TelegramUsers, GetProxy(t, u) PROVE StepShape
    <2>1. TaskStep(t)
        BY <1>1 DEF GetProxy, Begin, TypeOK, TaskStep, Starts
    <2>2. (\A o \in Tasks : TaskStep(o)) /\ OneTaskMoves /\ OutcomeStep
        BY <1>1, <2>1, OneStep DEF GetProxy, Begin, TypeOK
    <2> QED BY <1>1, <2>2, TelemtUntouched DEF GetProxy, StepShape, TablesStep, ServedStep
<1>2. ASSUME NEW t \in ApiTasks, NEW l \in Labels, CreateLink(t, l) PROVE StepShape
    <2>1. CASE HasLink(l)
        <3>1. (\A o \in Tasks : TaskStep(o)) /\ OneTaskMoves
            BY <1>2, <2>1 DEF CreateLink, TypeOK, TaskStep, OneTaskMoves
        <3>2. OutcomeStep
            BY <1>2, <2>1 DEF CreateLink, TypeOK, OutcomeStep
        <3> QED BY <1>2, <3>1, <3>2, TelemtUntouched
                DEF CreateLink, StepShape, TablesStep, ServedStep
    <2>2. CASE ~HasLink(l)
        <3>1. TaskStep(t)
            BY <1>2, <2>2 DEF CreateLink, Begin, TypeOK, TaskStep, Starts
        <3>2. (\A o \in Tasks : TaskStep(o)) /\ OneTaskMoves /\ OutcomeStep
            BY <1>2, <2>2, <3>1, OneStep DEF CreateLink, Begin, TypeOK
        <3> QED BY <1>2, <3>2, TelemtUntouched DEF CreateLink, StepShape, TablesStep, ServedStep
    <2> QED BY <2>1, <2>2
<1>3. ASSUME NEW t \in ApiTasks, NEW l \in Labels, DeleteLink(t, l) PROVE StepShape
    <2>1. CASE ~HasLink(l)
        <3>1. (\A o \in Tasks : TaskStep(o)) /\ OneTaskMoves
            BY <1>3, <2>1 DEF DeleteLink, TypeOK, TaskStep, OneTaskMoves
        <3>2. OutcomeStep
            BY <1>3, <2>1 DEF DeleteLink, TypeOK, OutcomeStep
        <3> QED BY <1>3, <3>1, <3>2, TelemtUntouched
                DEF DeleteLink, StepShape, TablesStep, ServedStep
    <2>2. CASE HasLink(l)
        <3>1. TaskStep(t)
            BY <1>3, <2>2 DEF DeleteLink, Begin, TypeOK, TaskStep, Starts
        <3>2. (\A o \in Tasks : TaskStep(o)) /\ OneTaskMoves /\ OutcomeStep
            BY <1>3, <2>2, <3>1, OneStep DEF DeleteLink, Begin, TypeOK
        <3> QED BY <1>3, <3>2, TelemtUntouched DEF DeleteLink, StepShape, TablesStep, ServedStep
    <2> QED BY <2>1, <2>2
<1>4. ASSUME NEW t \in ApiTasks, NEW n \in Names, NEW to, ToggleUser(t, n, to)
      PROVE  StepShape
    <2>1. TaskStep(t)
        BY <1>4 DEF ToggleUser, Begin, TypeOK, TaskStep, Starts
    <2>2. (\A o \in Tasks : TaskStep(o)) /\ OneTaskMoves /\ OutcomeStep
        BY <1>4, <2>1, OneStep DEF ToggleUser, Begin, TypeOK
    <2> QED BY <1>4, <2>2, TelemtUntouched DEF ToggleUser, StepShape, TablesStep, ServedStep
<1>5. ASSUME NEW t \in Tasks, CreateUser(t) PROVE StepShape
    <2>1. name[t] \in Names
        BY DEF TypeOK
    <2>2. TelemtStep /\ AccountStep
        BY <1>5, <2>1, ExecuteShape DEF CreateUser
    <2>3. TablesStep /\ ServedStep
        BY <1>5 DEF CreateUser, TablesStep, ServedStep
    <2>4. CASE Known(name[t]) /\ ConflictOnCreate
        <3>1. Finish(t, Failure(t, "api"))
            BY <1>5, <2>4 DEF CreateUser
        <3> QED BY <2>2, <2>3, <3>1, <1>fails, FinishShape DEF StepShape, OutcomeStep
    <2>5. CASE ~(Known(name[t]) /\ ConflictOnCreate)
        <3>1. /\ pc[t] = "creating"
              /\ pc' = [pc EXCEPT ![t] = "created"]
              /\ held' = [held EXCEPT ![t] = telemtSecret'[name[t]]]
              /\ UNCHANGED <<name, outcome>>
            BY <1>5, <2>5 DEF CreateUser
        <3>2. KnownNext(name[t])
            BY <1>5, <2>1, <3>1 DEF CreateUser, Execute, Known, TypeOK
        <3>3. TaskStep(t)
            BY <3>1, <3>2 DEF TypeOK, TaskStep, Learns
        <3>4. (\A o \in Tasks : TaskStep(o)) /\ OneTaskMoves /\ OutcomeStep
            BY <3>1, <3>3, OneStep DEF TypeOK
        <3> QED BY <2>2, <2>3, <3>4 DEF StepShape
    <2> QED BY <2>4, <2>5
<1>6. ASSUME NEW t \in Tasks, GetUser(t) PROVE StepShape
    <2>1. CASE ~Known(name[t])
        BY <1>6, <2>1, <1>fail, <1>fails DEF GetUser, TablesStep, ServedStep
    <2>2. CASE Known(name[t])
        <3>1. TaskStep(t)
            BY <1>6, <2>2 DEF GetUser, TypeOK, TaskStep, Learns
        <3>2. (\A o \in Tasks : TaskStep(o)) /\ OneTaskMoves /\ OutcomeStep
            BY <1>6, <2>2, <3>1, OneStep DEF GetUser, TypeOK
        <3> QED BY <1>6, <3>2, TelemtUntouched DEF GetUser, StepShape, TablesStep, ServedStep
    <2> QED BY <2>1, <2>2
<1>7. ASSUME NEW t \in Tasks, DisableUser(t) PROVE StepShape
    <2>1. name[t] \in Names
        BY DEF TypeOK
    <2>2. TelemtStep /\ AccountStep
        BY <1>7, <2>1, ExecuteShape DEF DisableUser
    <2>3. TablesStep /\ ServedStep
        BY <1>7 DEF DisableUser, TablesStep, ServedStep
    <2>4. ASSUME NEW result \in Outcomes \ {"201", "409", "deleted"}, Finish(t, result)
          PROVE  StepShape
        BY <2>2, <2>3, <2>4, FinishShape DEF StepShape, OutcomeStep
    <2>5. CASE Known(name[t]) /\ Continue(t, "disabling", "removing")
        <3>1. name[t] \in telemtDisabled'
            BY <1>7, <2>5 DEF DisableUser, Execute
        <3>2. TaskStep(t)
            BY <2>5, <3>1 DEF Continue, TypeOK, TaskStep, Learns
        <3>3. (\A o \in Tasks : TaskStep(o)) /\ OneTaskMoves /\ OutcomeStep
            BY <2>5, <3>2, OneStep DEF Continue, TypeOK
        <3> QED BY <2>2, <2>3, <3>3 DEF StepShape
    <2> QED BY <1>7, <2>4, <2>5, <1>fails DEF DisableUser, Outcomes
<1>8. ASSUME NEW t \in Tasks, EnableUser(t) PROVE StepShape
    <2>1. name[t] \in Names
        BY DEF TypeOK
    <2>2. TelemtStep /\ AccountStep
        BY <1>8, <2>1, ExecuteShape DEF EnableUser
    <2>3. TablesStep /\ ServedStep
        BY <1>8 DEF EnableUser, TablesStep, ServedStep
    <2>4. ASSUME NEW result \in Outcomes \ {"201", "409", "deleted"}, Finish(t, result)
          PROVE  StepShape
        BY <2>2, <2>3, <2>4, FinishShape DEF StepShape, OutcomeStep
    <2> QED BY <1>8, <2>4, <1>fails DEF EnableUser, Outcomes
<1>9. ASSUME NEW t \in Tasks, StoreUser(t) PROVE StepShape
    <2>1. CASE HasRow(name[t])
        BY <1>9, <2>1, <1>fail DEF StoreUser, Outcomes, TablesStep, ServedStep, dbVars
    <2>2. CASE ~HasRow(name[t])
        <3>1. /\ t \in BotTasks
              /\ Continue(t, "created", "sending")
              /\ AddProxyUser(name[t], "bot")
              /\ UNCHANGED <<telemtVars, late, links, served, faults>>
            BY <1>9, <2>2 DEF StoreUser
        <3>2. RowNext(name[t])
            BY <3>1, InsertedRow
        <3>3. TaskStep(t)
            BY <3>1, <3>2 DEF Continue, TypeOK, TaskStep, Learns, HasRow
        <3>4. (\A o \in Tasks : TaskStep(o)) /\ OneTaskMoves /\ OutcomeStep
            BY <3>1, <3>3, OneStep DEF Continue, TypeOK
        <3>5. TablesStep
            BY <2>2, <3>1 DEF TablesStep, Continue, TypeOK
        <3> QED BY <3>1, <3>4, <3>5, TelemtUntouched DEF StepShape, ServedStep
    <2> QED BY <2>1, <2>2
<1>10. ASSUME NEW t \in Tasks, SendLink(t) PROVE StepShape
    <2>1. t \in BotTasks
        BY <1>10 DEF SendLink, TypeOK, ApiPCs
    <2>2. "sent" \in Outcomes
        BY DEF Outcomes
    <2> QED BY <1>10, <2>1, <2>2, FinishShape, TelemtUntouched, TasksDisjoint
            DEF SendLink, Deliver, StepShape, TablesStep, ServedStep, OutcomeStep
<1>11. ASSUME NEW t \in Tasks, FlushUser(t) PROVE StepShape
    <2>1. CASE HasRow(name[t])
        <3>1. Finish(t, "409") /\ UNCHANGED <<telemtVars, late, dbVars, served, faults>>
              /\ "409" \in Outcomes
            BY <1>11, <2>1 DEF FlushUser, Outcomes
        <3>2. RowNext(name'[t])
            BY <2>1, <3>1 DEF HasRow, Finish, dbVars
        <3> QED BY <3>1, <3>2, FinishShape, TelemtUntouched
                DEF StepShape, TablesStep, ServedStep, OutcomeStep
    <2>2. CASE ~HasRow(name[t])
        <3>1. TaskStep(t)
            BY <1>11, <2>2 DEF FlushUser, Continue, TypeOK, TaskStep, Learns
        <3>2. (\A o \in Tasks : TaskStep(o)) /\ OneTaskMoves /\ OutcomeStep
            BY <1>11, <2>2, <3>1, OneStep DEF FlushUser, Continue, TypeOK
        <3> QED BY <1>11, <3>2, TelemtUntouched DEF FlushUser, StepShape, TablesStep, ServedStep
    <2> QED BY <2>1, <2>2
<1>12. ASSUME NEW t \in Tasks, CommitLink(t) PROVE StepShape
    <2>1. t \in ApiTasks
        BY <1>12 DEF CommitLink, TypeOK, BotPCs
    <2>2. CASE HasLink(name[t])
        <3>1. Finish(t, "409") /\ UNCHANGED <<telemtVars, late, dbVars, served, faults>>
              /\ "409" \in Outcomes
            BY <1>12, <2>2 DEF CommitLink, Outcomes
        <3>2. HasLink(name'[t])
            BY <2>2, <3>1 DEF Finish
        <3> QED BY <3>1, <3>2, FinishShape, TelemtUntouched
                DEF StepShape, TablesStep, ServedStep, OutcomeStep
    <2>3. CASE ~HasLink(name[t])
        <3>1. /\ Finish(t, "201") /\ InsertLink(t) /\ "201" \in Outcomes
              /\ UNCHANGED <<telemtVars, late, served, faults>>
            BY <1>12, <2>3 DEF CommitLink, Outcomes
        <3>2. RowNext(name'[t])
            BY <3>1, InsertedRow DEF InsertLink, Finish
        <3>3. TablesStep
            BY <1>12, <2>1, <3>1, FinishShape DEF CommitLink, TablesStep
        <3> QED BY <3>1, <3>2, <3>3, FinishShape, TelemtUntouched
                DEF StepShape, ServedStep, OutcomeStep
    <2> QED BY <2>2, <2>3
<1>13. ASSUME NEW t \in Tasks, RemoveLink(t) PROVE StepShape
    <2>1. t \in ApiTasks /\ "deleted" \in Outcomes
        BY <1>13 DEF RemoveLink, TypeOK, BotPCs, Outcomes
    <2>2. /\ \A o \in Tasks : TaskStep(o)
          /\ OneTaskMoves
          /\ name' = name /\ pc'[t] = "idle" /\ outcome'[t] = "deleted"
          /\ \A o \in Tasks \ {t} : outcome'[o] = outcome[o]
        BY <1>13, <2>1, FinishShape DEF RemoveLink
    <2>3. TablesStep
        BY <1>13, <2>1, <2>2 DEF RemoveLink, TablesStep
    <2>4. OutcomeStep
        BY <1>13, <2>2 DEF RemoveLink, OutcomeStep
    <2> QED BY <1>13, <2>2, <2>3, <2>4, TelemtUntouched DEF RemoveLink, StepShape, ServedStep
<1>14. ASSUME NEW t \in Tasks, ConnectionFails(t) PROVE StepShape
    BY <1>14, <1>fail, <1>fails DEF ConnectionFails, TablesStep, ServedStep
<1>15. ASSUME NEW t \in Tasks, TelemtRefuses(t) PROVE StepShape
    BY <1>15, <1>fail, <1>fails DEF TelemtRefuses, TablesStep, ServedStep
<1>16. ASSUME NEW t \in Tasks, HandlerFails(t) PROVE StepShape
    <2>1. Finish(t, Failure(t, "internal")) /\ UNCHANGED telemtVars
        BY <1>16 DEF HandlerFails
    <2>2. pc'[t] = "idle"
        BY <2>1 DEF Finish, TypeOK
    <2>3. /\ pc[t] \in {"flushed", "removing"} => t \in ApiTasks
          /\ pc[t] = "sending" => t \in BotTasks
        BY DEF TypeOK, BotPCs, ApiPCs
    <2>4. TablesStep
        BY <1>16, <2>2, <2>3 DEF HandlerFails, TablesStep, dbVars
    <2>5. ServedStep
        BY <1>16, <2>3 DEF HandlerFails, Deliver, ServedStep
    <2> QED BY <2>1, <2>4, <2>5, <1>fail, <1>fails
<1>17. ASSUME NEW c \in LateCall, LateArrival(c) PROVE StepShape
    <2>1. c.name \in Names
        BY DEF LateCall
    <2>2. TelemtStep /\ AccountStep
        BY <1>17, <2>1, ExecuteShape DEF LateArrival
    <2> QED BY <1>17, <2>2
            DEF LateArrival, taskVars, StepShape, TaskStep, TablesStep, ServedStep,
                OneTaskMoves, OutcomeStep
<1>18. ASSUME NEW n \in Names, RotateSecret(n) PROVE StepShape
    <2>1. TelemtStep /\ AccountStep
        BY <1>18, BoundsAreNaturals DEF RotateSecret, TypeOK, TelemtStep, AccountStep, Known
    <2> QED BY <1>18, <2>1
            DEF RotateSecret, taskVars, StepShape, TaskStep, TablesStep, ServedStep,
                OneTaskMoves, OutcomeStep
<1>19. CASE Crash
    <2>1. (\A o \in Tasks : TaskStep(o)) /\ OneTaskMoves
        BY <1>19 DEF Crash, TaskStep, OneTaskMoves
    <2>2. OutcomeStep
        BY <1>19 DEF Crash, OutcomeStep
    <2> QED BY <1>19, <2>1, <2>2, TelemtUntouched DEF Crash, StepShape, TablesStep, ServedStep
<1>20. CASE UNCHANGED vars
    BY <1>20, TelemtUntouched
    DEF vars, taskVars, StepShape, TaskStep, TablesStep, ServedStep, OneTaskMoves, OutcomeStep
<1> QED BY <1>1, <1>2, <1>3, <1>4, <1>5, <1>6, <1>7, <1>8, <1>9, <1>10, <1>11, <1>12,
           <1>13, <1>14, <1>15, <1>16, <1>17, <1>18, <1>19, <1>20
        DEF Next, TelemtAnswers, HandlerStep

-----------------------------------------------------------------------------
(* The inductive invariant.                                                *)

\* NamesFit needs nothing but the shape of a step.
LEMMA NextNamesFit == TypeOK /\ NamesFit /\ StepShape => NamesFit'
<1> SUFFICES ASSUME TypeOK, NamesFit, StepShape, NEW o \in Tasks
             PROVE  /\ pc'[o] \in {"getting", "sending"} => name'[o] \in TelegramUsers
                    /\ pc'[o] \in {"creating", "created"} =>
                           name'[o] \in IF o \in BotTasks THEN TelegramUsers ELSE Labels
                    /\ pc'[o] \in {"flushed", "disabling", "removing"} => name'[o] \in Labels
    BY DEF NamesFit
<1>1. TaskStep(o)
    BY DEF StepShape
<1>2. CASE Starts(o)
    BY <1>2, TasksDisjoint DEF Starts
<1>3. CASE Learns(o)
    BY <1>3, TasksDisjoint DEF Learns, NamesFit
<1> QED BY <1>1, <1>2, <1>3 DEF TaskStep, NamesFit

\* proxy_users only grows, and only by rows of accounts that had none.
LEMMA RowsGrow ==
    ASSUME TablesStep
    PROVE  \A n : HasRow(n) => RowNext(n)
BY DEF TablesStep, HasRow, AddProxyUser, InsertLink, DropLink, dbVars

\* A new row belongs to a task that was about to write it.
LEMMA NewRow ==
    ASSUME IndInv, StepShape, NEW n, RowNext(n), ~HasRow(n)
    PROVE  \E t \in Tasks :
              /\ name[t] = n /\ pc'[t] # pc[t]
              /\ \/ t \in BotTasks /\ pc[t] = "created" /\ pc'[t] = "sending" /\ UNCHANGED links
                 \/ t \in ApiTasks /\ pc[t] = "flushed" /\ pc'[t] = "idle" /\ InsertLink(t)
<1>1. ASSUME NEW t \in BotTasks, pc[t] = "created" /\ pc'[t] = "sending" /\ ~HasRow(name[t]),
             AddProxyUser(name[t], "bot") /\ UNCHANGED links
      PROVE  name[t] = n
    BY <1>1 DEF AddProxyUser, HasRow
<1>2. ASSUME NEW t \in ApiTasks, pc[t] = "flushed" /\ pc'[t] = "idle" /\ InsertLink(t)
      PROVE  name[t] = n
    BY <1>2 DEF InsertLink, AddProxyUser, HasRow
<1> QED BY <1>1, <1>2 DEF StepShape, TablesStep, HasRow, dbVars, DropLink

\* A new link belongs to the committing create_link.
LEMMA NewLink ==
    ASSUME StepShape, NEW r \in links', r \notin links
    PROVE  \E t \in ApiTasks : /\ pc[t] = "flushed" /\ pc'[t] = "idle" /\ InsertLink(t)
                               /\ r = [label |-> name[t], secret |-> held[t]]
BY DEF StepShape, TablesStep, InsertLink, DropLink, dbVars

\* What a task learned from telemt or the database survives the steps of others:
\* secrets and rows are never taken back, and its own account stays its own.
LEMMA NextTaskKnowledge == IndInv /\ TypeOK' /\ StepShape => TaskKnowledge'
<1> SUFFICES ASSUME IndInv, TypeOK', StepShape, NEW o \in Tasks
             PROVE  /\ pc'[o] \in {"created", "flushed"} =>
                           held'[o] \in 1 .. telemtSecret'[name'[o]]
                    /\ pc'[o] \in {"getting", "sending"} => RowNext(name'[o])
                    /\ pc'[o] = "sending" /\ SecretInGet =>
                           held'[o] \in 1 .. telemtSecret'[name'[o]]
                    /\ pc'[o] \in {"disabling", "removing"} => RowNext(name'[o])
                    /\ pc'[o] = "removing" => name'[o] \in telemtDisabled' \cup reEnabled'
    BY DEF TaskKnowledge, HasRow
<1> USE DEF IndInv
<1>1. TaskStep(o)
    BY DEF StepShape
<1>2. \A n : HasRow(n) => RowNext(n)
    BY RowsGrow DEF StepShape
<1>3. /\ name[o] \in Names
      /\ telemtSecret[name[o]] \in Nat /\ telemtSecret'[name[o]] \in Nat
      /\ held[o] \in Nat
    BY BoundsAreNaturals DEF TypeOK
<1>4. /\ telemtSecret'[name[o]] >= telemtSecret[name[o]]
      /\ name[o] \in telemtDisabled \cup reEnabled
             => name[o] \in telemtDisabled' \cup reEnabled'
    BY <1>3 DEF StepShape, TelemtStep
<1>5. CASE pc'[o] = pc[o] /\ name'[o] = name[o] /\ held'[o] = held[o]
    BY <1>2, <1>3, <1>4, <1>5 DEF TaskKnowledge
<1>6. CASE Starts(o)
    BY <1>2, <1>6 DEF Starts, TablesConsistent, HasLink
<1>7. CASE Learns(o)
    BY <1>2, <1>3, <1>4, <1>7 DEF Learns, TaskKnowledge, Known
<1> QED BY <1>1, <1>5, <1>6, <1>7 DEF TaskStep

\* Only one uncommitted row per username: whoever flushes next has waited.
LEMMA NextFlushExclusive == IndInv /\ StepShape => FlushExclusive'
<1> SUFFICES ASSUME IndInv, StepShape, NEW t \in ApiTasks, NEW o \in ApiTasks,
                    pc'[t] = "flushed", pc'[o] = "flushed", name'[t] = name'[o], t # o
             PROVE  FALSE
    BY DEF FlushExclusive
<1>1. ASSUME NEW p \in ApiTasks, pc'[p] = "flushed"
      PROVE  /\ name'[p] = name[p]
             /\ pc[p] # "flushed" =>
                    /\ pc[p] = "created"
                    /\ \A q \in ApiTasks : pc[q] = "flushed" => name[q] # name[p]
    BY <1>1 DEF StepShape, TaskStep, Starts, Learns
<1>2. ~(pc[t] # "flushed" /\ pc[o] # "flushed")
    BY DEF StepShape, OneTaskMoves
<1> QED BY <1>1, <1>2 DEF IndInv, FlushExclusive

\* A new row was announced by a task that had telemt's answer.
LEMMA NextRowsHaveTelemtUser == IndInv /\ TypeOK' /\ StepShape => RowsHaveTelemtUser'
<1> SUFFICES ASSUME IndInv, TypeOK', StepShape PROVE RowsHaveTelemtUser'
    OBVIOUS
<1>1. \A n \in Names : Known(n) => KnownNext(n)
    BY BoundsAreNaturals DEF IndInv, TypeOK, StepShape, TelemtStep, Known
<1>2. ASSUME NEW r \in proxyUsers' PROVE KnownNext(r.telemt_username)
    <2>1. r.telemt_username \in Names
        BY DEF TypeOK, ProxyUserRow
    <2>2. CASE HasRow(r.telemt_username)
        BY <1>1, <2>1, <2>2 DEF IndInv, RowsHaveTelemtUser, HasRow
    <2>3. CASE ~HasRow(r.telemt_username)
        BY <1>1, <2>1, <2>3, NewRow DEF IndInv, RowsHaveTelemtUser
    <2> QED BY <2>2, <2>3
<1>3. ASSUME NEW t \in Tasks, pc'[t] \in {"created", "flushed"}
      PROVE  KnownNext(name'[t])
    BY <1>1, <1>3 DEF StepShape, TaskStep, Starts, Learns, IndInv, RowsHaveTelemtUser, TypeOK
<1> QED BY <1>2, <1>3 DEF RowsHaveTelemtUser, Known

\* A task at "flushed" shares its name with no other writer of the same row.
LEMMA NextSecondConflict == IndInv /\ TypeOK' /\ StepShape => SecondConflictUnreachable'
<1> SUFFICES ASSUME IndInv, TypeOK', StepShape, NEW t \in ApiTasks, pc'[t] = "flushed"
             PROVE  ~RowNext(name'[t]) /\ ~ \E r \in links' : r.label = name'[t]
    BY DEF SecondConflictUnreachable, HasRow, HasLink
<1> USE DEF IndInv
<1>1. /\ name'[t] = name[t] /\ name[t] \in Labels
      /\ ~HasRow(name[t])
      /\ pc[t] # "flushed" =>
             /\ pc[t] = "created"
             /\ \A q \in ApiTasks : pc[q] = "flushed" => name[q] # name[t]
    BY TasksDisjoint
    DEF StepShape, TaskStep, Starts, Learns, SecondConflictUnreachable, NamesFit
<1>2. ~HasLink(name[t])
    BY <1>1 DEF TablesConsistent, HasLink
<1>3. ASSUME NEW o \in ApiTasks, pc[o] = "flushed", pc'[o] = "idle" PROVE name[o] # name[t]
    <2>1. o # t
        BY <1>3
    <2>2. CASE pc[t] = "flushed"
        BY <1>3, <2>1, <2>2 DEF FlushExclusive
    <2>3. CASE pc[t] # "flushed"
        BY <1>1, <1>3, <2>3
    <2> QED BY <2>2, <2>3
<1>4. ASSUME NEW o \in BotTasks, pc[o] = "created" PROVE name[o] # name[t]
    BY <1>1, <1>4, AccountsDisjoint DEF NamesFit
<1>5. ~RowNext(name[t])
    BY <1>1, <1>3, <1>4, NewRow
<1>6. ~ \E r \in links' : r.label = name[t]
    BY <1>2, <1>3, NewLink DEF HasLink
<1> QED BY <1>1, <1>5, <1>6

\* The three commits keep the constraints of the tables.
LEMMA NextTablesConsistent == IndInv /\ TypeOK' /\ StepShape => TablesConsistent'
<1> SUFFICES ASSUME IndInv, TypeOK', StepShape PROVE TablesConsistent'
    OBVIOUS
<1> USE DEF IndInv
<1>1. CASE UNCHANGED dbVars
    BY <1>1 DEF TablesConsistent, HasRow, dbVars
<1>2. ASSUME NEW n, NEW source, ~HasRow(n), AddProxyUser(n, source)
      PROVE  \A r, s \in proxyUsers' : r.telemt_username = s.telemt_username => r = s
    <2> DEFINE row == [telemt_username |-> n, source |-> source, is_active |-> TRUE]
    <2>1. row.telemt_username = n /\ proxyUsers' = proxyUsers \cup {row}
        BY <1>2 DEF AddProxyUser
    <2> HIDE DEF row
    <2> QED BY <1>2, <2>1 DEF TablesConsistent, HasRow
<1>3. ASSUME NEW t \in BotTasks, ~HasRow(name[t]), AddProxyUser(name[t], "bot"),
             UNCHANGED links
      PROVE  TablesConsistent'
    BY <1>2, <1>3, RowsGrow DEF TablesConsistent, StepShape, HasRow
<1>4. ASSUME NEW t \in ApiTasks, pc[t] = "flushed", InsertLink(t)
      PROVE  TablesConsistent'
    <2>1. ~HasRow(name[t]) /\ ~HasLink(name[t])
        BY <1>4 DEF SecondConflictUnreachable
    <2>2. AddProxyUser(name[t], "admin_label")
        BY <1>4 DEF InsertLink
    <2>3. RowNext(name[t])
        BY <2>2, InsertedRow
    <2>4. \A r \in links' : RowNext(r.label)
        BY <1>4, <2>3, RowsGrow DEF InsertLink, StepShape, TablesConsistent
    <2>5. \A r, s \in links' : r.label = s.label => r = s
        BY <1>4, <2>1 DEF InsertLink, TablesConsistent, HasLink
    <2> QED BY <1>2, <2>1, <2>2, <2>4, <2>5 DEF TablesConsistent, HasRow
<1>5. ASSUME NEW t \in ApiTasks, DropLink(t) PROVE TablesConsistent'
    BY <1>5 DEF DropLink, TablesConsistent, HasRow
<1> QED BY <1>1, <1>3, <1>4, <1>5 DEF StepShape, TablesStep

\* Links and messages carry secrets telemt issued: the task that writes or
\* sends one has held it since telemt's answer, and telemt takes none back.
LEMMA NextSecretsWereIssued == IndInv /\ TypeOK' /\ StepShape => SecretsWereIssued'
<1> SUFFICES ASSUME IndInv, TypeOK', StepShape PROVE SecretsWereIssued'
    OBVIOUS
<1> USE DEF IndInv
<1>1. ASSUME NEW n \in Names, NEW s, s \in 1 .. telemtSecret[n]
      PROVE  s \in 1 .. telemtSecret'[n]
    <2>1. /\ telemtSecret[n] \in Nat /\ telemtSecret'[n] \in Nat
          /\ telemtSecret'[n] >= telemtSecret[n]
        BY BoundsAreNaturals DEF TypeOK, StepShape, TelemtStep
    <2> QED BY <1>1, <2>1
<1>2. ASSUME NEW r \in links' PROVE r.secret \in 1 .. telemtSecret'[r.label]
    <2>1. CASE r \in links
        <3>1. r.label \in Names /\ r.secret \in 1 .. telemtSecret[r.label]
            BY <2>1 DEF SecretsWereIssued, TypeOK, LinkRow
        <3> QED BY <1>1, <3>1
    <2>2. CASE r \notin links
        <3>1. PICK t \in ApiTasks : /\ pc[t] = "flushed"
                                    /\ r = [label |-> name[t], secret |-> held[t]]
            BY <2>2, NewLink
        <3>2. r.label = name[t] /\ r.secret = held[t]
            BY <3>1
        <3>3. held[t] \in 1 .. telemtSecret[name[t]] /\ name[t] \in Names
            BY <3>1 DEF TaskKnowledge, TypeOK
        <3> QED BY <1>1, <3>2, <3>3
    <2> QED BY <2>1, <2>2
<1>3. ASSUME SecretInGet, NEW s \in served' PROVE s.secret \in 1 .. telemtSecret'[s.name]
    <2>1. CASE s \in served
        <3>1. s.name \in Names /\ s.secret \in 1 .. telemtSecret[s.name]
            BY <1>3, <2>1 DEF SecretsWereIssued, TypeOK
        <3> QED BY <1>1, <3>1
    <2>2. CASE s \notin served
        <3>1. PICK t \in BotTasks : /\ pc[t] = "sending"
                                    /\ s = [name |-> name[t], secret |-> held[t]]
            BY <2>2 DEF StepShape, ServedStep
        <3>2. s.name = name[t] /\ s.secret = held[t]
            BY <3>1
        <3>3. held[t] \in 1 .. telemtSecret[name[t]] /\ name[t] \in Names
            BY <1>3, <3>1 DEF TaskKnowledge, TypeOK
        <3> QED BY <1>1, <3>2, <3>3
    <2> QED BY <2>1, <2>2
<1> QED BY <1>2, <1>3 DEF SecretsWereIssued

\* A label without link either was without one before, or its delete_link is
\* the one committing now, after telemt switched the account off.
LEMMA NextDeletedLabelsDisabled == IndInv /\ TypeOK' /\ StepShape => DeletedLabelsDisabled'
<1> SUFFICES ASSUME IndInv, TypeOK', StepShape, NEW l \in Labels,
                    RowNext(l), ~ \E r \in links' : r.label = l
             PROVE  l \in telemtDisabled' \cup reEnabled'
    BY DEF DeletedLabelsDisabled, HasRow, HasLink
<1> USE DEF IndInv
<1>1. l \in telemtDisabled \cup reEnabled => l \in telemtDisabled' \cup reEnabled'
    BY DEF StepShape, TelemtStep
<1>2. HasRow(l)
    <2>1. ASSUME NEW t \in Tasks, name[t] = l, t \in BotTasks, pc[t] = "created" PROVE FALSE
        BY <2>1, AccountsDisjoint DEF NamesFit
    <2>2. ASSUME NEW t \in Tasks, name[t] = l, InsertLink(t) PROVE FALSE
        <3>1. [label |-> name[t], secret |-> held[t]] \in links'
            BY <2>2 DEF InsertLink
        <3> QED BY <2>2, <3>1
    <2> QED BY <2>1, <2>2, NewRow
<1>3. CASE HasLink(l)
    <2>1. PICK r \in links : r.label = l
        BY <1>3 DEF HasLink
    <2>2. r \notin links'
        BY <2>1
    <2>3. PICK t \in ApiTasks : pc[t] = "removing" /\ DropLink(t)
        BY <2>1, <2>2 DEF StepShape, TablesStep, InsertLink, dbVars
    <2>4. name[t] = l
        BY <2>1, <2>2, <2>3 DEF DropLink
    <2> QED BY <1>1, <2>3, <2>4 DEF TaskKnowledge
<1>4. CASE ~HasLink(l)
    BY <1>1, <1>2, <1>4 DEF DeletedLabelsDisabled
<1> QED BY <1>3, <1>4

\* Answers stay true because rows stay, and a label with a row gets no new link.
LEMMA NextLinkAnswersStayTrue == IndInv /\ TypeOK' /\ StepShape => LinkAnswersStayTrue'
<1> SUFFICES ASSUME IndInv, TypeOK', StepShape, NEW t \in ApiTasks
             PROVE  /\ outcome'[t] \in {"201", "409"} => RowNext(name'[t])
                    /\ outcome'[t] = "deleted" =>
                           RowNext(name'[t]) /\ ~ \E r \in links' : r.label = name'[t]
    BY DEF LinkAnswersStayTrue, HasRow, HasLink
<1> USE DEF IndInv
<1>1. \A n : HasRow(n) => RowNext(n)
    BY RowsGrow DEF StepShape
<1>2. ASSUME NEW n, HasRow(n), ~HasLink(n) PROVE ~ \E r \in links' : r.label = n
    <2> SUFFICES ASSUME NEW r \in links', r.label = n PROVE FALSE
        OBVIOUS
    <2>1. r \notin links
        BY <1>2 DEF HasLink
    <2>2. PICK o \in ApiTasks : /\ pc[o] = "flushed"
                                /\ r = [label |-> name[o], secret |-> held[o]]
        BY <2>1, NewLink
    <2>3. name[o] = n
        BY <2>2
    <2> QED BY <1>2, <2>2, <2>3 DEF SecondConflictUnreachable
<1>3. CASE outcome'[t] = outcome[t] /\ name'[t] = name[t]
    BY <1>1, <1>2, <1>3 DEF LinkAnswersStayTrue
<1>4. CASE outcome'[t] = "409" /\ HasLink(name'[t])
    BY <1>1, <1>4 DEF TablesConsistent, HasLink
<1>5. CASE outcome'[t] = "deleted" /\ name'[t] = name[t] /\ pc[t] = "removing" /\ DropLink(t)
    BY <1>1, <1>5 DEF TaskKnowledge, DropLink
<1> QED BY <1>3, <1>4, <1>5 DEF StepShape, OutcomeStep

\* The inductive invariant holds initially.
LEMMA InitIndInv == Init => IndInv
<1> SUFFICES ASSUME Init PROVE IndInv
    OBVIOUS
<1>1. TypeOK
    BY InitTypeOK
<1> QED BY <1>1
    DEF Init, IndInv, NamesFit, TaskKnowledge, FlushExclusive, RowsHaveTelemtUser,
        TablesConsistent, SecondConflictUnreachable, SecretsWereIssued,
        DeletedLabelsDisabled, LinkAnswersStayTrue, HasRow, HasLink

\* Every step keeps it.
LEMMA NextIndInv == IndInv /\ [Next]_vars => IndInv'
<1> SUFFICES ASSUME IndInv, [Next]_vars PROVE IndInv'
    OBVIOUS
<1>1. TypeOK /\ NamesFit /\ TaskKnowledge
    BY DEF IndInv
<1>2. TypeOK' /\ StepShape
    BY <1>1, NextTypeOK, NextShape
<1>3. NamesFit'
    BY <1>1, <1>2, NextNamesFit
<1>4. TaskKnowledge' /\ FlushExclusive' /\ RowsHaveTelemtUser' /\ TablesConsistent'
    BY <1>2, NextTaskKnowledge, NextFlushExclusive, NextRowsHaveTelemtUser,
       NextTablesConsistent
<1>5. /\ SecondConflictUnreachable' /\ SecretsWereIssued'
      /\ DeletedLabelsDisabled' /\ LinkAnswersStayTrue'
    BY <1>2, NextSecondConflict, NextSecretsWereIssued, NextDeletedLabelsDisabled,
       NextLinkAnswersStayTrue
<1> QED BY <1>2, <1>3, <1>4, <1>5 DEF IndInv

-----------------------------------------------------------------------------
(* The two stores without failures.                                        *)

\* A task is between telemt's answer and the commit of n's row.
Storing(n) == \E t \in Tasks : pc[t] \in {"created", "flushed"} /\ name[t] = n

\* Until something fails, an account telemt has is in the database or is about
\* to be, and no abandoned call is under way.
NoOrphans ==
    faults = 0 => late = {} /\ \A n \in Names : Known(n) => HasRow(n) \/ Storing(n)

\* Without a failure only CreateUser makes an account known, and its task
\* stores the row; a task that stops storing has found one or commits one.
LEMMA NextNoOrphans == IndInv /\ NoOrphans /\ [Next]_vars => NoOrphans'
<1> SUFFICES ASSUME IndInv, NoOrphans, [Next]_vars, faults' = 0
             PROVE  late' = {} /\ \A n \in Names : KnownNext(n) => RowNext(n) \/ Storing(n)'
    BY DEF NoOrphans, Known, HasRow
<1> USE DEF IndInv, TypeOK
<1>1. faults = 0 /\ late = {} /\ \A n \in Names : Known(n) => HasRow(n) \/ Storing(n)
    <2>1. faults \in Nat /\ (faults' = faults \/ faults' = faults + 1)
        BY BoundsAreNaturals
        DEF Next, vars, TelemtAnswers, HandlerStep, GetProxy, CreateLink, DeleteLink, ToggleUser,
            CreateUser, GetUser, DisableUser, EnableUser, StoreUser, SendLink, FlushUser,
            CommitLink, RemoveLink, ConnectionFails, TelemtRefuses, HandlerFails, LateArrival,
            RotateSecret, Crash
    <2> QED BY <2>1 DEF NoOrphans
<1>2. ASSUME UNCHANGED <<telemtSecret, late>>, \A n \in Names : HasRow(n) => RowNext(n),
             \A t \in Tasks : pc[t] \in {"created", "flushed"} =>
                 \/ pc'[t] \in {"created", "flushed"} /\ name'[t] = name[t]
                 \/ RowNext(name[t])
      PROVE  late' = {} /\ \A n \in Names : KnownNext(n) => RowNext(n) \/ Storing(n)'
    BY <1>1, <1>2 DEF Storing, Known
<1>3. ASSUME NEW t \in Tasks, pc[t] \notin {"created", "flushed"},
             \A o \in Tasks \ {t} : pc'[o] = pc[o] /\ name'[o] = name[o],
             UNCHANGED <<telemtSecret, late>>, \A n \in Names : HasRow(n) => RowNext(n)
      PROVE  late' = {} /\ \A n \in Names : KnownNext(n) => RowNext(n) \/ Storing(n)'
    BY <1>2, <1>3
<1>4. ASSUME NEW t \in Tasks, \/ \E u \in TelegramUsers : GetProxy(t, u)
                              \/ \E l \in Labels : CreateLink(t, l) \/ DeleteLink(t, l)
                              \/ \E n \in Names, to \in {"userDisabling", "userEnabling"} :
                                     ToggleUser(t, n, to)
      PROVE  late' = {} /\ \A n \in Names : KnownNext(n) => RowNext(n) \/ Storing(n)'
    BY <1>3, <1>4 DEF GetProxy, CreateLink, DeleteLink, ToggleUser, Begin, telemtVars, dbVars,
                      HasRow
<1>5. ASSUME NEW t \in Tasks, GetUser(t) \/ DisableUser(t) \/ EnableUser(t) \/ SendLink(t)
                              \/ RemoveLink(t)
      PROVE  late' = {} /\ \A n \in Names : KnownNext(n) => RowNext(n) \/ Storing(n)'
    BY <1>3, <1>5 DEF GetUser, DisableUser, EnableUser, SendLink, RemoveLink, DropLink, Execute,
                      Finish, Continue, telemtVars, dbVars, HasRow
<1>6. ASSUME NEW t \in Tasks, CreateUser(t)
      PROVE  late' = {} /\ \A n \in Names : KnownNext(n) => RowNext(n) \/ Storing(n)'
    <2>1. /\ pc[t] = "creating" /\ late' = late
          /\ \A n \in Names : HasRow(n) => RowNext(n)
          /\ \A o \in Tasks \ {t} : pc'[o] = pc[o] /\ name'[o] = name[o]
        BY <1>6 DEF CreateUser, Finish, dbVars, HasRow
    <2>2. CASE Known(name[t])
        BY <1>3, <1>6, <2>1, <2>2 DEF CreateUser, Execute
    <2>3. CASE ~Known(name[t])
        <3>1. pc'[t] = "created" /\ name'[t] = name[t]
            BY <1>6, <2>3 DEF CreateUser
        <3>2. \A n \in Names \ {name[t]} : KnownNext(n) => Known(n)
            BY <1>6, <2>3 DEF CreateUser, Execute, Known
        <3> QED BY <1>1, <2>1, <3>1, <3>2 DEF Storing
    <2> QED BY <2>2, <2>3
<1>7. ASSUME NEW t \in Tasks, StoreUser(t)
      PROVE  late' = {} /\ \A n \in Names : KnownNext(n) => RowNext(n) \/ Storing(n)'
    <2>1. CASE HasRow(name[t])
        BY <1>2, <1>7, <2>1 DEF StoreUser, Finish, telemtVars, HasRow
    <2>2. CASE ~HasRow(name[t])
        <3>1. AddProxyUser(name[t], "bot") /\ Continue(t, "created", "sending")
              /\ UNCHANGED <<telemtSecret, late>>
            BY <1>7, <2>2 DEF StoreUser, telemtVars
        <3>2. RowNext(name[t]) /\ \A n \in Names : HasRow(n) => RowNext(n)
            BY <3>1, InsertedRow DEF AddProxyUser, HasRow
        <3> QED BY <1>2, <3>1, <3>2 DEF Continue
    <2> QED BY <2>1, <2>2
<1>8. ASSUME NEW t \in Tasks, FlushUser(t)
      PROVE  late' = {} /\ \A n \in Names : KnownNext(n) => RowNext(n) \/ Storing(n)'
    BY <1>2, <1>8 DEF FlushUser, Finish, Continue, telemtVars, dbVars, HasRow
<1>9. ASSUME NEW t \in Tasks, CommitLink(t)
      PROVE  late' = {} /\ \A n \in Names : KnownNext(n) => RowNext(n) \/ Storing(n)'
    <2>1. t \in ApiTasks /\ ~HasLink(name[t])
        BY <1>9 DEF CommitLink, BotPCs, SecondConflictUnreachable
    <2>2. AddProxyUser(name[t], "admin_label") /\ UNCHANGED <<telemtSecret, late>>
        BY <1>9, <2>1 DEF CommitLink, InsertLink, telemtVars
    <2>3. RowNext(name[t]) /\ \A n \in Names : HasRow(n) => RowNext(n)
        BY <2>2, InsertedRow DEF AddProxyUser, HasRow
    <2> QED BY <1>2, <1>9, <2>1, <2>2, <2>3 DEF CommitLink, Finish
<1>10. ASSUME NEW n \in Names, RotateSecret(n)
       PROVE  late' = {} /\ \A m \in Names : KnownNext(m) => RowNext(m) \/ Storing(m)'
    BY <1>1, <1>10, BoundsAreNaturals
    DEF RotateSecret, Known, HasRow, Storing, taskVars, dbVars
<1>11. ASSUME NEW c \in LateCall, LateArrival(c) PROVE FALSE
    BY <1>1, <1>11 DEF LateArrival
<1>12. ASSUME \/ \E t \in Tasks : ConnectionFails(t) \/ TelemtRefuses(t) \/ HandlerFails(t)
              \/ Crash
       PROVE  FALSE
    BY <1>1, <1>12 DEF ConnectionFails, TelemtRefuses, HandlerFails, Crash
<1>13. CASE UNCHANGED vars
    BY <1>2, <1>13 DEF vars, telemtVars, dbVars, taskVars, HasRow
<1> QED BY <1>4, <1>5, <1>6, <1>7, <1>8, <1>9, <1>10, <1>11, <1>12, <1>13
        DEF Next, TelemtAnswers, HandlerStep

-----------------------------------------------------------------------------
(* The theorems.                                                           *)

\* The inductive invariant holds in every reachable state, for any number of
\* users, labels, concurrent handlers, secrets and failures.
THEOREM Inductive == Spec => []IndInv
<1>1. Init => IndInv
    BY InitIndInv
<1>2. IndInv /\ [Next]_vars => IndInv'
    BY NextIndInv
<1> QED BY <1>1, <1>2, PTL DEF Spec

\* The state is always well typed.
THEOREM TypeCorrect == Spec => []TypeOK
<1>1. IndInv => TypeOK
    BY DEF IndInv
<1> QED BY <1>1, Inductive, PTL

\* The database never names an account telemt does not have (get_proxy and
\* create_link write telemt first).
THEOREM RowsAlwaysHaveTelemtUser == Spec => []RowsHaveTelemtUser
<1>1. IndInv => RowsHaveTelemtUser
    BY DEF IndInv
<1> QED BY <1>1, Inductive, PTL

\* The commit-time conflict branch of create_link is dead code.
THEOREM SecondConflictNeverReached == Spec => []SecondConflictUnreachable
<1>1. IndInv => SecondConflictUnreachable
    BY DEF IndInv
<1> QED BY <1>1, Inductive, PTL

\* Stored and sent links carry secrets telemt issued for that account.
THEOREM SecretsAlwaysIssued == Spec => []SecretsWereIssued
<1>1. IndInv => SecretsWereIssued
    BY DEF IndInv
<1> QED BY <1>1, Inductive, PTL

\* The account of a deleted label stays switched off in telemt.
THEOREM DeletedLabelsStayDisabled == Spec => []DeletedLabelsDisabled
<1>1. IndInv => DeletedLabelsDisabled
    BY DEF IndInv
<1> QED BY <1>1, Inductive, PTL

\* No later request, failure or crash makes a 201 or 409 of create_link or a
\* "deleted" of delete_link false.
THEOREM LinkAnswersAlwaysStayTrue == Spec => []LinkAnswersStayTrue
<1>1. IndInv => LinkAnswersStayTrue
    BY DEF IndInv
<1> QED BY <1>1, Inductive, PTL

\* Without failures the two stores name the same accounts whenever no request is
\* running, however the handlers of one user or one label overlapped.
THEOREM IdleStoresAlwaysAgree == Spec => []IdleStoresAgree
<1>1. Init => NoOrphans
    BY DEF Init, NoOrphans, Known
<1>2. Spec => [](IndInv /\ NoOrphans)
    BY <1>1, Inductive, NextNoOrphans, PTL DEF Spec
<1>3. IndInv /\ NoOrphans => IdleStoresAgree
    <2> SUFFICES ASSUME IndInv, NoOrphans, faults = 0, \A t \in Tasks : pc[t] = "idle",
                        NEW n \in Names
                 PROVE  Known(n) <=> HasRow(n)
        BY DEF IdleStoresAgree
    <2>1. Known(n) => HasRow(n)
        BY DEF NoOrphans, Storing
    <2>2. HasRow(n) => Known(n)
        BY DEF IndInv, RowsHaveTelemtUser, HasRow
    <2> QED BY <2>1, <2>2
<1> QED BY <1>2, <1>3, PTL
=============================================================================
