--------------------------- MODULE ContainerProofs ---------------------------
(***************************************************************************)
(* That neither service runs before the database is ready for it and that  *)
(* the bot has one client for telemt, for any number of handlers, retries  *)
(* and faults and whatever .env files the container is started with.       *)
(***************************************************************************)
EXTENDS Container, FiniteSetTheorems, TLAPS

\* What the entrypoint has done when it is at a step.
Prepared ==
    /\ entry \in {"seeding", "start api", "start bot", "wait"} => schema = "head"
    /\ entry \in {"start api", "start bot", "wait"} => env.username \in admins
    /\ api # "off" => entry \in {"start bot", "wait"}

\* The client that is kept is the one that is open, except while it is closed.
KeptIsOpen ==
    bot # "closing client" /\ bot # "ended" =>
        /\ client = NoClient => open = {}
        /\ client # NoClient => open = {client}

ClosedWhileClosing == bot = "closing client" => open = {} /\ client # NoClient

AtMostOneLeft == bot = "ended" => open \subseteq {client}

NothingHandled ==
    bot \in {"off", "launched", "starting", "ended"} =>
        \A h \in Handlers : task[h] = Idle

SentOnTheClient ==
    ~Stopping => \A h \in Handlers :
        task[h].pc = "sending" => task[h].on = client /\ client # NoClient

Connected ==
    KeptIsOpen /\ ClosedWhileClosing /\ AtMostOneLeft /\ NothingHandled /\ SentOnTheClient

IInv == TypeOK /\ Prepared /\ Connected

-------------------------------------------------------------------------------
Tasks(m) == [pc : {"idle", "running", "sending"}, on : 1..m \cup {NoClient}]

LEMMA TaskTypes ==
  ASSUME NEW m
  PROVE  /\ Idle \in Tasks(m) /\ Running \in Tasks(m)
         /\ \A c \in 1..m : Sending(c) \in Tasks(m)
  BY DEF Idle, Running, Sending, Tasks

LEMMA InitInv == Init => IInv
<1> SUFFICES ASSUME Init PROVE IInv
  OBVIOUS
<1>1. BotTypeOK
  <2>1. task \in [Handlers -> Tasks(0)]
    BY TaskTypes DEF Init, BotFresh
  <2> QED
    BY <2>1 DEF Init, BotFresh, BotTypeOK, Tasks
<1>2. TypeOK
  <2>1. tries \in 0..(MaxRetries - 1) /\ faults \in 0..MaxFaults
    BY ContainerAssumption DEF Init
  <2> QED
    BY <1>1, <2>1 DEF Init, TypeOK
<1>3. Prepared
  BY DEF Init, Prepared
<1>4. Connected
  BY DEF Init, BotFresh, Connected, KeptIsOpen, ClosedWhileClosing, AtMostOneLeft,
         NothingHandled, SentOnTheClient, Idle
<1> QED
  BY <1>2, <1>3, <1>4 DEF IInv

\* With the container go the bot's connections and tasks.
LEMMA EndsInv ==
  ASSUME IInv, NEW to \in {"down", "stopped"}, AllEnd(to), faults' \in 0..MaxFaults
  PROVE  IInv'
<1>1. BotTypeOK'
  <2>1. task' \in [Handlers -> Tasks(0)]
    BY TaskTypes DEF AllEnd, Forgotten
  <2> QED
    BY <2>1 DEF AllEnd, Forgotten, BotTypeOK, Tasks
<1>2. TypeOK'
  <2>1. tries' \in 0..(MaxRetries - 1)
    BY ContainerAssumption DEF AllEnd
  <2>2. /\ entry' \in {"stopped", "down", "waiting", "migrating", "seeding",
                       "start api", "start bot", "wait"}
        /\ bot' = "off"
    BY DEF AllEnd
  <2>3. api' \in {"off", "starting", "up", "ended"}
    BY DEF AllEnd
  <2>4. database' \in {"up", "down"} /\ schema' \in {"none", "head"}
    BY DEF AllEnd, IInv, TypeOK
  <2>5. admins' \subseteq Usernames /\ env' \in Environments
    BY DEF AllEnd, IInv, TypeOK
  <2> QED
    BY <1>1, <2>1, <2>2, <2>3, <2>4, <2>5 DEF TypeOK
<1>3. Prepared'
  BY DEF AllEnd, Prepared
<1>4. Connected'
  BY DEF AllEnd, Forgotten, Connected, KeptIsOpen, ClosedWhileClosing, AtMostOneLeft,
         NothingHandled, SentOnTheClient, Idle
<1> QED
  BY <1>2, <1>3, <1>4 DEF IInv

\* The steps of the process keep its connection.
LEMMA BotStep ==
  ASSUME IInv, Bot
  PROVE  IInv'
<1>0. /\ UNCHANGED containerVars
      /\ TypeOK /\ BotTypeOK
      /\ KeptIsOpen /\ ClosedWhileClosing /\ AtMostOneLeft /\ NothingHandled /\ SentOnTheClient
  BY DEF Bot, IInv, TypeOK, Connected
<1>1. Prepared'
  BY <1>0 DEF Prepared, IInv, containerVars
<1>2. made \in Nat /\ task \in [Handlers -> Tasks(made)]
  BY <1>0 DEF BotTypeOK, Tasks
<1>3. ASSUME BotTypeOK', Connected', bot # "off" PROVE IInv'
  <2>1. TypeOK'
    BY <1>0, <1>3 DEF TypeOK, containerVars
  <2> QED
    BY <1>1, <1>3, <2>1 DEF IInv
<1>4. CASE Configure(~Lacks("bot")) \/ StartPolling(~Lacks("token"))
  <2>1. /\ UNCHANGED <<client, made, open, task>>
        /\ bot = "launched" \/ bot = "starting"
        /\ bot' \in {"starting", "ended", "polling", "stopping"}
    BY <1>4 DEF Configure, StartPolling
  <2>2. \A h \in Handlers : task[h] = Idle
    BY <1>0, <2>1 DEF NothingHandled
  <2>3. BotTypeOK'
    BY <1>0, <2>1 DEF BotTypeOK, Stopping
  <2>4. Connected'
    BY <1>0, <2>1, <2>2 DEF Connected, KeptIsOpen, ClosedWhileClosing, AtMostOneLeft,
         NothingHandled, SentOnTheClient, Stopping
  <2> QED
    BY <1>3, <2>1, <2>3, <2>4
<1>5. CASE CloseClient
  <2>1. /\ UNCHANGED <<client, made, task>>
        /\ bot = "stopping" /\ open' = open \ {client}
        /\ bot' = IF client = NoClient THEN "closing session" ELSE "closing client"
    BY <1>5 DEF CloseClient
  <2>2. open' = {}
    BY <1>0, <2>1 DEF KeptIsOpen
  <2>3. BotTypeOK'
    BY <1>0, <2>1, <2>2 DEF BotTypeOK, Stopping
  <2>4. Connected'
    BY <2>1, <2>2 DEF Connected, KeptIsOpen, ClosedWhileClosing, AtMostOneLeft,
         NothingHandled, SentOnTheClient, Stopping
  <2> QED
    BY <1>3, <2>1, <2>3, <2>4
<1>6. CASE ForgetClient
  <2>1. /\ UNCHANGED <<made, open, task>>
        /\ bot = "closing client" /\ bot' = "closing session" /\ client' = NoClient
    BY <1>6 DEF ForgetClient
  <2>2. open' = {}
    BY <1>0, <2>1 DEF ClosedWhileClosing
  <2>3. BotTypeOK'
    BY <1>0, <2>1 DEF BotTypeOK, Stopping
  <2>4. Connected'
    BY <2>1, <2>2 DEF Connected, KeptIsOpen, ClosedWhileClosing, AtMostOneLeft,
         NothingHandled, SentOnTheClient, Stopping
  <2> QED
    BY <1>3, <2>1, <2>3, <2>4
<1>7. CASE CloseSession
  <2>1. /\ UNCHANGED <<client, made, open>>
        /\ bot = "closing session" /\ bot' = "ended"
        /\ task' = [h \in Handlers |-> Idle]
    BY <1>7 DEF CloseSession
  <2>2. open \subseteq {client}
    BY <1>0, <2>1 DEF KeptIsOpen
  <2>3. task' \in [Handlers -> Tasks(made)]
    BY <2>1, TaskTypes
  <2>4. BotTypeOK'
    BY <1>0, <2>1, <2>3 DEF BotTypeOK, Tasks
  <2>5. Connected'
    BY <2>1, <2>2 DEF Connected, KeptIsOpen, ClosedWhileClosing, AtMostOneLeft,
         NothingHandled, SentOnTheClient, Stopping, Idle
  <2> QED
    BY <1>3, <2>1, <2>4, <2>5
<1>8. ASSUME NEW h \in Handlers, Update(h) \/ Finish(h) \/ Response(h) \/ RequestFails(h)
      PROVE  IInv'
  <2>1. UNCHANGED <<bot, client, made, open>>
    BY <1>8 DEF Update, Finish, Response, RequestFails
  <2>2. task' = [task EXCEPT ![h] = Idle] \/ task' = [task EXCEPT ![h] = Running]
    BY <1>8 DEF Update, Finish, Response, RequestFails
  <2>3. bot = "polling" \/ task[h] # Idle
    BY <1>8 DEF Update, Finish, Response, RequestFails, Idle, Running
  <2>4. bot \notin {"off", "launched", "starting", "ended"}
    BY <1>0, <2>3 DEF NothingHandled
  <2>5. BotTypeOK'
    <3>1. task' \in [Handlers -> Tasks(made)]
      BY <1>2, <2>2, TaskTypes
    <3> QED
      BY <1>0, <2>1, <3>1 DEF BotTypeOK, Tasks, Stopping
  <2>6. \A g \in Handlers : task'[g].pc = "sending" => task'[g] = task[g]
    BY <1>2, <2>2 DEF Idle, Running
  <2>7. SentOnTheClient'
    BY <1>0, <2>1, <2>6 DEF SentOnTheClient, Stopping
  <2>8. KeptIsOpen' /\ ClosedWhileClosing' /\ AtMostOneLeft' /\ NothingHandled'
    BY <1>0, <2>1, <2>4 DEF KeptIsOpen, ClosedWhileClosing, AtMostOneLeft, NothingHandled
  <2> QED
    BY <1>3, <2>4, <2>5, <2>7, <2>8 DEF Connected
<1>9. ASSUME NEW h \in Handlers, Request(h) PROVE IInv'
  <2>1. bot' = bot /\ task[h] # Idle
    BY <1>9 DEF Request, Idle, Running
  <2>2. bot \notin {"off", "launched", "starting", "ended"}
    BY <1>0, <2>1 DEF NothingHandled
  <2>3. IF client = NoClient
        THEN made' = made + 1 /\ client' = made + 1 /\ open' = open \cup {made + 1}
        ELSE UNCHANGED <<made, client, open>>
    BY <1>9 DEF Request
  <2>4. made' \in Nat /\ made <= made' /\ open' \subseteq 1..made' /\ client' \in 1..made'
    <3>1. made \in Nat /\ open \subseteq 1..made /\ client \in 1..made \cup {NoClient}
      BY <1>0 DEF BotTypeOK
    <3>2. CASE client = NoClient
      <4>1. made' = made + 1 /\ client' = made + 1 /\ open' = open \cup {made + 1}
        BY <2>3, <3>2
      <4>2. 1..made \subseteq 1..(made + 1) /\ made + 1 \in 1..(made + 1)
        BY <3>1
      <4> QED
        BY <3>1, <4>1, <4>2
    <3>3. CASE client # NoClient
      <4>1. made' = made /\ client' = client /\ open' = open
        BY <2>3, <3>3
      <4>2. made <= made
        BY <3>1
      <4> QED
        BY <3>1, <3>3, <4>1, <4>2
    <3> QED
      BY <3>2, <3>3
  <2>5. task' = [task EXCEPT ![h] = Sending(client')] \/ task' = [task EXCEPT ![h] = Idle]
    BY <1>9 DEF Request
  <2>6. client' # NoClient
    BY <2>4, NoClientAssumption
  <2>7. BotTypeOK'
    <3>1. Tasks(made) \subseteq Tasks(made')
      BY <1>2, <2>4 DEF Tasks
    <3>2. task' \in [Handlers -> Tasks(made')]
      BY <1>2, <2>4, <2>5, <3>1, TaskTypes
    <3> QED
      BY <1>0, <2>1, <2>4, <3>2 DEF BotTypeOK, Tasks, Stopping
  <2>8. KeptIsOpen' /\ ClosedWhileClosing'
    <3>1. CASE bot = "closing client"
      BY <1>0, <2>1, <2>3, <3>1 DEF KeptIsOpen, ClosedWhileClosing
    <3>2. CASE bot # "closing client"
      BY <1>0, <2>1, <2>2, <2>3, <2>6, <3>2 DEF KeptIsOpen, ClosedWhileClosing
    <3> QED
      BY <3>1, <3>2
  <2>9. AtMostOneLeft' /\ NothingHandled'
    BY <2>1, <2>2 DEF AtMostOneLeft, NothingHandled
  <2>10. SentOnTheClient'
    <3> SUFFICES ASSUME ~Stopping, NEW g \in Handlers, task'[g].pc = "sending"
                 PROVE  task'[g].on = client' /\ client' # NoClient
      BY <2>1 DEF SentOnTheClient, Stopping
    <3>1. CASE g = h
      BY <1>2, <2>5, <2>6, <3>1 DEF Sending, Idle
    <3>2. CASE g # h
      <4>1. task'[g] = task[g]
        BY <1>2, <2>5, <3>2
      <4>2. task[g].on = client /\ client # NoClient
        BY <1>0, <4>1 DEF SentOnTheClient
      <4> QED
        BY <2>3, <4>1, <4>2
    <3> QED
      BY <3>1, <3>2
  <2> QED
    BY <1>3, <2>2, <2>7, <2>8, <2>9, <2>10 DEF Connected
<1> QED
  BY <1>4, <1>5, <1>6, <1>7, <1>8, <1>9 DEF Bot, BotGoesOn, Closing, Handling

LEMMA BotUnchanged ==
  ASSUME IInv, UNCHANGED botVars
  PROVE  BotTypeOK' /\ Connected'
<1>1. BotTypeOK'
  BY DEF IInv, TypeOK, botVars, BotTypeOK, Stopping
<1>2. Connected'
  BY DEF IInv, botVars, Connected, KeptIsOpen, ClosedWhileClosing, AtMostOneLeft,
         NothingHandled, SentOnTheClient, Stopping
<1> QED
  BY <1>1, <1>2

LEMMA NextStep ==
  ASSUME IInv, [Next]_vars
  PROVE  IInv'
<1>0. TypeOK /\ Prepared
  BY DEF IInv
<1>1. ASSUME UNCHANGED botVars, Prepared', bot = "off" \/ entry' = "wait",
             database' \in {"up", "down"}, schema' \in {"none", "head"},
             admins' \subseteq Usernames, env' \in Environments,
             entry' \in {"stopped", "down", "waiting", "migrating", "seeding",
                       "start api", "start bot", "wait"},
             tries' \in 0..(MaxRetries - 1), api' \in {"off", "starting", "up", "ended"},
             faults' \in 0..MaxFaults
      PROVE  IInv'
  <2>1. BotTypeOK' /\ Connected'
    BY <1>1, BotUnchanged
  <2>2. TypeOK'
    BY <1>1, <2>1 DEF TypeOK, botVars
  <2> QED
    BY <1>1, <2>1, <2>2 DEF IInv
<1>2. CASE Up
  BY <1>0, <1>1, <1>2 DEF Up, Step, TypeOK, Prepared
<1>3. CASE Restart
  BY <1>0, <1>1, <1>3 DEF Restart, Step, TypeOK, Prepared
<1>4. CASE Connect
  BY <1>0, <1>1, <1>4 DEF Connect, Step, TypeOK, Prepared
<1>5. CASE Retry
  <2>1. CASE tries + 1 >= MaxRetries
    <3>1. AllEnd("down") /\ faults' = faults
      BY <1>5, <2>1 DEF Retry, ContainerEnds
    <3> QED
      BY <1>0, <3>1, EndsInv DEF TypeOK
  <2>2. CASE ~(tries + 1 >= MaxRetries)
    <3>1. /\ tries' = tries + 1 /\ entry = "waiting"
          /\ UNCHANGED <<botVars, database, schema, admins, env, entry, api, faults>>
      BY <1>5, <2>2 DEF Retry
    <3>2. tries' \in 0..(MaxRetries - 1)
      BY <1>0, <2>2, <3>1, ContainerAssumption DEF TypeOK
    <3>3. Prepared'
      BY <1>0, <3>1 DEF Prepared
    <3> QED
      BY <1>0, <1>1, <3>1, <3>2, <3>3 DEF TypeOK
  <2> QED
    BY <2>1, <2>2
<1>6. CASE Migrate
  BY <1>0, <1>1, <1>6 DEF Migrate, Step, TypeOK, Prepared
<1>7. CASE Seed
  <2>1. env.username \in Usernames
    BY <1>0, ContainerAssumption DEF TypeOK
  <2>2. admins' \subseteq Usernames /\ env.username \in admins'
    BY <1>0, <1>7, <2>1 DEF Seed, TypeOK
  <2> QED
    BY <1>0, <1>1, <1>7, <2>2 DEF Seed, Step, TypeOK, Prepared
<1>8. CASE ScriptFails \/ ServiceEnded
  <2>1. AllEnd("down") /\ faults' = faults
    BY <1>8 DEF ScriptFails, ServiceEnded, ContainerEnds
  <2> QED
    BY <1>0, <2>1, EndsInv DEF TypeOK
<1>9. CASE StartApi
  BY <1>0, <1>1, <1>9 DEF StartApi, Step, TypeOK, Prepared
<1>10. CASE StartBot
  <2>1. /\ entry = "start bot" /\ entry' = "wait" /\ bot = "off" /\ bot' = "launched"
        /\ UNCHANGED <<client, made, open, task>>
        /\ UNCHANGED <<database, schema, admins, env, tries, api, faults>>
    BY <1>10 DEF StartBot, Step, Launch
  <2>2. /\ BotTypeOK
        /\ KeptIsOpen /\ NothingHandled
    BY <1>0 DEF TypeOK, IInv, Connected
  <2>3. BotTypeOK'
    BY <2>1, <2>2 DEF BotTypeOK
  <2>4. TypeOK'
    BY <1>0, <2>1, <2>3 DEF TypeOK
  <2>5. Prepared'
    BY <1>0, <2>1 DEF Prepared
  <2>6. \A h \in Handlers : task'[h] = Idle
    BY <2>1, <2>2 DEF NothingHandled
  <2>7. KeptIsOpen'
    BY <2>1, <2>2 DEF KeptIsOpen
  <2>8. ClosedWhileClosing' /\ AtMostOneLeft'
    BY <2>1 DEF ClosedWhileClosing, AtMostOneLeft
  <2>9. NothingHandled' /\ SentOnTheClient'
    BY <2>6 DEF NothingHandled, SentOnTheClient, Idle
  <2> QED
    BY <2>4, <2>5, <2>7, <2>8, <2>9 DEF IInv, Connected
<1>11. CASE Bot
  BY <1>11, BotStep
<1>f. Fault => faults' \in 0..MaxFaults
  <2>1. faults \in 0..MaxFaults
    BY <1>0 DEF TypeOK
  <2> QED
    BY <2>1, ContainerAssumption DEF Fault
<1>12. CASE ApiEnds
  BY <1>0, <1>1, <1>12, <1>f DEF ApiEnds, TypeOK, Prepared
<1>13. CASE BotEnds
  <2>1. /\ UNCHANGED <<database, schema, admins, env, entry, tries, api>>
        /\ faults' \in 0..MaxFaults
        /\ BotCrash \/ PollingEnds
    BY <1>13, <1>f DEF BotEnds
  <2>2. BotTypeOK /\ KeptIsOpen
    BY <1>0 DEF TypeOK, IInv, Connected
  <2>3. bot # "off"
    BY <2>1 DEF BotCrash, PollingEnds, Live, Stopping
  <2>4. BotTypeOK' /\ Connected'
    <3>1. CASE BotCrash
      <4>1. /\ bot' = "ended" /\ client' = NoClient /\ made' = 0 /\ open' = {}
            /\ task' = [h \in Handlers |-> Idle]
        BY <3>1 DEF BotCrash, Forgotten
      <4>2. task' \in [Handlers -> Tasks(0)]
        BY <4>1, TaskTypes
      <4>3. BotTypeOK'
        BY <4>1, <4>2 DEF BotTypeOK, Tasks
      <4>4. Connected'
        BY <4>1 DEF Connected, KeptIsOpen, ClosedWhileClosing, AtMostOneLeft,
           NothingHandled, SentOnTheClient, Stopping, Idle
      <4> QED
        BY <4>3, <4>4
    <3>2. CASE PollingEnds
      <4>1. /\ bot = "starting" \/ bot = "polling"
            /\ bot' = "stopping" /\ UNCHANGED <<client, made, open, task>>
        BY <3>2 DEF PollingEnds
      <4>2. BotTypeOK'
        BY <2>2, <4>1 DEF BotTypeOK, Stopping
      <4>3. Connected'
        BY <2>2, <4>1 DEF Connected, KeptIsOpen, ClosedWhileClosing, AtMostOneLeft,
           NothingHandled, SentOnTheClient, Stopping
      <4> QED
        BY <4>2, <4>3
    <3> QED
      BY <2>1, <3>1, <3>2
  <2>5. entry = "wait" /\ env' \in Environments /\ tries' \in 0..(MaxRetries - 1)
    BY <1>0, <2>1, <2>3 DEF TypeOK
  <2>6. TypeOK'
    BY <1>0, <2>1, <2>4, <2>5 DEF TypeOK
  <2>7. Prepared'
    BY <1>0, <2>1 DEF Prepared
  <2> QED
    BY <2>4, <2>6, <2>7 DEF IInv
<1>14. CASE DatabaseFails
  BY <1>0, <1>1, <1>14, <1>f DEF DatabaseFails, TypeOK, Prepared
<1>15. CASE DatabaseReturns
  <2>1. /\ database' = "up"
        /\ UNCHANGED <<botVars, schema, admins, env, entry, tries, api, faults>>
    BY <1>15 DEF DatabaseReturns
  <2>2. Prepared'
    BY <1>0, <2>1 DEF Prepared
  <2> QED
    BY <1>0, <1>1, <2>1, <2>2 DEF TypeOK
<1>16. CASE Stop
  BY <1>16, <1>f, EndsInv DEF Stop
<1>17. CASE ScriptDies
  BY <1>17, <1>f, EndsInv DEF ScriptDies, ContainerEnds
<1>18. CASE ImportApi
  BY <1>0, <1>1, <1>18 DEF ImportApi, TypeOK, Prepared
<1>19. CASE UNCHANGED vars
  BY <1>0, <1>1, <1>19 DEF vars, containerVars, TypeOK, Prepared
<1> QED
  BY <1>2, <1>3, <1>4, <1>5, <1>6, <1>7, <1>8, <1>9, <1>10, <1>11, <1>12, <1>13,
     <1>14, <1>15, <1>16, <1>17, <1>18, <1>19 DEF Next, Script

LEMMA Inductive == Spec => []IInv
<1>1. IInv /\ [Next]_vars => IInv'
  BY NextStep
<1> QED
  BY <1>1, InitInv, PTL DEF Spec

-------------------------------------------------------------------------------
\* The script's counters and the two services keep values of their kinds, and no
\* bot runs in a container that is not at the script's last step.
THEOREM TypesHold == Spec => []TypeOK
<1>1. IInv => TypeOK
  BY DEF IInv
<1> QED
  BY <1>1, Inductive, PTL

\* After however many failed starts and changes of .env, a service that runs has
\* its tables and the admin its .env names.
THEOREM ReadyWhenServing == Spec => []ServicesAreReady
<1>1. IInv => ServicesAreReady
  <2> SUFFICES ASSUME IInv, api \in {"starting", "up"} \/ Live
               PROVE  schema = "head" /\ env.username \in admins
    BY DEF ServicesAreReady
  <2>1. Live => bot # "off"
    BY DEF Live, Stopping
  <2>2. entry \in {"start bot", "wait"}
    BY <2>1 DEF IInv, TypeOK, Prepared
  <2> QED
    BY <2>2 DEF IInv, Prepared
<1> QED
  BY <1>1, Inductive, PTL

\* However many handlers run, and while the bot is stopped too, they share one
\* httpx client for telemt.
THEOREM OneConnectionHolds == Spec => []OneConnection
<1>1. IInv => OneConnection
  <2> SUFFICES ASSUME IInv PROVE OneConnection
    OBVIOUS
  <2>1. KeptIsOpen /\ ClosedWhileClosing /\ AtMostOneLeft /\ SentOnTheClient
    BY DEF IInv, Connected
  <2>2. open \subseteq {client}
    BY <2>1 DEF KeptIsOpen, ClosedWhileClosing, AtMostOneLeft
  <2>3. Cardinality(open) <= 1
    <3>1. IsFiniteSet({client}) /\ Cardinality({client}) = 1
      BY FS_Singleton
    <3> QED
      BY <2>2, <3>1, FS_Subset
  <2>4. ~Stopping /\ bot # "ended" /\ client # NoClient => open = {client}
    BY <2>1 DEF KeptIsOpen, Stopping
  <2>5. \A h \in Handlers : bot = "polling" /\ task[h].pc = "sending" => task[h].on = client
    BY <2>1 DEF SentOnTheClient, Stopping
  <2> QED
    BY <2>3, <2>4, <2>5 DEF OneConnection
<1> QED
  BY <1>1, Inductive, PTL
=============================================================================
