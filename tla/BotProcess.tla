------------------------------ MODULE BotProcess ------------------------------
(***************************************************************************)
(* bot/main.py and the httpx client under telemt_proxy.client: the process *)
(* `python -m bot` from its start to its end, and the client its handlers  *)
(* share: httpx client objects, not the TCP connections in their pools.    *)
(*                                                                         *)
(* The handlers run as tasks of their own, which start_polling (aiogram)   *)
(* does not await when it returns: they go on while the `finally` of       *)
(* run_bot closes the client and the bot's session, and are cancelled when *)
(* asyncio.run ends.  A step is what runs between two awaits.              *)
(***************************************************************************)
EXTENDS Naturals, FiniteSets

CONSTANTS Handlers,   \* bound: updates handled at a time
          NoClient    \* TelemtClient._client is None

ASSUME NoClientAssumption == NoClient \notin Nat

VARIABLES
    bot,      \* where the process is
    client,   \* TelemtClient._client: the number of the httpx client it holds
    made,     \* httpx clients created by this process
    open,     \* those that are open
    task      \* per handler: what it does, and the client its request is sent on

botVars == <<bot, client, made, open, task>>

Idle == [pc |-> "idle", on |-> NoClient]
Running == [pc |-> "running", on |-> NoClient]
Sending(c) == [pc |-> "sending", on |-> c]

\* The program runs, from reading its environment to its last await.
Stopping == bot \in {"stopping", "closing client", "closing session"}
Live == bot \in {"launched", "starting", "polling"} \/ Stopping

BotTypeOK ==
    /\ bot \in {"off", "ended", "launched", "starting", "polling"} \/ Stopping
    /\ made \in Nat
    /\ open \subseteq 1..made
    /\ client \in 1..made \cup {NoClient}
    /\ task \in [Handlers ->
           [pc : {"idle", "running", "sending"}, on : 1..made \cup {NoClient}]]

\* A process that has not begun; with it go its connections and its tasks.
BotFresh ==
    /\ client = NoClient
    /\ made = 0
    /\ open = {}
    /\ task = [h \in Handlers |-> Idle]

Forgotten ==
    /\ client' = NoClient
    /\ made' = 0
    /\ open' = {}
    /\ task' = [h \in Handlers |-> Idle]

-------------------------------------------------------------------------------
Launch == bot = "off" /\ bot' = "launched" /\ UNCHANGED <<client, made, open, task>>

\* main and setup_bot: a variable that is missing or empty, a port that is no
\* number or a token that is none ends the process before run_bot's `try`.
Configure(complete) ==
    /\ bot = "launched"
    /\ bot' = IF complete THEN "starting" ELSE "ended"
    /\ UNCHANGED <<client, made, open, task>>

\* run_bot, with what setup_bot built: no connection to telemt is opened yet.
\* start_polling first asks Telegram who the bot is: a refused token raises.
StartPolling(accepted) ==
    /\ bot = "starting"
    /\ bot' = IF accepted THEN "polling" ELSE "stopping"
    /\ UNCHANGED <<client, made, open, task>>

\* start_polling returns, on a signal, or raises, when Telegram is not reached.
PollingEnds ==
    /\ bot \in {"starting", "polling"}
    /\ bot' = "stopping"
    /\ UNCHANGED <<client, made, open, task>>

\* aclose up to its await: httpx refuses requests from here on.
CloseClient ==
    /\ bot = "stopping"
    /\ bot' = IF client = NoClient THEN "closing session" ELSE "closing client"
    /\ open' = open \ {client}
    /\ UNCHANGED <<client, made, task>>

\* aclose from its await on.
ForgetClient ==
    /\ bot = "closing client"
    /\ client' = NoClient
    /\ bot' = "closing session"
    /\ UNCHANGED <<made, open, task>>

\* bot.session.close() is done; asyncio.run cancels what still runs.
CloseSession ==
    /\ bot = "closing session"
    /\ bot' = "ended"
    /\ task' = [h \in Handlers |-> Idle]
    /\ UNCHANGED <<client, made, open>>

\* The process dies by itself, or is killed.
BotCrash ==
    /\ Live
    /\ bot' = "ended"
    /\ Forgotten

-------------------------------------------------------------------------------
\* An update is polled and a handler of the router runs.
Update(h) ==
    /\ bot = "polling"
    /\ task[h] = Idle
    /\ task' = [task EXCEPT ![h] = Running]
    /\ UNCHANGED <<bot, client, made, open>>

\* The handler replies for the last time, or fails at something but telemt.
Finish(h) ==
    /\ task[h] = Running
    /\ task' = [task EXCEPT ![h] = Idle]
    /\ UNCHANGED <<bot, client, made, open>>

\* Mutant: the lazily created client is used and not kept.
RequestUnkept(h) ==
    /\ task[h] = Running
    /\ made < 2
    /\ made' = made + 1
    /\ open' = open \cup {made + 1}
    /\ task' = [task EXCEPT ![h] = Sending(made + 1)]
    /\ UNCHANGED <<bot, client>>

\* _request up to its await, on the client that _get_client returns or creates;
\* a client that is being closed raises a RuntimeError, which no except of
\* _request takes, and the handler fails with it.
Request(h) ==
    /\ task[h] = Running
    /\ IF client = NoClient
       THEN /\ made' = made + 1
            /\ client' = made + 1
            /\ open' = open \cup {made + 1}
       ELSE UNCHANGED <<made, client, open>>
    /\ task' = [task EXCEPT ![h] = IF client' \in open' THEN Sending(client') ELSE Idle]
    /\ UNCHANGED bot

\* The request is answered and the handler goes on.
Response(h) ==
    /\ task[h].pc = "sending"
    /\ task[h].on \in open
    /\ task' = [task EXCEPT ![h] = Running]
    /\ UNCHANGED <<bot, client, made, open>>

\* It fails: a telemt error, a timeout, or its client was closed under it.
RequestFails(h) ==
    /\ task[h].pc = "sending"
    /\ task' = [task EXCEPT ![h] = Idle]
    /\ UNCHANGED <<bot, client, made, open>>

Handling(h) == Update(h) \/ Finish(h) \/ Request(h) \/ Response(h) \/ RequestFails(h)

Closing == CloseClient \/ ForgetClient \/ CloseSession

-------------------------------------------------------------------------------
\* The handlers share one httpx client for telemt, which is open for as long as
\* the bot polls, and no two are ever open at once, the stop included.
OneConnection ==
    /\ Cardinality(open) <= 1
    /\ ~Stopping /\ bot # "ended" /\ client # NoClient => open = {client}
    /\ \A h \in Handlers : bot = "polling" /\ task[h].pc = "sending" => task[h].on = client
=============================================================================
