------------------------------ MODULE AdminApi ------------------------------
(***************************************************************************)
(* What every request of the admin API goes through: its token is decoded, *)
(* its session takes a connection of the pool with the first query, which  *)
(* is the one that looks the admin up, and keeps it across the telemt      *)
(* calls of the route until the session closes, after the answer.          *)
(*                                                                         *)
(* A route is the sequence of what it awaits once the admin is known.      *)
(* What the routes that write do is in Provisioning, what list_users       *)
(* reads is in UserTable.                                                  *)
(***************************************************************************)
EXTENDS Integers, Sequences, FiniteSets

CONSTANTS
    Requests,      \* requests the API serves at the same time
    Connections,   \* pool_size + max_overflow of the engine
    Lifetime,      \* JWT_EXPIRE_MINUTES, in seconds
    Resolution,    \* readings of the clock per second
    MaxClock       \* bound: last reading of the clock

ASSUME RequestsFinite == IsFiniteSet(Requests)
ASSUME Positive ==
    /\ Connections \in Nat \ {0} /\ MaxClock \in Nat
    /\ Lifetime \in Nat \ {0} /\ Resolution \in Nat \ {0}

VARIABLES
    isActive,    \* AdminUser.is_active
    clock,       \* the wall clock
    issuedAt,    \* when the token in use was made
    pc,          \* where each request is
    left,        \* what its route still awaits
    holds,       \* whether its session holds a connection
    status,      \* its answer
    wasActive    \* history: the admin was active at some time since it began

vars == <<isActive, clock, issuedAt, pc, left, holds, status, wasActive>>
tokenVars == <<isActive, clock, issuedAt>>

-----------------------------------------------------------------------------
(* The routes.                                                             *)

\* The number of users, the page, telemt's connections and active IPs.
ListUsers == <<"database", "database", "telemt", "telemt">>

ListLinks == <<"database">>

GetLabelStats == <<"database", "telemt", "telemt">>

GetStats == <<"telemt">>

\* disable_user and enable_user: no query but the dependency's.
ToggleUser == <<"telemt">>

Routes == {ListUsers, ListLinks, GetLabelStats, GetStats, ToggleUser}

TypeOK ==
    /\ isActive \in BOOLEAN /\ clock \in Nat /\ issuedAt \in 0 .. clock
    /\ pc \in [Requests -> {"idle", "connect", "auth", "route", "closing"}]
    /\ left \in [Requests -> Seq({"database", "telemt"})]
    /\ holds \in [Requests -> BOOLEAN]
    /\ status \in [Requests -> {0, 200, 401, 404, 500, 502}]
    /\ wasActive \in [Requests -> BOOLEAN]
    /\ \A r \in Requests : pc[r] = "idle" => ~holds[r]
    /\ \A r \in Requests : pc[r] \in {"auth", "route"} => holds[r]

Init ==
    /\ isActive = TRUE /\ clock = 0 /\ issuedAt = 0
    /\ pc = [r \in Requests |-> "idle"]
    /\ left = [r \in Requests |-> <<>>]
    /\ holds = [r \in Requests |-> FALSE]
    /\ status = [r \in Requests |-> 0]
    /\ wasActive = [r \in Requests |-> FALSE]

-----------------------------------------------------------------------------
(* Tokens.                                                                 *)

Second(t) == t \div Resolution

\* Mutant: `exp` is a second too early.
ExpiryCut(issued) == Second(issued) + Lifetime - 1

\* `int(expire.timestamp())`.
Expiry(issued) == Second(issued) + Lifetime

\* jwt.decode looks at whole seconds too and refuses what lies before now.
Accepts(issued, now) == Second(now) <= Expiry(issued)

Tick ==
    /\ clock < MaxClock
    /\ clock' = clock + 1
    /\ UNCHANGED <<isActive, issuedAt, pc, left, holds, status, wasActive>>

\* A login makes a new token.
Login ==
    /\ isActive
    /\ issuedAt' = clock
    /\ UNCHANGED <<isActive, clock, pc, left, holds, status, wasActive>>

\* An operator, in the database.
SetActive(value) ==
    /\ isActive' = value
    /\ wasActive' = [r \in Requests |-> pc[r] # "idle" /\ (wasActive[r] \/ value)]
    /\ UNCHANGED <<clock, issuedAt, pc, left, holds, status>>

-----------------------------------------------------------------------------
(* A request.                                                              *)

Held == {r \in Requests : holds[r]}

\* Nothing is awaited before the token is decoded.
Begin(r, route) ==
    /\ pc[r] = "idle"
    /\ Accepts(issuedAt, clock)
    /\ pc' = [pc EXCEPT ![r] = "connect"]
    /\ left' = [left EXCEPT ![r] = route]
    /\ wasActive' = [wasActive EXCEPT ![r] = isActive]
    /\ UNCHANGED <<holds, status, tokenVars>>

RefuseToken(r) ==
    /\ pc[r] = "idle"
    /\ ~Accepts(issuedAt, clock)
    /\ pc' = [pc EXCEPT ![r] = "closing"]
    /\ status' = [status EXCEPT ![r] = 401]
    /\ UNCHANGED <<left, holds, wasActive, tokenVars>>

Answer(r, code) ==
    /\ pc' = [pc EXCEPT ![r] = "closing"]
    /\ left' = [left EXCEPT ![r] = <<>>]
    /\ status' = [status EXCEPT ![r] = code]
    /\ UNCHANGED <<holds, wasActive, tokenVars>>

\* Mutant: the route's session is another one than get_current_user's, and
\* takes its connection while that one keeps its own.
ConnectTwice(r) ==
    /\ pc[r] = "connect"
    /\ Cardinality(Held) < Connections
    /\ IF holds[r] THEN pc' = [pc EXCEPT ![r] = "auth"] /\ UNCHANGED holds
       ELSE holds' = [holds EXCEPT ![r] = TRUE] /\ UNCHANGED pc
    /\ UNCHANGED <<left, status, wasActive, tokenVars>>

Connect(r) ==
    /\ pc[r] = "connect"
    /\ Cardinality(Held) < Connections
    /\ pc' = [pc EXCEPT ![r] = "auth"]
    /\ holds' = [holds EXCEPT ![r] = TRUE]
    /\ UNCHANGED <<left, status, wasActive, tokenVars>>

PoolTimeout(r) ==
    /\ pc[r] = "connect"
    /\ Cardinality(Held) >= Connections
    /\ Answer(r, 500)

\* Mutant: an admin is looked for, active or not.
AuthenticateAnyone(r) ==
    /\ pc[r] = "auth"
    /\ pc' = [pc EXCEPT ![r] = "route"]
    /\ UNCHANGED <<left, holds, status, wasActive, tokenVars>>

Authenticate(r) ==
    /\ pc[r] = "auth"
    /\ isActive
    /\ pc' = [pc EXCEPT ![r] = "route"]
    /\ UNCHANGED <<left, holds, status, wasActive, tokenVars>>

RefuseAdmin(r) ==
    /\ pc[r] = "auth"
    /\ ~isActive
    /\ Answer(r, 401)

Await(r) ==
    /\ pc[r] = "route"
    /\ left[r] # <<>>
    /\ left' = [left EXCEPT ![r] = Tail(@)]
    /\ UNCHANGED <<pc, holds, status, wasActive, tokenVars>>

\* The database's rows and telemt's numbers are merged.
Merge(r) ==
    /\ pc[r] = "route"
    /\ left[r] = <<>>
    /\ Answer(r, 200)

\* telemt does not know the user (404), cannot be reached (502), or answers
\* something else than expected.
TelemtFails(r) ==
    /\ pc[r] = "route"
    /\ left[r] # <<>> /\ Head(left[r]) = "telemt"
    /\ \E code \in {404, 500, 502} : Answer(r, code)

\* No connection can be opened, or a query fails.
DatabaseFails(r) ==
    /\ \/ pc[r] = "connect" /\ Cardinality(Held) < Connections
       \/ pc[r] = "auth"
       \/ pc[r] = "route" /\ left[r] # <<>> /\ Head(left[r]) = "database"
    /\ Answer(r, 500)

\* Mutant: a session that saw an error is not closed.
CloseUnlessFailed(r) ==
    /\ pc[r] = "closing"
    /\ pc' = [pc EXCEPT ![r] = "idle"]
    /\ holds' = [holds EXCEPT ![r] = @ /\ status[r] # 200]
    /\ status' = [status EXCEPT ![r] = 0]
    /\ wasActive' = [wasActive EXCEPT ![r] = FALSE]
    /\ UNCHANGED <<left, tokenVars>>

\* get_db_session ends: after the answer, and on every path.
Close(r) ==
    /\ pc[r] = "closing"
    /\ pc' = [pc EXCEPT ![r] = "idle"]
    /\ holds' = [holds EXCEPT ![r] = FALSE]
    /\ status' = [status EXCEPT ![r] = 0]
    /\ wasActive' = [wasActive EXCEPT ![r] = FALSE]
    /\ UNCHANGED <<left, tokenVars>>

Start(r) == \E route \in Routes : Begin(r, route)

\* What a request does by itself while nothing fails.
Proceed(r) ==
    \/ Connect(r) \/ Authenticate(r) \/ RefuseAdmin(r)
    \/ Await(r) \/ Merge(r) \/ Close(r)

Next ==
    \/ Tick \/ Login \/ \E value \in BOOLEAN : SetActive(value)
    \/ \E r \in Requests :
        \/ Start(r) \/ RefuseToken(r) \/ Proceed(r)
        \/ PoolTimeout(r) \/ TelemtFails(r) \/ DatabaseFails(r)

\* Every await ends: the timeouts of the client bound the telemt calls.  That a
\* wait for the pool ends is not assumed.
Spec == Init /\ [][Next]_vars /\ \A r \in Requests : WF_vars(Proceed(r))

-----------------------------------------------------------------------------
(* Properties.                                                             *)

\* A token is good for the whole lifetime it was made for and less than a
\* second longer, although `exp` is cut to a whole second when it is made and
\* the clock again when it is checked.
TokenLifetime ==
    [][\A r \in Requests :
        /\ Start(r) => clock - issuedAt < (Lifetime + 1) * Resolution
        /\ RefuseToken(r) => clock - issuedAt > Lifetime * Resolution]_vars

\* A token is worth nothing without the account: a request that began after the
\* admin was deactivated, and ends before he is active again, gets no data,
\* however long it waited for a connection.
OnlyActiveAdmins ==
    \A r \in Requests : status[r] = 200 => wasActive[r]

\* Once no new requests come, whoever waits for a connection gets one without
\* the help of a pool timeout, whatever failed before: no holder waits for a
\* second connection, and none is lost.
WaitersConnect ==
    <>[][~\E r \in Requests : Start(r)]_vars =>
        \A r \in Requests : pc[r] = "connect" ~> pc[r] # "connect"
=============================================================================
