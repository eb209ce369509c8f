--------------------------- MODULE AdminApiProofs ---------------------------
(***************************************************************************)
(* What holds of the admin API for any number of requests, any size of the *)
(* pool, any lifetime of a token and any resolution of the clock.          *)
(***************************************************************************)
EXTENDS AdminApi, FiniteSetTheorems, TLAPS

\* Whoever is past get_current_user saw an active admin.
Authenticated ==
    /\ \A r \in Requests : pc[r] = "route" => wasActive[r]
    /\ \A r \in Requests : pc[r] = "idle" => status[r] = 0
    /\ \A r \in Requests : pc[r] \in {"connect", "auth"} /\ isActive => wasActive[r]

IInv == Authenticated /\ OnlyActiveAdmins

\* Every step keeps the types.
LEMMA TypedInit == Init => TypeOK
  BY DEF Init, TypeOK

LEMMA RoutesTyped == Routes \subseteq Seq({"database", "telemt"})
  BY DEF Routes, ListUsers, ListLinks, GetLabelStats, GetStats, ToggleUser

LEMMA TypedStep == TypeOK /\ [Next]_vars => TypeOK'
<1> SUFFICES ASSUME TypeOK, [Next]_vars PROVE TypeOK'
  OBVIOUS
<1> USE DEF TypeOK
<1>1. CASE Tick
  BY <1>1 DEF Tick
<1>2. CASE Login
  BY <1>2 DEF Login
<1>3. CASE \E value \in BOOLEAN : SetActive(value)
  BY <1>3 DEF SetActive
<1>4. ASSUME NEW r \in Requests, Start(r) PROVE TypeOK'
  BY <1>4, RoutesTyped DEF Start, Begin, tokenVars
<1>5. ASSUME NEW r \in Requests, RefuseToken(r) PROVE TypeOK'
  BY <1>5 DEF RefuseToken, tokenVars
<1>6. ASSUME NEW r \in Requests, NEW code \in {200, 401, 404, 500, 502}, Answer(r, code)
      PROVE TypeOK'
  BY <1>6 DEF Answer, tokenVars
<1>7. ASSUME NEW r \in Requests, Proceed(r) PROVE TypeOK'
  <2>1. CASE Connect(r)
    BY <2>1 DEF Connect, tokenVars
  <2>2. CASE Authenticate(r)
    BY <2>2 DEF Authenticate, tokenVars
  <2>3. CASE RefuseAdmin(r)
    BY <2>3, <1>6 DEF RefuseAdmin
  <2>4. CASE Await(r)
    BY <2>4 DEF Await, tokenVars
  <2>5. CASE Merge(r)
    BY <2>5, <1>6 DEF Merge
  <2>6. CASE Close(r)
    BY <2>6 DEF Close, tokenVars
  <2> QED
    BY <1>7, <2>1, <2>2, <2>3, <2>4, <2>5, <2>6 DEF Proceed
<1>8. ASSUME NEW r \in Requests, PoolTimeout(r) \/ TelemtFails(r) \/ DatabaseFails(r)
      PROVE TypeOK'
  BY <1>8, <1>6 DEF PoolTimeout, TelemtFails, DatabaseFails
<1>9. CASE UNCHANGED vars
  BY <1>9 DEF vars
<1> QED
  BY <1>1, <1>2, <1>3, <1>4, <1>5, <1>7, <1>8, <1>9 DEF Next

LEMMA AuthenticatedStep == TypeOK /\ IInv /\ [Next]_vars => IInv'
<1> SUFFICES ASSUME TypeOK, IInv, [Next]_vars PROVE IInv'
  OBVIOUS
<1> USE DEF TypeOK, IInv, Authenticated, OnlyActiveAdmins
<1>1. CASE Tick \/ Login
  BY <1>1 DEF Tick, Login
<1>2. ASSUME NEW value \in BOOLEAN, SetActive(value) PROVE IInv'
  \* The history only grows while a request runs.
  BY <1>2 DEF SetActive
<1>3. ASSUME NEW r \in Requests, Start(r) PROVE IInv'
  \* The request had no answer, so there is none that its reset history belies.
  BY <1>3 DEF Start, Begin, tokenVars
<1>4. ASSUME NEW r \in Requests, RefuseToken(r) PROVE IInv'
  BY <1>4 DEF RefuseToken, tokenVars
<1>5. ASSUME NEW r \in Requests, NEW code \in {200, 401, 404, 500, 502}, Answer(r, code),
             code = 200 => wasActive[r]
      PROVE IInv'
  BY <1>5 DEF Answer, tokenVars
<1>6. ASSUME NEW r \in Requests, Proceed(r) PROVE IInv'
  <2>1. CASE Connect(r)
    BY <2>1 DEF Connect, tokenVars
  <2>2. CASE Authenticate(r)
    \* The admin is active now, and the history knows it.
    BY <2>2 DEF Authenticate, tokenVars
  <2>3. CASE RefuseAdmin(r)
    BY <2>3, <1>5 DEF RefuseAdmin
  <2>4. CASE Await(r)
    BY <2>4 DEF Await, tokenVars
  <2>5. CASE Merge(r)
    BY <2>5, <1>5 DEF Merge
  <2>6. CASE Close(r)
    BY <2>6 DEF Close, tokenVars
  <2> QED
    BY <1>6, <2>1, <2>2, <2>3, <2>4, <2>5, <2>6 DEF Proceed
<1>7. ASSUME NEW r \in Requests, PoolTimeout(r) \/ TelemtFails(r) \/ DatabaseFails(r)
      PROVE IInv'
  BY <1>7, <1>5 DEF PoolTimeout, TelemtFails, DatabaseFails
<1>8. CASE UNCHANGED vars
  BY <1>8 DEF vars
<1> QED
  BY <1>1, <1>2, <1>3, <1>4, <1>6, <1>7, <1>8 DEF Next

LEMMA AlwaysTyped == Spec => [](TypeOK /\ IInv)
<1>1. Init => TypeOK /\ IInv
  BY TypedInit DEF Init, IInv, Authenticated, OnlyActiveAdmins
<1>2. TypeOK /\ IInv /\ [Next]_vars => (TypeOK /\ IInv)'
  BY TypedStep, AuthenticatedStep
<1> QED
  BY <1>1, <1>2, PTL DEF Spec

\* Every variable stays in its set; a request past Connect holds a connection,
\* one that serves nobody holds none.
THEOREM TypesHold == Spec => []TypeOK
  BY AlwaysTyped, PTL

\* Data goes only to requests during which the admin was active (deps.py:
\* get_current_user looks at the row, not at the token alone).
THEOREM DataOnlyForActiveAdmins == Spec => []OnlyActiveAdmins
<1>1. IInv => OnlyActiveAdmins
  BY DEF IInv
<1> QED
  BY <1>1, AlwaysTyped, PTL

-----------------------------------------------------------------------------
(* Whole seconds.                                                          *)

\* What int() does to a reading of the clock.
LEMMA SecondIsFloor ==
  ASSUME NEW t \in Nat
  PROVE  /\ Second(t) \in Nat
         /\ Second(t) * Resolution <= t
         /\ t < (Second(t) + 1) * Resolution
BY Positive, SMTT(30) DEF Second

\* A second later is Resolution readings later.
LEMMA WholeSeconds ==
  ASSUME NEW a \in Int, NEW b \in Int, a <= b
  PROVE  a * Resolution <= b * Resolution
BY Positive, SMTT(30)

\* A token that is accepted is younger than its lifetime and a second, one that
\* is refused older than its lifetime.
LEMMA AcceptedWhileValid ==
  ASSUME NEW issued \in Nat, NEW now \in Nat
  PROVE  /\ Accepts(issued, now) => now - issued < (Lifetime + 1) * Resolution
         /\ ~Accepts(issued, now) => now - issued > Lifetime * Resolution
<1> DEFINE i == Second(issued)
           n == Second(now)
<1>1. /\ i \in Nat /\ i * Resolution <= issued /\ issued < (i + 1) * Resolution
      /\ n \in Nat /\ n * Resolution <= now /\ now < (n + 1) * Resolution
  BY SecondIsFloor
<1>2. Lifetime \in Nat /\ Resolution \in Nat
  BY Positive
<1> HIDE DEF i, n
<1>3. ASSUME n <= i + Lifetime PROVE now - issued < (Lifetime + 1) * Resolution
  <2>1. (n + 1) * Resolution <= (i + Lifetime + 1) * Resolution
    BY <1>1, <1>2, <1>3, WholeSeconds
  <2>2. (i + Lifetime + 1) * Resolution = i * Resolution + (Lifetime + 1) * Resolution
    BY <1>1, <1>2
  <2> QED
    BY <2>1, <2>2, <1>1, <1>2
<1>4. ASSUME ~(n <= i + Lifetime) PROVE now - issued > Lifetime * Resolution
  <2>1. (i + Lifetime + 1) * Resolution <= n * Resolution
    BY <1>1, <1>2, <1>4, WholeSeconds
  <2>2. (i + Lifetime + 1) * Resolution = (i + 1) * Resolution + Lifetime * Resolution
    BY <1>1, <1>2
  <2> QED
    BY <2>1, <2>2, <1>1, <1>2
<1> QED
  BY <1>3, <1>4 DEF Accepts, Expiry, i, n

\* A token lives its lifetime, and less than a second longer
\* (auth.py: create_access_token; deps.py: jwt.decode).
THEOREM TokensLive == Spec => TokenLifetime
<1>1. TypeOK /\ [Next]_vars =>
        [\A r \in Requests :
            /\ Start(r) => clock - issuedAt < (Lifetime + 1) * Resolution
            /\ RefuseToken(r) => clock - issuedAt > Lifetime * Resolution]_vars
  <2> SUFFICES ASSUME TypeOK, NEW r \in Requests
               PROVE  /\ Start(r) => clock - issuedAt < (Lifetime + 1) * Resolution
                      /\ RefuseToken(r) => clock - issuedAt > Lifetime * Resolution
    OBVIOUS
  <2>1. clock \in Nat /\ issuedAt \in Nat
    BY DEF TypeOK
  <2>2. Start(r) => Accepts(issuedAt, clock)
    BY DEF Start, Begin
  <2>3. RefuseToken(r) => ~Accepts(issuedAt, clock)
    BY DEF RefuseToken
  <2> QED
    BY <2>1, <2>2, <2>3, AcceptedWhileValid
<1> QED
  BY <1>1, AlwaysTyped, PTL DEF TokenLifetime, Spec
-----------------------------------------------------------------------------
(* The pool.                                                               *)

\* No more connections are out than there are, and who waits for one has none.
PoolSafe ==
    /\ Cardinality(Held) <= Connections
    /\ \A r \in Requests : pc[r] = "connect" => ~holds[r]

\* A request that waits because the pool is empty waits for another one that is
\* past its own wait, so what it waits for is no circle.
NoCircularWait ==
    \A r \in Requests :
        pc[r] = "connect" /\ Cardinality(Held) >= Connections =>
            \E q \in Requests \ {r} :
                holds[q] /\ pc[q] \in {"auth", "route", "closing"}

LEMMA HeldFinite == IsFiniteSet(Held) /\ Cardinality(Held) \in Nat
  BY RequestsFinite, FS_Subset, FS_CardinalityType DEF Held

\* Connections are given back, or nothing happens to them.
LEMMA FewerHeld ==
  ASSUME PoolSafe, Held' \subseteq Held
  PROVE  Cardinality(Held') <= Connections
<1>1. Cardinality(Held') <= Cardinality(Held) /\ Cardinality(Held') \in Nat
  BY HeldFinite, FS_Subset, FS_CardinalityType
<1> QED
  BY <1>1, HeldFinite, Positive DEF PoolSafe

\* The request that connects takes one connection, when one is free.
LEMMA OneMoreHeld ==
  ASSUME TypeOK, NEW r \in Requests, Connect(r)
  PROVE  Cardinality(Held') <= Connections
<1>1. Held' = Held \cup {r}
  BY DEF TypeOK, Connect, Held
<1>2. \/ Cardinality(Held \cup {r}) = Cardinality(Held)
      \/ Cardinality(Held \cup {r}) = Cardinality(Held) + 1
  BY HeldFinite, FS_AddElement
<1>3. Cardinality(Held) < Connections
  BY DEF Connect
<1> QED
  BY <1>1, <1>2, <1>3, HeldFinite, Positive

LEMMA PoolSafeStep == TypeOK /\ PoolSafe /\ [Next]_vars => PoolSafe'
<1> SUFFICES ASSUME TypeOK, PoolSafe, [Next]_vars PROVE PoolSafe'
  OBVIOUS
<1> DEFINE Apart == \A r \in Requests : pc[r] = "connect" => ~holds[r]
<1>1. CASE Tick \/ Login \/ \E value \in BOOLEAN : SetActive(value)
  <2>1. UNCHANGED <<pc, holds>>
    BY <1>1 DEF Tick, Login, SetActive
  <2> QED
    BY <2>1, FewerHeld DEF PoolSafe, Held
<1>2. ASSUME NEW r \in Requests, Start(r) PROVE PoolSafe'
  <2>1. Held' \subseteq Held
    BY <1>2 DEF Start, Begin, Held
  <2>2. Apart'
    \* The session of its last request is closed.
    BY <1>2 DEF Start, Begin, TypeOK, PoolSafe
  <2> QED
    BY <2>1, <2>2, FewerHeld DEF PoolSafe
<1>3. ASSUME NEW r \in Requests, UNCHANGED holds,
             pc' = [pc EXCEPT ![r] = "closing"] \/ pc' = [pc EXCEPT ![r] = "route"]
                \/ pc' = pc
      PROVE  PoolSafe'
  <2>1. Held' \subseteq Held
    BY <1>3 DEF Held
  <2>2. Apart'
    BY <1>3 DEF TypeOK, PoolSafe
  <2> QED
    BY <2>1, <2>2, FewerHeld DEF PoolSafe
<1>4. ASSUME NEW r \in Requests, Proceed(r) PROVE PoolSafe'
  <2>1. CASE Connect(r)
    <3>1. Apart'
      BY <2>1 DEF Connect, TypeOK, PoolSafe
    <3> QED
      BY <2>1, <3>1, OneMoreHeld DEF PoolSafe
  <2>2. CASE Close(r)
    <3>1. Held' \subseteq Held
      BY <2>2 DEF Close, TypeOK, Held
    <3>2. Apart'
      BY <2>2 DEF Close, TypeOK, PoolSafe
    <3> QED
      BY <3>1, <3>2, FewerHeld DEF PoolSafe
  <2>3. CASE Authenticate(r) \/ RefuseAdmin(r) \/ Await(r) \/ Merge(r)
    BY <2>3, <1>3 DEF Authenticate, RefuseAdmin, Await, Merge, Answer
  <2> QED
    BY <1>4, <2>1, <2>2, <2>3 DEF Proceed
<1>5. ASSUME NEW r \in Requests,
             RefuseToken(r) \/ PoolTimeout(r) \/ TelemtFails(r) \/ DatabaseFails(r)
      PROVE  PoolSafe'
  BY <1>5, <1>3 DEF RefuseToken, PoolTimeout, TelemtFails, DatabaseFails, Answer
<1>6. CASE UNCHANGED vars
  BY <1>6, FewerHeld DEF vars, PoolSafe, Held
<1> QED
  BY <1>1, <1>2, <1>4, <1>5, <1>6 DEF Next

LEMMA PoolSafeInit == Init => PoolSafe
<1> SUFFICES ASSUME Init PROVE PoolSafe
  OBVIOUS
<1>1. Held = {}
  BY DEF Init, Held
<1>2. Cardinality(Held) = 0
  BY <1>1, FS_EmptySet
<1> QED
  BY <1>2, Positive DEF Init, PoolSafe

\* Somebody holds a connection of a pool that has none left, and who holds one
\* waits for none.
LEMMA HoldersAreServed == TypeOK /\ PoolSafe => NoCircularWait
<1> SUFFICES ASSUME TypeOK, PoolSafe, NEW r \in Requests,
                    pc[r] = "connect", Cardinality(Held) >= Connections
             PROVE  \E q \in Requests \ {r} :
                        holds[q] /\ pc[q] \in {"auth", "route", "closing"}
  BY DEF NoCircularWait
<1>1. Held # {}
  BY HeldFinite, FS_EmptySet, Positive
<1>2. PICK q \in Held : TRUE
  BY <1>1
<1>3. q \in Requests /\ holds[q]
  BY <1>2 DEF Held
<1>4. pc[q] # "connect" /\ pc[q] # "idle"
  BY <1>3 DEF TypeOK, PoolSafe
<1>5. q # r /\ pc[q] \in {"auth", "route", "closing"}
  BY <1>3, <1>4 DEF TypeOK
<1> QED
  BY <1>3, <1>5

\* The pool never hands out more than it has, and never are all its connections
\* with requests that wait for another one: a request has one session, and
\* get_db_session closes it on every path (database.py).  The part of
\* WaitersConnect that needs no fairness.
THEOREM PoolNeverDeadlocks == Spec => [](PoolSafe /\ NoCircularWait)
<1>1. TypeOK /\ PoolSafe /\ [Next]_vars => PoolSafe'
  BY PoolSafeStep
<1> QED
  BY <1>1, PoolSafeInit, HoldersAreServed, AlwaysTyped, PTL DEF Spec
=============================================================================
