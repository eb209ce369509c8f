------------------------- MODULE LoginLimiterProofs -------------------------
(* Theorems about LoginLimiter for every set of addresses, every finite    *)
(* number of concurrent logins and every setting of the limiter.           *)
EXTENDS LoginLimiter, FiniteSetTheorems, SequenceTheorems, TLAPS

\* The window is a positive number of ticks.
LEMMA WindowType == Window \in Nat \ {0} /\ Ages \subseteq Nat
BY LimitsPositive DEF Window, Ages

\* Integer division: the quotient and the fraction it cuts off.
LEMMA DivLemma ==
    ASSUME NEW a \in Nat, NEW b \in Nat \ {0}
    PROVE  /\ a \div b \in Nat
           /\ (a \div b) * b \in Nat
           /\ (a \div b) * b <= a
           /\ a < (a \div b) * b + b
           /\ (a \div b + 1) * b = (a \div b) * b + b
<1>1. a \div b \in Nat
  BY SMTT(30)
<1>2. a = (a \div b) * b + (a % b) /\ a % b \in 0 .. (b - 1)
  BY SMTT(30)
<1>3. \A q \in Nat : q * b \in Nat /\ (q + 1) * b = q * b + b
  BY SMTT(30)
<1> QED BY <1>1, <1>2, <1>3

-----------------------------------------------------------------------------
(* What the helpers return.                                                *)

\* Cleanup returns a part of the list: all of it, or less; less when the
\* oldest stamp left the window.
LEMMA CleanupLemma ==
    ASSUME NEW ages \in Seq(Ages)
    PROVE  /\ Cleanup(ages) \in Seq(Ages)
           /\ Len(Cleanup(ages)) <= Len(ages)
           /\ Len(Cleanup(ages)) = Len(ages) => Cleanup(ages) = ages
           /\ ages # <<>> /\ ages[1] >= Window => Len(Cleanup(ages)) < Len(ages)
<1> DEFINE recent == {i \in 1 .. Len(ages) : ages[i] < Window}
           n == Cardinality(recent)
<1>1. IsFiniteSet(1 .. Len(ages)) /\ Cardinality(1 .. Len(ages)) = Len(ages)
  <2>1. 1 \in Int /\ Len(ages) \in Nat /\ Len(ages) \in Int
    BY LenProperties
  <2> QED BY <2>1, FS_Interval
<1>2. n \in Nat /\ n <= Len(ages) /\ (n = Len(ages) => recent = 1 .. Len(ages))
  BY <1>1, FS_Subset, FS_CardinalityType
<1>3. Cleanup(ages) = SubSeq(ages, Len(ages) - n + 1, Len(ages))
  BY DEF Cleanup
<1> HIDE DEF n
<1>4. Cleanup(ages) \in Seq(Ages) /\ Len(Cleanup(ages)) = n
  BY <1>2, <1>3
<1>5. n = Len(ages) => Cleanup(ages) = ages
  BY <1>2, <1>3
<1>6. ASSUME ages # <<>>, ages[1] >= Window PROVE n < Len(ages)
  <2>1. 1 \in 1 .. Len(ages) /\ ages[1] \in Nat
    <3>1. Len(ages) \in Nat \ {0}
      BY <1>6, EmptySeq
    <3> QED BY <3>1, WindowType DEF Ages
  <2>2. 1 \notin recent
    BY <1>6, <2>1, WindowType
  <2> QED BY <1>2, <2>1, <2>2
<1> QED BY <1>2, <1>4, <1>5, <1>6

\* What is in order of time, oldest first.
InOrder(ages) == \A i, j \in 1 .. Len(ages) : i < j => ages[i] >= ages[j]

\* Of a list in order, Cleanup cuts off a prefix, and in it are all and only the
\* stamps that left the window.
LEMMA CleanupInOrder ==
    ASSUME NEW ages \in Seq(Ages), InOrder(ages)
    PROVE  LET kept == Cleanup(ages)
               gone == Len(ages) - Len(kept)
           IN  /\ \A i \in 1 .. Len(ages) : ages[i] < Window <=> i > gone
               /\ \A i \in 1 .. Len(kept) : kept[i] = ages[gone + i]
               /\ InOrder(kept)
<1> DEFINE len == Len(ages)
           recent == {i \in 1 .. len : ages[i] < Window}
           n == Cardinality(recent)
<1>1. len \in Nat /\ \A i \in 1 .. len : ages[i] \in Nat
  BY WindowType, LenProperties
<1>2. \A i, j \in 1 .. len : ages[i] < Window /\ i < j => ages[j] < Window
  BY <1>1, WindowType DEF InOrder
<1>3. Cleanup(ages) = SubSeq(ages, len - n + 1, len)
  BY DEF Cleanup
<1>4. IsFiniteSet(recent) /\ n \in Nat /\ n <= len
  <2>1. IsFiniteSet(1 .. len) /\ Cardinality(1 .. len) = len
    BY <1>1, FS_Interval
  <2> QED BY <2>1, FS_Subset, FS_CardinalityType
<1>5. ASSUME NEW i \in 1 .. len, ages[i] < Window PROVE i > len - n
  <2>1. i .. len \subseteq recent
    BY <1>1, <1>2, <1>5
  <2>2. Cardinality(i .. len) = len - i + 1
    BY <1>1, FS_Interval
  <2>3. Cardinality(i .. len) <= n
    BY <1>4, <2>1, FS_Subset
  <2> QED BY <1>1, <1>4, <2>2, <2>3
<1>6. ASSUME NEW i \in 1 .. len, ~(ages[i] < Window) PROVE ~(i > len - n)
  <2>1. recent \subseteq (i + 1) .. len
    BY <1>1, <1>2, <1>6
  <2>2. IsFiniteSet((i + 1) .. len) /\ Cardinality((i + 1) .. len) = len - i
    <3>1. i + 1 \in Int /\ len \in Int /\ (i + 1 > len => len - i = 0)
      BY <1>1
    <3>2. /\ IsFiniteSet((i + 1) .. len)
          /\ Cardinality((i + 1) .. len) = IF i + 1 > len THEN 0 ELSE len - (i + 1) + 1
      BY <3>1, FS_Interval
    <3> QED BY <1>1, <3>1, <3>2
  <2>3. n <= len - i
    BY <2>1, <2>2, FS_Subset
  <2> QED BY <1>1, <1>4, <2>3
<1> HIDE DEF n, recent
<1>7. /\ Cleanup(ages) \in Seq(Ages) /\ Len(Cleanup(ages)) = n
      /\ \A i \in 1 .. n : Cleanup(ages)[i] = ages[len - n + i]
  BY <1>1, <1>3, <1>4
<1>8. ASSUME NEW i \in 1 .. n, NEW j \in 1 .. n, i < j
      PROVE  Cleanup(ages)[i] >= Cleanup(ages)[j]
  <2>1. /\ len - n + i \in 1 .. len /\ len - n + j \in 1 .. len
        /\ len - n + i < len - n + j
    BY <1>1, <1>4, <1>8
  <2>2. ages[len - n + i] >= ages[len - n + j]
    BY <2>1 DEF InOrder
  <2> QED BY <1>7, <2>2
<1>9. len - Len(Cleanup(ages)) = len - n
  BY <1>7
<1> QED BY <1>1, <1>4, <1>5, <1>6, <1>7, <1>8, <1>9 DEF InOrder

\* Retry-After, in ticks: positive, at most a second more than the window, and
\* enough for the oldest stamp to leave the window.
LEMMA RetryAfterLemma ==
    ASSUME NEW ages \in Seq(Ages)
    PROVE  /\ RetryAfter(ages) * TicksPerSecond \in 0 .. Window + TicksPerSecond
           /\ ages # <<>> => ages[1] + RetryAfter(ages) * TicksPerSecond >= Window
<1>1. CASE ages = <<>>
  BY <1>1, LimitsPositive, WindowType DEF RetryAfter, Window
<1>2. CASE ages # <<>>
  <2> DEFINE left == Window - ages[1]
             q == left \div TicksPerSecond
  <2>1. Len(ages) \in Nat \ {0}
    BY <1>2, EmptySeq
  <2>2. left \in 0 .. Window /\ left \in Nat /\ ages[1] \in Nat
    BY <2>1, WindowType DEF Ages
  <2>3. TicksPerSecond \in Nat \ {0} /\ Window \in Nat
    BY LimitsPositive, WindowType
  <2>4. RetryAfter(ages) = IF q + 1 < 1 THEN 1 ELSE q + 1
    BY <1>2 DEF RetryAfter
  <2> HIDE DEF left
  <2>5. /\ q \in Nat
        /\ q * TicksPerSecond \in Nat
        /\ q * TicksPerSecond <= left
        /\ left < q * TicksPerSecond + TicksPerSecond
        /\ (q + 1) * TicksPerSecond = q * TicksPerSecond + TicksPerSecond
    BY <2>2, <2>3, DivLemma
  <2> HIDE DEF q
  <2>6. RetryAfter(ages) * TicksPerSecond = q * TicksPerSecond + TicksPerSecond
    BY <2>4, <2>5
  <2>7. ages[1] + left = Window
    BY <2>2, <2>3 DEF left
  <2> DEFINE ticks == q * TicksPerSecond
  <2>8. ticks \in Nat
    BY <2>5
  <2>9. RetryAfter(ages) * TicksPerSecond = ticks + TicksPerSecond
        /\ ticks <= left /\ left < ticks + TicksPerSecond
    BY <2>5, <2>6
  <2> HIDE DEF ticks
  <2> QED BY <1>2, <2>2, <2>3, <2>7, <2>8, <2>9
<1> QED BY <1>1, <1>2

-----------------------------------------------------------------------------
(* Counting the logins that recorded nothing yet.                          *)

\* They are finitely many, and as long as some task serves nobody they are
\* fewer than the tasks.
LEMMA UnrecordedFinite ==
    ASSUME NEW ip \in Ips
    PROVE  /\ IsFiniteSet(Unrecorded(ip))
           /\ Cardinality(Unrecorded(ip)) \in Nat
           /\ Cardinality(Tasks) \in Nat
           /\ \A t \in Tasks \ Unrecorded(ip) : Cardinality(Unrecorded(ip)) < Cardinality(Tasks)
<1>1. Unrecorded(ip) \subseteq Tasks
  BY DEF Unrecorded
<1> QED BY <1>1, TasksFinite, FS_Subset, FS_CardinalityType

\* One login begins or ends: the counts before and after.
LEMMA UnrecordedChange ==
    ASSUME TypeOK, NEW t \in Tasks, NEW ip \in Ips,
           \A u \in Tasks \ {t} : pc'[u] = pc[u] /\ client'[u] = client[u]
    PROVE  /\ Cardinality(Unrecorded(ip)') \in Nat
           /\ Cardinality(Unrecorded(ip)') <= Cardinality(Unrecorded(ip)) + 1
           /\ t \in Unrecorded(ip) =>
                Cardinality(Unrecorded(ip)') <= Cardinality(Unrecorded(ip))
           /\ t \notin Unrecorded(ip)' =>
                Cardinality(Unrecorded(ip)') <= Cardinality(Unrecorded(ip))
           /\ t \in Unrecorded(ip) /\ t \notin Unrecorded(ip)' =>
                Cardinality(Unrecorded(ip)') = Cardinality(Unrecorded(ip)) - 1
<1> DEFINE before == Unrecorded(ip)
           after == Unrecorded(ip)'
<1>1. after \ {t} = before \ {t}
  BY DEF Unrecorded
<1>2. before \subseteq Tasks /\ after \subseteq Tasks
  BY DEF Unrecorded
<1> HIDE DEF before, after
<1>3. IsFiniteSet(before) /\ IsFiniteSet(after)
  BY <1>2, TasksFinite, FS_Subset
<1>4. Cardinality(before) \in Nat /\ Cardinality(after) \in Nat
  BY <1>3, FS_CardinalityType
<1>5. /\ Cardinality(before \ {t}) = IF t \in before THEN Cardinality(before) - 1
                                     ELSE Cardinality(before)
      /\ Cardinality(after \ {t}) = IF t \in after THEN Cardinality(after) - 1
                                    ELSE Cardinality(after)
  BY <1>3, FS_RemoveElement
<1>6. /\ Cardinality(after) \in Nat
      /\ Cardinality(after) <= Cardinality(before) + 1
      /\ t \in before => Cardinality(after) <= Cardinality(before)
      /\ t \notin after => Cardinality(after) <= Cardinality(before)
      /\ t \in before /\ t \notin after => Cardinality(after) = Cardinality(before) - 1
  BY <1>1, <1>4, <1>5
<1> QED BY <1>6 DEF before, after

-----------------------------------------------------------------------------
(* The invariant.  A step concerns one address: its list is cleaned, and   *)
(* possibly a failure is appended.                                         *)

\* A cleaned list keeps the promise given for the list before.
LEMMA CleanKeepsPromise ==
    ASSUME NEW ages \in Seq(Ages), NEW left \in Nat, NEW counted \in Nat,
           Len(ages) <= counted,
           Len(ages) = counted /\ ages # <<>> => ages[1] + left >= Window
    PROVE  LET kept == Cleanup(ages)
           IN  /\ Len(kept) <= counted
               /\ Len(kept) = counted /\ kept # <<>> => kept[1] + left >= Window
<1>1. Len(ages) \in Nat /\ Len(Cleanup(ages)) \in Nat
  BY CleanupLemma, LenProperties
<1> QED BY <1>1, CleanupLemma

\* Every step keeps the types.
LEMMA NextType == ASSUME TypeOK, Next PROVE TypeOK'
<1>1. ASSUME NEW t \in Tasks, NEW ip \in Ips, NEW to \in {"lookup", "refusing"},
             Arrive(t, ip, to)
      PROVE  TypeOK'
  <2>1. Cleanup(attempts[ip]) \in Seq(Ages)
    BY CleanupLemma DEF TypeOK
  <2> QED BY <1>1, <2>1, NoIpIsNoAddress DEF TypeOK, Arrive
<1>2. ASSUME NEW t \in Tasks, Refuse(t) PROVE TypeOK'
  <2>1. client[t] \in Ips
    BY <1>2 DEF TypeOK, Refuse
  <2> DEFINE recent == Cleanup(attempts[client[t]])
             left == RetryAfter(recent) * TicksPerSecond
  <2>2. recent \in Seq(Ages)
    BY <2>1, CleanupLemma DEF TypeOK
  <2>3. left \in 0 .. Window + TicksPerSecond
    BY <2>2, RetryAfterLemma
  <2>4. /\ attempts' = [attempts EXCEPT ![client[t]] = recent]
        /\ promise' = [promise EXCEPT ![client[t]] =
               [left |-> left, counted |-> Len(recent), untouched |-> TRUE]]
        /\ Leave(t) /\ Len(recent) \in Nat
    BY <1>2, <2>2, LenProperties DEF Refuse
  <2> HIDE DEF recent, left
  <2> QED BY <2>1, <2>2, <2>3, <2>4 DEF TypeOK, Leave, Promise
<1>3. ASSUME NEW t \in Tasks, FindAdmin(t) PROVE TypeOK'
  BY <1>3 DEF TypeOK, FindAdmin
<1>4. ASSUME NEW t \in Tasks, Reject(t) PROVE TypeOK'
  <2>1. client[t] \in Ips
    BY <1>4 DEF TypeOK, Reject
  <2>2. Append(Cleanup(attempts[client[t]]), 0) \in Seq(Ages)
    BY <2>1, CleanupLemma, WindowType DEF TypeOK, Ages
  <2> QED BY <1>4, <2>1, <2>2 DEF TypeOK, Reject, RecordAttempt, Leave, Promise
<1>5. ASSUME NEW t \in Tasks, Accept(t) \/ LookupFails(t) PROVE TypeOK'
  BY <1>5 DEF TypeOK, Accept, LookupFails, Leave
<1>6. ASSUME Tick PROVE TypeOK'
  <2>1. attempts' \in [Ips -> Seq(Ages)]
    <3>1. SUFFICES ASSUME NEW ip \in Ips
                   PROVE  [i \in 1 .. Len(attempts[ip]) |-> Older(attempts[ip][i])] \in Seq(Ages)
      BY <1>6 DEF Tick
    <3>2. Len(attempts[ip]) \in Nat
      BY LenProperties DEF TypeOK
    <3>3. \A age \in Ages : Older(age) \in Ages
      BY WindowType DEF Older, Ages
    <3>4. \A i \in 1 .. Len(attempts[ip]) : attempts[ip][i] \in Ages
      BY DEF TypeOK
    <3> QED BY <3>2, <3>3, <3>4
  <2>2. promise' \in [Ips -> Promise]
    <3>1. Window + TicksPerSecond \in Nat
      BY WindowType, LimitsPositive
    <3>2. \A p \in Promise :
              [p EXCEPT !.left = IF @ > 0 THEN @ - 1 ELSE 0] \in Promise
      BY <3>1 DEF Promise
    <3>3. promise \in [Ips -> Promise]
      BY DEF TypeOK
    <3> QED BY <1>6, <3>2, <3>3 DEF Tick
  <2> QED BY <1>6, <2>1, <2>2 DEF TypeOK, Tick
<1> QED BY <1>1, <1>2, <1>3, <1>4, <1>5, <1>6 DEF Next, Admit, Limit

\* A step at most cleans the list of an address, unless it records a failure
\* for the address or time passes; the length then does not grow.
LEMMA NextInFlight == ASSUME TypeOK, InFlightBounded, Next PROVE InFlightBounded'
<1> SUFFICES ASSUME NEW ip \in Ips
             PROVE  Len(attempts'[ip]) + Cardinality(Unrecorded(ip)')
                        <= MaxAttempts + Cardinality(Tasks) - 1
  BY DEF InFlightBounded
<1> DEFINE n == Cardinality(Unrecorded(ip))
           bound == MaxAttempts + Cardinality(Tasks) - 1
<1>1. /\ n \in Nat /\ Cardinality(Tasks) \in Nat
      /\ \A t \in Tasks \ Unrecorded(ip) : n < Cardinality(Tasks)
  BY UnrecordedFinite
<1>2. /\ Len(attempts[ip]) \in Nat
      /\ Len(Cleanup(attempts[ip])) \in Nat
      /\ Len(Cleanup(attempts[ip])) <= Len(attempts[ip])
  BY CleanupLemma, LenProperties DEF TypeOK
<1>3. Len(attempts[ip]) + n <= bound
  BY DEF InFlightBounded
<1>4. ASSUME NEW t \in Tasks, NEW i \in Ips, Admit(t, i)
      PROVE  Len(attempts'[ip]) + Cardinality(Unrecorded(ip)') <= bound
  <2>1. /\ t \notin Unrecorded(ip)
        /\ \A u \in Tasks \ {t} : pc'[u] = pc[u] /\ client'[u] = client[u]
    BY <1>4 DEF TypeOK, Admit, Arrive, Unrecorded
  <2>2. CASE i = ip
    <3>1. Len(attempts'[ip]) = Len(Cleanup(attempts[ip])) /\ Len(attempts'[ip]) < MaxAttempts
      BY <1>2, <1>4, <2>2, LimitsPositive DEF TypeOK, Admit, Arrive, RateLimited
    <3>2. Cardinality(Unrecorded(ip)') \in Nat /\ Cardinality(Unrecorded(ip)') <= n + 1
      BY <2>1, UnrecordedChange
    <3> QED BY <1>1, <1>2, <2>1, <3>1, <3>2, LimitsPositive
  <2>3. CASE i # ip
    <3>1. attempts'[ip] = attempts[ip] /\ Unrecorded(ip)' = Unrecorded(ip)
      BY <1>4, <2>3, NoIpIsNoAddress DEF TypeOK, Admit, Arrive, Unrecorded
    <3> QED BY <1>3, <3>1
  <2> QED BY <2>2, <2>3
<1>5. ASSUME NEW t \in Tasks,
             \A u \in Tasks \ {t} : pc'[u] = pc[u] /\ client'[u] = client[u],
             t \notin Unrecorded(ip)' \/ t \in Unrecorded(ip),
             attempts'[ip] \in {attempts[ip], Cleanup(attempts[ip])}
      PROVE  Len(attempts'[ip]) + Cardinality(Unrecorded(ip)') <= bound
  <2>1. Cardinality(Unrecorded(ip)') \in Nat /\ Cardinality(Unrecorded(ip)') <= n
    BY <1>5, UnrecordedChange
  <2>2. Len(attempts'[ip]) \in Nat /\ Len(attempts'[ip]) <= Len(attempts[ip])
    BY <1>2, <1>5
  <2> QED BY <1>1, <1>2, <1>3, <2>1, <2>2, LimitsPositive
<1>6. ASSUME NEW t \in Tasks, NEW i \in Ips, Limit(t, i)
      PROVE  Len(attempts'[ip]) + Cardinality(Unrecorded(ip)') <= bound
  BY <1>5, <1>6 DEF TypeOK, Limit, Arrive, Unrecorded
<1>7. ASSUME NEW t \in Tasks, Refuse(t)
      PROVE  Len(attempts'[ip]) + Cardinality(Unrecorded(ip)') <= bound
  BY <1>5, <1>7 DEF TypeOK, Refuse, Leave, Unrecorded
<1>8. ASSUME NEW t \in Tasks, FindAdmin(t)
      PROVE  Len(attempts'[ip]) + Cardinality(Unrecorded(ip)') <= bound
  BY <1>5, <1>8 DEF TypeOK, FindAdmin, Unrecorded
<1>9. ASSUME NEW t \in Tasks, Accept(t) \/ LookupFails(t)
      PROVE  Len(attempts'[ip]) + Cardinality(Unrecorded(ip)') <= bound
  BY <1>5, <1>9 DEF TypeOK, Accept, LookupFails, Leave, Unrecorded
<1>10. ASSUME NEW t \in Tasks, Reject(t)
       PROVE  Len(attempts'[ip]) + Cardinality(Unrecorded(ip)') <= bound
  <2>1. /\ \A u \in Tasks \ {t} : pc'[u] = pc[u] /\ client'[u] = client[u]
        /\ t \notin Unrecorded(ip)'
    BY <1>10 DEF TypeOK, Reject, Leave, Unrecorded
  <2>2. CASE client[t] = ip
    <3>1. t \in Unrecorded(ip)
      BY <1>10, <2>2 DEF Reject, Unrecorded
    <3>2. Cardinality(Unrecorded(ip)') = n - 1
      BY <2>1, <3>1, UnrecordedChange
    <3>3. Len(attempts'[ip]) = Len(Cleanup(attempts[ip])) + 1
      <4>1. Cleanup(attempts[ip]) \in Seq(Ages) /\ 0 \in Ages
        BY CleanupLemma, WindowType DEF TypeOK, Ages
      <4>2. attempts'[ip] = Append(Cleanup(attempts[ip]), 0)
        BY <1>10, <2>2 DEF TypeOK, Reject, RecordAttempt
      <4> QED BY <4>1, <4>2
    <3> QED BY <1>1, <1>2, <1>3, <3>2, <3>3, LimitsPositive
  <2>3. CASE client[t] # ip
    <3>1. attempts'[ip] = attempts[ip]
      BY <1>10, <2>3 DEF TypeOK, Reject, RecordAttempt
    <3> QED BY <1>5, <2>1, <3>1
  <2> QED BY <2>2, <2>3
<1>11. ASSUME Tick
       PROVE  Len(attempts'[ip]) + Cardinality(Unrecorded(ip)') <= bound
  <2>1. Len(attempts'[ip]) = Len(attempts[ip])
    BY <1>2, <1>11 DEF Tick
  <2>2. Unrecorded(ip)' = Unrecorded(ip)
    BY <1>11 DEF Tick, Unrecorded
  <2> QED BY <1>3, <2>1, <2>2
<1> QED
  BY <1>4, <1>6, <1>7, <1>8, <1>9, <1>10, <1>11 DEF Next

\* A promise holds until a login of the address fails.
LEMMA NextPromise == ASSUME TypeOK, PromiseHolds, Next PROVE PromiseHolds'
<1> DEFINE Kept(ages, left, counted) ==
             /\ Len(ages) <= counted
             /\ Len(ages) = counted /\ ages # <<>> => ages[1] + left >= Window
<1> SUFFICES ASSUME NEW ip \in Ips, promise'[ip].untouched
             PROVE  Kept(attempts'[ip], promise'[ip].left, promise'[ip].counted)
  BY DEF PromiseHolds
<1>1. /\ attempts[ip] \in Seq(Ages) /\ promise[ip] \in Promise
      /\ promise[ip].left \in Nat /\ promise[ip].counted \in Nat
  BY WindowType, LimitsPositive DEF TypeOK, Promise
<1>2. promise[ip].untouched => Kept(attempts[ip], promise[ip].left, promise[ip].counted)
  BY DEF PromiseHolds
<1>3. promise[ip].untouched => Kept(Cleanup(attempts[ip]), promise[ip].left, promise[ip].counted)
  BY <1>1, <1>2, CleanKeepsPromise
<1>4. ASSUME promise'[ip] = promise[ip],
             attempts'[ip] \in {attempts[ip], Cleanup(attempts[ip])}
      PROVE  Kept(attempts'[ip], promise'[ip].left, promise'[ip].counted)
  BY <1>2, <1>3, <1>4
<1>5. ASSUME NEW t \in Tasks, NEW i \in Ips, Admit(t, i) \/ Limit(t, i)
      PROVE  Kept(attempts'[ip], promise'[ip].left, promise'[ip].counted)
  <2>1. promise'[ip] = promise[ip] /\ attempts'[ip] \in {attempts[ip], Cleanup(attempts[ip])}
    BY <1>5 DEF TypeOK, Admit, Limit, Arrive
  <2> QED BY <1>4, <2>1
<1>6. ASSUME NEW t \in Tasks, Refuse(t)
      PROVE  Kept(attempts'[ip], promise'[ip].left, promise'[ip].counted)
  <2>1. CASE client[t] = ip
    <3> DEFINE recent == Cleanup(attempts[ip])
               left == RetryAfter(recent) * TicksPerSecond
    <3>1. /\ attempts'[ip] = recent
          /\ promise'[ip] = [left |-> left, counted |-> Len(recent), untouched |-> TRUE]
      BY <1>6, <2>1 DEF TypeOK, Refuse
    <3>2. recent \in Seq(Ages) /\ Len(recent) \in Nat
      BY <1>1, CleanupLemma, LenProperties
    <3>3. recent # <<>> => recent[1] + left >= Window
      BY <3>2, RetryAfterLemma
    <3> HIDE DEF recent, left
    <3>4. promise'[ip].left = left /\ promise'[ip].counted = Len(recent)
      BY <3>1
    <3> QED BY <3>1, <3>2, <3>3, <3>4
  <2>2. CASE client[t] # ip
    <3>1. promise'[ip] = promise[ip] /\ attempts'[ip] = attempts[ip]
      BY <1>6, <2>2 DEF TypeOK, Refuse
    <3> QED BY <1>4, <3>1
  <2> QED BY <2>1, <2>2
<1>7. ASSUME NEW t \in Tasks, FindAdmin(t) \/ Accept(t) \/ LookupFails(t)
      PROVE  Kept(attempts'[ip], promise'[ip].left, promise'[ip].counted)
  <2>1. promise' = promise /\ attempts' = attempts
    BY <1>7 DEF FindAdmin, Accept, LookupFails
  <2> QED BY <1>4, <2>1
<1>8. ASSUME NEW t \in Tasks, Reject(t)
      PROVE  Kept(attempts'[ip], promise'[ip].left, promise'[ip].counted)
  <2>1. client[t] # ip
    BY <1>8 DEF TypeOK, Reject, RecordAttempt, Promise
  <2>2. promise'[ip] = promise[ip] /\ attempts'[ip] = attempts[ip]
    BY <1>8, <2>1 DEF TypeOK, Reject, RecordAttempt
  <2> QED BY <1>4, <2>2
<1>9. ASSUME Tick
      PROVE  Kept(attempts'[ip], promise'[ip].left, promise'[ip].counted)
  <2>1. /\ promise'[ip].untouched = promise[ip].untouched
        /\ promise'[ip].counted = promise[ip].counted
        /\ promise'[ip].left = IF promise[ip].left > 0 THEN promise[ip].left - 1 ELSE 0
    BY <1>1, <1>9 DEF Tick, Promise
  <2>2. /\ attempts'[ip] = [i \in 1 .. Len(attempts[ip]) |-> Older(attempts[ip][i])]
        /\ Len(attempts'[ip]) = Len(attempts[ip])
    BY <1>1, <1>9, LenProperties DEF Tick
  <2>3. Len(attempts[ip]) <= promise[ip].counted
    BY <1>2, <2>1
  <2>4. ASSUME Len(attempts[ip]) = promise[ip].counted, attempts'[ip] # <<>>
        PROVE  attempts'[ip][1] + promise'[ip].left >= Window
    <3>1. attempts[ip] # <<>> /\ 1 \in 1 .. Len(attempts[ip])
      <4>1. attempts[ip] # <<>>
        BY <1>1, <2>2, <2>4, EmptySeq
      <4>2. Len(attempts[ip]) \in Nat \ {0}
        BY <1>1, <4>1, EmptySeq
      <4> QED BY <4>1, <4>2
    <3>2. attempts[ip][1] \in Ages
      BY <1>1, <3>1
    <3>3. attempts'[ip][1] = Older(attempts[ip][1])
      BY <2>2, <3>1
    <3>4. attempts[ip][1] + promise[ip].left >= Window
      BY <1>2, <2>1, <2>4, <3>1
    <3> QED BY <1>1, <2>1, <3>2, <3>3, <3>4, WindowType DEF Older, Ages
  <2> QED BY <2>1, <2>2, <2>3, <2>4
<1> QED BY <1>5, <1>6, <1>7, <1>8, <1>9 DEF Next

\* A step cleans a list, appends the newest stamp to it, or ages it: it stays in
\* order of time.
LEMMA NextOldestFirst == ASSUME TypeOK, OldestFirst, Next PROVE OldestFirst'
<1> SUFFICES ASSUME NEW ip \in Ips PROVE InOrder(attempts'[ip])
  BY DEF OldestFirst, InOrder
<1>1. attempts[ip] \in Seq(Ages) /\ InOrder(attempts[ip])
  BY DEF TypeOK, OldestFirst, InOrder
<1>2. Cleanup(attempts[ip]) \in Seq(Ages) /\ InOrder(Cleanup(attempts[ip]))
  BY <1>1, CleanupLemma, CleanupInOrder
<1>3. CASE attempts'[ip] \in {attempts[ip], Cleanup(attempts[ip])}
  BY <1>1, <1>2, <1>3
<1>4. CASE attempts'[ip] = Append(Cleanup(attempts[ip]), 0)
  <2> DEFINE kept == Cleanup(attempts[ip])
  <2>1. /\ kept \in Seq(Ages) /\ InOrder(kept) /\ 0 \in Ages /\ Len(kept) \in Nat
        /\ attempts'[ip] = Append(kept, 0)
    BY <1>2, <1>4, WindowType, LenProperties DEF Ages
  <2> HIDE DEF kept
  <2>2. /\ Len(Append(kept, 0)) = Len(kept) + 1
        /\ \A i \in 1 .. Len(kept) : Append(kept, 0)[i] = kept[i]
        /\ Append(kept, 0)[Len(kept) + 1] = 0
    BY <2>1, AppendProperties
  <2>3. \A i \in 1 .. Len(kept) : kept[i] \in Nat
    <3>1. \A i \in 1 .. Len(kept) : kept[i] \in Ages
      BY <2>1, ElementOfSeq
    <3> QED BY <3>1, WindowType
  <2> QED BY <2>1, <2>2, <2>3 DEF InOrder
<1>5. CASE Tick
  <2>1. /\ Len(attempts'[ip]) = Len(attempts[ip])
        /\ \A i \in 1 .. Len(attempts[ip]) :
               /\ attempts'[ip][i] = Older(attempts[ip][i])
               /\ attempts[ip][i] \in Ages
    BY <1>1, <1>5, LenProperties DEF Tick
  <2>2. \A a, b \in Ages : a >= b => Older(a) >= Older(b)
    BY WindowType DEF Older, Ages
  <2>3. ASSUME NEW i \in 1 .. Len(attempts[ip]), NEW j \in 1 .. Len(attempts[ip]), i < j
        PROVE  attempts'[ip][i] >= attempts'[ip][j]
    <3>1. attempts[ip][i] >= attempts[ip][j]
      BY <1>1, <2>3 DEF InOrder
    <3> QED BY <2>1, <2>2, <3>1
  <2> QED BY <2>1, <2>3 DEF InOrder
<1>6. ASSUME NEW t \in Tasks, NEW i \in Ips, Admit(t, i) \/ Limit(t, i)
      PROVE  attempts'[ip] \in {attempts[ip], Cleanup(attempts[ip])}
  BY <1>6 DEF TypeOK, Admit, Limit, Arrive
<1>7. ASSUME NEW t \in Tasks, Refuse(t) \/ FindAdmin(t) \/ Accept(t) \/ LookupFails(t)
      PROVE  attempts'[ip] \in {attempts[ip], Cleanup(attempts[ip])}
  BY <1>7 DEF TypeOK, Refuse, FindAdmin, Accept, LookupFails
<1>8. ASSUME NEW t \in Tasks, Reject(t)
      PROVE  attempts'[ip] \in {attempts[ip], Append(Cleanup(attempts[ip]), 0)}
  BY <1>8 DEF TypeOK, Reject, RecordAttempt
<1> QED BY <1>3, <1>4, <1>5, <1>6, <1>7, <1>8 DEF Next

-----------------------------------------------------------------------------
(* The theorems.                                                           *)

\* The invariant is inductive and holds in every run of the limiter.
THEOREM LimiterInductive == Spec => []LimiterInv
<1>1. Init => LimiterInv
  <2> SUFFICES ASSUME Init PROVE LimiterInv
    OBVIOUS
  <2>1. TypeOK
    BY WindowType, LimitsPositive, NoIpIsNoAddress DEF Init, TypeOK, Promise
  <2>2. InFlightBounded
    <3> SUFFICES ASSUME NEW ip \in Ips
                 PROVE  Len(attempts[ip]) + Cardinality(Unrecorded(ip))
                            <= MaxAttempts + Cardinality(Tasks) - 1
      BY DEF InFlightBounded
    <3>1. Unrecorded(ip) = {} /\ attempts[ip] = <<>>
      BY NoIpIsNoAddress DEF Init, Unrecorded
    <3> QED BY <3>1, UnrecordedFinite, FS_EmptySet, LimitsPositive
  <2>3. PromiseHolds
    BY DEF Init, PromiseHolds
  <2>4. OldestFirst
    BY DEF Init, OldestFirst
  <2> QED BY <2>1, <2>2, <2>3, <2>4 DEF LimiterInv
<1>2. LimiterInv /\ [Next]_vars => LimiterInv'
  <2> SUFFICES ASSUME LimiterInv, [Next]_vars PROVE LimiterInv'
    OBVIOUS
  <2>1. CASE Next
    BY <2>1, NextType, NextInFlight, NextPromise, NextOldestFirst DEF LimiterInv
  <2>2. CASE UNCHANGED vars
    BY <2>2 DEF vars, LimiterInv, TypeOK, InFlightBounded, PromiseHolds, OldestFirst, Unrecorded
  <2> QED BY <2>1, <2>2
<1> QED BY <1>1, <1>2, PTL DEF Spec

\* However many logins run at the same time, an address never has more recorded
\* failures than the limit and one for each further login
\* (the check in login and the record after the awaits).
THEOREM FailuresStayBounded == Spec => []AttemptsBounded
<1>1. LimiterInv => AttemptsBounded
  <2> SUFFICES ASSUME LimiterInv, NEW ip \in Ips
               PROVE  Len(attempts[ip]) <= MaxAttempts + Cardinality(Tasks) - 1
    BY DEF AttemptsBounded
  <2>1. Len(attempts[ip]) \in Nat
    BY LenProperties DEF LimiterInv, TypeOK
  <2>2. Len(attempts[ip]) + Cardinality(Unrecorded(ip)) <= MaxAttempts + Cardinality(Tasks) - 1
    BY DEF LimiterInv, InFlightBounded
  <2> QED BY <2>1, <2>2, UnrecordedFinite, LimitsPositive
<1> QED BY <1>1, LimiterInductive, PTL

\* Whatever fraction of a second int() cuts off, and however long the list is, the
\* oldest failure has left the window when the time of Retry-After is over.
THEOREM RetryAfterFrees == Spec => []RetryAfterFreesOne
<1>1. LimiterInv => RetryAfterFreesOne
  <2> SUFFICES ASSUME LimiterInv, NEW ip \in Ips,
                      promise[ip].untouched, promise[ip].left = 0
               PROVE  Counted(ip) = 0 \/ Counted(ip) < promise[ip].counted
    BY DEF RetryAfterFreesOne
  <2>1. /\ attempts[ip] \in Seq(Ages) /\ Len(attempts[ip]) \in Nat
        /\ promise[ip].counted \in Nat
    BY LenProperties DEF LimiterInv, TypeOK, Promise
  <2>2. /\ Len(attempts[ip]) <= promise[ip].counted
        /\ Len(attempts[ip]) = promise[ip].counted /\ attempts[ip] # <<>> =>
               attempts[ip][1] + 0 >= Window
    BY DEF LimiterInv, PromiseHolds
  <2>3. Counted(ip) \in Nat /\ Counted(ip) <= Len(attempts[ip])
    BY <2>1, CleanupLemma, LenProperties DEF Counted
  <2>4. CASE Len(attempts[ip]) = promise[ip].counted /\ attempts[ip] # <<>>
    <3>1. 1 \in 1 .. Len(attempts[ip])
      <4>1. Len(attempts[ip]) \in Nat \ {0}
        BY <2>1, <2>4, EmptySeq
      <4> QED BY <4>1
    <3>2. attempts[ip][1] >= Window
      BY <2>1, <2>2, <2>4, <3>1, WindowType DEF Ages
    <3> QED BY <2>1, <2>3, <2>4, <3>2, CleanupLemma DEF Counted
  <2>5. CASE Len(attempts[ip]) < promise[ip].counted
    BY <2>1, <2>3, <2>5
  <2>6. CASE attempts[ip] = <<>>
    BY <2>3, <2>6
  <2> QED BY <2>1, <2>2, <2>4, <2>5, <2>6
<1> QED BY <1>1, LimiterInductive, PTL

\* What _cleanup leaves out are all and only the attempts that left the window,
\* and the first of the list is the oldest, as retry_after takes for granted.
THEOREM CleanupAlwaysFilters == Spec => []CleanupIsFilter
<1>1. LimiterInv => CleanupIsFilter
  <2> SUFFICES ASSUME LimiterInv, NEW ip \in Ips
               PROVE  LET ages == attempts[ip]
                          kept == Cleanup(ages)
                          gone == Len(ages) - Len(kept)
                      IN  /\ \A i \in 1 .. Len(ages) : ages[i] < Window <=> i > gone
                          /\ \A i \in 1 .. Len(kept) : kept[i] = ages[gone + i]
    BY DEF CleanupIsFilter
  <2>1. attempts[ip] \in Seq(Ages) /\ InOrder(attempts[ip])
    BY DEF LimiterInv, TypeOK, OldestFirst, InOrder
  <2> QED BY <2>1, CleanupInOrder
<1> QED BY <1>1, LimiterInductive, PTL
=============================================================================
