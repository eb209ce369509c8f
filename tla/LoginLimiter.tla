---------------------------- MODULE LoginLimiter ----------------------------
(***************************************************************************)
(* POST /api/auth/login and its in-memory rate limiter.  A login looks at  *)
(* the limiter, awaits the database, awaits bcrypt in a worker thread, and *)
(* only then records a failure: the logins that are between the look and   *)
(* the record are what the limiter does not see.                           *)
(*                                                                         *)
(* The limiter keeps time.monotonic() stamps; the model keeps their ages   *)
(* in ticks, all of which grow when time passes.  An age stays at Window   *)
(* once it got there: no test of the code tells older stamps apart.        *)
(***************************************************************************)
EXTENDS Integers, Sequences, FiniteSets

CONSTANTS
    Ips,             \* client addresses
    NoIp,            \* the address of a task that serves nobody
    Tasks,           \* logins served at the same time
    MaxAttempts,     \* _RATE_LIMIT_MAX_ATTEMPTS
    WindowSeconds,   \* _RATE_LIMIT_WINDOW_SECONDS
    TicksPerSecond   \* resolution of the clock

ASSUME NoIpIsNoAddress == NoIp \notin Ips
ASSUME TasksFinite == IsFiniteSet(Tasks)
ASSUME LimitsPositive ==
    MaxAttempts \in Nat \ {0} /\ WindowSeconds \in Nat \ {0} /\ TicksPerSecond \in Nat \ {0}

Window == WindowSeconds * TicksPerSecond
Ages == 0 .. Window

VARIABLES
    attempts,   \* per address, the ages of its recorded failures, oldest first
    pc,         \* where each login is; "idle" when the task serves none
    client,     \* the address the task serves
    promise     \* history, per address: the last Retry-After it was given

vars == <<attempts, pc, client, promise>>

\* `left` ticks remain of the time that was answered, from a list of `counted`
\* failures; `untouched` while no login of the address has failed since.
Promise == [left : 0 .. Window + TicksPerSecond, counted : Nat, untouched : BOOLEAN]

TypeOK ==
    /\ attempts \in [Ips -> Seq(Ages)]
    /\ pc \in [Tasks -> {"idle", "refusing", "lookup", "verify"}]
    /\ client \in [Tasks -> Ips \cup {NoIp}]
    /\ \A t \in Tasks : client[t] = NoIp <=> pc[t] = "idle"
    /\ promise \in [Ips -> Promise]

Init ==
    /\ attempts = [ip \in Ips |-> <<>>]
    /\ pc = [t \in Tasks |-> "idle"]
    /\ client = [t \in Tasks |-> NoIp]
    /\ promise = [ip \in Ips |-> [left |-> 0, counted |-> 0, untouched |-> FALSE]]

-----------------------------------------------------------------------------
(* The limiter.                                                            *)

\* Stamps with t > cutoff stay.  The list is in order of time, so what goes
\* is a prefix of it.
Cleanup(ages) ==
    LET recent == {i \in 1 .. Len(ages) : ages[i] < Window}
    IN  SubSeq(ages, Len(ages) - Cardinality(recent) + 1, Len(ages))

\* Mutant: `>` instead of `>=` in is_rate_limited.
RateLimitedTooLate(ip) == Len(Cleanup(attempts[ip])) > MaxAttempts

RateLimited(ip) == Len(Cleanup(attempts[ip])) >= MaxAttempts

\* Mutant: no `+ 1` for the fraction int() cuts off.
RetryAfterCut(ages) ==
    IF ages = <<>> THEN WindowSeconds
    ELSE LET rest == (Window - ages[1]) \div TicksPerSecond
         IN  IF rest < 1 THEN 1 ELSE rest

\* Seconds; int() cuts off what is below a second.
RetryAfter(ages) ==
    IF ages = <<>> THEN WindowSeconds
    ELSE LET rest == (Window - ages[1]) \div TicksPerSecond + 1
         IN  IF rest < 1 THEN 1 ELSE rest

\* Mutant: the newest stamp is put in front.
RecordAttemptInFront(ip) ==
    /\ attempts' = [attempts EXCEPT ![ip] = <<0>> \o Cleanup(@)]
    /\ promise' = [promise EXCEPT ![ip].untouched = FALSE]

RecordAttempt(ip) ==
    /\ attempts' = [attempts EXCEPT ![ip] = Append(Cleanup(@), 0)]
    /\ promise' = [promise EXCEPT ![ip].untouched = FALSE]

-----------------------------------------------------------------------------
(* The handler.  One event loop: between is_rate_limited and retry_after   *)
(* no other login runs, but the clock is read twice.                       *)

LoopFree == \A t \in Tasks : pc[t] # "refusing"

Arrive(t, ip, to) ==
    /\ LoopFree
    /\ pc[t] = "idle"
    /\ attempts' = [attempts EXCEPT ![ip] = Cleanup(@)]
    /\ pc' = [pc EXCEPT ![t] = to]
    /\ client' = [client EXCEPT ![t] = ip]
    /\ UNCHANGED promise

Admit(t, ip) == ~RateLimited(ip) /\ Arrive(t, ip, "lookup")

Limit(t, ip) == RateLimited(ip) /\ Arrive(t, ip, "refusing")

\* The request ends, with an answer or an exception.
Leave(t) ==
    /\ pc' = [pc EXCEPT ![t] = "idle"]
    /\ client' = [client EXCEPT ![t] = NoIp]

\* Mutant: a refused login is recorded as an attempt.
RefuseAndRecord(t) ==
    /\ pc[t] = "refusing"
    /\ RecordAttempt(client[t])
    /\ Leave(t)

\* 429 with Retry-After.
Refuse(t) ==
    /\ pc[t] = "refusing"
    /\ LET recent == Cleanup(attempts[client[t]])
       IN  /\ attempts' = [attempts EXCEPT ![client[t]] = recent]
           /\ promise' = [promise EXCEPT ![client[t]] =
                  [left |-> RetryAfter(recent) * TicksPerSecond,
                   counted |-> Len(recent),
                   untouched |-> TRUE]]
    /\ Leave(t)

\* Mutant: a failure to find an active administrator is recorded, and the login
\* goes on to the password.
FindAdminAndGoOn(t) ==
    /\ LoopFree
    /\ pc[t] = "lookup"
    /\ pc' = [pc EXCEPT ![t] = "verify"]
    /\ UNCHANGED client
    /\ RecordAttempt(client[t]) \/ UNCHANGED <<attempts, promise>>

\* The row of an active administrator was found.
FindAdmin(t) ==
    /\ LoopFree
    /\ pc[t] = "lookup"
    /\ pc' = [pc EXCEPT ![t] = "verify"]
    /\ UNCHANGED <<attempts, client, promise>>

\* 401: no such administrator, an inactive one, or the wrong password.
Reject(t) ==
    /\ LoopFree
    /\ pc[t] \in {"lookup", "verify"}
    /\ RecordAttempt(client[t])
    /\ Leave(t)

\* A token.
Accept(t) ==
    /\ LoopFree
    /\ pc[t] = "verify"
    /\ Leave(t)
    /\ UNCHANGED <<attempts, promise>>

\* 500: the database failed.  Nothing is recorded.
LookupFails(t) ==
    /\ LoopFree
    /\ pc[t] = "lookup"
    /\ Leave(t)
    /\ UNCHANGED <<attempts, promise>>

Older(age) == IF age < Window THEN age + 1 ELSE age

Tick ==
    /\ attempts' = [ip \in Ips |->
           [i \in 1 .. Len(attempts[ip]) |-> Older(attempts[ip][i])]]
    /\ promise' = [ip \in Ips |->
           [promise[ip] EXCEPT !.left = IF @ > 0 THEN @ - 1 ELSE 0]]
    /\ UNCHANGED <<pc, client>>

Next ==
    \/ \E t \in Tasks, ip \in Ips : Admit(t, ip) \/ Limit(t, ip)
    \/ \E t \in Tasks :
           Refuse(t) \/ FindAdmin(t) \/ Reject(t) \/ Accept(t) \/ LookupFails(t)
    \/ Tick

Spec == Init /\ [][Next]_vars

\* Time passes.  Nothing is assumed of clients or of the awaited calls.
FairSpec == Spec /\ WF_vars(Tick)

-----------------------------------------------------------------------------
(* Properties.                                                             *)

\* Logins of an address that passed the check and recorded nothing yet.
Unrecorded(ip) == {t \in Tasks : client[t] = ip /\ pc[t] \in {"lookup", "verify"}}

\* The limit is MaxAttempts failures in a window for one login at a time; each
\* further login that is served concurrently can add one, and no more.
AttemptsBounded ==
    \A ip \in Ips : Len(attempts[ip]) <= MaxAttempts + Cardinality(Tasks) - 1

\* Why: the failures recorded and those that may still be.
InFlightBounded ==
    \A ip \in Ips :
        Len(attempts[ip]) + Cardinality(Unrecorded(ip))
            <= MaxAttempts + Cardinality(Tasks) - 1

\* What is left of a list when the clock is read.
Counted(ip) == Len(Cleanup(attempts[ip]))

\* Who waits as long as Retry-After said, while no login of the address failed,
\* has at least one failure less counted against him, or none: with MaxAttempts
\* counted then he is not limited any more.  With more, which AttemptsBounded
\* allows, one failure less may not be enough: the time is that of the oldest.
RetryAfterFreesOne ==
    \A ip \in Ips :
        promise[ip].untouched /\ promise[ip].left = 0 =>
            Counted(ip) = 0 \/ Counted(ip) < promise[ip].counted

\* Why: the oldest failure leaves the window within the promised time.
PromiseHolds ==
    \A ip \in Ips :
        promise[ip].untouched =>
            /\ Len(attempts[ip]) <= promise[ip].counted
            /\ Len(attempts[ip]) = promise[ip].counted /\ attempts[ip] # <<>> =>
                   attempts[ip][1] + promise[ip].left >= Window

\* Why the cleanup may cut off a prefix: stamps are recorded in order of time.
OldestFirst ==
    \A ip \in Ips : \A i, j \in 1 .. Len(attempts[ip]) :
        i < j => attempts[ip][i] >= attempts[ip][j]

LimiterInv == TypeOK /\ InFlightBounded /\ PromiseHolds /\ OldestFirst

\* The cleanup removes all and only the stamps that left the window, and keeps
\* the rest in order, as the list comprehension does.
CleanupIsFilter ==
    \A ip \in Ips :
        LET ages == attempts[ip]
            kept == Cleanup(ages)
            gone == Len(ages) - Len(kept)
        IN  /\ \A i \in 1 .. Len(ages) : ages[i] < Window <=> i > gone
            /\ \A i \in 1 .. Len(kept) : kept[i] = ages[gone + i]

\* Refused logins do not prolong the limit: every address that is limited gets
\* free again, however often it is tried in the meantime.
LimitEnds == \A ip \in Ips : RateLimited(ip) ~> ~RateLimited(ip)
=============================================================================
