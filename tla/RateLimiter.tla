---------------------------- MODULE RateLimiter ----------------------------
(***************************************************************************)
(* The limit the API sets each client (internal/api/ratelimit.go): a       *)
(* bucket of tokens for how often, and a count of slots for how much at    *)
(* once.  Each method is one critical section; the instant a request       *)
(* arrives at is read before the first of them, so that requests may reach *)
(* their bucket in another order than their instants.                      *)
(*                                                                         *)
(* Time is relative: of an instant the model keeps its age, and of tokens  *)
(* the ticks it takes to earn them, Gap for one request.                   *)
(***************************************************************************)
EXTENDS Integers, FiniteSets

CONSTANTS
    Requests,    \* requests that may be in the server
    Clients,
    Gap,         \* ticks that earn a token: 1 / requestsPerSecond
    Burst,       \* burstSize
    MaxInFlight, \* maxInFlightPerClient
    TTL,         \* clientTTL, in ticks
    MaxStale     \* bound: the oldest instant a request still carries

ASSUME LimiterAssumption ==
    /\ Gap \in Nat \ {0} /\ Burst \in Nat \ {0} /\ MaxInFlight \in Nat \ {0}
    /\ MaxStale \in Nat /\ TTL \in Nat /\ Burst * Gap + 2 * MaxStale <= TTL
    /\ IsFiniteSet(Requests) /\ Clients # {}

VARIABLES
    buckets, \* per client
    request, \* per request: its client, how far it has got, the age of its instant
    clock,   \* the tick, even or odd
    asked    \* per client: the requests allowed, even or odd

vars == <<buckets, request, clock, asked>>

Least(a, b) == IF a < b THEN a ELSE b

Full == Burst * Gap

\* No bucket, or one with what it holds, how long ago it was filled to that,
\* and the slots counted in it.
NoBucket == [held |-> FALSE, tokens |-> 0, age |-> 0, inFlight |-> 0]

Bucket(tokens, age) == [held |-> TRUE, tokens |-> tokens, age |-> age, inFlight |-> 0]

Gone == [pc |-> "gone", client |-> CHOOSE c \in Clients : TRUE, age |-> 0]

Put(r, pc) == request' = [request EXCEPT ![r] = [@ EXCEPT !.pc = pc]]
Leave(r) == request' = [request EXCEPT ![r] = Gone]

\* A request comes in; allow reads the clock and goes for the lock.
Arrive(r, c) ==
    /\ request[r].pc = "gone"
    /\ request' = [request EXCEPT ![r] = [pc |-> "arrived", client |-> c, age |-> 0]]
    /\ UNCHANGED <<buckets, clock, asked>>

\* Mutant: a refill is added whatever the bucket can hold.
Overfilled(bucket, age) == bucket.tokens + bucket.age - age

\* The bucket's tokens at an instant of the given age.
Refilled(bucket, age) == Least(Full, bucket.tokens + bucket.age - age)

\* Mutant: a bucket is idle though requests are counted in it.
IdleForLong(bucket, age) == bucket.held /\ bucket.age - age > TTL

\* sweep's condition, at an instant of the given age.
Idle(bucket, age) ==
    bucket.held /\ bucket.inFlight = 0 /\ bucket.age - age > TTL

Swept(age) == [c \in Clients |-> IF Idle(buckets[c], age) THEN NoBucket ELSE buckets[c]]

\* allow, for a client that has no bucket: the table is swept and it gets one.
AllowNew(r) ==
    LET c == request[r].client IN
    /\ request[r].pc = "arrived" /\ ~buckets[c].held
    /\ buckets' = [Swept(request[r].age) EXCEPT ![c] = Bucket(Full - Gap, request[r].age)]
    /\ Put(r, "allowed")
    /\ asked' = [asked EXCEPT ![c] = 1 - @]
    /\ UNCHANGED clock

\* allow, for one that has: it is filled up and, if there is one, a token taken.
Allow(r) ==
    LET c == request[r].client
        tokens == Refilled(buckets[c], request[r].age)
    IN
    /\ request[r].pc = "arrived" /\ buckets[c].held
    /\ IF tokens >= Gap
       THEN /\ buckets' = [buckets EXCEPT ![c] = [@ EXCEPT !.tokens = tokens - Gap, !.age = request[r].age]]
            /\ asked' = [asked EXCEPT ![c] = 1 - @]
            /\ Put(r, "allowed")
       ELSE /\ buckets' = [buckets EXCEPT ![c] = [@ EXCEPT !.tokens = tokens, !.age = request[r].age]]
            /\ Leave(r)
            /\ UNCHANGED asked
    /\ UNCHANGED clock

\* acquire: the bucket may have been swept since, and is made anew.
Acquire(r) ==
    LET c == request[r].client
        bucket == IF buckets[c].held THEN buckets[c] ELSE Bucket(Full, 0)
    IN
    /\ request[r].pc = "allowed"
    /\ IF bucket.inFlight < MaxInFlight
       THEN /\ buckets' = [buckets EXCEPT ![c] = [bucket EXCEPT !.inFlight = @ + 1]]
            /\ Put(r, "serving")
       ELSE /\ buckets' = [buckets EXCEPT ![c] = bucket]
            /\ Leave(r)
    /\ UNCHANGED <<clock, asked>>

\* release, deferred: it runs however the handler ends.
Release(r) ==
    LET c == request[r].client IN
    /\ request[r].pc = "serving"
    /\ buckets' = IF buckets[c].held /\ buckets[c].inFlight > 0
                  THEN [buckets EXCEPT ![c].inFlight = @ - 1]
                  ELSE buckets
    /\ Leave(r)
    /\ UNCHANGED <<clock, asked>>

\* Beyond this age a bucket is idle, and full, at any instant a request carries.
OldAge == TTL + MaxStale + 1

Tick ==
    /\ \A r \in Requests : request[r].pc = "arrived" => request[r].age < MaxStale
    /\ clock' = 1 - clock
    /\ request' = [r \in Requests |->
          IF request[r].pc = "arrived" THEN [request[r] EXCEPT !.age = @ + 1] ELSE request[r]]
    /\ buckets' = [c \in Clients |->
          IF buckets[c].held THEN [buckets[c] EXCEPT !.age = Least(@ + 1, OldAge)] ELSE NoBucket]
    /\ UNCHANGED asked

Init ==
    /\ buckets = [c \in Clients |-> NoBucket]
    /\ request = [r \in Requests |-> Gone]
    /\ clock = 0 /\ asked = [c \in Clients |-> 0]

Step(r) ==
    \/ \E c \in Clients : Arrive(r, c)
    \/ AllowNew(r) \/ Allow(r) \/ Acquire(r) \/ Release(r)

Next == Tick \/ \E r \in Requests : Step(r)

Spec == Init /\ [][Next]_vars

(***************************************************************************)
(* Properties.                                                             *)
(***************************************************************************)

BucketStates == [held : BOOLEAN, tokens : Int, age : 0 .. OldAge, inFlight : 0 .. MaxInFlight]

RequestStates ==
    [pc : {"gone", "arrived", "allowed", "serving"}, client : Clients, age : 0 .. MaxStale]

TypeOK ==
    /\ buckets \in [Clients -> BucketStates]
    /\ request \in [Requests -> RequestStates]
    /\ clock \in {0, 1} /\ asked \in [Clients -> {0, 1}]

\* What a client has coming, at the instant that is now.
Credit(c) ==
    IF buckets[c].held THEN Least(Full + MaxStale, buckets[c].tokens + buckets[c].age)
                       ELSE Full + MaxStale

\* Whatever order requests reach the bucket in, however old their instants, and
\* whether or not the bucket was swept and made anew meanwhile, a client is
\* allowed a burst and the sustained rate, and what the oldest instant is late.
Promise == INSTANCE RatePromise WITH
    Keys <- Clients, Capacity <- Full + MaxStale,
    credit <- [c \in Clients |-> Credit(c)]

KeepsItsRate == Promise!Spec

Serving(c) == {r \in Requests : request[r].pc = "serving" /\ request[r].client = c}

\* Every request that runs is counted in its client's bucket, and nothing else
\* is: a bucket swept while one runs would let the client start as many again,
\* and a slot released in a bucket that never held it would let one more in
\* ("what stops a single caller monopolising the connection pool").
SlotsAreCounted ==
    \A c \in Clients :
       Cardinality(Serving(c)) = (IF buckets[c].held THEN buckets[c].inFlight ELSE 0)

\* A bucket is in debt only for time that has passed already: an instant read
\* before the lock was taken can set it back by no more than its own age.
DebtIsCovered ==
    \A c \in Clients : buckets[c].held =>
       /\ buckets[c].tokens \in -MaxStale .. Full
       /\ buckets[c].tokens + buckets[c].age >= 0

\* What holds of the buckets at every moment.
LimiterInv == TypeOK /\ SlotsAreCounted /\ DebtIsCovered
=============================================================================
