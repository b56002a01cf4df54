------------------------- MODULE RateLimiterProofs -------------------------
(***************************************************************************)
(* For any number of clients and requests, in whatever order they reach    *)
(* their buckets, slots are counted exactly and each client keeps to its   *)
(* rate, swept buckets and stale instants included.                        *)
(***************************************************************************)
EXTENDS RateLimiter, FiniteSetTheorems, TLAPS

(***************************************************************************)
(* Constants and helpers.                                                  *)
(***************************************************************************)

LEMMA Constants ==
    /\ Gap \in Nat \ {0} /\ MaxInFlight \in Nat \ {0} /\ MaxStale \in Nat /\ TTL \in Nat
    /\ Full \in Nat /\ Gap <= Full /\ Full + 2 * MaxStale <= TTL
    /\ OldAge = TTL + MaxStale + 1
<1>1. Burst \in Nat /\ Burst >= 1 /\ Gap \in Nat
  BY LimiterAssumption
<1>2. Burst * Gap \in Nat /\ Gap <= Burst * Gap
  BY <1>1
<1> QED
  BY <1>2, LimiterAssumption DEF Full, OldAge

\* What is known of a request and of the bucket of its client.
LEMMA RequestParts ==
    ASSUME TypeOK, NEW r \in Requests
    PROVE  /\ request[r] \in RequestStates
           /\ request[r].client \in Clients /\ request[r].age \in 0 .. MaxStale
           /\ request[r].pc \in {"gone", "arrived", "allowed", "serving"}
  BY DEF TypeOK, RequestStates

LEMMA BucketParts ==
    ASSUME TypeOK, NEW c \in Clients
    PROVE  /\ buckets[c] \in BucketStates
           /\ buckets[c].held \in BOOLEAN /\ buckets[c].tokens \in Int
           /\ buckets[c].age \in 0 .. OldAge /\ buckets[c].inFlight \in 0 .. MaxInFlight
  BY DEF TypeOK, BucketStates

LEMMA GoneIsRequest == Gone \in RequestStates /\ Gone.pc = "gone"
<1>1. (CHOOSE c \in Clients : TRUE) \in Clients
  BY LimiterAssumption, Zenon
<1> QED
  BY <1>1, Constants DEF Gone, RequestStates

LEMMA FreshBuckets ==
    /\ NoBucket \in BucketStates /\ ~NoBucket.held
    /\ \A tokens \in Int, age \in 0 .. OldAge :
          LET b == Bucket(tokens, age) IN
          b \in BucketStates /\ b.held /\ b.tokens = tokens /\ b.age = age /\ b.inFlight = 0
  BY Constants DEF NoBucket, Bucket, BucketStates

(***************************************************************************)
(* Slots.                                                                  *)
(***************************************************************************)

\* The requests that run are finitely many.
LEMMA ServingIsFinite ==
    ASSUME NEW c
    PROVE  IsFiniteSet(Serving(c)) /\ Cardinality(Serving(c)) \in Nat
<1>1. Serving(c) \in SUBSET Requests
  BY DEF Serving
<1> QED
  BY <1>1, LimiterAssumption, FS_Subset, FS_CardinalityType

\* A request that changes its place changes what runs for its client only.
LEMMA ServingAfterPut ==
    ASSUME TypeOK, NEW r \in Requests, NEW q \in RequestStates,
           request' = [request EXCEPT ![r] = q],
           q.pc = "serving" => q.client = request[r].client,
           NEW c \in Clients
    PROVE  /\ c # request[r].client => Serving(c)' = Serving(c)
           /\ c = request[r].client /\ q.pc = "serving" => Serving(c)' = Serving(c) \cup {r}
           /\ c = request[r].client /\ q.pc # "serving" => Serving(c)' = Serving(c) \ {r}
<1>1. request'[r] = q /\ \A s \in Requests \ {r} : request'[s] = request[s]
  BY DEF TypeOK
<1>2. Serving(c)' = {s \in Requests : request'[s].pc = "serving" /\ request'[s].client = c}
  BY DEF Serving
<1> QED
  BY <1>1, <1>2 DEF Serving

\* A request starts to run, and ends.
LEMMA OneMoreServing ==
    ASSUME TypeOK, NEW r \in Requests, NEW q \in RequestStates, NEW c \in Clients,
           request' = [request EXCEPT ![r] = q], c = request[r].client,
           request[r].pc # "serving", q.pc = "serving", q.client = c
    PROVE  Cardinality(Serving(c)') = Cardinality(Serving(c)) + 1
<1>1. Serving(c)' = Serving(c) \cup {r}
  <2>1. request'[r] = q /\ \A s \in Requests \ {r} : request'[s] = request[s]
    BY DEF TypeOK
  <2>2. Serving(c)' = {s \in Requests : request'[s].pc = "serving" /\ request'[s].client = c}
    BY DEF Serving
  <2> QED
    BY <2>1, <2>2 DEF Serving
<1>2. r \notin Serving(c)
  BY DEF Serving
<1> QED
  BY <1>1, <1>2, ServingIsFinite, FS_AddElement

LEMMA OneLessServing ==
    ASSUME TypeOK, NEW r \in Requests, NEW q \in RequestStates, NEW c \in Clients,
           request' = [request EXCEPT ![r] = q], c = request[r].client,
           request[r].pc = "serving", q.pc # "serving"
    PROVE  /\ Cardinality(Serving(c)') = Cardinality(Serving(c)) - 1
           /\ Cardinality(Serving(c)) > 0
<1>1. Serving(c)' = Serving(c) \ {r}
  <2>1. request'[r] = q /\ \A s \in Requests \ {r} : request'[s] = request[s]
    BY DEF TypeOK
  <2>2. Serving(c)' = {s \in Requests : request'[s].pc = "serving" /\ request'[s].client = c}
    BY DEF Serving
  <2> QED
    BY <2>1, <2>2 DEF Serving
<1>2. r \in Serving(c)
  BY DEF Serving
<1>3. Cardinality(Serving(c)) # 0
  BY <1>2, ServingIsFinite, FS_EmptySet
<1>4. Cardinality(Serving(c)') = Cardinality(Serving(c)) - 1
  <2>1. IsFiniteSet(Serving(c)) /\ r \in Serving(c)
    BY <1>2, ServingIsFinite
  <2>2. Cardinality(Serving(c) \ {r}) = Cardinality(Serving(c)) - 1
    BY <2>1, FS_RemoveElement
  <2> QED
    BY <1>1, <2>2
<1>5. Cardinality(Serving(c)) \in Nat
  BY ServingIsFinite
<1> QED
  BY <1>3, <1>4, <1>5

\* The slots a client's bucket counts.
Counted(c) == IF buckets[c].held THEN buckets[c].inFlight ELSE 0

\* Requests that come, are answered or refused without running leave what runs.
LEMMA CountKeeps ==
    ASSUME TypeOK, SlotsAreCounted, NEW r \in Requests, NEW q \in RequestStates,
           request' = [request EXCEPT ![r] = q],
           request[r].pc # "serving", q.pc # "serving",
           \A c \in Clients : Counted(c)' = Counted(c)
    PROVE  SlotsAreCounted'
<1>1. ASSUME NEW c \in Clients
      PROVE  Cardinality(Serving(c)') = Counted(c)'
  <2>1. r \notin Serving(c)
    BY DEF Serving
  <2>2. Serving(c)' = Serving(c)
    BY <2>1, ServingAfterPut DEF Serving
  <2> QED
    BY <2>2 DEF SlotsAreCounted, Counted
<1> QED
  BY <1>1 DEF SlotsAreCounted, Counted

(***************************************************************************)
(* The invariant, action by action.                                        *)
(***************************************************************************)

Covered(b) == b.held => b.tokens \in -MaxStale .. Full /\ b.tokens + b.age >= 0

\* Replacing one bucket by a sound one.
LEMMA BucketKeeps ==
    ASSUME TypeOK, DebtIsCovered, NEW c \in Clients, NEW b \in BucketStates, Covered(b),
           buckets' = [buckets EXCEPT ![c] = b]
    PROVE  /\ buckets' \in [Clients -> BucketStates] /\ DebtIsCovered'
           /\ buckets'[c] = b /\ \A d \in Clients \ {c} : buckets'[d] = buckets[d]
  BY DEF TypeOK, DebtIsCovered, Covered

LEMMA ArriveKeeps ==
    ASSUME LimiterInv, NEW r \in Requests, NEW c \in Clients, Arrive(r, c)
    PROVE  LimiterInv'
<1> USE DEF LimiterInv
<1> DEFINE q == [pc |-> "arrived", client |-> c, age |-> 0]
<1>1. q \in RequestStates /\ q.pc = "arrived"
  BY Constants DEF RequestStates
<1>2. request' = [request EXCEPT ![r] = q] /\ request[r].pc = "gone"
      /\ UNCHANGED <<buckets, clock, asked>>
  BY DEF Arrive
<1> HIDE DEF q
<1>3. SlotsAreCounted'
  BY <1>1, <1>2, CountKeeps DEF Counted
<1> QED
  BY <1>1, <1>2, <1>3 DEF TypeOK, DebtIsCovered

\* What a refill comes to, at an instant that may be older than the last.
LEMMA RefillRange ==
    ASSUME NEW b \in BucketStates, b.held, Covered(b), NEW age \in 0 .. MaxStale
    PROVE  /\ Refilled(b, age) \in -MaxStale .. Full
           /\ Refilled(b, age) + age <= b.tokens + b.age
           /\ Refilled(b, age) = Full \/ Refilled(b, age) + age = b.tokens + b.age
<1>1. b.tokens \in Int /\ b.age \in Nat /\ b.tokens + b.age >= 0
  BY DEF Covered, BucketStates
<1>2. age \in Int /\ 0 <= age /\ age <= MaxStale
  BY Constants
<1> DEFINE sum == b.tokens + b.age
<1>3. sum \in Int /\ sum >= 0
  BY <1>1
<1>4. Refilled(b, age) = IF Full < sum - age THEN Full ELSE sum - age
  BY <1>1, <1>2, Constants DEF Refilled, Least
<1> HIDE DEF sum
<1>5. /\ Refilled(b, age) \in -MaxStale .. Full
      /\ Refilled(b, age) + age <= sum
      /\ Refilled(b, age) = Full \/ Refilled(b, age) + age = sum
  BY <1>2, <1>3, <1>4, Constants
<1> QED
  BY <1>5 DEF sum

LEMMA AllowKeeps ==
    ASSUME LimiterInv, NEW r \in Requests, Allow(r)
    PROVE  LimiterInv'
<1> USE DEF LimiterInv
<1> DEFINE c == request[r].client
           age == request[r].age
           tokens == Refilled(buckets[c], age)
           taken == [buckets[c] EXCEPT !.tokens = tokens - Gap, !.age = age]
           kept == [buckets[c] EXCEPT !.tokens = tokens, !.age = age]
           q == [request[r] EXCEPT !.pc = "allowed"]
<1>1. c \in Clients /\ age \in 0 .. MaxStale /\ request[r] \in RequestStates
      /\ request[r].pc = "arrived" /\ buckets[c].held
      /\ buckets[c] \in BucketStates /\ Covered(buckets[c])
  BY RequestParts, BucketParts DEF Allow, DebtIsCovered, Covered
<1>2. /\ tokens \in -MaxStale .. Full
      /\ tokens = Full \/ tokens + age = buckets[c].tokens + buckets[c].age
      /\ buckets[c].tokens + buckets[c].age >= 0
  BY <1>1, RefillRange DEF Covered
<1>3. /\ taken \in BucketStates /\ taken.held /\ taken.inFlight = buckets[c].inFlight
      /\ taken.tokens = tokens - Gap /\ taken.age = age
      /\ kept \in BucketStates /\ kept.held /\ kept.inFlight = buckets[c].inFlight
      /\ kept.tokens = tokens /\ kept.age = age
  <2> HIDE DEF tokens, age, c
  <2>1. tokens \in Int /\ tokens - Gap \in Int /\ age \in 0 .. OldAge
    BY <1>1, <1>2, Constants
  <2> QED
    BY <1>1, <2>1 DEF BucketStates
<1>4. q \in RequestStates /\ q.pc = "allowed"
  BY <1>1 DEF RequestStates
<1>5. UNCHANGED clock
  BY DEF Allow
<1>6. CASE tokens >= Gap
  <2>1. buckets' = [buckets EXCEPT ![c] = taken] /\ request' = [request EXCEPT ![r] = q]
        /\ asked' = [asked EXCEPT ![c] = 1 - @]
    BY <1>6 DEF Allow, Put
  <2>2. Covered(taken)
    BY <1>1, <1>2, <1>3, <1>6, Constants DEF Covered
  <2> HIDE DEF taken, kept, q, tokens, c, age
  <2>3. /\ buckets' \in [Clients -> BucketStates] /\ DebtIsCovered'
        /\ \A d \in Clients : Counted(d)' = Counted(d)
    BY <1>1, <1>3, <2>1, <2>2, BucketKeeps DEF Counted
  <2>4. SlotsAreCounted'
    BY <1>1, <1>4, <2>1, <2>3, CountKeeps
  <2> QED
    BY <1>1, <1>4, <1>5, <2>1, <2>3, <2>4 DEF TypeOK
<1>7. CASE ~(tokens >= Gap)
  <2>1. buckets' = [buckets EXCEPT ![c] = kept] /\ request' = [request EXCEPT ![r] = Gone]
        /\ UNCHANGED asked
    BY <1>7 DEF Allow, Leave
  <2>2. Covered(kept)
    BY <1>1, <1>2, <1>3, <1>7, Constants DEF Covered
  <2> HIDE DEF taken, kept, q, tokens, c, age
  <2>3. /\ buckets' \in [Clients -> BucketStates] /\ DebtIsCovered'
        /\ \A d \in Clients : Counted(d)' = Counted(d)
    BY <1>1, <1>3, <2>1, <2>2, BucketKeeps DEF Counted
  <2>4. SlotsAreCounted'
    BY <1>1, <2>1, <2>3, GoneIsRequest, CountKeeps
  <2> QED
    BY <1>5, <2>1, <2>3, <2>4, GoneIsRequest DEF TypeOK
<1> QED
  BY <1>6, <1>7

\* A sweep forgets no bucket that counts a request.
LEMMA SweptKeeps ==
    ASSUME TypeOK, DebtIsCovered, NEW age \in 0 .. MaxStale, NEW c \in Clients
    PROVE  /\ Swept(age)[c] \in BucketStates /\ Covered(Swept(age)[c])
           /\ (IF Swept(age)[c].held THEN Swept(age)[c].inFlight ELSE 0) = Counted(c)
<1>1. buckets[c] \in BucketStates /\ Covered(buckets[c])
  BY DEF TypeOK, DebtIsCovered, Covered
<1>2. CASE Idle(buckets[c], age)
  <2>1. Swept(age)[c] = NoBucket /\ buckets[c].inFlight = 0
    BY <1>2 DEF Swept, Idle
  <2> QED
    BY <2>1, FreshBuckets DEF Covered, Counted
<1>3. CASE ~Idle(buckets[c], age)
  <2>1. Swept(age)[c] = buckets[c]
    BY <1>3 DEF Swept
  <2> QED
    BY <1>1, <2>1 DEF Counted
<1> QED
  BY <1>2, <1>3

LEMMA AllowNewKeeps ==
    ASSUME LimiterInv, NEW r \in Requests, AllowNew(r)
    PROVE  LimiterInv'
<1> USE DEF LimiterInv
<1> DEFINE c == request[r].client
           age == request[r].age
           new == Bucket(Full - Gap, age)
           q == [request[r] EXCEPT !.pc = "allowed"]
<1>1. c \in Clients /\ age \in 0 .. MaxStale /\ request[r] \in RequestStates
      /\ request[r].pc = "arrived" /\ ~buckets[c].held
  BY RequestParts DEF AllowNew
<1>2. q \in RequestStates /\ q.pc = "allowed"
  BY <1>1 DEF RequestStates
<1>3. /\ buckets' = [Swept(age) EXCEPT ![c] = new] /\ request' = [request EXCEPT ![r] = q]
      /\ asked' = [asked EXCEPT ![c] = 1 - @] /\ UNCHANGED clock
  BY DEF AllowNew, Put
<1>4. new \in BucketStates /\ new.held /\ new.inFlight = 0 /\ new.tokens = Full - Gap /\ new.age = age
  <2>1. Full - Gap \in Int /\ age \in 0 .. OldAge
    BY <1>1, Constants
  <2> HIDE DEF age
  <2> QED
    BY <2>1, FreshBuckets
<1>5. Covered(new)
  <2> HIDE DEF age, new
  <2> QED
    BY <1>1, <1>4, Constants DEF Covered
<1> HIDE DEF c, age, new, q
<1>6. /\ buckets'[c] = new /\ \A d \in Clients \ {c} : buckets'[d] = Swept(age)[d]
      /\ buckets' = [d \in Clients |-> buckets'[d]]
  BY <1>1, <1>3 DEF Swept
<1>7. ASSUME NEW d \in Clients
      PROVE  /\ buckets'[d] \in BucketStates /\ Covered(buckets'[d]) /\ Counted(d)' = Counted(d)
  <2>1. CASE d = c
    BY <1>1, <1>4, <1>5, <1>6, <2>1 DEF Counted
  <2>2. CASE d # c
    BY <1>1, <1>6, <2>2, SweptKeeps DEF Counted
  <2> QED
    BY <2>1, <2>2
<1>8. buckets' \in [Clients -> BucketStates] /\ DebtIsCovered'
  BY <1>6, <1>7 DEF DebtIsCovered, Covered
<1>9. SlotsAreCounted'
  <2>1. \A d \in Clients : Counted(d)' = Counted(d)
    BY <1>7
  <2> QED
    BY <1>1, <1>2, <1>3, <2>1, CountKeeps
<1> QED
  BY <1>1, <1>2, <1>3, <1>8, <1>9 DEF TypeOK

LEMMA AcquireKeeps ==
    ASSUME LimiterInv, NEW r \in Requests, Acquire(r)
    PROVE  LimiterInv'
<1> USE DEF LimiterInv
<1>0. PICK c \in Clients : c = request[r].client
  BY RequestParts
<1> DEFINE bucket == IF buckets[c].held THEN buckets[c] ELSE Bucket(Full, 0)
           fuller == [bucket EXCEPT !.inFlight = @ + 1]
           q == [request[r] EXCEPT !.pc = "serving"]
<1>1. c \in Clients /\ request[r] \in RequestStates /\ request[r].pc = "allowed"
      /\ buckets[c] \in BucketStates
  BY RequestParts, BucketParts DEF Acquire
<1>2. bucket \in BucketStates /\ bucket.held /\ Covered(bucket) /\ bucket.inFlight = Counted(c)
  <2>1. CASE buckets[c].held
    BY <1>1, <2>1 DEF DebtIsCovered, Covered, Counted
  <2>2. CASE ~buckets[c].held
    <3>1. 0 \in 0 .. OldAge /\ Full \in Int
      BY Constants
    <3>2. bucket = Bucket(Full, 0)
      BY <2>2
    <3> QED
      BY <2>2, <3>1, <3>2, FreshBuckets, Constants DEF Covered, Counted
  <2> QED
    BY <2>1, <2>2
<1>3. q \in RequestStates /\ q.pc = "serving" /\ q.client = c
  BY <1>0, <1>1 DEF RequestStates
<1>4. UNCHANGED <<clock, asked>>
  BY DEF Acquire
<1>5. CASE bucket.inFlight < MaxInFlight
  <2>1. buckets' = [buckets EXCEPT ![c] = fuller] /\ request' = [request EXCEPT ![r] = q]
    BY <1>0, <1>5 DEF Acquire, Put
  <2> HIDE DEF bucket
  <2>2. fuller \in BucketStates /\ Covered(fuller) /\ fuller.held
        /\ fuller.inFlight = bucket.inFlight + 1
    BY <1>2, <1>5, Constants DEF BucketStates, Covered
  <2> HIDE DEF fuller
  <2>3. /\ buckets' \in [Clients -> BucketStates] /\ DebtIsCovered'
        /\ buckets'[c] = fuller /\ \A d \in Clients \ {c} : buckets'[d] = buckets[d]
    BY <1>1, <2>1, <2>2, BucketKeeps
  <2>4. SlotsAreCounted'
    <3> HIDE DEF q
    <3>1. ASSUME NEW d \in Clients, d # c
          PROVE  Cardinality(Serving(d)') = Counted(d)'
      BY <1>0, <1>1, <1>3, <2>1, <2>3, <3>1, ServingAfterPut DEF SlotsAreCounted, Counted, Serving
    <3>3. Cardinality(Serving(c)') = Cardinality(Serving(c)) + 1
      BY <1>0, <1>1, <1>3, <2>1, OneMoreServing
    <3>4. Cardinality(Serving(c)') = Counted(c)'
      BY <1>1, <1>2, <2>2, <2>3, <3>3 DEF SlotsAreCounted, Counted
    <3> QED
      BY <3>1, <3>4 DEF SlotsAreCounted, Counted
  <2> QED
    BY <1>3, <1>4, <2>1, <2>3, <2>4 DEF TypeOK
<1>6. CASE ~(bucket.inFlight < MaxInFlight)
  <2>1. buckets' = [buckets EXCEPT ![c] = bucket] /\ request' = [request EXCEPT ![r] = Gone]
    BY <1>0, <1>6 DEF Acquire, Leave
  <2> HIDE DEF bucket
  <2>2. /\ buckets' \in [Clients -> BucketStates] /\ DebtIsCovered'
        /\ \A d \in Clients : Counted(d)' = Counted(d)
    BY <1>1, <1>2, <2>1, BucketKeeps DEF Counted
  <2>3. SlotsAreCounted'
    BY <1>1, <2>1, <2>2, GoneIsRequest, CountKeeps
  <2> QED
    BY <1>4, <2>1, <2>2, <2>3, GoneIsRequest DEF TypeOK
<1> QED
  BY <1>5, <1>6

LEMMA ReleaseKeeps ==
    ASSUME LimiterInv, NEW r \in Requests, Release(r)
    PROVE  LimiterInv'
<1> USE DEF LimiterInv
<1>0. PICK c \in Clients : c = request[r].client
  BY RequestParts
<1> DEFINE fewer == [buckets[c] EXCEPT !.inFlight = @ - 1]
<1>1. /\ request[r].pc = "serving" /\ request' = [request EXCEPT ![r] = Gone]
      /\ UNCHANGED <<clock, asked>>
      /\ buckets[c] \in BucketStates /\ Covered(buckets[c])
  BY BucketParts DEF Release, Leave, DebtIsCovered, Covered
<1>2. /\ Cardinality(Serving(c)') = Cardinality(Serving(c)) - 1
      /\ Cardinality(Serving(c)) > 0
  BY <1>0, <1>1, GoneIsRequest, OneLessServing
<1>3. buckets[c].held /\ buckets[c].inFlight > 0 /\ Cardinality(Serving(c)) = buckets[c].inFlight
  BY <1>2 DEF SlotsAreCounted
<1>4. buckets' = [buckets EXCEPT ![c] = fewer]
  BY <1>0, <1>3 DEF Release
<1>5. fewer \in BucketStates /\ Covered(fewer) /\ fewer.held
      /\ fewer.inFlight = buckets[c].inFlight - 1
  <2>1. buckets[c].inFlight - 1 \in 0 .. MaxInFlight
    BY <1>1, <1>3, Constants DEF BucketStates
  <2> QED
    BY <1>1, <1>3, <2>1 DEF BucketStates, Covered
<1> HIDE DEF fewer
<1>6. /\ buckets' \in [Clients -> BucketStates] /\ DebtIsCovered'
      /\ buckets'[c] = fewer /\ \A d \in Clients \ {c} : buckets'[d] = buckets[d]
  BY <1>4, <1>5, BucketKeeps
<1>7. ASSUME NEW d \in Clients, d # c
      PROVE  Cardinality(Serving(d)') = Counted(d)'
  BY <1>0, <1>1, <1>6, <1>7, GoneIsRequest, ServingAfterPut DEF SlotsAreCounted, Counted, Serving
<1>8. Cardinality(Serving(c)') = Counted(c)'
  BY <1>2, <1>3, <1>5, <1>6 DEF Counted
<1>9. SlotsAreCounted'
  BY <1>7, <1>8 DEF SlotsAreCounted, Counted
<1> QED
  BY <1>1, <1>6, <1>9, GoneIsRequest DEF TypeOK

\* A tick makes every bucket, and every instant read already, a tick older.
LEMMA TickSteps ==
    ASSUME LimiterInv, Tick
    PROVE  /\ \A c \in Clients :
                 /\ buckets'[c] \in BucketStates /\ Covered(buckets'[c])
                 /\ buckets'[c].held = buckets[c].held
                 /\ buckets[c].held => /\ buckets'[c].tokens = buckets[c].tokens
                                       /\ buckets'[c].inFlight = buckets[c].inFlight
                                       /\ buckets'[c].age = Least(buckets[c].age + 1, OldAge)
           /\ \A r \in Requests :
                 /\ request'[r] \in RequestStates
                 /\ request'[r].pc = request[r].pc /\ request'[r].client = request[r].client
<1> USE DEF LimiterInv
<1>1. ASSUME NEW c \in Clients
      PROVE  /\ buckets'[c] \in BucketStates /\ Covered(buckets'[c])
             /\ buckets'[c].held = buckets[c].held
             /\ buckets[c].held => /\ buckets'[c].tokens = buckets[c].tokens
                                   /\ buckets'[c].inFlight = buckets[c].inFlight
                                   /\ buckets'[c].age = Least(buckets[c].age + 1, OldAge)
  <2>1. buckets[c] \in BucketStates /\ Covered(buckets[c])
    BY BucketParts DEF DebtIsCovered, Covered
  <2>2. CASE buckets[c].held
    <3> DEFINE older == Least(buckets[c].age + 1, OldAge)
    <3>1. older \in 0 .. OldAge /\ older >= buckets[c].age
      BY <2>1, Constants DEF Least, BucketStates
    <3>2. buckets'[c] = [buckets[c] EXCEPT !.age = older]
      BY <2>2 DEF Tick
    <3> HIDE DEF older
    <3>3. buckets'[c] \in BucketStates /\ Covered(buckets'[c]) /\ buckets'[c].age = older
      BY <2>1, <3>1, <3>2, Constants DEF BucketStates, Covered
    <3> QED
      BY <2>1, <2>2, <3>2, <3>3 DEF BucketStates, older
  <2>3. CASE ~buckets[c].held
    <3>1. buckets'[c] = NoBucket
      BY <2>3 DEF Tick
    <3> QED
      BY <2>1, <2>3, <3>1, FreshBuckets DEF Covered, BucketStates, NoBucket
  <2> QED
    BY <2>2, <2>3
<1>2. ASSUME NEW r \in Requests
      PROVE  /\ request'[r] \in RequestStates
             /\ request'[r].pc = request[r].pc /\ request'[r].client = request[r].client
  <2>1. request[r] \in RequestStates
    BY RequestParts
  <2>2. CASE request[r].pc = "arrived"
    <3>1. request'[r] = [request[r] EXCEPT !.age = @ + 1] /\ request[r].age < MaxStale
      BY <2>2 DEF Tick
    <3> QED
      BY <2>1, <3>1, Constants DEF RequestStates
  <2>3. CASE request[r].pc # "arrived"
    BY <2>1, <2>3 DEF Tick
  <2> QED
    BY <2>2, <2>3
<1> QED
  BY <1>1, <1>2

LEMMA TickKeeps ==
    ASSUME LimiterInv, Tick
    PROVE  LimiterInv'
<1>1. buckets' \in [Clients -> BucketStates] /\ request' \in [Requests -> RequestStates]
  <2>1. buckets' = [c \in Clients |-> buckets'[c]] /\ request' = [r \in Requests |-> request'[r]]
    BY DEF Tick
  <2> QED
    BY <2>1, TickSteps
<1>2. TypeOK'
  BY <1>1 DEF Tick, LimiterInv, TypeOK
<1>3. DebtIsCovered'
  BY TickSteps DEF DebtIsCovered, Covered
<1>4. ASSUME NEW c \in Clients
      PROVE  Cardinality(Serving(c)') = Counted(c)'
  <2>1. Serving(c)' = {r \in Requests : request'[r].pc = "serving" /\ request'[r].client = c}
    BY DEF Serving
  <2>2. Serving(c)' = Serving(c)
    BY <2>1, TickSteps DEF Serving
  <2>3. Counted(c)' = Counted(c)
    BY TickSteps DEF Counted
  <2> QED
    BY <2>2, <2>3 DEF LimiterInv, SlotsAreCounted, Counted
<1>5. SlotsAreCounted'
  BY <1>4 DEF SlotsAreCounted, Counted
<1> QED
  BY <1>2, <1>3, <1>5 DEF LimiterInv

LEMMA InitKeeps == Init => LimiterInv
<1> SUFFICES ASSUME Init PROVE LimiterInv
  OBVIOUS
<1>1. TypeOK
  BY FreshBuckets, GoneIsRequest DEF Init, TypeOK
<1>2. DebtIsCovered
  BY FreshBuckets DEF Init, DebtIsCovered
<1>3. SlotsAreCounted
  <2>1. \A c \in Clients : Serving(c) = {} /\ ~buckets[c].held
    BY FreshBuckets, GoneIsRequest DEF Init, Serving
  <2> QED
    BY <2>1, FS_EmptySet DEF SlotsAreCounted
<1> QED
  BY <1>1, <1>2, <1>3 DEF LimiterInv

LEMMA NextKeeps == LimiterInv /\ [Next]_vars => LimiterInv'
<1> SUFFICES ASSUME LimiterInv, [Next]_vars PROVE LimiterInv'
  OBVIOUS
<1>1. CASE Tick
  BY <1>1, TickKeeps
<1>2. ASSUME NEW r \in Requests, Step(r)
      PROVE  LimiterInv'
  BY <1>2, ArriveKeeps, AllowNewKeeps, AllowKeeps, AcquireKeeps, ReleaseKeeps DEF Step
<1>3. CASE UNCHANGED vars
  BY <1>3 DEF vars, LimiterInv, TypeOK, SlotsAreCounted, DebtIsCovered, Serving
<1> QED
  BY <1>1, <1>2, <1>3 DEF Next

\* Every request that runs is counted in its client's bucket and nothing else
\* is, though buckets are swept and made anew meanwhile; and no bucket is
\* further in debt than time that has passed covers.
THEOREM LimiterIsSound == Spec => []LimiterInv
  BY InitKeeps, NextKeeps, PTL DEF Spec

(***************************************************************************)
(* The limiter implements RatePromise.  An instant that is late is the     *)
(* reason a client can save up MaxStale ticks more than a burst: what a    *)
(* refill at an old instant leaves out is still in the bucket's age.       *)
(***************************************************************************)

Savings == 0 .. Full + MaxStale

\* Credit, by what the bucket is.
LEMMA CreditIs ==
    ASSUME LimiterInv, NEW c \in Clients
    PROVE  /\ Credit(c) \in Savings
           /\ ~buckets[c].held => Credit(c) = Full + MaxStale
           /\ buckets[c].held =>
                 Credit(c) = (IF Full + MaxStale < buckets[c].tokens + buckets[c].age
                              THEN Full + MaxStale ELSE buckets[c].tokens + buckets[c].age)
<1>1. buckets[c].held => /\ buckets[c].tokens \in Int /\ buckets[c].age \in Int
                         /\ buckets[c].tokens + buckets[c].age >= 0
  BY BucketParts DEF LimiterInv, DebtIsCovered
<1> QED
  BY <1>1, Constants DEF Credit, Least, Savings

LEMMA CreditsBefore == LimiterInv => \A c \in Clients : Credit(c) \in Savings
  BY CreditIs

LEMMA CreditsAfter == LimiterInv' => (\A c \in Clients : Credit(c) \in Savings)'
  BY CreditsBefore, PTL

\* The credit that a bucket with these contents gives.
Worth(b) == IF b.held THEN Least(Full + MaxStale, b.tokens + b.age) ELSE Full + MaxStale

LEMMA CreditIsWorth ==
    ASSUME NEW c \in Clients
    PROVE  Credit(c) = Worth(buckets[c]) /\ Credit(c)' = Worth(buckets'[c])
  BY DEF Credit, Worth

\* Steps that allow no one.
LEMMA ForfeitStep ==
    ASSUME LimiterInv, LimiterInv', UNCHANGED <<clock, asked>>,
           \A c \in Clients : Worth(buckets'[c]) <= Worth(buckets[c])
    PROVE  Promise!Forfeit
<1>1. \A c \in Clients : Credit(c)' \in Savings /\ Credit(c)' <= Credit(c)
  BY CreditsAfter, CreditIsWorth DEF Savings
<1> QED
  BY <1>1 DEF Promise!Forfeit, Promise!Credits, Savings

\* Steps that allow one request of c.
LEMMA SpendStep ==
    ASSUME LimiterInv, LimiterInv', NEW c \in Clients, UNCHANGED clock,
           asked' = [asked EXCEPT ![c] = 1 - @],
           Worth(buckets[c]) >= Gap, Worth(buckets'[c]) <= Worth(buckets[c]) - Gap,
           \A d \in Clients \ {c} : Worth(buckets'[d]) <= Worth(buckets[d])
    PROVE  Promise!Spend(c)
<1>1. /\ Credit(c) >= Gap /\ Credit(c)' <= Credit(c) - Gap
      /\ \A d \in Clients \ {c} : Credit(d)' <= Credit(d)
      /\ \A d \in Clients : Credit(d)' \in Savings
  BY CreditsAfter, CreditIsWorth DEF Savings
<1>2. asked'[c] # asked[c] /\ \A d \in Clients \ {c} : asked'[d] = asked[d]
  BY DEF LimiterInv, TypeOK
<1> QED
  BY <1>1, <1>2 DEF Promise!Spend, Promise!Credits, Savings

\* What a bucket is worth, in numbers.
LEMMA WorthIs ==
    ASSUME NEW b \in BucketStates, Covered(b)
    PROVE  /\ Worth(b) \in Savings
           /\ ~b.held => Worth(b) = Full + MaxStale
           /\ b.held => /\ Worth(b) <= b.tokens + b.age
                        /\ b.tokens + b.age <= Full + MaxStale => Worth(b) = b.tokens + b.age
                        /\ b.tokens + b.age >= Full + MaxStale => Worth(b) = Full + MaxStale
<1>1. b.tokens \in Int /\ b.age \in Int /\ (b.held => b.tokens + b.age >= 0)
  BY DEF BucketStates, Covered
<1> QED
  BY <1>1, Constants DEF Worth, Least, Savings

LEMMA AllowPromises ==
    ASSUME LimiterInv, LimiterInv', NEW r \in Requests, Allow(r)
    PROVE  Promise!Next
<1>0. PICK c \in Clients : c = request[r].client
  BY RequestParts DEF LimiterInv
<1>1. PICK age \in 0 .. MaxStale : age = request[r].age
  BY RequestParts DEF LimiterInv
<1> DEFINE tokens == Refilled(buckets[c], age)
           taken == [buckets[c] EXCEPT !.tokens = tokens - Gap, !.age = age]
           kept == [buckets[c] EXCEPT !.tokens = tokens, !.age = age]
<1>2. buckets[c] \in BucketStates /\ Covered(buckets[c]) /\ buckets[c].held
  BY <1>0, BucketParts DEF LimiterInv, DebtIsCovered, Covered, Allow
<1>3. /\ tokens \in -MaxStale .. Full /\ tokens + age <= buckets[c].tokens + buckets[c].age
      /\ tokens = Full \/ tokens + age = buckets[c].tokens + buckets[c].age
  BY <1>2, RefillRange
<1>4. tokens \in Int /\ tokens - Gap \in Int /\ age \in 0 .. OldAge /\ age \in Int /\ age <= MaxStale
  BY <1>3, Constants
<1>5. /\ taken \in BucketStates /\ taken.held /\ taken.tokens = tokens - Gap /\ taken.age = age
      /\ kept \in BucketStates /\ kept.held /\ kept.tokens = tokens /\ kept.age = age
  <2> HIDE DEF tokens
  <2> QED
    BY <1>2, <1>4 DEF BucketStates
<1>6. /\ Worth(buckets[c]) <= buckets[c].tokens + buckets[c].age
      /\ Worth(buckets[c]) = buckets[c].tokens + buckets[c].age \/ Worth(buckets[c]) = Full + MaxStale
      /\ buckets[c].tokens + buckets[c].age \in Int
      /\ buckets[c].tokens + buckets[c].age >= Full + MaxStale => Worth(buckets[c]) = Full + MaxStale
  <2>1. buckets[c].tokens \in Int /\ buckets[c].age \in Int
    BY <1>2 DEF BucketStates
  <2>2. buckets[c].tokens + buckets[c].age <= Full + MaxStale \/ buckets[c].tokens + buckets[c].age >= Full + MaxStale
    BY <2>1, Constants
  <2> QED
    BY <1>2, <2>1, <2>2, WorthIs
<1>7. CASE tokens >= Gap
  <2>1. /\ buckets' = [buckets EXCEPT ![c] = taken] /\ asked' = [asked EXCEPT ![c] = 1 - @]
        /\ UNCHANGED clock
    BY <1>0, <1>1, <1>7 DEF Allow
  <2>2. buckets'[c] = taken /\ \A d \in Clients \ {c} : buckets'[d] = buckets[d]
    BY <2>1 DEF LimiterInv, TypeOK
  <2>3. Covered(taken)
    BY <2>2 DEF LimiterInv, DebtIsCovered, Covered
  <2> HIDE DEF tokens, taken, kept
  <2>4. Worth(taken) <= tokens - Gap + age
    BY <1>5, <2>3, WorthIs
  <2>5. Worth(buckets[c]) >= tokens + age
    BY <1>3, <1>4, <1>6, Constants
  <2>6. Worth(buckets[c]) >= Gap /\ Worth(taken) <= Worth(buckets[c]) - Gap
    <3>1. Worth(buckets[c]) \in Int /\ Worth(taken) \in Int
      BY <1>2, <1>5, <2>3, WorthIs, Constants DEF Savings
    <3> QED
      BY <1>4, <1>7, <2>4, <2>5, <3>1, Constants
  <2>7. \A d \in Clients : Worth(buckets[d]) \in Int
    BY CreditsBefore, CreditIsWorth, Constants DEF Savings
  <2> QED
    <3>1. \A d \in Clients \ {c} : Worth(buckets'[d]) <= Worth(buckets[d])
      BY <2>2, <2>7
    <3>2. Promise!Spend(c)
      BY <2>1, <2>2, <2>6, <3>1, SpendStep
    <3> QED
      BY <3>2 DEF Promise!Next
<1>8. CASE ~(tokens >= Gap)
  <2>1. buckets' = [buckets EXCEPT ![c] = kept] /\ UNCHANGED <<clock, asked>>
    BY <1>0, <1>1, <1>8 DEF Allow
  <2>2. buckets'[c] = kept /\ \A d \in Clients \ {c} : buckets'[d] = buckets[d]
    BY <2>1 DEF LimiterInv, TypeOK
  <2>3. kept.tokens + kept.age = buckets[c].tokens + buckets[c].age
    BY <1>3, <1>4, <1>5, <1>8, Constants
  <2>4. Worth(kept) = Worth(buckets[c])
    BY <1>2, <1>5, <2>3 DEF Worth
  <2>5. \A d \in Clients : Worth(buckets[d]) \in Int
    BY CreditsBefore, CreditIsWorth, Constants DEF Savings
  <2> QED
    BY <2>1, <2>2, <2>4, <2>5, ForfeitStep DEF Promise!Next
<1> QED
  BY <1>7, <1>8

\* A bucket is swept only when it is worth all that can be saved up, so that
\* forgetting it gives its client nothing.
LEMMA IdleIsFull ==
    ASSUME NEW b \in BucketStates, Covered(b), NEW age \in 0 .. MaxStale, Idle(b, age)
    PROVE  Worth(b) = Full + MaxStale
<1>1. b.held /\ b.tokens \in Int /\ b.age \in Int /\ b.tokens >= -MaxStale /\ b.age - age > TTL
  BY DEF Idle, Covered, BucketStates
<1>2. b.tokens + b.age >= Full + MaxStale
  BY <1>1, Constants
<1> QED
  BY <1>1, <1>2, WorthIs

LEMMA AllowNewPromises ==
    ASSUME LimiterInv, LimiterInv', NEW r \in Requests, AllowNew(r)
    PROVE  Promise!Next
<1>0. PICK c \in Clients : c = request[r].client
  BY RequestParts DEF LimiterInv
<1>1. PICK age \in 0 .. MaxStale : age = request[r].age
  BY RequestParts DEF LimiterInv
<1> DEFINE new == Bucket(Full - Gap, age)
<1>2. /\ buckets' = [Swept(age) EXCEPT ![c] = new] /\ asked' = [asked EXCEPT ![c] = 1 - @]
      /\ UNCHANGED clock /\ ~buckets[c].held
  BY <1>0, <1>1 DEF AllowNew
<1>3. new \in BucketStates /\ new.held /\ new.tokens = Full - Gap /\ new.age = age
      /\ age \in Int /\ age <= MaxStale
  BY FreshBuckets, Constants
<1> HIDE DEF new
<1>4. buckets'[c] = new /\ \A d \in Clients \ {c} : buckets'[d] = Swept(age)[d]
  BY <1>2 DEF Swept
<1>5. Covered(new)
  BY <1>4 DEF LimiterInv, DebtIsCovered, Covered
<1>6. \A d \in Clients : buckets[d] \in BucketStates /\ Covered(buckets[d]) /\ Worth(buckets[d]) \in Int
  BY BucketParts, CreditsBefore, CreditIsWorth, Constants DEF LimiterInv, DebtIsCovered, Covered, Savings
<1>7. Worth(buckets[c]) >= Gap /\ Worth(buckets'[c]) <= Worth(buckets[c]) - Gap
  <2>1. Worth(buckets[c]) = Full + MaxStale
    BY <1>2, <1>6, WorthIs
  <2>2. Worth(new) <= Full - Gap + age /\ Worth(new) \in Int
    BY <1>3, <1>5, WorthIs, Constants DEF Savings
  <2> QED
    BY <1>3, <1>4, <2>1, <2>2, Constants
<1>8. ASSUME NEW d \in Clients \ {c}
      PROVE  Worth(buckets'[d]) <= Worth(buckets[d])
  <2>1. CASE Idle(buckets[d], age)
    <3>1. buckets'[d] = NoBucket
      BY <1>4, <2>1 DEF Swept
    <3>2. Worth(buckets'[d]) = Full + MaxStale /\ Worth(buckets[d]) = Full + MaxStale
      BY <1>6, <2>1, <3>1, FreshBuckets, IdleIsFull DEF Worth
    <3> QED
      BY <3>2, Constants
  <2>2. CASE ~Idle(buckets[d], age)
    BY <1>4, <1>6, <2>2 DEF Swept
  <2> QED
    BY <2>1, <2>2
<1>9. Promise!Spend(c)
  BY <1>2, <1>7, <1>8, SpendStep
<1> QED
  BY <1>9 DEF Promise!Next

LEMMA AcquirePromises ==
    ASSUME LimiterInv, LimiterInv', NEW r \in Requests, Acquire(r)
    PROVE  Promise!Forfeit
<1>0. PICK c \in Clients : c = request[r].client
  BY RequestParts DEF LimiterInv
<1> DEFINE bucket == IF buckets[c].held THEN buckets[c] ELSE Bucket(Full, 0)
<1>1. \A d \in Clients : buckets[d] \in BucketStates /\ Covered(buckets[d]) /\ Worth(buckets[d]) \in Int
  BY BucketParts, CreditsBefore, CreditIsWorth, Constants DEF LimiterInv, DebtIsCovered, Covered, Savings
<1>2. bucket \in BucketStates /\ Worth(bucket) <= Worth(buckets[c])
  <2>1. CASE buckets[c].held
    BY <1>1, <2>1
  <2>2. CASE ~buckets[c].held
    <3>1. bucket = Bucket(Full, 0) /\ 0 \in 0 .. OldAge /\ Full \in Int
      BY <2>2, Constants
    <3>2. bucket \in BucketStates /\ bucket.held /\ bucket.tokens = Full /\ bucket.age = 0
      BY <3>1, FreshBuckets
    <3>3. Worth(buckets[c]) = Full + MaxStale
      BY <2>2 DEF Worth
    <3> QED
      BY <3>2, <3>3, Constants DEF Worth, Least
  <2> QED
    BY <2>1, <2>2
<1>3. PICK n \in Int : buckets' = [buckets EXCEPT ![c] = [bucket EXCEPT !.inFlight = n]]
  <2>1. CASE bucket.inFlight < MaxInFlight
    <3>1. buckets' = [buckets EXCEPT ![c] = [bucket EXCEPT !.inFlight = bucket.inFlight + 1]]
      BY <1>0, <2>1 DEF Acquire
    <3>2. bucket.inFlight + 1 \in Int
      <4> HIDE DEF bucket
      <4> QED
        BY <1>2, Constants DEF BucketStates
    <3> QED
      BY <3>1, <3>2
  <2>2. CASE ~(bucket.inFlight < MaxInFlight)
    <3>1. buckets' = [buckets EXCEPT ![c] = bucket]
      BY <1>0, <2>2 DEF Acquire
    <3> HIDE DEF bucket
    <3>2. bucket = [bucket EXCEPT !.inFlight = bucket.inFlight] /\ bucket.inFlight \in Int
      BY <1>2, Constants DEF BucketStates
    <3> QED
      BY <3>1, <3>2
  <2> QED
    BY <2>1, <2>2
<1> HIDE DEF bucket
<1>4. Worth([bucket EXCEPT !.inFlight = n]) = Worth(bucket)
  BY <1>2 DEF Worth, BucketStates
<1>5. /\ buckets'[c] = [bucket EXCEPT !.inFlight = n]
      /\ \A d \in Clients \ {c} : buckets'[d] = buckets[d]
  BY <1>3 DEF LimiterInv, TypeOK
<1>6. \A d \in Clients : Worth(buckets'[d]) <= Worth(buckets[d])
  BY <1>1, <1>2, <1>4, <1>5
<1> QED
  BY <1>6, ForfeitStep DEF Acquire

LEMMA ReleasePromises ==
    ASSUME LimiterInv, LimiterInv', NEW r \in Requests, Release(r)
    PROVE  Promise!Forfeit
<1>0. PICK c \in Clients : c = request[r].client
  BY RequestParts DEF LimiterInv
<1>1. \A d \in Clients : buckets[d] \in BucketStates /\ Worth(buckets[d]) \in Int
  BY BucketParts, CreditsBefore, CreditIsWorth, Constants DEF LimiterInv, Savings
<1>2. buckets' = [buckets EXCEPT ![c].inFlight = @ - 1] \/ buckets' = buckets
  BY <1>0 DEF Release
<1>3. ASSUME NEW d \in Clients
      PROVE  /\ buckets'[d].held = buckets[d].held
             /\ buckets'[d].tokens = buckets[d].tokens /\ buckets'[d].age = buckets[d].age
  <2>1. buckets[d] \in BucketStates
    BY <1>1
  <2> QED
    BY <1>2, <2>1 DEF LimiterInv, TypeOK, BucketStates
<1>4. \A d \in Clients : Worth(buckets'[d]) = Worth(buckets[d])
  BY <1>3 DEF Worth
<1> QED
  BY <1>1, <1>4, ForfeitStep DEF Release

LEMMA TickEarns ==
    ASSUME LimiterInv, LimiterInv', Tick
    PROVE  Promise!Earn
<1>1. ASSUME NEW c \in Clients
      PROVE  Worth(buckets'[c]) <= Worth(buckets[c]) + 1
  <2>1. buckets[c] \in BucketStates /\ Covered(buckets[c])
    BY BucketParts DEF LimiterInv, DebtIsCovered, Covered
  <2>2. CASE buckets[c].held
    <3>1. /\ buckets[c].tokens \in Int /\ buckets[c].age \in Int /\ OldAge \in Int
          /\ buckets'[c].held /\ buckets'[c].tokens = buckets[c].tokens
          /\ buckets'[c].age = Least(buckets[c].age + 1, OldAge)
      BY <2>1, <2>2, TickSteps, Constants DEF BucketStates
    <3>2. buckets'[c].age \in Int /\ buckets'[c].age <= buckets[c].age + 1
      BY <3>1 DEF Least
    <3> QED
      BY <2>2, <3>1, <3>2, Constants DEF Worth, Least
  <2>3. CASE ~buckets[c].held
    BY <2>3, TickSteps, Constants DEF Worth
  <2> QED
    BY <2>2, <2>3
<1>2. \A c \in Clients : Credit(c)' <= Credit(c) + 1 /\ Credit(c)' \in Savings
  BY <1>1, CreditsAfter, CreditIsWorth DEF Savings
<1>3. clock' = 1 - clock /\ clock \in {0, 1} /\ UNCHANGED asked
  BY DEF Tick, LimiterInv, TypeOK
<1>4. clock' # clock
  BY <1>3
<1> QED
  BY <1>2, <1>3, <1>4 DEF Promise!Earn, Promise!Credits, Savings

\* Whatever order requests reach their bucket in, however old their instants
\* and whenever buckets are swept, a client is allowed a burst, the sustained
\* rate, and what the oldest instant is late.
THEOREM LimiterKeepsItsRate == Spec => KeepsItsRate
<1>1. Init => Promise!Init
  BY InitKeeps, CreditsBefore DEF Promise!Init, Promise!Credits, Savings
<1>2. LimiterInv /\ LimiterInv' /\ [Next]_vars => [Promise!Next]_(Promise!vars)
  <2> SUFFICES ASSUME LimiterInv, LimiterInv', [Next]_vars
               PROVE  Promise!Next \/ UNCHANGED Promise!vars
    OBVIOUS
  <2>1. CASE Tick
    BY <2>1, TickEarns DEF Promise!Next
  <2>2. ASSUME NEW r \in Requests, Step(r)
        PROVE  Promise!Next \/ UNCHANGED Promise!vars
    <3>1. CASE AllowNew(r) \/ Allow(r)
      BY <3>1, AllowPromises, AllowNewPromises
    <3>2. CASE Acquire(r) \/ Release(r)
      BY <3>2, AcquirePromises, ReleasePromises DEF Promise!Next
    <3>3. CASE \E c \in Clients : Arrive(r, c)
      BY <3>3 DEF Arrive, Promise!vars, Credit
    <3> QED
      BY <2>2, <3>1, <3>2, <3>3 DEF Step
  <2>3. CASE UNCHANGED vars
    BY <2>3 DEF vars, Promise!vars, Credit
  <2> QED
    BY <2>1, <2>2, <2>3 DEF Next
<1> QED
  BY <1>1, <1>2, LimiterIsSound, PTL DEF Spec, KeepsItsRate, Promise!Spec
=============================================================================
