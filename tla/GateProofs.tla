----------------------------- MODULE GateProofs -----------------------------
(***************************************************************************)
(* The gate keeps its promise to the endpoint for any number of callers    *)
(* and any spacing, and comes back to its floor whatever the rounding.     *)
(***************************************************************************)
EXTENDS Gate, FiniteSetTheorems, WellFoundedInduction, TLAPS

(***************************************************************************)
(* Induction.  The library's induction theorems take the claim as an       *)
(* operator; the least element of the set of its exceptions serves as well.*)
(***************************************************************************)

\* Any numbers have a least.
LEMMA LeastElement ==
    ASSUME NEW T \in SUBSET Nat, T # {}
    PROVE  \E n \in T : \A m \in T : n <= m
<1>1. PICK n \in T : \A m \in T : ~(<<m, n>> \in OpToRel(<, Nat))
  BY NatLessThanWellFounded, WFMin
<1>2. \A m \in T : ~(m < n)
  <2> TAKE m \in T
  <2>1. m < n => <<m, n>> \in OpToRel(<, Nat)
    BY DEF OpToRel
  <2> QED
    BY <1>1, <2>1
<1> QED
  BY <1>2

(***************************************************************************)
(* The spacing.                                                            *)
(***************************************************************************)

\* What a success does to the widest spacing, which no change to the gate's own
\* arithmetic would touch.
Narrow(i) == Greatest(i - i \div Share, MinInterval)

\* The spacing is a whole number of ticks, and some.
LEMMA Constants ==
    /\ MinInterval \in Nat \ {0} /\ MaxInterval \in Nat \ {0} /\ MinInterval <= MaxInterval
    /\ Share \in Nat \ {0} /\ Share <= MinInterval
  BY GateAssumption

\* A success narrows a spacing by a tick at least, to the floor and no further.
LEMMA NarrowRange ==
    ASSUME NEW i \in MinInterval .. MaxInterval
    PROVE  /\ Narrow(i) \in MinInterval .. MaxInterval
           /\ Narrow(i) <= i
           /\ i > MinInterval => Narrow(i) < i
<1>1. i \in Nat /\ i >= Share
  BY Constants
<1>2. i \div Share \in Nat /\ i \div Share >= 1 /\ i \div Share <= i
  BY <1>1, Constants
<1> QED
  BY <1>1, <1>2, Constants DEF Narrow, Greatest

\* The wider of two spacings is the wider after a success, however it is rounded.
LEMMA NarrowMonotone ==
    ASSUME NEW i \in MinInterval .. MaxInterval, NEW j \in MinInterval .. MaxInterval, i <= j
    PROVE  Narrow(i) <= Narrow(j)
<1>1. i \in Nat /\ j \in Nat
  BY Constants
<1>2. i - i \div Share <= j - j \div Share
  BY <1>1, Constants
<1>3. i \div Share \in Int /\ j \div Share \in Int
  BY <1>1, Constants
<1> QED
  BY <1>1, <1>2, <1>3, Constants DEF Narrow, Greatest

\* Recovering is the function its definition says.
LEMMA RecoveringExists ==
    Recovering = [n \in 0 .. MaxInterval |-> IF n = 0 THEN MaxInterval ELSE Narrow(Recovering[n - 1])]
<1> DEFINE F(k, g) == g = [n \in 0 .. k |-> IF n = 0 THEN MaxInterval ELSE Narrow(g[n - 1])]
           Bad == {k \in Nat : ~ \E g : F(k, g)}
<1> HIDE DEF F
<1>1. \E g : F(0, g)
  <2> WITNESS [n \in 0 .. 0 |-> MaxInterval]
  <2> QED
    BY DEF F
<1>2. ASSUME NEW k \in Nat, k # 0, NEW g, F(k - 1, g)
      PROVE  \E h : F(k, h)
  <2> WITNESS [n \in 0 .. k |-> IF n = k THEN Narrow(g[k - 1]) ELSE g[n]]
  <2> QED
    BY <1>2 DEF F
<1>3. Bad = {}
  <2> SUFFICES ASSUME Bad # {} PROVE FALSE
    OBVIOUS
  <2>1. PICK k \in Bad : \A m \in Bad : k <= m
    BY LeastElement
  <2>2. k # 0 /\ k - 1 \in Nat
    BY <1>1, <2>1
  <2>3. k - 1 \notin Bad
    BY <2>1, <2>2
  <2> QED
    BY <2>1, <2>2, <2>3, <1>2
<1>4. \E g : F(MaxInterval, g)
  BY <1>3, Constants
<1> QED
  BY <1>4, Zenon DEF Recovering, F, Narrow

\* One success after another.
LEMMA RecoveringSteps ==
    /\ Recovering[0] = MaxInterval
    /\ \A n \in 1 .. MaxInterval : Recovering[n] = Narrow(Recovering[n - 1])
<1>1. 0 \in 0 .. MaxInterval /\ \A n \in 1 .. MaxInterval : n \in 0 .. MaxInterval /\ n # 0
  BY Constants
<1>2. \A n \in 0 .. MaxInterval :
         Recovering[n] = IF n = 0 THEN MaxInterval ELSE Narrow(Recovering[n - 1])
  BY RecoveringExists, Zenon
<1> QED
  BY <1>1, <1>2

\* However wide it starts, every success takes a tick off until the floor.
LEMMA RecoveringRange ==
    \A n \in 0 .. MaxInterval :
       /\ Recovering[n] \in MinInterval .. MaxInterval
       /\ Recovering[n] <= Greatest(MaxInterval - n, MinInterval)
<1> DEFINE Right(n) == /\ Recovering[n] \in MinInterval .. MaxInterval
                       /\ Recovering[n] <= Greatest(MaxInterval - n, MinInterval)
           Bad == {n \in 0 .. MaxInterval : ~Right(n)}
<1>1. Right(0)
  BY RecoveringSteps, Constants DEF Greatest
<1>2. ASSUME NEW n \in 1 .. MaxInterval, Right(n - 1)
      PROVE  Right(n)
  <2>1. Recovering[n] = Narrow(Recovering[n - 1])
    BY RecoveringSteps
  <2>2. /\ Recovering[n] \in MinInterval .. MaxInterval
        /\ Recovering[n] <= Recovering[n - 1]
        /\ Recovering[n - 1] > MinInterval => Recovering[n] < Recovering[n - 1]
    BY <1>2, <2>1, NarrowRange
  <2> QED
    BY <1>2, <2>2, Constants DEF Greatest
<1>3. Bad = {}
  <2> HIDE DEF Right
  <2> SUFFICES ASSUME Bad # {} PROVE FALSE
    OBVIOUS
  <2>0. Bad \in SUBSET Nat
    BY Constants
  <2>1. PICK n \in Bad : \A m \in Bad : n <= m
    BY <2>0, LeastElement
  <2>2. n \in 1 .. MaxInterval
    BY <1>1, <2>1, Constants
  <2>3. n - 1 \notin Bad /\ n - 1 \in 0 .. MaxInterval
    BY <2>1, <2>2, Constants
  <2> QED
    BY <1>2, <2>1, <2>2, <2>3
<1> QED
  BY <1>3

\* Recovery is the number of successes it says it is: the floor is reached, so
\* the definition's way out when it is not is never taken.
LEMMA RecoveryReachesTheFloor ==
    Recovery \in 0 .. MaxInterval /\ Recovering[Recovery] = MinInterval
<1> DEFINE enough == {n \in 0 .. MaxInterval : Recovering[n] = MinInterval}
<1>1. MaxInterval - MinInterval \in enough
  <2> DEFINE n == MaxInterval - MinInterval
  <2>1. n \in 0 .. MaxInterval
    BY Constants
  <2>2. Recovering[n] \in MinInterval .. MaxInterval /\ Recovering[n] <= MinInterval
    BY <2>1, RecoveringRange, Constants DEF Greatest
  <2> QED
    BY <2>1, <2>2, Constants
<1>2. \E n \in enough : \A m \in enough : n <= m
  <2>1. enough \in SUBSET Nat /\ enough # {}
    BY <1>1, Constants
  <2> HIDE DEF enough
  <2> QED
    BY <2>1, LeastElement
<1>3. Recovery = CHOOSE n \in enough : \A m \in enough : n <= m
  BY <1>1 DEF Recovery
<1>4. Recovery \in enough
  BY <1>2, <1>3, Zenon
<1> QED
  BY <1>4

\* A success takes the spacing at least as far as the count of successes says.
LEMMA SuccessGains ==
    ASSUME NEW n \in 0 .. Recovery, NEW i \in MinInterval .. MaxInterval, i <= Recovering[n]
    PROVE  Narrow(i) <= Recovering[Least(n + 1, Recovery)]
<1>0. Recovery \in 0 .. MaxInterval /\ Recovering[Recovery] = MinInterval
  BY RecoveryReachesTheFloor
<1>1. Recovering[n] \in MinInterval .. MaxInterval
  BY <1>0, RecoveringRange, Constants
<1>2. CASE n = Recovery
  <2>1. Least(n + 1, Recovery) = Recovery
    BY <1>0, <1>2 DEF Least
  <2> QED
    BY <1>0, <1>2, <2>1, NarrowRange, Constants
<1>3. CASE n # Recovery
  <2>1. n + 1 \in 1 .. MaxInterval /\ Least(n + 1, Recovery) = n + 1
    BY <1>0, <1>3, Constants DEF Least
  <2>2. Recovering[n + 1] = Narrow(Recovering[n])
    BY <2>1, RecoveringSteps, Constants
  <2> QED
    BY <1>1, <2>1, <2>2, NarrowMonotone
<1> QED
  BY <1>2, <1>3

(***************************************************************************)
(* The inductive invariant.                                                *)
(***************************************************************************)


\* The parts of GateInv that the others follow from.
IInv == TypeOK /\ SpacingRecovers /\ SleepsAsAsked /\ TurnsAreSpaced

LEMMA IdleIsJob == Idle \in Jobs
  BY GateAssumption DEF Idle, Jobs

\* Doubling and narrowing stay between the floor and the ceiling.
LEMMA SpacingRange ==
    ASSUME NEW i \in MinInterval .. MaxInterval
    PROVE  /\ Widened(i) \in MinInterval .. MaxInterval
           /\ Narrowed(i) = Narrow(i) /\ Narrowed(i) \in MinInterval .. MaxInterval
<1>1. Widened(i) \in MinInterval .. MaxInterval
  BY Constants DEF Widened, Least
<1>2. Narrowed(i) = Narrow(i)
  BY DEF Narrowed, Narrow
<1> QED
  BY <1>1, <1>2, NarrowRange

\* A backoff is a whole number of ticks.
LEMMA BackoffIsWhole ==
    ASSUME NEW attempt \in Nat \ {0}
    PROVE  Backoff(attempt) \in Int
<1>1. 2 ^ (attempt - 1) \in Int
  OBVIOUS
<1>2. \A ticks \in Int : FirstBackoff * ticks \in Int
  BY GateAssumption
<1> QED
  BY <1>1, <1>2 DEF Backoff

\* A pause is as long as the last and as what was asked for.
LEMMA PauseRange ==
    ASSUME NEW job \in Jobs, NEW retryAfter \in RetryAfters
    PROVE  Pause(job, retryAfter) \in Nat /\ Pause(job, retryAfter) >= retryAfter
<1>1. retryAfter \in Nat /\ job.wait \in Nat /\ job.attempt \in Nat
  BY GateAssumption DEF Jobs
<1>2. Backoff(job.attempt + 1) \in Int
  BY <1>1, BackoffIsWhole
<1> QED
  BY <1>1, <1>2 DEF Pause, Greatest

(***************************************************************************)
(* A step of one caller that is left without a turn to come.               *)
(***************************************************************************)

LEMMA PutKeeps ==
    ASSUME TypeOK, SleepsAsAsked, TurnsAreSpaced,
           NEW c \in Callers, NEW job \in Jobs, Put(c, job),
           job.owed <= job.left, job.pc # "pausing" => job.owed = 0,
           job.pc # "waiting" \/ job.left = 0,
           UNCHANGED <<lead, since>>
    PROVE  caller' \in [Callers -> Jobs] /\ SleepsAsAsked' /\ TurnsAreSpaced'
<1>1. /\ caller' \in [Callers -> Jobs] /\ caller'[c] = job
      /\ \A d \in Callers \ {c} : caller'[d] = caller[d]
  BY DEF TypeOK, Put
<1>2. ~Ahead(c)' /\ \A d \in Callers \ {c} : Ahead(d)' <=> Ahead(d)
  BY <1>1 DEF Ahead, Jobs
<1>3. SleepsAsAsked'
  BY <1>1 DEF SleepsAsAsked
<1>4. TurnsAreSpaced'
  BY <1>1, <1>2 DEF TurnsAreSpaced
<1> QED
  BY <1>1, <1>3, <1>4

\* Every step of a caller but Reserve is of that kind.
LEMMA CallerStepKeeps ==
    ASSUME IInv, NEW c \in Callers,
           Get(c) \/ Ask(c) \/ Succeed(c) \/ Refuse(c) \/ Retry(c) \/ Fail(c) \/ Abandon(c)
    PROVE  IInv'
<1> USE DEF IInv
<1>0. /\ caller[c] \in Jobs
      /\ caller[c].owed <= caller[c].left
      /\ caller[c].pc # "pausing" => caller[c].owed = 0
  BY DEF TypeOK, SleepsAsAsked
<1>1. ASSUME NEW job \in Jobs, Put(c, job),
             job.owed <= job.left, job.pc # "pausing" => job.owed = 0,
             job.pc # "waiting" \/ job.left = 0,
             UNCHANGED <<interval, lead, since, smooth>>,
             clock' = clock, asked' \in {0, 1}, abandons' \in 0 .. MaxAbandons
      PROVE  IInv'
  <2>1. caller' \in [Callers -> Jobs] /\ SleepsAsAsked' /\ TurnsAreSpaced'
    BY <1>1, PutKeeps
  <2> QED
    BY <1>1, <2>1 DEF TypeOK, SpacingRecovers
<1>2. Idle \in Jobs /\ Idle.pc = "idle" /\ Idle.owed = 0 /\ Idle.left = 0
  BY IdleIsJob DEF Idle
<1>3. CASE Get(c)
  <2> DEFINE job == [Idle EXCEPT !.pc = "queueing"]
  <2>1. job \in Jobs /\ job.pc = "queueing" /\ job.owed = 0 /\ job.left = 0
    BY <1>2 DEF Jobs
  <2>2. Put(c, job) /\ UNCHANGED <<gateVars, history>>
    BY <1>3 DEF Get
  <2> HIDE DEF job
  <2> QED
    BY <1>1, <2>1, <2>2 DEF gateVars, history, TypeOK
<1>4. CASE Ask(c)
  <2> DEFINE job == [caller[c] EXCEPT !.pc = "asking"]
  <2>1. job \in Jobs /\ job.pc = "asking" /\ job.owed = 0 /\ job.left = 0
    BY <1>0, <1>4 DEF Jobs, Ask
  <2>2. Put(c, job) /\ asked' = 1 - asked /\ UNCHANGED <<gateVars, clock, since, smooth, abandons>>
    BY <1>4 DEF Ask
  <2> HIDE DEF job
  <2> QED
    BY <1>1, <2>1, <2>2 DEF gateVars, TypeOK
<1>5. CASE Retry(c)
  <2> DEFINE job == [caller[c] EXCEPT !.pc = "queueing"]
  <2>1. job \in Jobs /\ job.pc = "queueing" /\ job.owed = 0 /\ job.left = 0
    BY <1>0, <1>5 DEF Jobs, Retry
  <2>2. Put(c, job) /\ UNCHANGED <<gateVars, history>>
    BY <1>5 DEF Retry
  <2> HIDE DEF job
  <2> QED
    BY <1>1, <2>1, <2>2 DEF gateVars, history, TypeOK
<1>6. CASE Fail(c)
  BY <1>1, <1>2, <1>6 DEF Fail, gateVars, history, TypeOK
<1>7. CASE Abandon(c)
  <2>1. abandons' \in 0 .. MaxAbandons
    BY <1>7, GateAssumption DEF Abandon, TypeOK
  <2> QED
    BY <1>1, <1>2, <1>7, <2>1 DEF Abandon, gateVars, TypeOK
<1>8. CASE Succeed(c)
  <2>1. caller' \in [Callers -> Jobs] /\ SleepsAsAsked' /\ TurnsAreSpaced'
    BY <1>2, <1>8, PutKeeps DEF Succeed
  <2>2. interval \in MinInterval .. MaxInterval /\ interval <= Recovering[smooth]
        /\ smooth \in 0 .. Recovery
    BY DEF TypeOK, SpacingRecovers
  <2>3. interval' = Narrow(interval) /\ interval' \in MinInterval .. MaxInterval
        /\ smooth' = Least(smooth + 1, Recovery)
    BY <1>8, <2>2, SpacingRange DEF Succeed
  <2>4. interval' <= Recovering[smooth']
    BY <2>2, <2>3, SuccessGains
  <2>5. smooth' \in 0 .. Recovery
    BY <2>2, <2>3, RecoveryReachesTheFloor DEF Least
  <2> QED
    BY <1>8, <2>1, <2>3, <2>4, <2>5 DEF Succeed, TypeOK, SpacingRecovers
<1>9. CASE Refuse(c)
  <2>1. PICK retryAfter \in RetryAfters :
          IF caller[c].attempt + 1 < MaxAttempts
          THEN LET pause == Pause(caller[c], retryAfter) IN
               Put(c, [pc |-> "pausing", left |-> pause, attempt |-> caller[c].attempt + 1,
                       wait |-> pause, owed |-> retryAfter])
          ELSE Put(c, Idle)
    BY <1>9 DEF Refuse
  <2> DEFINE pause == Pause(caller[c], retryAfter)
             job == [pc |-> "pausing", left |-> pause, attempt |-> caller[c].attempt + 1,
                     wait |-> pause, owed |-> retryAfter]
  <2>2. caller' \in [Callers -> Jobs] /\ SleepsAsAsked' /\ TurnsAreSpaced'
    <3>1. UNCHANGED <<lead, since>>
      BY <1>9 DEF Refuse
    <3>2. CASE caller[c].attempt + 1 < MaxAttempts
      <4>1. pause \in Nat /\ pause >= retryAfter
        BY <1>0, PauseRange
      <4>2. job \in Jobs /\ job.pc = "pausing" /\ job.owed = retryAfter /\ job.left = pause
        BY <1>0, <3>2, <4>1, GateAssumption DEF Jobs
      <4>3. Put(c, job)
        BY <2>1, <3>2
      <4> HIDE DEF job, pause
      <4> QED
        BY <3>1, <4>1, <4>2, <4>3, PutKeeps
    <3>3. CASE ~(caller[c].attempt + 1 < MaxAttempts)
      BY <1>2, <2>1, <3>1, <3>3, PutKeeps
    <3> QED
      BY <3>2, <3>3
  <2>3. interval' \in MinInterval .. MaxInterval /\ smooth' = 0
    BY <1>9, SpacingRange DEF Refuse, TypeOK
  <2>4. interval' <= Recovering[smooth'] /\ smooth' \in 0 .. Recovery
    BY <2>3, RecoveringSteps, RecoveryReachesTheFloor, Constants
  <2> QED
    BY <1>9, <2>2, <2>3, <2>4 DEF Refuse, TypeOK, SpacingRecovers
<1> QED
  BY <1>3, <1>4, <1>5, <1>6, <1>7, <1>8, <1>9

\* A turn taken is behind every turn taken before it.
LEMMA ReserveKeeps ==
    ASSUME IInv, NEW c \in Callers, Reserve(c)
    PROVE  IInv'
<1> USE DEF IInv
<1> DEFINE job == [caller[c] EXCEPT !.pc = "waiting", !.left = lead]
<1>1. /\ lead \in Nat /\ since \in 0 .. MinInterval /\ interval \in MinInterval .. MaxInterval
      /\ caller[c] \in Jobs /\ caller[c].pc = "queueing" /\ caller[c].owed = 0
  BY DEF Reserve, TypeOK, SleepsAsAsked
<1>2. job \in Jobs /\ job.pc = "waiting" /\ job.left = lead /\ job.owed = 0
  BY <1>1 DEF Jobs
<1>3. /\ caller' \in [Callers -> Jobs] /\ caller'[c] = job
      /\ \A d \in Callers \ {c} : caller'[d] = caller[d]
  BY <1>2 DEF Reserve, Put, TypeOK
<1> HIDE DEF job
<1>4. /\ lead' = lead + interval /\ lead' \in Nat
      /\ since' = (IF lead = 0 THEN 0 ELSE since) /\ since' \in 0 .. MinInterval
  BY <1>1, Constants DEF Reserve
<1>5. SleepsAsAsked'
  BY <1>1, <1>2, <1>3 DEF SleepsAsAsked
<1>6. ~Ahead(c) /\ (Ahead(c)' <=> lead > 0) /\ caller'[c].left = lead
      /\ \A d \in Callers \ {c} : /\ Ahead(d)' <=> Ahead(d)
                                  /\ caller'[d].left = caller[d].left
  BY <1>1, <1>2, <1>3 DEF Ahead
<1>7. \A d \in Callers : caller[d].left \in Nat
  BY DEF TypeOK, Jobs
<1>8. \A d \in Callers : Ahead(d) => lead > 0 /\ caller[d].left + MinInterval <= lead
  BY <1>1, <1>7, Constants DEF TurnsAreSpaced, Ahead
<1>9. TurnsAreSpaced'
  <2>1. since' + lead' >= MinInterval
    BY <1>1, <1>4, Constants DEF TurnsAreSpaced
  <2>2. ASSUME NEW d \in Callers, Ahead(d)'
        PROVE  since' + caller'[d].left >= MinInterval /\ caller'[d].left + MinInterval <= lead'
    BY <2>2, <1>1, <1>4, <1>6, <1>7, <1>8, Constants DEF TurnsAreSpaced
  <2>3. ASSUME NEW d \in Callers, NEW e \in Callers, d # e, Ahead(d)', Ahead(e)',
               caller'[d].left <= caller'[e].left
        PROVE  caller'[d].left + MinInterval <= caller'[e].left
    <3>1. CASE d = c
      BY <2>3, <3>1, <1>1, <1>6, <1>7, <1>8, Constants
    <3>2. CASE e = c
      BY <2>3, <3>2, <1>6, <1>8
    <3>3. CASE d # c /\ e # c
      BY <2>3, <3>3, <1>6 DEF TurnsAreSpaced
    <3> QED
      BY <3>1, <3>2, <3>3
  <2> QED
    BY <2>1, <2>2, <2>3 DEF TurnsAreSpaced
<1> QED
  BY <1>3, <1>4, <1>5, <1>9 DEF Reserve, TypeOK, SpacingRecovers

\* What a tick does to a caller and to the gate.
LEMMA TickSteps ==
    ASSUME IInv, Tick
    PROVE  /\ caller' \in [Callers -> Jobs]
           /\ lead \in Nat /\ since \in 0 .. MinInterval
           /\ lead' = (IF lead > 0 THEN lead - 1 ELSE 0)
           /\ \A c \in Callers :
                 /\ caller[c].left \in Nat /\ caller[c].owed \in Nat
                 /\ caller'[c].pc = caller[c].pc
                 /\ caller'[c].left = (IF caller[c].left > 0 THEN caller[c].left - 1 ELSE 0)
                 /\ caller'[c].owed = (IF caller[c].owed > 0 THEN caller[c].owed - 1 ELSE 0)
<1>1. lead \in Nat /\ since \in 0 .. MinInterval /\ caller \in [Callers -> Jobs]
  BY DEF IInv, TypeOK
<1>2. \A n \in Nat : Sooner(n) = (IF n > 0 THEN n - 1 ELSE 0) /\ Sooner(n) \in Nat
  BY DEF Sooner, Greatest
<1>3. ASSUME NEW c \in Callers
      PROVE  /\ caller'[c] \in Jobs
             /\ caller[c].left \in Nat /\ caller[c].owed \in Nat
             /\ caller'[c].pc = caller[c].pc
             /\ caller'[c].left = Sooner(caller[c].left)
             /\ caller'[c].owed = Sooner(caller[c].owed)
  <2>1. caller'[c] = [caller[c] EXCEPT !.left = Sooner(@), !.owed = Sooner(@)]
    BY DEF Tick
  <2>2. caller[c] \in Jobs
    BY <1>1
  <2>3. caller[c].left \in Nat /\ caller[c].owed \in Nat
    BY <2>2 DEF Jobs
  <2>4. Sooner(caller[c].left) \in Nat /\ Sooner(caller[c].owed) \in Nat
    BY <1>2, <2>3
  <2> QED
    BY <2>1, <2>2, <2>3, <2>4 DEF Jobs
<1>4. caller' \in [Callers -> Jobs]
  BY <1>3 DEF Tick
<1>5. lead' = Sooner(lead)
  BY DEF Tick
<1> QED
  BY <1>1, <1>2, <1>3, <1>4, <1>5

\* Everything comes nearer by the same tick; where a turn comes up the others
\* are at least a spacing behind it.
LEMMA TickKeeps ==
    ASSUME IInv, Tick
    PROVE  IInv'
<1> USE DEF IInv
<1> DEFINE due == \E c \in Callers : caller[c].pc = "waiting" /\ caller[c].left = 1
<1>1. since' = (IF due THEN 0 ELSE Least(since + 1, MinInterval))
  BY DEF Tick
<1>2. since' \in 0 .. MinInterval /\ (~due => since' = MinInterval \/ since' = since + 1)
  BY <1>1, TickSteps, Constants DEF Least
<1>3. SleepsAsAsked'
  BY TickSteps DEF SleepsAsAsked
<1>4. \A c \in Callers : Ahead(c)' => Ahead(c) /\ caller[c].left > 1
                                      /\ caller'[c].left = caller[c].left - 1
  BY TickSteps DEF Ahead
<1>5. ASSUME due
      PROVE  /\ since' = 0 /\ lead >= MinInterval + 1
             /\ \A d \in Callers : Ahead(d)' => caller'[d].left >= MinInterval
  <2>1. PICK c \in Callers : caller[c].pc = "waiting" /\ caller[c].left = 1
    BY <1>5
  <2>2. Ahead(c) /\ 1 + MinInterval <= lead
    BY <2>1, TickSteps, Constants DEF Ahead, TurnsAreSpaced
  <2>3. ASSUME NEW d \in Callers, Ahead(d)'
        PROVE  caller'[d].left >= MinInterval
    <3>1. d # c /\ Ahead(d) /\ caller[c].left <= caller[d].left
      BY <1>4, <2>1, <2>3, TickSteps
    <3>2. 1 + MinInterval <= caller[d].left
      BY <2>1, <2>2, <3>1 DEF TurnsAreSpaced
    <3> QED
      BY <1>4, <2>3, <3>2, TickSteps, Constants
  <2> QED
    BY <1>1, <1>5, <2>2, <2>3, TickSteps, Constants
<1>6. since' + lead' >= MinInterval
  BY <1>2, <1>5, TickSteps, Constants DEF TurnsAreSpaced
<1>7. ASSUME NEW c \in Callers, Ahead(c)'
      PROVE  since' + caller'[c].left >= MinInterval /\ caller'[c].left + MinInterval <= lead'
  <2>1. Ahead(c) /\ caller'[c].left = caller[c].left - 1
    BY <1>4, <1>7
  <2>2. since + caller[c].left >= MinInterval /\ caller[c].left + MinInterval <= lead
    BY <2>1 DEF TurnsAreSpaced
  <2>3. since' + caller'[c].left >= MinInterval
    BY <1>2, <1>4, <1>5, <1>7, <2>1, <2>2, TickSteps, Constants
  <2> QED
    BY <2>1, <2>2, <2>3, TickSteps, Constants
<1>8. ASSUME NEW c \in Callers, NEW d \in Callers, c # d, Ahead(c)', Ahead(d)',
             caller'[c].left <= caller'[d].left
      PROVE  caller'[c].left + MinInterval <= caller'[d].left
  <2>1. Ahead(c) /\ Ahead(d) /\ caller'[c].left = caller[c].left - 1
        /\ caller'[d].left = caller[d].left - 1
    BY <1>4, <1>8
  <2>2. caller[c].left <= caller[d].left
    BY <1>8, <2>1, TickSteps
  <2>3. caller[c].left + MinInterval <= caller[d].left
    BY <1>8, <2>1, <2>2 DEF TurnsAreSpaced
  <2> QED
    BY <2>1, <2>3, TickSteps, Constants
<1>9. TurnsAreSpaced'
  BY <1>6, <1>7, <1>8 DEF TurnsAreSpaced
<1>10. lead' \in Nat /\ caller' \in [Callers -> Jobs]
  BY TickSteps
<1>11. clock' = 1 - clock /\ UNCHANGED <<interval, asked, smooth, abandons>>
  BY DEF Tick
<1>12. TypeOK' /\ SpacingRecovers'
  BY <1>2, <1>10, <1>11 DEF TypeOK, SpacingRecovers
<1> QED
  BY <1>3, <1>9, <1>12

LEMMA InitKeeps == Init => IInv
<1> SUFFICES ASSUME Init PROVE IInv
  OBVIOUS
<1>1. Idle \in Jobs /\ Idle.pc = "idle" /\ Idle.owed = 0 /\ Idle.left = 0
  BY IdleIsJob DEF Idle
<1>2. \A c \in Callers : caller[c] = Idle
  BY DEF Init
<1>3. TypeOK
  BY <1>1, RecoveryReachesTheFloor, GateAssumption, Constants DEF Init, TypeOK
<1>4. SpacingRecovers
  BY RecoveryReachesTheFloor, Constants DEF Init, SpacingRecovers
<1>5. SleepsAsAsked
  BY <1>1, <1>2 DEF SleepsAsAsked
<1>6. TurnsAreSpaced
  BY <1>1, <1>2, Constants DEF Init, TurnsAreSpaced, Ahead
<1> QED
  BY <1>3, <1>4, <1>5, <1>6 DEF IInv

LEMMA StutterKeeps ==
    ASSUME IInv, UNCHANGED vars
    PROVE  IInv'
  BY DEF IInv, vars, gateVars, history, TypeOK, SpacingRecovers, SleepsAsAsked, TurnsAreSpaced, Ahead

LEMMA NextKeeps == IInv /\ [Next]_vars => IInv'
<1> SUFFICES ASSUME IInv, [Next]_vars PROVE IInv'
  OBVIOUS
<1>1. CASE Tick
  BY <1>1, TickKeeps
<1>2. ASSUME NEW c \in Callers, Step(c)
      PROVE  IInv'
  BY <1>2, CallerStepKeeps, ReserveKeeps DEF Step
<1>3. CASE UNCHANGED vars
  BY <1>3, StutterKeeps
<1> QED
  BY <1>1, <1>2, <1>3 DEF Next

LEMMA Invariant == Spec => []IInv
  BY InitKeeps, NextKeeps, PTL DEF Spec

(***************************************************************************)
(* What is promised.                                                       *)
(***************************************************************************)

\* The spacing stays between its floor and its ceiling and is back at the floor
\* after Recovery successes; turns and sleeps are as long as they must be.
THEOREM GateIsKept == Spec => []GateInv
<1>1. IInv => GateInv
  <2> SUFFICES ASSUME IInv PROVE FloorIsRegained
    BY DEF IInv, GateInv
  <2> QED
    BY RecoveryReachesTheFloor, Constants DEF IInv, TypeOK, SpacingRecovers, FloorIsRegained
<1> QED
  BY <1>1, Invariant, PTL

\* No attempt goes out before the time its own refusal asked for.
THEOREM RefusalsAreHonoured == Spec => RetryAfterHonoured
<1> DEFINE Honours == \A c \in Callers :
                         asked' # asked /\ caller'[c] # caller[c] => caller[c].owed = 0
<1>1. IInv /\ [Next]_vars => [Honours]_vars
  <2> SUFFICES ASSUME IInv, Next PROVE Honours
    OBVIOUS
  <2>1. caller \in [Callers -> Jobs]
    BY DEF IInv, TypeOK
  <2>2. CASE Tick
    BY <2>2 DEF Tick
  <2>3. ASSUME NEW c \in Callers, Step(c)
        PROVE  Honours
    <3>1. CASE Ask(c)
      <4>1. \A d \in Callers \ {c} : caller'[d] = caller[d]
        BY <2>1, <3>1 DEF Ask, Put
      <4>2. caller[c].owed = 0
        BY <3>1 DEF Ask, IInv, SleepsAsAsked
      <4> QED
        BY <4>1, <4>2
    <3>2. CASE ~Ask(c)
      BY <2>3, <3>2 DEF Step, Get, Reserve, Succeed, Refuse, Retry, Fail, Abandon, history
    <3> QED
      BY <3>1, <3>2
  <2> QED
    BY <2>2, <2>3 DEF Next
<1> QED
  BY <1>1, Invariant, PTL DEF Spec, RetryAfterHonoured

(***************************************************************************)
(* The gate implements RatePromise.  The time since the last turn pays for *)
(* the next: a turn that comes up moves a spacing's worth from since to the*)
(* callers that are late, and asking spends it.                            *)
(***************************************************************************)

\* Turns cost a spacing each.
LEMMA Turns ==
    /\ \A n \in Nat : MinInterval * n \in Nat /\ MinInterval * (n + 1) = MinInterval * n + MinInterval
    /\ \A m, n \in Nat : m <= n => MinInterval * m <= MinInterval * n
  BY Constants

\* What is promised can be saved up to a turn for every caller and one more.
LEMMA PromisedRange ==
    ASSUME TypeOK
    PROVE  /\ Cardinality(Callers) \in Nat /\ IsFiniteSet(Late) /\ Cardinality(Late) \in Nat
           /\ Promised \in 0 .. MinInterval * (Cardinality(Callers) + 1)
<1>1. IsFiniteSet(Callers) /\ Late \in SUBSET Callers
  BY GateAssumption DEF Late
<1>2. IsFiniteSet(Late) /\ Cardinality(Late) <= Cardinality(Callers)
  BY <1>1, FS_Subset
<1>3. Cardinality(Late) \in Nat /\ Cardinality(Callers) \in Nat
  BY <1>1, <1>2, FS_CardinalityType
<1>4. MinInterval * Cardinality(Late) \in Nat /\ MinInterval * Cardinality(Callers) \in Nat
      /\ MinInterval * Cardinality(Late) <= MinInterval * Cardinality(Callers)
      /\ MinInterval * (Cardinality(Callers) + 1) = MinInterval * Cardinality(Callers) + MinInterval
  BY <1>2, <1>3, Turns
<1>5. since \in 0 .. MinInterval
  BY DEF TypeOK
<1> QED
  BY <1>1, <1>2, <1>3, <1>4, <1>5, Constants DEF Promised

\* One caller more, or one less, is late.
LEMMA OneMoreLate ==
    ASSUME TypeOK, NEW c \in Callers \ Late, Late' = Late \cup {c}
    PROVE  MinInterval * Cardinality(Late') = MinInterval * Cardinality(Late) + MinInterval
<1>1. IsFiniteSet(Late) /\ Cardinality(Late) \in Nat
  BY PromisedRange
<1>2. Cardinality(Late') = Cardinality(Late) + 1
  BY <1>1, FS_AddElement
<1> QED
  BY <1>1, <1>2, Turns

LEMMA OneLessLate ==
    ASSUME TypeOK, NEW c \in Late, Late' = Late \ {c}
    PROVE  /\ MinInterval * Cardinality(Late) = MinInterval * Cardinality(Late') + MinInterval
           /\ Cardinality(Late') \in Nat /\ MinInterval * Cardinality(Late') \in Nat
<1>1. IsFiniteSet(Late) /\ Cardinality(Late) \in Nat
  BY PromisedRange
<1>2. Cardinality(Late') = Cardinality(Late) - 1 /\ IsFiniteSet(Late')
  BY <1>1, FS_RemoveElement
<1>3. Cardinality(Late') \in Nat /\ Cardinality(Late) = Cardinality(Late') + 1
  BY <1>1, <1>2, FS_CardinalityType
<1> QED
  BY <1>3, Turns

\* The same of the states before and after a step.
Savings == 0 .. MinInterval * (Cardinality(Callers) + 1)

LEMMA CreditBefore == IInv => Promised \in Savings
  BY PromisedRange DEF IInv, Savings

LEMMA CreditAfter == IInv' => (Promised \in Savings)'
  BY CreditBefore, PTL

\* A step that does not ask, within a tick, and promises no more.
LEMMA ForfeitStep ==
    ASSUME IInv, IInv', UNCHANGED <<clock, asked>>, Promised' <= Promised
    PROVE  Promise!Forfeit
<1>1. Promised' \in Savings
  BY CreditAfter DEF Savings
<1> QED
  BY <1>1 DEF Promise!Forfeit, Promise!Credits, Savings

\* A caller that changes its place may become late, or cease to be.
LEMMA LateAfterPut ==
    ASSUME TypeOK, NEW c \in Callers, NEW job, Put(c, job)
    PROVE  Late' = IF job.pc = "waiting" /\ job.left = 0 THEN Late \cup {c} ELSE Late \ {c}
<1>1. caller'[c] = job /\ \A d \in Callers \ {c} : caller'[d] = caller[d]
  BY DEF TypeOK, Put
<1>2. Late' = {d \in Callers : caller'[d].pc = "waiting" /\ caller'[d].left = 0}
  BY DEF Late
<1> QED
  BY <1>1, <1>2 DEF Late

\* The steps that leave no one late who was not.
LEMMA QuietStep ==
    ASSUME IInv, IInv', UNCHANGED <<clock, asked, since>>, Late' \subseteq Late
    PROVE  Promise!Forfeit
<1>1. IsFiniteSet(Late) /\ Cardinality(Late) \in Nat
  BY PromisedRange DEF IInv
<1>2. Cardinality(Late') \in Nat /\ Cardinality(Late') <= Cardinality(Late)
  BY <1>1, FS_Subset, FS_CardinalityType
<1>3. /\ MinInterval * Cardinality(Late') \in Nat /\ MinInterval * Cardinality(Late) \in Nat
      /\ MinInterval * Cardinality(Late') <= MinInterval * Cardinality(Late)
  BY <1>1, <1>2, Turns
<1>4. since \in Nat
  BY Constants DEF IInv, TypeOK
<1>5. Promised' <= Promised
  BY <1>3, <1>4 DEF Promised
<1> QED
  BY <1>5, ForfeitStep

\* Where the other steps put their caller.
LEMMA PlaceAfterStep ==
    ASSUME IInv, NEW c \in Callers, Step(c), ~Reserve(c), ~Ask(c)
    PROVE  \E job : Put(c, job) /\ job.pc \in {"queueing", "pausing", "idle"}
<1>0. caller[c] \in Jobs
  BY DEF IInv, TypeOK
<1>1. Idle.pc = "idle" /\ [Idle EXCEPT !.pc = "queueing"].pc = "queueing"
  BY DEF Idle
<1>2. CASE Get(c)
  BY <1>1, <1>2 DEF Get
<1>3. CASE Succeed(c) \/ Fail(c) \/ Abandon(c)
  BY <1>1, <1>3 DEF Succeed, Fail, Abandon
<1>4. CASE Retry(c)
  <2>1. [caller[c] EXCEPT !.pc = "queueing"].pc = "queueing"
    BY <1>0 DEF Jobs
  <2> QED
    BY <1>4, <2>1 DEF Retry
<1>5. CASE Refuse(c)
  BY <1>1, <1>5 DEF Refuse
<1> QED
  BY <1>2, <1>3, <1>4, <1>5 DEF Step

LEMMA ReserveForfeits ==
    ASSUME IInv, IInv', NEW c \in Callers, Reserve(c)
    PROVE  Promise!Forfeit
<1>0. TypeOK
  BY DEF IInv
<1> DEFINE job == [caller[c] EXCEPT !.pc = "waiting", !.left = lead]
<1>1. Put(c, job) /\ job.pc = "waiting" /\ job.left = lead /\ c \notin Late
  BY <1>0 DEF Reserve, TypeOK, Jobs, Late
<1> HIDE DEF job
<1>2. UNCHANGED <<clock, asked>> /\ since' = IF lead = 0 THEN 0 ELSE since
  BY DEF Reserve
<1>3. CASE lead = 0
  <2>1. Late' = Late \cup {c}
    BY <1>0, <1>1, <1>3, LateAfterPut
  <2>2. MinInterval * Cardinality(Late') = MinInterval * Cardinality(Late) + MinInterval
    BY <1>0, <1>1, <2>1, OneMoreLate
  <2>3. since' = 0 /\ since = MinInterval
    BY <1>2, <1>3, Constants DEF IInv, TypeOK, TurnsAreSpaced
  <2>4. MinInterval * Cardinality(Late) \in Nat
    BY <1>0, PromisedRange, Turns
  <2>5. Promised' <= Promised
    BY <2>2, <2>3, <2>4, Constants DEF Promised
  <2> QED
    BY <1>2, <2>5, ForfeitStep
<1>4. CASE lead # 0
  <2>1. Late' = Late \ {c}
    BY <1>0, <1>1, <1>4, LateAfterPut
  <2> QED
    BY <1>2, <1>4, <2>1, QuietStep
<1> QED
  BY <1>3, <1>4

LEMMA AskSpends ==
    ASSUME IInv, IInv', NEW c \in Callers, Ask(c)
    PROVE  Promise!Spend("endpoint")
<1>0. TypeOK
  BY DEF IInv
<1> DEFINE job == [caller[c] EXCEPT !.pc = "asking"]
<1>1. Put(c, job) /\ job.pc = "asking" /\ c \in Late
  BY <1>0 DEF Ask, TypeOK, Jobs, Late
<1> HIDE DEF job
<1>2. Late' = Late \ {c}
  BY <1>0, <1>1, LateAfterPut
<1>3. /\ MinInterval * Cardinality(Late) = MinInterval * Cardinality(Late') + MinInterval
      /\ MinInterval * Cardinality(Late') \in Nat
  BY <1>0, <1>1, <1>2, OneLessLate
<1>4. since' = since /\ since \in Nat
  BY <1>0, Constants DEF Ask, TypeOK
<1>5. Promised' = Promised - MinInterval /\ Promised >= MinInterval
  BY <1>3, <1>4, Constants DEF Promised
<1>6. Promised' \in Savings
  BY CreditAfter DEF Savings
<1>7. asked' # asked /\ UNCHANGED clock
  BY <1>0 DEF Ask, TypeOK
<1> QED
  BY <1>5, <1>6, <1>7 DEF Promise!Spend, Promise!Credits, Savings

LEMMA TickEarns ==
    ASSUME IInv, IInv', Tick
    PROVE  Promise!Earn
<1>0. TypeOK
  BY DEF IInv
<1> DEFINE due == {c \in Callers : caller[c].pc = "waiting" /\ caller[c].left = 1}
<1>1. Late' = Late \cup due
  <2>1. Late' = {c \in Callers : caller'[c].pc = "waiting" /\ caller'[c].left = 0}
    BY DEF Late
  <2> QED
    BY <2>1, TickSteps DEF Late
<1>2. since' = (IF due # {} THEN 0 ELSE Least(since + 1, MinInterval)) /\ since \in Nat
  <2>1. due # {} <=> \E c \in Callers : caller[c].pc = "waiting" /\ caller[c].left = 1
    OBVIOUS
  <2>2. since' = (IF \E c \in Callers : caller[c].pc = "waiting" /\ caller[c].left = 1
                  THEN 0 ELSE Least(since + 1, MinInterval))
    BY DEF Tick
  <2>3. since \in Nat
    BY <1>0, Constants DEF TypeOK
  <2> QED
    BY <2>1, <2>2, <2>3
<1>3. MinInterval * Cardinality(Late) \in Nat
  BY <1>0, PromisedRange, Turns
<1>4. Promised' <= Promised + 1
  <2>1. CASE due = {}
    <3>1. Late' = Late
      BY <1>1, <2>1
    <3>2. since' <= since + 1
      BY <1>2, <2>1, Constants DEF Least
    <3>3. since' \in Int
      BY <1>2, <2>1, Constants DEF Least
    <3> QED
      BY <1>2, <1>3, <3>1, <3>2, <3>3 DEF Promised
  <2>2. CASE due # {}
    <3>1. PICK c \in due : TRUE
      BY <2>2
    <3>2. \A d \in due : Ahead(d) /\ caller[d].left = 1
      BY DEF Ahead
    <3>3. due = {c}
      BY <3>1, <3>2, Constants DEF IInv, TurnsAreSpaced
    <3>4. c \in Callers \ Late /\ Late' = Late \cup {c}
      BY <1>1, <3>1, <3>3 DEF Late
    <3>5. MinInterval * Cardinality(Late') = MinInterval * Cardinality(Late) + MinInterval
      BY <1>0, <3>4, OneMoreLate
    <3>6. since + 1 >= MinInterval
      BY <3>1, <3>2 DEF IInv, TurnsAreSpaced
    <3> QED
      BY <1>2, <1>3, <2>2, <3>5, <3>6, Constants DEF Promised
  <2> QED
    BY <2>1, <2>2
<1>5. Promised' \in Savings
  BY CreditAfter DEF Savings
<1>6. clock' = 1 - clock /\ clock \in {0, 1} /\ UNCHANGED asked
  BY <1>0 DEF Tick, TypeOK
<1>7. clock' # clock
  BY <1>6
<1> QED
  BY <1>6, <1>7, <1>4, <1>5, <1>6 DEF Promise!Earn, Promise!Credits, Savings

\* However many callers share the gate, and whatever is refused, retried or
\* given up, the endpoint is asked once per MinInterval but for callers whose
\* timers fired late.
THEOREM GateKeepsItsRate == Spec => KeepsItsRate
<1>1. Init => Promise!Init
  BY InitKeeps, CreditBefore DEF Promise!Init, Promise!Credits, Savings
<1>2. IInv /\ IInv' /\ [Next]_vars => [Promise!Next]_(Promise!vars)
  <2> SUFFICES ASSUME IInv, IInv', [Next]_vars
               PROVE  Promise!Next \/ UNCHANGED Promise!vars
    OBVIOUS
  <2>1. CASE Tick
    BY <2>1, TickEarns DEF Promise!Next
  <2>2. ASSUME NEW c \in Callers, Step(c)
        PROVE  Promise!Next
    <3>1. CASE Reserve(c)
      BY <3>1, ReserveForfeits DEF Promise!Next
    <3>2. CASE Ask(c)
      BY <3>2, AskSpends DEF Promise!Next
    <3>3. CASE ~Reserve(c) /\ ~Ask(c)
      <4>1. UNCHANGED <<clock, asked, since>>
        BY <2>2, <3>3 DEF Step, Get, Succeed, Refuse, Retry, Fail, Abandon, history
      <4>2. PICK job : Put(c, job) /\ job.pc \in {"queueing", "pausing", "idle"}
        BY <2>2, <3>3, PlaceAfterStep
      <4>3. Late' = Late \ {c}
        BY <4>2, LateAfterPut DEF IInv
      <4> QED
        BY <4>1, <4>3, QuietStep DEF Promise!Next
    <3> QED
      BY <3>1, <3>2, <3>3
  <2>3. CASE UNCHANGED vars
    <3>1. Late' = Late
      BY <2>3 DEF vars, Late
    <3>2. Promised' = Promised /\ UNCHANGED <<clock, asked>>
      BY <2>3, <3>1 DEF vars, history, Promised
    <3> QED
      BY <3>2 DEF Promise!vars
  <2> QED
    BY <2>1, <2>2, <2>3 DEF Next
<1> QED
  BY <1>1, <1>2, Invariant, PTL DEF Spec, KeepsItsRate, Promise!Spec
=============================================================================
