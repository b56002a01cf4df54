--------------------------- MODULE SiteSweepProofs --------------------------
(***************************************************************************)
(* What the scheduler promises for every value of its constants, and what  *)
(* keeping the exhibitions current guarantees for any number of sites,     *)
(* sweepers and listings: that the state is well typed, that two sweepers  *)
(* never have one site in hand, and that consecutive_failures is what its  *)
(* name says.                                                              *)
(***************************************************************************)
EXTENDS SiteSweep, ScheduleHistory, TLAPS

(***************************************************************************)
(* The scheduler, over the history of one site.                            *)
(***************************************************************************)

\* A retry comes strictly after the failure, and after no more than 32 gaps.
LEMMA BackoffBounds ==
    ASSUME NEW failures \in Nat \ {0}
    PROVE  /\ Backoff(failures) \in Nat
           /\ Backoff(failures) > 0
           /\ Backoff(failures) <= 32 * FailureBackoff
<1> DEFINE n == IF failures > 6 THEN 6 ELSE failures
<1> DEFINE gaps == <<1, 2, 4, 8, 16, 32>>[n]
<1>1. n \in 1 .. 6
  OBVIOUS
<1>2. gaps \in 1 .. 32
  BY <1>1
<1>3. Backoff(failures) = FailureBackoff * gaps
  BY DEF Backoff
<1> HIDE DEF gaps
<1>4. FailureBackoff \in Nat \ {0}
  BY FailureAssumption
<1> QED
  BY <1>2, <1>3, <1>4

\* Within the doublings, a longer run of failures waits longer.
LEMMA BackoffDoubles ==
    ASSUME NEW failures \in 1 .. 5
    PROVE  Backoff(failures) < Backoff(failures + 1)
<1>1. FailureBackoff \in Nat \ {0}
  BY FailureAssumption
<1>2. failures = 1 \/ failures = 2 \/ failures = 3 \/ failures = 4 \/ failures = 5
  OBVIOUS
<1> QED
  BY <1>1, <1>2 DEF Backoff

LEMMA ClampBounds ==
    ASSUME NEW interval \in Int
    PROVE  Clamp(interval) \in MinInterval .. MaxInterval
BY IntervalAssumption DEF Clamp

LEMMA AdaptedBounds ==
    ASSUME NEW interval \in Nat, NEW outcome
    PROVE  Adapted(interval, outcome) \in MinInterval .. MaxInterval
<1>1. CASE interval <= 0
  BY <1>1, IntervalAssumption DEF Adapted
<1>2. CASE interval > 0
  <2>1. Lengthen(interval) \in Int /\ Shorten(interval) \in Int
    BY DEF Lengthen, Shorten
  <2> QED
    BY <1>2, <2>1, ClampBounds DEF Adapted
<1> QED
  BY <1>1, <1>2

\* A closing date moves a plan to an earlier instant, but never to the past.
LEMMA RecheckBounds ==
    ASSUME NEW due \in Int, NEW at \in Int, NEW soonestClose \in Int \cup {None},
           at < due
    PROVE  /\ NoLaterThanRecheck(due, soonestClose, at) \in Int
           /\ NoLaterThanRecheck(due, soonestClose, at) > at
           /\ NoLaterThanRecheck(due, soonestClose, at) <= due
           /\ (soonestClose # None /\ at < soonestClose + RecheckAfterClose)
                 => NoLaterThanRecheck(due, soonestClose, at)
                       <= soonestClose + RecheckAfterClose
<1>1. CASE soonestClose = None
  BY <1>1 DEF NoLaterThanRecheck
<1>2. CASE soonestClose # None
  <2>1. soonestClose + RecheckAfterClose \in Int
    BY <1>2, RecheckAssumption
  <2> QED
    BY <1>2, <2>1 DEF NoLaterThanRecheck
<1> QED
  BY <1>1, <1>2

\* Whatever the read produced, the plan is one a row can hold, it lies strictly
\* after the read, and its interval is within the floor and the ceiling once
\* the site has one (schedule.go, Next).
THEOREM PlanIsAhead ==
    ASSUME NEW known \in State, NEW outcome \in Outcome,
           NEW soonestClose \in Int \cup {None}, NEW at \in Int
    PROVE  LET plan == PlanNext(known, outcome, soonestClose, at) IN
           /\ plan \in Plan
           /\ plan.due > at
           /\ known.interval \in {0} \cup MinInterval .. MaxInterval
                 => plan.interval \in MinInterval .. MaxInterval
<1> DEFINE plan == PlanNext(known, outcome, soonestClose, at)
<1>0. known.interval \in Nat /\ known.failures \in Nat
  BY DEF State
<1>1. CASE outcome = "failed"
  <2> DEFINE failures == known.failures + 1
  <2>1. /\ failures \in Nat \ {0}
        /\ Backoff(failures) \in Nat \ {0}
    BY <1>0, BackoffBounds
  <2>2. /\ Known(known.interval) \in Nat
        /\ known.interval \in {0} \cup MinInterval .. MaxInterval
              => Known(known.interval) \in MinInterval .. MaxInterval
    BY <1>0, IntervalAssumption DEF Known
  <2>3. plan = [interval |-> Known(known.interval),
                due      |-> at + (IF failures >= MaxFailures THEN MaxInterval
                                    ELSE Backoff(failures)),
                failures |-> failures,
                park     |-> failures >= MaxFailures]
    BY <1>1 DEF PlanNext, AfterFailure
  <2>4. MaxInterval \in Nat \ {0}
    BY IntervalAssumption
  <2>5. (failures >= MaxFailures) \in BOOLEAN
    OBVIOUS
  <2> HIDE DEF failures
  <2> QED
    BY <2>1, <2>2, <2>3, <2>4, <2>5 DEF Plan
<1>2. CASE outcome # "failed"
  <2> DEFINE interval == Adapted(known.interval, outcome)
  <2>1. interval \in MinInterval .. MaxInterval
    BY <1>0, AdaptedBounds
  <2>2. interval \in Nat /\ at + interval \in Int /\ at < at + interval
    BY <2>1, IntervalAssumption
  <2> DEFINE due == NoLaterThanRecheck(at + interval, soonestClose, at)
  <2> HIDE DEF interval
  <2>3. due \in Int /\ due > at
    BY <2>2, RecheckBounds
  <2> HIDE DEF due
  <2>4. plan = [interval |-> interval, due |-> due, failures |-> 0, park |-> FALSE]
    BY <1>2 DEF PlanNext, AfterSuccess, interval, due
  <2> QED
    BY <2>1, <2>2, <2>3, <2>4 DEF Plan
<1> QED
  BY <1>1, <1>2

-----------------------------------------------------------------------------
(***************************************************************************)
(* Any history of reads.                                                   *)
(***************************************************************************)

\* The strengthening: how the wait came about.
WaitExplained ==
    /\ ReadAgainInTime
    /\ (state.failures > 0 /\ ~parked)
          => state.failures < MaxFailures /\ wait = Backoff(state.failures)

LEMMA SoonestIsDate ==
    ASSUME NEW soonest \in ClosingDates
    PROVE  soonest \in Int \cup {None}
BY HistoryAssumption

LEMMA CountedType ==
    ASSUME HistoryTypeOK, NEW outcome \in Outcome
    PROVE  Counted(outcome) \in [changed : 0 .. ReadsToFloor, unchanged : 0 .. ReadsToCeiling]
<1>1. streaks.changed \in 0 .. ReadsToFloor /\ streaks.unchanged \in 0 .. ReadsToCeiling
  BY DEF HistoryTypeOK
<1>2. ReadsToFloor \in Nat /\ ReadsToCeiling \in Nat
  BY HistoryAssumption
<1> QED
  BY <1>1, <1>2 DEF HistoryTypeOK, Counted, Outcome

\* One read: what it plans, in the terms of the variables.
LEMMA ReadPlans ==
    ASSUME HistoryTypeOK, NEW outcome \in Outcome, NEW soonest \in ClosingDates,
           Read(outcome, soonest)
    PROVE  /\ state' \in State
           /\ state'.interval \in MinInterval .. MaxInterval
           /\ wait' \in 1 .. MaxInterval
           /\ parked' \in BOOLEAN
           /\ outcome = "failed" =>
                 /\ state'.failures = state.failures + 1
                 /\ parked' = (state'.failures >= MaxFailures)
                 /\ wait' = IF state'.failures >= MaxFailures
                            THEN MaxInterval ELSE Backoff(state'.failures)
           /\ outcome # "failed" =>
                 /\ state'.failures = 0
                 /\ (soonest # None /\ soonest + RecheckAfterClose > 0)
                       => wait' <= soonest + RecheckAfterClose
<1> DEFINE plan == PlanNext(state, outcome, soonest, 0)
<1>0. /\ state \in State
      /\ state.interval \in {0} \cup MinInterval .. MaxInterval
      /\ state.failures \in Nat /\ state.interval \in Nat
      /\ soonest \in Int \cup {None}
  BY SoonestIsDate DEF HistoryTypeOK, State
<1>1. /\ plan \in Plan
      /\ plan.due > 0
      /\ plan.interval \in MinInterval .. MaxInterval
  BY <1>0, PlanIsAhead
<1>2. /\ state' = [interval |-> plan.interval, failures |-> plan.failures]
      /\ wait' = plan.due
      /\ parked' = plan.park
  BY DEF Read
<1>3. /\ state' \in State
      /\ state'.interval = plan.interval
      /\ state'.failures = plan.failures
      /\ parked' \in BOOLEAN
      /\ wait' \in Int /\ wait' > 0
  BY <1>1, <1>2 DEF Plan, State
<1>4. MaxInterval \in Nat /\ FailureBackoff \in Nat /\ 32 * FailureBackoff < MaxInterval
  BY IntervalAssumption, FailureAssumption, BackoffAssumption
<1>5. CASE outcome = "failed"
  <2>1. plan = AfterFailure(state, 0)
    BY <1>5 DEF PlanNext
  <2>2. /\ plan.failures = state.failures + 1
        /\ plan.park = (state.failures + 1 >= MaxFailures)
        /\ plan.due = 0 + (IF state.failures + 1 >= MaxFailures
                           THEN MaxInterval ELSE Backoff(state.failures + 1))
    <3> DEFINE park == state.failures + 1 >= MaxFailures
    <3> DEFINE due == 0 + (IF park THEN MaxInterval ELSE Backoff(state.failures + 1))
    <3>1. plan = [interval |-> Known(state.interval), due |-> due,
                  failures |-> state.failures + 1, park |-> park]
      BY <2>1 DEF AfterFailure
    <3> HIDE DEF plan, park, due
    <3>2. plan.failures = state.failures + 1 /\ plan.park = park /\ plan.due = due
      BY <3>1
    <3> QED
      BY <3>2 DEF park, due
  <2>3. Backoff(state.failures + 1) \in Nat /\ Backoff(state.failures + 1) <= 32 * FailureBackoff
    BY <1>0, BackoffBounds
  <2> HIDE DEF plan
  <2>4. plan.due = IF state.failures + 1 >= MaxFailures
                   THEN MaxInterval ELSE Backoff(state.failures + 1)
    BY <2>2, <2>3, <1>4
  <2>5. wait' \in 1 .. MaxInterval
    BY <2>3, <2>4, <1>2, <1>3, <1>4
  <2> QED
    BY <1>1, <1>2, <1>3, <1>5, <2>2, <2>4, <2>5
<1>6. CASE outcome # "failed"
  <2> DEFINE interval == Adapted(state.interval, outcome)
  <2>1. plan = AfterSuccess(state, outcome, soonest, 0)
    BY <1>6 DEF PlanNext
  <2>2. /\ plan.failures = 0
        /\ plan.due = NoLaterThanRecheck(0 + interval, soonest, 0)
    BY <2>1 DEF AfterSuccess
  <2>3. interval \in MinInterval .. MaxInterval
    BY <1>0, AdaptedBounds
  <2> HIDE DEF plan, interval
  <2>4. interval \in Int /\ 0 < 0 + interval /\ 0 + interval \in Int /\ interval <= MaxInterval
    BY <2>3, IntervalAssumption
  <2>5. /\ plan.due \in Int
        /\ plan.due > 0
        /\ plan.due <= 0 + interval
        /\ (soonest # None /\ 0 < soonest + RecheckAfterClose)
              => plan.due <= soonest + RecheckAfterClose
    BY <2>2, <2>4, <1>0, RecheckBounds
  <2>6. plan.due \in 1 .. MaxInterval
    BY <2>4, <2>5, <1>4
  <2>7. (soonest # None /\ soonest + RecheckAfterClose > 0)
           => plan.due <= soonest + RecheckAfterClose
    BY <2>5, <1>0, RecheckAssumption
  <2> QED
    BY <1>1, <1>2, <1>3, <1>6, <2>2, <2>6, <2>7
<1> QED
  BY <1>5, <1>6

LEMMA HistoryStarts == HistoryInit => HistoryTypeOK /\ WaitExplained /\ ClosingIsRechecked
<1> SUFFICES ASSUME HistoryInit PROVE HistoryTypeOK /\ WaitExplained /\ ClosingIsRechecked
  OBVIOUS
<1> USE IntervalAssumption, FailureAssumption, HistoryAssumption DEF HistoryInit
<1>1. state \in State /\ state.interval \in {0} \cup MinInterval .. MaxInterval
  BY DEF State
<1>2. /\ last \in [outcome : Outcome \cup {"none"}, soonest : ClosingDates]
      /\ streaks \in [changed : 0 .. ReadsToFloor, unchanged : 0 .. ReadsToCeiling]
  OBVIOUS
<1>3. wait \in Int
  OBVIOUS
<1>4. parked \in BOOLEAN
  OBVIOUS
<1>5. last.outcome = "none"
  OBVIOUS
<1>6. state.failures = 0
  OBVIOUS
<1> HIDE DEF HistoryInit
<1>7. WaitExplained /\ ClosingIsRechecked
  BY <1>5, <1>6 DEF WaitExplained, ReadAgainInTime, ClosingIsRechecked
<1> QED
  BY <1>1, <1>2, <1>3, <1>7, <1>4 DEF HistoryTypeOK

LEMMA HistoryContinues ==
    ASSUME HistoryTypeOK, WaitExplained, ClosingIsRechecked, [HistoryNext]_history
    PROVE  HistoryTypeOK' /\ WaitExplained' /\ ClosingIsRechecked'
<1>1. CASE UNCHANGED history
  BY <1>1 DEF history, HistoryTypeOK, WaitExplained, ReadAgainInTime, ClosingIsRechecked
<1>2. ASSUME NEW outcome \in Outcome, NEW soonest \in ClosingDates, Read(outcome, soonest)
      PROVE  HistoryTypeOK' /\ WaitExplained' /\ ClosingIsRechecked'
  <2>1. /\ state' \in State
        /\ state'.interval \in MinInterval .. MaxInterval
        /\ wait' \in 1 .. MaxInterval
        /\ parked' \in BOOLEAN
        /\ outcome = "failed" =>
              /\ state'.failures = state.failures + 1
              /\ parked' = (state'.failures >= MaxFailures)
              /\ wait' = IF state'.failures >= MaxFailures
                         THEN MaxInterval ELSE Backoff(state'.failures)
        /\ outcome # "failed" =>
              /\ state'.failures = 0
              /\ (soonest # None /\ soonest + RecheckAfterClose > 0)
                    => wait' <= soonest + RecheckAfterClose
    BY <1>2, ReadPlans
  <2>2. last' = [outcome |-> outcome, soonest |-> soonest]
    BY <1>2 DEF Read
  <2>3. streaks' \in [changed : 0 .. ReadsToFloor, unchanged : 0 .. ReadsToCeiling]
    BY <1>2, CountedType DEF Read, HistoryTypeOK
  <2>4. HistoryTypeOK'
    <3>1. last' \in [outcome : Outcome \cup {"none"}, soonest : ClosingDates]
      BY <2>2, <1>2
    <3> QED
      BY <2>1, <2>3, <3>1, IntervalAssumption DEF HistoryTypeOK
  <2>5. ReadAgainInTime'
    BY <2>1 DEF ReadAgainInTime
  <2>6. (state'.failures > 0 /\ ~parked')
           => state'.failures < MaxFailures /\ wait' = Backoff(state'.failures)
    BY <2>1, FailureAssumption DEF State
  <2>7. ClosingIsRechecked'
    <3>1. last'.outcome = outcome /\ last'.soonest = soonest
      BY <2>2
    <3> QED
      BY <2>1, <3>1 DEF ClosingIsRechecked
  <2> QED
    BY <2>4, <2>5, <2>6, <2>7 DEF WaitExplained
<1> QED
  BY <1>1, <1>2 DEF HistoryNext

\* Whatever the outcomes and closing dates of its reads, a site is read again
\* after the last read and within the ceiling of it (schedule.go, Next).
THEOREM HistoryIsTimely == HistorySpec => []ReadAgainInTime
<1>1. HistoryInit => HistoryTypeOK /\ WaitExplained /\ ClosingIsRechecked
  BY HistoryStarts
<1>2. HistoryTypeOK /\ WaitExplained /\ ClosingIsRechecked /\ [HistoryNext]_history
         => HistoryTypeOK' /\ WaitExplained' /\ ClosingIsRechecked'
  BY HistoryContinues
<1>3. WaitExplained => ReadAgainInTime
  BY DEF WaitExplained
<1> QED
  BY <1>1, <1>2, <1>3, PTL DEF HistorySpec

\* After a successful read the site is due by the recheck that follows the
\* soonest closing it was told of (schedule.go, "A known closing date beats any
\* inference about the site's rate").
THEOREM HistoryHonoursClosings == HistorySpec => [](HistoryTypeOK /\ ClosingIsRechecked)
<1>1. HistoryInit => HistoryTypeOK /\ WaitExplained /\ ClosingIsRechecked
  BY HistoryStarts
<1>2. HistoryTypeOK /\ WaitExplained /\ ClosingIsRechecked /\ [HistoryNext]_history
         => HistoryTypeOK' /\ WaitExplained' /\ ClosingIsRechecked'
  BY HistoryContinues
<1> QED
  BY <1>1, <1>2, PTL DEF HistorySpec

\* Each failure in a row is retried later than the one before it (schedule.go,
\* failureBackoff): the doubling never meets its cap before the site is parked.
THEOREM HistoryBacksOff == HistorySpec => BackoffGrows
<1>1. HistoryInit => HistoryTypeOK /\ WaitExplained /\ ClosingIsRechecked
  BY HistoryStarts
<1>2. HistoryTypeOK /\ WaitExplained /\ ClosingIsRechecked /\ [HistoryNext]_history
         => HistoryTypeOK' /\ WaitExplained' /\ ClosingIsRechecked'
  BY HistoryContinues
<1>3. HistoryTypeOK /\ WaitExplained /\ [HistoryNext]_history
         => [(state.failures > 0 /\ state'.failures > state.failures) => wait' > wait]_history
  <2> SUFFICES ASSUME HistoryTypeOK, WaitExplained,
                      NEW outcome \in Outcome, NEW soonest \in ClosingDates,
                      Read(outcome, soonest),
                      state.failures > 0, state'.failures > state.failures
               PROVE  wait' > wait
    BY DEF HistoryNext
  <2>1. ~parked /\ state.failures \in Nat
    BY DEF Read, HistoryTypeOK, State
  <2>2. state.failures < MaxFailures /\ wait = Backoff(state.failures)
    BY <2>1 DEF WaitExplained
  <2>3. /\ state'.failures = state.failures + 1
        /\ wait' = IF state'.failures >= MaxFailures
                   THEN MaxInterval ELSE Backoff(state'.failures)
    BY <2>1, ReadPlans
  <2>4. CASE state'.failures >= MaxFailures
    <3>1. Backoff(state.failures) \in Nat /\ Backoff(state.failures) <= 32 * FailureBackoff
      BY <2>1, BackoffBounds
    <3>2. MaxInterval \in Nat /\ FailureBackoff \in Nat /\ 32 * FailureBackoff < MaxInterval
      BY IntervalAssumption, FailureAssumption, BackoffAssumption
    <3> QED
      BY <2>2, <2>3, <2>4, <3>1, <3>2
  <2>5. CASE ~(state'.failures >= MaxFailures)
    <3>1. state.failures \in 1 .. 5
      BY <2>1, <2>3, <2>5, FailureAssumption, BackoffAssumption
    <3> QED
      BY <2>2, <2>3, <2>5, <3>1, BackoffDoubles
  <2> QED
    BY <2>4, <2>5
<1> QED
  BY <1>1, <1>2, <1>3, PTL DEF HistorySpec, BackoffGrows

-----------------------------------------------------------------------------
(***************************************************************************)
(* Intervals settle.  Adapting keeps the order of intervals, so that no     *)
(* history is further from its end than the one that started at the other  *)
(* end and met nothing but reads of one kind.  How long that one takes is   *)
(* arithmetic on the constants.                                            *)
(***************************************************************************)

\* slowest[n] is where n changed reads bring a site that was at the ceiling.
BringsToFloor(slowest) ==
    /\ slowest \in [0 .. ReadsToFloor -> Int]
    /\ slowest[0] = MaxInterval /\ slowest[ReadsToFloor] = MinInterval
    /\ \A n \in 0 .. ReadsToFloor :
          n + 1 <= ReadsToFloor => slowest[n + 1] = Clamp(Shorten(slowest[n]))

\* quickest[n] is where n unchanged reads bring a site that was at the floor.
BringsToCeiling(quickest) ==
    /\ quickest \in [0 .. ReadsToCeiling -> Int]
    /\ quickest[0] = MinInterval /\ quickest[ReadsToCeiling] = MaxInterval
    /\ \A n \in 0 .. ReadsToCeiling :
          n + 1 <= ReadsToCeiling => quickest[n + 1] = Clamp(Lengthen(quickest[n]))

\* So many reads of one kind are enough from the other end of the range.
ReadsAreEnough ==
    /\ \E slowest \in [0 .. ReadsToFloor -> Int] : BringsToFloor(slowest)
    /\ \E quickest \in [0 .. ReadsToCeiling -> Int] : BringsToCeiling(quickest)

\* With the program's two days and sixty, five changes and nine quiet reads are.
LEMMA ProgramReadsAreEnough ==
    ASSUME MinInterval = 48, MaxInterval = 1440, ReadsToFloor = 5, ReadsToCeiling = 9
    PROVE  ReadsAreEnough
<1> DEFINE slow == <<1440, 720, 360, 180, 90, 48>>
           quick == <<48, 72, 108, 162, 243, 364, 546, 819, 1228, 1440>>
           slowest == [n \in 0 .. 5 |-> slow[n + 1]]
           quickest == [n \in 0 .. 9 |-> quick[n + 1]]
<1>1. BringsToFloor(slowest)
  <2>1. /\ slowest[0] = 1440 /\ slowest[1] = 720 /\ slowest[2] = 360 /\ slowest[3] = 180
        /\ slowest[4] = 90 /\ slowest[5] = 48
    OBVIOUS
  <2>2. slowest \in [0 .. 5 -> Int]
    OBVIOUS
  <2> HIDE DEF slowest
  <2>3. \A n \in 0 .. 5 : n + 1 <= 5 => slowest[n + 1] = Clamp(Shorten(slowest[n]))
    <3> SUFFICES ASSUME NEW n \in 0 .. 5, n + 1 <= 5
                 PROVE  slowest[n + 1] = Clamp(Shorten(slowest[n]))
      OBVIOUS
    <3>1. n = 0 \/ n = 1 \/ n = 2 \/ n = 3 \/ n = 4
      OBVIOUS
    <3> QED
      BY <2>1, <3>1 DEF Clamp, Shorten
  <2> QED
    BY <2>1, <2>2, <2>3 DEF BringsToFloor
<1>2. BringsToCeiling(quickest)
  <2>1. /\ quickest[0] = 48 /\ quickest[1] = 72 /\ quickest[2] = 108 /\ quickest[3] = 162
        /\ quickest[4] = 243 /\ quickest[5] = 364 /\ quickest[6] = 546 /\ quickest[7] = 819
        /\ quickest[8] = 1228 /\ quickest[9] = 1440
    OBVIOUS
  <2>2. quickest \in [0 .. 9 -> Int]
    OBVIOUS
  <2> HIDE DEF quickest
  <2>3. \A n \in 0 .. 9 : n + 1 <= 9 => quickest[n + 1] = Clamp(Lengthen(quickest[n]))
    <3> SUFFICES ASSUME NEW n \in 0 .. 9, n + 1 <= 9
                 PROVE  quickest[n + 1] = Clamp(Lengthen(quickest[n]))
      OBVIOUS
    <3>1. n = 0 \/ n = 1 \/ n = 2 \/ n = 3 \/ n = 4 \/ n = 5 \/ n = 6 \/ n = 7 \/ n = 8
      OBVIOUS
    <3> QED
      BY <2>1, <3>1 DEF Clamp, Lengthen
  <2> QED
    BY <2>1, <2>2, <2>3 DEF BringsToCeiling
<1>3. slowest \in [0 .. ReadsToFloor -> Int] /\ quickest \in [0 .. ReadsToCeiling -> Int]
  BY <1>1, <1>2 DEF BringsToFloor, BringsToCeiling
<1> HIDE DEF slowest, quickest
<1> QED
  BY <1>1, <1>2, <1>3 DEF ReadsAreEnough

\* Adapting keeps the order of intervals, and the ends of the range.
LEMMA AdaptingIsMonotone ==
    ASSUME NEW i \in Int, NEW j \in Int, i <= j
    PROVE  /\ Clamp(Shorten(i)) <= Clamp(Shorten(j))
           /\ Clamp(Lengthen(i)) <= Clamp(Lengthen(j))
<1>1. Shorten(i) <= Shorten(j) /\ Shorten(i) \in Int /\ Shorten(j) \in Int
  BY DEF Shorten
<1>2. Lengthen(i) <= Lengthen(j) /\ Lengthen(i) \in Int /\ Lengthen(j) \in Int
  BY DEF Lengthen
<1>3. ASSUME NEW x \in Int, NEW y \in Int, x <= y PROVE Clamp(x) <= Clamp(y)
  BY <1>3, IntervalAssumption DEF Clamp
<1> QED
  BY <1>1, <1>2, <1>3

LEMMA EndsOfTheRange ==
    Clamp(Shorten(MinInterval)) = MinInterval /\ Clamp(Lengthen(MaxInterval)) = MaxInterval
  BY IntervalAssumption DEF Clamp, Shorten, Lengthen

\* A site is between the slowest and the quickest of its streaks.
Between(slowest, quickest) ==
    /\ state.interval = 0 => streaks.changed = 0 /\ streaks.unchanged = 0
    /\ state.interval # 0 => /\ state.interval <= slowest[streaks.changed]
                             /\ quickest[streaks.unchanged] <= state.interval

LEMMA ReadStaysBetween ==
    ASSUME NEW slowest, NEW quickest, BringsToFloor(slowest), BringsToCeiling(quickest),
           HistoryTypeOK, Between(slowest, quickest),
           NEW outcome \in Outcome, NEW soonest \in ClosingDates, Read(outcome, soonest)
    PROVE  Between(slowest, quickest)'
<1> DEFINE old == state.interval
           new == state'.interval
           c == streaks.changed
           u == streaks.unchanged
<1>1. /\ old \in {0} \cup MinInterval .. MaxInterval /\ new \in MinInterval .. MaxInterval
      /\ c \in 0 .. ReadsToFloor /\ u \in 0 .. ReadsToCeiling
      /\ MinInterval \in Nat \ {0} /\ MaxInterval \in Nat /\ FirstInterval \in MinInterval .. MaxInterval
      /\ ReadsToFloor \in Nat /\ ReadsToCeiling \in Nat
  BY ReadPlans, IntervalAssumption, HistoryAssumption DEF HistoryTypeOK
<1>2. new = IF outcome = "failed" THEN Known(old) ELSE Adapted(old, outcome)
  <2> DEFINE plan == PlanNext(state, outcome, soonest, 0)
  <2>1. new = plan.interval
    BY DEF Read
  <2>2. plan.interval = IF outcome = "failed" THEN Known(old) ELSE Adapted(old, outcome)
    BY DEF PlanNext, AfterFailure, AfterSuccess
  <2> HIDE DEF plan
  <2> QED
    BY <2>1, <2>2
<1>3. streaks' = IF old = 0 THEN streaks ELSE Counted(outcome)
  BY DEF Read
<1>4. /\ slowest[0] = MaxInterval /\ quickest[0] = MinInterval
      /\ slowest[ReadsToFloor] = MinInterval /\ quickest[ReadsToCeiling] = MaxInterval
      /\ slowest[c] \in Int /\ quickest[u] \in Int
      /\ c + 1 <= ReadsToFloor => slowest[c + 1] = Clamp(Shorten(slowest[c]))
      /\ u + 1 <= ReadsToCeiling => quickest[u + 1] = Clamp(Lengthen(quickest[u]))
  BY <1>1 DEF BringsToFloor, BringsToCeiling
<1>5. /\ old = 0 => c = 0 /\ u = 0
      /\ old # 0 => old <= slowest[c] /\ quickest[u] <= old
  BY DEF Between
<1>6. new # 0
  BY <1>1
<1>7. CASE old = 0
  BY <1>1, <1>3, <1>4, <1>5, <1>6, <1>7 DEF Between
<1>8. CASE old # 0 /\ outcome = "failed"
  <2>1. new = old /\ streaks' = streaks
    BY <1>1, <1>2, <1>3, <1>8 DEF Known, Counted
  <2> QED
    BY <1>5, <1>6, <1>8, <2>1 DEF Between
<1>9. CASE old # 0 /\ outcome = "changed"
  <2>1. new = Clamp(Shorten(old))
    BY <1>1, <1>2, <1>9 DEF Adapted
  <2>2. /\ streaks'.changed = IF c < ReadsToFloor THEN c + 1 ELSE ReadsToFloor
        /\ streaks'.unchanged = 0
    BY <1>3, <1>9 DEF Counted
  <2> HIDE DEF old, new, c, u
  <2>3. new <= Clamp(Shorten(slowest[c]))
    BY <1>1, <1>4, <1>5, <1>9, <2>1, AdaptingIsMonotone
  <2>4. new <= slowest[streaks'.changed]
    BY <1>1, <1>4, <2>2, <2>3, EndsOfTheRange
  <2>5. quickest[streaks'.unchanged] <= new
    BY <1>1, <1>4, <2>2
  <2> QED
    BY <1>6, <2>4, <2>5 DEF Between, new
<1>10. CASE old # 0 /\ outcome = "unchanged"
  <2>1. new = Clamp(Lengthen(old))
    BY <1>1, <1>2, <1>10 DEF Adapted
  <2>2. /\ streaks'.unchanged = IF u < ReadsToCeiling THEN u + 1 ELSE ReadsToCeiling
        /\ streaks'.changed = 0
    BY <1>3, <1>10 DEF Counted
  <2> HIDE DEF old, new, c, u
  <2>3. Clamp(Lengthen(quickest[u])) <= new
    BY <1>1, <1>4, <1>5, <1>10, <2>1, AdaptingIsMonotone
  <2>4. quickest[streaks'.unchanged] <= new
    BY <1>1, <1>4, <2>2, <2>3, EndsOfTheRange
  <2>5. new <= slowest[streaks'.changed]
    BY <1>1, <1>4, <2>2
  <2> QED
    BY <1>6, <2>4, <2>5 DEF Between, new
<1> QED
  BY <1>7, <1>8, <1>9, <1>10 DEF Outcome

\* Wherever a site starts and whatever failures come between its reads, changes
\* bring its interval to the floor and quiet reads to the ceiling, in as many reads
\* as they need from the other end of the range (schedule.go, "one that finds no
\* change lengthens the gap; one that finds a change halves it").
THEOREM HistoryConverges ==
    ASSUME ReadsAreEnough
    PROVE  HistorySpec => []IntervalsConverge
<1>1. PICK slowest \in [0 .. ReadsToFloor -> Int] : BringsToFloor(slowest)
  BY DEF ReadsAreEnough
<1>2. PICK quickest \in [0 .. ReadsToCeiling -> Int] : BringsToCeiling(quickest)
  BY DEF ReadsAreEnough
<1>3. HistoryInit => Between(slowest, quickest)
  <2>1. /\ slowest[0] = MaxInterval /\ quickest[0] = MinInterval
        /\ FirstInterval \in MinInterval .. MaxInterval
        /\ MinInterval \in Nat \ {0} /\ MaxInterval \in Nat
    BY <1>1, <1>2, IntervalAssumption DEF BringsToFloor, BringsToCeiling
  <2> QED
    BY <2>1 DEF HistoryInit, Between
<1>4. HistoryTypeOK /\ Between(slowest, quickest) /\ [HistoryNext]_history => Between(slowest, quickest)'
  <2> SUFFICES ASSUME HistoryTypeOK, Between(slowest, quickest), [HistoryNext]_history
               PROVE  Between(slowest, quickest)'
    OBVIOUS
  <2>1. CASE UNCHANGED history
    BY <2>1 DEF history, Between
  <2>2. CASE HistoryNext
    BY <1>1, <1>2, <2>2, ReadStaysBetween DEF HistoryNext
  <2> QED
    BY <2>1, <2>2
<1>5. HistoryTypeOK /\ Between(slowest, quickest) => IntervalsConverge
  <2> SUFFICES ASSUME HistoryTypeOK, Between(slowest, quickest) PROVE IntervalsConverge
    OBVIOUS
  <2>1. /\ state.interval \in {0} \cup MinInterval .. MaxInterval
        /\ slowest[ReadsToFloor] = MinInterval /\ quickest[ReadsToCeiling] = MaxInterval
        /\ slowest[0] = MaxInterval /\ quickest[0] = MinInterval
        /\ MinInterval \in Nat \ {0} /\ MaxInterval \in Nat
        /\ ReadsToFloor \in Nat \ {0} /\ ReadsToCeiling \in Nat \ {0}
    BY <1>1, <1>2, IntervalAssumption, HistoryAssumption
    DEF BringsToFloor, BringsToCeiling, HistoryTypeOK
  <2> QED
    BY <2>1 DEF Between, IntervalsConverge, BusySitesReachFloor, QuietSitesReachCeiling
<1> QED
  BY <1>3, <1>4, <1>5, HistoryHonoursClosings, PTL DEF HistorySpec

(***************************************************************************)
(* Of which only the type of a plan matters to the sweep.                  *)
(***************************************************************************)

LEMMA PlanType ==
    ASSUME NEW known \in State, NEW outcome \in Outcome,
           NEW soonestClose \in Int \cup {None}, NEW at \in Int
    PROVE  PlanNext(known, outcome, soonestClose, at) \in Plan
BY PlanIsAhead

(***************************************************************************)
(* The table stays a table.                                                *)
(***************************************************************************)

LEMMA UpsertType ==
    ASSUME NEW t \in [URLs -> Listing], NEW s \in Sites, NEW at \in Int,
           NEW entries \in SUBSET Entry
    PROVE  Upsert(t, s, entries, at) \in [URLs -> Listing]
<1> SUFFICES ASSUME NEW u \in URLs, u \in UrlsOf(entries)
             PROVE  [status |-> "live", site |-> s, seen |-> Greatest(t[u].seen, at),
                     closes |-> ClosesOf(entries, u)] \in Listing
  BY DEF Upsert
<1>1. ClosesOf(entries, u) \in Int \cup {None}
  <2>1. PICK e \in entries : e.url = u
    BY DEF UrlsOf
  <2> QED
    BY <2>1 DEF ClosesOf, Entry
<1>2. t[u].seen \in Int
  BY DEF Listing
<1>3. Greatest(t[u].seen, at) \in Int
  BY <1>2 DEF Greatest
<1> QED
  BY <1>1, <1>3 DEF Listing

LEMMA TouchType ==
    ASSUME NEW t \in [URLs -> Listing], NEW s \in Sites, NEW at \in Int
    PROVE  Touch(t, s, at) \in [URLs -> Listing]
<1> SUFFICES ASSUME NEW u \in URLs
             PROVE  [t[u] EXCEPT !.seen = at] \in Listing
  BY DEF Touch
<1> QED
  BY DEF Listing

LEMMA RetireType ==
    ASSUME NEW t \in [URLs -> Listing], NEW s \in Sites, NEW at \in Int
    PROVE  Retire(t, s, at) \in [URLs -> Listing]
<1> SUFFICES ASSUME NEW u \in URLs
             PROVE  [t[u] EXCEPT !.status = "retired"] \in Listing
  BY DEF Retire
<1> QED
  BY DEF Listing

LEMMA SoonestCloseType ==
    ASSUME NEW t \in [URLs -> Listing], NEW s \in Sites
    PROVE  SoonestClose(t, s) \in Int \cup {None}
<1> DEFINE dates == {t[u].closes : u \in Live(t, s)} \ {None}
<1> DEFINE earliest == {d \in dates : \A other \in dates : d <= other}
<1>1. dates \subseteq Int
  BY DEF Live, Listing
<1>2. earliest \subseteq Int
  BY <1>1
<1>3. earliest # {} => (CHOOSE d \in earliest : TRUE) \in earliest
  OBVIOUS
<1>4. SoonestClose(t, s) = IF earliest = {} THEN None ELSE CHOOSE d \in earliest : TRUE
  BY DEF SoonestClose
<1> HIDE DEF earliest
<1> QED
  BY <1>2, <1>3, <1>4

(***************************************************************************)
(* Types.                                                                  *)
(***************************************************************************)

LEMMA JobOfHeld ==
    ASSUME TypeOK, NEW w \in Workers, NEW s \in Sites
    PROVE  /\ Held(w, s) => job[w][s] \in Job
           /\ ~Held(w, s) => job[w][s] = NoJob
<1>1. job[w][s] \in Job \cup {NoJob}
  BY DEF TypeOK
<1> QED
  BY <1>1 DEF Held, Job, NoJob

\* Putting a job of the right type in one place leaves every other in place.
LEMMA PutType ==
    ASSUME TypeOK, NEW w \in Workers, NEW s \in Sites, NEW j \in Job \cup {NoJob},
           Put(w, s, j)
    PROVE  /\ job' \in [Workers -> [Sites -> Job \cup {NoJob}]]
           /\ job'[w][s] = j
           /\ \A v \in Workers, t \in Sites : <<v, t>> # <<w, s>> => job'[v][t] = job[v][t]
BY DEF Put, TypeOK

LEMMA FreshRowType ==
    ASSUME TypeOK
    PROVE  Discovered \in [Sites -> Row]
<1> SUFFICES ASSUME NEW s \in Sites
             PROVE  (IF rows[s] = None THEN FreshRow(now) ELSE rows[s]) \in Row
  BY DEF Discovered
<1>1. rows[s] \in Row \cup {None} /\ now \in Int
  BY DEF TypeOK
<1>2. FirstInterval \in Nat
  BY IntervalAssumption
<1>3. FreshRow(now) \in Row
  BY <1>1, <1>2 DEF FreshRow, Row
<1> QED
  BY <1>1, <1>3

LEMMA LeasedType ==
    ASSUME TypeOK, NEW rs \in [Sites -> Row], NEW batch
    PROVE  Leased(rs, batch) \in [Sites -> Row]
<1> SUFFICES ASSUME NEW s \in Sites
             PROVE  [rs[s] EXCEPT !.due = now + Lease] \in Row
  BY DEF Leased
<1>1. now + Lease \in Int
  BY LeaseAssumption DEF TypeOK
<1>2. rs[s] \in Row
  OBVIOUS
<1> QED
  BY <1>1, <1>2 DEF Row

LEMMA TargetType ==
    ASSUME NEW row \in Row, NEW until \in Int
    PROVE  /\ Target(row, until) \in Job
           /\ Target(row, until).pc # "idle"
           /\ Target(row, until).until = until
           /\ Target(row, until).known = row
BY DEF Target, Job, Outcome

LEMMA TakeType ==
    ASSUME TypeOK, NEW w \in Workers, NEW sites \in SUBSET Sites,
           NEW rs \in [Sites -> Row], NEW until \in Int, Take(w, sites, rs, until)
    PROVE  /\ job' \in [Workers -> [Sites -> Job \cup {NoJob}]]
           /\ \A s \in sites : job'[w][s] = Target(rs[s], until)
           /\ \A s \in Sites \ sites : job'[w][s] = job[w][s]
           /\ \A v \in Workers \ {w} : job'[v] = job[v]
<1>1. \A s \in sites : Target(rs[s], until) \in Job
  BY TargetType
<1> QED
  BY <1>1 DEF Take, TypeOK

LEMMA RecordedType ==
    ASSUME NEW row \in Row, NEW j \in Job
    PROVE  /\ Recorded(row, j) \in Row
           /\ Recorded(row, j).failures = PlanFor(j).failures
<1>1. PlanFor(j) \in Plan
  <2>1. [interval |-> j.known.interval, failures |-> j.known.failures] \in State
    BY DEF Job, Row, State
  <2>2. j.outcome \in Outcome /\ j.soonest \in Int \cup {None} /\ j.started \in Int
    BY DEF Job
  <2> QED
    BY <2>1, <2>2, PlanType DEF PlanFor
<1>2. /\ Coalesce(j.listing, row.listing) \in {"programme", "about", None}
      /\ Coalesce(j.tag, row.tag) \in Nat \cup {None}
      /\ Coalesce(j.fingerprint, row.fingerprint) \in (SUBSET Entry) \cup {None}
  BY DEF Coalesce, Job, Row
<1> DEFINE read == row.everRead \/ j.outcome # "failed"
<1>3. read \in BOOLEAN
  OBVIOUS
<1>4. Recorded(row, j) =
        [interval    |-> PlanFor(j).interval,
         failures    |-> PlanFor(j).failures,
         due         |-> PlanFor(j).due,
         parked      |-> PlanFor(j).park,
         everRead    |-> read,
         listing     |-> Coalesce(j.listing, row.listing),
         tag         |-> Coalesce(j.tag, row.tag),
         fingerprint |-> Coalesce(j.fingerprint, row.fingerprint)]
  BY DEF Recorded
<1> HIDE DEF read
<1> QED
  BY <1>1, <1>2, <1>3, <1>4 DEF Row, Plan

\* Recording a read updates the row of a site somebody took, which is there.
TakenAreKnown == \A w \in Workers, s \in Sites : Held(w, s) => rows[s] # None

LEMMA TypeInit == Init => TypeOK
<1> SUFFICES ASSUME Init PROVE TypeOK
  OBVIOUS
<1>1. page \in [Sites -> SUBSET Entry]
  BY PageAssumption DEF Init
<1>2. table \in [URLs -> Listing]
  BY DEF Init, Unlisted, Listing
<1>3. spent \in Budget
  BY BoundAssumption DEF Init, Budget
<1>4. /\ now \in Nat
      /\ modified \in [Sites -> Nat]
      /\ rows \in [Sites -> Row \cup {None}]
      /\ job \in [Workers -> [Sites -> Job \cup {NoJob}]]
      /\ streak \in [Sites -> Nat]
  BY DEF Init
<1> QED
  BY <1>1, <1>2, <1>3, <1>4 DEF TypeOK

LEMMA FaultedType ==
    ASSUME TypeOK, MayFault, Faulted
    PROVE  spent' \in Budget
BY BoundAssumption DEF TypeOK, MayFault, Faulted, Budget

\* Discover finds part of what the site publishes.
LEMMA DiscoveryType ==
    ASSUME TypeOK, NEW s \in Sites, NEW at \in Int, NEW result \in Discovery(s, at)
    PROVE  /\ result.found \in SUBSET Entry
           /\ result.listing \in {"programme", "about", None}
           /\ result.tag \in Nat \cup {None}
<1>1. Showing(page[s], at) \subseteq Entry
  BY DEF Showing, TypeOK
<1>2. Tag(s) \in Nat \cup {None}
  BY DEF Tag, TypeOK
<1>3. AboutPage[s] \subseteq Entry
  BY PageAssumption
<1>4. {e \in page[s] : e.closes = None} \subseteq Entry
  BY DEF TypeOK
<1> HIDE DEF Entry
<1> DEFINE Pages(entries, listing, tag) ==
             {[found |-> part, listing |-> listing, tag |-> tag] :
                 part \in SUBSET entries \ {{}}}
<1>5. \/ result \in Pages(Showing(page[s], at), "programme", Tag(s))
      \/ result \in Pages({e \in page[s] : e.closes = None}, None, None)
      \/ result \in {[found |-> AboutPage[s], listing |-> "about", tag |-> None],
                    [found |-> {}, listing |-> None, tag |-> None]}
  BY DEF Discovery
<1>6. CASE result \in Pages(Showing(page[s], at), "programme", Tag(s))
  BY <1>1, <1>2, <1>6
<1>7. CASE result \in Pages({e \in page[s] : e.closes = None}, None, None)
  BY <1>4, <1>7
<1>8. CASE result \in {[found |-> AboutPage[s], listing |-> "about", tag |-> None],
                       [found |-> {}, listing |-> None, tag |-> None]}
  BY <1>3, <1>8
<1> QED
  BY <1>5, <1>6, <1>7, <1>8

\* A step of Runner.Read moves one job from one type-correct value to another.
LEMMA ReadTypeStep ==
    ASSUME TypeOK, TakenAreKnown, NEW w \in Workers, NEW s \in Sites, ReadStep(w, s)
    PROVE  TypeOK'
<1> DEFINE j == job[w][s]
<1> USE DEF To
<1>t. /\ now \in Nat /\ page \in [Sites -> SUBSET Entry] /\ modified \in [Sites -> Nat]
      /\ rows \in [Sites -> Row \cup {None}] /\ table \in [URLs -> Listing]
      /\ streak \in [Sites -> Nat] /\ spent \in Budget
      /\ job \in [Workers -> [Sites -> Job \cup {NoJob}]]
  BY DEF TypeOK
<1>j. ASSUME j.pc # "idle" PROVE j \in Job
  BY <1>j, JobOfHeld DEF Held
<1>1. CASE Start(w, s)
  <2>1. j \in Job
    BY <1>1, <1>j DEF Start
  <2>2. [j EXCEPT !.pc = IF CanAsk(j.known) THEN "asking" ELSE "discovering",
                  !.started = now, !.scraped = now] \in Job
    BY <2>1, <1>t DEF Job
  <2> QED
    BY <1>1, <2>2, <1>t, PutType DEF Start, TypeOK
<1>2. CASE AskUnchanged(w, s)
  <2>1. j \in Job
    BY <1>2, <1>j DEF AskUnchanged
  <2>2. [j EXCEPT !.pc = "touching", !.outcome = "unchanged",
                  !.listing = j.known.listing, !.tag = j.known.tag,
                  !.fingerprint = j.known.fingerprint] \in Job
    BY <2>1 DEF Job, Row, Outcome
  <2> QED
    BY <1>2, <2>2, <1>t, PutType DEF AskUnchanged, TypeOK
<1>3. CASE AskMoved(w, s)
  <2>1. j \in Job
    BY <1>3, <1>j DEF AskMoved
  <2>2. [j EXCEPT !.pc = "discovering", !.scraped = now] \in Job
    BY <2>1, <1>t DEF Job
  <2> QED
    BY <1>3, <2>2, <1>t, PutType DEF AskMoved, TypeOK
<1>4. CASE Discover(w, s)
  <2>1. j \in Job
    BY <1>4, <1>j DEF Discover
  <2>2. PICK result \in Discovery(s, j.scraped) :
          Put(w, s, [j EXCEPT !.pc = IF result.found = {} THEN "consulting" ELSE "saving",
                              !.outcome = IF result.found = j.known.fingerprint
                                          THEN "unchanged" ELSE "changed",
                              !.found = result.found,
                              !.listing = result.listing, !.tag = result.tag,
                              !.fingerprint = result.found])
    BY <1>4 DEF Discover
  <2>3. /\ result.found \in SUBSET Entry
        /\ result.listing \in {"programme", "about", None}
        /\ result.tag \in Nat \cup {None}
    BY <2>1, DiscoveryType DEF Job
  <2>4. ASSUME NEW pc \in {"consulting", "saving"}, NEW outcome \in Outcome
        PROVE  [j EXCEPT !.pc = pc, !.outcome = outcome, !.found = result.found,
                         !.listing = result.listing, !.tag = result.tag,
                         !.fingerprint = result.found] \in Job
    BY <2>1, <2>3 DEF Job
  <2>5. /\ (IF result.found = {} THEN "consulting" ELSE "saving") \in {"consulting", "saving"}
        /\ (IF result.found = j.known.fingerprint THEN "unchanged" ELSE "changed") \in Outcome
    BY DEF Outcome
  <2>6. [j EXCEPT !.pc = IF result.found = {} THEN "consulting" ELSE "saving",
                  !.outcome = IF result.found = j.known.fingerprint
                              THEN "unchanged" ELSE "changed",
                  !.found = result.found,
                  !.listing = result.listing, !.tag = result.tag,
                  !.fingerprint = result.found] \in Job
    BY <2>4, <2>5
  <2> QED
    BY <1>4, <2>2, <2>6, <1>t, PutType DEF Discover, TypeOK
<1>5. CASE DiscoverNothing(w, s)
  <2>1. j \in Job
    BY <1>5, <1>j DEF DiscoverNothing
  <2>2. [j EXCEPT !.pc = "consulting", !.outcome = "failed"] \in Job
    BY <2>1 DEF Job, Outcome
  <2> QED
    BY <1>5, <2>2, <1>t, PutType DEF DiscoverNothing, TypeOK
<1>6. CASE TouchListings(w, s)
  <2>1. j \in Job
    BY <1>6, <1>j DEF TouchListings
  <2>2. [j EXCEPT !.pc = "consulting"] \in Job
    BY <2>1 DEF Job
  <2>3. table' \in [URLs -> Listing]
    BY <1>6, <2>1, <1>t, TouchType DEF TouchListings, Job
  <2>4. spent' \in Budget
    BY <1>6, <1>t, FaultedType DEF TouchListings
  <2> QED
    BY <1>6, <2>2, <2>3, <2>4, <1>t, PutType DEF TouchListings, TypeOK
<1>7. CASE SaveListings(w, s)
  <2>1. j \in Job
    BY <1>7, <1>j DEF SaveListings
  <2>2. PICK rejected \in SUBSET j.found :
          /\ IF rejected = {} THEN UNCHANGED spent ELSE MayFault /\ Faulted
          /\ table' = Upsert(table, s, j.found \ rejected, j.scraped)
          /\ Put(w, s, [j EXCEPT !.pc = "retiring", !.stored = j.found \ rejected])
    BY <1>7 DEF SaveListings
  <2>3. j.found \ rejected \in SUBSET Entry
    BY <2>1 DEF Job
  <2>4. [j EXCEPT !.pc = "retiring", !.stored = j.found \ rejected] \in Job
    BY <2>1, <2>3 DEF Job
  <2>5. table' \in [URLs -> Listing]
    BY <2>1, <2>2, <2>3, <1>t, UpsertType DEF Job
  <2>6. spent' \in Budget
    BY <2>2, <1>t, FaultedType
  <2> QED
    BY <1>7, <2>2, <2>4, <2>5, <2>6, <1>t, PutType DEF SaveListings, TypeOK
<1>8. CASE RetireListings(w, s)
  <2>1. j \in Job
    BY <1>8, <1>j DEF RetireListings
  <2>2. [j EXCEPT !.pc = "consulting"] \in Job
    BY <2>1 DEF Job
  <2>3. table' \in [URLs -> Listing]
    BY <1>8, <2>1, <1>t, RetireType DEF RetireListings, Job
  <2>4. spent' \in Budget
    BY <1>8, <1>t, FaultedType DEF RetireListings
  <2> QED
    BY <1>8, <2>2, <2>3, <2>4, <1>t, PutType DEF RetireListings, TypeOK
<1>9. CASE ConsultClosing(w, s)
  <2>1. j \in Job
    BY <1>9, <1>j DEF ConsultClosing
  <2>2. /\ [j EXCEPT !.pc = "recording"] \in Job
        /\ [j EXCEPT !.pc = "recording", !.soonest = SoonestClose(table, s)] \in Job
    BY <2>1, <1>t, SoonestCloseType DEF Job
  <2>3. spent' \in Budget
    BY <1>9, <1>t, FaultedType DEF ConsultClosing
  <2>4. job' \in [Workers -> [Sites -> Job \cup {NoJob}]]
    BY <1>9, <2>2, PutType DEF ConsultClosing
  <2> QED
    BY <1>9, <2>3, <2>4, <1>t DEF ConsultClosing, TypeOK
<1>10. CASE RecordScrape(w, s)
  <2>1. j \in Job
    BY <1>10, <1>j DEF RecordScrape
  <2>2. Recorded(rows[s], j) \in Row
    BY <1>10, <2>1, <1>t, RecordedType DEF RecordScrape, TakenAreKnown, Held
  <2>3. rows' \in [Sites -> Row \cup {None}]
    BY <1>10, <2>2, <1>t DEF RecordScrape
  <2>4. streak' \in [Sites -> Nat]
    BY <1>10, <1>t DEF RecordScrape
  <2>5. spent' \in Budget
    BY <1>10, <1>t, FaultedType DEF RecordScrape
  <2> QED
    BY <1>10, <2>3, <2>4, <2>5, <1>t, PutType DEF RecordScrape, TypeOK
<1> QED
  BY <1>1, <1>2, <1>3, <1>4, <1>5, <1>6, <1>7, <1>8, <1>9, <1>10 DEF ReadStep
(***************************************************************************)
(* What one step of a read leaves alone, and the two things it may do to   *)
(* its own job: carry on with the same target, or end it.                  *)
(***************************************************************************)
Continues(w, s) ==
    /\ rows' = rows /\ streak' = streak
    /\ Held(w, s)'
    /\ job'[w][s].known = job[w][s].known
    /\ job'[w][s].until = job[w][s].until

Ends(w, s) ==
    /\ job'[w][s] = NoJob
    /\ \/ rows' = rows /\ streak' = streak
       \/ /\ rows' = [rows EXCEPT ![s] = Recorded(@, job[w][s])]
          /\ streak' = [streak EXCEPT ![s] =
                           IF job[w][s].outcome = "failed" THEN @ + 1 ELSE 0]

LEMMA ReadFrame ==
    ASSUME TypeOK, NEW w \in Workers, NEW s \in Sites, ReadStep(w, s)
    PROVE  /\ Held(w, s)
           /\ now' = now
           /\ \A v \in Workers, t \in Sites :
                 <<v, t>> # <<w, s>> => job'[v][t] = job[v][t]
           /\ Continues(w, s) \/ Ends(w, s)
<1> USE DEF To
<1>1. Held(w, s) /\ job[w][s] \in Job
  <2>1. Held(w, s)
    BY DEF ReadStep, Start, AskUnchanged, AskMoved, Discover, DiscoverNothing,
           TouchListings, SaveListings, RetireListings, ConsultClosing, RecordScrape, Held
  <2> QED
    BY <2>1, JobOfHeld
<1>2. now' = now
  BY DEF ReadStep, Start, AskUnchanged, AskMoved, Discover, DiscoverNothing,
         TouchListings, SaveListings, RetireListings, ConsultClosing, RecordScrape
<1>3. \E j : Put(w, s, j)
  BY DEF ReadStep, Start, AskUnchanged, AskMoved, Discover, DiscoverNothing,
         TouchListings, SaveListings, RetireListings, ConsultClosing, RecordScrape
<1>4. \A v \in Workers, t \in Sites : <<v, t>> # <<w, s>> => job'[v][t] = job[v][t]
  BY <1>3 DEF Put, TypeOK
<1>5. \A j : Put(w, s, j) => job'[w][s] = j
  BY DEF Put, TypeOK
<1> SUFFICES Continues(w, s) \/ Ends(w, s)
  BY <1>1, <1>2, <1>4
<1>6. CASE RecordScrape(w, s)
  BY <1>5, <1>6 DEF RecordScrape, Ends
<1>7. CASE Start(w, s)
  BY <1>1, <1>5, <1>7 DEF Start, Continues, Held, Job
<1>8. CASE AskUnchanged(w, s)
  BY <1>1, <1>5, <1>8 DEF AskUnchanged, Continues, Held, Job
<1>9. CASE AskMoved(w, s)
  BY <1>1, <1>5, <1>9 DEF AskMoved, Continues, Held, Job
<1>10. CASE Discover(w, s)
  <2> DEFINE pc(r) == IF r.found = {} THEN "consulting" ELSE "saving"
  <2> DEFINE outcome(r) == IF r.found = job[w][s].known.fingerprint THEN "unchanged" ELSE "changed"
  <2> DEFINE next(r) == [job[w][s] EXCEPT !.pc = pc(r), !.outcome = outcome(r),
                             !.found = r.found, !.listing = r.listing, !.tag = r.tag,
                             !.fingerprint = r.found]
  <2>1. PICK result \in Discovery(s, job[w][s].scraped) : Put(w, s, next(result))
    BY <1>10 DEF Discover
  <2>2. rows' = rows /\ streak' = streak
    BY <1>10 DEF Discover
  <2>3. pc(result) # "idle"
    OBVIOUS
  <2>4. job'[w][s] = next(result)
    BY <1>5, <2>1
  <2> HIDE DEF pc, outcome
  <2> QED
    BY <1>1, <2>2, <2>3, <2>4 DEF Continues, Held, Job
<1>11. CASE DiscoverNothing(w, s)
  BY <1>1, <1>5, <1>11 DEF DiscoverNothing, Continues, Held, Job
<1>12. CASE TouchListings(w, s)
  BY <1>1, <1>5, <1>12 DEF TouchListings, Continues, Held, Job
<1>13. CASE SaveListings(w, s)
  <2>1. PICK rejected \in SUBSET job[w][s].found :
          Put(w, s, [job[w][s] EXCEPT !.pc = "retiring",
                                      !.stored = job[w][s].found \ rejected])
    BY <1>13 DEF SaveListings
  <2>2. rows' = rows /\ streak' = streak
    BY <1>13 DEF SaveListings
  <2> QED
    BY <1>1, <1>5, <2>1, <2>2 DEF Continues, Held, Job
<1>14. CASE RetireListings(w, s)
  BY <1>1, <1>5, <1>14 DEF RetireListings, Continues, Held, Job
<1>15. CASE ConsultClosing(w, s)
  BY <1>1, <1>5, <1>15 DEF ConsultClosing, Continues, Held, Job
<1> QED
  BY <1>6, <1>7, <1>8, <1>9, <1>10, <1>11, <1>12, <1>13, <1>14, <1>15 DEF ReadStep
(***************************************************************************)
(* Taking sites, by claim or by visit.                                     *)
(***************************************************************************)

LEMMA ClaimFrame ==
    ASSUME TypeOK, NEW w \in Sweepers, Claim(w)
    PROVE  \E batch \in SUBSET Sites :
              /\ \A s \in batch : ~Discovered[s].parked /\ Discovered[s].due <= now
              /\ rows' = Leased(Discovered, batch)
              /\ Take(w, batch, rows', now + Lease)
              /\ Finished(w)
<1>1. PICK batch \in DueBatches(Discovered) :
         rows' = Leased(Discovered, batch) /\ Take(w, batch, rows', now + Lease)
  BY DEF Claim
<1>2. batch \subseteq Due(Discovered)
  BY DEF DueBatches
<1> QED
  BY <1>1, <1>2 DEF Claim, Due

LEMMA TypeStep == TypeOK /\ TakenAreKnown /\ [Next]_vars => TypeOK' /\ TakenAreKnown'
<1> SUFFICES ASSUME TypeOK, TakenAreKnown, [Next]_vars
             PROVE  TypeOK' /\ TakenAreKnown'
  OBVIOUS
<1>0. \A row \in Row : row # None
  BY RowAssumption
<1>1. ASSUME NEW w \in Sweepers, Claim(w) PROVE TypeOK' /\ TakenAreKnown'
  <2>1. PICK batch \in SUBSET Sites :
           rows' = Leased(Discovered, batch) /\ Take(w, batch, rows', now + Lease)
    BY <1>1, ClaimFrame
  <2>2. rows' \in [Sites -> Row]
    BY <2>1, FreshRowType, LeasedType
  <2>3. now + Lease \in Int
    BY LeaseAssumption DEF TypeOK
  <2>4. job' \in [Workers -> [Sites -> Job \cup {NoJob}]]
    BY <2>1, <2>2, <2>3, TakeType DEF Workers
  <2> QED
    BY <1>0, <1>1, <2>2, <2>4 DEF Claim, TypeOK, TakenAreKnown
<1>2. ASSUME NEW w \in Visitors, Visit(w) PROVE TypeOK' /\ TakenAreKnown'
  <2>1. PICK area \in SUBSET Sites : Take(w, area, rows', 0)
    BY <1>2 DEF Visit
  <2>2. rows' \in [Sites -> Row]
    BY <1>2, FreshRowType DEF Visit
  <2>3. job' \in [Workers -> [Sites -> Job \cup {NoJob}]]
    <3>1. w \in Workers /\ 0 \in Int
      BY DEF Workers
    <3> QED
      BY <2>1, <2>2, <3>1, TakeType
  <2> QED
    BY <1>0, <1>2, <2>2, <2>3 DEF Visit, TypeOK, TakenAreKnown
<1>3. ASSUME NEW w \in Workers, NEW s \in Sites, ReadStep(w, s)
      PROVE  TypeOK' /\ TakenAreKnown'
  <2>1. TypeOK'
    BY <1>3, ReadTypeStep
  <2>2. /\ \A v \in Workers, t \in Sites :
              <<v, t>> # <<w, s>> => job'[v][t] = job[v][t]
        /\ Held(w, s)
        /\ Continues(w, s) \/ Ends(w, s)
    BY <1>3, ReadFrame
  <2>3. \A t \in Sites : rows[t] # None => rows'[t] # None
    <3>1. Recorded(rows[s], job[w][s]) # None
      BY <1>0, <2>2, JobOfHeld, RecordedType DEF TakenAreKnown, TypeOK
    <3> QED
      BY <2>2, <3>1 DEF Continues, Ends, TypeOK
  <2>4. TakenAreKnown'
    BY <2>2, <2>3 DEF TakenAreKnown, Held
  <2> QED
    BY <2>1, <2>4
<1>4. ASSUME NEW w \in Workers, Crash(w) PROVE TypeOK' /\ TakenAreKnown'
  <2>1. spent' \in Budget
    BY <1>4, BoundAssumption DEF Crash, TypeOK, Budget
  <2>2. job' \in [Workers -> [Sites -> Job \cup {NoJob}]]
    BY <1>4 DEF Crash, TypeOK
  <2>3. TakenAreKnown'
    BY <1>4 DEF Crash, TypeOK, TakenAreKnown, Held, NoJob
  <2> QED
    BY <1>4, <2>1, <2>2, <2>3 DEF Crash, TypeOK
<1>5. ASSUME NEW s \in Sites, Edit(s) PROVE TypeOK' /\ TakenAreKnown'
  <2>1. spent' \in Budget
    BY <1>5, BoundAssumption DEF Edit, TypeOK, Budget
  <2>2. page' \in [Sites -> SUBSET Entry]
    BY <1>5, PageAssumption DEF Edit, TypeOK
  <2>3. modified' \in [Sites -> Nat]
    BY <1>5 DEF Edit, TypeOK
  <2> QED
    BY <1>5, <2>1, <2>2, <2>3 DEF Edit, TypeOK, TakenAreKnown, Held
<1>6. ASSUME Tick PROVE TypeOK' /\ TakenAreKnown'
  BY <1>6 DEF Tick, TypeOK, TakenAreKnown, Held
<1>7. ASSUME UNCHANGED vars PROVE TypeOK' /\ TakenAreKnown'
  BY <1>7 DEF vars, TypeOK, TakenAreKnown, Held
<1> QED
  BY <1>1, <1>2, <1>3, <1>4, <1>5, <1>6, <1>7 DEF Next

\* Every reachable state is well typed: no job is lost in another, no row is
\* half written, and a site in hand has its row.
THEOREM SweepIsTyped == Spec => [](TypeOK /\ TakenAreKnown)
<1>1. Init => TypeOK /\ TakenAreKnown
  BY TypeInit DEF Init, TakenAreKnown, Held, NoJob
<1> QED
  BY <1>1, TypeStep, PTL DEF Spec
(***************************************************************************)
(* Sweepers alone, with batches that are over before their lease lapses.   *)
(* A claim pushes next_due_at out to its own end, and nobody but the       *)
(* holder writes the row until then: the row itself is the lock.           *)
(***************************************************************************)
SweepersAlone == Visitors = {} /\ LeaseCoversBatch

HeldUnderLease ==
    \A w \in Sweepers, s \in Sites :
        Held(w, s) => now < job[w][s].until /\ job[w][s].until <= rows[s].due

ClaimInv == TypeOK /\ TakenAreKnown /\ HeldUnderLease /\ ClaimsDisjoint

LEMMA ClaimStep ==
    ASSUME SweepersAlone, ClaimInv, [Next]_vars
    PROVE  HeldUnderLease' /\ ClaimsDisjoint'
<1>0. TypeOK /\ TakenAreKnown /\ Workers = Sweepers
  BY DEF ClaimInv, SweepersAlone, Workers
<1>1. ASSUME NEW w \in Sweepers, Claim(w) PROVE HeldUnderLease' /\ ClaimsDisjoint'
  <2>1. PICK batch \in SUBSET Sites :
           /\ \A s \in batch : ~Discovered[s].parked /\ Discovered[s].due <= now
           /\ rows' = Leased(Discovered, batch)
           /\ Take(w, batch, rows', now + Lease)
           /\ Finished(w)
    BY <1>0, <1>1, ClaimFrame
  <2>2. rows' \in [Sites -> Row] /\ now' = now /\ now \in Nat /\ now + Lease \in Int
    BY <1>0, <1>1, <2>1, FreshRowType, LeasedType, LeaseAssumption DEF Claim, TypeOK
  <2>3. /\ \A s \in batch : job'[w][s] = Target(rows'[s], now + Lease)
        /\ \A s \in Sites \ batch : job'[w][s] = job[w][s]
        /\ \A v \in Sweepers \ {w} : job'[v] = job[v]
    BY <1>0, <2>1, <2>2, TakeType
  <2>4. /\ \A s \in batch : rows'[s].due = now + Lease
        /\ \A s \in Sites \ batch : rows'[s] = Discovered[s]
    BY <1>0, <2>1, FreshRowType DEF Leased, Row
  \* A site in hand is not due, so no batch takes it.
  <2>5. \A v \in Sweepers, s \in Sites : Held(v, s) =>
           Discovered[s] = rows[s] /\ s \notin batch /\ v # w
    <3> SUFFICES ASSUME NEW v \in Sweepers, NEW s \in Sites, Held(v, s)
                 PROVE  Discovered[s] = rows[s] /\ s \notin batch /\ v # w
      OBVIOUS
    <3>1. Discovered[s] = rows[s] /\ rows[s] \in Row
      BY <1>0 DEF Discovered, TakenAreKnown, TypeOK
    <3>2. now < rows[s].due
      BY <1>0, <3>1, JobOfHeld DEF ClaimInv, HeldUnderLease, TypeOK, Job, Row
    <3> QED
      BY <2>1, <2>2, <3>1, <3>2 DEF Row, Finished
  <2>6. \A v \in Sweepers, s \in Sites : Held(v, s)' =>
           \/ v = w /\ s \in batch
           \/ Held(v, s) /\ job'[v][s] = job[v][s] /\ s \notin batch /\ v # w
    BY <2>1, <2>3, <2>5 DEF Held, Finished
  <2>7. HeldUnderLease'
    <3> SUFFICES ASSUME NEW v \in Sweepers, NEW s \in Sites, Held(v, s)'
                 PROVE  now < job'[v][s].until /\ job'[v][s].until <= rows'[s].due
      BY <2>2 DEF HeldUnderLease
    <3>1. CASE v = w /\ s \in batch
      BY <2>2, <2>3, <2>4, <3>1, TargetType, LeaseAssumption
    <3>2. CASE Held(v, s) /\ job'[v][s] = job[v][s] /\ s \notin batch
      BY <2>4, <2>5, <3>2 DEF ClaimInv, HeldUnderLease
    <3> QED
      BY <2>6, <3>1, <3>2
  <2>8. ClaimsDisjoint'
    BY <2>5, <2>6 DEF ClaimInv, ClaimsDisjoint
  <2> QED
    BY <2>7, <2>8
<1>2. ASSUME NEW w \in Sweepers, NEW s \in Sites, ReadStep(w, s)
      PROVE  HeldUnderLease' /\ ClaimsDisjoint'
  <2>1. /\ now' = now /\ Held(w, s)
        /\ \A v \in Sweepers, t \in Sites :
              <<v, t>> # <<w, s>> => job'[v][t] = job[v][t]
        /\ Continues(w, s) \/ Ends(w, s)
    BY <1>0, <1>2, ReadFrame
  <2>2. \A v \in Sweepers, t \in Sites : Held(v, t)' =>
           Held(v, t) /\ job'[v][t].until = job[v][t].until
    BY <2>1 DEF Held, Continues, Ends, NoJob
  <2>3. \A v \in Sweepers, t \in Sites : Held(v, t)' => rows'[t] = rows[t]
    <3>1. CASE Continues(w, s)
      BY <3>1 DEF Continues
    <3>2. CASE Ends(w, s)
      <4>1. \A v \in Sweepers : ~Held(v, s)'
        BY <2>1, <2>2, <3>2 DEF Ends, NoJob, Held, ClaimInv, ClaimsDisjoint
      <4> QED
        BY <1>0, <3>2, <4>1 DEF Ends, TypeOK
    <3> QED
      BY <2>1, <3>1, <3>2
  <2> QED
    BY <2>1, <2>2, <2>3 DEF ClaimInv, HeldUnderLease, ClaimsDisjoint
<1>3. ASSUME NEW w \in Sweepers, Crash(w) PROVE HeldUnderLease' /\ ClaimsDisjoint'
  <2>1. \A v \in Sweepers, t \in Sites : Held(v, t)' => Held(v, t) /\ job'[v][t] = job[v][t]
    BY <1>0, <1>3 DEF Crash, Held, NoJob, TypeOK
  <2> QED
    BY <1>3, <2>1 DEF Crash, ClaimInv, HeldUnderLease, ClaimsDisjoint
<1>4. ASSUME NEW s \in Sites, Edit(s) PROVE HeldUnderLease' /\ ClaimsDisjoint'
  BY <1>4 DEF Edit, ClaimInv, HeldUnderLease, ClaimsDisjoint, Held
<1>5. ASSUME Tick PROVE HeldUnderLease' /\ ClaimsDisjoint'
  BY <1>0, <1>5 DEF SweepersAlone, Tick, ClaimInv, HeldUnderLease, ClaimsDisjoint, Held
<1>6. ASSUME UNCHANGED vars PROVE HeldUnderLease' /\ ClaimsDisjoint'
  BY <1>6 DEF vars, ClaimInv, HeldUnderLease, ClaimsDisjoint, Held
<1> QED
  BY <1>0, <1>1, <1>2, <1>3, <1>4, <1>5, <1>6 DEF Next, SweepersAlone

LEMMA ClaimInvariant == ASSUME SweepersAlone PROVE Spec => []ClaimInv
<1>1. Init => ClaimInv
  <2>1. Init => \A w \in Workers, s \in Sites : ~Held(w, s)
    BY DEF Init, Held, NoJob
  <2> QED
    BY <2>1, TypeInit DEF ClaimInv, TakenAreKnown, HeldUnderLease, ClaimsDisjoint, Workers
<1>2. ClaimInv /\ [Next]_vars => ClaimInv'
  BY ClaimStep, TypeStep DEF ClaimInv
<1> QED
  BY <1>1, <1>2, PTL DEF Spec

\* No two sweepers, however many, have one museum's site in hand at a time, as
\* long as a batch is finished within its lease and no visitor's read takes
\* sites without claiming them.
THEOREM SweepersKeepApart == ASSUME SweepersAlone PROVE Spec => []ClaimsDisjoint
<1>1. ClaimInv => ClaimsDisjoint
  BY DEF ClaimInv
<1> QED
  BY <1>1, ClaimInvariant, PTL
(***************************************************************************)
(* The failures of a row are counted from the row as it was selected; that *)
(* it is the row they are added to is what the claim is for.               *)
(***************************************************************************)
CountedFromRow ==
    \A w \in Sweepers, s \in Sites :
        Held(w, s) => job[w][s].known.failures = rows[s].failures

ParkedByCount ==
    \A s \in Sites : Parked(s) => rows[s].failures >= MaxFailures

NoRowNoStreak == \A s \in Sites : rows[s] = None => streak[s] = 0

CountInv == CountedFromRow /\ ParkedByCount /\ NoRowNoStreak /\ FailuresAreConsecutive

\* Nothing but a recorded read changes a count: selecting sites only inserts
\* rows and moves due dates.
LEMMA CountKept ==
    ASSUME TypeOK, CountInv, NEW batch \in SUBSET Sites,
           rows' = Leased(Discovered, batch), streak' = streak
    PROVE  ParkedByCount' /\ NoRowNoStreak' /\ FailuresAreConsecutive'
<1>1. Discovered \in [Sites -> Row] /\ rows' \in [Sites -> Row]
  BY FreshRowType, LeasedType
<1>2. \A s \in Sites : /\ rows'[s].failures = Discovered[s].failures
                       /\ rows'[s].parked = Discovered[s].parked
                       /\ rows'[s] # None
  BY <1>1, RowAssumption DEF Leased, Row
<1>3. \A s \in Sites : rows[s] = None =>
         Discovered[s].failures = 0 /\ ~Discovered[s].parked /\ streak[s] = 0
  BY DEF Discovered, FreshRow, CountInv, NoRowNoStreak
<1>4. \A s \in Sites : rows[s] # None => Discovered[s] = rows[s]
  BY DEF Discovered
<1>5. FailuresAreConsecutive'
  BY <1>2, <1>3, <1>4 DEF CountInv, FailuresAreConsecutive
<1>6. ParkedByCount'
  BY <1>2, <1>3, <1>4 DEF CountInv, ParkedByCount, Parked
<1>7. NoRowNoStreak'
  BY <1>2 DEF NoRowNoStreak
<1> QED
  BY <1>5, <1>6, <1>7

LEMMA RecordedCount ==
    ASSUME NEW row \in Row, NEW j \in Job
    PROVE  /\ Recorded(row, j).failures =
                 IF j.outcome = "failed" THEN j.known.failures + 1 ELSE 0
           /\ Recorded(row, j).parked => Recorded(row, j).failures >= MaxFailures
BY DEF Recorded, PlanFor, PlanNext, AfterFailure, AfterSuccess

LEMMA CountStep ==
    ASSUME SweepersAlone, ClaimInv, CountInv, [Next]_vars
    PROVE  CountInv'
<1>0. TypeOK /\ TakenAreKnown /\ Workers = Sweepers /\ ClaimsDisjoint
  BY DEF ClaimInv, SweepersAlone, Workers
<1>1. ASSUME NEW w \in Sweepers, Claim(w) PROVE CountInv'
  <2>1. PICK batch \in SUBSET Sites :
           /\ rows' = Leased(Discovered, batch)
           /\ Take(w, batch, rows', now + Lease)
           /\ Finished(w)
    BY <1>0, <1>1, ClaimFrame
  <2>2. ParkedByCount' /\ NoRowNoStreak' /\ FailuresAreConsecutive'
    BY <1>0, <1>1, <2>1, CountKept DEF Claim
  <2>3. rows' \in [Sites -> Row] /\ Discovered \in [Sites -> Row] /\ now + Lease \in Int
    BY <1>0, <2>1, FreshRowType, LeasedType, LeaseAssumption DEF TypeOK
  <2>4. /\ \A s \in batch : job'[w][s] = Target(rows'[s], now + Lease)
        /\ \A s \in Sites \ batch : job'[w][s] = job[w][s]
        /\ \A v \in Sweepers \ {w} : job'[v] = job[v]
    BY <1>0, <2>1, <2>3, TakeType
  <2>5. CountedFromRow'
    <3> SUFFICES ASSUME NEW v \in Sweepers, NEW s \in Sites, Held(v, s)'
                 PROVE  job'[v][s].known.failures = rows'[s].failures
      BY DEF CountedFromRow
    <3>1. CASE v = w
      BY <2>1, <2>3, <2>4, <3>1, TargetType DEF Held, Finished
    <3>2. CASE v # w
      <4>1. Held(v, s) /\ job'[v][s] = job[v][s]
        BY <2>4, <3>2 DEF Held
      <4>2. rows'[s].failures = rows[s].failures
        BY <1>0, <2>1, <2>3, <4>1 DEF Leased, Discovered, Row, TakenAreKnown
      <4> QED
        BY <4>1, <4>2 DEF CountInv, CountedFromRow
    <3> QED
      BY <3>1, <3>2
  <2> QED
    BY <2>2, <2>5 DEF CountInv
<1>2. ASSUME NEW w \in Sweepers, NEW s \in Sites, ReadStep(w, s) PROVE CountInv'
  <2>1. /\ Held(w, s)
        /\ \A v \in Sweepers, t \in Sites :
              <<v, t>> # <<w, s>> => job'[v][t] = job[v][t]
        /\ Continues(w, s) \/ Ends(w, s)
    BY <1>0, <1>2, ReadFrame
  <2>2. CASE rows' = rows /\ streak' = streak
    <3>1. \A v \in Sweepers, t \in Sites : Held(v, t)' =>
             Held(v, t) /\ job'[v][t].known = job[v][t].known
      BY <2>1 DEF Continues, Ends, Held, NoJob
    <3> QED
      BY <2>2, <3>1 DEF CountInv, CountedFromRow, ParkedByCount, NoRowNoStreak,
                        FailuresAreConsecutive, Parked
  <2>3. CASE /\ job'[w][s] = NoJob
             /\ rows' = [rows EXCEPT ![s] = Recorded(@, job[w][s])]
             /\ streak' = [streak EXCEPT ![s] =
                              IF job[w][s].outcome = "failed" THEN @ + 1 ELSE 0]
    <3> DEFINE row == Recorded(rows[s], job[w][s])
    <3>1. job[w][s] \in Job /\ rows[s] \in Row /\ job[w][s].known.failures = rows[s].failures
      BY <1>0, <2>1, JobOfHeld DEF TypeOK, TakenAreKnown, CountInv, CountedFromRow
    <3>2. /\ row \in Row /\ row # None
          /\ row.failures = IF job[w][s].outcome = "failed" THEN rows[s].failures + 1 ELSE 0
          /\ row.parked => row.failures >= MaxFailures
      BY <3>1, RecordedType, RecordedCount, RowAssumption
    <3>3. /\ rows'[s] = row
          /\ streak'[s] = IF job[w][s].outcome = "failed" THEN streak[s] + 1 ELSE 0
          /\ \A t \in Sites \ {s} : rows'[t] = rows[t] /\ streak'[t] = streak[t]
      BY <1>0, <2>3 DEF TypeOK
    <3>4. rows[s] # None /\ rows[s].failures = streak[s]
      BY <1>0, <2>1 DEF TakenAreKnown, CountInv, FailuresAreConsecutive
    <3> HIDE DEF row
    <3>5. FailuresAreConsecutive'
      BY <3>2, <3>3, <3>4 DEF CountInv, FailuresAreConsecutive
    <3>6. ParkedByCount' /\ NoRowNoStreak'
      BY <3>2, <3>3 DEF CountInv, ParkedByCount, NoRowNoStreak, Parked
    <3>7. \A v \in Sweepers, t \in Sites : Held(v, t)' =>
             Held(v, t) /\ job'[v][t] = job[v][t] /\ t # s
      BY <1>0, <2>1, <2>3 DEF Held, NoJob, ClaimsDisjoint
    <3>8. CountedFromRow'
      BY <3>3, <3>7 DEF CountInv, CountedFromRow
    <3> QED
      BY <3>5, <3>6, <3>8 DEF CountInv
  <2> QED
    BY <2>1, <2>2, <2>3 DEF Continues, Ends
<1>3. ASSUME NEW w \in Sweepers, Crash(w) PROVE CountInv'
  <2>1. \A v \in Sweepers, t \in Sites : Held(v, t)' => Held(v, t) /\ job'[v][t] = job[v][t]
    BY <1>0, <1>3 DEF Crash, Held, NoJob, TypeOK
  <2> QED
    BY <1>3, <2>1 DEF Crash, CountInv, CountedFromRow, ParkedByCount, NoRowNoStreak,
                      FailuresAreConsecutive, Parked
<1>4. ASSUME NEW s \in Sites, Edit(s) PROVE CountInv'
  BY <1>4 DEF Edit, CountInv, CountedFromRow, ParkedByCount, NoRowNoStreak,
              FailuresAreConsecutive, Parked, Held
<1>5. ASSUME Tick PROVE CountInv'
  BY <1>5 DEF Tick, CountInv, CountedFromRow, ParkedByCount, NoRowNoStreak,
              FailuresAreConsecutive, Parked, Held
<1>6. ASSUME UNCHANGED vars PROVE CountInv'
  BY <1>6 DEF vars, CountInv, CountedFromRow, ParkedByCount, NoRowNoStreak,
              FailuresAreConsecutive, Parked, Held
<1> QED
  BY <1>0, <1>1, <1>2, <1>3, <1>4, <1>5, <1>6 DEF Next, SweepersAlone

LEMMA CountInvariant == ASSUME SweepersAlone PROVE Spec => []CountInv
<1>1. Init => CountInv
  <2>1. Init => \A w \in Workers, s \in Sites : ~Held(w, s)
    BY DEF Init, Held, NoJob
  <2>2. Init => \A s \in Sites : rows[s] = None /\ streak[s] = 0
    BY DEF Init
  <2> QED
    BY <2>1, <2>2 DEF CountInv, CountedFromRow, ParkedByCount, NoRowNoStreak,
                      FailuresAreConsecutive, Parked, Workers
<1>2. ClaimInv /\ CountInv /\ [Next]_vars => CountInv'
  BY CountStep
<1> QED
  BY <1>1, <1>2, ClaimInvariant, PTL DEF Spec

\* consecutive_failures is the number of failures recorded in a row, however
\* the sweepers' reads are interleaved and wherever they are cut short.
THEOREM FailuresCountRuns == ASSUME SweepersAlone PROVE Spec => []FailuresAreConsecutive
<1>1. CountInv => FailuresAreConsecutive
  BY DEF CountInv
<1> QED
  BY <1>1, CountInvariant, PTL

\* A site is parked only after MaxFailures failed reads in a row.
THEOREM ParkingIsEarned == ASSUME SweepersAlone PROVE Spec => []ParkedInARow
<1>1. CountInv => ParkedInARow
  BY DEF CountInv, ParkedByCount, FailuresAreConsecutive, ParkedInARow, Parked
<1> QED
  BY <1>1, CountInvariant, PTL
(***************************************************************************)
(* Storing, then retiring: while a read is between the two, what it stored *)
(* has been seen since it began, unless another site has taken it over.    *)
(***************************************************************************)
ReadsInTime ==
    \A w \in Workers, s \in Sites :
        Reading(w, s) => job[w][s].started <= now /\ job[w][s].started <= job[w][s].scraped

StoredIsSeen ==
    \A w \in Workers, s \in Sites :
        job[w][s].pc = "retiring" =>
           \A u \in UrlsOf(job[w][s].stored) :
              u \in Live(table, s) => job[w][s].started <= table[u].seen

SeenInv == ReadsInTime /\ StoredIsSeen

LEMMA StoredUrls ==
    ASSUME NEW j \in Job, NEW u \in UrlsOf(j.stored)
    PROVE  u \in URLs
BY DEF UrlsOf, Job, Entry

\* Whatever a read of site s does to the table, a listing filed under another
\* site afterwards was filed there before and has not been touched.
LEMMA TableFrame ==
    ASSUME TypeOK, NEW w \in Workers, NEW s \in Sites, ReadStep(w, s)
    PROVE  \A u \in URLs : table'[u].site # s => table'[u] = table[u]
<1> USE DEF To
<1>1. table \in [URLs -> Listing]
  BY DEF TypeOK
<1>2. CASE table' = table
  BY <1>2
<1>3. CASE TouchListings(w, s)
  BY <1>1, <1>3 DEF TouchListings, Touch, Live, Listing
<1>4. CASE SaveListings(w, s)
  BY <1>1, <1>4 DEF SaveListings, Upsert
<1>5. CASE RetireListings(w, s)
  BY <1>1, <1>5 DEF RetireListings, Retire, Live, Listing
<1> QED
  BY <1>2, <1>3, <1>4, <1>5
     DEF ReadStep, Start, AskUnchanged, AskMoved, Discover, DiscoverNothing,
         ConsultClosing, RecordScrape

\* What a read has found, and when it began, while it goes on to its plan.
LEMMA ReadGoesOn ==
    ASSUME TypeOK, NEW w \in Workers, NEW s \in Sites, job[w][s] \in Job,
           \/ AskUnchanged(w, s) \/ DiscoverNothing(w, s) \/ TouchListings(w, s)
           \/ RetireListings(w, s) \/ ConsultClosing(w, s)
    PROVE  /\ job'[w][s].started = job[w][s].started
           /\ job'[w][s].scraped = job[w][s].scraped
           /\ job'[w][s].found = job[w][s].found
           /\ job'[w][s].pc \in {"touching", "consulting", "recording"}
<1> DEFINE j == job[w][s]
<1>1. \A k : Put(w, s, k) => job'[w][s] = k
  BY DEF Put, TypeOK
<1>2. CASE AskUnchanged(w, s)
  <2>1. job'[w][s] = [j EXCEPT !.pc = "touching", !.outcome = "unchanged",
                               !.listing = j.known.listing, !.tag = j.known.tag,
                               !.fingerprint = j.known.fingerprint]
    BY <1>1, <1>2 DEF AskUnchanged
  <2> QED
    BY <2>1 DEF Job
<1>3. CASE DiscoverNothing(w, s)
  <2>1. job'[w][s] = [j EXCEPT !.pc = "consulting", !.outcome = "failed"]
    BY <1>1, <1>3 DEF DiscoverNothing
  <2> QED
    BY <2>1 DEF Job
<1>4. CASE TouchListings(w, s) \/ RetireListings(w, s)
  <2>1. job'[w][s] = [j EXCEPT !.pc = "consulting"]
    BY <1>1, <1>4 DEF TouchListings, RetireListings, To
  <2> QED
    BY <2>1 DEF Job
<1>5. CASE ConsultClosing(w, s)
  <2>1. \/ job'[w][s] = [j EXCEPT !.pc = "recording", !.soonest = SoonestClose(table, s)]
        \/ job'[w][s] = [j EXCEPT !.pc = "recording"]
    BY <1>1, <1>5 DEF ConsultClosing, To
  <2> QED
    BY <2>1 DEF Job
<1> QED
  BY <1>2, <1>3, <1>4, <1>5

\* What discovery makes of a read.
LEMMA ReadDiscovers ==
    ASSUME TypeOK, NEW w \in Workers, NEW s \in Sites, job[w][s] \in Job, Discover(w, s)
    PROVE  /\ job'[w][s].started = job[w][s].started
           /\ job'[w][s].scraped = job[w][s].scraped
           /\ job'[w][s].pc \in {"consulting", "saving"}
           /\ \E r \in Discovery(s, job[w][s].scraped) : job'[w][s].found = r.found
<1> DEFINE j == job[w][s]
<1>1. PICK pc \in {"consulting", "saving"}, r \in Discovery(s, j.scraped), outcome \in Outcome :
        Put(w, s, [j EXCEPT !.pc = pc, !.outcome = outcome, !.found = r.found,
                            !.listing = r.listing, !.tag = r.tag, !.fingerprint = r.found])
  BY DEF Discover, Outcome
<1>2. job'[w][s] = [j EXCEPT !.pc = pc, !.outcome = outcome, !.found = r.found,
                             !.listing = r.listing, !.tag = r.tag, !.fingerprint = r.found]
  BY <1>1 DEF Put, TypeOK
<1>3. /\ job'[w][s].started = j.started /\ job'[w][s].scraped = j.scraped
      /\ job'[w][s].pc = pc /\ job'[w][s].found = r.found
  BY <1>2 DEF Job
<1> QED
  BY <1>3

\* A job reaches "retiring" by storing, and any other step keeps it there or
\* takes it elsewhere.
LEMMA SeenOwnStep ==
    ASSUME TypeOK, ReadsInTime, NEW w \in Workers, NEW s \in Sites, ReadStep(w, s)
    PROVE  /\ Reading(w, s)' => job'[w][s].started <= now /\ job'[w][s].started <= job'[w][s].scraped
           /\ job'[w][s].pc = "retiring" =>
                 \A u \in UrlsOf(job'[w][s].stored) : job'[w][s].started <= table'[u].seen
<1> DEFINE j == job[w][s]
<1> USE DEF To
<1>0. /\ now \in Nat /\ table \in [URLs -> Listing]
      /\ \A k : Put(w, s, k) => job'[w][s] = k
  BY DEF Put, TypeOK
<1>1. j \in Job /\ (Reading(w, s) => j.started <= now /\ j.started <= j.scraped)
  BY <1>0, ReadFrame, JobOfHeld DEF ReadsInTime
<1>2. CASE SaveListings(w, s)
  <2>1. PICK taken \in SUBSET j.found :
           /\ table' = Upsert(table, s, taken, j.scraped)
           /\ Put(w, s, [j EXCEPT !.pc = "retiring", !.stored = taken])
    BY <1>2 DEF SaveListings
  <2>2. /\ job'[w][s].started = j.started /\ job'[w][s].scraped = j.scraped
        /\ job'[w][s].stored = taken
    BY <1>0, <1>1, <2>1 DEF Job
  <2>3. j.started <= j.scraped /\ j.started <= now
    BY <1>1, <1>2 DEF SaveListings, Reading
  <2>4. \A u \in UrlsOf(taken) : u \in URLs
    BY <1>1, <2>1 DEF UrlsOf, Job, Entry
  <2>5. \A u \in UrlsOf(taken) : table'[u].seen = Greatest(table[u].seen, j.scraped)
    BY <2>1, <2>4 DEF Upsert
  <2>6. \A u \in UrlsOf(taken) : j.scraped <= table'[u].seen
    BY <1>0, <1>1, <2>4, <2>5 DEF Greatest, Listing, Job
  <2>7. \A u \in UrlsOf(taken) : table'[u].seen \in Int
    BY <1>0, <1>1, <2>4, <2>5 DEF Greatest, Listing, Job
  <2> QED
    BY <1>1, <2>2, <2>3, <2>6, <2>7 DEF Job
<1>3. CASE Start(w, s)
  <2>1. /\ job'[w][s].started = now /\ job'[w][s].scraped = now
        /\ job'[w][s].pc # "retiring"
    BY <1>0, <1>1, <1>3 DEF Start, Job
  <2> QED
    BY <1>0, <2>1
<1>4. CASE AskMoved(w, s)
  <2>1. /\ job'[w][s].started = j.started /\ job'[w][s].scraped = now
        /\ job'[w][s].pc # "retiring"
    BY <1>0, <1>1, <1>4 DEF AskMoved, Job
  <2> QED
    BY <1>1, <1>4, <2>1 DEF AskMoved, Reading
<1>5. CASE Discover(w, s)
  <2>1. /\ job'[w][s].started = j.started /\ job'[w][s].scraped = j.scraped
        /\ job'[w][s].pc # "retiring"
    BY <1>0, <1>1, <1>5, ReadDiscovers
  <2> QED
    BY <1>1, <1>5, <2>1 DEF Discover, Reading
<1>6. CASE RecordScrape(w, s)
  BY <1>0, <1>6 DEF RecordScrape, Reading, NoJob
<1>7. CASE \/ AskUnchanged(w, s) \/ DiscoverNothing(w, s) \/ TouchListings(w, s)
           \/ RetireListings(w, s) \/ ConsultClosing(w, s)
  <2>1. /\ job'[w][s].started = j.started /\ job'[w][s].scraped = j.scraped
        /\ job'[w][s].pc # "retiring"
    BY <1>0, <1>1, <1>7, ReadGoesOn
  <2>2. Reading(w, s)
    BY <1>7 DEF AskUnchanged, DiscoverNothing, TouchListings, RetireListings,
                ConsultClosing, Reading
  <2> QED
    BY <1>1, <2>1, <2>2
<1> QED
  BY <1>2, <1>3, <1>4, <1>5, <1>6, <1>7 DEF ReadStep

LEMMA SeenStep ==
    ASSUME SweepersAlone, ClaimInv, SeenInv, [Next]_vars
    PROVE  SeenInv'
<1>0. TypeOK /\ Workers = Sweepers /\ ClaimsDisjoint
  BY DEF ClaimInv, SweepersAlone, Workers
<1>1. ASSUME NEW w \in Sweepers, Claim(w) PROVE SeenInv'
  <2>1. PICK batch \in SUBSET Sites :
           /\ rows' = Leased(Discovered, batch)
           /\ Take(w, batch, rows', now + Lease)
           /\ Finished(w)
    BY <1>0, <1>1, ClaimFrame
  <2>2. rows' \in [Sites -> Row] /\ now + Lease \in Int
    BY <1>0, <2>1, FreshRowType, LeasedType, LeaseAssumption DEF TypeOK
  <2>3. /\ \A s \in batch : job'[w][s] = Target(rows'[s], now + Lease)
        /\ \A s \in Sites \ batch : job'[w][s] = job[w][s]
        /\ \A v \in Workers \ {w} : job'[v] = job[v]
    BY <1>0, <2>1, <2>2, TakeType
  <2>4. \A v \in Workers, s \in Sites :
           \/ job'[v][s] = job[v][s]
           \/ job'[v][s].pc = "waiting"
    <3> SUFFICES ASSUME NEW v \in Workers, NEW s \in Sites
                 PROVE  job'[v][s] = job[v][s] \/ job'[v][s].pc = "waiting"
      OBVIOUS
    <3>0. Target(rows'[s], now + Lease).pc = "waiting"
      BY DEF Target
    <3>1. CASE v = w /\ s \in batch
      BY <2>3, <3>0, <3>1
    <3>2. CASE v # w \/ s \notin batch
      BY <2>3, <3>2
    <3> QED
      BY <3>1, <3>2
  <2> QED
    BY <1>1, <2>4 DEF Claim, SeenInv, ReadsInTime, StoredIsSeen, Reading
<1>2. ASSUME NEW w \in Sweepers, NEW s \in Sites, ReadStep(w, s) PROVE SeenInv'
  <2>1. /\ now' = now /\ Held(w, s)
        /\ \A v \in Workers, t \in Sites :
              <<v, t>> # <<w, s>> => job'[v][t] = job[v][t]
    BY <1>0, <1>2, ReadFrame
  <2>2. /\ Reading(w, s)' => job'[w][s].started <= now /\ job'[w][s].started <= job'[w][s].scraped
        /\ job'[w][s].pc = "retiring" =>
              \A u \in UrlsOf(job'[w][s].stored) : job'[w][s].started <= table'[u].seen
    BY <1>0, <1>2, SeenOwnStep DEF SeenInv
  <2>3. ReadsInTime'
    BY <2>1, <2>2 DEF SeenInv, ReadsInTime, Reading
  <2>4. StoredIsSeen'
    <3> SUFFICES ASSUME NEW v \in Workers, NEW t \in Sites, job'[v][t].pc = "retiring",
                        NEW u \in UrlsOf(job'[v][t].stored), u \in Live(table', t)
                 PROVE  job'[v][t].started <= table'[u].seen
      BY DEF StoredIsSeen
    <3>1. CASE <<v, t>> = <<w, s>>
      BY <2>2, <3>1
    <3>2. CASE <<v, t>> # <<w, s>>
      <4>1. job'[v][t] = job[v][t] /\ Held(v, t)
        BY <2>1, <3>2 DEF Held
      <4>2. t # s
        BY <1>0, <2>1, <3>2, <4>1 DEF ClaimsDisjoint
      <4>3. u \in URLs /\ table'[u].site # s
        BY <4>2 DEF Live
      <4>4. table'[u] = table[u]
        BY <1>0, <1>2, <4>3, TableFrame
      <4> QED
        BY <4>1, <4>4 DEF SeenInv, StoredIsSeen, Live
    <3> QED
      BY <3>1, <3>2
  <2> QED
    BY <2>3, <2>4 DEF SeenInv
<1>3. ASSUME NEW w \in Sweepers, Crash(w) PROVE SeenInv'
  <2>1. \A v \in Workers, s \in Sites :
           job'[v][s] = job[v][s] \/ job'[v][s].pc = "idle"
    BY <1>0, <1>3 DEF Crash, NoJob, TypeOK
  <2> QED
    BY <1>3, <2>1 DEF Crash, SeenInv, ReadsInTime, StoredIsSeen, Reading
<1>4. ASSUME NEW s \in Sites, Edit(s) PROVE SeenInv'
  BY <1>4 DEF Edit, SeenInv, ReadsInTime, StoredIsSeen, Reading
<1>5. ASSUME Tick PROVE SeenInv'
  <2>1. \A w \in Workers, s \in Sites : Reading(w, s) => job[w][s].started \in Nat
    BY <1>0, JobOfHeld DEF Reading, Held, Job
  <2> QED
    BY <1>0, <1>5, <2>1 DEF Tick, TypeOK, SeenInv, ReadsInTime, StoredIsSeen, Reading
<1>6. ASSUME UNCHANGED vars PROVE SeenInv'
  BY <1>6 DEF vars, SeenInv, ReadsInTime, StoredIsSeen, Reading
<1> QED
  BY <1>0, <1>1, <1>2, <1>3, <1>4, <1>5, <1>6 DEF Next, SweepersAlone

\* What a reader stored and was seen since it began is spared by its retirement.
LEMMA RetirementSpares ==
    ASSUME TypeOK, [Next]_vars, NEW w \in Workers, NEW s \in Sites, RetiresFor(w, s),
           NEW u \in UrlsOf(job[w][s].stored), table[u].status = "live",
           u \in Live(table, s) => job[w][s].started <= table[u].seen
    PROVE  table'[u].status = "live"
<1>0. job[w][s] \in Job /\ u \in URLs
  BY JobOfHeld, StoredUrls DEF RetiresFor, Held
<1>1. CASE table' = table
  BY <1>1
<1>2. ASSUME NEW v \in Workers, NEW t \in Sites, ReadStep(v, t)
      PROVE  table'[u].status = "live"
  <2>1. <<v, t>> = <<w, s>>
    BY <1>0, <1>2, ReadFrame DEF RetiresFor
  <2>2. RetireListings(w, s)
    BY <1>2, <2>1 DEF RetiresFor, ReadStep, Start, AskUnchanged, AskMoved, Discover,
                      DiscoverNothing, TouchListings, SaveListings, ConsultClosing, RecordScrape
  <2>3. CASE table' = Retire(table, s, job[w][s].started)
    <3>1. u \in Live(table, s) => ~(table[u].seen < job[w][s].started)
      BY <1>0 DEF TypeOK, Listing, Job
    <3> QED
      BY <1>0, <2>3, <3>1 DEF Retire
  <2> QED
    BY <2>2, <2>3 DEF RetireListings
<1>3. ASSUME \/ \E v \in Sweepers : Claim(v)
             \/ \E v \in Visitors : Visit(v)
             \/ \E v \in Workers : Crash(v)
      PROVE  table' = table
  BY <1>3 DEF Claim, Visit, Crash
<1> QED
  BY <1>1, <1>2, <1>3 DEF Next, Edit, Tick, vars

\* A read never retires what it has just stored: among sweepers, seen times of
\* a site's listings only come from the one read that has the site.
THEOREM RetirementIsSafe == ASSUME SweepersAlone PROVE Spec => RetireSparesStored
<1>1. Init => SeenInv
  <2>1. Init => \A w \in Workers, s \in Sites : job[w][s].pc = "idle"
    BY DEF Init, NoJob
  <2> QED
    BY <2>1 DEF SeenInv, ReadsInTime, StoredIsSeen, Reading, Workers
<1>2. ClaimInv /\ SeenInv /\ [Next]_vars => SeenInv'
  BY SeenStep
<1>3. ClaimInv /\ SeenInv /\ [Next]_vars =>
         [\A w \in Workers, s \in Sites : RetiresFor(w, s) =>
            \A u \in UrlsOf(job[w][s].stored) :
               table[u].status = "live" => table'[u].status = "live"]_vars
  BY RetirementSpares DEF ClaimInv, SeenInv, StoredIsSeen, RetiresFor
<1> QED
  BY <1>1, <1>2, <1>3, ClaimInvariant, PTL DEF Spec, RetireSparesStored

(***************************************************************************)
(* And it retires the rest: no listing of the site but those just stored   *)
(* has been seen since the read began, because nobody else writes to them. *)
(***************************************************************************)

\* The addresses site s may list: those of its programmes and of its display.
Offered(s) == UrlsOf((UNION Editions[s]) \cup AboutPage[s])

\* No site lists an address of another's: a read keeps to the host of the site
\* it reads, and what two sites of one host both list goes to whichever was
\* read last.
OwnListings == \A s, t \in Sites : s # t => Offered(s) \cap Offered(t) = {}

PagesAreEditions == \A s \in Sites : page[s] \in Editions[s]

FoundIsOffered ==
    \A w \in Sweepers, s \in Sites :
        Held(w, s) => UrlsOf(job[w][s].found) \subseteq Offered(s)

\* What job j has left to retire of site s was seen before it began.
RestUnseen(j, t, s) ==
    /\ j.pc \in {"asking", "discovering", "saving"} =>
          \A u \in Live(t, s) : t[u].seen < j.started
    /\ j.pc = "retiring" =>
          /\ UrlsOf(j.stored) \subseteq Offered(s)
          /\ UrlsOf(j.stored) \subseteq Live(t, s)
          /\ \A u \in Live(t, s) \ UrlsOf(j.stored) : t[u].seen < j.started

RestInv ==
    /\ PagesAreEditions /\ FoundIsOffered
    /\ \A w \in Sweepers, s \in Sites : RestUnseen(job[w][s], table, s)

\* A read leaves alone what is another site's and it did not find.
LEMMA OthersFrame ==
    ASSUME TypeOK, NEW w \in Workers, NEW s \in Sites, ReadStep(w, s),
           NEW u \in URLs, table[u].site # s, u \notin UrlsOf(job[w][s].found)
    PROVE  table'[u] = table[u]
<1> USE DEF To
<1>1. CASE table' = table
  BY <1>1
<1>2. CASE TouchListings(w, s)
  BY <1>2 DEF TouchListings, Touch, Live
<1>3. CASE SaveListings(w, s)
  <2>1. PICK taken \in SUBSET job[w][s].found : table' = Upsert(table, s, taken, job[w][s].scraped)
    BY <1>3 DEF SaveListings
  <2>2. u \notin UrlsOf(taken)
    BY DEF UrlsOf
  <2> QED
    BY <2>1, <2>2 DEF Upsert
<1>4. CASE RetireListings(w, s)
  BY <1>4 DEF RetireListings, Retire, Live
<1> QED
  BY <1>1, <1>2, <1>3, <1>4
     DEF ReadStep, Start, AskUnchanged, AskMoved, Discover, DiscoverNothing,
         ConsultClosing, RecordScrape

\* The site that is being read.
LEMMA RestOwnStep ==
    ASSUME TypeOK, RestInv, NEW w \in Sweepers, NEW s \in Sites, ReadStep(w, s)
    PROVE  /\ Held(w, s)' => UrlsOf(job'[w][s].found) \subseteq Offered(s)
           /\ RestUnseen(job'[w][s], table', s)
<1> DEFINE j == job[w][s]
<1> USE DEF To
<1>0. /\ w \in Workers /\ now \in Nat /\ table \in [URLs -> Listing]
      /\ \A k : Put(w, s, k) => job'[w][s] = k
  BY DEF Workers, Put, TypeOK
<1>1. j \in Job /\ UrlsOf(j.found) \subseteq Offered(s) /\ RestUnseen(j, table, s)
  BY <1>0, ReadFrame, JobOfHeld DEF RestInv, FoundIsOffered
<1>2. CASE Start(w, s)
  <2>1. /\ job'[w][s].started = now /\ job'[w][s].found = j.found
        /\ job'[w][s].pc # "retiring" /\ table' = table
        /\ \A u \in Live(table, s) : table[u].seen < now
    BY <1>0, <1>1, <1>2 DEF Start, Job
  <2> QED
    BY <1>1, <2>1 DEF RestUnseen
<1>3. CASE AskMoved(w, s)
  <2>1. /\ job'[w][s].started = j.started /\ job'[w][s].found = j.found
        /\ job'[w][s].pc # "retiring" /\ table' = table /\ j.pc = "asking"
    BY <1>0, <1>1, <1>3 DEF AskMoved, Job
  <2> QED
    BY <1>1, <2>1 DEF RestUnseen
<1>4. CASE Discover(w, s)
  <2>1. PICK r \in Discovery(s, j.scraped) : job'[w][s].found = r.found
    BY <1>0, <1>1, <1>4, ReadDiscovers
  <2>2. /\ job'[w][s].started = j.started /\ job'[w][s].found = r.found
        /\ job'[w][s].pc # "retiring"
    BY <1>0, <1>1, <1>4, <2>1, ReadDiscovers
  <2>3. r.found \subseteq page[s] \cup AboutPage[s]
    BY DEF Discovery, Showing
  <2>4. r.found \subseteq (UNION Editions[s]) \cup AboutPage[s]
    BY <2>3 DEF RestInv, PagesAreEditions
  <2>5. UrlsOf(r.found) \subseteq Offered(s)
    BY <2>4 DEF UrlsOf, Offered
  <2> QED
    BY <1>1, <1>4, <2>2, <2>5 DEF Discover, RestUnseen
<1>5. CASE SaveListings(w, s)
  <2>1. PICK taken \in SUBSET j.found :
           /\ table' = Upsert(table, s, taken, j.scraped)
           /\ Put(w, s, [j EXCEPT !.pc = "retiring", !.stored = taken])
    BY <1>5 DEF SaveListings
  <2>2. /\ job'[w][s].started = j.started /\ job'[w][s].found = j.found
        /\ job'[w][s].stored = taken /\ job'[w][s].pc = "retiring" /\ j.pc = "saving"
    BY <1>0, <1>1, <1>5, <2>1 DEF SaveListings, Job
  <2>3. UrlsOf(taken) \subseteq UrlsOf(j.found) /\ UrlsOf(taken) \subseteq URLs
    BY <1>1 DEF UrlsOf, Job, Entry
  <2>4. /\ \A u \in UrlsOf(taken) : table'[u].status = "live" /\ table'[u].site = s
        /\ \A u \in URLs \ UrlsOf(taken) : table'[u] = table[u]
    BY <2>1, <2>3 DEF Upsert
  <2>5. UrlsOf(taken) \subseteq Live(table', s)
    BY <2>3, <2>4 DEF Live
  <2>6. \A u \in Live(table', s) \ UrlsOf(taken) : table'[u].seen < j.started
    BY <1>1, <2>2, <2>4 DEF Live, RestUnseen
  <2> QED
    BY <1>1, <2>2, <2>3, <2>5, <2>6 DEF RestUnseen
<1>6. CASE RecordScrape(w, s)
  BY <1>0, <1>6 DEF RecordScrape, RestUnseen, Held, NoJob
<1>7. CASE \/ AskUnchanged(w, s) \/ DiscoverNothing(w, s) \/ TouchListings(w, s)
           \/ RetireListings(w, s) \/ ConsultClosing(w, s)
  <2>1. /\ job'[w][s].found = j.found
        /\ job'[w][s].pc \in {"touching", "consulting", "recording"}
    BY <1>0, <1>1, <1>7, ReadGoesOn
  <2> QED
    BY <1>1, <2>1 DEF RestUnseen
<1> QED
  BY <1>2, <1>3, <1>4, <1>5, <1>6, <1>7 DEF ReadStep

\* Other sites than the one that is being read.
LEMMA RestOtherStep ==
    ASSUME OwnListings, TypeOK, RestInv, NEW w \in Sweepers, NEW s \in Sites, ReadStep(w, s),
           NEW v \in Sweepers, NEW t \in Sites \ {s}
    PROVE  RestUnseen(job[v][t], table', t)
<1>1. RestUnseen(job[v][t], table, t) /\ w \in Workers
  BY DEF RestInv, Workers
<1>2. ASSUME NEW u \in Live(table', t)
      PROVE  u \in Live(table, t) /\ table'[u] = table[u]
  BY <1>1, <1>2, TableFrame DEF Live
<1>3. ASSUME NEW u \in Live(table, t), u \in Offered(t)
      PROVE  u \in Live(table', t)
  <2>1. UrlsOf(job[w][s].found) \subseteq Offered(s)
    BY <1>1, ReadFrame DEF RestInv, FoundIsOffered
  <2>2. u \notin UrlsOf(job[w][s].found) /\ table[u].site # s /\ u \in URLs
    BY <1>3, <2>1 DEF OwnListings, Live
  <2>3. table'[u] = table[u]
    BY <1>1, <2>2, OthersFrame
  <2> QED
    BY <1>3, <2>3 DEF Live
<1> QED
  BY <1>1, <1>2, <1>3 DEF RestUnseen

LEMMA RestStep ==
    ASSUME SweepersAlone, OwnListings, ClaimInv, RestInv, [Next]_vars
    PROVE  RestInv'
<1>0. TypeOK /\ Workers = Sweepers /\ ClaimsDisjoint
  BY DEF ClaimInv, SweepersAlone, Workers
<1> USE DEF RestInv
<1>1. ASSUME NEW w \in Sweepers, Claim(w) PROVE RestInv'
  <2>1. PICK batch \in SUBSET Sites :
           /\ rows' = Leased(Discovered, batch)
           /\ Take(w, batch, rows', now + Lease)
           /\ Finished(w)
    BY <1>0, <1>1, ClaimFrame
  <2>2. rows' \in [Sites -> Row] /\ now + Lease \in Int
    BY <1>0, <2>1, FreshRowType, LeasedType, LeaseAssumption DEF TypeOK
  <2>3. /\ \A s \in batch : job'[w][s] = Target(rows'[s], now + Lease)
        /\ \A s \in Sites \ batch : job'[w][s] = job[w][s]
        /\ \A v \in Sweepers \ {w} : job'[v] = job[v]
    BY <1>0, <2>1, <2>2, TakeType
  <2>4. \A v \in Sweepers, s \in Sites :
           \/ job'[v][s] = job[v][s]
           \/ job'[v][s].pc = "waiting" /\ job'[v][s].found = {}
    <3> SUFFICES ASSUME NEW v \in Sweepers, NEW s \in Sites
                 PROVE  \/ job'[v][s] = job[v][s]
                        \/ job'[v][s].pc = "waiting" /\ job'[v][s].found = {}
      OBVIOUS
    <3>0. /\ Target(rows'[s], now + Lease).pc = "waiting"
          /\ Target(rows'[s], now + Lease).found = {}
      BY DEF Target
    <3>1. CASE v = w /\ s \in batch
      BY <2>3, <3>0, <3>1
    <3>2. CASE v # w \/ s \notin batch
      BY <2>3, <3>2
    <3> QED
      BY <3>1, <3>2
  <2>5. table' = table /\ page' = page
    BY <1>1 DEF Claim
  <2>6. UrlsOf({}) = {}
    BY DEF UrlsOf
  <2>7. FoundIsOffered'
    BY <2>4, <2>6 DEF FoundIsOffered, Held
  <2>8. \A v \in Sweepers, s \in Sites : RestUnseen(job'[v][s], table', s)
    <3> TAKE v \in Sweepers, s \in Sites
    <3>1. CASE job'[v][s] = job[v][s]
      BY <2>5, <3>1
    <3>2. CASE job'[v][s].pc = "waiting"
      BY <3>2 DEF RestUnseen
    <3> QED
      BY <2>4, <3>1, <3>2
  <2> QED
    BY <2>5, <2>7, <2>8 DEF PagesAreEditions
<1>2. ASSUME NEW w \in Sweepers, NEW s \in Sites, ReadStep(w, s) PROVE RestInv'
  <2>1. /\ page' = page /\ Held(w, s)
        /\ \A v \in Sweepers, t \in Sites :
              <<v, t>> # <<w, s>> => job'[v][t] = job[v][t]
    <3>1. page' = page
      BY <1>2 DEF ReadStep, Start, AskUnchanged, AskMoved, Discover, DiscoverNothing,
                  TouchListings, SaveListings, RetireListings, ConsultClosing, RecordScrape
    <3> QED
      BY <1>0, <1>2, <3>1, ReadFrame
  <2>2. /\ Held(w, s)' => UrlsOf(job'[w][s].found) \subseteq Offered(s)
        /\ RestUnseen(job'[w][s], table', s)
    BY <1>0, <1>2, RestOwnStep
  <2>3. FoundIsOffered'
    BY <2>1, <2>2 DEF FoundIsOffered, Held
  <2>4. ASSUME NEW v \in Sweepers, NEW t \in Sites
        PROVE  RestUnseen(job'[v][t], table', t)
    <3>1. CASE <<v, t>> = <<w, s>>
      BY <2>2, <3>1
    <3>2. CASE <<v, t>> # <<w, s>> /\ Held(v, t)
      <4>1. t # s
        BY <1>0, <2>1, <3>2 DEF ClaimsDisjoint
      <4> QED
        BY <1>0, <1>2, <2>1, <3>2, <4>1, RestOtherStep
    <3>3. CASE <<v, t>> # <<w, s>> /\ ~Held(v, t)
      BY <2>1, <3>3 DEF Held, RestUnseen
    <3> QED
      BY <3>1, <3>2, <3>3
  <2> QED
    BY <2>1, <2>3, <2>4 DEF PagesAreEditions
<1>3. ASSUME NEW w \in Sweepers, Crash(w) PROVE RestInv'
  <2>1. \A v \in Sweepers, s \in Sites :
           job'[v][s] = job[v][s] \/ job'[v][s].pc = "idle"
    BY <1>0, <1>3 DEF Crash, NoJob, TypeOK
  <2>2. table' = table /\ page' = page
    BY <1>3 DEF Crash
  <2>3. \A v \in Sweepers, s \in Sites : RestUnseen(job'[v][s], table', s)
    <3> TAKE v \in Sweepers, s \in Sites
    <3>1. CASE job'[v][s] = job[v][s]
      BY <2>2, <3>1
    <3>2. CASE job'[v][s].pc = "idle"
      BY <3>2 DEF RestUnseen
    <3> QED
      BY <2>1, <3>1, <3>2
  <2> QED
    BY <2>1, <2>2, <2>3 DEF FoundIsOffered, PagesAreEditions, Held
<1>4. ASSUME NEW s \in Sites, Edit(s) PROVE RestInv'
  <2>1. job' = job /\ table' = table
    BY <1>4 DEF Edit
  <2>2. PagesAreEditions'
    BY <1>0, <1>4 DEF Edit, PagesAreEditions, TypeOK
  <2> QED
    BY <2>1, <2>2 DEF FoundIsOffered, Held
<1>5. ASSUME Tick \/ UNCHANGED vars PROVE RestInv'
  <2>1. job' = job /\ table' = table /\ page' = page
    BY <1>5 DEF Tick, vars
  <2> QED
    BY <2>1 DEF FoundIsOffered, PagesAreEditions, Held
<1> QED
  BY <1>0, <1>1, <1>2, <1>3, <1>4, <1>5 DEF Next, SweepersAlone

LEMMA RetirementLeaves ==
    ASSUME SweepersAlone, ClaimInv, SeenInv, RestInv, [Next]_vars,
           NEW w \in Workers, NEW s \in Sites, RetiresFor(w, s)
    PROVE  Live(table', s) = UrlsOf(job[w][s].stored)
<1> DEFINE j == job[w][s]
<1>0. TypeOK /\ Workers = Sweepers /\ j \in Job /\ table \in [URLs -> Listing] /\ w \in Sweepers
  BY JobOfHeld DEF ClaimInv, SweepersAlone, Workers, RetiresFor, Held, TypeOK
<1>1. PICK v \in Workers, t \in Sites : ReadStep(v, t)
  <2>1. ~ UNCHANGED job
    BY DEF RetiresFor
  <2>2. ASSUME NEW v \in Sweepers, Claim(v) PROVE FALSE
    <3>1. PICK batch \in SUBSET Sites :
             Take(v, batch, rows', now + Lease) /\ Finished(v) /\ rows' = Leased(Discovered, batch)
      BY <1>0, <2>2, ClaimFrame
    <3>2. rows' \in [Sites -> Row] /\ now + Lease \in Int
      BY <1>0, <3>1, FreshRowType, LeasedType, LeaseAssumption DEF TypeOK
    <3>3. v # w
      BY <3>1 DEF Finished, RetiresFor, Held
    <3>4. \A x \in Workers \ {v} : job'[x] = job[x]
      BY <1>0, <3>1, <3>2, TakeType
    <3>5. job'[w] = job[w]
      BY <1>0, <3>3, <3>4
    <3> QED
      BY <3>5 DEF RetiresFor
  <2>3. ASSUME NEW v \in Workers, Crash(v) PROVE FALSE
    <3>1. job'[w][s] = j \/ job'[w][s] = NoJob
      BY <1>0, <2>3 DEF Crash, TypeOK
    <3> QED
      BY <3>1 DEF RetiresFor, NoJob
  <2> QED
    BY <2>1, <2>2, <2>3 DEF Next, SweepersAlone, Edit, Tick, vars
<1>2. <<v, t>> = <<w, s>>
  BY <1>0, <1>1, ReadFrame DEF RetiresFor
<1>3. RetireListings(w, s)
  BY <1>1, <1>2 DEF RetiresFor, ReadStep, Start, AskUnchanged, AskMoved, Discover,
                    DiscoverNothing, TouchListings, SaveListings, ConsultClosing, RecordScrape
<1>4. table' = Retire(table, s, j.started)
  <2>1. ~Faulted
    <3>1. spent.faults \in Nat
      BY <1>0, BoundAssumption DEF TypeOK, Budget
    <3>2. Faulted => spent'.faults = spent.faults + 1
      BY <1>0 DEF Faulted, TypeOK, Budget
    <3> QED
      BY <3>1, <3>2 DEF RetiresFor
  <2> QED
    BY <1>3, <2>1 DEF RetireListings
<1>5. RestUnseen(j, table, s) /\ j.pc = "retiring"
  BY <1>0 DEF RestInv, RetiresFor
<1>6. \A u \in UrlsOf(j.stored) : u \in Live(table, s) /\ ~(table[u].seen < j.started)
  <2> TAKE u \in UrlsOf(j.stored)
  <2>1. u \in Live(table, s)
    BY <1>5 DEF RestUnseen
  <2>2. u \in URLs
    BY <2>1 DEF Live
  <2>3. table[u].seen \in Int /\ j.started \in Int
    BY <1>0, <2>2 DEF Listing, Job
  <2>4. j.started <= table[u].seen
    BY <1>0, <1>5, <2>1 DEF SeenInv, StoredIsSeen
  <2> QED
    BY <2>1, <2>3, <2>4
<1>7. \A u \in Live(table, s) : u \notin UrlsOf(j.stored) => table[u].seen < j.started
  BY <1>5 DEF RestUnseen
<1>8. \A u \in URLs : u \in Live(table', s) <=> (u \in Live(table, s) /\ ~(table[u].seen < j.started))
  <2> TAKE u \in URLs
  <2>1. CASE u \in Live(table, s) /\ table[u].seen < j.started
    <3>1. table'[u].status = "retired"
      BY <1>0, <1>4, <2>1 DEF Retire, Listing
    <3> QED
      BY <2>1, <3>1 DEF Live
  <2>2. CASE ~(u \in Live(table, s) /\ table[u].seen < j.started)
    <3>1. table'[u] = table[u]
      BY <1>4, <2>2 DEF Retire
    <3> QED
      BY <2>2, <3>1 DEF Live
  <2> QED
    BY <2>1, <2>2
<1> HIDE DEF j
<1>9. Live(table, s) \subseteq URLs /\ Live(table', s) \subseteq URLs
  BY DEF Live
<1>10. Live(table', s) = UrlsOf(j.stored)
  BY <1>6, <1>7, <1>8, <1>9
<1> QED
  BY <1>10 DEF j

\* A read that stored and retired without an error leaves on show what it
\* stored and nothing else, however many reads before it were cut short
\* between the two (SaveExhibitions, RetireUnseen).
THEOREM RetirementIsComplete ==
    ASSUME SweepersAlone, OwnListings PROVE Spec => RetireLeavesStored
<1>1. Init => SeenInv /\ RestInv
  <2>1. Init => \A w \in Workers, s \in Sites : job[w][s].pc = "idle"
    BY DEF Init, NoJob
  <2>2. Init => PagesAreEditions
    BY DEF Init, PagesAreEditions
  <2> QED
    BY <2>1, <2>2 DEF SeenInv, ReadsInTime, StoredIsSeen, Reading, Workers,
                      RestInv, FoundIsOffered, RestUnseen, Held
<1>2. ClaimInv /\ SeenInv /\ [Next]_vars => SeenInv'
  BY SeenStep
<1>3. ClaimInv /\ RestInv /\ [Next]_vars => RestInv'
  BY RestStep
<1>4. ClaimInv /\ SeenInv /\ RestInv /\ [Next]_vars =>
         [\A w \in Workers, s \in Sites : RetiresFor(w, s) =>
            Live(table', s) = UrlsOf(job[w][s].stored)]_vars
  BY RetirementLeaves
<1> QED
  BY <1>1, <1>2, <1>3, <1>4, ClaimInvariant, PTL DEF Spec, RetireLeavesStored

(***************************************************************************)
(* Readers that do not claim.  Any number of sweepers and visitors may be  *)
(* in one site, and their leases may lapse.  As long as no page is tagged  *)
(* nobody is told that nothing changed, so a listing's "last seen" only    *)
(* rises: what one reader stored, the others may retire, but not itself.   *)
(***************************************************************************)
Untagged == TagRule = "none"

\* No validators are kept, so none are offered.
KeepsNoTags ==
    /\ \A s \in Sites : rows[s] # None => rows[s].tag = None
    /\ \A w \in Workers, s \in Sites : Held(w, s) =>
          /\ job[w][s].known.tag = None /\ job[w][s].tag = None
          /\ job[w][s].pc \notin {"asking", "touching"}

StaysSeen ==
    \A w \in Workers, s \in Sites :
        job[w][s].pc = "retiring" =>
           \A u \in UrlsOf(job[w][s].stored) : job[w][s].started <= table[u].seen

OverlapInv == TypeOK /\ TakenAreKnown /\ KeepsNoTags /\ ReadsInTime /\ StaysSeen

\* A site is taken with the row it has.
LEMMA TakingStep ==
    ASSUME OverlapInv, NEW w \in Workers, NEW taken \in SUBSET Sites, NEW until \in Int,
           Take(w, taken, rows', until), UNCHANGED <<now, table>>,
           rows' \in [Sites -> Row], \A s \in Sites : rows'[s].tag = Discovered[s].tag
    PROVE  KeepsNoTags' /\ ReadsInTime' /\ StaysSeen'
<1>1. \A s \in Sites : rows'[s].tag = None
  BY DEF OverlapInv, KeepsNoTags, Discovered, FreshRow
<1>2. /\ \A s \in taken : job'[w][s] = Target(rows'[s], until)
      /\ \A s \in Sites \ taken : job'[w][s] = job[w][s]
      /\ \A v \in Workers \ {w} : job'[v] = job[v]
  BY TakeType DEF OverlapInv
<1>3. ASSUME NEW v \in Workers, NEW s \in Sites
      PROVE  \/ job'[v][s] = job[v][s]
             \/ /\ job'[v][s].pc = "waiting"
                /\ job'[v][s].known.tag = None /\ job'[v][s].tag = None
  <2>0. /\ Target(rows'[s], until).pc = "waiting"
        /\ Target(rows'[s], until).known = rows'[s]
        /\ Target(rows'[s], until).tag = None
    BY DEF Target
  <2>1. CASE v = w /\ s \in taken
    <3>1. job'[v][s] = Target(rows'[s], until)
      BY <1>2, <2>1
    <3> QED
      BY <1>1, <2>0, <3>1
  <2>2. CASE v # w \/ s \notin taken
    BY <1>2, <2>2
  <2> QED
    BY <2>1, <2>2
<1>4. KeepsNoTags'
  BY <1>1, <1>3 DEF OverlapInv, KeepsNoTags, Held
<1>5. ReadsInTime' /\ StaysSeen'
  BY <1>3 DEF OverlapInv, ReadsInTime, StaysSeen, Reading
<1> QED
  BY <1>4, <1>5

\* A read without validators neither asks nor touches.
LEMMA UntaggedRead ==
    ASSUME Untagged, OverlapInv, NEW w \in Workers, NEW s \in Sites, ReadStep(w, s), Held(w, s)'
    PROVE  /\ job'[w][s].known.tag = None /\ job'[w][s].tag = None
           /\ job'[w][s].pc \notin {"asking", "touching"}
<1> DEFINE j == job[w][s]
<1> USE DEF To
<1>0. /\ j \in Job /\ j.known.tag = None /\ j.tag = None
      /\ j.pc \notin {"asking", "touching"}
      /\ \A k : Put(w, s, k) => job'[w][s] = k
  BY ReadFrame, JobOfHeld DEF OverlapInv, KeepsNoTags, Put, TypeOK
<1>1. job'[w][s].known = j.known
  BY ReadFrame DEF OverlapInv, Continues, Ends, Held, NoJob
<1>2. CASE Discover(w, s)
  <2>1. PICK pc \in {"consulting", "saving"}, r \in Discovery(s, j.scraped), outcome \in Outcome :
          Put(w, s, [j EXCEPT !.pc = pc, !.outcome = outcome, !.found = r.found,
                              !.listing = r.listing, !.tag = r.tag, !.fingerprint = r.found])
    BY <1>2 DEF Discover, Outcome
  <2>2. r.tag = None
    BY DEF Discovery, Tag, Untagged
  <2>3. job'[w][s] = [j EXCEPT !.pc = pc, !.outcome = outcome, !.found = r.found,
                               !.listing = r.listing, !.tag = r.tag, !.fingerprint = r.found]
    BY <1>0, <2>1
  <2>4. job'[w][s].tag = r.tag /\ job'[w][s].pc = pc
    BY <1>0, <2>3 DEF Job
  <2> QED
    BY <1>0, <1>1, <2>2, <2>4
<1>3. CASE Start(w, s)
  <2>1. job'[w][s] = [j EXCEPT !.pc = "discovering", !.started = now, !.scraped = now]
    BY <1>0, <1>3 DEF Start, CanAsk
  <2>2. job'[w][s].tag = j.tag /\ job'[w][s].pc = "discovering"
    BY <1>0, <2>1 DEF Job
  <2> QED
    BY <1>0, <1>1, <2>2
<1>4. CASE DiscoverNothing(w, s)
  <2>1. job'[w][s] = [j EXCEPT !.pc = "consulting", !.outcome = "failed"]
    BY <1>0, <1>4 DEF DiscoverNothing
  <2> QED
    BY <1>0, <1>1, <2>1 DEF Job
<1>5. CASE SaveListings(w, s)
  <2>1. PICK taken : job'[w][s] = [j EXCEPT !.pc = "retiring", !.stored = taken]
    BY <1>0, <1>5 DEF SaveListings
  <2> QED
    BY <1>0, <1>1, <2>1 DEF Job
<1>6. CASE RetireListings(w, s)
  <2>1. job'[w][s] = [j EXCEPT !.pc = "consulting"]
    BY <1>0, <1>6 DEF RetireListings
  <2> QED
    BY <1>0, <1>1, <2>1 DEF Job
<1>7. CASE ConsultClosing(w, s)
  <2>1. PICK soonest : \/ job'[w][s] = [j EXCEPT !.pc = "recording", !.soonest = soonest]
                       \/ job'[w][s] = [j EXCEPT !.pc = "recording"]
    BY <1>0, <1>7 DEF ConsultClosing
  <2> QED
    BY <1>0, <1>1, <2>1 DEF Job
<1>8. CASE RecordScrape(w, s)
  BY <1>0, <1>8 DEF RecordScrape, Held, NoJob
<1> QED
  BY <1>0, <1>2, <1>3, <1>4, <1>5, <1>6, <1>7, <1>8
     DEF ReadStep, AskUnchanged, AskMoved, TouchListings

\* Stored again, or retired, a listing has been seen no earlier than before.
LEMMA SeenRises ==
    ASSUME TypeOK, NEW w \in Workers, NEW s \in Sites, ReadStep(w, s),
           job[w][s].pc # "touching", NEW u \in URLs
    PROVE  table[u].seen <= table'[u].seen
<1>0. table[u] \in Listing /\ table[u].seen \in Int
  BY DEF TypeOK, Listing
<1>1. CASE table' = table
  BY <1>0, <1>1
<1>2. CASE SaveListings(w, s)
  <2>1. PICK taken : table' = Upsert(table, s, taken, job[w][s].scraped)
    BY <1>2 DEF SaveListings
  <2>2. job[w][s].scraped \in Int
    BY ReadFrame, JobOfHeld DEF Job
  <2>3. table'[u].seen = Greatest(table[u].seen, job[w][s].scraped) \/ table'[u] = table[u]
    BY <2>1 DEF Upsert
  <2> QED
    BY <1>0, <2>2, <2>3 DEF Greatest
<1>3. CASE RetireListings(w, s)
  <2>1. table'[u].seen = table[u].seen
    BY <1>0, <1>3 DEF RetireListings, Retire, Listing
  <2> QED
    BY <1>0, <2>1
<1> QED
  BY <1>1, <1>2, <1>3
     DEF ReadStep, Start, AskUnchanged, AskMoved, Discover, DiscoverNothing, TouchListings,
         ConsultClosing, RecordScrape

LEMMA OverlapStep ==
    ASSUME Untagged, OverlapInv, [Next]_vars
    PROVE  OverlapInv'
<1>0. TypeOK /\ TypeOK' /\ TakenAreKnown'
  BY TypeStep DEF OverlapInv
<1> SUFFICES KeepsNoTags' /\ ReadsInTime' /\ StaysSeen'
  BY <1>0 DEF OverlapInv
<1>1. ASSUME NEW w \in Sweepers, Claim(w)
      PROVE  KeepsNoTags' /\ ReadsInTime' /\ StaysSeen'
  <2>1. PICK batch \in SUBSET Sites :
           rows' = Leased(Discovered, batch) /\ Take(w, batch, rows', now + Lease)
    BY <1>0, <1>1, ClaimFrame
  <2>2. rows' \in [Sites -> Row] /\ Discovered \in [Sites -> Row] /\ now + Lease \in Int
    <3>1. Discovered \in [Sites -> Row]
      BY <1>0, FreshRowType
    <3>2. now + Lease \in Int
      BY <1>0, LeaseAssumption DEF TypeOK
    <3> QED
      BY <1>0, <2>1, <3>1, <3>2, LeasedType
  <2>3. \A s \in Sites : rows'[s].tag = Discovered[s].tag
    BY <2>1, <2>2 DEF Leased, Row
  <2> QED
    BY <1>1, <2>1, <2>2, <2>3, TakingStep DEF Workers, Claim
<1>2. ASSUME NEW w \in Visitors, Visit(w)
      PROVE  KeepsNoTags' /\ ReadsInTime' /\ StaysSeen'
  <2>1. PICK area \in SUBSET Sites : Take(w, area, rows', 0)
    BY <1>2 DEF Visit
  <2>2. rows' \in [Sites -> Row] /\ rows' = Discovered
    BY <1>0, <1>2, FreshRowType DEF Visit
  <2>3. w \in Workers /\ 0 \in Int /\ UNCHANGED <<now, table>>
    BY <1>2 DEF Workers, Visit
  <2> QED
    BY <2>1, <2>2, <2>3, TakingStep
<1>3. ASSUME NEW w \in Workers, NEW s \in Sites, ReadStep(w, s)
      PROVE  KeepsNoTags' /\ ReadsInTime' /\ StaysSeen'
  <2>1. /\ Held(w, s) /\ now' = now
        /\ \A v \in Workers, t \in Sites :
              <<v, t>> # <<w, s>> => job'[v][t] = job[v][t]
        /\ Continues(w, s) \/ Ends(w, s)
    BY <1>0, <1>3, ReadFrame
  <2>2. job[w][s].tag = None /\ job[w][s].pc # "touching"
    BY <2>1 DEF OverlapInv, KeepsNoTags
  <2>3. \A t \in Sites : rows'[t] # None => rows'[t].tag = None
    <3>1. rows[s] # None /\ rows[s].tag = None
      BY <2>1 DEF OverlapInv, KeepsNoTags, TakenAreKnown
    <3>2. Recorded(rows[s], job[w][s]).tag = None
      BY <2>2, <3>1 DEF Recorded, Coalesce
    <3> QED
      BY <1>0, <2>1, <3>2 DEF OverlapInv, KeepsNoTags, Continues, Ends, TypeOK
  <2>4. KeepsNoTags'
    <3> SUFFICES ASSUME NEW v \in Workers, NEW t \in Sites, Held(v, t)'
                 PROVE  /\ job'[v][t].known.tag = None /\ job'[v][t].tag = None
                        /\ job'[v][t].pc \notin {"asking", "touching"}
      BY <2>3 DEF KeepsNoTags
    <3>1. CASE <<v, t>> = <<w, s>>
      BY <1>3, <3>1, UntaggedRead
    <3>2. CASE <<v, t>> # <<w, s>>
      BY <2>1, <3>2 DEF OverlapInv, KeepsNoTags, Held
    <3> QED
      BY <3>1, <3>2
  <2>5. /\ Reading(w, s)' => job'[w][s].started <= now /\ job'[w][s].started <= job'[w][s].scraped
        /\ job'[w][s].pc = "retiring" =>
              \A u \in UrlsOf(job'[w][s].stored) : job'[w][s].started <= table'[u].seen
    BY <1>0, <1>3, SeenOwnStep DEF OverlapInv
  <2>6. ReadsInTime'
    BY <2>1, <2>5 DEF OverlapInv, ReadsInTime, Reading
  <2>7. StaysSeen'
    <3> SUFFICES ASSUME NEW v \in Workers, NEW t \in Sites, job'[v][t].pc = "retiring",
                        NEW u \in UrlsOf(job'[v][t].stored)
                 PROVE  job'[v][t].started <= table'[u].seen
      BY DEF StaysSeen
    <3>1. CASE <<v, t>> = <<w, s>>
      BY <2>5, <3>1
    <3>2. CASE <<v, t>> # <<w, s>>
      <4>1. job'[v][t] = job[v][t]
        BY <2>1, <3>2
      <4>2. job[v][t] \in Job /\ u \in URLs
        BY <1>0, <4>1, JobOfHeld, StoredUrls DEF Held
      <4>3. job[v][t].started <= table[u].seen
        BY <4>1 DEF OverlapInv, StaysSeen
      <4>4. table[u].seen <= table'[u].seen
        BY <1>0, <1>3, <2>2, <4>2, SeenRises
      <4>5. /\ job[v][t].started \in Int /\ table[u].seen \in Int /\ table'[u].seen \in Int
        BY <1>0, <4>2 DEF Job, TypeOK, Listing
      <4> QED
        BY <4>1, <4>3, <4>4, <4>5
    <3> QED
      BY <3>1, <3>2
  <2> QED
    BY <2>4, <2>6, <2>7
<1>4. ASSUME NEW w \in Workers, Crash(w)
      PROVE  KeepsNoTags' /\ ReadsInTime' /\ StaysSeen'
  <2>1. \A v \in Workers, s \in Sites :
           job'[v][s] = job[v][s] \/ job'[v][s].pc = "idle"
    BY <1>0, <1>4 DEF Crash, NoJob, TypeOK
  <2>2. UNCHANGED <<now, rows, table>>
    BY <1>4 DEF Crash
  <2> QED
    BY <2>1, <2>2 DEF OverlapInv, KeepsNoTags, ReadsInTime, StaysSeen, Reading, Held
<1>5. ASSUME Tick PROVE KeepsNoTags' /\ ReadsInTime' /\ StaysSeen'
  <2>1. \A w \in Workers, s \in Sites : Reading(w, s) => job[w][s].started \in Nat
    BY <1>0, JobOfHeld DEF Reading, Held, Job
  <2>2. KeepsNoTags' /\ StaysSeen'
    BY <1>5 DEF Tick, OverlapInv, KeepsNoTags, StaysSeen, Held
  <2>3. ReadsInTime'
    BY <1>0, <1>5, <2>1 DEF Tick, TypeOK, OverlapInv, ReadsInTime, Reading
  <2> QED
    BY <2>2, <2>3
<1>6. ASSUME (\E s \in Sites : Edit(s)) \/ UNCHANGED vars
      PROVE  KeepsNoTags' /\ ReadsInTime' /\ StaysSeen'
  <2>1. UNCHANGED <<now, rows, table, job>>
    BY <1>6 DEF Edit, vars
  <2> QED
    BY <2>1 DEF OverlapInv, KeepsNoTags, ReadsInTime, StaysSeen, Reading, Held
<1> QED
  BY <1>1, <1>2, <1>3, <1>4, <1>5, <1>6 DEF Next

\* However many readers are in a site at once, claimed or not, and however long
\* they take, none retires a listing it has stored itself, where pages are not
\* tagged (SaveExhibitions keeps the later of two times, RetireUnseen compares
\* with the start of its own read).
THEOREM OverlapIsSafe == ASSUME Untagged PROVE Spec => RetireSparesStored
<1>1. Init => OverlapInv
  <2>1. Init => \A w \in Workers, s \in Sites : job[w][s].pc = "idle"
    BY DEF Init, NoJob
  <2> QED
    BY <2>1, TypeInit DEF Init, OverlapInv, TakenAreKnown, KeepsNoTags, ReadsInTime, StaysSeen,
                          Reading, Held
<1>2. OverlapInv /\ [Next]_vars => OverlapInv'
  BY OverlapStep
<1>3. OverlapInv /\ [Next]_vars =>
         [\A w \in Workers, s \in Sites : RetiresFor(w, s) =>
            \A u \in UrlsOf(job[w][s].stored) :
               table[u].status = "live" => table'[u].status = "live"]_vars
  BY RetirementSpares DEF OverlapInv, StaysSeen, RetiresFor
<1> QED
  BY <1>1, <1>2, <1>3, PTL DEF Spec, RetireSparesStored
=============================================================================
