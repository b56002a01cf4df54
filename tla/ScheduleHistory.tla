-------------------------- MODULE ScheduleHistory --------------------------
(***************************************************************************)
(* One site read again and again: every sequence of outcomes and closing   *)
(* dates, planned by the scheduler.  Instants are relative to the last     *)
(* read, since PlanNext only adds durations to it.                         *)
(***************************************************************************)
EXTENDS Schedule

CONSTANTS
    ClosingDates,    \* soonest closing dates a read may find, relative to it
    ReadsToFloor,    \* changes that bring any interval down to the floor
    ReadsToCeiling   \* unchanged reads that bring any interval to the ceiling

ASSUME HistoryAssumption ==
    /\ ClosingDates \subseteq Int \cup {None}
    /\ None \in ClosingDates
    /\ ReadsToFloor \in Nat \ {0} /\ ReadsToCeiling \in Nat \ {0}

\* "12h << 5, about sixteen days", against a ceiling of sixty; a site is parked
\* before the cap on the doubling could make two retries in a row the same.
ASSUME BackoffAssumption ==
    /\ 32 * FailureBackoff < MaxInterval
    /\ MaxFailures <= 7

VARIABLES
    state,    \* the scheduler's memory of the site
    wait,     \* from the last read to the next one
    parked,
    last,     \* [outcome, soonest] of the last read
    streaks   \* changed and unchanged reads since the last of the other kind

history == <<state, wait, parked, last, streaks>>

HistoryTypeOK ==
    /\ state \in State
    /\ state.interval \in {0} \cup MinInterval .. MaxInterval
    /\ wait \in Int /\ parked \in BOOLEAN
    /\ last \in [outcome : Outcome \cup {"none"}, soonest : ClosingDates]
    /\ streaks \in [changed : 0 .. ReadsToFloor, unchanged : 0 .. ReadsToCeiling]

\* Reads of each kind since one of the other kind; a failure is of neither.
Counted(outcome) ==
    CASE outcome = "failed"    -> streaks
      [] outcome = "changed"   ->
            [changed   |-> IF streaks.changed < ReadsToFloor
                           THEN streaks.changed + 1 ELSE ReadsToFloor,
             unchanged |-> 0]
      [] outcome = "unchanged" ->
            [changed   |-> 0,
             unchanged |-> IF streaks.unchanged < ReadsToCeiling
                           THEN streaks.unchanged + 1 ELSE ReadsToCeiling]

\* A State made by hand is empty; a row made by DiscoverSites already carries
\* the column's default.
HistoryInit ==
    /\ state \in [interval : {0, FirstInterval}, failures : {0}]
    /\ wait = 0
    /\ parked = FALSE
    /\ last = [outcome |-> "none", soonest |-> None]
    /\ streaks = [changed |-> 0, unchanged |-> 0]

\* A read of the site, planned from its outcome.  A first read has nothing to
\* be compared with, so it is not counted as evidence of the site's rate.
Read(outcome, soonest) ==
    LET plan == PlanNext(state, outcome, soonest, 0) IN
    /\ ~parked
    /\ state' = [interval |-> plan.interval, failures |-> plan.failures]
    /\ wait' = plan.due
    /\ parked' = plan.park
    /\ last' = [outcome |-> outcome, soonest |-> soonest]
    /\ streaks' = IF state.interval = 0 THEN streaks ELSE Counted(outcome)

HistoryNext == \E outcome \in Outcome, soonest \in ClosingDates : Read(outcome, soonest)

HistorySpec == HistoryInit /\ [][HistoryNext]_history

(***************************************************************************)
(* Properties.                                                             *)
(***************************************************************************)

\* A site that keeps changing is caught up with: a handful of changed reads,
\* whatever failures come between them, bring the slowest site to the floor.
BusySitesReachFloor ==
    streaks.changed = ReadsToFloor => state.interval = MinInterval

\* A quiet site, failures between its reads or not, is eased off to the ceiling.
QuietSitesReachCeiling ==
    streaks.unchanged = ReadsToCeiling => state.interval = MaxInterval

\* However reads and failures alternate, and by whatever steps of integer hours
\* it got there, the interval of a site finds its way to the end of the range
\* its changes call for (schedule.go:15-16: "one that
\* finds no change lengthens the gap; one that finds a change halves it").
IntervalsConverge == BusySitesReachFloor /\ QuietSitesReachCeiling

\* The next read is always ahead of the last one, and never further away than
\* the ceiling: a closing date in the past does not put a site in the past.
ReadAgainInTime == last.outcome # "none" => wait \in 1 .. MaxInterval

\* Each failure in a row is retried later than the one before it.
BackoffGrows ==
    [][(state.failures > 0 /\ state'.failures > state.failures) => wait' > wait]_history

\* After a read that succeeded the site is due no later than the recheck that
\* follows the soonest closing, when that is still ahead of the read.
ClosingIsRechecked ==
    (last.outcome \in {"changed", "unchanged"} /\ last.soonest # None)
        => LET recheck == last.soonest + RecheckAfterClose
           IN  recheck > 0 => wait <= recheck
=============================================================================
