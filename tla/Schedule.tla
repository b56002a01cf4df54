------------------------------ MODULE Schedule ------------------------------
(***************************************************************************)
(* The scheduler of internal/sweep/schedule.go: given what the last read   *)
(* of a museum's website produced, when is the site next worth reading.    *)
(*                                                                         *)
(* Durations and instants are integers in one unit (an hour, a day, or a   *)
(* tick: the configurations choose).  The code's float arithmetic keeps    *)
(* fractions of an hour; here a lengthened or halved interval is rounded   *)
(* down to the unit before it is clamped.                                  *)
(***************************************************************************)
EXTENDS Integers

CONSTANTS
    FirstInterval,      \* where a site starts before anything is known of it
    MinInterval,        \* the floor of the gap between reads
    MaxInterval,        \* its ceiling
    FailureBackoff,     \* the gap after a first failure
    MaxFailures,        \* failures in a row before a site is parked
    RecheckAfterClose,  \* how long after a closing date a site is read again
    None                \* Go's nil and SQL's NULL

ASSUME IntervalAssumption ==
    /\ MinInterval \in Nat \ {0}
    /\ MaxInterval \in Nat
    /\ FirstInterval \in MinInterval .. MaxInterval

ASSUME FailureAssumption ==
    /\ FailureBackoff \in Nat \ {0}
    /\ MaxFailures \in Nat \ {0}

ASSUME RecheckAssumption == RecheckAfterClose \in Nat

ASSUME NoneAssumption == None \notin Int

Outcome == {"changed", "unchanged", "failed"}

\* What the scheduler remembers of a site.  interval <= 0 means "never read".
State == [interval : Nat, failures : Nat]

Plan == [interval : Nat, due : Int, failures : Nat, park : BOOLEAN]

Clamp(interval) ==
    IF interval < MinInterval THEN MinInterval
    ELSE IF interval > MaxInterval THEN MaxInterval
    ELSE interval

Lengthen(interval) == (3 * interval) \div 2

\* Mutant: a shrink no sharper than the growth.
ShortenByAThird(interval) == (2 * interval) \div 3

Shorten(interval) == interval \div 2

\* Mutant: the shift is missing, every retry comes after the same gap.
ConstantBackoff(failures) == FailureBackoff

\* failureBackoff << min(failures - 1, maxBackoffShift)
Backoff(failures) ==
    FailureBackoff * <<1, 2, 4, 8, 16, 32>>[IF failures > 6 THEN 6 ELSE failures]

Known(interval) == IF interval <= 0 THEN FirstInterval ELSE interval

\* The interval after a read that succeeded.
Adapted(interval, outcome) ==
    IF interval <= 0 THEN FirstInterval
    ELSE Clamp(IF outcome = "unchanged" THEN Lengthen(interval) ELSE Shorten(interval))

AfterFailure(state, now) ==
    LET failures == state.failures + 1
        park     == failures >= MaxFailures
    IN  [interval |-> Known(state.interval),
         due      |-> now + (IF park THEN MaxInterval ELSE Backoff(failures)),
         failures |-> failures,
         park     |-> park]

\* Mutant: a closing date already past is acted on.
EvenIfPastRecheck(due, soonestClose, now) ==
    IF soonestClose # None /\ soonestClose + RecheckAfterClose < due
    THEN soonestClose + RecheckAfterClose ELSE due

\* Mutant: the comparison with the planned date is the wrong way round.
LaterOfRecheck(due, soonestClose, now) ==
    IF soonestClose # None /\ soonestClose + RecheckAfterClose > due
    THEN soonestClose + RecheckAfterClose ELSE due

\* A closing date still ahead brings the next read forward, never back.
NoLaterThanRecheck(due, soonestClose, now) ==
    LET recheck == soonestClose + RecheckAfterClose
    IN  IF soonestClose # None /\ now < recheck /\ recheck < due
        THEN recheck ELSE due

AfterSuccess(state, outcome, soonestClose, now) ==
    LET interval == Adapted(state.interval, outcome)
    IN  [interval |-> interval,
         due      |-> NoLaterThanRecheck(now + interval, soonestClose, now),
         failures |-> 0,
         park     |-> FALSE]

PlanNext(state, outcome, soonestClose, now) ==
    IF outcome = "failed" THEN AfterFailure(state, now)
    ELSE AfterSuccess(state, outcome, soonestClose, now)
=============================================================================
