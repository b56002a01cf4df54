------------------------- MODULE MCScheduleHistory -------------------------
(***************************************************************************)
(* The scheduler with the program's own constants, in hours.               *)
(***************************************************************************)
EXTENDS ScheduleHistory

\* Past, a day past (recheck due this very moment), today, and ahead of,
\* between and beyond the intervals.
MCClosingDates == {None, -100, -24, -23, 0, 30, 200, 5000}
=============================================================================
