SPECIFICATION HistorySpec
CONSTANTS
    FirstInterval = 168
    MinInterval = 48
    MaxInterval = 1440
    FailureBackoff = 12
    MaxFailures = 6
    RecheckAfterClose = 24
    None = None
    ClosingDates <- MCClosingDates
    ReadsToFloor = 5
    ReadsToCeiling = 9
INVARIANTS
    IntervalsConverge
    ReadAgainInTime
    ClosingIsRechecked
PROPERTY
    BackoffGrows
\* A parked site is read no more.
CHECK_DEADLOCK FALSE
