SPECIFICATION Spec
CONSTANTS
    FirstInterval = 3
    MinInterval = 2
    MaxInterval = 6
    FailureBackoff = 1
    MaxFailures = 2
    RecheckAfterClose = 1
    None = None
    s1 = s1
    u1 = u1
    u2 = u2
    u3 = u3
    Sweepers = {w1}
    Visitors = {v1}
    Sites = {s1}
    URLs = {u1, u2}
    Editions <- MCEditionsSwap
    AboutPage <- MCNoAboutPage
    TagRule = "none"
    Batch = 1
    Lease = 2
    LongestRead = 1
    LeaseCoversBatch = FALSE
    MaxTime = 2
    MaxEdits = 1
    MaxFaults = 0
    MaxCrashes = 0
\* Time ends, and an unclaimed or parked site is read no more.
CHECK_DEADLOCK FALSE
PROPERTIES
    RetireSparesStored
