SPECIFICATION FairSpec
CONSTANTS
    FirstInterval = 3
    MinInterval = 2
    MaxInterval = 6
    FailureBackoff = 1
    MaxFailures = 2
    RecheckAfterClose = 1
    None = None
    s1 = s1
    u1 = u1
    u2 = u2
    u3 = u3
    Sweepers = {w1, w2}
    Visitors = {}
    Sites = {s1}
    URLs = {u1, u2, u3}
    Editions <- MCEditionsOne
    AboutPage <- MCAboutPage
    TagRule = "etag"
    Batch = 1
    Lease = 2
    LongestRead = 1
    LeaseCoversBatch = TRUE
    MaxTime = 5
    MaxEdits = 1
    MaxFaults = 1
    MaxCrashes = 1
\* Time ends, and an unclaimed or parked site is read no more.
CHECK_DEADLOCK FALSE
INVARIANTS
    TypeOK
    ClaimsDisjoint
    FailuresAreConsecutive
PROPERTIES
    RetireLeavesStored
    NothingStranded
