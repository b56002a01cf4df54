SPECIFICATION FairSpec
CONSTANTS
    None = None
    c1 = c1
    c2 = c2
    c3 = c3
    Cells = {c1, c2, c3}
    Museums <- MCMuseums
    Callers = {k1}
    Admitters = {a1}
    SiteWorkers = {w1}
    QueueDepth = 1
    MaxMuseums = 2
    MaxAsks = 2
    MaxFaults = 1
    MaxRestarts = 1
    MaxTimeouts = 1
\* A closed queue that is not started again stops.
CHECK_DEADLOCK FALSE
PROPERTIES
    EveryAreaEnds
    CloseFinishes
