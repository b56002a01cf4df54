SPECIFICATION Spec
CONSTANTS
    None = None
    c1 = c1
    c2 = c2
    c3 = c3
    Cells = {c1, c2, c3}
    Museums <- MCMuseumsTurns
    Callers = {k1, k2}
    Admitters = {a1, a2}
    SiteWorkers = {w1, w2}
    QueueDepth = 1
    MaxMuseums = 2
    MaxAsks = 3
    MaxFaults = 0
    MaxRestarts = 1
    MaxTimeouts = 0
SYMMETRY MCSymmetry
\* A closed queue that is not started again stops.
CHECK_DEADLOCK FALSE
INVARIANTS
    QueueInv
    ReleasedIsFinished
PROPERTIES
    TakesTurns
    CooldownSurvivesRestart
