SPECIFICATION Spec
CONSTANTS
    Requests = {r1, r2, r3}
    Clients = {c1, c2}
    Gap = 2
    Burst = 2
    MaxInFlight = 1
    TTL = 6
    MaxStale = 1
SYMMETRY MCSymmetry
INVARIANTS
    LimiterInv
PROPERTY
    KeepsItsRate
