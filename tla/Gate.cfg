SPECIFICATION Spec
CONSTANTS
    Callers = {c1, c2}
    MinInterval = 4
    MaxInterval = 16
    Share = 4
    FirstBackoff = 2
    MaxAttempts = 3
    RetryAfters = {0, 5}
    MaxAbandons = 2
SYMMETRY MCSymmetry
INVARIANTS
    GateInv
PROPERTIES
    KeepsItsRate
    RetryAfterHonoured
