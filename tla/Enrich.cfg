SPECIFICATION FairSpec
CONSTANTS
    louvre = louvre
    prado = prado
    BadKey = BadKey
    Museums = {louvre, prado}
    Topic <- MCTopic
    Faults = {"load", "details", "store", "commit"}
    MaxSessions = 2
\* A process that has stopped is not started for ever.
CHECK_DEADLOCK FALSE
INVARIANTS
    EnrichInv
PROPERTIES
    EverySessionDrains
    InterruptEnds
