SPECIFICATION Spec
CONSTANTS
    http = http
    https = https
    museum = museum
    Readers = {r1, r2}
    Origins = {http, https}
    Nowhere = Nowhere
    Hosts = {museum}
    HostOf <- MCHostOf
    Paths <- MCPaths
    Files <- MCFiles
    Interval = 2
    MaxRedirects = 1
    MaxFetches = 3
    MaxFaults = 1
    MaxCancels = 1
SYMMETRY MCSymmetry
INVARIANTS
    FetcherInv
PROPERTIES
    KeepsItsRate
    RobotsAreRespected
