CONSTANTS
    P = 2
    Mins = {0, 1, 2}
    Bases = {0, 1, 2}
    K = 2
    SuperMers <- MCSuperMers
    MaxSuperMers = 1
    MaxBases = 3
    MaxCalls = 2
INIT CallsInit
NEXT CallsNext
INVARIANT CountsConservedAcrossCalls
CHECK_DEADLOCK FALSE
