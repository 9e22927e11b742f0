CONSTANTS
    P = 2
    Mins = {0, 1, 2}
    Bases = {0, 1, 2}
    K = 2
    SuperMers <- MCSuperMers
    MaxSuperMers = 2
    MaxBases = 3
SPECIFICATION Spec

INVARIANT ZeroLoadRoundRobin
CHECK_DEADLOCK FALSE
