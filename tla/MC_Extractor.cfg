CONSTANTS
    M = 2
    Width = 6
    K = 4
    Bases = {0, 1, 2, 3}
    MaxLen = 6
    IntBits <- MCIntBits
SPECIFICATION Spec
INVARIANT TypeOK TagsAreMinimizers LoadCountsKmers
CHECK_DEADLOCK FALSE
