CONSTANTS
    M = 2
    Bases = {0, 1, 2, 3}
    Width = 5
    IntBits <- MCIntBits
SPECIFICATION Spec
INVARIANT RollingMatchesWindow
