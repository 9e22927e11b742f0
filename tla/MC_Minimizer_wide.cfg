\* int scaled to 4 bits and valType to 8 (as 32 and 64).
CONSTANTS
    M = 2
    Bases = {0, 1, 2, 3}
    Width = 8
    IntBits <- MCIntBitsScaled
SPECIFICATION Spec
INVARIANT RollingMatchesWindow
