\* mmer_size 16 with a 32-bit int and a 64-bit valType, scaled down: a
\* 4-bit int and an 8-bit valType with M = 2, so that 2 * M reaches the
\* int's width as 32 does at mmer_size 16.
CONSTANTS
    M = 2
    Width = 8
    K = 3
    Bases = {0, 1, 2, 3}
    MaxLen = 4
    IntBits <- MCIntBitsScaled
SPECIFICATION Spec
INVARIANT MmersIndexLoadMap
CHECK_DEADLOCK FALSE
