SPECIFICATION Spec
CONSTANTS
    B = 2
    Mark = 7
    Junk = 21845
    Top = 49152
    Progs <- MCProgs
    Kept <- MCKept
INVARIANT Computes
PROPERTY FramesKept
