SPECIFICATION CallSpec
CONSTANTS
    MaxLevel = 5
    XPDecayIdle = 2
    LevelDecayIdle = 288
    SoftBlock = 1
    Rows <- MCRows
    Sigs <- MCSigs
    Hards = {2, 4, 5}
    Times <- MCTimes
CHECK_DEADLOCK FALSE
INVARIANT LoopsComputeScore
PROPERTY CallEnds
