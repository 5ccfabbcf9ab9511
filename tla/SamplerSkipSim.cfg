SPECIFICATION FairSpec
CONSTANTS
    NEmuls = 2
    Batch = 2
    NoThread = NoThread
    Crews <- MCCrews
    NInstSkip = 2
    NInstMax = 5
    MaxInst = 6
    MaxBlock = 2
    DoPower = TRUE
INVARIANTS TypeOK NeverOverCounted CountedExactly OneByOneInTiming
PROPERTY Terminates
CHECK_DEADLOCK FALSE
