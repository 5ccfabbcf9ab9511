SPECIFICATION Spec
CONSTANTS
    t1 = t1
    t2 = t2
    t3 = t3
    Threads <- ThreeThreads
    Main = t1
    NFlows = 3
    MaxLate = 0
    FidNull = FidNull
    NoThread = NoThread
INVARIANT SameFidAgain
CHECK_DEADLOCK FALSE
