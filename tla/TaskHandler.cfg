SPECIFICATION FairSpec
CONSTANTS
    t1 = t1
    t2 = t2
    t3 = t3
    Threads <- TwoThreads
    Main = t1
    NFlows = 3
    MaxLate = 4
    FidNull = FidNull
    NoThread = NoThread
INVARIANTS TypeOK RunningIsActive NeverRunsOut StaysEmpty
PROPERTY NoStarvation
CHECK_DEADLOCK FALSE
