SPECIFICATION Spec
CONSTANTS
    e1 = e1
    e2 = e2
    e3 = e3
    Events <- ThreeEvents
    AccessSize = 4
    MaxTime = 99
    MaxClock = 10
    MaxDelta = 6
    None = None
INVARIANTS TypeOK RingInOrder NoneOverdue
PROPERTY ImplementsCalendar
CHECK_DEADLOCK FALSE
