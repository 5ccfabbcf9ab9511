SPECIFICATION Spec
CONSTANTS
    Units = {0, 1, 2, 3}
    Occs = {0, 1, 2, 3}
    MaxClock = 8
    MaxRequests = 7
INVARIANTS TypeOK NeverOverbooked
PROPERTY ImplementsReservation
CHECK_DEADLOCK FALSE
