CONSTANTS
    M = 8
    K = 4
    Isns = {0, 5, 7}
    MaxStep = 3
    MaxInFlight = 2
SPECIFICATION Spec
INVARIANTS
    RecoveredIsMeant
    UnwrapClosest
