SPECIFICATION Spec
CONSTANTS
    MaxItems = 5
    MaxLimit = 3
    MaxEmpty = 2
INVARIANTS
    EventsLimitHonoured
CHECK_DEADLOCK FALSE
