SPECIFICATION Spec
CONSTANTS
    MaxItems = 5
    MaxLimit = 3
    MaxEmpty = 2
INVARIANTS
    SuccessIsComplete
    NoGapNoRepeat
PROPERTIES
    Terminates
CHECK_DEADLOCK FALSE
