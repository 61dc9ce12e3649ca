SPECIFICATION EntitySpec
CONSTANTS
    MaxTime = 8
    Minute = 2
    CreationGrace = 1
    StartingGrace = 3
    TerminationGrace = 2
    RestartGraceCount = 1
    None = None
    Statuses <- MCStatuses
    Quantities <- MCQuantities
    UsageThreshold = 80
    EventGrace = 2
    Unparsable = Unparsable
    MaxCount = 3
INVARIANTS
    StuckIsTold
    NodeTroubleIsTold
    LateEventIsTold
PROPERTIES
    AlarmPersists
    ForgivenStaysForgiven
    TimeKeepsKeys
    RecurringKeepsKey
CHECK_DEADLOCK FALSE
