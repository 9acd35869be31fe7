SPECIFICATION Spec
CONSTANTS
    MaxRows = 2
    MaxAge = 2
    PushLag = 2
    Batch = 2
    MaxStepBack = 2
    MaxClock = 6
    MaxId = 5
INVARIANTS
    TypeOK
    Bounded
PROPERTIES
    ParkedRowSurvives
    KeepsPromise
CHECK_DEADLOCK FALSE
