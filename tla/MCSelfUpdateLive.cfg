SPECIFICATION FairSpec
CONSTANTS
    Releases <- Growing
    Threads = {"first", "second"}
    Throttle = 2
    MaxWork = 3
    Budget <- Mixed
INVARIANTS
    OneThread
PROPERTIES
    UpToDate
