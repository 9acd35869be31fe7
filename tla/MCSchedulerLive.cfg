SPECIFICATION FairSpec
CONSTANTS
    good = good
    flaky = flaky
    odd = odd
    Collectors = {good, flaky}
    Interval <- Mixed
    Behaviour <- Raising
    Duration <- Brisk
    SinkDuration = {0}
    Base = 2
    Ceiling = 5
    FloatLimit = 1024
    Watchdog = 6
    MaxFailures = 4
    MayStop = TRUE
INVARIANTS
    Survives
PROPERTIES
    KeepsCalling
    KeepsReporting
    StopsWhenAsked
