SPECIFICATION Spec
CONSTANTS
    good = good
    flaky = flaky
    odd = odd
    Collectors = {good, flaky}
    Interval <- Often
    Behaviour <- Malformed
    Duration <- Instant
    SinkDuration = {0}
    Base = 2
    Ceiling = 5
    FloatLimit = 1024
    Watchdog = 4
    MaxFailures = 4
    MayStop = FALSE
INVARIANTS
    Survives
