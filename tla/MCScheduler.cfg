SPECIFICATION Spec
CONSTANTS
    good = good
    flaky = flaky
    odd = odd
    Collectors = {good, flaky, odd}
    Interval <- Mixed
    Behaviour <- Anything
    Duration <- Slow
    SinkDuration = {0, 1}
    Base = 2
    Ceiling = 5
    FloatLimit = 3
    Watchdog = 6
    MaxFailures = 4
    MayStop = FALSE
INVARIANTS
    BackedOffByFailures
    SourcesAreListed
PROPERTIES
    NotCalledInCooldown
