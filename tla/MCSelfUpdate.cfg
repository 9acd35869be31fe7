SPECIFICATION Spec
CONSTANTS
    Releases <- TakenBack
    Threads = {"first", "second"}
    Throttle = 3
    MaxWork = 2
    Budget <- TwoFailed
INVARIANTS
    NeverStranded
    VerifiedInstall
PROPERTIES
    NeverOlder
    OncePerHourOfAProcess
