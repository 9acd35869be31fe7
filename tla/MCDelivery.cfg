SPECIFICATION Spec
CONSTANTS
    AuthLimit = 3
    Attempts = 2
    Batch = 2
    MaxRows = 3
    MaxAge = 4
    InlineToken = 0
    Watchdog = 0
    MaxPayloads = 4
    MaxTokens = 5
    Budgets <- Safe
INVARIANTS
    TypeOK
    Accounted
    RedeliversOnlyInDoubt
    WipeNeedsRejections
    RestartKeepsToken
PROPERTIES
    OldestFirst
    ValidTokenKept
