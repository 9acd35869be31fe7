SPECIFICATION FairSpec
CONSTANTS
    AuthLimit = 3
    Attempts = 2
    Batch = 1
    MaxRows = 1
    MaxAge = 4
    InlineToken = 0
    Watchdog = 0
    MaxPayloads = 1
    MaxTokens = 3
    Budgets <- RevokeCrash
PROPERTIES
    Reenrolls
