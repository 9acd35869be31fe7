SPECIFICATION FairSpec
CONSTANTS
    AuthLimit = 3
    Attempts = 2
    Batch = 2
    MaxRows = 2
    MaxAge = 4
    InlineToken = 0
    Watchdog = 3
    MaxPayloads = 3
    MaxTokens = 5
    Budgets <- Fair
PROPERTIES
    Drains
    Reenrolls
