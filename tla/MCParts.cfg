SPECIFICATION PartsSpec
CONSTANTS
    Keys = {"rx"}
    MaxMoved = 3
    Schedules <- Lines
    LastHour = 2
    LastMinute = 1
    SearchDays = 732
    Summer <- SummerTime
    Awake <- Minutes
    Timers = {"logrotate", "backup"}
    Persistent = {"backup"}
    Directories = {0, 1}
    Chips = {"disk", "other", "card"}
    Driver <- NvmeTwiceAndCard
    Rails <- PowerOnCard
    Gpus = 2
    Bus <- BusByIndex
    BusTold <- AllOrNone
    NoCard = NoCard
    Modules <- NetAndPlugin
    BuiltIns = 1
    Inventory = {"plugin"}
    MaxUnusual = 2
    PollTime = 2
    TimeLimit = 5
    RequestTime = 2
    MaxTokens = 3
    Prefixed = TRUE
    Ids = {"web", "db"}
    Workers = 2
    NoStats = NoStats
    MaxClock = 2
INVARIANTS
    RatesAreTrue
    PlainNextRunIsNext
    NextIsAhead
    UniqueIds
    OwnVramByBus
    HealthyCollectorRuns
    EnrollKeepsItsWord
    NothingIsLeftIfStopped
    OwnStats
PROPERTIES
    StaysUntilDue
    StatusTellsLastRun
    StableIds
    OnlyTheseEndDiscovery
    UptimeIsOfThisRun
CHECK_DEADLOCK FALSE
