SPECIFICATION CronSpec
CONSTANTS
    Schedules <- Lines
    LastHour = 2
    LastMinute = 1
    SearchDays = 732
    Summer <- SummerTime
    Awake <- Minutes
INVARIANTS
    NextRunIsNext
