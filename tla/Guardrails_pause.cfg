SPECIFICATION Spec
CONSTANTS
    DayLen = 3
    MaxDay = 2
    TriggerTick = 2
    LocalOffset = 0
    Values <- MCValues
    Losses <- MCLosses
    Regimes <- MCRegimes
    RegimeMax <- MCRegimeMax
    GlobalMax = 2
    MaxDailyLossPct = 2
    KillPct = 18
    SoftPct = 10
    StreakReduce = 2
    StreakPause = 3
    MaxOpen = 2
    MaxFaults = 2
    MaxCycleTicks = 1
    TornWrites = TRUE
CHECK_DEADLOCK FALSE
PROPERTY PauseLasts24h
