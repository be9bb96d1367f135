SPECIFICATION Spec
CONSTANTS
    DailyBudget = 5
    TotalBudget = 9
    Cost = 2
    BackoffBase = 30
    BackoffMax = 900
    LoopSeconds = 300
    Faults = {"crash", "torn", "full"}
    MaxFaults = 2
    MaxDay = 2
    MaxPaid = 14
INVARIANT NoRebillNextCycle
