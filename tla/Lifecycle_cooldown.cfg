SPECIFICATION Spec
CONSTANTS
    A = A
    B = B
    Symbols <- MCSymbols
    Equity = 5000000
    Lot = 1000000
    ExitDust = 1
    StartDust = 100
    KillPct = 18
    MaxOpen = 2
    HasWindow = TRUE
    Faults = {"refuse", "lost", "late", "revert", "readfail", "crash", "torn"}
    MaxFaults = 2
    MaxTx = 3
PROPERTY UnconfirmedCoolDown
CHECK_DEADLOCK FALSE
