SPECIFICATION Spec
CONSTANTS
    RetryMax = 3
    ReadRetries = 2
    Modes = {"live", "paper"}
    Worths = {"less", "one", "more"}
    MaxMining = 5
    MaxCalls = 4
CHECK_DEADLOCK FALSE
INVARIANT PaperSaleCloses
