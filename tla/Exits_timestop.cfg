SPECIFICATION FairSpec
CONSTANTS
    Prices <- MCPrices
    Atrs <- MCAtrs
    BaseStop = 90
    BaseTarget = 150
    Step1Profit = 80
    Step1Stop = 40
    Step2Profit = 120
    Step2Stop = 30
    MaxHold = 2
    MayMiss = FALSE
    MaxAge = 3
    MaxRebuilds = 2
PROPERTY HeldPositionsTurnOver
