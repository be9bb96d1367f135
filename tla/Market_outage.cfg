SPECIFICATION Spec
CONSTANTS
    Symbols = {"CAKE", "TWT"}
    Pinned = {"CAKE"}
    Momentum = {"CAKE", "TWT"}
    TopN = 1
    KeylessTtl = 1
    FlatTtl = 1
    PositionTtl = 1
    HotAge = 1
    RegimeTtls = {2}
    MaxTime = 4
PROPERTY OutageKeepsPrices
