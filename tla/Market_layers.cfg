SPECIFICATION Spec
CONSTANTS
    Symbols = {"CAKE", "TWT"}
    Pinned = {"CAKE"}
    Momentum = {"CAKE", "TWT"}
    TopN = 1
    KeylessTtl = 2
    FlatTtl = 4
    PositionTtl = 2
    HotAge = 1
    RegimeTtls = {3}
    MaxTime = 5
INVARIANTS TypeOK StaleOnlyAfterTrying AgeIsHonest
PROPERTY NeverBoughtEarly
