SPECIFICATION Spec
CONSTANTS
    Tokens = {"CAKE", "TWT"}
    Counter = "TWT"
    Versions <- MCVersions
    Malformed = {3}
    TornReads = {"malformed", "undecodable"}
    MaxTime = 2
    MaxActs = 3
CHECK_DEADLOCK FALSE
INVARIANTS TypeOK HaltStopsTrades LastGoodInForce TradesAvoidEvents
