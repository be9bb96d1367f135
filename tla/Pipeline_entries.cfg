SPECIFICATION Spec
CONSTANTS
    Symbols = {CAKE, TWT}
    NoSymbol = NoSymbol
    HoldCycles = 3
    NearMiss = 1
    MaxQuotes = 1
    MaxCycle = 5
SYMMETRY SymbolSymmetry
INVARIANTS NearMissRotates
PROPERTY RegimeEarned
