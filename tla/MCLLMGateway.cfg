SPECIFICATION GatewayFairSpec
CONSTANTS
    c1 = c1
    c2 = c2
    k1 = k1
    k2 = k2
    Nothing = Nothing
    Callers <- const_Callers
    Keys <- const_Keys
    Deterministic <- const_Deterministic
    Budget = 2
    Estimate = 1
    MaxCost = 2
    ProviderCosts = {2}
    Months = 2
    MaxCalls = 3
INVARIANTS
    GatewayTypeOK
    CounterMatchesLedger
    BudgetBound
PROPERTIES
    EveryCallEnds
