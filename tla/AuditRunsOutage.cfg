SPECIFICATION Spec
CONSTANTS
    e1 = e1
    e2 = e2
    q1 = q1
    q2 = q2
    q3 = q3
    f1 = f1
    f2 = f2
    f3 = f3
    None = None
    Engines <- const_Engines
    Ids <- const_OutageIds
    Finalisers <- const_OutageFinalisers
CHECK_DEADLOCK FALSE
INVARIANT
    StableToOutage
