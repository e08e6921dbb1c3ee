SPECIFICATION FairSpec
CONSTANTS
    r1 = r1
    r2 = r2
    r3 = r3
    b1 = b1
    t1 = t1
    t2 = t2
    n1 = n1
    n2 = n2
    None = None
    Requests <- const_Requests
    Briefs <- const_Briefs
    Tenants <- const_Tenants
    Notes <- const_Notes
INVARIANTS
    TypeOK
    CommittedBriefsComplete
    DecisionAttributed
    RejectionCarriesNotes
PROPERTIES
    DecisionsSettle
    LifecycleKept
    EveryRequestEnds
