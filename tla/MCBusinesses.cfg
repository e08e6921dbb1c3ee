SPECIFICATION Spec
CONSTANTS
    r1 = r1
    r2 = r2
    r3 = r3
    b1 = b1
    t1 = t1
    t2 = t2
    n1 = n1
    n2 = n2
    a1 = a1
    a2 = a2
    None = None
    Requests <- const_Requests
    Seeds <- const_Seeds
    SeedOf <- const_SeedOf
    Tenants <- const_Tenants
    Direct <- const_Direct
    Names <- const_Names
    Actors <- const_Actors
    Roles <- const_Roles
    Scope <- const_Scope
INVARIANTS
    TypeOK
    SingletonKept
    OnlyRacesMisscore
PROPERTIES
    DeletedIsFinal
