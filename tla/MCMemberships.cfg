SPECIFICATION Spec
CONSTANTS
    u1 = u1
    u2 = u2
    t1 = t1
    t2 = t2
    r1 = r1
    r2 = r2
    r3 = r3
    s1 = s1
    s2 = s2
    None = None
    Users <- const_Users
    Tenants <- const_Tenants
    ReservedSlugs = {}
    PlatformAdmins <- const_PlatformAdmins
    Roles <- const_Roles
    Requests <- const_Requests
    Seeds <- const_Seeds
    SeedRow <- const_SeedRow
    MaxTenantsPerUser = 2
INVARIANTS
    TypeOK
    OneActiveMembership
    EveryChangeAuthorised
PROPERTIES
    OnlyRacesLoseAdmins
