SPECIFICATION Spec
CONSTANTS
    r1 = r1
    r2 = r2
    r3 = r3
    r4 = r4
    g1 = g1
    a1 = a1
    a2 = a2
    o1 = o1
    s1 = s1
    None = None
    Requests <- const_Requests
    Targets <- const_Targets
    Assets <- const_Assets
    Objects <- const_Objects
    Seeds <- const_Seeds
INVARIANTS
    TypeOK
    PublicationRemembered
PROPERTIES
    PublishIdempotent
    FirstVerificationKept
