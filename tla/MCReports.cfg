SPECIFICATION Spec
CONSTANTS
    r1 = r1
    r2 = r2
    r3 = r3
    u1 = u1
    u2 = u2
    q1 = q1
    q2 = q2
    s1 = s1
    None = None
    Requests <- const_Requests
    Runs <- const_Runs
    Queries <- const_Queries
    Seeds <- const_Seeds
    RunOf <- const_RunOf
    MaxAnswer <- const_MaxAnswer
SYMMETRY const_Symmetry
INVARIANTS
    TypeOK
    ReadyIsGrounded
    OnlyRacesMisreport
PROPERTIES
    ClaimKept
