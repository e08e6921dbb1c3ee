SPECIFICATION Spec
CONSTANTS
    r1 = r1
    r2 = r2
    r3 = r3
    t1 = t1
    t2 = t2
    d1 = d1
    k1 = k1
    k2 = k2
    name = name
    color = color
    Bad = Bad
    MaxRows = 2
    None = None
    Requests <- const_Requests
    Tenants <- const_Tenants
    Domains <- const_Domains
    Columns <- const_Columns
    Keys <- const_Keys
SYMMETRY Symmetry
INVARIANTS
    NoChangeLost
    CountsAddUp

    
