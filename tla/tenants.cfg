SPECIFICATION Spec
CONSTANTS
    Requests = {r1, r2}
    Tenants = {t1, t2}
    Users = {u1, u2}
    Connections = {c1, c2}
    Null = Null
SYMMETRY IdSymmetry
INVARIANTS
    Inv
    PoliciesIsolate
    OnlyMembersAct
    OwnedByCreator
    PoolDrains
