SPECIFICATION FairSpec

CONSTANTS
    u1 = u1
    u2 = u2
    t1 = t1
    t2 = t2
    Users = {u1, u2}
    Tenants = {t1, t2}
    Memberships <- MCMemberships
    Flows = {f1, f2}
    MaxReopens = 1
    Null = Null

INVARIANTS
    Inv
    OnePersonsSession
    RemembersSession
    AlwaysASelection

PROPERTIES
    NothingSpins
