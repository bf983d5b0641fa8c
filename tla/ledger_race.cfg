SPECIFICATION Spec
CONSTANTS
    Requests = {r1, r2, r3}
    Tenants = {t1}
    Users = {u1}
    Keys = {k1}
    EmptyKey = EmptyKey
    Amounts <- MCAmounts
    Null = Null
    MaxFaults = 1
SYMMETRY RequestSymmetry
INVARIANTS
    Inv
    OneEntryPerKey
    AuditMatchesLedger
    ReversalCancelsOriginal
    ReplaysAgree
PROPERTIES
    AppendOnly
    KeepsPromise
