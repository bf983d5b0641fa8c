SPECIFICATION Spec
CONSTANTS
    Requests = {r1, r2}
    Tenants = {t1}
    Users = {u1}
    Keys = {k1}
    EmptyKey = EmptyKey
    Amounts <- MCAmounts
    Null = Null
    MaxFaults = 0
INVARIANT
    RaceLoserGetsWinner
