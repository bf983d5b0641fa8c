SPECIFICATION FairSpec
CONSTANTS
    Requests = {r1, r2}
    Tenants = {t1, t2}
    Users = {u1}
    Keys = {k1}
    EmptyKey = EmptyKey
    Amounts <- MCAmounts
    Null = Null
    MaxFaults = 2
INVARIANT
    AnswersAreTruthful
PROPERTY
    EveryRequestSettles
