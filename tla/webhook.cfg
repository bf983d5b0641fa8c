SPECIFICATION Spec
CONSTANTS
    d1 = d1
    d2 = d2
    Deliveries = {d1, d2}
    Connections = {c1, c2}
    Secrets = {s1, s2}
    x = x
    y = y
    z = z
    Transactions = {x, y, z}
    Refunds = {x}
    Malformed = {z}
    Cents <- MCCents
    Batches <- MCBatches
    r1 = r1
    r2 = r2
    r3 = r3
    r4 = r4
    ItemId <- MCItemId
    Requests = {r1, r2, r3, r4}
    Tenants = {t1, t2}
    Users = {u1}
    Keys = {x, y, z}
    EmptyKey = EmptyKey
    Amounts <- MCAmounts
    Null = Null
SYMMETRY HookSymmetry
INVARIANTS
    Inv
    AcknowledgedIsBooked
    BookedOnce
    OnlyVouched
