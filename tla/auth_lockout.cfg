SPECIFICATION FairSpec
CONSTANTS
    Calls = {c1, c2}
    Passwords = {p1, p2}
    MaxFailed = 3
    LockTicks = 2
    Null = Null
INVARIANTS
    Inv
    TokensToTheOwner
    LockIsEarned
    QuietLockout
PROPERTY
    LockoutEnds
