SPECIFICATION FairSpec
CONSTANTS
    Tenants = {t1, t2}
    Entries = {e1, e2}
    Forms = {f1, f2}
    MaxAsked = 2
    Null = Null
INVARIANTS
    Inv
    SettledIsScoped
    SavedIsShown
PROPERTIES
    LoadingEnds
