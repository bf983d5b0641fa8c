SPECIFICATION FairSpec
CONSTANTS
    Entries = {e1, e2}
    Syncs = {s1, s2}
    MaxRestarts = 1
INVARIANTS
    Inv
    OneSyncAtATime
    BookedInOrder
    QueuedUntilAnswered
PROPERTIES
    NoOvertaking
    SyncEnds
