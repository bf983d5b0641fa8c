SPECIFICATION Spec
CONSTANTS
    Entries = {e1, e2}
    Syncs = {s1}
    MaxRestarts = 0
SYMMETRY QueueSymmetry
INVARIANT
    NeverLosesAnEntry
