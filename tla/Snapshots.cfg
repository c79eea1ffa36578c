\* Three records, two power cuts, every fault; callers snapshot what a Sync covered.
SPECIFICATION Spec
CONSTANTS
    MaxOffset = 3
    MaxEpoch = 2
    SnapshotAhead = FALSE
    Env = {"kill", "power", "extend", "tear", "fserr"}
INVARIANTS
    TypeOK
    SnapshotSound
    SnapshotSurvives
    ReplayMatches
