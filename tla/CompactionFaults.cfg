\* A sealed segment, a cursor, and a failure at every call of a compaction.
SPECIFICATION Spec
CONSTANTS
    Keys = {k1, k2}
    SegMax = 3
    MaxOffset = 4
    AnyOffset = FALSE
    Env = {"kill", "power", "fserr", "direrr"}
SYMMETRY KeySymmetry
INVARIANTS
    TypeOK
    NewestKept
    CursorSound
    NothingSkipped
PROPERTY
    CompactionInvisible
