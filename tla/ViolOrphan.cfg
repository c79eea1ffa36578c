\* Open over a segment name that was never made durable.
SPECIFICATION Spec
CONSTANTS
    Events = {e1, e2}
    Invalid = bad
    SegMax = 2
    Mode = "sync"
    SyncRecords = 0
    DefaultSyncRecords = 2
    Interval = FALSE
    MaxOffset = 2
    MaxBatch = 1
    Env = {"kill", "orphan", "power"}
SYMMETRY EventSymmetry
INVARIANTS
    AckedDurable
