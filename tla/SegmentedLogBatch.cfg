\* Batch mode under every fault of the disk: a log that is reopened unsynced,
\* torn or spoiled keeps its word on batches and on what recovery says.
SPECIFICATION Spec
CONSTANTS
    Events = {e1, e2}
    Invalid = bad
    SegMax = 3
    Mode = "batch"
    SyncRecords = 2
    DefaultSyncRecords = 2
    Interval = TRUE
    MaxOffset = 6
    MaxBatch = 2
    Env = {"close", "kill", "power", "extend", "tear", "writeerr", "syncerr", "direrr"}
SYMMETRY EventSymmetry
INVARIANTS
    BatchSyncsOnTime
    NoFalseCorruption
    DiscardsOneRecord
