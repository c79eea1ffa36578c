\* Every fault but a restart over a name that is not durable.
SPECIFICATION Spec
CONSTANTS
    Events = {e1, e2}
    Invalid = bad
    SegMax = 2
    Mode = "os"
    SyncRecords = 0
    DefaultSyncRecords = 3
    Interval = FALSE
    MaxOffset = 5
    MaxBatch = 3
    Env = {"close", "kill", "power", "extend", "tear", "writeerr", "syncerr", "direrr", "invalid"}
SYMMETRY EventSymmetry
INVARIANTS
    TypeOK
    AckedDurable
    SealedDurable
    ReadsBack
    Inv
PROPERTY
    ImplementsDurableLog
