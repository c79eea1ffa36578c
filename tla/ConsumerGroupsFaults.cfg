\* Two groups share one commits file; every fault but a commits file reopened
\* under a name that is not durable.
SPECIFICATION Spec
CONSTANTS
    Groups = {g1, g2}
    MaxOffset = 1
    MaxCommits = 3
    MaxEpoch = 1
    CommitAhead = FALSE
    Env = {"close", "kill", "power", "extend", "tear", "writeerr", "syncerr", "direrr"}
SYMMETRY GroupSymmetry
INVARIANTS
    TypeOK
    CommitSurvives
    AtLeastOnce
    ResumesInsideLog
