\* Power cuts and failed calls, finitely many of the first.
SPECIFICATION LiveSpec
CONSTANTS
    Groups = {g1, g2}
    MaxOffset = 1
    MaxCommits = 2
    MaxEpoch = 1
    CommitAhead = FALSE
    Env = {"power", "extend", "writeerr", "syncerr", "direrr", "orphan"}
PROPERTIES
    EventuallyConsumed
