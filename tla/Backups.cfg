\* Two commands, one job, one restore target, two backups; a kill and the loss of the host.
SPECIFICATION Spec
CONSTANTS
    Procs = {p1, p2}
    Jobs = {j1}
    Targets = {t1}
    None = None
    MaxCreates = 2
    MaxKills = 1
    MaxLosses = 1
CHECK_DEADLOCK FALSE
INVARIANTS
    TypeOK
    ListedIsWhole
    NothingReplays
    OwnTreesKept
