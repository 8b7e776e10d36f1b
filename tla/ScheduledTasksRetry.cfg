\* A retried run of a task next to a new one.
SPECIFICATION Spec
CONSTANTS
    Tasks = {t1}
    Procs = {p1}
    Jobs = {j1, j2, j3}
    None = None
    MaxRevision = 1
    MaxFaults = 0
SYMMETRY TaskSymmetry
CHECK_DEADLOCK FALSE
INVARIANTS
    OneJobPerTask
