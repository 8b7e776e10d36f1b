\* Two commands of one task race with its timer, its jobs and two faults.
SPECIFICATION Spec
CONSTANTS
    Tasks = {t1}
    Procs = {p1, p2}
    Jobs = {j1, j2, j3}
    None = None
    MaxRevision = 2
    MaxFaults = 2
SYMMETRY TaskSymmetry
CHECK_DEADLOCK FALSE
INVARIANTS
    EnabledWasTested
    NoOverlap
    RemovedIsQuiet
    TimerMatchesTable
PROPERTIES
    SubmitsCurrentDefinition
