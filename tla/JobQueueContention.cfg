\* The service worker and one started by hand compete for the queue.
SPECIFICATION Spec
CONSTANTS
    Jobs = {j1, j2}
    Workers = {svc, hand}
    Managed = {svc}
    None = None
    MaxTime = 0
    MaxFaults = 1
    MaxCancels = 0
SYMMETRY JobSymmetry
CHECK_DEADLOCK FALSE
INVARIANTS
    TypeOK
    SingleRunning
    HeartbeatOfHolder
    NeverReplayed
