\* The service worker alone: every outcome, one fault at any point.
SPECIFICATION Spec
CONSTANTS
    Jobs = {j1, j2}
    Workers = {svc}
    Managed = {svc}
    None = None
    MaxTime = 0
    MaxFaults = 1
    MaxCancels = 1
SYMMETRY JobSymmetry
CHECK_DEADLOCK FALSE
INVARIANTS
    CancelHonoured
    NoStrayProcess
    HistoryAgrees
PROPERTIES
    ImplementsContract
