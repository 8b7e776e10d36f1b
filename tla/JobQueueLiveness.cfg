\* A fair service worker: one job, delayed, and three faults, or two jobs and two.
SPECIFICATION FairSpec
CONSTANTS
    Jobs = {1, 2}
    Workers = {svc}
    Managed = {svc}
    None = None
    MaxTime = 1
    MaxFaults = 3
    MaxCancels = 1
ACTION_CONSTRAINT Bounded
CHECK_DEADLOCK FALSE
PROPERTIES
    RunningEnds
    StopIsObeyed
    QueuedIsServed
