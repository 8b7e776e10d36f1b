\* Configured before there is a queue; then a restored one is put in place.
SPECIFICATION Spec
CONSTANTS
    Service = service
    Hand = hand
    None = None
    Conditions = {}
    Limit = 1
    Backups = {"foreign"}
    MaxEvents = 2
    MaxConfigs = 1
    MaxRises = 0
    MaxFaults = 0
CHECK_DEADLOCK FALSE
INVARIANTS
    HistoryNotReplayed
