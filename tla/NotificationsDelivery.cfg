\* Failures over several pages, a condition that comes twice, a second
\* configure, a replaced queue of either kind, one kill or lost reply.
SPECIFICATION Spec
CONSTANTS
    Service = service
    Hand = hand
    None = None
    Conditions = {disk}
    Limit = 1
    Backups = {"own", "foreign"}
    MaxEvents = 2
    MaxConfigs = 2
    MaxRises = 2
    MaxFaults = 1
CHECK_DEADLOCK FALSE
INVARIANTS
    QuietWhenDisabled
    RepeatsAreExcused
    NothingMissed
PROPERTIES
    StartsFromNow
