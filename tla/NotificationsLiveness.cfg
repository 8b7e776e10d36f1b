\* A fair timer and an endpoint that does not refuse for ever.
SPECIFICATION FairSpec
CONSTANTS
    Service = service
    Hand = hand
    None = None
    Conditions = {disk}
    Limit = 1
    Backups = {}
    MaxEvents = 2
    MaxConfigs = 1
    MaxRises = 1
    MaxFaults = 1
CHECK_DEADLOCK FALSE
PROPERTIES
    FailureIsPosted
    ConditionIsPosted
