\* One administrator: two refreshes, three changes by others, the clock and a
\* fault between review and unpacking.
SPECIFICATION Spec
CONSTANTS
    Admins = {a1}
    None = None
    MaxVersion = 2
    MaxGenerations = 2
    MaxTime = 1
    MaxAge = 1
    Lifetimes = {1}
    MaxChanges = 3
    MaxFaults = 1
CHECK_DEADLOCK FALSE
INVARIANTS
    UnpackedUnlessUndone
    StatusTellsTruth
PROPERTIES
    NeverUnpackedStale
