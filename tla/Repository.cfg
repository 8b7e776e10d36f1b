\* Two commands, two snapshots over two packages, three publications, two kills.
SPECIFICATION Spec
CONSTANTS
    Procs = {a1, a2}
    Ids = {s1, s2}
    Packages = {p, q}
    None = None
    MaxPublications = 3
    MaxKills = 2
CHECK_DEADLOCK FALSE
INVARIANTS
    TypeOK
    ClientsAreServed
PROPERTIES
    StableIsTested
