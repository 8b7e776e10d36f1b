\* The commands given by hand: two terminals, two endpoints and one AI job;
\* two installers, two versions; two accounts; two records of one VM.
SPECIFICATION Spec
CONSTANTS
    Unset = Unset
    Missing = Missing
    Nobody = Nobody
    Nothing = Nothing
    Terminals = {t1, t2}
    Jobs = {j}
    Endpoints = {e1, e2}
    MaxCommands = 3
    Installers = {i1, i2}
    MaxVersion = 2
    MaxInstallKills = 2
    Users = {u1, u2}
    MaxAccessKills = 2
    Records = {r1, r2}
    Names = {s}
    MaxTokens = 3
    MaxChanges = 5
SYMMETRY Symmetry
INVARIANTS
    TypeOK
    KeyStaysWithEndpoint
    SelectionStands
    OneInvitation
    NothingHalfInstalled
    OwnFilesKept
    PolicyIsOwners
PROPERTY RestoresOwnCheckpoint
\* Commands are bounded, and after a kill access refuses to go on.
CHECK_DEADLOCK FALSE
