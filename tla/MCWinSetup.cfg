\* Four commands or logons; a fault, two kills, a crash and a change by the user.
SPECIFICATION Spec
CONSTANTS
    v1 = v1
    v2 = v2
    c1 = c1
    c2 = c2
    Version = {v1, v2}
    Client = {c1, c2}
    None = None
    Fault = {"write", "service", "health", "restart", "helper"}
    MaxCommands = 4
    MaxFaults = 1
    MaxKills = 2
    MaxCrashes = 1
    MaxEdits = 1
SYMMETRY Symmetric
INVARIANTS
    TypeOK
    Routable
    OnlyProvenSelected
    RemovedIsStopped
    NoticeHasHelper
CHECK_DEADLOCK FALSE
