\* Commands, client and inspections; two kills, one failure or foreign change at any time.
SPECIFICATION LiveSpec
CONSTANTS
    Root = root
    w1 = w1
    Workspace = {w1, w2}
    Artifact = {a1}
    Unsupported = {w2}
    WorkspaceOf <- MCWorkspaceOf
    None = None
    Platform = {"darwin", "windows"}
    Fault = {"save", "chmod", "import", "edit", "discard", "move"}
    MaxInodes = 3
    MaxEnables = 1
    MaxFaults = 1
    MaxKills = 2
INVARIANTS
    TypeOK
    Accounted
    HealthyMeansGuarded
    MovedStaysRecorded
PROPERTIES
    OthersKeptUnlessRaced
    InterruptedIsRecovered
CHECK_DEADLOCK FALSE
