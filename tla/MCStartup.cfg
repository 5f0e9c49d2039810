\* Two commands or logons, on a new or an earlier installation; two crashes, a kill
\* and an edit at any time.
SPECIFICATION Spec
CONSTANTS
    Pid = {1, 2, 3, 4, 5, 6}
    Version = {v1, v2}
    None = None
    Retries = 1
    Fault = {"write"}
    MaxCommands = 2
    MaxCrashes = 2
    MaxKills = 1
    MaxEdits = 1
INVARIANTS
    TypeOK
    StoppedUnlessUnseen
PROPERTIES
    CrashIsRecovered
CHECK_DEADLOCK FALSE
