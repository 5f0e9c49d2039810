\* Two updates; errors, kills, power losses and edits at any step.
SPECIFICATION LiveSpec
CONSTANTS
    Version = {v1, v2}
    None = None
    Fault = {"save", "launchctl", "health", "monitor", "edit", "unload", "outage"}
    MaxUpdates = 2
    MaxFaults = 3
    MaxKills = 2
INVARIANTS
    TypeOK
    Recoverable
    OnlyProvenStays
PROPERTIES
    EditedIsKept
    UpdateSettles
CHECK_DEADLOCK FALSE
