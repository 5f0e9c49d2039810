\* A removal is killed, or one of its writes fails.
SPECIFICATION Spec
CONSTANTS
    v1 = v1
    v2 = v2
    c1 = c1
    c2 = c2
    Version = {v1}
    Client = {c1, c2}
    None = None
    Fault = {"write"}
    MaxCommands = 3
    MaxFaults = 1
    MaxKills = 1
    MaxCrashes = 0
    MaxEdits = 0
INVARIANTS
    RemovalCanResume
CHECK_DEADLOCK FALSE
