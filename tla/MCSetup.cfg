\* Three commands of two processes; an edit, a failure and a kill anywhere.
SPECIFICATION Spec
CONSTANTS
    Proc = {p1, p2}
    Client = {"zcode", "claude-code"}
    Event = {e1}
    Runtime = x1
    x1 = x1
    Program = {x1, x2}
    None = None
    Malformed = Malformed
    Fault = {"write", "sync", "sync settings", "launchctl", "edit", "tools", "restart"}
    MaxCommands = 3
    MaxEdits = 1
    MaxFaults = 1
    MaxKills = 1
INVARIANTS
    TypeOK
    RegisteredHasFile
    NoRestartLoop
PROPERTIES
    RemovalLeavesNothing
SYMMETRY Symmetry
CHECK_DEADLOCK FALSE
