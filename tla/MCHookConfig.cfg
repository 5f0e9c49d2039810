\* Three commands of two programs; an edit, a failure and a kill or power loss anywhere.
SPECIFICATION HookSpec
CONSTANTS
    Proc = {p1, p2}
    Client = {"zcode", "claude-code"}
    Event = {e1, e2}
    Program = {x1, x2}
    None = None
    Malformed = Malformed
    Fault = {"write", "sync", "sync settings", "power", "edit"}
    MaxCommands = 3
    MaxEdits = 1
    MaxFaults = 1
    MaxKills = 1
PROPERTIES
    ForeignKept
    PartedOnlyByUndo
    Undone
SYMMETRY Symmetry
CHECK_DEADLOCK FALSE
