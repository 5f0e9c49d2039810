\* Two commands, and a sync of the settings directory that fails once; no edit, kill
\* or power loss.
SPECIFICATION HookSpec
CONSTANTS
    Proc = {p1, p2}
    Client = {"zcode", "claude-code"}
    Event = {e1, e2}
    Program = {x1, x2}
    None = None
    Malformed = Malformed
    Fault = {"sync settings"}
    MaxCommands = 2
    MaxEdits = 0
    MaxFaults = 1
    MaxKills = 0
INVARIANTS
    EntryHasReceipt
SYMMETRY Symmetry
CHECK_DEADLOCK FALSE
