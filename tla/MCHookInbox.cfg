\* Two hooks and the monitor: kills, a failing operation and a power loss.
SPECIFICATION Spec
CONSTANTS
    Hook = {h1, h2}
    Record = {r1, r2}
    None = None
    Capacity = 1
    Limit = 1
    Fault = {"open", "write", "mark", "ack"}
    MaxSubmits = 4
    MaxFaults = 1
    MaxKills = 2
    MaxOutages = 1
INVARIANTS
    TypeOK
    RefusalIsMarked
    WrittenIsDurable
PROPERTIES
    ImplementsInbox
SYMMETRY Symmetry
CHECK_DEADLOCK FALSE
