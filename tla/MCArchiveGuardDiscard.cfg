\* The cache is removed while a command runs.
SPECIFICATION Spec
CONSTANTS
    Root = root
    w1 = w1
    Workspace = {w1}
    Artifact = {a1}
    Unsupported = {}
    WorkspaceOf <- MCWorkspaceOf
    None = None
    Platform = {"darwin"}
    Fault = {"discard"}
    MaxInodes = 4
    MaxEnables = 1
    MaxFaults = 1
    MaxKills = 2
INVARIANTS
    ReceiptIsUsable
CHECK_DEADLOCK FALSE
