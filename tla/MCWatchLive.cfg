\* One record: a failing save or acknowledgement, a damaged directory, a broken guard.
SPECIFICATION LiveSpec
CONSTANTS
    None = None
    r1 = r1
    r2 = r2
    e1 = e1
    Record = {r1, r2}
    Evidence = {}
    Workspace = {}
    Key = {"hook", "snapshot", "coverage", "gap", "unreadable", "protection"}
    KeyOf <- MCKeyOf
    Kind = {"output", "manifest", "coverage", "protection", "hook_coverage"}
    KindOf <- MCKindOf
    GroupOf <- MCGroupOf
    RankOf <- MCRankOf
    Order <- MCOrder
    Silent = {"protection"}
    MaxEvents = 3
    BatchLimit = 2
    JobsCapacity = 1
    BrokenLimit = 2
    Fault = {"disk", "inbox", "source", "guard"}
    MaxClock = 6
    MaxSubmits = 1
    MaxFaults = 1
    MaxCrashes = 1
PROPERTIES
    InboxDrains
    NoticesSettle
    StopCompletes
