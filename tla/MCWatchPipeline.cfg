\* Two records of one call and a workspace snapshot; one failure and one crash anywhere.
SPECIFICATION Spec
CONSTANTS
    None = None
    r1 = r1
    r2 = r2
    e1 = e1
    Record = {r1, r2}
    Evidence = {e1}
    Workspace = {e1}
    Key = {"hook", "snapshot", "coverage", "gap", "unreadable", "protection"}
    KeyOf <- MCKeyOf
    Kind = {"output", "manifest", "coverage", "protection", "hook_coverage"}
    KindOf <- MCKindOf
    GroupOf <- MCGroupOf
    RankOf <- MCRankOf
    Order <- MCOrder
    Silent = {"protection"}
    MaxEvents = 3
    BatchLimit = 2
    JobsCapacity = 1
    BrokenLimit = 1
    Fault = {"disk", "notifier", "evidence", "inbox", "guard", "source"}
    MaxClock = 6
    MaxSubmits = 2
    MaxFaults = 1
    MaxCrashes = 1
INVARIANTS
    TypeOK
    AtMostOneSend
    PersistBeforeSend
    NoLostRecord
    NoOrphanedNotice
    IdleIsDurable
PROPERTIES
    ImplementsLedger
