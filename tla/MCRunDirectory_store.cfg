SPECIFICATION Spec
CONSTANTS
    fresh = fresh
    again = again
    late = late
    pruner = pruner
    nobody = nobody
    c1 = c1
    c2 = c2
    Fresh = fresh
    Resumes <- ResumesMC
    Pruner = pruner
    Nobody = nobody
    Claims <- OneClaim
    Advisory <- NoClaims
    Mode = "gate"
    Endings <- GateEndings
    Sites <- SitesMC
    MaxHalts = 1
    MaxCrashes = 1
    MaxFaults = 1
INVARIANTS
    TerminalMetaHasItsReport
    HaltsStayAnchored
    LastEventIsOnDisk
    ClearGateIsEarned
PROPERTIES
    PruneSparesReopenedRuns
CHECK_DEADLOCK FALSE
