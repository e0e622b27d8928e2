SPECIFICATION Spec
CONSTANTS
    fresh = fresh
    again = again
    late = late
    pruner = pruner
    nobody = nobody
    c1 = c1
    c2 = c2
    Fresh = fresh
    Resumes <- ResumesMC
    Pruner = pruner
    Nobody = nobody
    Claims <- OneClaim
    Advisory <- NoClaims
    Mode = "gate"
    Endings <- CleanEnding
    Sites <- OneSite
    MaxHalts = 1
    MaxCrashes = 0
    MaxFaults = 0
CHECK_DEADLOCK FALSE

PROPERTY FinishedStaysFinished
