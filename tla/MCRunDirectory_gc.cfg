SPECIFICATION GCSpec
CONSTANTS
    fresh = fresh
    again = again
    late = late
    pruner = pruner
    nobody = nobody
    c1 = c1
    c2 = c2
    Fresh = fresh
    Resumes <- NoResumes
    Pruner = pruner
    Nobody = nobody
    Claims <- OneClaim
    Advisory <- NoClaims
    Mode = "gate"
    Endings <- CleanEnding
    Sites <- OneSite
    MaxHalts = 0
    MaxCrashes = 0
    MaxFaults = 0
CHECK_DEADLOCK FALSE

PROPERTY CollectedMeansDied
