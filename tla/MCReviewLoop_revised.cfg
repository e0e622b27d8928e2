\* One edit of the artifact between two iterations.
CONSTANTS
    Friends     = {"ann", "bob"}
    Independent = {"ann", "bob"}
    Critique    <- NoClaims
    MaxRounds     = 2
    MaxIterations = 3
    MaxCalls      = 12
    Ballots     <- OneBallot
    Reasons     = {"timeout"}
    AuthReasons = {}
    StopReasons = {}
    MergeModes  = {"orchestrator"}
    Unparseable = {}
    MaxClaims    = 1
    MaxRevisions = 1
SPECIFICATION LoopSpec
INVARIANT SettledOnThisText
CHECK_DEADLOCK FALSE
