\* Rounds whose output only an orchestrator can read.
CONSTANTS
    Friends     = {"ann", "bob"}
    Independent = {"ann", "bob"}
    Critique    <- NoClaims
    MaxRounds     = 2
    MaxIterations = 3
    MaxCalls      = 8
    Ballots     <- OneBallot
    Reasons     = {"garbled"}
    AuthReasons = {}
    StopReasons = {}
    MergeModes  = {"orchestrator"}
    Unparseable = {"garbled"}
    MaxClaims    = 1
    MaxRevisions = 0
SPECIFICATION LoopSpec
INVARIANT UnparsedIsNoEvidence
CHECK_DEADLOCK FALSE
