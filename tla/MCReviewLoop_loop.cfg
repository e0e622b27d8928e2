\* Both merge modes, one claim, halts for merging and for extraction.
CONSTANTS
    Friends     = {"ann", "bob"}
    Independent = {"ann", "bob"}
    Critique    <- NoClaims
    MaxRounds     = 3
    MaxIterations = 3
    MaxCalls      = 6
    Ballots     <- LoopBallots
    Reasons     = {"timeout", "garbled", "login"}
    AuthReasons = {"login"}
    StopReasons = {}
    MergeModes  = {"exact", "orchestrator"}
    Unparseable = {"garbled"}
    MaxClaims    = 1
    MaxRevisions = 1
SPECIFICATION LoopSpec
INVARIANTS
    ConvergedOnDryRounds
    PaidWithinMaxCalls
PROPERTIES
    SettledUntilRevised
    OutInEveryProcess
CHECK_DEADLOCK FALSE
