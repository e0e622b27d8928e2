\* Two judges, three judging rounds, a process that dies twice anywhere.
CONSTANTS
    Friends     = {"author", "ann", "bob"}
    Independent = {"author", "ann", "bob"}
    Critique    <- OneClaim
    MaxRounds     = 4
    MaxIterations = 1
    MaxCalls      = 6
    MaxCrashes    = 2
    Ballots     <- MixedBallots
    Reasons     = {"timeout"}
    AuthReasons = {}
    StopReasons = {}
SPECIFICATION RFairSpec
INVARIANTS
    SameQuestionEveryTime
    OutcomeIsReplay
    OwnFilesAreAccepted
PROPERTIES
    ImplementsRecord
    Ends
CHECK_DEADLOCK FALSE
