\* Two claims, of which a judge may leave one out, and a process that dies once.
CONSTANTS
    Friends     = {"author", "ann"}
    Independent = {"author", "ann"}
    Critique    <- TwoClaims
    MaxRounds     = 2
    MaxIterations = 1
    MaxCalls      = 4
    MaxCrashes    = 1
    Ballots     <- PlainBallots
    Reasons     = {"timeout"}
    AuthReasons = {}
    StopReasons = {}
SPECIFICATION RSpec
INVARIANT
    OmissionMarksRun
CHECK_DEADLOCK FALSE
