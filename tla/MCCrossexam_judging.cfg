\* Two independent judges and an advisory one, a claim of each kind of author,
\* three judging rounds, and a call ceiling reached in the last of them.
CONSTANTS
    Friends     = {"ann", "bob", "host"}
    Independent = {"ann", "bob"}
    Critique    <- TwoClaims
    MaxRounds     = 4
    MaxIterations = 1
    MaxCalls      = 7
    Ballots     <- SomeBallots
    Reasons     = {"timeout", "login"}
    AuthReasons = {"login"}
    StopReasons = {"login"}
SPECIFICATION Spec
INVARIANTS
    TypeOK
    SettledByQuorum
    OneSuccessor
    AuthorsNeverJudge
PROPERTIES
    TerminalIsFinal
    DiscardedOnlyUnchanged
    DisabledStaysOut
CHECK_DEADLOCK FALSE
