\* Three claims to merge or findings to extract; two deaths, three writes by the operator.
CONSTANTS
    ClaimIds       = {1, 2, 3}
    MergeAnswers   <- Merges
    ExtractAnswers <- Findings
    Unfounded      <- UnfoundedFindings
    Oversized      <- OversizedFindings
    NoFile     = NoFile
    MaxEdits   = 3
    MaxCrashes = 2
SPECIFICATION FairSpec
INVARIANTS
    JudgedOnTheWholeAnswer
PROPERTIES
    ImplementsApplyOnce
    UndisturbedFinishes
CHECK_DEADLOCK FALSE
