\* What a finding too large for the ledger costs.
CONSTANTS
    ClaimIds       = {1, 2, 3}
    MergeAnswers   <- Merges
    ExtractAnswers <- Findings
    Unfounded      <- UnfoundedFindings
    Oversized      <- OversizedFindings
    NoFile     = NoFile
    MaxEdits   = 3
    MaxCrashes = 2
SPECIFICATION Spec
INVARIANTS
    OneBadRecordCostsOneRecord
CHECK_DEADLOCK FALSE
