\* Two friends, two iterations, both ways of merging.
CONSTANTS
    Names         = {"codex-ops-0", "claude-ops-1"}
    KeyOf         <- Keys
    Reports       <- SmallReports
    Refused       <- RefusedFindings
    MaxIterations = 2
    MaxMerges     = 2
SPECIFICATION CritiqueSpec
INVARIANTS
    RaisersAreAuthors
    OneClaimPerWording
CHECK_DEADLOCK FALSE
