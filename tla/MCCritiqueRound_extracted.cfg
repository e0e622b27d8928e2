\* Two friends, one iteration: who may judge an extracted claim.
CONSTANTS
    Names         = {"codex-ops-0", "claude-ops-1"}
    KeyOf         <- Keys
    Reports       <- OneReport
    Refused       <- RefusedFindings
    MaxIterations = 1
    MaxMerges     = 1
SPECIFICATION CritiqueSpec
INVARIANTS
    ExtractedKeepAuthorship
CHECK_DEADLOCK FALSE
