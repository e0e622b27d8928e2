SPECIFICATION Spec
CONSTANTS
    Loop = TRUE
    MaxIterations = 3
    Undecodable = {4}
    Restores = {"explicit", "repository"}
    MaxEdits = 3
    MaxResumes = 2
INVARIANTS
    ShownIsOneRevision
    RevisionsAreRecordable
    HaltsAreAcceptable
CHECK_DEADLOCK FALSE
