SPECIFICATION Spec
CONSTANTS
    Loop = TRUE
    MaxIterations = 3
    Undecodable = {4}
    Restores = {"document"}
    MaxEdits = 3
    MaxResumes = 2
CHECK_DEADLOCK FALSE
INVARIANT RevisionsAreRecordable
