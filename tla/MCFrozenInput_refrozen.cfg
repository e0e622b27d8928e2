SPECIFICATION Spec
CONSTANTS
    Loop = TRUE
    MaxIterations = 3
    Undecodable = {4}
    Restores = {"explicit", "repository"}
    MaxEdits = 3
    MaxResumes = 2
CHECK_DEADLOCK FALSE
INVARIANT TheCopyIsTheOneAttested
