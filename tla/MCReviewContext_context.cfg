SPECIFICATION Spec
CONSTANTS
    Composers = {"worktree", "range"}
    InputsOf <- OnesInputs
    ChangesOf <- OnesChanges
    None = None
    MaxEdits = 3
    MaxFailures = 1
    MaxRuns = 2
INVARIANT PublishedIsACut
INVARIANT SidecarFollowsComposite
INVARIANT TakenIsAttested
CHECK_DEADLOCK FALSE
