CONSTANTS
  Whole = 2
  Most = 3
  Ceiling = 2
  Parses = {1, 2}
  Platforms = {"posix", "windows"}
  MaxFailures = 1
  Patience = 3
  Holds <- HoldsMC
  Grips <- GripsMC
SPECIFICATION Spec
INVARIANTS
    NoSurvivorIsSilent
    StoppedFriendIsNotJudged
    TimeoutLimitsTheRequest
CHECK_DEADLOCK FALSE
