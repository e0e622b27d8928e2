CONSTANTS
  f1 = f1
  f2 = f2
  f3 = f3
  Order <- OrderMC
  Adapter <- AdapterMC
  Settings <- SettingsMC
  Independent = {f1, f2}
  Says <- SaysMC
  Workers = 2
  RepeatLimit = 2
  MaxRounds = 3
  MaxErrors = 1
SPECIFICATION Spec
INVARIANTS
    EveryDispatchIsAudited
    OnlyTheBrokenAreBenched
    ProtectionIsReal
PROPERTIES
    RoundsEnd
CHECK_DEADLOCK FALSE
