SPECIFICATION Spec
CONSTANTS
  Mints = {m1, m2}
  MaxOpen = 1
  MaxDaily = 3
  Size = 2
  Reserve = 1
  StartCash = 6
  LossCap = 3
  MaxFailures = 2
  MaxExiting = 2
  MaxBlocked = 2
  Cooldown = 2
  DayLength = 2
  Proceeds = {0, 3}
  Modes = {TRUE, FALSE}
  Faults <- AllFaults
  MaxTime = 4
  MaxCrashes = 1
SYMMETRY MintSymmetry
CHECK_DEADLOCK FALSE
INVARIANTS
  TypeOK
  EntriesBounded
  ReserveKept
PROPERTIES
  DryRunSpendsNothing
  FailureLatch
  CooldownRespected
