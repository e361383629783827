SPECIFICATION Spec
CONSTANTS
  Mints = {m1, m2}
  MaxOpen = 2
  MaxDaily = 3
  Size = 2
  Reserve = 0
  StartCash = 6
  LossCap = 2
  MaxFailures = 2
  MaxExiting = 2
  MaxBlocked = 2
  Cooldown = 1
  DayLength = 2
  Proceeds = {0}
  Modes = {TRUE}
  Faults <- NoFaults
  MaxTime = 3
  MaxCrashes = 0
SYMMETRY MintSymmetry
CHECK_DEADLOCK FALSE
INVARIANT
  LossCapIsDaily
