SPECIFICATION Spec
CONSTANTS
  Mints = {m1, m2, m3}
  MaxOpen = 2
  MaxDaily = 1
  Size = 2
  Reserve = 1
  StartCash = 11
  LossCap = 2
  MaxFailures = 2
  MaxExiting = 2
  MaxBlocked = 2
  Cooldown = 1
  DayLength = 2
  Proceeds = {0, 3}
  Modes = {TRUE}
  Faults <- AnsweredFaults
  MaxTime = 3
  MaxCrashes = 0
SYMMETRY MintSymmetry
CHECK_DEADLOCK FALSE
INVARIANTS
  CashExact
  DailyOvershootBounded
  LossBounded
