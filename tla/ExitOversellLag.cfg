SPECIFICATION Spec
CONSTANTS
  Qty = 8
  RetryMax = 3
  TpSteps = 1
  TpPct = 50
  ChunkPcts = {25}
  Modes <- LiveDrip
  Faults = {"read_lag"}
  EntryKinds = {"confirmed"}
  MaxCrashes = 0
INVARIANT
  NeverOverSell
