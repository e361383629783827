SPECIFICATION Spec
CONSTANTS
  Qty = 8
  RetryMax = 3
  TpSteps = 1
  TpPct = 50
  ChunkPcts = {25}
  Modes <- LiveDrip
  Faults <- NoFaults
  EntryKinds = {"confirmed"}
  MaxCrashes = 1
PROPERTY
  HardExitNotChunked
