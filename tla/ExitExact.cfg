SPECIFICATION Spec
CONSTANTS
  Qty = 16
  RetryMax = 5
  TpSteps = 2
  TpPct = 50
  ChunkPcts = {25, 50}
  Modes <- LiveAny
  Faults <- ExactFaults
  EntryKinds = {"confirmed"}
  MaxCrashes = 0
INVARIANTS
  ExactBooks
  NeverOverSell
