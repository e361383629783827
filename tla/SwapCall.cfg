SPECIFICATION Spec
CONSTANTS
  Qty = 4
  Held = {3, 4, 6}
  Bought = {2, 5}
  Amounts = {2, 4, 5}
  Sides = {"buy", "sell"}
  Modes = {TRUE, FALSE}
  Attempts = 3
  PreReads = 2
  PostReads <- ReadsBySide
  Faults <- AllFaults
CHECK_DEADLOCK FALSE
INVARIANTS
  TypeOK
  OneSwapPerCall
  SoldIsGone
  BuyAlwaysSettles
PROPERTIES
  CallReturns
  ImplementsPromise
