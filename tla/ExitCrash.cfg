SPECIFICATION FairSpec
CONSTANTS
  Qty = 5
  RetryMax = 2
  TpSteps = 2
  TpPct = 60
  ChunkPcts = {25, 50}
  Modes <- DripLiveOrDry
  Faults <- HonestFaults
  EntryKinds <- AllEntryKinds
  MaxCrashes = 1
INVARIANTS
  TypeOK
  BookCoversWallet
  ClosedMeansEmpty
  PaidOnlyForSold
  DripPlanConsistent
PROPERTIES
  DryRunSellsNothing
  ImplementsLedger
  FollowsSlots
  RetriesBounded
  ExitResolves
