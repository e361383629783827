SPECIFICATION Spec
CONSTANTS
  N = 2
  Quotes <- LadderQuotes
  EntryMarks <- EntryPrices
  Sellers <- BothSellers
  StopLoss = 14
  TrailArm = 14
  Trail = 8
  KeepPct = 12
  StreakBreak = 1
  StreakBreakSuppressed = 2
  TpTriggers <- OneStep
  HarvestMin = 5
  NeutralFloor <- MinusThree
  EmergencyPnl <- MinusTwelve
  CollapseDrop = 8
INVARIANTS
  TypeOK
  DangerSoldInFull
  UnconfirmedTimesOut
