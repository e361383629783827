SPECIFICATION Spec
CONSTANTS
  Tokens = {t1}
  Ttl = 1
  Interval = 1
  StaleAfter = 1
  TopN = 1
  Faults = {"no_seeds"}
  MaxTime = 6
CHECK_DEADLOCK FALSE
INVARIANT
  OutageStopsEntries
