SPECIFICATION Spec
CONSTANTS
  Tokens = {t1, t2}
  Ttl = 1
  Interval = 2
  StaleAfter = 2
  TopN = 1
  Faults = {"no_seeds", "build_fails", "probe_raises"}
  MaxTime = 6
SYMMETRY TokenSymmetry
CHECK_DEADLOCK FALSE
INVARIANTS
  TypeOK
  StampNeverInvented
  OffersAreRecent
  NotAllStale
