SPECIFICATION Spec
CONSTANTS
  Requests = {0, 1, 2}
  Poll = 2
  Durations = {1, 5}
  MaxBatch = 2
  MaxDecisions = 4
  MaxTime = 6
  MaxStarts = 2
  Faults <- AllFaults
CHECK_DEADLOCK FALSE
INVARIANTS
  TypeOK
  SavesAreAtomic
  JournalFollowsState
  EndsInOrder
  OnSchedule
PROPERTIES
  RunEnds
