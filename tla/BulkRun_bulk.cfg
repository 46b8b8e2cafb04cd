SPECIFICATION BSpec
CONSTANTS
  Keys = {1, 2}
  LineCount = 2
  Runners = {w1, w2}
  BatchSize = 1
  MaxCrashes = 1
INVARIANTS
  BulkTellsPayments
PROPERTIES
  StartedRunEnds
CHECK_DEADLOCK FALSE
