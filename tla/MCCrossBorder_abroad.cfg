SPECIFICATION USpec
CONSTANTS
  Transfers = {t1}
  Quotes = {q1}
  Ticks = {k1}
  None = None
  MaxAttempts = 3
  MaxInstructions = 2
  MaxInconclusive = 2
  MaxFaults = 0
PROPERTIES
  PendingIsStatusChecked
CHECK_DEADLOCK FALSE
