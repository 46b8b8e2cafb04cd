SPECIFICATION USpec
CONSTANTS
  Transfers = {t1, t2}
  Quotes = {q1}
  Ticks = {k1, k2}
  None = None
  MaxAttempts = 2
  MaxInstructions = 2
  MaxInconclusive = 3
  MaxFaults = 1
SYMMETRY Symmetry
INVARIANTS
  AnswersDecide
  DecidedOnceUnlessOverwritten
  QuoteBacksOneUnlessOverwritten
PROPERTIES
  ParentIsFinal
CHECK_DEADLOCK FALSE
