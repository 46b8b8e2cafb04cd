SPECIFICATION USpec
CONSTANTS
  s1 = s1  s2 = s2  s3 = s3  c1 = c1  c2 = c2
  NoOne = NoOne
  Worlds = {"races", "days"}
  Participants = {1, 2}
  Sessions <- ThreeSessions
  Cycles = {c1, c2}
  Days = {1, 2}
  LastDay = 2
  Amounts = {1}
  Ceiling = 5
  MaxJournals = 2
  Rebuilds = 1
SYMMETRY Symmetry
INVARIANTS ViewExactUnlessRaced LedgerExplained RtgsFileMatchesMovements SettledIsWhatLeftThePosition StatementsFollowASettlement
PROPERTIES CycleIsFinal ClosedDayIsFinal
CHECK_DEADLOCK FALSE
