SPECIFICATION USpec
CONSTANTS
  s1 = s1  s2 = s2  s3 = s3  c1 = c1  c2 = c2
  NoOne = NoOne
  Worlds = {"races"}
  Participants = {1, 2}
  Sessions <- OneSession
  Cycles = {c1}
  Days = {1}
  LastDay = 1
  Amounts = {1}
  Ceiling = 2
  MaxJournals = 1
  Rebuilds = 0
INVARIANTS RtgsPaysTheOwed
CHECK_DEADLOCK FALSE
