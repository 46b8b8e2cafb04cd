SPECIFICATION USpec
CONSTANTS
  Debits = {c1, c2, c3}
  Amounts = {1, 2}
  PerDebitCap = 2
  DailyCap = 2
  TotalCap = 3
  TimeBased = TRUE
  MaxDay = 1
  MaxChanges = 2
  MaxFaults = 1
  Holds = {h1}
  Sessions = {c1, c2, c3}
  MaxPayouts = 3
  None = None
  Requests = {r1}
  Refunded = {c1, c2, c3}
  Payers = {p1, p2}
  Calls = {c1, c2, c3}
  RefundCalls = {e1, e2}
  Original = 3
  LegCount = 3
  cashoutOtpMaxAttempts = 2
SYMMETRY Symmetry
INVARIANTS
  TotalIsWhatWasPaid
  CapsHoldUnlessOvertaken
  ExhaustedWhenSpent
  PaidOnceUnlessOverwritten
  BothSignaturesRelease
  RowsTellPayments
  LimitsHoldButForOverlap
PROPERTIES
  RevokedIsSilentUnlessOverwritten
CHECK_DEADLOCK FALSE
