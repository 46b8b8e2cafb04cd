SPECIFICATION FairSpec
CONSTANTS
  Requests = {r1, r2}
  Envelopes = {e1}
  Workers = {w1, w2}
  None = None
  MaxAttempts = 2
  MaxFaults = 1
  MaxReruns = 0
INVARIANTS
  RetriesFollowThePolicy
PROPERTIES
  ImplementsItsPromises
  RecoveryTerminates
CHECK_DEADLOCK FALSE
