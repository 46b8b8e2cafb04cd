SPECIFICATION Spec
CONSTANTS
  Payments = {p1}
  FastTracks = {f1}
  Cases = {c1}
  Workers = {w1, w2}
  Users = {u1, u2}
  Reasons = {"FRAUD", "WRONG_BENEFICIARY"}
  Sides = {"FILER", "RESPONDER"}
  None = None
  Quota = 1
  Amount = 2
  FilingLimit = 1
SYMMETRY Symmetry
INVARIANTS
  HeldAndReleasedOnce
  FraudUpheldWasFrozen
PROPERTY
  MovesLegally
CHECK_DEADLOCK FALSE
