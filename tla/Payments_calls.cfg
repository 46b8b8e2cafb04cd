SPECIFICATION Spec
CONSTANTS
  Requests = {r1, r2, r3}
  Envelopes = {e1, e2}
  Workers = {w1}
  None = None
  MaxAttempts = 1
  MaxFaults = 0
  MaxReruns = 1
SYMMETRY Symmetry
INVARIANTS
  NoPhantomConfirmation
  ConfirmedIsBookedOnce
  DeclinedWasNotCredited
  OnePaymentPerEnvelope
  BookingsFollowPayments
PROPERTIES
  TerminalIsFinal
CHECK_DEADLOCK FALSE
