SPECIFICATION ObexFairSpec
CONSTANTS
  Outgoing = {o1}
  Incoming = {i1}
CHECK_DEADLOCK FALSE
INVARIANTS OutcomeIsTrue ReservationMatchesConsent
PROPERTIES OutcomeReported
