SPECIFICATION FairSpec
CONSTANTS
  Operations = {c1, c2}
  Scans = {s1}
  Watcher = Watcher
  Faults = {"stop"}
CHECK_DEADLOCK FALSE
INVARIANTS NoForgottenRequest
PROPERTIES OwnerLossCancels
