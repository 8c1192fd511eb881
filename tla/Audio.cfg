SPECIFICATION AudioFairSpec
CONSTANTS
  Peers = {p, q}
  Target = p
  Ids = {1}
  None = None
  MaxChanges = 3
  MaxRestarts = 1
  MaxTries = 1
CHECK_DEADLOCK FALSE
INVARIANTS WritesOnceToTarget
PROPERTIES OkWasSeen OperationEnds
