SPECIFICATION FairSpec
CONSTANTS
  MaxGenerations = 7
  MaxChanges = 3
  MaxFailures = 2
INVARIANTS AvailableIsWhole NoUnnoticedRestart GenerationReleased
PROPERTY ServesLiveBluez
CHECK_DEADLOCK FALSE
