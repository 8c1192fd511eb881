SPECIFICATION PairingFairSpec
CONSTANTS
  Requests = {r1, r2}
  Displays = {d1}
CHECK_DEADLOCK FALSE
INVARIANTS OneTrueEnding
PROPERTIES PromptEnds
