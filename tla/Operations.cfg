SPECIFICATION FairSpec
CONSTANTS
  Requests = {r1, r2, r3}
  Owners = {o1}
  Devices = {d1, d2}
  MaxActive = 2
  MaxPerOwner = 2
  TerminalLimit = 1
  MaxRevision = 4
  None = None
CHECK_DEADLOCK FALSE
INVARIANTS OneWorkerPerDevice ExactRevisions StatusMatchesStream
PROPERTIES NoRetentionHole ImplementsLifecycle CancellationTerminates
