SPECIFICATION FairSpec
CONSTANTS
  MaxAttempts = 1
  MaxReaders = 2
  MaxNotices = 1
  MaxCommands = 2
  QuickRetries = 0
  UnknownLimit = 1
INVARIANTS StreamOwnsLink SlotMatchesCommand
PROPERTIES PendingEnds
