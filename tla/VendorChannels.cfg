SPECIFICATION FairSpec
CONSTANTS
  MaxAttempts = 2
  MaxSessions = 2
  MaxCallers = 1
  BusyRetries = 1
  QueueLimit = 1
  AckLimit = 1
  AckedLimit = 1
  Queries = 1
  MaxLate = 1
INVARIANTS SessionOwnsChannel
PROPERTIES NobodyWaitsForever
