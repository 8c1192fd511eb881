SPECIFICATION DeviceFairSpec
CONSTANTS
  Users = {1, 2}
  Resumes = {3}
  Operations <- MCOperations
  None = 0
  MaxFaults = 2
CHECK_DEADLOCK FALSE
INVARIANTS RemoveIsRetryable AudioSerialized
PROPERTIES ForgetsOnlyRemoved RequestsEnd ResumeReconnects
