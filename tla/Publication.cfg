SPECIFICATION FairSpec
CONSTANTS
  Parts = {p1, p2}
  MaxRevision = 2
  MaxChanges = 2
  MaxReads = 1
  MaxReadFailures = 1
  MaxRestarts = 1
INVARIANTS WatermarkNamesState
PROPERTIES ClientNeverRegresses ClientConverges
CHECK_DEADLOCK FALSE
