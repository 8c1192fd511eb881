SPECIFICATION FairSpec
CONSTANTS
  Scans = {s1, s2}
  Owners = {o1}
  Adapters = {a1, a2}
  Global = Global
INVARIANTS LeaseAccounted
PROPERTIES SharedAdapterKept LeaseEnds
