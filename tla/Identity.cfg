SPECIFICATION FairSpec
CONSTANTS
  Controllers = {c1, c2}
  Names = {n1, n2}
  Tasks = {t1}
  None = None
  Changed = Changed
  EphemeralLimit = 1
  MaxKeys = 2
  MaxVersion = 4
  MaxBoots = 2
CHECK_DEADLOCK FALSE
INVARIANTS CredentialsNamed KeyNamesOnePeer
PROPERTIES ImplementsDurableStore ChangeReachesDisk
