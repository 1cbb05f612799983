SPECIFICATION FairSpec
CONSTANTS
  SqnMax = 24
  SqnInd = 4
  UeSqns <- MCUeSqns
  NetSqns <- MCNetSqns
  MaxVectors = 4
  MaxLost = 2
INVARIANTS
  TypeOK
  KeysAgree
  InSync
PROPERTIES
  KeyNeverOlder
  Authenticates
CHECK_DEADLOCK FALSE
