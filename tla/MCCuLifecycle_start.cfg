SPECIFICATION FairSpec
CONSTANTS
  Cap = 2
  MaxMsg = 3
  MaxSig = 2
INVARIANTS
  TypeOK
  F1AfterNg
PROPERTIES
  Starts
CHECK_DEADLOCK FALSE
