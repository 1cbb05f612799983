SPECIFICATION FairSpec
CONSTANTS
  Cap = 1
  MaxMsg = 1
  MaxSig = 1
PROPERTIES
  GracefulShutdown
CHECK_DEADLOCK FALSE
