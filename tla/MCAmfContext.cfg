SPECIFICATION Spec
CONSTANTS
  Networks <- MCNetworks
  Slices = {s1, s2}
  MaxItems = 2
  MaxResponses = 2
INVARIANTS
  TypeOK
  NoNilSupport
  SupportKept
CHECK_DEADLOCK FALSE
