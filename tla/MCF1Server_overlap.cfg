SPECIFICATION Spec
CONSTANTS
  c1 = c1
  c2 = c2
  c3 = c3
  c4 = c4
  c5 = c5
  c6 = c6
  c7 = c7
  c8 = c8
  Conn = {c1, c8}
  NoConn = NoConn
  DuId <- MCDuId
  Cells <- MCCells
  ServedPLMNs <- MCServedPLMNs
  CuNetwork <- MCCuNetwork
  Overlap = TRUE
CHECK_DEADLOCK FALSE
INVARIANTS
  ResponseToRequester
