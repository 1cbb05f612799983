SPECIFICATION FairSpec
CONSTANTS
  e1 = e1
  e2 = e2
  e3 = e3
  e4 = e4
  Event = {e1, e2, e3, e4}
  Type <- MCType
  NoEvent = NoEvent
  States = {"s0", "s1"}
  InitState = "s0"
  Transitions <- MCTransitions
  PlainTypes = {"info"}
  Workers = 2
  MaxForce = 1
INVARIANTS
  TypeOK
  RunToCompletion
PROPERTIES
  SerialEvents
  EventHandled
CHECK_DEADLOCK FALSE
