SPECIFICATION Spec
CONSTANTS
  a1 = a1
  a2 = a2
  Attach = {a1}
  NoUe = NoUe
  NoNas = NoNas
  Rounds = 1
  Retries = 0
  DuUeId <- MCDuUeId
  AmfUeId <- MCAmfUeId
  DuId = 1
  AmfId = 0
  Malformed = {}
  Bodiless = {}
  Incomplete = {}
  SwitchOff = {a1}
  Unprompted = {a1}
  Tolerates <- AllTolerances
INVARIANTS
  InitialUeFirst
CHECK_DEADLOCK FALSE
