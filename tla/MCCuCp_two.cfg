SPECIFICATION Spec
CONSTANTS
  a1 = a1
  a2 = a2
  Attach = {a1, a2}
  NoUe = NoUe
  NoNas = NoNas
  Rounds = 1
  Retries = 0
  DuUeId <- MCDuUeId
  AmfUeId <- MCAmfUeId
  DuId = 1
  AmfId = 0
  Malformed <- MCMalformed
  Bodiless <- MCBodiless
  Incomplete = {a2}
  SwitchOff = {a2}
  Unprompted = {a1}
  Tolerates <- AllTolerances
INVARIANTS
  NoNilUe
  OwnCellGroup
  InitialUeFirstUnlessOff
  AmfUeIdGiven
PROPERTIES
  StateOwned
CHECK_DEADLOCK FALSE
