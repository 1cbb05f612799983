SPECIFICATION FairSpec
CONSTANTS
  a1 = a1
  a2 = a2
  Attach = {a1}
  NoUe = NoUe
  NoNas = NoNas
  Rounds = 2
  Retries = 1
  DuUeId <- MCDuUeId
  AmfUeId <- MCAmfUeId
  DuId = 1
  AmfId = 0
  Malformed = {}
  Bodiless = {}
  Incomplete = {}
  SwitchOff = {}
  Unprompted = {a1}
  Tolerates <- AllTolerances
INVARIANTS
  TypeOK
  AmfUeIdEchoed
PROPERTIES
  RelaysNas
  RegistrationCompletes
CHECK_DEADLOCK FALSE
