SPECIFICATION FairSpec
CONSTANTS
  a1 = a1
  a2 = a2
  Attach = {a1}
  NoUe = NoUe
  NoNas = NoNas
  Rounds = 1
  Retries = 0
  DuUeId <- MCDuUeId
  AmfUeId <- MCAmfUeId
  DuId = 1
  AmfId = 0
  Malformed = {}
  Bodiless = {}
  Incomplete = {}
  SwitchOff = {}
  Unprompted = {a1}
  Tolerates <- NoRawTolerance
PROPERTIES
  RegistrationCompletes
CHECK_DEADLOCK FALSE
