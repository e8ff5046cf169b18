SPECIFICATION TSpec
CONSTANTS
  Service = {devicemgmt, media}
  DevMgmt = devicemgmt
  Skew <- MCSkew
  Tolerance = 1
  Window = 2
  NotMeasured = NotMeasured
  NoClient = NoClient
  MaxFailures = 2
  MaxClockSteps = 1
INVARIANTS
  TypeOK
  HonestFallback
  CleartextIsLastResort
  AcceptedNotRejected
  SettledClientsCarryVerdict
  ExhaustionIsGenuine
  TokenVerdictIsFair
PROPERTIES
  SettledForGood
  SettlesWhileUsed
  ImplementsSession
