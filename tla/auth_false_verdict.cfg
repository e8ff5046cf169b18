SPECIFICATION TSpec
CONSTANTS
  Service = {devicemgmt}
  DevMgmt = devicemgmt
  Skew <- MCSkew
  Tolerance = 1
  Window = 2
  NotMeasured = NotMeasured
  NoClient = NoClient
  MaxFailures = 1
  MaxClockSteps = 0
INVARIANTS
  FallbackMeansRefused
