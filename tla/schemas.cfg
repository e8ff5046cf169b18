SPECIFICATION Spec
CONSTANTS
  Key <- MCKey
  Text <- MCText
  Refs <- MCRefs
  Seeds <- MCSeeds
  Editions <- MCEditions
  Vendored <- MCVendored
  Process = {1, 2}
  MaxChanges = 1
  MaxFaults = 1
  Elements <- MCElements
  Types <- MCTypes
  Enums <- MCEnums
  DevMgmt = "dev"
  Response <- MCResponse
  MaxResponses = 1
  MaxActive = 2
INVARIANTS
  TypeOK
  VerifiedIsWhole
  DoneMeansVerified
  SinkIsExact
PROPERTIES
  RefreshEnds
