SPECIFICATION Spec
CONSTANTS
  Service = {devicemgmt, media, receiver, novel}
  Device = devicemgmt
  Known = {devicemgmt, media, receiver}
  Vendored = {devicemgmt, media}
  Legacy = {devicemgmt, media}
  MaxRequires = 2
  MaxFailures = 2
INVARIANTS
  TypeOK
  AddressOrBlank
  SkipMeansNotOffered
  EnteredTestsCanBind
  AuditIsHonest
PROPERTIES
  FoundForGood
