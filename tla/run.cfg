SPECIFICATION Spec
CONSTANTS
  Worker = {gw0, gw1}
  known = known
  plain = plain
  writer = writer
  media = media
  Test = {known, writer}
  Service = {media}
  Consent = {writes}
  Suite <- MCSuite
  Accepted = {PasswordDigest}
  Defect = {badEnum}
  Nobody = Nobody
  MaxCalls = 1
  MaxCrashes = 1
SYMMETRY WorkerSymmetry
INVARIANTS
  TypeOK
  BlameIsExact
  PassMeansValid
  AddressingStaysPut
  NothingBelowARefusal
  ReportIsComplete
  VerdictsAreEarned
