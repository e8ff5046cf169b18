SPECIFICATION Spec
CONSTANTS
  Worker = {gw0, gw1}
  known = known
  plain = plain
  writer = writer
  media = media
  Test = {known, plain}
  Service = {media}
  Consent = {}
  Suite <- MCSuite
  Accepted = {PasswordDigest, PasswordText}
  Defect = {}
  Nobody = Nobody
  MaxCalls = 1
  MaxCrashes = 0
SYMMETRY WorkerSymmetry
INVARIANTS
  AuthSpeaksForAll
