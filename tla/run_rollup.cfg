SPECIFICATION Spec
CONSTANTS
  Worker = {main}
  known = known
  plain = plain
  writer = writer
  media = media
  Test = {known, plain}
  Service = {media}
  Consent = {writes}
  Suite <- MCSuite
  Accepted = {PasswordDigest}
  Defect = {badEnum}
  Nobody = Nobody
  MaxCalls = 1
  MaxCrashes = 0
INVARIANTS
  RollUpNamesReceivers
