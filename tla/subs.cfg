SPECIFICATION Spec
CONSTANTS
  Handle = {h1, h2, h3}
  NoHandle = NoHandle
  MaxFailures = 1
INVARIANTS
  TypeOK
  ListIsLive
  TeardownMissesNone
  DanglingIsExcused
PROPERTIES
  UnsubscribedOnce
  FollowUpIsFair
