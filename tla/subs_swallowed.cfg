SPECIFICATION Spec
CONSTANTS
  Handle = {h1, h2}
  NoHandle = NoHandle
  MaxFailures = 0
INVARIANTS
  UnsubscribeMustSucceed
