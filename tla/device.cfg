SPECIFICATION Spec
CONSTANTS
  Worker = {gw0, gw1}
  Suite <- AllTests
  Devices <- MCDevices
  Found <- MCFound
  MaxTests = 2
  MaxFaults = 1
  MaxPolls = 2
  MaxHellos = 2
SYMMETRY WorkerSymmetry
INVARIANTS
  TypeOK
  SettingsPutBack
  MotorsStop
  FailureIsEarned
  PassIsEarned
  RecoveredMeansRebooted
