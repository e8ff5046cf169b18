----------------------------- MODULE MCWriteTests ------------------------------
(* WriteTests with every test.  Traits that matter to different tests are put *)
(* together in one device; the last one hides its defect.                     *)
EXTENDS WriteTests, TLC

AllTests == DOMAIN Script

MCDevices == {
  {},
  {"ignores_writes", "hides_status", "no_focus", "garbled_fault",
   "new_identity", "no_epr"},
  {"refuses_restore", "ignores_stop", "takes_idle_words", "no_door_command",
   "slow_reboot", "new_identity"},
  {"no_readback", "no_token", "ignores_timeout", "narrow_range", "no_message",
   "no_address"},
  {"refuses_put", "ignores_stop", "ignores_timeout", "no_status"},
  {"ignores_restore", "narrow_range", "takes_idle_words"},
  {"ignores_writes", "narrow_range"} }

MCFound == {
  [timeout |-> "default", clock |-> "NTP", relay |-> "idle",
   search |-> "none", door |-> "locked"],
  [timeout |-> "max", clock |-> "Manual", relay |-> "inverse",
   search |-> "none", door |-> "locked"] }

\* The workers are interchangeable: the next-state relation and the invariants
\* name none.
WorkerSymmetry == Permutations(Worker)
==============================================================================
