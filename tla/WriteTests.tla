------------------------------ MODULE WriteTests -------------------------------
(***************************************************************************)
(* The tests that change the device and put it back, or take it down:      *)
(* cases/ptz.py, imaging.py, deviceio.py, doorcontrol.py, search.py,       *)
(* base.py and reboot.py, run by pytest-xdist workers that know nothing of *)
(* each other against one device.                                          *)
(*                                                                         *)
(* A test is a sequence of steps; a step is an exchange with the device,   *)
(* or a wait, and the code around it.  A step inside a try names the step  *)
(* that is its finally.  The workers interpret the scripts: what an        *)
(* exception, a fault, a Ctrl-C or a dying worker does at a step is the    *)
(* same for every test, and where it leads is the script's.                *)
(*                                                                         *)
(* The device is external: its traits, whether it heard a request whose    *)
(* answer was lost, when a motion ends, when it goes down and comes back,  *)
(* and which Hellos reach the listener.                                    *)
(***************************************************************************)
EXTENDS Integers, Sequences, FiniteSets, SequencesExt

CONSTANTS
  Worker,    \* the pytest-xdist workers
  Suite,     \* the tests selected, by the name of their function
  Devices,   \* the sets of traits a device may have
  Found,     \* the settings a run may find
  MaxTests,  \* bound: tests begun
  MaxFaults, \* bound: exchanges lost, Ctrl-Cs, workers that die
  MaxPolls,  \* bound: attempts of a recovery loop before its deadline
  MaxHellos  \* bound: Hellos the listener captures

\* In what a device can differ from one that does all it is asked, as asked.
Trait == {
  "ignores_writes",   \* answers a change of a setting and does not make it
  "refuses_put",      \* faults on it
  "no_readback",      \* faults when asked for a setting it has changed
  "ignores_restore",  \* answers when a setting is put back, and does not do it
  "refuses_restore",  \* faults on it
  "no_token",         \* opens a search, and does not say which
  "no_message",       \* accepts a reboot without the Message of its answer
  "ignores_stop",
  "ignores_timeout",  \* goes on moving when a timed move is over
  "no_status",        \* has no MoveStatus, and does not claim one
  "hides_status",     \* has no MoveStatus, though its capabilities claim it
  "narrow_range",     \* PTZTimeout allows one value only
  "takes_idle_words", \* accepts a relay's idle state for its logical state
  "no_door_command",  \* faults: the command is not supported
  "garbled_fault",    \* faults, in words the test does not know
  "no_focus",         \* faults on Move and Stop of the focus
  "slow_reboot",      \* still answers when the grace period is over
  "new_identity",     \* comes back as another device
  "no_epr",           \* its Hello names no endpoint
  "no_address" }      \* its Hello does not carry the address it was run with

Axis == {"PanTilt", "Zoom"}

\* The settings, each with the values it can have.
Values == [timeout |-> {"default", "min", "max"}, clock |-> {"NTP", "Manual"},
           relay |-> {"idle", "inverse"}, search |-> {"none", "open"},
           door |-> {"locked", "down"}]
Thing == DOMAIN Values

------------------------------------------------------------------------------
(***************************************************************************)
(* The scripts.  fin is the step an exception leads to, 0 for none;        *)
(* absorbs says what an except clause around the step makes of one.        *)
(***************************************************************************)
Step(do, on) == [do |-> do, on |-> on, fin |-> 0, absorbs |-> "nothing"]
InTry(step, fin) == [step EXCEPT !.fin = fin]
Absorbing(step, what) == [step EXCEPT !.absorbs = what]

Survey == Step("survey", "profiles")
Stop == Step("stop", "motor")

\* Mutant: the restore only if all went well.
TrustingConfiguration ==
  << Step("read", "timeout"), Step("put", "timeout"),
     Step("check", "timeout"), Step("restore", "timeout") >>

\* Mutant: nothing is read first.
BlindConfiguration ==
  << Survey, Step("put", "timeout"), Step("restore", "timeout") >>

\* PTZ-2-1-9: the change is made before the try.
SetConfiguration ==
  << Step("read", "timeout"), Step("put", "timeout"),
     InTry(Step("check", "timeout"), 4), Step("restore", "timeout") >>

\* PTZ-2-1-5.
Consistency == << Step("read", "timeout"), Step("same", "timeout") >>

\* PTZ-3-1-1: nobody waits for the head to arrive.
AbsoluteMove == << Survey, Step("goto", "PanTilt") >>

\* PTZ-3-1-3: a distance of zero.
RelativeMove == << Survey, Step("nudge", "motor") >>

\* Mutant: the Stop of a move that failed is not sent.
StopIfMoved ==
  << Survey, Step("move", "PanTilt"), Stop, Step("idle", "PanTilt"),
             Step("move", "Zoom"), Stop, Step("idle", "Zoom") >>

\* PTZ-3-1-5.
ContinuousMoveAndStop ==
  << Survey,
     InTry(Step("move", "PanTilt"), 3), Stop, Step("idle", "PanTilt"),
     InTry(Step("move", "Zoom"), 6), Stop, Step("idle", "Zoom") >>

\* Mutant: the Stop comes before the look.
StopThenLook ==
  << Survey, InTry(Step("timed", "PanTilt"), 4),
     InTry(Step("wait", "PanTilt"), 4), Stop, Step("idle", "PanTilt") >>

\* Mutant: the look comes before the move is over.
Hasty ==
  << Survey, InTry(Step("timed", "PanTilt"), 4),
     InTry(Step("idle", "PanTilt"), 4), Stop >>

\* PTZ-3-1-4.
ContinuousMoveTimeout ==
  << Survey,
     InTry(Step("timed", "PanTilt"), 5), InTry(Step("wait", "PanTilt"), 5),
     InTry(Step("idle", "PanTilt"), 5), Stop,
     InTry(Step("timed", "Zoom"), 9), InTry(Step("wait", "Zoom"), 9),
     InTry(Step("idle", "Zoom"), 9), Stop >>

\* PTZ-7-3-3, and PTZ-7-3-4 with the zoom: both ends of the range, one Stop.
GenericVelocity ==
  << Survey, InTry(Step("move", "PanTilt"), 4),
     InTry(Step("move", "PanTilt"), 4), Stop >>

\* GetMoveOptions: a device that faults, or an answer that is lost, skips.
FocusOptions == Absorbing(Survey, "skip")

\* IMAGING-2-1-3 and 2-1-5.
FocusTo == << Survey, FocusOptions, Step("focus", "lens") >>

\* IMAGING-2-1-7: the speed is 0.0, so nothing is left to stop.
FocusMove ==
  << Survey, FocusOptions, InTry(Step("focus", "lens"), 4),
     Step("focus", "lens") >>

\* IMAGING-2-1-13: a fault is as good as a response.
FocusStop == << Survey, Absorbing(Step("focus", "lens"), "fault") >>

\* DEVICE-3-1-11: the restore is not in a finally.
SetDateAndTime ==
  << Step("read", "clock"), Step("put", "clock"),
     Step("check", "clock"), Step("restore", "clock") >>

\* DEVICEIO-1-2-1: what is read, and restored, is the idle state.
RelayState ==
  << Step("read", "relay"), InTry(Step("put", "relay"), 3),
     Absorbing(Step("restore", "relay"), "all") >>

\* LOCAL-SEARCH-FIND-RECORDINGS-EMPTY-SCOPE: without a token there is nothing to
\* end the search with.
FindRecordings ==
  << Absorbing(Step("put", "search"), "skip"),
     Absorbing(Step("restore", "search"), "all") >>

\* DOORCONTROL-3-1-24: nothing undoes the command.
DoorCommand == << Survey, Step("command", "door") >>

\* Mutant: the recovery poll starts at once.
NoGrace == << Step("identify", "power"), Step("reboot", "message"),
              Step("poll", "power"), Step("compare", "power") >>

\* DEVICE-3-1-8: the answer to the request has a Message.
SystemReboot ==
  << Step("identify", "power"), Step("reboot", "message"),
     Step("grace", "power"), Step("poll", "power"), Step("compare", "power") >>

\* DISCOVERY-1-1-2.
HelloAfterReboot ==
  << Step("listen", "power"), Step("reboot", "power"),
     Step("grace", "power"), Step("await_hello", "power") >>

Script == [
  set_configuration |-> SetConfiguration, consistency |-> Consistency,
  absolute_move |-> AbsoluteMove, relative_move |-> RelativeMove,
  continuous_move_and_stop |-> ContinuousMoveAndStop,
  continuous_move_timeout |-> ContinuousMoveTimeout,
  generic_velocity |-> GenericVelocity, focus_to |-> FocusTo,
  focus_move |-> FocusMove, focus_stop |-> FocusStop, set_date_and_time |-> SetDateAndTime,
  relay_state |-> RelayState, find_recordings |-> FindRecordings,
  door_command |-> DoorCommand, system_reboot |-> SystemReboot,
  hello_after_reboot |-> HelloAfterReboot ]

\* A door faults in the words the test knows or in others.  The search is the one
\* a test opens: no run finds it open.
ASSUME WriteTestsAssumption ==
  /\ Suite \subseteq DOMAIN Script
  /\ \A d \in Devices :
       d \subseteq Trait /\ ~({"no_door_command", "garbled_fault"} \subseteq d)
  /\ \A s \in Found :
       /\ DOMAIN s = Thing /\ \A x \in Thing : s[x] \in Values[x]
       /\ s.search = "none"
  /\ MaxTests \in Nat /\ MaxFaults \in Nat /\ MaxHellos \in Nat
  /\ MaxPolls \in Nat \ {0}

------------------------------------------------------------------------------
VARIABLES
  traits,    \* external: the device's
  phase,     \* external: "up", "accepted" a reboot, or "down"
  identity,  \* external: what GetDeviceInformation says
  setting,   \* external: the device's settings
  motion,    \* external: of each axis
  began,     \* history: the settings the run found
  job,       \* each worker's test, the step it is at, its local variables
  fresh,     \* DISCOVERY-1-1-2: the device has answered after the reboot
  hellos,    \* DISCOVERY-1-1-2: what the listener's thread captured
  aborted,   \* Ctrl-C: no further test is started
  verdict,   \* each test's outcome
  mishaps,   \* history: <<test, step>> of exchanges that did not come through
  crashed,   \* history: tests a worker died in
  disturbed, \* history: tests whose subject another worker changed meanwhile
  wentDown,  \* history: tests whose reboot the device really went down for
  faults

outside == <<traits, began>>
box     == <<phase, identity, setting, motion>>
hello   == <<fresh, hellos>>
history == <<mishaps, crashed, disturbed, wentDown, faults>>
vars == <<outside, box, job, hello, aborted, verdict, history>>

NoJob == [test |-> "none", at |-> 0, pending |-> "none", saved |-> "none",
          tries |-> 0]

Init ==
  /\ traits \in Devices
  /\ phase = "up"
  /\ identity = "first"
  /\ setting \in Found
  /\ motion = [a \in Axis |-> "idle"]
  /\ began = setting
  /\ job = [w \in Worker |-> NoJob]
  /\ fresh = FALSE
  /\ hellos = <<>>
  /\ aborted = FALSE
  /\ verdict = [t \in Suite |-> "none"]
  /\ mishaps = {}
  /\ crashed = {}
  /\ disturbed = {}
  /\ wentDown = {}
  /\ faults = 0

Busy(w) == job[w] # NoJob
Now(w) == Script[job[w].test][job[w].at]

------------------------------------------------------------------------------
(***************************************************************************)
(* How a step leads to the next.                                           *)
(***************************************************************************)
End(w, outcome) ==
  /\ job' = [job EXCEPT ![w] = NoJob]
  /\ verdict' = [verdict EXCEPT ![job[w].test] = outcome]

\* The step went well, or an except clause made it so; after a finally the
\* exception that led there goes on.
Proceed(w, saved) ==
  IF job[w].pending # "none"
    THEN End(w, job[w].pending)
    ELSE IF job[w].at = Len(Script[job[w].test])
      THEN End(w, "passed")
      ELSE /\ job' = [job EXCEPT ![w].at = @ + 1, ![w].saved = saved]
           /\ UNCHANGED verdict

\* An except Exception sees neither a Ctrl-C nor, here, an assertion.
Caught(step, what) ==
  \/ step.absorbs \in {"all", "skip"} /\ what \in {"lost", "fault"}
  \/ step.absorbs = "fault" /\ what = "fault"

Raise(w, what) ==
  LET step == Now(w) IN
  CASE Caught(step, what) /\ step.absorbs = "skip" -> End(w, "skipped")
    [] Caught(step, what) /\ step.absorbs # "skip" -> Proceed(w, job[w].saved)
    [] OTHER ->
         IF step.fin = 0
           THEN End(w, "failed")
           ELSE /\ job' = [job EXCEPT ![w].at = step.fin,
                                      ![w].pending = "failed"]
                /\ UNCHANGED verdict

------------------------------------------------------------------------------
(***************************************************************************)
(* What an exchange does to the device, and what comes back.               *)
(***************************************************************************)
\* The value a put asks for.
Target(on, saved) ==
  CASE on = "timeout" ->
         IF saved = "max" /\ "narrow_range" \notin traits THEN "min" ELSE "max"
    [] on = "clock"  -> "Manual"
    [] on = "relay"  -> "inverse"
    [] on = "search" -> "open"

\* A GetRelayOutputs does not say in which state the relay is.
Shown(on) ==
  CASE on = "relay" -> "idle"
    [] on = "power" -> identity
    [] OTHER -> setting[on]

\* An answer, and nothing is changed.
Ignored(step) ==
  \/ "ignores_writes" \in traits
  \/ step.do = "restore" /\ "ignores_restore" \in traits

Written(step, saved) ==
  LET v == IF step.do = "put" THEN Target(step.on, saved)
           ELSE IF step.on = "search" THEN "none" ELSE saved
  IN  IF step.do = "command" THEN [setting EXCEPT !.door = "down"]
      ELSE IF step.do \in {"put", "restore"} /\ ~Ignored(step)
        THEN [setting EXCEPT ![step.on] = v]
        ELSE setting

Moved(step) ==
  CASE step.do = "move"  -> [motion EXCEPT ![step.on] = "endless"]
    [] step.do = "timed" -> [motion EXCEPT ![step.on] = "timed"]
    [] step.do = "goto"  -> [motion EXCEPT ![step.on] = "goto"]
    [] step.do = "stop" /\ "ignores_stop" \notin traits ->
         [a \in Axis |-> "idle"]
    [] OTHER -> motion

\* What a test is about, and what a step changes of it.
About(step) == IF step.on \in Axis THEN "motor" ELSE step.on
Subjects(t) == {About(Script[t][i]) : i \in DOMAIN Script[t]}
Changes(step) ==
  step.do \in {"put", "restore", "move", "timed", "goto", "stop", "command",
              "reboot"}

Disturbs(step, t) ==
  Changes(step) /\ (step.do = "reboot" \/ About(step) \in Subjects(t))

Disturb(w, step) ==
  disturbed' = disturbed \cup
    {job[v].test : v \in {u \in Worker \ {w} :
                           Busy(u) /\ Disturbs(step, job[u].test)}}

\* The device carries out the request.
Heard(w) ==
  LET step == Now(w) IN
  /\ setting' = Written(step, job[w].saved)
  /\ motion' = Moved(step)
  /\ phase' = IF step.do = "reboot" THEN "accepted" ELSE phase
  /\ Disturb(w, step)
  /\ UNCHANGED identity

\* A fault.
Refused(step) ==
  \/ step.do = "put" /\ "refuses_put" \in traits
  \/ step.do = "check" /\ "no_readback" \in traits
  \/ step.do = "restore" /\ "refuses_restore" \in traits
  \/ step.on = "relay" /\ step.do # "read" /\ "takes_idle_words" \notin traits
  \/ step.do = "focus" /\ "no_focus" \in traits
  \/ step.do = "command" /\ traits \cap {"no_door_command", "garbled_fault"} # {}

\* _assert_idle.
LooksIdle(axis) ==
  \/ "no_status" \in traits
  \/ "hides_status" \notin traits /\ motion[axis] = "idle"

\* What the test asserts of the response.
Holds(step, saved) ==
  CASE step.do = "check" -> Shown(step.on) = Target(step.on, saved)
    [] step.do \in {"same", "compare"} -> Shown(step.on) = saved
    [] step.do = "idle"  -> LooksIdle(step.on)
    [] step.do = "put"   -> step.on = "search" => "no_token" \notin traits
    [] step.do = "reboot" -> step.on = "message" => "no_message" \notin traits
    [] OTHER -> TRUE

\* Steps that are not one exchange.
Waits == {"listen", "wait", "grace", "poll", "await_hello"}

------------------------------------------------------------------------------
\* The dispatch loop begins a test.
Start(w, t) ==
  /\ ~Busy(w) /\ ~aborted
  /\ verdict[t] = "none"
  /\ Cardinality({u \in Suite : verdict[u] # "none"}) < MaxTests
  /\ job' = [job EXCEPT ![w] = [NoJob EXCEPT !.test = t, !.at = 1]]
  /\ verdict' = [verdict EXCEPT ![t] = "running"]
  /\ UNCHANGED <<outside, box, hello, aborted, history>>

\* An exchange that comes through.
Answered(w) ==
  /\ Busy(w) /\ Now(w).do \notin Waits
  /\ phase # "down"
  /\ LET step == Now(w) IN
       \/ /\ Refused(step)
          /\ IF "no_door_command" \in traits /\ step.do = "command"
               THEN Proceed(w, "none")
               ELSE Raise(w, "fault")
          /\ UNCHANGED <<box, disturbed>>
       \/ /\ ~Refused(step)
          /\ Heard(w)
          /\ IF Holds(step, job[w].saved)
               THEN Proceed(w, IF step.do \in {"read", "identify"}
                                 THEN Shown(step.on) ELSE job[w].saved)
               ELSE Raise(w, "assertion")
  /\ UNCHANGED <<outside, hello, aborted, mishaps, crashed, wentDown, faults>>

\* The first reads of a test show that the device does not offer what it needs; or
\* the listener's package is not installed.
SkipTest(w) ==
  /\ Busy(w)
  /\ \/ Now(w).do = "survey"
     \/ Now(w).do = "read" /\ job[w].test \in {"set_configuration", "relay_state"}
     \/ Now(w).do = "listen"
  /\ Now(w).do # "listen" => phase # "down"
  /\ End(w, "skipped")
  /\ UNCHANGED <<outside, box, hello, aborted, history>>

Mishap(w) == mishaps' = mishaps \cup {<<job[w].test, job[w].at>>}

Fault ==
  /\ faults < MaxFaults
  /\ faults' = faults + 1

MaybeHeard(w) ==
  \/ UNCHANGED <<box, disturbed>>
  \/ phase # "down" /\ ~Refused(Now(w)) /\ Heard(w)

\* An exchange is lost, on its way to the device or on its way back.
Lose(w) ==
  /\ Busy(w) /\ Now(w).do \notin Waits
  /\ Fault
  /\ MaybeHeard(w)
  /\ Mishap(w)
  /\ Raise(w, "lost")
  /\ UNCHANGED <<outside, hello, aborted, crashed, wentDown>>

\* Ctrl-C, in an exchange or in a wait.
Interrupt(w) ==
  /\ Busy(w)
  /\ Fault
  /\ aborted' = TRUE
  /\ MaybeHeard(w)
  /\ Mishap(w)
  /\ Raise(w, "interrupt")
  /\ UNCHANGED <<outside, hello, crashed, wentDown>>

\* The device is away.
Unreachable(w) ==
  /\ Busy(w) /\ Now(w).do \notin Waits
  /\ phase = "down"
  /\ Mishap(w)
  /\ Raise(w, "lost")
  /\ UNCHANGED <<outside, box, hello, aborted, crashed, disturbed, wentDown,
                 faults>>

\* The worker dies: no finally runs.  pytest-xdist starts another.
Crash(w) ==
  /\ Busy(w)
  /\ Fault
  /\ crashed' = crashed \cup {job[w].test}
  /\ End(w, "crashed")
  /\ UNCHANGED <<outside, box, hello, aborted, mishaps, disturbed, wentDown>>

------------------------------------------------------------------------------
\* time.sleep until a timed move is over, with a second to spare.
Wait(w) ==
  /\ Busy(w) /\ Now(w).do = "wait"
  /\ motion[Now(w).on] = "timed" => "ignores_timeout" \in traits
  /\ Proceed(w, job[w].saved)
  /\ UNCHANGED <<outside, box, hello, aborted, history>>

\* The three seconds of grace, in which a device that is not slow goes down.
Grace(w) ==
  /\ Busy(w) /\ Now(w).do = "grace"
  /\ phase = "accepted" => "slow_reboot" \in traits
  /\ Proceed(w, job[w].saved)
  /\ UNCHANGED <<outside, box, hello, aborted, history>>

\* The WS-Discovery listener is armed.
Listen(w) ==
  /\ Busy(w) /\ Now(w).do = "listen"
  /\ Proceed(w, "none")
  /\ UNCHANGED <<outside, box, hello, aborted, history>>

\* One more attempt without success; the last one is followed by the deadline.
TryAgain(w, atDeadline) ==
  \/ /\ job[w].tries + 1 < MaxPolls
     /\ job' = [job EXCEPT ![w].tries = @ + 1]
     /\ UNCHANGED <<verdict, mishaps>>
  \/ /\ job[w].tries + 1 = MaxPolls
     /\ Mishap(w)
     /\ atDeadline

\* An attempt of _wait_for_recovery: anything but an answer is "still down".
Poll(w) ==
  /\ Busy(w) /\ Now(w).do = "poll"
  /\ \/ /\ phase # "down"
        /\ Proceed(w, job[w].saved)
        /\ UNCHANGED mishaps
     \/ TryAgain(w, Raise(w, "assertion"))
  /\ UNCHANGED <<outside, box, hello, aborted, crashed, disturbed, wentDown,
                 faults>>

\* The address of the run is a part of the Hello's, as a string.
Matches(h) ==
  h = "lookalike" \/ (h = "own" /\ "no_address" \notin traits)

\* The first match decides.
HelloIsGood ==
  \E i \in DOMAIN hellos :
    /\ Matches(hellos[i])
    /\ \A j \in 1..i-1 : ~Matches(hellos[j])
    /\ hellos[i] = "own" => "no_epr" \notin traits

JudgeHellos(w) ==
  IF HelloIsGood THEN Proceed(w, job[w].saved) ELSE Raise(w, "assertion")

\* A turn of the loop of DISCOVERY-1-1-2: it ends with an answer and a Hello,
\* anybody's, or with the deadline.
AwaitHello(w) ==
  /\ Busy(w) /\ Now(w).do = "await_hello"
  /\ fresh' \in {fresh} \cup {phase # "down"}
  /\ fresh => fresh'
  /\ IF fresh' /\ hellos # <<>>
       THEN JudgeHellos(w) /\ UNCHANGED mishaps
       ELSE TryAgain(w, IF fresh' THEN End(w, "skipped")
                                  ELSE Raise(w, "assertion"))
  /\ UNCHANGED <<outside, box, hellos, aborted, crashed, disturbed, wentDown,
                 faults>>

------------------------------------------------------------------------------
(***************************************************************************)
(* The device and the network, in their own time.                          *)
(***************************************************************************)
MotionEnds(a) ==
  /\ motion[a] = "goto" \/ (motion[a] = "timed" /\ "ignores_timeout" \notin traits)
  /\ motion' = [motion EXCEPT ![a] = "idle"]
  /\ UNCHANGED <<outside, phase, identity, setting, job, hello, aborted,
                 verdict, history>>

\* Past its SystemReboot.
Asked(w) ==
  Busy(w) /\ \E i \in 1..(job[w].at - 1) : Script[job[w].test][i].do = "reboot"

\* What was not made persistent is lost, or not.
GoDown ==
  /\ phase = "accepted"
  /\ phase' = "down"
  /\ motion' = [a \in Axis |-> "idle"]
  /\ \E t \in {setting.timeout, began.timeout} :
       setting' = [setting EXCEPT !.timeout = t, !.search = "none"]
  /\ wentDown' = wentDown \cup {job[w].test : w \in {v \in Worker : Asked(v)}}
  /\ disturbed' = disturbed \cup
       {job[w].test : w \in {v \in Worker : Busy(v) /\ ~Asked(v)}}
  /\ UNCHANGED <<outside, identity, job, hello, aborted, verdict, mishaps,
                 crashed, faults>>

Listening == \E w \in Worker :
  Busy(w) /\ job[w].test = "hello_after_reboot" /\ job[w].at > 1

Captures(kind) ==
  /\ Listening
  /\ Len(hellos) < MaxHellos
  /\ hellos' = Append(hellos, kind)

\* The device is back; its Hello may be lost.
ComeUp ==
  /\ phase = "down"
  /\ phase' = "up"
  /\ identity' = IF "new_identity" \in traits /\ identity = "first"
                   THEN "second" ELSE "first"
  /\ Captures("own") \/ UNCHANGED hellos
  /\ UNCHANGED <<outside, setting, motion, job, fresh, aborted, verdict, history>>

\* Another device on the network says Hello; one may have an address of which
\* this device's is a part.
ForeignHello ==
  /\ \E kind \in {"foreign", "lookalike"} : Captures(kind)
  /\ UNCHANGED <<outside, box, job, fresh, aborted, verdict, history>>

Over ==
  /\ \A w \in Worker : ~Busy(w)
  /\ \/ aborted
     \/ Cardinality({u \in Suite : verdict[u] # "none"}) = MaxTests
     \/ \A t \in Suite : verdict[t] # "none"

Terminated == Over /\ UNCHANGED vars

Next ==
  \/ \E w \in Worker, t \in Suite : Start(w, t)
  \/ \E w \in Worker :
       \/ Answered(w) \/ SkipTest(w) \/ Lose(w) \/ Interrupt(w)
       \/ Unreachable(w) \/ Crash(w) \/ Wait(w) \/ Grace(w) \/ Listen(w)
       \/ Poll(w) \/ AwaitHello(w)
  \/ \E a \in Axis : MotionEnds(a)
  \/ GoDown
  \/ ComeUp
  \/ ForeignHello
  \/ Terminated

Spec == Init /\ [][Next]_vars

------------------------------------------------------------------------------
DeviceOK ==
  /\ traits \in Devices
  /\ phase \in {"up", "accepted", "down"}
  /\ identity \in {"first", "second"}
  /\ DOMAIN setting = Thing /\ \A x \in Thing : setting[x] \in Values[x]
  /\ DOMAIN began = Thing /\ \A x \in Thing : began[x] \in Values[x]
  /\ motion \in [Axis -> {"idle", "goto", "timed", "endless"}]

JobOK(j) ==
  \/ j = NoJob
  \/ /\ j.test \in Suite
     /\ j.at \in DOMAIN Script[j.test]
     /\ j.pending \in {"none", "failed"}
     /\ j.tries \in 0..MaxPolls-1

RecordOK ==
  /\ verdict \in [Suite -> {"none", "running", "passed", "failed", "skipped",
                            "crashed"}]
  /\ crashed \cup disturbed \cup wentDown \subseteq Suite
  /\ \A m \in mishaps : m[1] \in Suite /\ m[2] \in DOMAIN Script[m[1]]
  /\ aborted \in BOOLEAN /\ fresh \in BOOLEAN
  /\ hellos \in Seq({"own", "foreign", "lookalike"}) /\ Len(hellos) <= MaxHellos
  /\ faults \in 0..MaxFaults

TypeOK == DeviceOK /\ (\A w \in Worker : JobOK(job[w])) /\ RecordOK

------------------------------------------------------------------------------
AllQuiet == \A w \in Worker : ~Busy(w)

\* The steps at which something did not come through.
MishapSteps == {Script[m[1]][m[2]] : m \in mishaps}

\* Why a setting stays as a test has left it: the device does not put it back,
\* though asked to; it opened a search without saying which (search.py:75-76); or
\* the exchange that sets or restores it did not come through, or the worker
\* died.  The restore of the clock is in no finally (base.py:547-567): a readback
\* that fails is an excuse there.
LeftBehind(x) ==
  \/ traits \cap {"refuses_restore", "ignores_restore"} # {}
  \/ x = "search" /\ "no_token" \in traits
  \/ x = "clock" /\ "no_readback" \in traits
  \/ \E step \in MishapSteps :
       /\ step.on = x
       /\ step.do \in {"put", "restore"} \/ (x = "clock" /\ step.do = "check")
  \/ \E t \in crashed : x \in Subjects(t)

\* Once no test is running every setting is as the run found it, except for these
\* reasons: what is lost in between, a fault on the readback, or what the test
\* says of the device, is none where the restore is in a finally
\* (ptz.py:464-469, deviceio.py:104-111).  A relay ends in its idle state,
\* whatever it was in, and a door stays as it was told to be.
SettingsPutBack ==
  AllQuiet => \A x \in Thing \ {"door"} :
    \/ setting[x] = began[x]
    \/ x = "relay" /\ setting.relay = "idle"
    \/ LeftBehind(x)

\* Once no test is running no axis is, unless a Stop did not come through, the
\* device does not obey it, or a worker died on the move (ptz.py:165-169,
\* 499-504, 533-543): whatever else is lost, and whichever worker started it.
MotorsStop ==
  AllQuiet => \A a \in Axis :
    motion[a] \in {"endless", "timed"} =>
      \/ "ignores_stop" \in traits
      \/ \E step \in MishapSteps : step.do = "stop"
      \/ \E t \in crashed : "motor" \in Subjects(t)

\* The traits a test is there to find.
Defects(t) ==
  CASE t \in {"set_configuration", "set_date_and_time"} ->
         {"ignores_writes", "refuses_put", "no_readback", "refuses_restore"}
    [] t = "relay_state" -> {"refuses_put"}
    [] t = "find_recordings" -> {"no_token"}
    [] t = "continuous_move_and_stop" -> {"ignores_stop", "hides_status"}
    [] t = "continuous_move_timeout"  -> {"ignores_timeout", "hides_status"}
    [] t \in {"focus_to", "focus_move"} -> {"no_focus"}
    [] t = "door_command" -> {"garbled_fault"}
    [] t = "system_reboot" -> {"new_identity", "no_message"}
    [] t = "hello_after_reboot" -> {"no_epr", "no_address"}
    [] OTHER -> {}

\* The listener heard others, and not this device.
OnlyStrangers == hellos # <<>> /\ "own" \notin ToSet(hellos)

\* A test fails because of the device, or because an exchange of its own did not
\* come through, or because another worker's test changed what it was looking
\* at: PTZ-2-1-5 beside PTZ-2-1-9, or two tests on one motor (ptz.py:273-287,
\* 356-360).  Two tests can fail on a device without fault: DEVICEIO-1-2-1,
\* which sends a relay's idle state for its logical state (deviceio.py:102-105),
\* and DISCOVERY-1-1-2, which is content with anybody's Hello and then holds it
\* against the device (reboot.py:169-202).
FailureIsEarned ==
  \A t \in Suite : verdict[t] = "failed" =>
    \/ \E m \in mishaps : m[1] = t
    \/ t \in disturbed
    \/ traits \cap Defects(t) # {}
    \/ t = "relay_state" /\ "takes_idle_words" \notin traits
    \/ t = "hello_after_reboot" /\ OnlyStrangers

\* The defects that are hidden from the test that looks for them.
Hidden(t) ==
  CASE t = "set_configuration" /\ "narrow_range" \in traits
         /\ began.timeout = "max" -> {"ignores_writes"}
    [] t = "set_date_and_time" /\ began.clock = "Manual" -> {"ignores_writes"}
    [] t \in {"continuous_move_and_stop", "continuous_move_timeout"}
         /\ "no_status" \in traits -> Defects(t)
    [] t = "system_reboot" /\ "slow_reboot" \in traits -> {"new_identity"}
    [] t = "hello_after_reboot" /\ "lookalike" \in ToSet(hellos) -> Defects(t)
    [] OTHER -> {}

\* A pass is the device's own doing: a test that nobody disturbed passes only on
\* a device that has none of the traits it looks for, whatever was lost, except
\* where the device gives it nothing to look at, or DEVICE-3-1-8 looks before it
\* is down; and DISCOVERY-1-1-2 only on a Hello that carries the device's address,
\* as a part of one at least (ptz.py:273-287, 464-469; reboot.py:86-96, 190-202).
PassIsEarned ==
  \A t \in Suite : verdict[t] = "passed" /\ t \notin disturbed =>
    /\ traits \cap Defects(t) \subseteq Hidden(t)
    /\ t = "hello_after_reboot" =>
         ToSet(hellos) \cap {"own", "lookalike"} # {}

\* A reboot test that passes has seen its reboot: the device that goes down
\* within the grace period went down after this request and came back, even
\* when another worker rebooted it too (reboot.py:84-89, 154-172).
RecoveredMeansRebooted ==
  \A t \in Suite \cap {"system_reboot", "hello_after_reboot"} :
    verdict[t] = "passed" /\ "slow_reboot" \notin traits => t \in wentDown
==============================================================================
