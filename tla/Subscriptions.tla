---------------------------- MODULE Subscriptions ----------------------------
(***************************************************************************)
(* The event subscriptions a session opens on the device: PullPointHandle  *)
(* and NotifyHandle of runtime/dut.py, the session's list of live handles, *)
(* the tests of cases/event.py that open them, and the session teardown.   *)
(*                                                                         *)
(* A subscription exists on the device from the moment the device handles  *)
(* the create request.  The client knows of it only once the response is   *)
(* back and the handle has registered itself, which it does last, and      *)
(* forgets it at the first Unsubscribe, whatever comes of that.            *)
(*                                                                         *)
(* The device is external: whether it names the subscription's address,    *)
(* whether it acknowledges an Unsubscribe and acts on it, when a           *)
(* subscription expires, and which exchanges are lost.                     *)
(***************************************************************************)
EXTENDS Integers, Sequences, SequencesExt

CONSTANTS
  Handle,      \* the subscriptions tests try to open, one per test
  NoHandle,    \* no test is running
  MaxFailures  \* bound: exchanges that fail in transport

ASSUME SubscriptionsAssumption ==
  /\ NoHandle \notin Handle
  /\ MaxFailures \in Nat

VARIABLES
  device,        \* external: the device's policy
  onDevice,      \* external: each subscription on the device
  alive,         \* handles whose _alive is True
  subscriptions, \* DUTSession.subscriptions
  pc,            \* where the session is
  current,       \* the handle of the test that is running
  todo,          \* the rest of what teardown_subscriptions iterates
  aborted,       \* Ctrl-C: no further test is started
  verdict,       \* each test's outcome
  answer,        \* history: what became of each handle's Unsubscribe
  lost,          \* history: handles one of whose exchanges was lost
  failures

client  == <<alive, subscriptions>>
control == <<pc, current, todo, aborted>>
outside == <<device, onDevice>>
history == <<answer, lost, failures>>
vars == <<outside, client, control, verdict, history>>

\* external: does it destroy what it is asked to, say so, and name the
\* subscription's address?
Policy == [destroys : BOOLEAN, acks : BOOLEAN, address : BOOLEAN]

Unanswered == "none"   \* no Unsubscribe was sent

Init ==
  /\ device \in Policy
  /\ onDevice = [h \in Handle |-> "never"]
  /\ alive = {}
  /\ subscriptions = <<>>
  /\ pc = "idle"
  /\ current = NoHandle
  /\ todo = <<>>
  /\ aborted = FALSE
  /\ verdict = [h \in Handle |-> "none"]
  /\ answer = [h \in Handle |-> Unanswered]
  /\ lost = {}
  /\ failures = 0

Lose(h) ==
  /\ failures < MaxFailures
  /\ failures' = failures + 1
  /\ lost' = lost \cup {h}

\* The test ends: control is back at the dispatch loop.
EndTest(h, outcome) ==
  /\ pc' = "idle"
  /\ current' = NoHandle
  /\ verdict' = [verdict EXCEPT ![h] = outcome]

\* Mutant: the handle is registered before it has an address to talk to.
Opened(h) ==
  /\ alive' = alive \cup {h}
  /\ UNCHANGED subscriptions

\* The last lines of both constructors.
Registered(h) ==
  /\ alive' = alive \cup {h}
  /\ subscriptions' = Append(subscriptions, h)

\* create_pullpoint or create_notify_subscription, and the handle made from
\* the response; style says whether the test opens it in a with block.
Subscribe(h, style) ==
  /\ pc = "idle" /\ ~aborted
  /\ verdict[h] = "none"
  /\ \/ /\ onDevice' = onDevice              \* refused, or the request is lost
        /\ EndTest(h, "failed")
        /\ UNCHANGED <<client, lost, failures>>
     \/ /\ onDevice' = [onDevice EXCEPT ![h] = "live"]
        /\ Lose(h)                           \* the response is lost
        /\ EndTest(h, "failed")
        /\ UNCHANGED client
     \/ /\ onDevice' = [onDevice EXCEPT ![h] = "live"]
        /\ ~device.address                   \* the constructor raises
        /\ EndTest(h, "failed")
        /\ UNCHANGED <<client, lost, failures>>
     \/ /\ onDevice' = [onDevice EXCEPT ![h] = "live"]
        /\ device.address
        /\ Registered(h)
        /\ pc' = style
        /\ current' = h
        /\ UNCHANGED <<verdict, lost, failures>>
  /\ UNCHANGED <<device, todo, aborted, answer>>

\* The body of the with block ends, by an assertion, a fault or a lost
\* exchange, or well; either way __exit__ is next.
BodyEnds(outcome) ==
  /\ pc = "with"
  /\ pc' = "exit"
  /\ verdict' = [verdict EXCEPT ![current] = outcome]
  /\ UNCHANGED <<outside, client, current, todo, aborted, history>>

\* Ctrl-C between two exchanges: __exit__ still runs, a test without a with
\* block just stops, and a teardown leaves the rest of its list.
Interrupt ==
  /\ pc \in {"with", "explicit", "followup", "teardown"}
  /\ aborted' = TRUE
  /\ CASE pc = "with" ->
            /\ pc' = "exit"
            /\ verdict' = [verdict EXCEPT ![current] = "failed"]
            /\ UNCHANGED current
       [] pc = "teardown" ->
            /\ pc' = "done"
            /\ UNCHANGED <<current, verdict>>
       [] OTHER -> EndTest(current, "failed")
  /\ UNCHANGED <<outside, client, todo, history>>

\* Ctrl-C while the create request is out: nothing was registered.
InterruptSubscribe(h) ==
  /\ pc = "idle" /\ ~aborted
  /\ verdict[h] = "none"
  /\ onDevice' = [onDevice EXCEPT ![h] = "live"]
  /\ aborted' = TRUE
  /\ lost' = lost \cup {h}
  /\ EndTest(h, "failed")
  /\ UNCHANGED <<device, client, todo, answer, failures>>

\* Mutant: a failed Unsubscribe leaves the handle where it was.
KeepOnFailure(h, reply) ==
  /\ alive' = IF reply = "ack" THEN alive \ {h} ELSE alive
  /\ subscriptions' = IF reply = "ack"
                        THEN RemoveFirst(subscriptions, h)
                        ELSE subscriptions

\* Mutant: only the flag is cleared.
FlagOnly(h, reply) ==
  /\ alive' = alive \ {h}
  /\ UNCHANGED subscriptions

\* The finally of unsubscribe(), whatever the device replied.
Forget(h, reply) ==
  /\ alive' = alive \ {h}
  /\ subscriptions' = RemoveFirst(subscriptions, h)

\* What the device makes of an Unsubscribe it hears.
Heard(h) ==
  onDevice' = [onDevice EXCEPT
                 ![h] = IF @ = "live" /\ device.destroys THEN "gone" ELSE @]

Reply(h) == IF onDevice[h] = "live" /\ device.acks THEN "ack" ELSE "fault"

\* unsubscribe() of a handle: nothing if it is not alive, else one exchange,
\* whose failure it swallows.
Unsubscribe(h) ==
  \/ /\ h \notin alive
     /\ UNCHANGED <<onDevice, client, history>>
  \/ /\ h \in alive
     /\ \E reply \in {"ack", "fault", "lost"} :
          /\ Forget(h, reply)
          /\ answer' = [answer EXCEPT ![h] = reply]
          /\ \/ /\ reply = Reply(h)
                /\ Heard(h)
                /\ UNCHANGED <<lost, failures>>
             \/ /\ reply = "lost"
                /\ Lose(h)
                /\ Heard(h) \/ UNCHANGED onDevice

\* PullPointHandle.__exit__ and NotifyHandle.__exit__.
ExitWith ==
  /\ pc = "exit"
  /\ Unsubscribe(current)
  /\ pc' = "idle"
  /\ current' = NoHandle
  /\ UNCHANGED <<device, todo, aborted, verdict>>

\* Ctrl-C while an Unsubscribe of a test is out: no except clause sees it, but
\* the finally does.
InterruptUnsubscribe ==
  /\ pc \in {"exit", "explicit"}
  /\ current \in alive
  /\ Forget(current, "lost")
  /\ answer' = [answer EXCEPT ![current] = "lost"]
  /\ lost' = lost \cup {current}
  /\ Heard(current) \/ UNCHANGED onDevice
  /\ aborted' = TRUE
  /\ EndTest(current, "failed")
  /\ UNCHANGED <<device, todo, failures>>

\* EVENT-3-1-36 and EVENT-2-1-28, up to the follow-up request.
ExplicitUnsubscribe ==
  /\ pc = "explicit"
  /\ Unsubscribe(current)
  /\ pc' = "followup"
  /\ UNCHANGED <<device, current, todo, aborted, verdict>>

\* Mutant: the follow-up request must succeed.
Inverted(raised) == IF raised THEN "failed" ELSE "passed"

\* with pytest.raises(Exception).
Raises(raised) == IF raised THEN "passed" ELSE "failed"

\* The request that must fault on the destroyed subscription; a lost exchange
\* raises as well.
FollowUp ==
  /\ pc = "followup"
  /\ \/ /\ EndTest(current, Raises(onDevice[current] # "live"))
        /\ UNCHANGED <<lost, failures>>
     \/ /\ Lose(current)
        /\ EndTest(current, Raises(TRUE))
  /\ UNCHANGED <<outside, client, todo, aborted, answer>>

\* external: a termination time passes, or the device reboots.
Expire(h) ==
  /\ onDevice[h] = "live"
  /\ onDevice' = [onDevice EXCEPT ![h] = "gone"]
  /\ UNCHANGED <<device, client, control, verdict, history>>

\* Mutant: the session ends with nobody looking at the list.
NothingLeft == <<>>

\* Mutant: only the handle of the last test.
LastHandle == <<current>>

\* What teardown_subscriptions iterates: a copy of the list.
LeftOver == subscriptions

\* The dut fixture's last lines, once the tests are over.
Teardown ==
  /\ pc = "idle"
  /\ pc' = "teardown"
  /\ todo' = LeftOver
  /\ UNCHANGED <<outside, client, current, aborted, verdict, history>>

TeardownNext ==
  /\ pc = "teardown"
  /\ IF todo # <<>>
       THEN /\ Unsubscribe(Head(todo))
            /\ todo' = Tail(todo)
            /\ UNCHANGED pc
       ELSE /\ pc' = "done"
            /\ UNCHANGED <<onDevice, client, todo, history>>
  /\ UNCHANGED <<device, current, aborted, verdict>>

Terminated ==
  /\ pc = "done"
  /\ UNCHANGED vars

Next ==
  \/ \E h \in Handle, style \in {"with", "explicit"} : Subscribe(h, style)
  \/ \E outcome \in {"passed", "failed"} : BodyEnds(outcome)
  \/ Interrupt
  \/ \E h \in Handle : InterruptSubscribe(h)
  \/ InterruptUnsubscribe
  \/ ExitWith
  \/ ExplicitUnsubscribe
  \/ FollowUp
  \/ \E h \in Handle : Expire(h)
  \/ Teardown
  \/ TeardownNext
  \/ Terminated

Spec == Init /\ [][Next]_vars

------------------------------------------------------------------------------
DeviceOK ==
  /\ device \in Policy
  /\ onDevice \in [Handle -> {"never", "live", "gone"}]

ClientOK ==
  /\ alive \in SUBSET Handle
  /\ subscriptions \in Seq(Handle)

ControlOK ==
  /\ pc \in {"idle", "with", "exit", "explicit", "followup", "teardown", "done"}
  /\ current \in Handle \cup {NoHandle}
  /\ todo \in Seq(Handle)
  /\ aborted \in BOOLEAN

RecordOK ==
  /\ verdict \in [Handle -> {"none", "passed", "failed"}]
  /\ answer \in [Handle -> {Unanswered, "ack", "fault", "lost"}]
  /\ lost \in SUBSET Handle
  /\ failures \in 0..MaxFailures

TypeOK == DeviceOK /\ ClientOK /\ ControlOK /\ RecordOK

\* The session's list is exactly the handles that still have an Unsubscribe to
\* send, each once: the teardown, which sees nothing else, can miss none and
\* has none to skip (dut.py:167, 188-190).
ListIsLive ==
  /\ ToSet(subscriptions) = alive
  /\ IsInjective(subscriptions)

\* When the session is over, its teardown not cut short by a Ctrl-C, every
\* handle it ever held has sent its one Unsubscribe, whether its test passed,
\* failed or was interrupted, and whatever became of the Unsubscribe before it
\* in the list (dut.py:679-680).
TeardownMissesNone ==
  pc = "done" /\ todo = <<>> =>
    /\ subscriptions = <<>>
    /\ \A h \in Handle :
         onDevice[h] # "never" /\ h \notin lost /\ device.address
           => answer[h] # Unanswered

\* "A test crash never leaves dangling subscriptions on the device"
\* (dut.py:85-88), where the code can keep it: what is still on the device
\* after the session is there because an exchange was lost or interrupted, or
\* because the device never said where to unsubscribe or did not act on it.
DanglingIsExcused ==
  pc = "done" /\ todo = <<>> =>
    \A h \in Handle :
      onDevice[h] = "live" => h \in lost \/ ~device.address \/ ~device.destroys

\* A subscription is unsubscribed once: no step sends a second Unsubscribe for
\* one that was already answered, lost or refused, from the with block, the
\* test itself or the teardown (dut.py:181, 188).
UnsubscribedOnce ==
  [][\A h \in Handle : answer[h] # Unanswered => answer'[h] = answer[h]]_vars

\* EVENT-3-1-36 and EVENT-2-1-28 blame the device only for what it did: no
\* exchange of theirs lost, nobody interrupting, they fail only on a device that keeps what it is
\* told to destroy, and pass only when the subscription is gone
\* (event.py:186-189, 212-217).
FollowUpIsFair ==
  [][\A h \in Handle :
       pc = "followup" /\ current = h /\ current' = NoHandle
         /\ h \notin lost' /\ ~aborted'
         => IF verdict'[h] = "failed"
              THEN ~device.destroys
              ELSE onDevice[h] # "live"]_vars

\* "Explicit Unsubscribe must succeed for a freshly-created subscription"
\* (event.py:207): the test that says so goes on to its follow-up request only
\* when the device acknowledged it.  The code does not keep it: unsubscribe()
\* swallows a fault.
UnsubscribeMustSucceed == pc = "followup" => answer[current] = "ack"
==============================================================================
