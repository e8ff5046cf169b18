------------------------- MODULE SubscriptionsProofs -------------------------
(***************************************************************************)
(* Theorems of Subscriptions, for any number of tests and lost exchanges.  *)
(* The list the teardown walks is shown to be the set of handles that have *)
(* an Unsubscribe to send; the rest follows from what an Unsubscribe, or   *)
(* the exchange lost instead of it, leaves behind.                         *)
(***************************************************************************)
EXTENDS Subscriptions, SequenceTheorems, TLAPS

\* What is in the list after a handle has been removed from it.
LEMMA RemoveFirstFromInjective ==
  ASSUME NEW S, NEW s \in Seq(S), NEW e, IsInjective(s)
  PROVE  /\ RemoveFirst(s, e) \in Seq(S)
         /\ ToSet(RemoveFirst(s, e)) = ToSet(s) \ {e}
         /\ IsInjective(RemoveFirst(s, e))
<1> DEFINE I == {i \in 1..Len(s) : s[i] = e}
<1>1. CASE I = {}
  <2>1. RemoveFirst(s, e) = s
    BY <1>1 DEF RemoveFirst
  <2> QED
    BY <1>1, <2>1 DEF ToSet
<1>2. ASSUME NEW k \in I
      PROVE  /\ RemoveFirst(s, e) \in Seq(S)
             /\ ToSet(RemoveFirst(s, e)) = ToSet(s) \ {e}
             /\ IsInjective(RemoveFirst(s, e))
  <2>1. I = {k}
    BY <1>2 DEF IsInjective
  <2>2. SelectInSeq(s, LAMBDA v : v = e) = k
    BY <2>1 DEF SelectInSeq, Min
  <2>3. RemoveFirst(s, e) = SubSeq(s, 1, k - 1) \o SubSeq(s, k + 1, Len(s))
    BY <1>2, <2>2 DEF RemoveFirst, RemoveAt
  <2> DEFINE r == RemoveFirst(s, e)
             From(i) == IF i < k THEN i ELSE i + 1
  <2>4. /\ r \in Seq(S)
        /\ Len(r) = Len(s) - 1
        /\ \A i \in 1..Len(r) : r[i] = s[From(i)]
    <3> DEFINE p == SubSeq(s, 1, k - 1)
               q == SubSeq(s, k + 1, Len(s))
    <3>1. k \in 1..Len(s)
      BY <1>2
    <3>2. /\ p \in Seq(S) /\ Len(p) = k - 1
          /\ \A i \in 1..(k - 1) : p[i] = s[i]
      BY <3>1
    <3>3. /\ q \in Seq(S) /\ Len(q) = Len(s) - k
          /\ \A i \in 1..(Len(s) - k) : q[i] = s[i + k]
      BY <3>1
    <3> HIDE DEF p, q
    <3>4. /\ p \o q \in Seq(S) /\ Len(p \o q) = Len(s) - 1
          /\ \A i \in 1..(Len(s) - 1) : (p \o q)[i] = s[From(i)]
      <4>1. /\ p \o q \in Seq(S) /\ Len(p \o q) = Len(p) + Len(q)
            /\ \A i \in 1..(Len(p) + Len(q)) :
                 (p \o q)[i] = IF i <= Len(p) THEN p[i] ELSE q[i - Len(p)]
        BY <3>2, <3>3, ConcatProperties
      <4>2. Len(p) + Len(q) = Len(s) - 1
        BY <3>1, <3>2, <3>3
      <4>3. ASSUME NEW i \in 1..(Len(s) - 1)
            PROVE  (p \o q)[i] = s[From(i)]
        <5>1. CASE i < k
          BY <3>1, <3>2, <4>1, <4>2, <5>1
        <5>2. CASE i >= k
          <6>1. /\ i - Len(p) \in 1..(Len(s) - k)
                /\ (p \o q)[i] = q[i - Len(p)]
            BY <3>1, <3>2, <4>1, <4>2, <5>2
          <6>2. (i - Len(p)) + k = i + 1
            BY <3>1, <3>2
          <6>3. q[i - Len(p)] = s[(i - Len(p)) + k]
            BY <3>3, <6>1
          <6>4. From(i) = i + 1
            BY <3>1, <5>2
          <6> QED
            BY <6>1, <6>2, <6>3, <6>4
        <5>3. i < k \/ i >= k
          BY <3>1
        <5> QED
          BY <5>1, <5>2, <5>3
      <4> QED
        BY <4>1, <4>2, <4>3
    <3> QED
      BY <2>3, <3>4 DEF p, q
  <2> HIDE DEF r
  <2>5. /\ k \in 1..Len(s) /\ s[k] = e
        /\ DOMAIN s = 1..Len(s) /\ DOMAIN r = 1..(Len(s) - 1)
    BY <1>2, <2>4
  <2>6. \A i \in 1..Len(r) : From(i) \in 1..Len(s) /\ From(i) # k
    BY <2>4, <2>5
  <2>7. \A j \in 1..Len(s) : j # k => \E i \in 1..Len(r) : From(i) = j
    <3> SUFFICES ASSUME NEW j \in 1..Len(s), j # k
                 PROVE  \E i \in 1..Len(r) : From(i) = j
      OBVIOUS
    <3>1. CASE j < k
      <4>1. j \in 1..Len(r) /\ From(j) = j
        BY <2>4, <2>5, <3>1
      <4> QED
        BY <4>1
    <3>2. CASE j > k
      <4>1. j - 1 \in 1..Len(r) /\ From(j - 1) = j
        BY <2>4, <2>5, <3>2
      <4> QED
        BY <4>1
    <3> QED
      BY <2>5, <3>1, <3>2
  <2>8. \A i, j \in 1..Len(r) : From(i) = From(j) => i = j
    BY <2>4, <2>5
  <2> HIDE DEF From
  <2>9. IsInjective(r)
    BY <2>4, <2>5, <2>6, <2>8 DEF IsInjective
  <2>10. ToSet(r) = ToSet(s) \ {e}
    <3>1. \A j \in 1..Len(s) : j # k => s[j] # e
      BY <2>5 DEF IsInjective
    <3>2. \A i \in DOMAIN r : r[i] \in ToSet(s) \ {e}
      BY <2>4, <2>5, <2>6, <3>1 DEF ToSet
    <3>3. \A j \in DOMAIN s : s[j] # e => s[j] \in ToSet(r)
      BY <2>4, <2>5, <2>7 DEF ToSet
    <3> QED
      BY <3>2, <3>3 DEF ToSet
  <2> QED
    BY <2>4, <2>9, <2>10 DEF r
<1> QED
  BY <1>1, <1>2

\* What is put in the list after its handle has been built.
LEMMA AppendToInjective ==
  ASSUME NEW S, NEW s \in Seq(S), NEW e \in S, IsInjective(s), e \notin ToSet(s)
  PROVE  /\ Append(s, e) \in Seq(S)
         /\ ToSet(Append(s, e)) = ToSet(s) \cup {e}
         /\ IsInjective(Append(s, e))
  BY AppendProperties DEF ToSet, IsInjective

------------------------------------------------------------------------------
\* A test has a handle exactly while it runs, one it can still unsubscribe
\* until it did, and an outcome when its with block is over.
PlaceInv ==
  /\ IF pc \in {"with", "exit", "explicit", "followup"}
       THEN current \in Handle
       ELSE current = NoHandle
  /\ pc \in {"with", "explicit"} => current \in alive
  /\ pc = "followup" => answer[current] # Unanswered
  /\ pc = "exit" => verdict[current] # "none"

\* A test that has not begun has left no trace.
FreshInv ==
  \A h \in Handle : verdict[h] = "none" /\ h # current =>
    h \notin alive /\ answer[h] = Unanswered

\* A live handle has sent no Unsubscribe, a subscription with an address to
\* send it to has a live handle or has sent it, and one the device heard is
\* gone from a device that destroys.
AnswerInv ==
  \A h \in Handle :
    /\ h \in alive => answer[h] = Unanswered
    /\ onDevice[h] # "never" /\ h \notin lost /\ device.address
         => h \in alive \/ answer[h] # Unanswered
    /\ answer[h] = "lost" => h \in lost
    /\ answer[h] \in {"ack", "fault"} /\ device.destroys => onDevice[h] # "live"

\* The teardown has yet to visit every live handle.
TeardownInv == pc \in {"teardown", "done"} => alive \subseteq ToSet(todo)

SubsInv ==
  /\ TypeOK
  /\ ListIsLive
  /\ PlaceInv
  /\ FreshInv
  /\ AnswerInv
  /\ TeardownInv

------------------------------------------------------------------------------
LEMMA SubsInit == Init => SubsInv
<1> SUFFICES ASSUME Init PROVE SubsInv
  OBVIOUS
<1> USE SubscriptionsAssumption DEF Init
<1>1. DeviceOK /\ ClientOK /\ ControlOK
  <2>1. DeviceOK
    BY DEF DeviceOK
  <2>2. ClientOK
    BY DEF ClientOK
  <2>3. ControlOK
    <3>1. aborted \in BOOLEAN
      BY Zenon
    <3> QED
      BY <3>1 DEF ControlOK
  <2> QED
    BY <2>1, <2>2, <2>3
<1>2. RecordOK
  BY DEF RecordOK, Unanswered
<1>3. ListIsLive /\ TeardownInv
  BY DEF ListIsLive, TeardownInv, ToSet, IsInjective
<1>4. PlaceInv /\ FreshInv /\ AnswerInv
  BY DEF PlaceInv, FreshInv, AnswerInv, Unanswered
<1> QED
  BY <1>1, <1>2, <1>3, <1>4 DEF SubsInv, TypeOK

\* What forgetting a handle does to the list.
LEMMA ForgetKeepsList ==
  ASSUME ClientOK, ListIsLive, NEW h \in Handle, NEW reply, Forget(h, reply)
  PROVE  ClientOK' /\ ListIsLive' /\ alive' = alive \ {h}
<1>1. subscriptions' = RemoveFirst(subscriptions, h) /\ alive' = alive \ {h}
  BY DEF Forget
<1>2. /\ subscriptions' \in Seq(Handle)
      /\ ToSet(subscriptions') = ToSet(subscriptions) \ {h}
      /\ IsInjective(subscriptions')
  BY <1>1, RemoveFirstFromInjective DEF ClientOK, ListIsLive
<1> QED
  BY <1>1, <1>2 DEF ClientOK, ListIsLive

\* A live handle's Unsubscribe, answered, lost or interrupted.
Answered(h, reply) ==
  /\ h \in alive
  /\ reply \in {"ack", "fault", "lost"}
  /\ Forget(h, reply)
  /\ answer' = [answer EXCEPT ![h] = reply]
  /\ lost' = IF reply = "lost" THEN lost \cup {h} ELSE lost
  /\ Heard(h) \/ (reply = "lost" /\ UNCHANGED onDevice)
  /\ UNCHANGED device

LEMMA AnsweredStep ==
  ASSUME TypeOK, ListIsLive, AnswerInv,
         NEW h \in Handle, NEW reply, Answered(h, reply)
  PROVE  /\ DeviceOK' /\ ClientOK' /\ ListIsLive' /\ AnswerInv'
         /\ alive' = alive \ {h}
         /\ answer' \in [Handle -> {Unanswered, "ack", "fault", "lost"}]
         /\ lost' \in SUBSET Handle
         /\ \A g \in Handle : answer[g] # Unanswered => answer'[g] = answer[g]
         /\ answer'[h] # Unanswered
         /\ \A g \in Handle : g # h => answer'[g] = answer[g]
<1> USE DEF Answered, TypeOK
<1>1. ClientOK' /\ ListIsLive' /\ alive' = alive \ {h}
  BY ForgetKeepsList
<1>2. /\ onDevice' \in [Handle -> {"never", "live", "gone"}]
      /\ \A g \in Handle : g # h => onDevice'[g] = onDevice[g]
      /\ onDevice'[h] = "never" <=> onDevice[h] = "never"
      /\ reply # "lost" /\ device.destroys => onDevice'[h] # "live"
  BY DEF Heard, DeviceOK
<1>3. /\ answer' \in [Handle -> {Unanswered, "ack", "fault", "lost"}]
      /\ \A g \in Handle : g # h => answer'[g] = answer[g]
      /\ answer'[h] = reply
      /\ answer[h] = Unanswered
  BY DEF RecordOK, AnswerInv, Unanswered
<1>4. lost' \in SUBSET Handle /\ lost \subseteq lost' /\ lost' \subseteq lost \cup {h}
      /\ (reply = "lost" => h \in lost')
  BY DEF RecordOK
<1>5. AnswerInv'
  BY <1>1, <1>2, <1>3, <1>4 DEF AnswerInv, Unanswered
<1>6. DeviceOK'
  BY <1>2 DEF DeviceOK
<1> QED
  BY <1>1, <1>3, <1>4, <1>5, <1>6 DEF Unanswered

\* unsubscribe() does nothing, or is one such exchange.
LEMMA UnsubscribeIsAnswered ==
  ASSUME NEW h \in Handle, Unsubscribe(h), UNCHANGED device
  PROVE  \/ (h \notin alive /\ UNCHANGED <<onDevice, client, history>>)
         \/ /\ \E reply \in {"ack", "fault", "lost"} : Answered(h, reply)
            /\ \/ UNCHANGED failures
               \/ failures < MaxFailures /\ failures' = failures + 1
<1>1. CASE h \notin alive
  BY <1>1 DEF Unsubscribe
<1>2. CASE h \in alive
  <2>1. PICK reply \in {"ack", "fault", "lost"} :
          /\ Forget(h, reply)
          /\ answer' = [answer EXCEPT ![h] = reply]
          /\ \/ (reply = Reply(h) /\ Heard(h) /\ UNCHANGED <<lost, failures>>)
             \/ /\ reply = "lost" /\ Lose(h)
                /\ Heard(h) \/ UNCHANGED onDevice
    BY <1>2 DEF Unsubscribe
  <2>2. reply = "lost" => lost' = lost \cup {h}
    BY <2>1 DEF Reply, Lose
  <2>3. reply # "lost" => lost' = lost /\ Heard(h)
    BY <2>1
  <2>4. Answered(h, reply)
    BY <1>2, <2>1, <2>2, <2>3, Zenon DEF Answered
  <2>5. failures' = failures \/ (failures < MaxFailures /\ failures' = failures + 1)
    BY <2>1 DEF Lose
  <2> QED
    BY <2>4, <2>5
<1> QED
  BY <1>1, <1>2

\* What any unsubscribe() leaves behind, and what it keeps.
LEMMA UnsubscribeStep ==
  ASSUME SubsInv, NEW h \in Handle, Unsubscribe(h), UNCHANGED <<device, verdict>>
  PROVE  /\ DeviceOK' /\ ClientOK' /\ RecordOK' /\ ListIsLive' /\ AnswerInv'
         /\ alive' = alive \ {h}
         /\ \A g \in Handle : g # h \/ h \notin alive => answer'[g] = answer[g]
         /\ h \in alive => answer'[h] # Unanswered
<1> USE SubscriptionsAssumption DEF SubsInv, TypeOK
<1>1. CASE h \notin alive /\ UNCHANGED <<onDevice, client, history>>
  <2>1. DeviceOK' /\ ClientOK' /\ ListIsLive' /\ AnswerInv'
    BY <1>1 DEF DeviceOK, ClientOK, ListIsLive, AnswerInv, client, history
  <2>2. RecordOK'
    BY <1>1 DEF RecordOK, history
  <2> QED
    BY <1>1, <2>1, <2>2 DEF client, history
<1>2. ASSUME NEW reply \in {"ack", "fault", "lost"}, Answered(h, reply),
             failures' = failures \/ (failures < MaxFailures /\ failures' = failures + 1)
      PROVE  /\ DeviceOK' /\ ClientOK' /\ RecordOK' /\ ListIsLive' /\ AnswerInv'
             /\ alive' = alive \ {h}
             /\ \A g \in Handle : g # h => answer'[g] = answer[g]
             /\ answer'[h] # Unanswered
             /\ h \in alive
  <2>1. failures' \in 0..MaxFailures
    BY <1>2 DEF RecordOK
  <2>2. h \in alive
    BY <1>2 DEF Answered
  <2> QED
    BY <1>2, <2>1, <2>2, AnsweredStep DEF RecordOK
<1> QED
  BY <1>1, <1>2, UnsubscribeIsAnswered

LEMMA SubscribeStep ==
  ASSUME SubsInv, NEW h \in Handle, NEW style \in {"with", "explicit"},
         Subscribe(h, style)
  PROVE  SubsInv'
<1> USE SubscriptionsAssumption DEF SubsInv
<1>1. /\ pc = "idle" /\ current = NoHandle /\ verdict[h] = "none"
      /\ h \notin alive /\ answer[h] = Unanswered
      /\ UNCHANGED <<device, todo, aborted, answer>>
  BY DEF Subscribe, PlaceInv, FreshInv
<1>2. /\ DeviceOK'
      /\ \A g \in Handle : g # h => onDevice'[g] = onDevice[g]
  BY <1>1 DEF Subscribe, TypeOK, DeviceOK
<1>3. CASE /\ EndTest(h, "failed") /\ UNCHANGED client
           /\ \/ UNCHANGED <<onDevice, lost, failures>>
              \/ onDevice'[h] = "live" /\ Lose(h)
              \/ (onDevice'[h] = "live" /\ ~device.address /\ UNCHANGED <<lost, failures>>)
  <2>1. ClientOK' /\ ControlOK'
    BY <1>1, <1>3 DEF EndTest, client, TypeOK, ClientOK, ControlOK
  <2>2. failures' \in 0..MaxFailures
    BY <1>3 DEF TypeOK, RecordOK, Lose
  <2>3. RecordOK'
    BY <1>1, <1>3, <2>2 DEF TypeOK, RecordOK, EndTest, Lose
  <2>4. AnswerInv'
    BY <1>1, <1>2, <1>3 DEF AnswerInv, client, Lose, Unanswered, TypeOK, RecordOK
  <2>5. ListIsLive' /\ PlaceInv' /\ FreshInv' /\ TeardownInv'
    BY <1>1, <1>3 DEF ListIsLive, PlaceInv, FreshInv, TeardownInv, EndTest, client,
                      TypeOK, RecordOK
  <2> QED
    BY <1>2, <2>1, <2>3, <2>4, <2>5 DEF TypeOK
<1>4. CASE /\ Registered(h) /\ onDevice'[h] = "live" /\ pc' = style /\ current' = h
           /\ UNCHANGED <<verdict, lost, failures>>
  <2>1. /\ subscriptions' \in Seq(Handle)
        /\ ToSet(subscriptions') = ToSet(subscriptions) \cup {h}
        /\ IsInjective(subscriptions')
        /\ alive' = alive \cup {h}
    BY <1>1, <1>4, AppendToInjective DEF Registered, ListIsLive, TypeOK, ClientOK
  <2>2. ClientOK' /\ ControlOK' /\ RecordOK'
    BY <1>1, <1>4, <2>1 DEF TypeOK, ClientOK, ControlOK, RecordOK
  <2>3. ListIsLive' /\ PlaceInv' /\ TeardownInv'
    BY <1>1, <1>4, <2>1 DEF ListIsLive, PlaceInv, TeardownInv
  <2>4. FreshInv' /\ AnswerInv'
    BY <1>1, <1>2, <1>4, <2>1 DEF FreshInv, AnswerInv, Unanswered
  <2> QED
    BY <1>2, <2>2, <2>3, <2>4 DEF TypeOK
<1> QED
  BY <1>1, <1>3, <1>4 DEF Subscribe, TypeOK, DeviceOK

LEMMA InterruptSubscribeStep ==
  ASSUME SubsInv, NEW h \in Handle, InterruptSubscribe(h)
  PROVE  SubsInv'
<1> USE SubscriptionsAssumption DEF SubsInv, TypeOK
<1>1. /\ current = NoHandle /\ h \notin alive /\ answer[h] = Unanswered
      /\ pc' = "idle" /\ current' = NoHandle /\ verdict' = [verdict EXCEPT ![h] = "failed"]
      /\ lost' = lost \cup {h} /\ onDevice' = [onDevice EXCEPT ![h] = "live"]
      /\ UNCHANGED <<device, client, todo, answer, failures>>
      /\ aborted' = TRUE
  BY DEF InterruptSubscribe, EndTest, PlaceInv, FreshInv
<1>2. DeviceOK' /\ ClientOK'
  BY <1>1 DEF DeviceOK, ClientOK, client
<1>3. ControlOK'
  BY <1>1 DEF ControlOK
<1>4. RecordOK'
  BY <1>1 DEF RecordOK
<1>5. ListIsLive' /\ PlaceInv' /\ TeardownInv'
  BY <1>1 DEF ListIsLive, PlaceInv, TeardownInv, client
<1>6. FreshInv' /\ AnswerInv'
  BY <1>1 DEF FreshInv, AnswerInv, Unanswered, client, RecordOK, DeviceOK
<1> QED
  BY <1>2, <1>3, <1>4, <1>5, <1>6

LEMMA InterruptUnsubscribeStep ==
  ASSUME SubsInv, InterruptUnsubscribe
  PROVE  SubsInv'
<1> USE SubscriptionsAssumption DEF SubsInv, TypeOK
<1>1. PICK h \in Handle : h = current
  BY DEF InterruptUnsubscribe, PlaceInv
<1>2. Answered(h, "lost")
  BY <1>1 DEF InterruptUnsubscribe, Answered, Forget, Heard
<1>3. /\ pc' = "idle" /\ current' = NoHandle /\ verdict' = [verdict EXCEPT ![h] = "failed"]
      /\ UNCHANGED <<todo, failures>> /\ aborted' = TRUE
  BY <1>1 DEF InterruptUnsubscribe, EndTest
<1>4. DeviceOK' /\ ClientOK' /\ ListIsLive' /\ AnswerInv'
  BY <1>2, AnsweredStep
<1>5. ControlOK'
  BY <1>3 DEF ControlOK
<1>6. RecordOK'
  BY <1>2, <1>3, AnsweredStep DEF RecordOK
<1>7. PlaceInv' /\ TeardownInv'
  BY <1>3 DEF PlaceInv, TeardownInv
<1>8. FreshInv'
  BY <1>1, <1>2, <1>3, AnsweredStep DEF FreshInv, RecordOK
<1> QED
  BY <1>4, <1>5, <1>6, <1>7, <1>8

LEMMA ExitStep ==
  ASSUME SubsInv, ExitWith \/ ExplicitUnsubscribe
  PROVE  SubsInv'
<1> USE SubscriptionsAssumption DEF SubsInv, TypeOK
<1>1. PICK h \in Handle : h = current
  BY DEF ExitWith, ExplicitUnsubscribe, PlaceInv
<1>2. Unsubscribe(h) /\ UNCHANGED <<device, verdict>>
  BY <1>1 DEF ExitWith, ExplicitUnsubscribe, Unsubscribe, Forget, Heard, Reply, Lose
<1>3. /\ UNCHANGED <<todo, aborted>>
      /\ \/ /\ pc = "exit" /\ pc' = "idle" /\ current' = NoHandle
         \/ /\ pc = "explicit" /\ pc' = "followup" /\ current' = current
  BY DEF ExitWith, ExplicitUnsubscribe
<1>4. DeviceOK' /\ ClientOK' /\ RecordOK' /\ ListIsLive' /\ AnswerInv'
  BY <1>2, UnsubscribeStep
<1>5. ControlOK'
  BY <1>3 DEF ControlOK
<1>6. PlaceInv' /\ TeardownInv'
  BY <1>1, <1>2, <1>3, UnsubscribeStep DEF PlaceInv, TeardownInv
<1>7. FreshInv'
  <2>1. ASSUME NEW g \in Handle, verdict'[g] = "none", g # current'
        PROVE  g \notin alive' /\ answer'[g] = Unanswered
    <3>1. CASE g # h
      BY <1>1, <1>2, <2>1, <3>1, UnsubscribeStep DEF FreshInv
    <3>2. CASE g = h
      BY <1>1, <1>2, <1>3, <2>1, <3>2, UnsubscribeStep DEF FreshInv, PlaceInv
    <3> QED
      BY <3>1, <3>2
  <2> QED
    BY <2>1 DEF FreshInv
<1> QED
  BY <1>4, <1>5, <1>6, <1>7

LEMMA BodyStep ==
  ASSUME SubsInv, (\E outcome \in {"passed", "failed"} : BodyEnds(outcome)) \/ Interrupt
  PROVE  SubsInv'
<1> USE SubscriptionsAssumption DEF SubsInv, TypeOK
<1>1. UNCHANGED <<device, onDevice, alive, subscriptions, todo, answer, lost, failures>>
  BY DEF BodyEnds, Interrupt, outside, client, history
<1>2. /\ verdict' \in [Handle -> {"none", "passed", "failed"}]
      /\ \A h \in Handle : verdict'[h] = "none" => verdict[h] = "none" /\ h # current
  BY DEF BodyEnds, Interrupt, EndTest, RecordOK, PlaceInv
<1>3. \/ /\ pc = "with" /\ pc' = "exit" /\ current' = current
         /\ verdict'[current] # "none"
      \/ /\ pc \in {"explicit", "followup"} /\ pc' = "idle" /\ current' = NoHandle
      \/ /\ pc = "teardown" /\ pc' = "done" /\ UNCHANGED <<current, verdict>>
  BY DEF BodyEnds, Interrupt, EndTest, RecordOK, PlaceInv
<1>4. aborted' \in BOOLEAN
  BY Zenon DEF BodyEnds, Interrupt, ControlOK
<1>5. DeviceOK' /\ ClientOK' /\ ListIsLive' /\ AnswerInv'
  BY <1>1 DEF DeviceOK, ClientOK, ListIsLive, AnswerInv
<1>6. ControlOK'
  BY <1>1, <1>3, <1>4 DEF ControlOK
<1>7. RecordOK'
  BY <1>1, <1>2 DEF RecordOK
<1>8. PlaceInv' /\ TeardownInv'
  BY <1>1, <1>3 DEF PlaceInv, TeardownInv
<1>9. FreshInv'
  BY <1>1, <1>2, <1>3 DEF FreshInv, PlaceInv
<1> QED
  BY <1>5, <1>6, <1>7, <1>8, <1>9

LEMMA FollowUpStep ==
  ASSUME SubsInv, FollowUp
  PROVE  SubsInv'
<1> USE SubscriptionsAssumption DEF SubsInv, TypeOK
<1>1. /\ pc = "followup" /\ current \in Handle
      /\ pc' = "idle" /\ current' = NoHandle
      /\ UNCHANGED <<device, onDevice, alive, subscriptions, todo, aborted, answer>>
      /\ \E outcome \in {"passed", "failed"} :
            verdict' = [verdict EXCEPT ![current] = outcome]
  BY DEF FollowUp, EndTest, Raises, PlaceInv, outside, client
<1>2. /\ lost' \in SUBSET Handle /\ lost \subseteq lost'
      /\ failures' \in 0..MaxFailures
  <2>1. CASE UNCHANGED <<lost, failures>>
    BY <2>1 DEF RecordOK
  <2>2. CASE Lose(current)
    <3>1. failures' \in 0..MaxFailures
      BY <2>2 DEF Lose, RecordOK
    <3>2. lost' \in SUBSET Handle /\ lost \subseteq lost'
      BY <1>1, <2>2 DEF Lose, RecordOK
    <3> QED
      BY <3>1, <3>2
  <2> QED
    BY <2>1, <2>2 DEF FollowUp
<1>3. DeviceOK' /\ ClientOK' /\ ListIsLive' /\ AnswerInv'
  BY <1>1, <1>2 DEF DeviceOK, ClientOK, ListIsLive, AnswerInv
<1>4. ControlOK'
  BY <1>1 DEF ControlOK
<1>5. RecordOK'
  BY <1>1, <1>2 DEF RecordOK
<1>6. PlaceInv' /\ TeardownInv' /\ FreshInv'
  BY <1>1 DEF PlaceInv, TeardownInv, FreshInv, RecordOK
<1> QED
  BY <1>3, <1>4, <1>5, <1>6

LEMMA ExpireStep ==
  ASSUME SubsInv, NEW h \in Handle, Expire(h)
  PROVE  SubsInv'
<1> USE DEF SubsInv, TypeOK
<1>1. /\ onDevice[h] = "live" /\ onDevice' = [onDevice EXCEPT ![h] = "gone"]
      /\ UNCHANGED <<device, alive, subscriptions, pc, current, todo, aborted, verdict,
                     answer, lost, failures>>
  BY DEF Expire, client, control, history
<1>2. DeviceOK' /\ AnswerInv'
  BY <1>1 DEF DeviceOK, AnswerInv
<1>3. ControlOK'
  BY <1>1 DEF ControlOK
<1>4. ClientOK' /\ RecordOK'
  BY <1>1 DEF ClientOK, RecordOK
<1>5. ListIsLive' /\ PlaceInv' /\ FreshInv' /\ TeardownInv'
  BY <1>1 DEF ListIsLive, PlaceInv, FreshInv, TeardownInv
<1> QED
  BY <1>2, <1>3, <1>4, <1>5

LEMMA TeardownStep ==
  ASSUME SubsInv, Teardown
  PROVE  SubsInv'
<1> USE DEF SubsInv, TypeOK
<1>1. /\ pc = "idle" /\ pc' = "teardown" /\ todo' = subscriptions
      /\ UNCHANGED <<device, onDevice, alive, subscriptions, current, aborted, verdict,
                     answer, lost, failures>>
  BY DEF Teardown, LeftOver, outside, client, history
<1>2. DeviceOK' /\ ClientOK' /\ RecordOK' /\ ListIsLive' /\ AnswerInv'
  BY <1>1 DEF DeviceOK, ClientOK, RecordOK, ListIsLive, AnswerInv
<1>3. ControlOK'
  BY <1>1 DEF ControlOK, ClientOK
<1>4. PlaceInv' /\ FreshInv' /\ TeardownInv'
  BY <1>1 DEF PlaceInv, FreshInv, TeardownInv, ListIsLive
<1> QED
  BY <1>2, <1>3, <1>4

LEMMA TeardownNextStep ==
  ASSUME SubsInv, TeardownNext
  PROVE  SubsInv'
<1> USE SubscriptionsAssumption DEF SubsInv, TypeOK
<1>1. /\ pc = "teardown" /\ current = NoHandle
      /\ UNCHANGED <<device, current, aborted, verdict>>
  BY DEF TeardownNext, PlaceInv
<1>2. CASE todo = <<>>
  <2>1. pc' = "done" /\ UNCHANGED <<onDevice, alive, subscriptions, todo, answer, lost, failures>>
    BY <1>2 DEF TeardownNext, client, history
  <2>2. DeviceOK' /\ ClientOK' /\ RecordOK' /\ ListIsLive' /\ AnswerInv'
    BY <1>1, <2>1 DEF DeviceOK, ClientOK, RecordOK, ListIsLive, AnswerInv
  <2>3. ControlOK'
    BY <1>1, <2>1 DEF ControlOK
  <2>4. PlaceInv' /\ FreshInv' /\ TeardownInv'
    BY <1>1, <2>1 DEF PlaceInv, FreshInv, TeardownInv
  <2> QED
    BY <2>2, <2>3, <2>4
<1>3. CASE todo # <<>>
  <2>1. PICK h \in Handle : h = Head(todo)
    BY <1>3 DEF ControlOK
  <2>2. Unsubscribe(h) /\ todo' = Tail(todo) /\ pc' = pc
    BY <1>3, <2>1 DEF TeardownNext, Unsubscribe, Forget, Heard, Reply, Lose
  <2>3. DeviceOK' /\ ClientOK' /\ RecordOK' /\ ListIsLive' /\ AnswerInv'
    BY <1>1, <2>2, UnsubscribeStep
  <2>4. todo' \in Seq(Handle) /\ ToSet(todo) \subseteq ToSet(todo') \cup {h}
    <3>1. /\ todo' \in Seq(Handle) /\ Len(todo') = Len(todo) - 1
          /\ \A i \in 1..Len(todo') : todo'[i] = todo[i + 1]
      BY <1>3, <2>2, HeadTailProperties DEF ControlOK
    <3>2. ASSUME NEW i \in 1..Len(todo), i # 1
          PROVE  \E j \in 1..Len(todo') : todo'[j] = todo[i]
      <4>1. i - 1 \in 1..Len(todo') /\ todo'[i - 1] = todo[(i - 1) + 1]
        BY <3>1, <3>2 DEF ControlOK
      <4>2. (i - 1) + 1 = i
        OBVIOUS
      <4> QED
        BY <4>1, <4>2
    <3>3. DOMAIN todo = 1..Len(todo) /\ DOMAIN todo' = 1..Len(todo') /\ todo[1] = h
      BY <1>3, <2>1, <3>1 DEF ControlOK
    <3>4. ASSUME NEW g \in ToSet(todo), g # h
          PROVE  g \in ToSet(todo')
      <4>1. PICK i \in 1..Len(todo) : todo[i] = g
        BY <3>3 DEF ToSet
      <4>2. PICK j \in 1..Len(todo') : todo'[j] = g
        BY <3>2, <3>3, <3>4, <4>1
      <4> QED
        BY <3>3, <4>2 DEF ToSet
    <3> QED
      BY <3>1, <3>4
  <2>5. ControlOK'
    BY <1>1, <2>2, <2>4 DEF ControlOK
  <2>6. PlaceInv' /\ FreshInv' /\ TeardownInv'
    BY <1>1, <2>2, <2>4, UnsubscribeStep DEF PlaceInv, FreshInv, TeardownInv
  <2> QED
    BY <2>3, <2>5, <2>6
<1> QED
  BY <1>2, <1>3

LEMMA SubsStep == SubsInv /\ [Next]_vars => SubsInv'
<1> SUFFICES ASSUME SubsInv, [Next]_vars PROVE SubsInv'
  OBVIOUS
<1>1. CASE UNCHANGED vars
  <2> USE <1>1 DEF SubsInv, TypeOK, vars, outside, client, control, history
  <2>1. DeviceOK' /\ ClientOK' /\ ControlOK' /\ RecordOK'
    BY DEF DeviceOK, ClientOK, ControlOK, RecordOK
  <2>2. ListIsLive' /\ PlaceInv' /\ FreshInv' /\ AnswerInv' /\ TeardownInv'
    BY DEF ListIsLive, PlaceInv, FreshInv, AnswerInv, TeardownInv
  <2> QED
    BY <2>1, <2>2
<1>2. CASE Terminated
  BY <1>1, <1>2 DEF Terminated
<1> QED
  BY <1>1, <1>2, SubscribeStep, BodyStep, InterruptSubscribeStep,
     InterruptUnsubscribeStep, ExitStep, FollowUpStep, ExpireStep, TeardownStep,
     TeardownNextStep DEF Next

LEMMA Subs == Spec => []SubsInv
  BY SubsInit, SubsStep, PTL DEF Spec

------------------------------------------------------------------------------
\* The type invariant of the session's subscriptions.
THEOREM TypeCorrect == Spec => []TypeOK
  BY Subs, PTL DEF SubsInv

\* The list the teardown walks is the set of handles that are alive, each once,
\* in every state of every session (dut.py:167, 188-190).
THEOREM ListExact == Spec => []ListIsLive
  BY Subs, PTL DEF SubsInv

\* A session that ends has sent an Unsubscribe for every handle it ever held
\* (dut.py:673-680).
THEOREM TeardownComplete == Spec => []TeardownMissesNone
<1>1. SubsInv => TeardownMissesNone
  <2> SUFFICES ASSUME SubsInv, pc = "done", todo = <<>> PROVE TeardownMissesNone
    BY DEF TeardownMissesNone
  <2>1. alive = {}
    BY DEF SubsInv, TeardownInv, ToSet
  <2>2. subscriptions = <<>>
    <3>1. subscriptions \in Seq(Handle) /\ ToSet(subscriptions) = {}
      BY <2>1 DEF SubsInv, TypeOK, ClientOK, ListIsLive
    <3>2. ASSUME subscriptions # <<>> PROVE FALSE
      <4>1. Len(subscriptions) \in Nat \ {0}
        BY <3>1, <3>2, EmptySeq
      <4>2. 1 \in DOMAIN subscriptions
        BY <3>1, <4>1
      <4> QED
        BY <3>1, <4>2 DEF ToSet
    <3> QED
      BY <3>2
  <2> QED
    BY <2>1, <2>2 DEF SubsInv, AnswerInv, TeardownMissesNone
<1> QED
  BY <1>1, Subs, PTL

\* A subscription that outlives its session does so for a lost exchange or by
\* the device's doing (dut.py:85-88).
THEOREM Excused == Spec => []DanglingIsExcused
<1>1. SubsInv => DanglingIsExcused
  BY DEF SubsInv, TypeOK, RecordOK, AnswerInv, TeardownInv, DanglingIsExcused, ToSet,
         Unanswered
<1> QED
  BY <1>1, Subs, PTL

\* No subscription is unsubscribed twice (dut.py:181, 188).
THEOREM Once == Spec => UnsubscribedOnce
<1>1. SubsInv /\ [Next]_vars
      => [\A h \in Handle : answer[h] # Unanswered => answer'[h] = answer[h]]_vars
  <2> SUFFICES ASSUME SubsInv, Next, NEW g \in Handle, answer[g] # Unanswered
               PROVE  answer'[g] = answer[g]
    BY DEF vars
  <2>1. g \notin alive
    BY DEF SubsInv, AnswerInv
  <2>2. answer \in [Handle -> {Unanswered, "ack", "fault", "lost"}]
    BY DEF SubsInv, TypeOK, RecordOK
  <2>4. CASE ExitWith \/ ExplicitUnsubscribe \/ TeardownNext
    BY <2>1, <2>2, <2>4 DEF ExitWith, ExplicitUnsubscribe, TeardownNext, Unsubscribe,
                            history
  <2>5. CASE InterruptUnsubscribe
    BY <2>1, <2>2, <2>5 DEF InterruptUnsubscribe
  <2> QED
    BY <2>4, <2>5 DEF Next, Subscribe, BodyEnds, Interrupt, InterruptSubscribe,
       FollowUp, Expire, Teardown, Terminated, history, vars
<1> QED
  BY <1>1, Subs, PTL DEF Spec, UnsubscribedOnce

\* The follow-up request of the Unsubscribe tests convicts only a device that
\* keeps what it is told to destroy, and acquits only one that destroyed it
\* (event.py:180-189, 211-217).
THEOREM FairFollowUp == Spec => FollowUpIsFair
<1>1. SubsInv /\ [Next]_vars
      => [\A h \in Handle :
            pc = "followup" /\ current = h /\ current' = NoHandle
              /\ h \notin lost' /\ ~aborted'
              => IF verdict'[h] = "failed"
                   THEN ~device.destroys
                   ELSE onDevice[h] # "live"]_vars
  <2> SUFFICES ASSUME SubsInv, Next, NEW h \in Handle, pc = "followup", current = h,
                      current' = NoHandle, h \notin lost', aborted' # TRUE
               PROVE  IF verdict'[h] = "failed"
                        THEN ~device.destroys
                        ELSE onDevice[h] # "live"
    BY DEF vars
  <2>1. FollowUp
    BY SubscriptionsAssumption
       DEF Next, Subscribe, BodyEnds, Interrupt, InterruptSubscribe, ExitWith,
           InterruptUnsubscribe, ExplicitUnsubscribe, Expire, Teardown, TeardownNext,
           Terminated, vars, control
  <2>2. /\ verdict' = [verdict EXCEPT ![h] = Raises(onDevice[h] # "live")]
        /\ h \notin lost
    BY <2>1 DEF FollowUp, EndTest, Lose, SubsInv, TypeOK, RecordOK
  <2>3. answer[h] \in {"ack", "fault"}
    BY <2>2 DEF SubsInv, TypeOK, RecordOK, PlaceInv, AnswerInv, Unanswered
  <2>4. device.destroys => onDevice[h] # "live"
    BY <2>3 DEF SubsInv, AnswerInv
  <2> QED
    BY <2>2, <2>4 DEF Raises, SubsInv, TypeOK, RecordOK
<1> QED
  BY <1>1, Subs, PTL DEF Spec, FollowUpIsFair
==============================================================================
