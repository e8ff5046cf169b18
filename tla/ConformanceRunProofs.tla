------------------------- MODULE ConformanceRunProofs -------------------------
(***************************************************************************)
(* Theorems of ConformanceRun, for any suite, any number of workers and    *)
(* any that die.                                                           *)
(*                                                                         *)
(* RunInv: a test is with the scheduler, with one worker, lost with one    *)
(* that died, or reported, and a reported test has nothing left to do but  *)
(* its teardown.  The schema violations of a session are those of the test *)
(* that runs on it, because the dispatch loop clears them last thing       *)
(* before the body; its WS-Addressing violations are those of the test     *)
(* too, its fixtures included, because the report of the call takes them.  *)
(* So a record, on its way or received, is right about the test it names,  *)
(* and stays so because that test is past its body.                        *)
(*                                                                         *)
(* OnceInv: no two records, on their way or received, are of one test.     *)
(***************************************************************************)
EXTENDS ConformanceRun, ElementLemmas

\* A sequence of none has no elements.
LEMMA EmptyToSet == ToSet(<<>>) = {}
<1>1. DOMAIN <<>> = {}
  OBVIOUS
<1> QED
  BY <1>1 DEF ToSet

\* A session as it starts, and an item that is none, are well typed.
LEMMA NewTypes ==
  /\ NewSession \in SessionType /\ NoItem \in ItemType /\ NoStash \in StashType
<1>1. <<>> \in Seq(SchemaViolation) /\ <<>> \in Seq(By)
  OBVIOUS
<1>2. NewSession \in SessionType
  BY <1>1 DEF NewSession, SessionType, Verdict
<1>3. NoStash \in StashType
  BY <1>1 DEF NoStash, Stash, NewSession, StashType, Verdict
<1>4. NoItem \in ItemType
  BY RunAssumption DEF NoItem, ItemType, Status
<1> QED
  BY <1>2, <1>3, <1>4

\* What an exchange leaves in the session: with validation on, the defects of the
\* answer, and its WS-Addressing violation, in the name of who asked.
LEMMA ObserveAdds ==
  ASSUME NEW s \in SessionType, NEW who \in By, NEW a \in Answers
  PROVE  /\ a.defect \subseteq Defect
         /\ Observe(s, who, a) \in SessionType
         /\ Observe(s, who, a).dut = s.dut /\ Observe(s, who, a).auth = s.auth
         /\ Observe(s, who, a).enabled = s.enabled
         /\ s.enabled => ToSet(Observe(s, who, a).schema)
                           = ToSet(s.schema) \cup {[defect |-> d, by |-> who] : d \in a.defect}
         /\ ToSet(Observe(s, who, a).wsa) = ToSet(s.wsa) \cup {by \in {who} : a.wsa}
<1> DEFINE V == {[defect |-> d, by |-> who] : d \in a.defect}
           schema == IF s.enabled THEN s.schema \o SetToSeq(V) ELSE s.schema
           wsa == IF a.wsa THEN Append(s.wsa, who) ELSE s.wsa
<1>1. a.defect \subseteq Defect /\ (a.defect = {} \/ \E d \in Defect : a.defect = {d})
  <2>1. CASE a \in [defect : {{}} \cup {{d} : d \in Defect}, wsa : {FALSE}]
    <3>1. a.defect \in {{}} \cup {{d} : d \in Defect}
      BY <2>1
    <3> QED
      BY <3>1
  <2>2. CASE a = [defect |-> {}, wsa |-> TRUE]
    BY <2>2
  <2> QED
    BY <2>1, <2>2 DEF Answers
<1>2. V \subseteq SchemaViolation /\ (V = {} \/ \E x : V = {x})
  BY <1>1 DEF SchemaViolation
<1>3. SetToSeq(V) \in Seq(SchemaViolation) /\ ToSet(SetToSeq(V)) = V
  <2>1. SetToSeq(V) \in Seq(V) /\ ToSet(SetToSeq(V)) = V
    BY <1>2, SetToSeqOfOne
  <2> QED
    BY <1>2, <2>1, SeqMonotonic
<1>4. s.schema \in Seq(SchemaViolation) /\ s.wsa \in Seq(By)
  BY DEF SessionType
<1>5. /\ schema \in Seq(SchemaViolation)
      /\ s.enabled => ToSet(schema) = ToSet(s.schema) \cup V
  <2> HIDE DEF V
  <2>1. CASE s.enabled
    BY <1>3, <1>4, <2>1, ToSetConcat
  <2>2. CASE ~s.enabled
    BY <1>4, <2>2
  <2> QED
    BY <2>1, <2>2
<1>6. wsa \in Seq(By) /\ ToSet(wsa) = ToSet(s.wsa) \cup {by \in {who} : a.wsa}
  <2>1. CASE a.wsa
    <3>1. {by \in {who} : a.wsa} = {who}
      BY <2>1
    <3> QED
      BY <1>4, <2>1, <3>1, ToSetAppend
  <2>2. CASE ~a.wsa
    <3>1. {by \in {who} : a.wsa} = {}
      BY <2>2
    <3> QED
      BY <1>4, <2>2, <3>1
  <2> QED
    BY <2>1, <2>2
<1>7. Observe(s, who, a) = [s EXCEPT !.wsa = wsa, !.schema = schema]
  BY DEF Observe
<1> HIDE DEF schema, wsa, V
<1>8. [s EXCEPT !.wsa = wsa, !.schema = schema] \in SessionType
  BY <1>5, <1>6 DEF SessionType
<1>9. /\ [s EXCEPT !.wsa = wsa, !.schema = schema].schema = schema
      /\ [s EXCEPT !.wsa = wsa, !.schema = schema].wsa = wsa
      /\ [s EXCEPT !.wsa = wsa, !.schema = schema].dut = s.dut
      /\ [s EXCEPT !.wsa = wsa, !.schema = schema].auth = s.auth
      /\ [s EXCEPT !.wsa = wsa, !.schema = schema].enabled = s.enabled
  BY DEF SessionType
<1> QED
  BY <1>1, <1>5, <1>6, <1>7, <1>8, <1>9 DEF schema, V

\* Who asks, is one who may.
LEMMA Askers ==
  ASSUME NEW t \in Test
  PROVE  /\ Fixtures(t) \in By /\ Body(t) \in By
         /\ Fixtures(t).test = t /\ Body(t).test = t
BY DEF Fixtures, Body, By

\* What the discovery leaves.
LEMMA DiscoveredTyped ==
  ASSUME NEW t \in Test, NEW a \in Answers, NEW adv \in SUBSET Service,
         NEW bad \in SUBSET Service, NEW known \in BOOLEAN, NEW auth \in Verdict
  PROVE  /\ Discovered(t, a, adv, bad, known, auth) \in SessionType
         /\ Discovered(t, a, adv, bad, known, auth).dut = "up"
         /\ Discovered(t, a, adv, bad, known, auth).auth = auth
         /\ \A by : by \in ToSet(Discovered(t, a, adv, bad, known, auth).wsa)
                     <=> by = Fixtures(t) /\ a.wsa
<1> DEFINE s == Observe(NewSession, Fixtures(t), a)
<1>1. NewSession \in SessionType /\ Fixtures(t) \in By
  BY NewTypes, Askers
<1>2. s \in SessionType
      /\ ToSet(s.wsa) = ToSet(NewSession.wsa) \cup {by \in {Fixtures(t)} : a.wsa}
  BY <1>1, ObserveAdds
<1>3. \A by : by \in ToSet(s.wsa) <=> by = Fixtures(t) /\ a.wsa
  <2>1. NewSession.wsa = <<>>
    BY DEF NewSession
  <2> QED
    BY <1>2, <2>1, EmptyToSet
<1>4. Discovered(t, a, adv, bad, known, auth)
        = [s EXCEPT !.dut = "up", !.advertised = adv, !.unreachable = bad,
                    !.info = known, !.auth = auth]
  BY DEF Discovered
<1> HIDE DEF s
<1>5. /\ Discovered(t, a, adv, bad, known, auth) \in SessionType
      /\ Discovered(t, a, adv, bad, known, auth).dut = "up"
      /\ Discovered(t, a, adv, bad, known, auth).auth = auth
      /\ Discovered(t, a, adv, bad, known, auth).wsa = s.wsa
  BY <1>2, <1>4 DEF SessionType
<1> QED
  BY <1>3, <1>5

\* The stash is a session's.
LEMMA StashTyped ==
  ASSUME NEW s \in SessionType
  PROVE  /\ Stash(s) \in StashType /\ Stashed(s) \in SessionType
         /\ Stash(s).schema = s.schema /\ Stash(s).auth = s.auth /\ Stash(s).wsa = s.wsa
         /\ Stashed(s).dut = s.dut /\ Stashed(s).auth = s.auth
         /\ ToSet(Stashed(s).wsa) = {}
<1>1. /\ Stash(s) \in StashType /\ Stash(s).schema = s.schema
      /\ Stash(s).auth = s.auth /\ Stash(s).wsa = s.wsa
  BY DEF Stash, StashType, SessionType
<1>2. <<>> \in Seq(By)
  OBVIOUS
<1>3. /\ Stashed(s) \in SessionType /\ Stashed(s).wsa = <<>>
      /\ Stashed(s).dut = s.dut /\ Stashed(s).auth = s.auth
  BY <1>2 DEF Stashed, SessionType
<1> QED
  BY <1>1, <1>3, EmptyToSet

------------------------------------------------------------------------------
\* A message, and the record of it.
Message(when, t, outcome, stash) ==
  [report |-> Report(when, t, outcome), props |-> stash]

\* Both are typed.
LEMMA MessageTyped ==
  ASSUME NEW when \in {"setup", "call", "teardown", "???"}, NEW t \in Test,
         NEW outcome \in Status, NEW stash \in StashType
  PROVE  LET m == Message(when, t, outcome, stash) IN
         /\ m \in MessageType /\ m.report.id = t
         /\ Record(m).id = t /\ Record(m).status = outcome
         /\ Record(m).stash = stash /\ (Record(m).called <=> when = "call")
BY DEF Message, Report, MessageType, ReportType, Record

\* A message becomes a record.
LEMMA RecordTyped ==
  ASSUME NEW m \in MessageType
  PROVE  Record(m) \in RecordType /\ Record(m).id = m.report.id
BY DEF MessageType, ReportType, Record, RecordType

\* What is sent of a phase: the report of a call, or of a setup that did not pass.
LEMMA Sent ==
  ASSUME NEW w \in Worker, NEW when, NEW outcome, NEW stash,
         Send(w, when, outcome, stash)
  PROVE  /\ when = "call" \/ (when = "setup" /\ outcome # "passed")
              => wire' = [wire EXCEPT ![w] =
                            Append(@, Message(when, item[w].test, outcome, stash))]
         /\ ~(when = "call" \/ (when = "setup" /\ outcome # "passed")) => wire' = wire
BY DEF Send, Kept, Report, Message

------------------------------------------------------------------------------
\* A worker that is at something is at a test.
Occupied == \A w \in Worker : item[w].phase # "idle" => item[w].test \in Test

\* The phases of an item that has been reported.
Reported == {"called", "unset"}

\* The tests one at a time: with nobody, with one worker.
PlacesInv ==
  /\ Occupied
  /\ \A w \in Worker : item[w].phase = "idle" => item[w].test = Nobody
  /\ \A w \in Worker : item[w].phase # "idle" => item[w].test \notin pending
  /\ \A v, w \in Worker :
       item[v].phase # "idle" /\ item[v].test = item[w].test => v = w

\* The WS-Addressing violations that are a test's.
Marks(t) == {by \in unsigned : by.test = t}

\* Before its body a test has done nothing, and before its setup nothing was done
\* for it.
Untouched(t) == t \notin ran /\ received[t] = {}

\* The schema violations are the test's, all of its own and none of another's.
Blames(schema, t) ==
  options.validate =>
    /\ {v.defect : v \in ToSet(schema)} = Shown(t)
    /\ \A v \in ToSet(schema) : v.by = Body(t)

\* A worker with an item i and a session s is in order.
LoggedIn(i, s) ==
  /\ i.phase \in {"gate", "body", "ended"} => s.dut = "up" /\ options.corpus
  /\ s.dut = "up" /\ i.phase # "exited" /\ options.user => s.auth # Undecided

Judges(i, s) ==
  /\ i.phase \in {"setup", "gate", "unset"} => Untouched(i.test)
  /\ i.phase = "body" => i.test \in ran /\ s.enabled = options.validate
  /\ i.phase \in {"body", "ended"} /\ i.test \in ran => Blames(s.schema, i.test)
  /\ i.phase = "ended" =>
       /\ i.outcome \in {"passed", "xfailed"} => i.test \in ran
       /\ i.outcome = "passed" /\ options.validate => Shown(i.test) = {}

Addresses(i, s) ==
  /\ i.phase = "setup" => Marks(i.test) = {}
  /\ i.phase \in {"gate", "body", "ended"} => ToSet(s.wsa) = Marks(i.test)
  /\ i.phase \in {"idle", "setup"} \cup Reported /\ options.corpus => ToSet(s.wsa) = {}

InOrder(i, s) == LoggedIn(i, s) /\ Judges(i, s) /\ Addresses(i, s)

\* A test with nothing left to do but its teardown.
Settled(t) ==
  /\ t \in Test \ pending
  /\ \A w \in Worker : item[w].test = t => item[w].phase \in Reported

\* What a record says is so.
Truthful(rec) ==
  /\ rec.id \in ran => Blames(rec.stash.schema, rec.id)
  /\ rec.status = "passed" /\ options.validate => Shown(rec.id) = {}
  /\ rec.status \in {"passed", "xfailed"} => rec.id \in ran
  /\ rec.called /\ options.user => rec.stash.auth # Undecided
  /\ rec.called => ToSet(rec.stash.wsa) = Marks(rec.id)

\* The records of the controller, and those it will make of what is on the wire.
OnWire(w) == {Record(m) : m \in ToSet(wire[w])}
Logged == ToSet(results) \cup UNION {OnWire(w) : w \in Worker}

RecordsInv == \A rec \in Logged : Settled(rec.id) /\ Truthful(rec)

\* A test that was lost with its worker is over, and nothing is logged of it.
LostInv ==
  \A t \in Lost : /\ t \in Test \ pending /\ \A w \in Worker : item[w].test # t
                  /\ \A rec \in Logged : rec.id # t

\* Where a test can be.
Placed(t) ==
  \/ t \in pending \cup Lost
  \/ \E w \in Worker : item[w].test = t /\ item[w].phase \notin Reported
  \/ \E rec \in Logged : rec.id = t

ConsentInv == \A t \in ran : Suite[t].demands \subseteq options.consent

\* The report is written when nobody is at anything.
FinishInv ==
  payload # {} => /\ \A w \in Worker : item[w].phase \in {"idle", "exited"}
                  /\ \A w \in Worker : wire[w] = <<>>
                  /\ pending = {} \/ stopping

RunInv ==
  /\ PlacesInv
  /\ \A t \in pending : Untouched(t) /\ Marks(t) = {}
  /\ \A w \in Worker : InOrder(item[w], session[w])
  /\ ConsentInv /\ RecordsInv /\ LostInv /\ FinishInv
  /\ \A t \in Test : Placed(t)
  /\ \A w \in Worker : item[w].phase = "exited" => stopping

\* The records change with the results and the wires only.
LEMMA LoggedKept ==
  ASSUME wire' = wire, results' = results
  PROVE  Logged' = Logged
BY DEF Logged, OnWire

\* And grow by what is sent.
LEMMA LoggedGrows ==
  ASSUME TypeOK, NEW w \in Worker, NEW m \in MessageType, results' = results,
         wire' = [wire EXCEPT ![w] = Append(@, m)]
  PROVE  /\ wire' \in [Worker -> Seq(MessageType)]
         /\ wire'[w] = Append(wire[w], m)
         /\ \A v \in Worker \ {w} : wire'[v] = wire[v]
         /\ OnWire(w)' = OnWire(w) \cup {Record(m)}
         /\ \A v \in Worker \ {w} : OnWire(v)' = OnWire(v)
         /\ Logged' = Logged \cup {Record(m)}
<1>1. wire \in [Worker -> Seq(MessageType)] /\ wire[w] \in Seq(MessageType)
  BY DEF TypeOK
<1>2. /\ Append(wire[w], m) \in Seq(MessageType)
      /\ ToSet(Append(wire[w], m)) = ToSet(wire[w]) \cup {m}
  BY <1>1, ToSetAppend
<1>3. /\ wire' \in [Worker -> Seq(MessageType)] /\ wire'[w] = Append(wire[w], m)
      /\ \A v \in Worker \ {w} : wire'[v] = wire[v]
  BY <1>1, <1>2
<1>4. /\ OnWire(w)' = OnWire(w) \cup {Record(m)}
      /\ \A v \in Worker \ {w} : OnWire(v)' = OnWire(v)
  BY <1>2, <1>3 DEF OnWire
<1>5. Logged' = Logged \cup {Record(m)}
  BY <1>4 DEF Logged
<1> QED
  BY <1>3, <1>4, <1>5

\* A worker goes to an item i and a session s, and nobody else does.
Goes(w, i, s) ==
  /\ i \in ItemType /\ s \in SessionType
  /\ item' = [item EXCEPT ![w] = i] /\ session' = [session EXCEPT ![w] = s]
  /\ UNCHANGED <<options, pending, payload>>
  /\ stopping => stopping'
  /\ \A u \in Test \ {item[w].test} :
       received'[u] = received[u] /\ (u \in ran' <=> u \in ran) /\ Marks(u)' = Marks(u)

\* With its test; with a report of it, the first; or without, reported or lost.
GoesOn(w, i) ==
  /\ item[w].phase \notin Reported /\ i.phase \notin {"idle"} \cup Reported
  /\ i.test = item[w].test
  /\ Logged' = Logged /\ Lost' = Lost

Tells(w, i) ==
  /\ item[w].phase \notin Reported /\ i.phase \in Reported
  /\ i.test = item[w].test
  /\ \E rec : /\ rec.id = item[w].test /\ Truthful(rec)'
              /\ Logged' = Logged \cup {rec}
  /\ Lost' = Lost

Leaves(w, i) ==
  /\ i = NoItem /\ Logged' = Logged /\ UNCHANGED <<received, ran, unsigned>>
  /\ \/ item[w].phase \in Reported /\ Lost' = Lost
     \/ item[w].phase \notin Reported /\ Lost' = Lost \cup {item[w].test}

\* A worker stays in order when nothing is done to it, or in the name of its test.
LEMMA Untroubled ==
  ASSUME NEW v \in Worker, InOrder(item[v], session[v]), NEW T,
         item[v].phase # "idle" => item[v].test \in T,
         item'[v] = item[v], session'[v] = session[v], options' = options,
         \A u \in T :
           received'[u] = received[u] /\ (u \in ran' <=> u \in ran) /\ Marks(u)' = Marks(u)
  PROVE  InOrder(item[v], session[v])'
<1>1. LoggedIn(item[v], session[v])'
  BY DEF InOrder, LoggedIn
<1>2. Judges(item[v], session[v])'
  BY DEF InOrder, Judges, Untouched, Blames, Shown
<1>3. Addresses(item[v], session[v])'
  BY DEF InOrder, Addresses, Reported
<1> QED
  BY <1>1, <1>2, <1>3 DEF InOrder

\* So it leaves the run in order.
LEMMA OneWorker ==
  ASSUME TypeOK, RunInv, NEW w \in Worker, NEW i, NEW s, Goes(w, i, s),
         item[w].phase \notin {"idle", "exited"},
         GoesOn(w, i) \/ Tells(w, i) \/ Leaves(w, i),
         InOrder(i, s)', ConsentInv', i.phase = "exited" => stopping'
  PROVE  RunInv'
<1> DEFINE t == item[w].test
<1>1. /\ t \in Test /\ t \notin pending /\ Nobody \notin Test
      /\ NoItem.test = Nobody /\ NoItem.phase = "idle"
      /\ \A v \in Worker \ {w} : item[v].test # t
  BY RunAssumption DEF RunInv, PlacesInv, Occupied, NoItem
<1>2. /\ item'[w] = i /\ session'[w] = s
      /\ \A v \in Worker \ {w} : item'[v] = item[v] /\ session'[v] = session[v]
      /\ UNCHANGED <<options, pending, payload>> /\ (stopping => stopping')
      /\ \A u \in Test \ {t} :
           received'[u] = received[u] /\ (u \in ran' <=> u \in ran) /\ Marks(u)' = Marks(u)
  BY DEF Goes, TypeOK
<1>3. /\ (i.phase # "idle" /\ i.test = t) \/ i = NoItem
      /\ i.test = t \/ i.test = Nobody
  BY <1>1 DEF GoesOn, Tells, Leaves, Reported
<1>4. PlacesInv'
  BY <1>1, <1>2, <1>3 DEF RunInv, PlacesInv, Occupied
<1>5. \A u \in pending' : (Untouched(u) /\ Marks(u) = {})'
  <2> SUFFICES ASSUME NEW u \in pending
               PROVE  (Untouched(u) /\ Marks(u) = {})'
    BY <1>2
  <2>1. u \in Test \ {t} /\ Untouched(u) /\ Marks(u) = {}
    BY <1>1 DEF RunInv, TypeOK
  <2> QED
    BY <1>2, <2>1 DEF Untouched
<1>6. \A v \in Worker : InOrder(item[v], session[v])'
  <2>1. ASSUME NEW v \in Worker \ {w}
        PROVE  InOrder(item[v], session[v])'
    <3>1. InOrder(item[v], session[v])
      BY DEF RunInv
    <3>2. item[v].phase # "idle" => item[v].test \in Test \ {t}
      BY <1>1 DEF RunInv, PlacesInv, Occupied
    <3> QED
      BY <1>2, <3>1, <3>2, Untroubled
  <2>2. InOrder(item[w], session[w])'
    <3>1. LoggedIn(item[w], session[w])'
      BY <1>2 DEF InOrder, LoggedIn
    <3>2. Judges(item[w], session[w])'
      BY <1>2 DEF InOrder, Judges
    <3>3. Addresses(item[w], session[w])'
      BY <1>2 DEF InOrder, Addresses
    <3> QED
      BY <3>1, <3>2, <3>3 DEF InOrder
  <2> QED
    BY <2>1, <2>2
<1>7. RecordsInv'
  <2>1. ASSUME NEW rec \in Logged
        PROVE  Settled(rec.id)' /\ Truthful(rec)'
    <3>1. Settled(rec.id) /\ Truthful(rec)
      BY DEF RunInv, RecordsInv
    <3>2. rec.id = t => Leaves(w, i) /\ item[w].phase \in Reported
      BY <3>1 DEF Settled, GoesOn, Tells
    <3>3. /\ received'[rec.id] = received[rec.id] /\ Marks(rec.id)' = Marks(rec.id)
          /\ (rec.id \in ran' <=> rec.id \in ran)
      BY <1>2, <3>1, <3>2 DEF Settled, Leaves, Marks
    <3>4. Truthful(rec)'
      BY <1>2, <3>1, <3>3 DEF Truthful, Blames, Shown
    <3>5. Settled(rec.id)'
      BY <1>1, <1>2, <1>3, <3>1, <3>2 DEF Settled, Leaves
    <3> QED
      BY <3>4, <3>5
  <2>2. ASSUME NEW rec \in Logged' \ Logged
        PROVE  Settled(rec.id)' /\ Truthful(rec)'
    <3>1. Tells(w, i) /\ rec.id = t /\ Truthful(rec)'
      BY <2>2 DEF GoesOn, Tells, Leaves
    <3>2. Settled(rec.id)'
      BY <1>1, <1>2, <3>1 DEF Settled, Tells
    <3> QED
      BY <3>1, <3>2
  <2> QED
    BY <2>1, <2>2 DEF RecordsInv
<1>8. LostInv'
  <2>1. ASSUME NEW u \in Lost
        PROVE  /\ u \in Test \ pending' /\ \A v \in Worker : item'[v].test # u
               /\ \A rec \in Logged' : rec.id # u
    <3>1. /\ u \in Test \ pending /\ \A v \in Worker : item[v].test # u
          /\ \A rec \in Logged : rec.id # u
      BY DEF RunInv, LostInv
    <3>2. u # t /\ u # Nobody
      BY <1>1, <3>1
    <3>3. \A rec \in Logged' : rec \in Logged \/ rec.id = t
      BY DEF GoesOn, Tells, Leaves
    <3> QED
      BY <1>2, <1>3, <3>1, <3>2, <3>3
  <2>2. ASSUME NEW u \in Lost' \ Lost
        PROVE  /\ u \in Test \ pending' /\ \A v \in Worker : item'[v].test # u
               /\ \A rec \in Logged' : rec.id # u
    <3>1. u = t /\ Leaves(w, i) /\ item[w].phase \notin Reported
      BY <2>2 DEF GoesOn, Tells, Leaves
    <3>2. \A rec \in Logged : rec.id # t
      BY <3>1 DEF RunInv, RecordsInv, Settled
    <3> QED
      BY <1>1, <1>2, <3>1, <3>2 DEF Leaves
  <2> QED
    BY <2>1, <2>2 DEF LostInv
<1>9. \A u \in Test : Placed(u)'
  <2> SUFFICES ASSUME NEW u \in Test
               PROVE  Placed(u)'
    OBVIOUS
  <2>1. Placed(u)
    BY DEF RunInv
  <2>2. Lost \subseteq Lost' /\ Logged \subseteq Logged' /\ pending' = pending
    BY <1>2 DEF GoesOn, Tells, Leaves
  <2>3. CASE u # t
    BY <1>2, <2>1, <2>2, <2>3 DEF Placed
  <2>4. CASE u = t /\ GoesOn(w, i)
    BY <1>2, <2>4 DEF Placed, GoesOn
  <2>5. CASE u = t /\ Tells(w, i)
    BY <2>5 DEF Placed, Tells
  <2>6. CASE u = t /\ Leaves(w, i)
    <3>1. CASE item[w].phase \notin Reported
      BY <2>6, <3>1 DEF Placed, Leaves
    <3>2. CASE item[w].phase \in Reported
      <4>1. \A v \in Worker : item[v].test = t => v = w
        BY <1>1
      <4> QED
        BY <1>1, <2>1, <2>2, <2>6, <3>2, <4>1 DEF Placed, LostInv, RunInv
    <3> QED
      BY <3>1, <3>2
  <2> QED
    BY <2>3, <2>4, <2>5, <2>6
<1>10. FinishInv'
  BY <1>2 DEF RunInv, FinishInv
<1>11. \A v \in Worker : item'[v].phase = "exited" => stopping'
  BY <1>2 DEF RunInv
<1> QED
  BY <1>4, <1>5, <1>6, <1>7, <1>8, <1>9, <1>10, <1>11 DEF RunInv

\* Such a step keeps the types, if what it leaves to others is typed.
LEMMA OneWorkerType ==
  ASSUME TypeOK, NEW w \in Worker, NEW i, NEW s, Goes(w, i, s),
         wire' \in [Worker -> Seq(MessageType)], received' \in [Test -> SUBSET Receipt],
         unsigned' \in SUBSET By, ran' \in SUBSET Test, crashed' \in SUBSET DeathType,
         stopping' \in BOOLEAN, UNCHANGED <<results, authState>>
  PROVE  TypeOK'
<1>1. session' \in [Worker -> SessionType] /\ item' \in [Worker -> ItemType]
  BY DEF Goes, TypeOK
<1> QED
  BY <1>1 DEF Goes, TypeOK

\* What it says to the controller: nothing, or a message of a test not yet heard of.
Quiet == UNCHANGED <<results, payload, wire>>

Speaks(w) ==
  /\ UNCHANGED <<results, payload>>
  /\ \E m \in MessageType : /\ \A rec \in Logged : rec.id # m.report.id
                            /\ wire' = [wire EXCEPT ![w] = Append(@, m)]

\* A test whose report is not on its way has no record.
LEMMA Unheard ==
  ASSUME RunInv, NEW w \in Worker, item[w].phase \notin Reported
  PROVE  \A rec \in Logged : rec.id # item[w].test
BY DEF RunInv, RecordsInv, Settled

\* What is known of a worker that is at a test.
LEMMA Busy ==
  ASSUME TypeOK, RunInv, NEW w \in Worker, item[w].phase # "idle"
  PROVE  /\ item[w].test \in Test /\ item[w] \in ItemType /\ session[w] \in SessionType
         /\ item \in [Worker -> ItemType] /\ session \in [Worker -> SessionType]
         /\ wire \in [Worker -> Seq(MessageType)]
         /\ InOrder(item[w], session[w])
BY DEF TypeOK, RunInv, PlacesInv, Occupied

\* Nobody is at a step of its own there.
LEMMA LostKept ==
  ASSUME crashed' = crashed
  PROVE  Lost' = Lost
BY DEF Lost

\* A test is given to a worker.
LEMMA StartStep ==
  ASSUME TypeOK, RunInv, NEW w \in Worker, NEW t \in Test, Start(w, t)
  PROVE  TypeOK' /\ RunInv' /\ Quiet
<1> DEFINE i == [NoItem EXCEPT !.phase = "setup", !.test = t]
<1>1. i \in ItemType /\ i.phase = "setup" /\ i.test = t
  BY NewTypes DEF ItemType
<1>2. /\ t \in pending /\ pending' = pending \ {t} /\ item[w].phase = "idle"
      /\ ~stopping /\ item' = [item EXCEPT ![w] = i]
      /\ UNCHANGED <<options, session, wire, stopping, results, authState, payload,
                     received, unsigned, ran, crashed>>
  BY DEF Start, history
<1> HIDE DEF i
<1>3. /\ item'[w] = i /\ \A v \in Worker \ {w} : item'[v] = item[v]
      /\ item' \in [Worker -> ItemType]
  BY <1>1, <1>2 DEF TypeOK
<1>4. TypeOK'
  BY <1>2, <1>3 DEF TypeOK
<1>5. /\ Nobody \notin Test /\ \A v \in Worker \ {w} : item[v].test # t
      /\ item[w].test = Nobody
  BY <1>2, RunAssumption DEF RunInv, PlacesInv
<1>6. Logged' = Logged /\ Lost' = Lost
  BY <1>2, LoggedKept, LostKept
<1>7. PlacesInv'
  BY <1>1, <1>2, <1>3, <1>5 DEF RunInv, PlacesInv, Occupied
<1>8. \A u \in pending' : (Untouched(u) /\ Marks(u) = {})'
  BY <1>2 DEF RunInv, Untouched, Marks
<1>9. ASSUME NEW v \in Worker
      PROVE  InOrder(item[v], session[v])'
  <2>1. CASE v = w
    <3>1. Untouched(t) /\ Marks(t) = {} /\ InOrder(item[w], session[w])
      BY <1>2 DEF RunInv
    <3>2. LoggedIn(item[w], session[w])'
      BY <1>1, <1>2, <1>3, <3>1 DEF InOrder, LoggedIn
    <3>3. Judges(item[w], session[w])'
      BY <1>1, <1>2, <1>3, <3>1 DEF Judges, Untouched
    <3>4. Addresses(item[w], session[w])'
      BY <1>1, <1>2, <1>3, <3>1 DEF InOrder, Addresses, Marks, Reported
    <3> QED
      BY <2>1, <3>2, <3>3, <3>4 DEF InOrder
  <2>2. CASE v # w
    <3>1. InOrder(item[v], session[v]) /\ item'[v] = item[v] /\ session'[v] = session[v]
      BY <1>2, <1>3, <2>2 DEF RunInv
    <3>2. item[v].phase # "idle" => item[v].test \in Test
      BY DEF RunInv, PlacesInv, Occupied
    <3>3. \A u \in Test : /\ received'[u] = received[u] /\ (u \in ran' <=> u \in ran)
                         /\ Marks(u)' = Marks(u)
      BY <1>2 DEF Marks
    <3> QED
      BY <1>2, <3>1, <3>2, <3>3, Untroubled
  <2> QED
    BY <2>1, <2>2
<1>10. RecordsInv'
  <2> SUFFICES ASSUME NEW rec \in Logged
               PROVE  Settled(rec.id)' /\ Truthful(rec)'
    BY <1>6 DEF RecordsInv
  <2>1. Settled(rec.id) /\ Truthful(rec)
    BY DEF RunInv, RecordsInv
  <2>2. Settled(rec.id)'
    BY <1>1, <1>2, <1>3, <2>1 DEF Settled, Reported
  <2>3. Truthful(rec)'
    BY <1>2, <2>1 DEF Truthful, Blames, Shown, Marks
  <2> QED
    BY <2>2, <2>3
<1>11. LostInv'
  BY <1>1, <1>2, <1>3, <1>6 DEF RunInv, LostInv
<1>12. \A u \in Test : Placed(u)'
  <2> SUFFICES ASSUME NEW u \in Test
               PROVE  Placed(u)'
    OBVIOUS
  <2>1. Placed(u)
    BY DEF RunInv
  <2>2. CASE u = t
    BY <1>1, <1>3, <2>2 DEF Placed, Reported
  <2>3. CASE u # t
    BY <1>2, <1>3, <1>5, <1>6, <2>1, <2>3 DEF Placed
  <2> QED
    BY <2>2, <2>3
<1>13. FinishInv' /\ ConsentInv' /\ \A v \in Worker : item'[v].phase = "exited" => stopping'
  BY <1>1, <1>2, <1>3 DEF RunInv, FinishInv, ConsentInv
<1> QED
  BY <1>2, <1>4, <1>7, <1>8, <1>9, <1>10, <1>11, <1>12, <1>13 DEF RunInv, Quiet

\* What a setup makes of a worker: p is the phase it goes to.
SetsUp(w, s, p) ==
  LET t == item[w].test IN
  /\ item' = [item EXCEPT ![w].phase = p]
  /\ s \in SessionType /\ session' = [session EXCEPT ![w] = s]
  /\ unsigned' \in SUBSET By
  /\ \A u \in Test \ {t} : Marks(u)' = Marks(u)
  /\ s.dut = "up" /\ p # "exited" /\ options.user => s.auth # Undecided
  /\ p = "gate" => /\ s.dut = "up" /\ options.corpus
                   /\ ToSet(s.wsa) = {by \in unsigned' : by.test = t}
  /\ p = "unset" /\ options.corpus => ToSet(s.wsa) = {}
  /\ p = "exited" => stopping' = TRUE /\ wire' = wire
  /\ p = "gate" => stopping' = stopping /\ wire' = wire
  /\ p = "unset" =>
       /\ stopping' = stopping
       /\ \E o \in {"failed", "skipped"} :
            wire' = [wire EXCEPT ![w] = Append(@, Message("setup", t, o, NoStash))]

\* It ends passed, or not.
LEMMA SetUpEnding ==
  ASSUME NEW w \in Worker, NEW o \in {"passed", "failed", "skipped"}, SetUpEnds(w, o)
  PROVE  /\ stopping' = stopping
         /\ o = "passed" => item' = [item EXCEPT ![w].phase = "gate"] /\ wire' = wire
         /\ o # "passed" =>
              /\ item' = [item EXCEPT ![w].phase = "unset"]
              /\ wire' = [wire EXCEPT
                            ![w] = Append(@, Message("setup", item[w].test, o, NoStash))]
<1>1. /\ Send(w, "setup", o, NoStash) /\ stopping' = stopping
      /\ item' = [item EXCEPT ![w].phase = IF o = "passed" THEN "gate" ELSE "unset"]
  BY DEF SetUpEnds
<1>2. /\ o # "passed" => wire' = [wire EXCEPT
                            ![w] = Append(@, Message("setup", item[w].test, o, NoStash))]
      /\ o = "passed" => wire' = wire
  BY <1>1, Sent
<1> QED
  BY <1>1, <1>2

\* Either way it is one of these.
LEMMA SetUpDoes ==
  ASSUME TypeOK, RunInv, NEW w \in Worker, SetUp(w)
  PROVE  \E s, p : p \in {"gate", "unset", "exited"} /\ SetsUp(w, s, p)
<1> DEFINE t == item[w].test
           o == Prepared
           p == IF o = "passed" THEN "gate" ELSE "unset"
<1>1. item[w].phase = "setup"
  BY DEF SetUp
<1>2. /\ t \in Test /\ session[w] \in SessionType /\ session \in [Worker -> SessionType]
      /\ LoggedIn(item[w], session[w]) /\ Addresses(item[w], session[w])
  BY <1>1, Busy DEF InOrder
<1>3. /\ Marks(t) = {} /\ (options.corpus => ToSet(session[w].wsa) = {})
      /\ (session[w].dut = "up" /\ options.user => session[w].auth # Undecided)
  BY <1>1, <1>2 DEF LoggedIn, Addresses
<1>4. o = IF options.corpus THEN "passed" ELSE "failed"
  BY DEF Prepared
<1>5. CASE session[w].dut = "up" /\ SetUpEnds(w, Prepared) /\ UNCHANGED <<session, unsigned>>
  <2>1. session' = [session EXCEPT ![w] = session[w]]
    BY <1>2, <1>5
  <2>2. SetsUp(w, session[w], p)
    <3>1. CASE options.corpus
      BY <1>2, <1>3, <1>4, <1>5, <2>1, <3>1, SetUpEnding DEF SetsUp, Marks, TypeOK
    <3>2. CASE ~options.corpus
      BY <1>2, <1>3, <1>4, <1>5, <2>1, <3>2, SetUpEnding DEF SetsUp, Marks, TypeOK
    <3> QED
      BY <3>1, <3>2
  <2> QED
    BY <2>2
<1>6. CASE session[w].dut = "down" /\ SetUpEnds(w, "skipped") /\ UNCHANGED <<session, unsigned>>
  <2>1. session' = [session EXCEPT ![w] = session[w]]
    BY <1>2, <1>6
  <2>2. SetsUp(w, session[w], "unset")
    BY <1>2, <1>3, <1>6, <2>1, SetUpEnding DEF SetsUp, Marks, TypeOK
  <2> QED
    BY <2>2
<1>7. CASE /\ session' = [session EXCEPT ![w].dut = "down"] /\ SetUpEnds(w, "skipped")
           /\ UNCHANGED unsigned
  <2> DEFINE s == [session[w] EXCEPT !.dut = "down"]
  <2>1. s \in SessionType /\ s.dut = "down" /\ s.wsa = session[w].wsa
    BY <1>2 DEF SessionType
  <2>2. session' = [session EXCEPT ![w] = s]
    BY <1>7
  <2> HIDE DEF s
  <2>3. SetsUp(w, s, "unset")
    BY <1>2, <1>3, <1>7, <2>1, <2>2, SetUpEnding DEF SetsUp, Marks, TypeOK
  <2> QED
    BY <2>3
<1>8. ASSUME NEW a \in Answers, NEW adv \in SUBSET Service, NEW known \in BOOLEAN,
             NEW auth \in Verdict, NEW bad \in SUBSET adv,
             session' = [session EXCEPT ![w] = Discovered(t, a, adv, bad, known, auth)],
             unsigned' = unsigned \cup {by \in {Fixtures(t)} : a.wsa},
             \/ /\ MustExit(auth) /\ stopping' = TRUE /\ wire' = wire
                /\ item' = [item EXCEPT ![w].phase = "exited"]
             \/ ~MustExit(auth) /\ SetUpEnds(w, Prepared)
      PROVE  \E s, q : q \in {"gate", "unset", "exited"} /\ SetsUp(w, s, q)
  <2> DEFINE s == Discovered(t, a, adv, bad, known, auth)
  <2>1. bad \in SUBSET Service
    OBVIOUS
  <2>2. /\ s \in SessionType /\ s.dut = "up" /\ s.auth = auth
        /\ \A by : by \in ToSet(s.wsa) <=> by = Fixtures(t) /\ a.wsa
    BY <1>2, <2>1, DiscoveredTyped
  <2>3. session' = [session EXCEPT ![w] = s]
    BY <1>8
  <2> HIDE DEF s
  <2>4. Fixtures(t) \in By /\ Fixtures(t).test = t
    BY <1>2, Askers
  <2>5. /\ unsigned' \in SUBSET By /\ \A u \in Test \ {t} : Marks(u)' = Marks(u)
        /\ ToSet(s.wsa) = {by \in unsigned' : by.test = t}
    BY <1>3, <2>2, <1>8, <2>4 DEF Marks, TypeOK
  <2>6. ~MustExit(auth) => (options.user => s.auth # Undecided)
    BY <2>2 DEF MustExit
  <2>7. CASE /\ stopping' = TRUE /\ wire' = wire
             /\ item' = [item EXCEPT ![w].phase = "exited"]
    <3>1. SetsUp(w, s, "exited")
      BY <2>2, <2>3, <2>5, <2>7 DEF SetsUp
    <3> QED
      BY <3>1
  <2>8. CASE ~MustExit(auth) /\ SetUpEnds(w, Prepared)
    <3>1. CASE options.corpus
      <4>1. SetsUp(w, s, "gate")
        BY <1>4, <2>2, <2>3, <2>5, <2>6, <2>8, <3>1, SetUpEnding DEF SetsUp
      <4> QED
        BY <4>1
    <3>2. CASE ~options.corpus
      <4>1. SetsUp(w, s, "unset")
        BY <1>4, <2>2, <2>3, <2>5, <2>6, <2>8, <3>2, SetUpEnding DEF SetsUp
      <4> QED
        BY <4>1
    <3> QED
      BY <3>1, <3>2
  <2> QED
    BY <1>8, <2>7, <2>8
<1> QED
  BY <1>5, <1>6, <1>7, <1>8, Zenon DEF SetUp

\* A setup keeps everything in order; one that does not pass is recorded.
LEMMA SetUpStep ==
  ASSUME TypeOK, RunInv, NEW w \in Worker, SetUp(w)
  PROVE  TypeOK' /\ RunInv' /\ (Quiet \/ Speaks(w))
<1> DEFINE t == item[w].test
<1>1. /\ item[w].phase = "setup"
      /\ UNCHANGED <<options, pending, results, authState, payload, received, ran, crashed>>
  BY DEF SetUp
<1>2. PICK s, p : p \in {"gate", "unset", "exited"} /\ SetsUp(w, s, p)
  BY SetUpDoes
<1>0. PICK i : i = [item[w] EXCEPT !.phase = p]
  OBVIOUS
<1>3. /\ t \in Test /\ item[w] \in ItemType /\ Untouched(t)
      /\ item \in [Worker -> ItemType] /\ wire \in [Worker -> Seq(MessageType)]
  BY <1>1, Busy DEF InOrder, Judges
<1>4. /\ i \in ItemType /\ i.phase = p /\ i.test = t
      /\ item' = [item EXCEPT ![w] = i]
  BY <1>0, <1>2, <1>3 DEF SetsUp, ItemType
<1>5. Goes(w, i, s) /\ stopping' \in BOOLEAN
  <2>1. (stopping => stopping') /\ stopping' \in BOOLEAN
    <3>1. stopping' = TRUE \/ stopping' = stopping
      BY <1>2 DEF SetsUp
    <3>2. stopping \in BOOLEAN
      BY DEF TypeOK
    <3>3. CASE stopping' = TRUE
      BY <3>3
    <3>4. CASE stopping' = stopping
      BY <3>2, <3>4
    <3> QED
      BY <3>1, <3>3, <3>4
  <2>2. /\ s \in SessionType /\ session' = [session EXCEPT ![w] = s]
        /\ \A u \in Test \ {t} : Marks(u)' = Marks(u)
    BY <1>2 DEF SetsUp
  <2> QED
    BY <1>1, <1>4, <2>1, <2>2 DEF Goes
<1>6. InOrder(i, s)'
  <2>1. Untouched(t) /\ UNCHANGED <<ran, received, options>>
    BY <1>1, <1>3
  <2>2. LoggedIn(i, s)'
    BY <1>1, <1>2, <1>4 DEF SetsUp, LoggedIn
  <2>3. Judges(i, s)'
    BY <1>2, <1>4, <2>1 DEF Judges, Untouched
  <2>4. Addresses(i, s)'
    BY <1>1, <1>2, <1>4 DEF SetsUp, Addresses, Marks, Reported
  <2> QED
    BY <2>2, <2>3, <2>4 DEF InOrder
<1>7. ConsentInv' /\ Lost' = Lost /\ (i.phase = "exited" => stopping')
  BY <1>1, <1>2, <1>4, LostKept DEF SetsUp, ConsentInv, RunInv
<1>8. CASE p # "unset"
  <2>1. Quiet
    BY <1>1, <1>2, <1>8 DEF SetsUp, Quiet
  <2>2. Logged' = Logged /\ wire' = wire
    BY <2>1, LoggedKept DEF Quiet
  <2>3. GoesOn(w, i)
    BY <1>1, <1>2, <1>4, <1>7, <1>8, <2>2 DEF GoesOn, Reported
  <2>4. RunInv'
    BY <1>1, <1>5, <1>6, <1>7, <2>3, OneWorker
  <2>5. TypeOK'
    BY <1>1, <1>2, <1>5, <2>2, OneWorkerType DEF SetsUp, TypeOK
  <2> QED
    BY <2>1, <2>4, <2>5
<1>9. CASE p = "unset"
  <2>1. PICK o \in {"failed", "skipped"} :
          wire' = [wire EXCEPT ![w] = Append(@, Message("setup", t, o, NoStash))]
    BY <1>2, <1>9 DEF SetsUp
  <2>10. PICK m, rec : m = Message("setup", t, o, NoStash) /\ rec = Record(m)
    OBVIOUS
  <2>2. /\ m \in MessageType /\ m.report.id = t /\ rec.id = t
        /\ rec.status = o /\ ~rec.called
    BY <1>3, <2>10, NewTypes, MessageTyped DEF Status
  <2>3. wire' = [wire EXCEPT ![w] = Append(@, m)]
    BY <2>1, <2>10
  <2>4. Logged' = Logged \cup {rec} /\ wire' \in [Worker -> Seq(MessageType)]
    BY <1>1, <2>2, <2>3, <2>10, LoggedGrows
  <2>5. Truthful(rec)'
    BY <1>1, <1>3, <2>2 DEF Truthful, Untouched
  <2>6. Tells(w, i)
    <3>1. /\ item[w].phase \notin Reported /\ i.phase \in Reported /\ i.test = item[w].test
          /\ Lost' = Lost
      BY <1>1, <1>4, <1>7, <1>9 DEF Reported
    <3>2. /\ rec.id = item[w].test /\ Truthful(rec)'
          /\ Logged' = Logged \cup {rec}
      BY <2>2, <2>4, <2>5
    <3> QED
      BY <3>1, <3>2 DEF Tells
  <2>7. RunInv'
    BY <1>1, <1>5, <1>6, <1>7, <2>6, OneWorker
  <2>8. TypeOK'
    BY <1>1, <1>2, <1>5, <2>4, OneWorkerType DEF SetsUp, TypeOK
  <2>9. Speaks(w)
    <3>1. \A r \in Logged : r.id # m.report.id
      BY <1>1, <2>2, Unheard DEF Reported
    <3> QED
      BY <1>1, <2>2, <2>3, <3>1 DEF Speaks
  <2> QED
    BY <2>7, <2>8, <2>9
<1> QED
  BY <1>8, <1>9

\* A step of the body, or of the loop before it, that says nothing.
LEMMA SilentStep ==
  ASSUME TypeOK, RunInv, NEW w \in Worker, NEW i, NEW s, Goes(w, i, s),
         item[w].phase \in {"gate", "body"}, i.phase \in {"body", "ended"},
         i.test = item[w].test, InOrder(i, s)', ConsentInv',
         received' \in [Test -> SUBSET Receipt], unsigned' \in SUBSET By,
         ran' \in SUBSET Test, UNCHANGED <<results, authState, wire, stopping, crashed>>
  PROVE  TypeOK' /\ RunInv' /\ Quiet
<1>1. Logged' = Logged /\ Lost' = Lost
  BY LoggedKept, LostKept
<1>2. GoesOn(w, i)
  BY <1>1 DEF GoesOn, Reported
<1>3. RunInv'
  BY <1>2, OneWorker
<1>4. TypeOK'
  BY OneWorkerType DEF TypeOK
<1> QED
  BY <1>3, <1>4 DEF Quiet, Goes

\* A test passes the gates or does not.
LEMMA GateStep ==
  ASSUME TypeOK, RunInv, NEW w \in Worker, Gate(w)
  PROVE  TypeOK' /\ RunInv' /\ Quiet
<1> DEFINE t == item[w].test
<1>1. /\ item[w].phase = "gate"
      /\ UNCHANGED <<options, wire, pending, stopping, results, authState, payload,
                     received, unsigned, crashed>>
  BY DEF Gate
<1>2. /\ t \in Test /\ item[w] \in ItemType /\ session[w] \in SessionType
      /\ item \in [Worker -> ItemType] /\ session \in [Worker -> SessionType]
      /\ LoggedIn(item[w], session[w]) /\ Judges(item[w], session[w])
      /\ Addresses(item[w], session[w])
  BY <1>1, Busy DEF InOrder
<1>3. t \notin ran /\ received[t] = {}
  BY <1>1, <1>2 DEF Judges, Untouched
<1>4. ASSUME NEW o \in {"failed", "skipped"}, UNCHANGED <<session, ran>>,
             item' = [item EXCEPT ![w].phase = "ended", ![w].outcome = o]
      PROVE  TypeOK' /\ RunInv' /\ Quiet
  <2>0. PICK i, s : i = [item[w] EXCEPT !.phase = "ended", !.outcome = o] /\ s = session[w]
    OBVIOUS
  <2>1. /\ i \in ItemType /\ i.phase = "ended" /\ i.outcome = o /\ i.test = t
        /\ item' = [item EXCEPT ![w] = i] /\ session' = [session EXCEPT ![w] = s]
    BY <1>2, <1>4, <2>0 DEF ItemType, Status
  <2>2. Goes(w, i, s)
    BY <1>1, <1>2, <1>4, <2>0, <2>1 DEF Goes, Marks
  <2>3. InOrder(i, s)'
    <3>1. LoggedIn(i, s)'
      BY <1>1, <1>2, <1>4, <2>0, <2>1 DEF LoggedIn
    <3>2. Judges(i, s)'
      BY <1>1, <1>3, <1>4, <2>1 DEF Judges
    <3>3. Addresses(i, s)'
      BY <1>1, <1>2, <1>4, <2>0, <2>1 DEF Addresses, Marks, Reported
    <3> QED
      BY <3>1, <3>2, <3>3 DEF InOrder
  <2>4. ConsentInv'
    BY <1>1, <1>4 DEF ConsentInv, RunInv
  <2> QED
    BY <1>1, <1>4, <2>1, <2>2, <2>3, <2>4, SilentStep DEF TypeOK
<1>5. CASE /\ Consented(t) /\ ran' = ran \cup {t}
           /\ session' = [session EXCEPT ![w] = Cleared(@)]
           /\ item' = [item EXCEPT ![w].phase = "body", ![w].xfail = ExpectedToFail(w)]
  <2>0. PICK i, s : /\ i = [item[w] EXCEPT !.phase = "body", !.xfail = ExpectedToFail(w)]
                    /\ s = Cleared(session[w])
    OBVIOUS
  <2>1. ExpectedToFail(w) \in BOOLEAN
    BY <1>2 DEF ExpectedToFail, SessionType
  <2>2. /\ i \in ItemType /\ i.phase = "body" /\ i.test = t
        /\ item' = [item EXCEPT ![w] = i]
    BY <1>2, <1>5, <2>0, <2>1 DEF ItemType
  <2>3. /\ s \in SessionType /\ s.dut = session[w].dut /\ s.auth = session[w].auth
        /\ s.enabled = options.validate /\ s.schema = <<>> /\ s.wsa = session[w].wsa
        /\ session' = [session EXCEPT ![w] = s]
    <3>1. options.validate \in BOOLEAN /\ <<>> \in Seq(SchemaViolation)
      BY DEF TypeOK, Options
    <3> QED
      BY <1>2, <1>5, <2>0, <3>1 DEF Cleared, SessionType
  <2>4. Goes(w, i, s)
    BY <1>1, <1>5, <2>2, <2>3 DEF Goes, Marks
  <2>5. InOrder(i, s)'
    <3>1. LoggedIn(i, s)'
      BY <1>1, <1>2, <2>2, <2>3 DEF LoggedIn
    <3>2. ToSet(s.schema) = {} /\ {v.defect : v \in ToSet(s.schema)} = {}
      BY <2>3, EmptyToSet
    <3>3. Blames(s.schema, i.test)'
      <4>1. received'[i.test] = {}
        BY <1>1, <1>3, <2>2
      <4> QED
        BY <3>2, <4>1 DEF Blames, Shown
    <3>4. Judges(i, s)'
      BY <1>1, <1>5, <2>2, <2>3, <3>3 DEF Judges
    <3>5. Addresses(i, s)'
      BY <1>1, <1>2, <2>2, <2>3 DEF Addresses, Marks, Reported
    <3> QED
      BY <3>1, <3>4, <3>5 DEF InOrder
  <2>6. ConsentInv'
    BY <1>1, <1>5 DEF ConsentInv, Consented, RunInv
  <2>7. ran' \in SUBSET Test
    BY <1>2, <1>5 DEF TypeOK
  <2> QED
    BY <1>1, <2>2, <2>4, <2>5, <2>6, <2>7, SilentStep DEF TypeOK
<1> QED
  BY <1>4, <1>5 DEF Gate

\* What the body saw of an exchange goes where its session looks for it.
LEMMA Blamed ==
  ASSUME NEW old, NEW new, NEW who, NEW D,
         \A v \in new : v.defect \in D /\ v.by = who,
         \A d \in D : \E v \in new : v.defect = d,
         \A v \in old : v.by = who
  PROVE  /\ \A v \in old \cup new : v.by = who
         /\ {v.defect : v \in old \cup new} = {v.defect : v \in old} \cup D
OBVIOUS

\* So does what it received.
LEMMA ShownGrows ==
  ASSUME NEW t \in Test, NEW D, NEW via \in {"session", "aside"},
         received \in [Test -> SUBSET Receipt],
         received' = [received EXCEPT ![t] = @ \cup {[defect |-> d, via |-> via] : d \in D}]
  PROVE  /\ Shown(t)' = IF via = "session" THEN Shown(t) \cup D ELSE Shown(t)
         /\ \A u \in Test \ {t} : received'[u] = received[u]
<1> DEFINE R == {[defect |-> d, via |-> via] : d \in D}
<1>1. received'[t] = received[t] \cup R /\ \A u \in Test \ {t} : received'[u] = received[u]
  OBVIOUS
<1>2. \A r \in R : r.via = via /\ r.defect \in D
  OBVIOUS
<1>3. \A d \in D : \E r \in R : r.defect = d /\ r.via = via
  <2> SUFFICES ASSUME NEW d \in D
               PROVE  \E r \in R : r.defect = d /\ r.via = via
    OBVIOUS
  <2>1. [defect |-> d, via |-> via] \in R
    OBVIOUS
  <2> QED
    BY <2>1
<1> HIDE DEF R
<1>4. CASE via = "session"
  BY <1>1, <1>2, <1>3, <1>4 DEF Shown
<1>5. CASE via = "aside"
  BY <1>1, <1>2, <1>5 DEF Shown
<1> QED
  BY <1>1, <1>4, <1>5


\* An exchange through the session is seen by its validators.
LEMMA ThroughStep ==
  ASSUME TypeOK, RunInv, NEW w \in Worker, Exchange(w), ThroughSession(w, item[w].test)
  PROVE  TypeOK' /\ RunInv' /\ Quiet
<1>1. /\ item[w].phase = "body" /\ item[w].calls < MaxCalls
      /\ item' = [item EXCEPT ![w].calls = @ + 1]
      /\ UNCHANGED <<options, wire, pending, stopping, results, authState, payload,
                     ran, crashed>>
  BY DEF Exchange
<1>2. PICK t : t = item[w].test
  OBVIOUS
<1>3. PICK a \in Answers, auth \in Verdict :
        /\ session[w].auth # Undecided => auth = session[w].auth
        /\ session' = [session EXCEPT ![w] = [Observe(@, Body(t), a) EXCEPT !.auth = auth]]
        /\ received' = [received EXCEPT
                          ![t] = @ \cup {[defect |-> d, via |-> "session"] : d \in a.defect}]
        /\ unsigned' = unsigned \cup {by \in {Body(t)} : a.wsa}
  BY <1>2 DEF ThroughSession
<1>4. /\ t \in Test /\ item[w] \in ItemType /\ session[w] \in SessionType
      /\ item \in [Worker -> ItemType] /\ session \in [Worker -> SessionType]
      /\ received \in [Test -> SUBSET Receipt]
      /\ LoggedIn(item[w], session[w]) /\ Judges(item[w], session[w])
      /\ Addresses(item[w], session[w])
  BY <1>1, <1>2, Busy DEF InOrder, TypeOK
<1>5. PICK i, o, s : /\ i = [item[w] EXCEPT !.calls = @ + 1]
                     /\ o = Observe(session[w], Body(t), a)
                     /\ s = [o EXCEPT !.auth = auth]
  OBVIOUS
<1>6. /\ i \in ItemType /\ i.phase = "body" /\ i.test = t /\ i.outcome = item[w].outcome
      /\ item' = [item EXCEPT ![w] = i]
  BY <1>1, <1>2, <1>4, <1>5, RunAssumption DEF ItemType
<1>7. /\ Body(t) \in By /\ Body(t).test = t
  BY <1>4, Askers
<1>8. /\ a.defect \subseteq Defect /\ o \in SessionType /\ o.dut = session[w].dut
      /\ o.enabled = session[w].enabled
      /\ session[w].enabled => ToSet(o.schema)
            = ToSet(session[w].schema) \cup {[defect |-> d, by |-> Body(t)] : d \in a.defect}
      /\ ToSet(o.wsa) = ToSet(session[w].wsa) \cup {by \in {Body(t)} : a.wsa}
  <2>1. PICK who, old : who = Body(t) /\ old = session[w]
    OBVIOUS
  <2>2. who \in By /\ old \in SessionType /\ o = Observe(old, who, a)
    BY <1>4, <1>5, <1>7, <2>1
  <2> QED
    BY <2>1, <2>2, ObserveAdds
<1>9. /\ s \in SessionType /\ s.dut = session[w].dut /\ s.enabled = session[w].enabled
      /\ s.schema = o.schema /\ s.wsa = o.wsa /\ s.auth = auth
      /\ session' = [session EXCEPT ![w] = s]
  BY <1>3, <1>5, <1>8 DEF SessionType
<1>10. /\ Shown(t)' = Shown(t) \cup a.defect
       /\ \A u \in Test \ {t} : received'[u] = received[u]
  BY <1>3, <1>4, ShownGrows
<1>11. \A u \in Test : Marks(u)' = Marks(u) \cup {by \in {Body(t)} : a.wsa /\ u = t}
  BY <1>3, <1>7 DEF Marks
<1>12. Goes(w, i, s)
  <2>1. \A u \in Test \ {t} : Marks(u)' = Marks(u)
    BY <1>11
  <2> QED
    BY <1>1, <1>2, <1>6, <1>9, <1>10, <2>1 DEF Goes
<1>13. InOrder(i, s)'
  <2>1. LoggedIn(i, s)'
    BY <1>1, <1>3, <1>4, <1>6, <1>9 DEF LoggedIn
  <2>2. Blames(s.schema, t)'
    <3>1. Blames(session[w].schema, t) /\ session[w].enabled = options.validate
      BY <1>1, <1>2, <1>4 DEF Judges
    <3>2. SUFFICES ASSUME options.validate
                   PROVE  /\ {v.defect : v \in ToSet(s.schema)} = Shown(t)'
                          /\ \A v \in ToSet(s.schema) : v.by = Body(t)
      BY <1>1 DEF Blames
    <3>3. /\ {v.defect : v \in ToSet(session[w].schema)} = Shown(t)
          /\ \A v \in ToSet(session[w].schema) : v.by = Body(t)
      BY <3>1, <3>2 DEF Blames
    <3>4. PICK new : new = {[defect |-> d, by |-> Body(t)] : d \in a.defect}
      OBVIOUS
    <3>5. ToSet(s.schema) = ToSet(session[w].schema) \cup new
      BY <1>8, <1>9, <3>1, <3>2, <3>4
    <3>6. PICK old, D, who : /\ old = ToSet(session[w].schema) /\ D = a.defect
                             /\ who = Body(t)
      OBVIOUS
    <3>7. /\ \A v \in old \cup new : v.by = who
          /\ {v.defect : v \in old \cup new} = {v.defect : v \in old} \cup D
      <4>1. /\ \A v \in new : v.defect \in D /\ v.by = who
            /\ \A v \in old : v.by = who
        BY <3>3, <3>4, <3>6
      <4>2. ASSUME NEW d \in D
            PROVE  \E v \in new : v.defect = d
        <5>1. [defect |-> d, by |-> who] \in new
          BY <3>4, <3>6
        <5> QED
          BY <5>1
      <4> QED
        BY <4>1, <4>2, Blamed
    <3>8. ToSet(s.schema) = old \cup new
      BY <3>5, <3>6
    <3> QED
      BY <1>10, <3>3, <3>6, <3>7, <3>8
  <2>3. Judges(i, s)'
    BY <1>1, <1>2, <1>4, <1>6, <1>9, <2>2 DEF Judges
  <2>4. Addresses(i, s)'
    <3>1. ToSet(session[w].wsa) = Marks(t)
      BY <1>1, <1>2, <1>4 DEF Addresses
    <3>2. ToSet(s.wsa) = Marks(t)'
      BY <1>4, <1>8, <1>9, <1>11, <3>1
    <3> QED
      BY <1>6, <3>2 DEF Addresses, Reported
  <2> QED
    BY <2>1, <2>3, <2>4 DEF InOrder
<1>14. received' \in [Test -> SUBSET Receipt]
  <2>1. {[defect |-> d, via |-> "session"] : d \in a.defect} \subseteq Receipt
    BY <1>8 DEF Receipt
  <2> QED
    BY <1>3, <1>4, <2>1
<1>15. unsigned' \in SUBSET By /\ ran' \in SUBSET Test /\ ConsentInv'
  BY <1>1, <1>3, <1>7 DEF TypeOK, ConsentInv, RunInv
<1> QED
  BY <1>1, <1>2, <1>6, <1>12, <1>13, <1>14, <1>15, SilentStep

\* One past it is seen by none.
LEMMA AsideStep ==
  ASSUME TypeOK, RunInv, NEW w \in Worker, Exchange(w), Aside(item[w].test)
  PROVE  TypeOK' /\ RunInv' /\ Quiet
<1>1. /\ item[w].phase = "body" /\ item[w].calls < MaxCalls
      /\ item' = [item EXCEPT ![w].calls = @ + 1]
      /\ UNCHANGED <<options, wire, pending, stopping, results, authState, payload,
                     ran, crashed, session, unsigned>>
  BY DEF Exchange, Aside
<1>2. PICK t : t = item[w].test
  OBVIOUS
<1>3. PICK a \in Answers :
        received' = [received EXCEPT
                       ![t] = @ \cup {[defect |-> d, via |-> "aside"] : d \in a.defect}]
  BY <1>2 DEF Aside
<1>4. /\ t \in Test /\ item[w] \in ItemType /\ session[w] \in SessionType
      /\ item \in [Worker -> ItemType] /\ session \in [Worker -> SessionType]
      /\ received \in [Test -> SUBSET Receipt]
      /\ LoggedIn(item[w], session[w]) /\ Judges(item[w], session[w])
      /\ Addresses(item[w], session[w])
  BY <1>1, <1>2, Busy DEF InOrder, TypeOK
<1>5. PICK i, s : i = [item[w] EXCEPT !.calls = @ + 1] /\ s = session[w]
  OBVIOUS
<1>6. /\ i \in ItemType /\ i.phase = "body" /\ i.test = t /\ i.outcome = item[w].outcome
      /\ item' = [item EXCEPT ![w] = i] /\ session' = [session EXCEPT ![w] = s]
  BY <1>1, <1>2, <1>4, <1>5, RunAssumption DEF ItemType
<1>7. /\ Shown(t)' = Shown(t)
      /\ \A u \in Test \ {t} : received'[u] = received[u]
  BY <1>3, <1>4, ShownGrows
<1>8. \A u \in Test : Marks(u)' = Marks(u)
  BY <1>1 DEF Marks
<1>9. Goes(w, i, s)
  BY <1>1, <1>2, <1>4, <1>5, <1>6, <1>7, <1>8 DEF Goes
<1>10. InOrder(i, s)'
  <2>1. LoggedIn(i, s)'
    BY <1>1, <1>4, <1>5, <1>6 DEF LoggedIn
  <2>2. Blames(s.schema, t)'
    BY <1>1, <1>2, <1>4, <1>5, <1>7 DEF Judges, Blames
  <2>3. Judges(i, s)'
    BY <1>1, <1>2, <1>4, <1>5, <1>6, <2>2 DEF Judges
  <2>4. Addresses(i, s)'
    BY <1>1, <1>2, <1>4, <1>5, <1>6, <1>8 DEF Addresses, Reported
  <2> QED
    BY <2>1, <2>3, <2>4 DEF InOrder
<1>11. received' \in [Test -> SUBSET Receipt]
  <2>1. a.defect \subseteq Defect
    BY <1>3, <1>4, NewTypes, Askers, ObserveAdds
  <2>2. {[defect |-> d, via |-> "aside"] : d \in a.defect} \subseteq Receipt
    BY <2>1 DEF Receipt
  <2> QED
    BY <1>3, <1>4, <2>2
<1>12. unsigned' \in SUBSET By /\ ran' \in SUBSET Test /\ ConsentInv'
  BY <1>1 DEF TypeOK, ConsentInv, RunInv
<1> QED
  BY <1>1, <1>2, <1>6, <1>9, <1>10, <1>11, <1>12, SilentStep

\* Either way the test is blamed for what its session saw.
LEMMA ExchangeStep ==
  ASSUME TypeOK, RunInv, NEW w \in Worker, Exchange(w)
  PROVE  TypeOK' /\ RunInv' /\ Quiet
BY ThroughStep, AsideStep DEF Exchange

\* The body ends, and the check after it and the wrapper around both judge it.
LEMMA BodyEndsStep ==
  ASSUME TypeOK, RunInv, NEW w \in Worker, NEW o \in {"passed", "failed", "skipped"},
         BodyEnds(w, o)
  PROVE  TypeOK' /\ RunInv' /\ Quiet
<1>1. /\ item[w].phase = "body"
      /\ UNCHANGED <<options, session, wire, pending, stopping, results, authState,
                     payload, received, unsigned, ran, crashed>>
  BY DEF BodyEnds, history
<1>2. PICK t, j, out, i, s :
        /\ t = item[w].test /\ j = Judged(w, o) /\ s = session[w]
        /\ out = (IF item[w].xfail /\ j # "passed" THEN "xfailed" ELSE j)
        /\ i = [item[w] EXCEPT !.phase = "ended", !.outcome = out]
  OBVIOUS
<1>3. /\ t \in Test /\ item[w] \in ItemType /\ session[w] \in SessionType
      /\ item \in [Worker -> ItemType] /\ session \in [Worker -> SessionType]
      /\ LoggedIn(item[w], session[w]) /\ Judges(item[w], session[w])
      /\ Addresses(item[w], session[w])
  BY <1>1, <1>2, Busy DEF InOrder
<1>4. /\ j \in {"passed", "failed", "skipped"}
      /\ j = "passed" /\ options.validate => s.schema = <<>>
  BY <1>2 DEF Judged
<1>5. out \in Status /\ (out = "passed" => j = "passed")
  BY <1>2, <1>4 DEF Status
<1>6. item' = [item EXCEPT ![w] = i]
  BY <1>2 DEF BodyEnds
<1>7. i \in ItemType /\ i.phase = "ended" /\ i.test = t /\ i.outcome = out
  BY <1>2, <1>3, <1>5 DEF ItemType
<1>8. session' = [session EXCEPT ![w] = s]
  BY <1>1, <1>2, <1>3
<1>9. Goes(w, i, s)
  BY <1>1, <1>2, <1>3, <1>6, <1>7, <1>8 DEF Goes, Marks
<1>10. InOrder(i, s)'
  <2>1. LoggedIn(i, s)'
    BY <1>1, <1>2, <1>3, <1>7 DEF LoggedIn
  <2>2. t \in ran /\ Blames(s.schema, t)
    BY <1>1, <1>2, <1>3 DEF Judges
  <2>3. out = "passed" /\ options.validate => Shown(t) = {}
    <3> SUFFICES ASSUME out = "passed", options.validate
                 PROVE  Shown(t) = {}
      OBVIOUS
    <3>1. ToSet(s.schema) = {}
      BY <1>4, <1>5, EmptyToSet
    <3> QED
      BY <2>2, <3>1 DEF Blames
  <2>4. Judges(i, s)'
    BY <1>1, <1>7, <2>2, <2>3 DEF Judges, Blames, Shown
  <2>5. Addresses(i, s)'
    BY <1>1, <1>2, <1>3, <1>7 DEF Addresses, Marks, Reported
  <2> QED
    BY <2>1, <2>4, <2>5 DEF InOrder
<1>11. ConsentInv'
  BY <1>1 DEF ConsentInv, RunInv
<1> QED
  BY <1>1, <1>2, <1>7, <1>9, <1>10, <1>11, SilentStep DEF TypeOK

\* The report of the call takes what the session says of the test.
LEMMA MakeReportStep ==
  ASSUME TypeOK, RunInv, NEW w \in Worker, MakeReport(w)
  PROVE  TypeOK' /\ RunInv' /\ Speaks(w)
<1>1. /\ item[w].phase = "ended" /\ Send(w, "call", item[w].outcome, Stash(session[w]))
      /\ UNCHANGED <<options, pending, stopping, results, authState, payload,
                     received, unsigned, ran, crashed>>
  BY DEF MakeReport, history
<1>2. PICK t, o, st, i, s, m, rec :
        /\ t = item[w].test /\ o = item[w].outcome /\ st = Stash(session[w])
        /\ s = Stashed(session[w]) /\ i = [item[w] EXCEPT !.phase = "called"]
        /\ m = Message("call", t, o, st) /\ rec = Record(m)
  OBVIOUS
<1>3. /\ t \in Test /\ item[w] \in ItemType /\ session[w] \in SessionType
      /\ item \in [Worker -> ItemType] /\ session \in [Worker -> SessionType]
      /\ LoggedIn(item[w], session[w]) /\ Judges(item[w], session[w])
      /\ Addresses(item[w], session[w])
  BY <1>1, <1>2, Busy DEF InOrder
<1>4. /\ st \in StashType /\ s \in SessionType /\ st.schema = session[w].schema
      /\ st.auth = session[w].auth /\ st.wsa = session[w].wsa
      /\ s.dut = session[w].dut /\ s.auth = session[w].auth /\ ToSet(s.wsa) = {}
  BY <1>2, <1>3, StashTyped
<1>5. /\ i \in ItemType /\ i.phase = "called" /\ i.test = t /\ o \in Status
  BY <1>2, <1>3 DEF ItemType
<1>6. item' = [item EXCEPT ![w] = i] /\ session' = [session EXCEPT ![w] = s]
  BY <1>2 DEF MakeReport
<1>7. /\ m \in MessageType /\ m.report.id = t /\ rec.id = t /\ rec.status = o
      /\ rec.stash = st
  BY <1>2, <1>3, <1>4, <1>5, MessageTyped
<1>8. wire' = [wire EXCEPT ![w] = Append(@, m)]
  BY <1>1, <1>2, Sent
<1>9. Logged' = Logged \cup {rec} /\ wire' \in [Worker -> Seq(MessageType)]
  BY <1>1, <1>2, <1>7, <1>8, LoggedGrows
<1>10. Goes(w, i, s)
  BY <1>1, <1>2, <1>4, <1>5, <1>6 DEF Goes, Marks
<1>11. InOrder(i, s)'
  <2>1. LoggedIn(i, s)'
    BY <1>1, <1>3, <1>4, <1>5 DEF LoggedIn
  <2>2. Judges(i, s)'
    BY <1>5 DEF Judges
  <2>3. Addresses(i, s)'
    BY <1>4, <1>5 DEF Addresses
  <2> QED
    BY <2>1, <2>2, <2>3 DEF InOrder
<1>12. Truthful(rec)'
  <2>1. /\ t \in ran => Blames(st.schema, t)
        /\ o \in {"passed", "xfailed"} => t \in ran
        /\ o = "passed" /\ options.validate => Shown(t) = {}
    BY <1>1, <1>2, <1>3, <1>4 DEF Judges
  <2>2. options.user => st.auth # Undecided
    BY <1>1, <1>3, <1>4 DEF LoggedIn
  <2>3. ToSet(st.wsa) = Marks(t)
    BY <1>1, <1>2, <1>3, <1>4 DEF Addresses
  <2> QED
    BY <1>1, <1>7, <2>1, <2>2, <2>3 DEF Truthful, Blames, Shown, Marks
<1>13. Lost' = Lost /\ ConsentInv'
  BY <1>1, LostKept DEF ConsentInv, RunInv
<1>14. Tells(w, i)
  BY <1>1, <1>2, <1>5, <1>7, <1>9, <1>12, <1>13 DEF Tells, Reported
<1>15. RunInv'
  BY <1>1, <1>5, <1>10, <1>11, <1>13, <1>14, OneWorker
<1>16. TypeOK'
  BY <1>1, <1>9, <1>10, OneWorkerType DEF TypeOK
<1>17. Speaks(w)
  <2>1. \A r \in Logged : r.id # m.report.id
    BY <1>1, <1>2, <1>7, Unheard DEF Reported
  <2> QED
    BY <1>1, <1>7, <1>8, <2>1 DEF Speaks
<1> QED
  BY <1>15, <1>16, <1>17

\* The teardown frees the worker; nothing is kept of it.
LEMMA TearDownStep ==
  ASSUME TypeOK, RunInv, NEW w \in Worker, TearDown(w)
  PROVE  TypeOK' /\ RunInv' /\ Quiet
<1>1. /\ item[w].phase \in Reported /\ Send(w, "teardown", "passed", NoStash)
      /\ item' = [item EXCEPT ![w] = NoItem]
      /\ UNCHANGED <<options, session, pending, stopping, results, authState, payload,
                     received, unsigned, ran, crashed>>
  BY DEF TearDown, Reported, history
<1>2. PICK s : s = session[w]
  OBVIOUS
<1>3. /\ session[w] \in SessionType /\ session \in [Worker -> SessionType]
      /\ LoggedIn(item[w], session[w]) /\ Addresses(item[w], session[w])
  BY <1>1, Busy DEF InOrder, Reported
<1>4. NoItem \in ItemType /\ NoItem.phase = "idle"
  BY NewTypes DEF NoItem
<1>5. wire' = wire
  BY <1>1, Sent
<1>6. session' = [session EXCEPT ![w] = s]
  BY <1>1, <1>2, <1>3
<1>7. Goes(w, NoItem, s)
  BY <1>1, <1>2, <1>3, <1>4, <1>6 DEF Goes, Marks
<1>8. InOrder(NoItem, s)'
  <2>1. LoggedIn(NoItem, s)'
    BY <1>1, <1>2, <1>3, <1>4 DEF LoggedIn, Reported
  <2>2. Judges(NoItem, s)'
    BY <1>4 DEF Judges
  <2>3. Addresses(NoItem, s)'
    BY <1>1, <1>2, <1>3, <1>4 DEF Addresses
  <2> QED
    BY <2>1, <2>2, <2>3 DEF InOrder
<1>9. Logged' = Logged /\ Lost' = Lost /\ ConsentInv'
  BY <1>1, <1>5, LoggedKept, LostKept DEF ConsentInv, RunInv
<1>10. Leaves(w, NoItem)
  BY <1>1, <1>9 DEF Leaves
<1>11. RunInv'
  BY <1>1, <1>4, <1>7, <1>8, <1>9, <1>10, OneWorker DEF Reported
<1>12. TypeOK'
  BY <1>1, <1>5, <1>7, OneWorkerType DEF TypeOK
<1> QED
  BY <1>1, <1>5, <1>11, <1>12 DEF Quiet

\* A worker dies.  If the report of its test was not sent, the test is lost.
LEMMA CrashStep ==
  ASSUME TypeOK, RunInv, NEW w \in Worker, Crash(w)
  PROVE  TypeOK' /\ RunInv' /\ Quiet
<1>1. /\ item[w].phase \notin {"idle", "exited"} /\ Send(w, "???", "failed", NoStash)
      /\ item' = [item EXCEPT ![w] = NoItem]
      /\ session' = [session EXCEPT ![w] = NewSession]
      /\ UNCHANGED <<options, pending, stopping, results, authState, payload,
                     received, unsigned, ran>>
  BY DEF Crash
<1>2. PICK c : c = [test |-> item[w].test, phase |-> item[w].phase]
  OBVIOUS
<1>3. crashed' = crashed \cup {c}
  BY <1>2 DEF Crash
<1>4. /\ item[w].test \in Test /\ item[w] \in ItemType /\ item \in [Worker -> ItemType]
  BY <1>1, Busy
<1>5. /\ item[w].phase \in {"setup", "gate", "body", "ended"} \cup Reported
      /\ item[w].phase \in {"setup", "gate", "body", "ended"}
           <=> item[w].phase \notin Reported
      /\ c \in DeathType /\ c.test = item[w].test /\ c.phase = item[w].phase
  BY <1>1, <1>2, <1>4 DEF ItemType, Reported, DeathType
<1>6. /\ NoItem \in ItemType /\ NoItem.phase = "idle"
      /\ NewSession \in SessionType /\ NewSession.dut = "none" /\ NewSession.wsa = <<>>
  BY NewTypes DEF NoItem, NewSession
<1>7. wire' = wire
  BY <1>1, Sent
<1>8. Goes(w, NoItem, NewSession)
  BY <1>1, <1>6 DEF Goes, Marks
<1>9. InOrder(NoItem, NewSession)'
  <2>1. LoggedIn(NoItem, NewSession)'
    BY <1>6 DEF LoggedIn
  <2>2. Judges(NoItem, NewSession)'
    BY <1>6 DEF Judges
  <2>3. Addresses(NoItem, NewSession)'
    BY <1>6, EmptyToSet DEF Addresses
  <2> QED
    BY <2>1, <2>2, <2>3 DEF InOrder
<1>10. Logged' = Logged /\ ConsentInv'
  BY <1>1, <1>7, LoggedKept DEF ConsentInv, RunInv
<1>11. /\ item[w].phase \in Reported => Lost' = Lost
       /\ item[w].phase \notin Reported => Lost' = Lost \cup {item[w].test}
  BY <1>3, <1>5 DEF Lost
<1>12. Leaves(w, NoItem)
  BY <1>1, <1>10, <1>11 DEF Leaves
<1>13. RunInv'
  BY <1>1, <1>6, <1>8, <1>9, <1>10, <1>12, OneWorker
<1>14. TypeOK'
  BY <1>1, <1>3, <1>5, <1>7, <1>8, OneWorkerType DEF TypeOK
<1> QED
  BY <1>1, <1>7, <1>13, <1>14 DEF Quiet

------------------------------------------------------------------------------
\* A report reaches the controller: the same records, one fewer on its way.
LEMMA LogMoves ==
  ASSUME TypeOK, NEW w \in Worker, LogReport(w)
  PROVE  /\ Head(wire[w]) \in MessageType /\ Record(Head(wire[w])) \in RecordType
         /\ wire' = [wire EXCEPT ![w] = Tail(@)]
         /\ wire' \in [Worker -> Seq(MessageType)]
         /\ ToSet(wire[w]) = {Head(wire[w])} \cup ToSet(Tail(wire[w]))
         /\ results' = Append(results, Record(Head(wire[w])))
         /\ results' \in Seq(RecordType)
         /\ ToSet(results') = ToSet(results) \cup {Record(Head(wire[w]))}
         /\ authState' \in Verdict /\ Logged' = Logged
<1>1. PICK m, rec : m = Head(wire[w]) /\ rec = Record(m)
  OBVIOUS
<1>2. /\ wire \in [Worker -> Seq(MessageType)] /\ wire[w] \in Seq(MessageType)
      /\ wire[w] # <<>> /\ results \in Seq(RecordType) /\ authState \in Verdict
      /\ wire' = [wire EXCEPT ![w] = Tail(@)] /\ results' = Append(results, rec)
      /\ authState' = LastWriter(authState, rec)
  BY <1>1 DEF TypeOK, LogReport
<1>3. m \in MessageType /\ ToSet(wire[w]) = {m} \cup ToSet(Tail(wire[w]))
      /\ Tail(wire[w]) \in Seq(MessageType)
  BY <1>1, <1>2, ToSetTail
<1>4. rec \in RecordType
  BY <1>1, <1>3, RecordTyped
<1>5. /\ results' \in Seq(RecordType) /\ ToSet(results') = ToSet(results) \cup {rec}
  BY <1>2, <1>4, ToSetAppend
<1>6. authState' \in Verdict
  BY <1>2, <1>4 DEF LastWriter, RecordType, StashType
<1>7. wire' \in [Worker -> Seq(MessageType)]
  BY <1>2, <1>3
<1>8. /\ OnWire(w) = {rec} \cup OnWire(w)'
      /\ \A v \in Worker \ {w} : OnWire(v)' = OnWire(v)
  <2>1. wire'[w] = Tail(wire[w]) /\ \A v \in Worker \ {w} : wire'[v] = wire[v]
    BY <1>2
  <2> QED
    BY <1>1, <1>3, <2>1 DEF OnWire
<1>9. Logged' = Logged
  BY <1>5, <1>8 DEF Logged
<1> QED
  BY <1>1, <1>2, <1>3, <1>4, <1>5, <1>6, <1>7, <1>9

\* Nothing else moves.
LEMMA LogReportStep ==
  ASSUME TypeOK, RunInv, NEW w \in Worker, LogReport(w)
  PROVE  TypeOK' /\ RunInv' /\ payload = {} /\ payload' = {}
<1>1. /\ wire[w] # <<>>
      /\ UNCHANGED <<options, session, item, pending, stopping, payload,
                     received, unsigned, ran, crashed>>
  BY DEF LogReport, history
<1>2. TypeOK'
  BY <1>1, LogMoves DEF TypeOK
<1>3. payload = {}
  BY <1>1 DEF RunInv, FinishInv
<1>4. Logged' = Logged /\ Lost' = Lost
  BY <1>1, LogMoves, LostKept
<1>5. PlacesInv'
  BY <1>1 DEF RunInv, PlacesInv, Occupied
<1>6. /\ \A t \in pending' : (Untouched(t) /\ Marks(t) = {})'
      /\ ConsentInv' /\ \A v \in Worker : item'[v].phase = "exited" => stopping'
  BY <1>1 DEF RunInv, Untouched, Marks, ConsentInv
<1>7. ASSUME NEW v \in Worker
      PROVE  InOrder(item[v], session[v])'
  <2>1. InOrder(item[v], session[v]) /\ item'[v] = item[v] /\ session'[v] = session[v]
    BY <1>1 DEF RunInv
  <2>2. item[v].phase # "idle" => item[v].test \in Test
    BY DEF RunInv, PlacesInv, Occupied
  <2>3. \A u \in Test : /\ received'[u] = received[u] /\ (u \in ran' <=> u \in ran)
                       /\ Marks(u)' = Marks(u)
    BY <1>1 DEF Marks
  <2> QED
    BY <1>1, <2>1, <2>2, <2>3, Untroubled
<1>8. RecordsInv'
  <2> SUFFICES ASSUME NEW rec \in Logged
               PROVE  Settled(rec.id)' /\ Truthful(rec)'
    BY <1>4 DEF RecordsInv
  <2>1. Settled(rec.id) /\ Truthful(rec)
    BY DEF RunInv, RecordsInv
  <2> QED
    BY <1>1, <2>1 DEF Settled, Truthful, Blames, Shown, Marks
<1>9. LostInv'
  BY <1>1, <1>4 DEF RunInv, LostInv
<1>10. \A t \in Test : Placed(t)'
  BY <1>1, <1>4 DEF RunInv, Placed
<1>11. FinishInv'
  BY <1>1, <1>3 DEF FinishInv
<1> QED
  BY <1>1, <1>2, <1>3, <1>5, <1>6, <1>7, <1>8, <1>9, <1>10, <1>11 DEF RunInv

\* Nothing has been run, and nothing is on a wire: a run begins.
Fresh ==
  /\ options \in Options /\ authState = Undecided /\ stopping = FALSE
  /\ item = [w \in Worker |-> NoItem] /\ session = [w \in Worker |-> NewSession]
  /\ \A w \in Worker : wire[w] = <<>>
  /\ wire \in [Worker -> Seq(MessageType)]
  /\ pending = Test /\ payload = {} /\ results = <<>>
  /\ received = [t \in Test |-> {}] /\ ran = {} /\ unsigned = {} /\ crashed = {}

\* There is no record yet.
LEMMA FreshLogged == Fresh => Logged = {}
<1> SUFFICES ASSUME Fresh
             PROVE  Logged = {}
  OBVIOUS
<1>1. ToSet(results) = {} /\ \A w \in Worker : ToSet(wire[w]) = {}
  BY EmptyToSet DEF Fresh
<1>2. \A w \in Worker : OnWire(w) = {}
  BY <1>1 DEF OnWire
<1> QED
  BY <1>1, <1>2 DEF Logged

\* All is as it should be.
LEMMA FreshRun ==
  ASSUME Fresh
  PROVE  TypeOK /\ RunInv
<1>1. /\ NoItem \in ItemType /\ NewSession \in SessionType
      /\ NoItem.phase = "idle" /\ NoItem.test = Nobody /\ NewSession.dut = "none"
      /\ NewSession.wsa = <<>> /\ Nobody \notin Test
  BY NewTypes, RunAssumption DEF NoItem, NewSession
<1>2. TypeOK
  <2>1. results \in Seq(RecordType)
    BY DEF Fresh
  <2> QED
    BY <1>1, <2>1 DEF Fresh, TypeOK, Verdict
<1>3. /\ \A w \in Worker : item[w] = NoItem /\ session[w] = NewSession
      /\ Lost = {}
  BY DEF Fresh, Lost
<1>4. PlacesInv /\ ConsentInv /\ FinishInv
  BY <1>1, <1>3 DEF Fresh, PlacesInv, Occupied, ConsentInv, FinishInv
<1>5. \A t \in pending : Untouched(t) /\ Marks(t) = {}
  BY DEF Fresh, Untouched, Marks
<1>6. \A w \in Worker : InOrder(item[w], session[w])
  <2> SUFFICES ASSUME NEW w \in Worker
               PROVE  InOrder(NoItem, NewSession)
    BY <1>3
  <2>1. LoggedIn(NoItem, NewSession)
    BY <1>1 DEF LoggedIn
  <2>2. Judges(NoItem, NewSession)
    BY <1>1 DEF Judges
  <2>3. Addresses(NoItem, NewSession)
    BY <1>1, EmptyToSet DEF Addresses
  <2> QED
    BY <2>1, <2>2, <2>3 DEF InOrder
<1>7. RecordsInv /\ LostInv
  BY <1>3, FreshLogged DEF RecordsInv, LostInv
<1>8. \A t \in Test : Placed(t)
  BY DEF Fresh, Placed
<1>9. \A w \in Worker : item[w].phase = "exited" => stopping
  BY <1>1, <1>3
<1> QED
  BY <1>2, <1>4, <1>5, <1>6, <1>7, <1>8, <1>9 DEF RunInv

\* Another run in the process begins like the first.
LEMMA AgainFresh ==
  ASSUME TypeOK, RunInv, RunAgain
  PROVE  Fresh'
<1>1. \A w \in Worker : wire[w] = <<>>
  BY DEF RunAgain, RunInv, FinishInv
<1> QED
  BY <1>1 DEF RunAgain, SessionStart, Fresh, TypeOK

\* The report of the run, or a stutter.
LEMMA RestStep ==
  ASSUME TypeOK, RunInv, SessionFinish \/ UNCHANGED vars
  PROVE  TypeOK' /\ RunInv' /\ UNCHANGED <<wire, results>>
<1>1. UNCHANGED <<options, session, item, wire, pending, stopping, results, authState,
                  received, unsigned, ran, crashed>>
  BY DEF SessionFinish, vars, history
<1>2. Logged' = Logged /\ Lost' = Lost
  BY <1>1, LoggedKept, LostKept
<1>3. TypeOK'
  BY <1>1 DEF TypeOK
<1>4. PlacesInv'
  BY <1>1 DEF RunInv, PlacesInv, Occupied
<1>5. /\ \A t \in pending' : (Untouched(t) /\ Marks(t) = {})'
      /\ ConsentInv' /\ \A v \in Worker : item'[v].phase = "exited" => stopping'
  BY <1>1 DEF RunInv, Untouched, Marks, ConsentInv
<1>6. ASSUME NEW v \in Worker
      PROVE  InOrder(item[v], session[v])'
  <2>1. InOrder(item[v], session[v]) /\ item'[v] = item[v] /\ session'[v] = session[v]
    BY <1>1 DEF RunInv
  <2>2. item[v].phase # "idle" => item[v].test \in Test
    BY DEF RunInv, PlacesInv, Occupied
  <2>3. \A u \in Test : /\ received'[u] = received[u] /\ (u \in ran' <=> u \in ran)
                       /\ Marks(u)' = Marks(u)
    BY <1>1 DEF Marks
  <2> QED
    BY <1>1, <2>1, <2>2, <2>3, Untroubled
<1>7. RecordsInv'
  <2> SUFFICES ASSUME NEW rec \in Logged
               PROVE  Settled(rec.id)' /\ Truthful(rec)'
    BY <1>2 DEF RecordsInv
  <2>1. Settled(rec.id) /\ Truthful(rec)
    BY DEF RunInv, RecordsInv
  <2> QED
    BY <1>1, <2>1 DEF Settled, Truthful, Blames, Shown, Marks
<1>8. LostInv' /\ \A t \in Test : Placed(t)'
  BY <1>1, <1>2 DEF RunInv, LostInv, Placed
<1>9. FinishInv'
  <2>1. CASE SessionFinish
    BY <1>1, <2>1 DEF SessionFinish, FinishInv
  <2>2. CASE UNCHANGED vars
    BY <2>2 DEF vars, RunInv, FinishInv
  <2> QED
    BY <2>1, <2>2
<1> QED
  BY <1>1, <1>3, <1>4, <1>5, <1>6, <1>7, <1>8, <1>9 DEF RunInv

------------------------------------------------------------------------------
\* The inductive invariant.
Inv == TypeOK /\ RunInv

\* It holds at the start.
LEMMA InitFresh == Init => Fresh
BY DEF Init, Fresh

\* A step is one of these.
LEMMA Steps ==
  ASSUME Inv, [Next]_vars
  PROVE  \/ TypeOK' /\ RunInv' /\ (Quiet \/ \E w \in Worker : Speaks(w))
         \/ \E w \in Worker : LogReport(w)
         \/ RunAgain
         \/ SessionFinish \/ UNCHANGED vars
<1> DEFINE Kind == TypeOK' /\ RunInv' /\ (Quiet \/ \E w \in Worker : Speaks(w))
<1>0. TypeOK /\ RunInv
  BY DEF Inv
<1>1. ASSUME NEW w \in Worker, Work(w)
      PROVE  Kind
  <2>1. ASSUME NEW t \in Test, Start(w, t)
        PROVE  Kind
    BY <1>0, <2>1, StartStep
  <2>2. CASE SetUp(w)
    BY <1>0, <2>2, SetUpStep
  <2>3. CASE Gate(w)
    BY <1>0, <2>3, GateStep
  <2>4. CASE Exchange(w)
    BY <1>0, <2>4, ExchangeStep
  <2>5. ASSUME NEW o \in {"passed", "failed", "skipped"}, BodyEnds(w, o)
        PROVE  Kind
    BY <1>0, <2>5, BodyEndsStep
  <2>6. CASE MakeReport(w)
    BY <1>0, <2>6, MakeReportStep
  <2>7. CASE TearDown(w)
    BY <1>0, <2>7, TearDownStep
  <2> QED
    BY <1>1, <2>1, <2>2, <2>3, <2>4, <2>5, <2>6, <2>7 DEF Work
<1>2. ASSUME NEW w \in Worker, Crash(w)
      PROVE  Kind
  BY <1>0, <1>2, CrashStep
<1> QED
  BY <1>1, <1>2 DEF Next

\* Every step keeps the invariant.
LEMMA NextInv == Inv /\ [Next]_vars => Inv'
<1> SUFFICES ASSUME Inv, [Next]_vars
             PROVE  TypeOK' /\ RunInv'
  BY DEF Inv
<1>0. TypeOK /\ RunInv
  BY DEF Inv
<1>1. ASSUME NEW w \in Worker, LogReport(w)
      PROVE  TypeOK' /\ RunInv'
  BY <1>0, <1>1, LogReportStep
<1>2. CASE RunAgain
  <2>1. Fresh'
    BY <1>0, <1>2, AgainFresh
  <2> QED
    BY <2>1, FreshRun, PTL
<1>3. CASE SessionFinish \/ UNCHANGED vars
  BY <1>0, <1>3, RestStep
<1> QED
  BY <1>1, <1>2, <1>3, Steps

\* Every run is well typed and keeps the invariant.
THEOREM RunInvariant == Spec => []Inv
<1>1. Init => Inv
  BY InitFresh, FreshRun DEF Inv
<1>2. Inv /\ [Next]_vars => Inv'
  BY NextInv
<1> QED
  BY <1>1, <1>2, PTL DEF Spec

\* The records of the controller are among those logged.
LEMMA ResultsTruthful ==
  ASSUME Inv, NEW rec \in Results
  PROVE  Truthful(rec)
BY DEF Inv, RunInv, RecordsInv, Logged, Results

\* The state is well typed in every run.
THEOREM TypeCorrect == Spec => []TypeOK
<1>1. Inv => TypeOK
  BY DEF Inv
<1> QED
  BY <1>1, RunInvariant, PTL

\* A test whose body ran is blamed for exactly the schema defects in the responses
\* it received through its session; what it received past it is in no record
\* (dispatch.py:222-226, cases/auth.py:211-225).
THEOREM Blame == Spec => []BlameIsExact
<1>1. ASSUME Inv
      PROVE  BlameIsExact
  BY <1>1, ResultsTruthful DEF Truthful, Blames, BlameIsExact, Defects
<1> QED
  BY <1>1, RunInvariant, PTL

\* With validation on, a pass says that no response the test received through its
\* session broke the schema (dispatch.py:133-159).
THEOREM Valid == Spec => []PassMeansValid
<1>1. ASSUME Inv
      PROVE  PassMeansValid
  BY <1>1, ResultsTruthful DEF Truthful, PassMeansValid
<1> QED
  BY <1>1, RunInvariant, PTL

\* The record of a call has exactly the WS-Addressing violations its test provoked,
\* its fixtures included (plugin.py:190-200).
THEOREM Addressing == Spec => []AddressingStaysPut
<1>1. ASSUME Inv
      PROVE  AddressingStaysPut
  BY <1>1, ResultsTruthful DEF Truthful, Marks, AddressingStaysPut
<1> QED
  BY <1>1, RunInvariant, PTL

\* A refused login leaves no verdicts behind (dispatch.py:64-69).
THEOREM Refusal == Spec => []NothingBelowARefusal
<1>1. ASSUME Inv
      PROVE  NothingBelowARefusal
  <2>1. ASSUME NEW w \in Worker, options.user, item[w].phase = "body"
        PROVE  session[w].auth # Undecided
    <3>1. InOrder(item[w], session[w])
      BY <1>1 DEF Inv, RunInv
    <3> QED
      BY <2>1, <3>1 DEF InOrder, LoggedIn
  <2>2. ASSUME NEW rec \in Results, rec.called, options.user
        PROVE  rec.stash.auth # Undecided
    BY <1>1, <2>2, ResultsTruthful DEF Truthful
  <2> QED
    BY <2>1, <2>2 DEF NothingBelowARefusal
<1> QED
  BY <1>1, RunInvariant, PTL

\* A test is entered with the leave it asks for, and a pass or an expected
\* failure comes from a body that was entered (dispatch.py:191-222).
THEOREM Earned == Spec => []VerdictsAreEarned
<1>1. ASSUME Inv
      PROVE  VerdictsAreEarned
  <2>1. \A t \in ran : Suite[t].demands \subseteq options.consent
    BY <1>1 DEF Inv, RunInv, ConsentInv
  <2> QED
    BY <1>1, <2>1, ResultsTruthful DEF Truthful, VerdictsAreEarned
<1> QED
  BY <1>1, RunInvariant, PTL

------------------------------------------------------------------------------
\* What a summary adds up to.
LEMMA SumOfStatus ==
  ASSUME NEW f \in [Status -> Nat]
  PROVE  SumFunctionOnSet(f, Status)
           = f["passed"] + f["failed"] + f["skipped"] + f["xfailed"] + f["xpassed"]
<1> DEFINE Of(k, s) == IF k \in s THEN f[k] ELSE 0
           Total(s) == Of("passed", s) + Of("failed", s) + Of("skipped", s)
                         + Of("xfailed", s) + Of("xpassed", s)
           Turn(h, s) == IF s = {} THEN 0
                         ELSE LET x == CHOOSE x \in s : TRUE IN f[x] + h[s \ {x}]
           Fold(h) == h = [s \in SUBSET Status |-> Turn(h, s)]
           g == [s \in SUBSET Status |-> Total(s)]
           iter == CHOOSE h : Fold(h)
           R == StrictSubsetOrdering(Status)
<1>1. SumFunctionOnSet(f, Status) = iter[Status]
  BY DEF SumFunctionOnSet, FoldFunctionOnSet, MapThenFoldSet
<1>2. /\ f["passed"] \in Nat /\ f["failed"] \in Nat /\ f["skipped"] \in Nat
      /\ f["xfailed"] \in Nat /\ f["xpassed"] \in Nat
  BY DEF Status
<1>3. ASSUME NEW s \in SUBSET Status, NEW x \in s
      PROVE  Total(s) = f[x] + Total(s \ {x})
  <2>1. x \in {"passed", "failed", "skipped", "xfailed", "xpassed"}
    BY DEF Status
  <2>2. CASE x = "passed"
    BY <1>2, <2>2
  <2>3. CASE x = "failed"
    BY <1>2, <2>3
  <2>4. CASE x = "skipped"
    BY <1>2, <2>4
  <2>5. CASE x = "xfailed"
    BY <1>2, <2>5
  <2>6. CASE x = "xpassed"
    BY <1>2, <2>6
  <2> QED
    BY <2>1, <2>2, <2>3, <2>4, <2>5, <2>6
<1>4. Total({}) = 0
  OBVIOUS
<1>5. Total(Status) = f["passed"] + f["failed"] + f["skipped"] + f["xfailed"] + f["xpassed"]
  BY DEF Status
<1> HIDE DEF Total
<1>6. Fold(g)
  <2>1. ASSUME NEW s \in SUBSET Status
        PROVE  Total(s) = Turn(g, s)
    <3>1. CASE s = {}
      BY <1>4, <3>1
    <3>2. CASE s # {}
      <4> DEFINE x == CHOOSE x \in s : TRUE
      <4>1. x \in s
        BY <3>2
      <4> HIDE DEF x
      <4>2. Total(s) = f[x] + g[s \ {x}]
        BY <1>3, <4>1
      <4> QED
        BY <3>2, <4>2 DEF x
    <3> QED
      BY <3>1, <3>2
  <2> QED
    BY <2>1
<1>7. Fold(iter)
  BY <1>6
<1> HIDE DEF iter
<1>8. \A s \in SUBSET Status : iter[s] = Turn(iter, s)
  BY <1>7
<1>9. IsFiniteSet(Status)
  <2>1. Status = {"passed"} \cup {"failed"} \cup {"skipped"} \cup {"xfailed"} \cup {"xpassed"}
    BY DEF Status
  <2> QED
    BY <2>1, FS_Singleton, FS_Union
<1>10. \A s \in SUBSET Status : iter[s] = Total(s)
  <2> DEFINE B == {s \in SUBSET Status : iter[s] # Total(s)}
  <2> SUFFICES ASSUME B # {} PROVE FALSE
    OBVIOUS
  <2>1. IsWellFoundedOn(R, FiniteSubsetsOf(Status))
    BY FS_StrictSubsetOrderingWellFounded
  <2>2. B \subseteq FiniteSubsetsOf(Status)
    BY <1>9, FS_Subset DEF FiniteSubsetsOf
  <2> HIDE DEF R
  <2>3. PICK s \in B : \A r \in B : <<r, s>> \notin R
    <3> HIDE DEF B
    <3> QED
      BY <2>1, <2>2, WFMin
  <2>4. s # {}
    BY <1>4, <1>8
  <2> DEFINE x == CHOOSE x \in s : TRUE
  <2>5. x \in s
    BY <2>4
  <2> HIDE DEF x
  <2>6. iter[s] = f[x] + iter[s \ {x}]
    BY <1>8, <2>4 DEF x
  <2>7. <<s \ {x}, s>> \in R
    BY <2>5 DEF R, StrictSubsetOrdering
  <2>8. iter[s \ {x}] = Total(s \ {x})
    BY <2>3, <2>7
  <2>9. iter[s] = Total(s)
    BY <1>3, <2>5, <2>6, <2>8
  <2> QED
    BY <2>9
<1> QED
  BY <1>1, <1>5, <1>10

------------------------------------------------------------------------------
\* One record of a test at most: among those received, among those that are on one
\* wire, and between any two of these.
Distinct(recs) == \A i, j \in 1..Len(recs) : recs[i].id = recs[j].id => i = j

Single(ms) == \A i, j \in 1..Len(ms) : ms[i].report.id = ms[j].report.id => i = j

Foreign(A, B) == \A a \in A, b \in B : a.id # b.id

OnceInv ==
  /\ Distinct(results)
  /\ \A w \in Worker : Single(wire[w]) /\ Foreign(ToSet(results), OnWire(w))
  /\ \A v, w \in Worker : v # w => Foreign(OnWire(v), OnWire(w))

\* A record of a test that had none.
LEMMA DistinctAppend ==
  ASSUME NEW recs \in Seq(RecordType), NEW rec \in RecordType, Distinct(recs),
         \A r \in ToSet(recs) : r.id # rec.id
  PROVE  Distinct(Append(recs, rec))
<1>1. \A i \in 1..Len(recs) : recs[i].id # rec.id
  BY ToSetType
<1>2. /\ Len(Append(recs, rec)) = Len(recs) + 1 /\ Len(recs) \in Nat
      /\ \A i \in 1..Len(recs) : Append(recs, rec)[i] = recs[i]
      /\ Append(recs, rec)[Len(recs) + 1] = rec
  BY AppendProperties
<1> DEFINE q == Append(recs, rec)
<1> HIDE DEF q
<1>3. ASSUME NEW i \in 1..Len(q), NEW j \in 1..Len(q), q[i].id = q[j].id
      PROVE  i = j
  <2>1. CASE i \in 1..Len(recs) /\ j \in 1..Len(recs)
    BY <1>2, <1>3, <2>1 DEF q, Distinct
  <2>2. CASE i = Len(recs) + 1 /\ j \in 1..Len(recs)
    BY <1>1, <1>2, <1>3, <2>2 DEF q
  <2>3. CASE i \in 1..Len(recs) /\ j = Len(recs) + 1
    BY <1>1, <1>2, <1>3, <2>3 DEF q
  <2>4. i \in 1..Len(recs) \cup {Len(recs) + 1} /\ j \in 1..Len(recs) \cup {Len(recs) + 1}
    BY <1>2 DEF q
  <2> QED
    BY <2>1, <2>2, <2>3, <2>4
<1> QED
  BY <1>3 DEF q, Distinct

\* A message of a test of which there is none on the wire.
LEMMA SingleAppend ==
  ASSUME NEW ms \in Seq(MessageType), NEW m \in MessageType, Single(ms),
         \A n \in ToSet(ms) : n.report.id # m.report.id
  PROVE  Single(Append(ms, m))
<1>1. \A i \in 1..Len(ms) : ms[i].report.id # m.report.id
  BY ToSetType
<1>2. /\ Len(Append(ms, m)) = Len(ms) + 1 /\ Len(ms) \in Nat
      /\ \A i \in 1..Len(ms) : Append(ms, m)[i] = ms[i]
      /\ Append(ms, m)[Len(ms) + 1] = m
  BY AppendProperties
<1> DEFINE q == Append(ms, m)
<1> HIDE DEF q
<1>3. ASSUME NEW i \in 1..Len(q), NEW j \in 1..Len(q), q[i].report.id = q[j].report.id
      PROVE  i = j
  <2>1. CASE i \in 1..Len(ms) /\ j \in 1..Len(ms)
    BY <1>2, <1>3, <2>1 DEF q, Single
  <2>2. CASE i = Len(ms) + 1 /\ j \in 1..Len(ms)
    BY <1>1, <1>2, <1>3, <2>2 DEF q
  <2>3. CASE i \in 1..Len(ms) /\ j = Len(ms) + 1
    BY <1>1, <1>2, <1>3, <2>3 DEF q
  <2>4. i \in 1..Len(ms) \cup {Len(ms) + 1} /\ j \in 1..Len(ms) \cup {Len(ms) + 1}
    BY <1>2 DEF q
  <2> QED
    BY <2>1, <2>2, <2>3, <2>4
<1> QED
  BY <1>3 DEF q, Single

\* What is left of a wire.
LEMMA SingleTail ==
  ASSUME NEW ms \in Seq(MessageType), ms # <<>>, Single(ms)
  PROVE  /\ Single(Tail(ms))
         /\ \A m \in ToSet(Tail(ms)) : m.report.id # Head(ms).report.id
<1>1. /\ Tail(ms) \in Seq(MessageType) /\ Head(ms) = ms[1]
      /\ Len(Tail(ms)) = Len(ms) - 1 /\ Len(ms) \in Nat /\ Len(ms) > 0
      /\ \A i \in 1..Len(Tail(ms)) : Tail(ms)[i] = ms[i + 1]
  BY HeadTailProperties
<1> DEFINE q == Tail(ms)
<1>2. /\ q \in Seq(MessageType) /\ Len(q) = Len(ms) - 1
      /\ \A i \in 1..Len(q) : q[i] = ms[i + 1]
  BY <1>1
<1> HIDE DEF q
<1>3. ASSUME NEW i \in 1..Len(q), NEW j \in 1..Len(q),
             q[i].report.id = q[j].report.id
      PROVE  i = j
  <2>1. i + 1 \in 1..Len(ms) /\ j + 1 \in 1..Len(ms)
    BY <1>1, <1>2
  <2>2. i + 1 = j + 1
    BY <1>2, <1>3, <2>1 DEF Single
  <2> QED
    BY <2>2
<1>4. ASSUME NEW m \in ToSet(q)
      PROVE  m.report.id # ms[1].report.id
  <2>1. PICK i \in 1..Len(q) : m = q[i]
    BY <1>2, ToSetType
  <2>2. i + 1 \in 1..Len(ms) /\ 1 \in 1..Len(ms) /\ i + 1 # 1
    BY <1>1, <1>2
  <2>3. m = ms[i + 1]
    BY <1>2, <2>1
  <2> QED
    BY <2>2, <2>3 DEF Single
<1> QED
  BY <1>1, <1>3, <1>4 DEF q, Single

\* The records on a wire are those of its messages.
LEMMA OnWireOf ==
  ASSUME NEW w \in Worker
  PROVE  /\ \A m \in ToSet(wire[w]) : Record(m) \in OnWire(w)
         /\ \A m : Record(m).id = m.report.id
BY DEF OnWire, Record

\* At first there is none.
LEMMA FreshOnce == Fresh => OnceInv
<1> SUFFICES ASSUME Fresh
             PROVE  OnceInv
  OBVIOUS
<1>1. Len(<<>>) = 0 /\ 1..0 = {}
  OBVIOUS
<1>2. results = <<>> /\ \A w \in Worker : wire[w] = <<>>
  BY DEF Fresh
<1>3. Distinct(results) /\ \A w \in Worker : Single(wire[w])
  BY <1>1, <1>2 DEF Distinct, Single
<1>4. ToSet(results) = {} /\ \A w \in Worker : OnWire(w) = {}
  BY FreshLogged DEF Logged
<1> QED
  BY <1>3, <1>4 DEF OnceInv, Foreign

\* A step that touches neither the records nor a wire.
LEMMA OnceKept == OnceInv /\ wire' = wire /\ results' = results => OnceInv'
BY DEF OnceInv, Distinct, Single, Foreign, OnWire

\* A worker's report is the first of its test.
LEMMA SpeaksOnce ==
  ASSUME TypeOK, OnceInv, NEW w \in Worker, Speaks(w)
  PROVE  OnceInv'
<1>1. PICK m \in MessageType : /\ \A rec \in Logged : rec.id # m.report.id
                               /\ wire' = [wire EXCEPT ![w] = Append(@, m)]
  BY DEF Speaks
<1>2. PICK r : r = Record(m)
  OBVIOUS
<1>3. /\ results' = results /\ r.id = m.report.id
  BY <1>2 DEF Speaks, Record
<1>4. /\ wire'[w] = Append(wire[w], m) /\ \A v \in Worker \ {w} : wire'[v] = wire[v]
      /\ OnWire(w)' = OnWire(w) \cup {r}
      /\ \A v \in Worker \ {w} : OnWire(v)' = OnWire(v)
  BY <1>1, <1>2, <1>3, LoggedGrows
<1>5. /\ \A rec \in ToSet(results) : rec.id # r.id
      /\ \A v \in Worker : \A rec \in OnWire(v) : rec.id # r.id
  BY <1>1, <1>3 DEF Logged
<1>6. /\ \A v \in Worker : Foreign(ToSet(results), OnWire(v)) /\ Single(wire[v])
      /\ \A u, v \in Worker : u # v => Foreign(OnWire(u), OnWire(v))
      /\ Distinct(results)
  BY DEF OnceInv
<1>7. Single(Append(wire[w], m))
  <2>1. wire[w] \in Seq(MessageType)
    BY DEF TypeOK
  <2>2. \A n \in ToSet(wire[w]) : n.report.id # m.report.id
    BY <1>3, <1>5, OnWireOf
  <2> QED
    BY <1>6, <2>1, <2>2, SingleAppend
<1>8. Distinct(results)'
  BY <1>3, <1>6 DEF Distinct
<1>9. \A v \in Worker : Single(wire[v])'
  <2>1. \A v \in Worker : Single(wire'[v])
    BY <1>4, <1>6, <1>7
  <2> QED
    BY <2>1 DEF Single
<1>10. ASSUME NEW v \in Worker
       PROVE  Foreign(ToSet(results), OnWire(v))'
  BY <1>3, <1>4, <1>5, <1>6 DEF Foreign
<1>11. ASSUME NEW u \in Worker, NEW v \in Worker, u # v
       PROVE  Foreign(OnWire(u), OnWire(v))'
  BY <1>4, <1>5, <1>6, <1>11 DEF Foreign
<1> QED
  BY <1>8, <1>9, <1>10, <1>11 DEF OnceInv

\* What the controller logs leaves its wire.
LEMMA LogOnce ==
  ASSUME TypeOK, OnceInv, NEW w \in Worker, LogReport(w)
  PROVE  OnceInv'
<1>1. PICK m, r : m = Head(wire[w]) /\ r = Record(m)
  OBVIOUS
<1>2. /\ wire[w] \in Seq(MessageType) /\ wire[w] # <<>> /\ results \in Seq(RecordType)
      /\ wire \in [Worker -> Seq(MessageType)]
  BY DEF LogReport, TypeOK
<1>3. /\ m \in MessageType /\ r \in RecordType /\ r.id = m.report.id
      /\ wire' = [wire EXCEPT ![w] = Tail(@)]
      /\ ToSet(wire[w]) = {m} \cup ToSet(Tail(wire[w]))
      /\ results' = Append(results, r) /\ ToSet(results') = ToSet(results) \cup {r}
  BY <1>1, LogMoves, RecordTyped
<1>4. /\ wire'[w] = Tail(wire[w]) /\ \A v \in Worker \ {w} : wire'[v] = wire[v]
  BY <1>2, <1>3
<1>5. /\ Single(Tail(wire[w]))
      /\ \A n \in ToSet(Tail(wire[w])) : n.report.id # m.report.id
  BY <1>1, <1>2, SingleTail DEF OnceInv
<1>6. /\ \A v \in Worker : Foreign(ToSet(results), OnWire(v)) /\ Single(wire[v])
      /\ \A u, v \in Worker : u # v => Foreign(OnWire(u), OnWire(v))
      /\ Distinct(results)
  BY DEF OnceInv
<1>7. /\ r \in OnWire(w) /\ OnWire(w)' \subseteq OnWire(w)
      /\ \A b \in OnWire(w)' : b.id # r.id
      /\ \A v \in Worker \ {w} : OnWire(v)' = OnWire(v)
  <2>1. r \in OnWire(w) /\ \A v \in Worker \ {w} : OnWire(v)' = OnWire(v)
    BY <1>1, <1>3, <1>4 DEF OnWire
  <2>2. ASSUME NEW b \in OnWire(w)'
        PROVE  b \in OnWire(w) /\ b.id # r.id
    <3>1. PICK n \in ToSet(Tail(wire[w])) : b = Record(n)
      BY <1>4 DEF OnWire
    <3>2. b.id = n.report.id
      BY <3>1 DEF Record
    <3> QED
      BY <1>3, <1>5, <3>1, <3>2 DEF OnWire
  <2> QED
    BY <2>1, <2>2
<1>8. Distinct(results)'
  <2>1. \A a \in ToSet(results) : a.id # r.id
    BY <1>6, <1>7 DEF Foreign
  <2>2. Distinct(Append(results, r))
    BY <1>2, <1>3, <1>6, <2>1, DistinctAppend
  <2> QED
    BY <1>3, <2>2 DEF Distinct
<1>9. \A v \in Worker : Single(wire[v])'
  <2>1. \A v \in Worker : Single(wire'[v])
    BY <1>4, <1>5, <1>6
  <2> QED
    BY <2>1 DEF Single
<1>10. ASSUME NEW u \in Worker, NEW v \in Worker, u # v
       PROVE  Foreign(OnWire(u), OnWire(v))'
  BY <1>6, <1>7, <1>10 DEF Foreign
<1>11. ASSUME NEW v \in Worker
       PROVE  Foreign(ToSet(results), OnWire(v))'
  <2>1. \A b \in OnWire(v)' : b.id # r.id
    BY <1>6, <1>7 DEF Foreign
  <2>2. \A a \in ToSet(results), b \in OnWire(v)' : a.id # b.id
    BY <1>6, <1>7 DEF Foreign
  <2>3. \A a \in ToSet(results'), b \in OnWire(v)' : a.id # b.id
    BY <1>3, <2>1, <2>2
  <2> QED
    BY <2>3 DEF Foreign
<1> QED
  BY <1>8, <1>9, <1>10, <1>11 DEF OnceInv

\* No step records a test twice.
LEMMA NextOnce ==
  ASSUME Inv, OnceInv, [Next]_vars
  PROVE  OnceInv'
<1>0. TypeOK /\ RunInv
  BY DEF Inv
<1>1. CASE Quiet
  BY <1>1, OnceKept DEF Quiet
<1>2. ASSUME NEW w \in Worker, Speaks(w)
      PROVE  OnceInv'
  BY <1>0, <1>2, SpeaksOnce
<1>3. ASSUME NEW w \in Worker, LogReport(w)
      PROVE  OnceInv'
  BY <1>0, <1>3, LogOnce
<1>4. CASE RunAgain
  <2>1. Fresh'
    BY <1>0, <1>4, AgainFresh
  <2> QED
    BY <2>1, FreshOnce, PTL
<1>5. CASE SessionFinish \/ UNCHANGED vars
  BY <1>0, <1>5, RestStep, OnceKept
<1> QED
  BY <1>1, <1>2, <1>3, <1>4, <1>5, Steps

------------------------------------------------------------------------------
\* results.json counts the records there are.
TotalInv == \A p \in payload : p.total = Len(results) /\ p.summary = Counts(results)

\* And goes on to.
LEMMA NextTotal ==
  ASSUME Inv, TotalInv, [Next]_vars
  PROVE  TotalInv'
<1>0. TypeOK /\ RunInv
  BY DEF Inv
<1>1. ASSUME UNCHANGED <<payload, results>>
      PROVE  TotalInv'
  BY <1>1 DEF TotalInv, Counts
<1>2. ASSUME payload' = {}
      PROVE  TotalInv'
  BY <1>2 DEF TotalInv
<1>3. Quiet \/ (\E w \in Worker : Speaks(w)) => TotalInv'
  BY <1>1 DEF Quiet, Speaks
<1>4. ASSUME NEW w \in Worker, LogReport(w)
      PROVE  TotalInv'
  BY <1>0, <1>2, <1>4, LogReportStep
<1>5. RunAgain => TotalInv'
  BY <1>2 DEF RunAgain
<1>6. SessionFinish => TotalInv'
  <2> SUFFICES ASSUME SessionFinish
               PROVE  TotalInv'
    OBVIOUS
  <2>1. PICK p : p = [total |-> Len(results), summary |-> Counts(results),
                      auth |-> authState, distinct |-> Grouped(results)]
    OBVIOUS
  <2>2. payload' = {p} /\ results' = results
    BY <2>1 DEF SessionFinish
  <2>3. p.total = Len(results) /\ p.summary = Counts(results)
    BY <2>1
  <2> QED
    BY <2>2, <2>3 DEF TotalInv, Counts
<1>7. UNCHANGED vars => TotalInv'
  BY <1>1 DEF vars
<1> QED
  BY <1>3, <1>4, <1>5, <1>6, <1>7, Steps

\* Sets without a common element.
LEMMA DisjointUnion ==
  ASSUME NEW S, NEW T, IsFiniteSet(S), IsFiniteSet(T), S \cap T = {}
  PROVE  /\ IsFiniteSet(S \cup T) /\ Cardinality(S \cup T) = Cardinality(S) + Cardinality(T)
         /\ Cardinality(S \cup T) \in Nat
<1>1. /\ IsFiniteSet(S \cup T)
      /\ Cardinality(S \cup T) = Cardinality(S) + Cardinality(T) - Cardinality(S \cap T)
  BY FS_Union
<1>2. Cardinality(S \cap T) = 0
  BY FS_EmptySet
<1>3. Cardinality(S) \in Nat /\ Cardinality(T) \in Nat /\ Cardinality(S \cup T) \in Nat
  BY <1>1, FS_CardinalityType
<1> DEFINE a == Cardinality(S)
           b == Cardinality(T)
           c == Cardinality(S \cup T)
           d == Cardinality(S \cap T)
<1>4. c = a + b - d /\ d = 0 /\ a \in Nat /\ b \in Nat
  BY <1>1, <1>2, <1>3
<1> HIDE DEF a, b, c, d
<1>5. c = a + b
  BY <1>4
<1> QED
  BY <1>1, <1>3, <1>5 DEF a, b, c

\* The counts of a sequence of records add up to its length: each record has one
\* of the statuses.
LEMMA CountsAddUp ==
  ASSUME NEW recs \in Seq(RecordType)
  PROVE  /\ DOMAIN Counts(recs) = Status
         /\ Len(recs) = SumFunctionOnSet(Counts(recs), DOMAIN Counts(recs))
<1> DEFINE At(s) == {i \in 1..Len(recs) : recs[i].status = s}
           A == At("passed")
           B == At("failed")
           C == At("skipped")
           D == At("xfailed")
           E == At("xpassed")
<1>1. Len(recs) \in Nat /\ \A i \in 1..Len(recs) : recs[i].status \in Status
  <2>1. Len(recs) \in Nat /\ \A i \in 1..Len(recs) : recs[i] \in RecordType
    OBVIOUS
  <2>2. \A r \in RecordType : r.status \in Status
    BY DEF RecordType
  <2> QED
    BY <2>1, <2>2
<1>2. IsFiniteSet(1..Len(recs)) /\ Cardinality(1..Len(recs)) = Len(recs)
  <2>1. ASSUME NEW n \in Nat
        PROVE  IsFiniteSet(1..n) /\ Cardinality(1..n) = n
    <3>1. /\ IsFiniteSet(1..n)
          /\ Cardinality(1..n) = IF 1 > n THEN 0 ELSE n - 1 + 1
      BY FS_Interval
    <3>2. CASE n = 0
      BY <3>1, <3>2
    <3>3. CASE n # 0
      <4>1. ~(1 > n) /\ n - 1 + 1 = n
        BY <3>3
      <4> QED
        BY <3>1, <4>1
    <3> QED
      BY <3>2, <3>3
  <2> QED
    BY <1>1, <2>1
<1>3. 1..Len(recs) = (((A \cup B) \cup C) \cup D) \cup E
  <2>1. ASSUME NEW i \in 1..Len(recs)
        PROVE  i \in (((A \cup B) \cup C) \cup D) \cup E
    <3>1. recs[i].status \in {"passed", "failed", "skipped", "xfailed", "xpassed"}
      BY <1>1 DEF Status
    <3> QED
      BY <3>1
  <2>2. ASSUME NEW i \in (((A \cup B) \cup C) \cup D) \cup E
        PROVE  i \in 1..Len(recs)
    BY <2>2
  <2> QED
    BY <2>1, <2>2
<1>4. \A s : At(s) \subseteq 1..Len(recs)
  OBVIOUS
<1>5. /\ A \cap B = {} /\ (A \cup B) \cap C = {} /\ ((A \cup B) \cup C) \cap D = {}
      /\ (((A \cup B) \cup C) \cup D) \cap E = {}
  OBVIOUS
<1>6. \A s : IsFiniteSet(At(s)) /\ Cardinality(At(s)) \in Nat
  BY <1>2, <1>4, FS_Subset, FS_CardinalityType
<1>7. Counts(recs) = [s \in Status |-> Cardinality(At(s))]
  BY DEF Counts
<1>8. /\ DOMAIN Counts(recs) = Status /\ Counts(recs) \in [Status -> Nat]
      /\ Counts(recs)["passed"] = Cardinality(A) /\ Counts(recs)["failed"] = Cardinality(B)
      /\ Counts(recs)["skipped"] = Cardinality(C) /\ Counts(recs)["xfailed"] = Cardinality(D)
      /\ Counts(recs)["xpassed"] = Cardinality(E)
  <2>1. Counts(recs) \in [Status -> Nat]
    BY <1>6, <1>7
  <2>2. \A s \in Status : Counts(recs)[s] = Cardinality(At(s))
    BY <1>7
  <2> QED
    BY <2>1, <2>2 DEF Status
<1>9. /\ IsFiniteSet(A) /\ IsFiniteSet(B) /\ IsFiniteSet(C) /\ IsFiniteSet(D)
      /\ IsFiniteSet(E)
      /\ Cardinality(A) \in Nat /\ Cardinality(B) \in Nat /\ Cardinality(C) \in Nat
      /\ Cardinality(D) \in Nat /\ Cardinality(E) \in Nat
  BY <1>6
<1> HIDE DEF A, B, C, D, E
<1>10. IsFiniteSet(A \cup B) /\ Cardinality(A \cup B) = Cardinality(A) + Cardinality(B)
  BY <1>5, <1>9, DisjointUnion
<1> DEFINE AB == A \cup B
<1>11. AB \cap C = {} /\ IsFiniteSet(AB) /\ Cardinality(AB) = Cardinality(A) + Cardinality(B)
  BY <1>5, <1>10
<1> HIDE DEF AB
<1>12. IsFiniteSet(AB \cup C) /\ Cardinality(AB \cup C) = Cardinality(AB) + Cardinality(C)
  BY <1>9, <1>11, DisjointUnion
<1> DEFINE ABC == AB \cup C
<1>13. ABC \cap D = {} /\ IsFiniteSet(ABC) /\ Cardinality(ABC) = Cardinality(AB) + Cardinality(C)
  BY <1>5, <1>12 DEF AB
<1> HIDE DEF ABC
<1>14. IsFiniteSet(ABC \cup D) /\ Cardinality(ABC \cup D) = Cardinality(ABC) + Cardinality(D)
  BY <1>9, <1>13, DisjointUnion
<1> DEFINE ABCD == ABC \cup D
<1>15. /\ ABCD \cap E = {} /\ IsFiniteSet(ABCD)
       /\ Cardinality(ABCD) = Cardinality(ABC) + Cardinality(D)
  BY <1>5, <1>14 DEF AB, ABC
<1> HIDE DEF ABCD
<1>16. Cardinality(ABCD \cup E) = Cardinality(ABCD) + Cardinality(E)
  BY <1>9, <1>15, DisjointUnion
<1>17. 1..Len(recs) = ABCD \cup E
  BY <1>3 DEF ABCD, ABC, AB
<1>18. Len(recs) = Cardinality(A) + Cardinality(B) + Cardinality(C) + Cardinality(D)
                     + Cardinality(E)
  <2>1. Len(recs) = Cardinality(ABCD) + Cardinality(E)
    BY <1>2, <1>16, <1>17
  <2> QED
    BY <1>9, <1>11, <1>13, <1>15, <2>1
<1> QED
  BY <1>8, <1>18, SumOfStatus

\* Once results.json is written every record is the controller's.
LEMMA AllReceived ==
  ASSUME Inv, payload # {}
  PROVE  Logged = Results
<1>1. \A w \in Worker : wire[w] = <<>>
  BY DEF Inv, RunInv, FinishInv
<1>2. \A w \in Worker : ToSet(wire[w]) = {}
  BY <1>1, EmptyToSet
<1>3. \A w \in Worker : OnWire(w) = {}
  BY <1>2 DEF OnWire
<1> QED
  BY <1>3 DEF Logged, Results

\* What the invariants say of a report that was written.
LEMMA Completeness ==
  ASSUME Inv, OnceInv, TotalInv
  PROVE  ReportIsComplete
<1> SUFFICES ASSUME payload # {}
             PROVE  /\ \A i, j \in 1..Len(results) : results[i].id = results[j].id => i = j
                    /\ ~stopping => {rec.id : rec \in Results} = Test \ Lost
                    /\ \A p \in payload :
                         p.total = SumFunctionOnSet(p.summary, DOMAIN p.summary)
  BY DEF ReportIsComplete
<1>1. \A i, j \in 1..Len(results) : results[i].id = results[j].id => i = j
  BY DEF OnceInv, Distinct
<1>2. Logged = Results
  BY AllReceived
<1>3. ASSUME ~stopping
      PROVE  {rec.id : rec \in Results} = Test \ Lost
  <2>1. pending = {} /\ \A w \in Worker : item[w].phase = "idle"
    BY <1>3 DEF Inv, RunInv, FinishInv
  <2>2. \A w \in Worker : item[w].test = Nobody
    BY <2>1 DEF Inv, RunInv, PlacesInv
  <2>3. ASSUME NEW t \in Test \ Lost
        PROVE  \E rec \in Results : rec.id = t
    <3>1. Placed(t) /\ t # Nobody
      BY RunAssumption DEF Inv, RunInv
    <3> QED
      BY <1>2, <2>1, <2>2, <3>1 DEF Placed
  <2>4. ASSUME NEW rec \in Results
        PROVE  rec.id \in Test \ Lost
    BY <1>2 DEF Inv, RunInv, RecordsInv, Settled, LostInv
  <2> QED
    BY <2>3, <2>4
<1>4. ASSUME NEW p \in payload
      PROVE  p.total = SumFunctionOnSet(p.summary, DOMAIN p.summary)
  <2>1. results \in Seq(RecordType)
    BY DEF Inv, TypeOK
  <2>2. p.total = Len(results) /\ p.summary = Counts(results)
    BY DEF TotalInv
  <2> QED
    BY <2>1, <2>2, CountsAddUp
<1> QED
  BY <1>1, <1>3, <1>4

------------------------------------------------------------------------------
\* No test is lost unseen, or told of twice.
Ledger == Inv /\ OnceInv /\ TotalInv

\* In every run.
THEOREM LedgerKept == Spec => []Ledger
<1>1. Init => Ledger
  <2> SUFFICES ASSUME Init
               PROVE  Ledger
    OBVIOUS
  <2>1. Fresh /\ payload = {}
    BY InitFresh DEF Fresh
  <2> QED
    BY <2>1, FreshRun, FreshOnce DEF Ledger, Inv, TotalInv
<1>2. Ledger /\ [Next]_vars => Ledger'
  BY NextInv, NextOnce, NextTotal DEF Ledger
<1> QED
  BY <1>1, <1>2, PTL DEF Spec

\* results.json has exactly one record of every test, but for those whose worker
\* died before the one report of theirs that is kept and, after a refused login,
\* those that were cut off, and the summary counts them all (plugin.py:220-281,
\* 341-364).
THEOREM Complete == Spec => []ReportIsComplete
<1>1. ASSUME Ledger
      PROVE  ReportIsComplete
  BY <1>1, Completeness DEF Ledger
<1> QED
  BY <1>1, LedgerKept, PTL
==============================================================================
