---------------------------- MODULE ConformanceRun ----------------------------
(***************************************************************************)
(* A conformance run: the dispatch loop of runner/dispatch.py and the      *)
(* reporter of runner/plugin.py, in one process or spread over pytest-xdist *)
(* workers.                                                                *)
(*                                                                         *)
(* Every worker owns one session-scoped DUT, so the violations a response  *)
(* validator records, the SOAP trace and the negotiated authentication     *)
(* outlive the test that provoked them.  The dispatch loop and the report  *)
(* hooks are what ties them to a test again: one clears before the body,   *)
(* the other stashes and clears after it.  Each phase of a test is         *)
(* reported as it ends, and the controller turns the reports it receives   *)
(* into results.json.                                                      *)
(*                                                                         *)
(* A body may also talk to the device past its session: through a DUT of   *)
(* its own (LOCAL-AUTH-*, the reboot tests) or by hand (SECURITY-1-1-1).   *)
(*                                                                         *)
(* pytest, pytest-xdist and the device are external: which worker runs     *)
(* which test, what a body does, what the device answers.                  *)
(***************************************************************************)
EXTENDS Integers, Sequences, FiniteSets, SequencesExt

CONSTANTS
  Worker,     \* processes that run tests; one of them: no xdist
  Test,       \* the collected test ids
  Service,    \* services a test may require
  Consent,    \* what a test may need leave for: --allow-writes, --allow-reboot
  Suite,      \* [Test -> what @register says of it]
  Accepted,   \* password types a DUT may accept
  Defect,     \* schema defects, told apart by (code, path, detail)
  Nobody,     \* no test
  MaxCalls,   \* bound: exchanges of one test body
  MaxCrashes  \* bound: worker processes that die in one run

Registered == [requires : SUBSET Service,   \* requires_services
               demands  : SUBSET Consent,   \* requires_writes, requires_reboot
               knownBad : BOOLEAN,          \* an xfail_on matcher fits the DUT
               aside    : BOOLEAN]          \* its body goes past the session too

Undecided == "undecided"                     \* AuthState.accepted is None

ASSUME RunAssumption ==
  /\ IsFiniteSet(Test) /\ IsFiniteSet(Worker)
  /\ Suite \in [Test -> Registered]
  /\ Undecided \notin Accepted
  /\ Nobody \notin Test
  /\ MaxCalls \in Nat /\ MaxCrashes \in Nat

Verdict   == Accepted \cup {Undecided}
Status    == {"passed", "failed", "skipped", "xfailed", "xpassed"}

VARIABLES
  options,   \* the command line
  session,   \* per worker: its DUT, session fixtures included
  item,      \* per worker: the test it is running, and how far it is
  wire,      \* per worker: reports on their way to the controller
  pending,   \* tests no worker has been given
  stopping,  \* pytest.exit was raised
  results,   \* plugin._results on the controller
  authState, \* plugin._auth_state on the controller
  payload,   \* results.json, or {} before it is written
  received,  \* history: the defects in the responses each body received, and how
             \* they came
  unsigned,  \* history: who received a response with a WS-Addressing violation
             \* through a session
  ran,       \* history: the tests whose body was entered
  crashed    \* history: the tests a worker died under, and in which phase

history == <<received, unsigned, ran, crashed>>
vars == <<options, session, item, wire, pending, stopping, results, authState,
          payload, history>>

Options == [validate : BOOLEAN,       \* not --no-schema-validation
            consent  : SUBSET Consent,
            user     : BOOLEAN,       \* --user was given
            corpus   : BOOLEAN]       \* --corpus-dir, if given, can be parsed

\* A violation as the validators record it, and, as history, who asked: the body
\* of a test, or the session fixtures in its setup.
By == [test : Test, part : {"fixtures", "body"}]
Fixtures(t) == [test |-> t, part |-> "fixtures"]
Body(t) == [test |-> t, part |-> "body"]
SchemaViolation == [defect : Defect, by : By]

\* A defect a body received, through the clients of its session or aside.
Receipt == [defect : Defect, via : {"session", "aside"}]

NewSession ==
  [dut |-> "none", advertised |-> {}, unreachable |-> {}, info |-> FALSE,
   auth |-> Undecided, enabled |-> TRUE, schema |-> <<>>, wsa |-> <<>>]

NoItem == [phase |-> "idle", test |-> Nobody, xfail |-> FALSE, calls |-> 0,
           outcome |-> "passed"]

\* external: what an exchange may bring: a response without a flaw, one with a
\* schema defect or one with a WS-Addressing violation.  No response at all
\* records nothing either.
Answers == [defect : {{}} \cup {{d} : d \in Defect}, wsa : {FALSE}]
             \cup {[defect |-> {}, wsa |-> TRUE]}

\* The plugins attached to every client, on one exchange made by who.
Observe(s, who, a) ==
  [s EXCEPT
     !.wsa    = IF a.wsa THEN Append(@, who) ELSE @,
     !.schema = IF s.enabled
                  THEN @ \o SetToSeq({[defect |-> d, by |-> who] : d \in a.defect})
                  ELSE @]

------------------------------------------------------------------------------
\* Mutant: a second run in the same process keeps what the first one left.
KeptResults ==
  /\ results' = results
  /\ authState' = authState

\* pytest_sessionstart: the module state of the plugin is reset.
SessionStart ==
  /\ results' = <<>>
  /\ authState' = Undecided

Init ==
  /\ options \in Options
  /\ session = [w \in Worker |-> NewSession]
  /\ item = [w \in Worker |-> NoItem]
  /\ wire = [w \in Worker |-> <<>>]
  /\ pending = Test
  /\ stopping = FALSE
  /\ results = <<>>
  /\ authState = Undecided
  /\ payload = {}
  /\ received = [t \in Test |-> {}]
  /\ unsigned = {}
  /\ ran = {}
  /\ crashed = {}

\* external: the scheduler hands a test to a worker that has none.
Start(w, t) ==
  /\ item[w].phase = "idle"
  /\ ~stopping
  /\ t \in pending
  /\ pending' = pending \ {t}
  /\ item' = [item EXCEPT ![w] = [NoItem EXCEPT !.phase = "setup", !.test = t]]
  /\ UNCHANGED <<options, session, wire, stopping, results, authState, payload,
                 history>>

\* Mutant: a session nobody authenticated goes on.
NeverExit(auth) == FALSE

\* The _services fixture: without an accepted credential nothing downstream
\* can be trusted.
MustExit(auth) == options.user /\ auth = Undecided

Report(when, t, outcome) == [when |-> when, id |-> t, outcome |-> outcome]

\* What _stash_dut_state puts on the item, for the call phase only.
Stash(s) == [schema |-> s.schema, wsa |-> s.wsa, auth |-> s.auth]

NoStash == Stash(NewSession)

\* Mutant: only the call phase is recorded.
CallOnly(report) == report.when = "call"

\* The phases pytest_runtest_logreport keeps.
Kept(report) ==
  \/ report.when = "call"
  \/ report.when = "setup" /\ report.outcome # "passed"

\* A worker reports a phase of its test as it ends.  The controller drops a report
\* it does not keep unseen, so that one need not travel.
Send(w, when, outcome, stash) ==
  LET report == Report(when, item[w].test, outcome) IN
  wire' = IF Kept(report)
            THEN [wire EXCEPT ![w] = Append(@, [report |-> report, props |-> stash])]
            ELSE wire

\* The session fixtures, on a worker's first test: dut, _services and
\* _device_info.  Both discoveries swallow their exceptions.
Discovered(t, a, adv, bad, known, auth) ==
  [Observe(NewSession, Fixtures(t), a) EXCEPT
     !.dut = "up", !.advertised = adv, !.unreachable = bad, !.info = known,
     !.auth = auth]

\* The outcome of a setup whose dut fixture came through: the corpus is parsed
\* last, and an error there is that of every test.
Prepared == IF options.corpus THEN "passed" ELSE "failed"

\* The setup phase ends and is reported; a test without its fixtures has no call.
SetUpEnds(w, outcome) ==
  /\ Send(w, "setup", outcome, NoStash)
  /\ item' = [item EXCEPT ![w].phase = IF outcome = "passed" THEN "gate" ELSE "unset"]
  /\ UNCHANGED stopping

SetUp(w) ==
  LET t == item[w].test IN
  /\ item[w].phase = "setup"
  /\ \/ /\ session[w].dut = "up"
        /\ SetUpEnds(w, Prepared)
        /\ UNCHANGED <<session, unsigned>>
     \/ /\ session[w].dut = "down"          \* the fixture's skip is cached
        /\ SetUpEnds(w, "skipped")
        /\ UNCHANGED <<session, unsigned>>
     \/ /\ session[w].dut = "none"          \* DUT(cfg) raises
        /\ session' = [session EXCEPT ![w].dut = "down"]
        /\ SetUpEnds(w, "skipped")
        /\ UNCHANGED unsigned
     \/ /\ session[w].dut = "none"
        /\ \E a \in Answers, adv \in SUBSET Service, known \in BOOLEAN,
              auth \in Verdict : \E bad \in SUBSET adv :
             /\ session' = [session EXCEPT
                              ![w] = Discovered(t, a, adv, bad, known, auth)]
             /\ unsigned' = unsigned \cup {by \in {Fixtures(t)} : a.wsa}
             /\ IF MustExit(auth)
                  THEN /\ stopping' = TRUE
                       /\ item' = [item EXCEPT ![w].phase = "exited"]
                       /\ UNCHANGED wire
                  ELSE SetUpEnds(w, Prepared)
  /\ UNCHANGED <<options, pending, results, authState, payload, received, ran,
                 crashed>>

\* Mutant: cleared by nobody.
Uncleared(s) == [s EXCEPT !.enabled = options.validate]

\* The last lines of test_onvif_case before the body.
Cleared(s) == [s EXCEPT !.enabled = options.validate, !.schema = <<>>]

\* _gate_services on the session's discoveries.
Missing(w)     == Suite[item[w].test].requires \ session[w].advertised
Unreachable(w) == Suite[item[w].test].requires \cap session[w].unreachable

\* Mutant: the service gate only.
ConsentIgnored(t) == TRUE

\* --allow-writes and --allow-reboot cover what the test does.
Consented(t) == Suite[t].demands \subseteq options.consent

\* match_xfail, on the device information the fixture got.
ExpectedToFail(w) == Suite[item[w].test].knownBad /\ session[w].info

\* test_onvif_case up to the body.
Gate(w) ==
  LET t == item[w].test IN
  /\ item[w].phase = "gate"
  /\ \/ /\ Unreachable(w) # {}
        /\ item' = [item EXCEPT ![w].phase = "ended", ![w].outcome = "failed"]
        /\ UNCHANGED <<session, ran>>
     \/ /\ Unreachable(w) = {}
        /\ Missing(w) # {} \/ ~Consented(t)
        /\ item' = [item EXCEPT ![w].phase = "ended", ![w].outcome = "skipped"]
        /\ UNCHANGED <<session, ran>>
     \/ /\ Unreachable(w) = {} /\ Missing(w) = {} /\ Consented(t)
        /\ session' = [session EXCEPT ![w] = Cleared(@)]
        /\ item' = [item EXCEPT ![w].phase = "body",
                                ![w].xfail = ExpectedToFail(w)]
        /\ ran' = ran \cup {t}
  /\ UNCHANGED <<options, wire, pending, stopping, results, authState, payload,
                 received, unsigned, crashed>>

\* The body makes an exchange through a client of the session, whose validators
\* see the answer; one through a proxy of a session that has no verdict yet
\* negotiates again and may find one.
ThroughSession(w, t) ==
  \E a \in Answers, auth \in Verdict :
    /\ session[w].auth # Undecided => auth = session[w].auth
    /\ session' = [session EXCEPT ![w] = [Observe(@, Body(t), a) EXCEPT !.auth = auth]]
    /\ received' = [received EXCEPT
                      ![t] = @ \cup {[defect |-> d, via |-> "session"] : d \in a.defect}]
    /\ unsigned' = unsigned \cup {by \in {Body(t)} : a.wsa}

\* Or past it: a DUT of its own records into a session nobody reads, and a
\* request posted by hand passes no validator.
Aside(t) ==
  /\ Suite[t].aside
  /\ \E a \in Answers :
       received' = [received EXCEPT
                      ![t] = @ \cup {[defect |-> d, via |-> "aside"] : d \in a.defect}]
  /\ UNCHANGED <<session, unsigned>>

Exchange(w) ==
  LET t == item[w].test IN
  /\ item[w].phase = "body"
  /\ item[w].calls < MaxCalls
  /\ item' = [item EXCEPT ![w].calls = @ + 1]
  /\ ThroughSession(w, t) \/ Aside(t)
  /\ UNCHANGED <<options, wire, pending, stopping, results, authState, payload,
                 ran, crashed>>

\* Mutant: the body's own verdict stands.
Unjudged(w, outcome) == outcome

\* Mutant: a violation is an error of the run, not a failure of the test.
AsError(w, outcome) ==
  IF outcome = "passed" /\ options.validate /\ session[w].schema # <<>>
    THEN "error"
    ELSE outcome

\* _fail_on_schema_violations, reached when the body did not raise.
Judged(w, outcome) ==
  IF outcome = "passed" /\ options.validate /\ session[w].schema # <<>>
    THEN "failed"
    ELSE outcome

\* The body ends, the check after it and the xfail wrapper around both: every
\* outcome exception, a skip too, is turned into an expected failure.
BodyEnds(w, outcome) ==
  LET judged == Judged(w, outcome) IN
  /\ item[w].phase = "body"
  /\ item' = [item EXCEPT
       ![w].phase   = "ended",
       ![w].outcome = IF item[w].xfail /\ judged # "passed"
                        THEN "xfailed" ELSE judged]
  /\ UNCHANGED <<options, session, wire, pending, stopping, results, authState,
                 payload, history>>

\* Mutant: the report takes the WS-Addressing list and leaves it.
Untaken(s) == s

\* The stash clears the WS-Addressing list, and that one only.
Stashed(s) == [s EXCEPT !.wsa = <<>>]

\* pytest_runtest_makereport of the call phase: the session's violations go on the
\* item before its report is made.
MakeReport(w) ==
  /\ item[w].phase = "ended"
  /\ Send(w, "call", item[w].outcome, Stash(session[w]))
  /\ session' = [session EXCEPT ![w] = Stashed(@)]
  /\ item' = [item EXCEPT ![w].phase = "called"]
  /\ UNCHANGED <<options, pending, stopping, results, authState, payload,
                 history>>

\* external: the teardown and its report, of an item that was called or one that
\* was not; the properties of the item stay on it, and the reporter drops them.
TearDown(w) ==
  /\ item[w].phase \in {"called", "unset"}
  /\ Send(w, "teardown", "passed", NoStash)
  /\ item' = [item EXCEPT ![w] = NoItem]
  /\ UNCHANGED <<options, session, pending, stopping, results, authState, payload,
                 history>>

\* The record it appends.  An outcome is what pytest reports: the wrapper of
\* the dispatch loop never makes one pass with wasxfail set.
Record(m) == [id |-> m.report.id, status |-> m.report.outcome, stash |-> m.props,
              called |-> m.report.when = "call"]

\* The last report to carry an authentication state decides.
LastWriter(old, rec) == IF rec.called THEN rec.stash.auth ELSE old

\* pytest_runtest_logreport on the controller, for one report of a worker.
LogReport(w) ==
  LET m == Head(wire[w]) IN
  /\ wire[w] # <<>>
  /\ wire' = [wire EXCEPT ![w] = Tail(@)]
  /\ results' = Append(results, Record(m))
  /\ authState' = LastWriter(authState, Record(m))
  /\ UNCHANGED <<options, session, item, pending, stopping, payload, history>>

\* external: a worker process dies under a test, in any phase of it.  xdist
\* reports the test in a phase of its own, "???", after what the worker had sent,
\* and starts a new worker, with a DUT of its own.
Crash(w) ==
  /\ Cardinality(Worker) > 1
  /\ Cardinality(crashed) < MaxCrashes
  /\ item[w].phase \notin {"idle", "exited"}
  /\ crashed' = crashed \cup {[test |-> item[w].test, phase |-> item[w].phase]}
  /\ Send(w, "???", "failed", NoStash)
  /\ session' = [session EXCEPT ![w] = NewSession]
  /\ item' = [item EXCEPT ![w] = NoItem]
  /\ UNCHANGED <<options, pending, stopping, results, authState, payload,
                 received, unsigned, ran>>

\* _distinct_schema_violations: one entry per defect.
Grouped(recs) ==
  LET In(d)      == {i \in 1..Len(recs) :
                       \E v \in ToSet(recs[i].stash.schema) : v.defect = d}
      Times(i, d) == Len(SelectSeq(recs[i].stash.schema,
                                   LAMBDA v : v.defect = d))
  IN [d \in {e \in Defect : In(e) # {}} |->
        [tests |-> {recs[i].id : i \in In(d)},
         occurrences |-> SumFunctionOnSet([i \in In(d) |-> Times(i, d)], In(d))]]

\* The summary counts, one per status.
Counts(recs) ==
  [s \in Status |-> Cardinality({i \in 1..Len(recs) : recs[i].status = s})]

\* pytest_sessionfinish on the controller, once every worker is done.
SessionFinish ==
  /\ payload = {}
  /\ \A w \in Worker : item[w].phase \in {"idle", "exited"} /\ wire[w] = <<>>
  /\ pending = {} \/ stopping
  /\ payload' = {[total |-> Len(results), summary |-> Counts(results),
                  auth |-> authState, distinct |-> Grouped(results)]}
  /\ UNCHANGED <<options, session, item, wire, pending, stopping, results,
                 authState, history>>

\* onvif-tt run calls pytest.main() in-process, so it can be called again.
RunAgain ==
  /\ payload # {}
  /\ options' \in Options
  /\ session' = [w \in Worker |-> NewSession]
  /\ pending' = Test
  /\ stopping' = FALSE
  /\ payload' = {}
  /\ received' = [t \in Test |-> {}]
  /\ unsigned' = {}
  /\ ran' = {}
  /\ crashed' = {}
  /\ item' = [w \in Worker |-> NoItem]
  /\ SessionStart
  /\ UNCHANGED wire

Work(w) ==
  \/ \E t \in Test : Start(w, t)
  \/ SetUp(w)
  \/ Gate(w)
  \/ Exchange(w)
  \/ \E o \in {"passed", "failed", "skipped"} : BodyEnds(w, o)
  \/ MakeReport(w)
  \/ TearDown(w)

Next ==
  \/ \E w \in Worker : Work(w) \/ LogReport(w) \/ Crash(w)
  \/ SessionFinish
  \/ RunAgain

Spec == Init /\ [][Next]_vars
------------------------------------------------------------------------------
StashType == [schema : Seq(SchemaViolation), wsa : Seq(By), auth : Verdict]

SessionType ==
  [dut : {"none", "up", "down"}, advertised : SUBSET Service,
   unreachable : SUBSET Service, info : BOOLEAN, auth : Verdict,
   enabled : BOOLEAN, schema : Seq(SchemaViolation), wsa : Seq(By)]

ItemType ==
  [phase : {"idle", "setup", "gate", "body", "ended", "called", "unset", "exited"},
   test : Test \cup {Nobody}, xfail : BOOLEAN, calls : 0..MaxCalls, outcome : Status]

RecordType ==
  [id : Test, status : Status, stash : StashType, called : BOOLEAN]

ReportType ==
  [when : {"setup", "call", "teardown", "???"}, id : Test, outcome : Status]

MessageType == [report : ReportType, props : StashType]

DeathType == [test : Test, phase : {"setup", "gate", "body", "ended", "called", "unset"}]

TypeOK ==
  /\ options \in Options
  /\ session \in [Worker -> SessionType]
  /\ item \in [Worker -> ItemType]
  /\ wire \in [Worker -> Seq(MessageType)]
  /\ pending \in SUBSET Test
  /\ stopping \in BOOLEAN
  /\ results \in Seq(RecordType)
  /\ authState \in Verdict
  /\ received \in [Test -> SUBSET Receipt]
  /\ unsigned \in SUBSET By
  /\ ran \in SUBSET Test
  /\ crashed \in SUBSET DeathType

Results == ToSet(results)
Defects(rec) == {v.defect : v \in ToSet(rec.stash.schema)}

\* The defects in what a body received through the clients of its session.
Shown(t) == {r.defect : r \in {x \in received[t] : x.via = "session"}}

\* A test whose body ran is blamed for exactly the schema defects in the
\* responses it received through its session, whatever ran before it on the same
\* DUT and whatever the fixtures provoked (dispatch.py:222-226); what it received
\* aside is nowhere in its record.
BlameIsExact ==
  \A rec \in Results : rec.id \in ran /\ options.validate =>
    /\ Defects(rec) = Shown(rec.id)
    /\ \A v \in ToSet(rec.stash.schema) : v.by = Body(rec.id)

\* With validation on, a pass says that the test never received a response the
\* schema does not permit through its session, an expected failure that passes
\* included (dispatch.py:133-159, run inside the xfail wrapper).  Of what it
\* received aside a pass says nothing.
PassMeansValid ==
  \A rec \in Results :
    rec.status = "passed" /\ options.validate => Shown(rec.id) = {}

\* WS-Addressing violations neither leak into another test's record, a skipped
\* one's included, nor get lost: the record of a test that was called has exactly
\* those its own body provoked and, where its setup built the session, those of
\* the fixtures (plugin.py:190-200).
AddressingStaysPut ==
  \A rec \in Results : rec.called =>
    ToSet(rec.stash.wsa) = {by \in unsigned : by.test = rec.id}

\* A refused login leaves no verdicts behind: when a user was given, no body
\* runs and nothing is recorded from a session whose credentials no exchange
\* accepted (dispatch.py:64-69, "Nothing downstream can be trusted").
NothingBelowARefusal ==
  options.user =>
    /\ \A rec \in Results : rec.called => rec.stash.auth # Undecided
    /\ \A w \in Worker : item[w].phase = "body" => session[w].auth # Undecided

\* The tests whose worker died before the one report of theirs that is kept.
Lost == {c.test : c \in {x \in crashed : x.phase \in {"setup", "gate", "body", "ended"}}}

\* results.json is as complete as the reporter can make it: where no refused login
\* cut the run off, a collected test is missing if and only if its worker died
\* before the report of its call, or of the setup it did not get through, and not
\* if it died in the teardown; each is in it once, under a status the summary
\* counts, and none is left over from an earlier run in the same process.  The
\* report xdist makes of a death is in a phase the reporter drops
\* (plugin.py:220-233).
ReportIsComplete ==
  payload # {} =>
    /\ \A i, j \in 1..Len(results) : results[i].id = results[j].id => i = j
    /\ ~stopping => {rec.id : rec \in Results} = Test \ Lost
    /\ \A p \in payload :
         p.total = SumFunctionOnSet(p.summary, DOMAIN p.summary)

\* A test that does more than read the device's state is entered only with the
\* leave its registration asks for, and a verdict about the device, pass or
\* expected failure, comes only from a body that was entered.
VerdictsAreEarned ==
  /\ \A t \in ran : Suite[t].demands \subseteq options.consent
  /\ \A rec \in Results : rec.status \in {"passed", "xfailed"} => rec.id \in ran

\* "Negotiation settles once and then never changes, so any test's copy is the
\* session's verdict" (plugin.py:272): the authentication results.json reports
\* is the one every test in it ran under, once its session had settled.
AuthSpeaksForAll ==
  \A p \in payload : \A rec \in Results :
    rec.called => rec.stash.auth \in {p.auth, Undecided}

\* "tests: IDs of the tests that received this violation"
\* (docs/schemas/results.json.schema.json): the roll-up blames only tests in
\* whose responses the defect was.  The code does not keep it.
RollUpNamesReceivers ==
  \A p \in payload : \A d \in DOMAIN p.distinct :
    \A t \in p.distinct[d].tests : \E r \in received[t] : r.defect = d

\* "If a test passes on a device where it was expected to fail, the status
\* becomes xpassed" (docs/ai-readme.md:116).  The code does not keep it.
UnexpectedPassShows ==
  \A w \in Worker :
    item[w].phase = "ended" /\ item[w].xfail => item[w].outcome # "passed"
==============================================================================
