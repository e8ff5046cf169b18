# A verification model of onvif-tt

`onvif-tt` runs ONVIF conformance tests against a device (the *DUT*) and writes
a verdict per test to `results.json`. The verdicts are only worth something if
the tool never blames the device for its own doing, never calls valid what it
did not check, and leaves the device as it found it. Those are properties of
state that outlives a test: one session-scoped `DUT` object is shared by every
test of a process, pytest-xdist runs several such processes at once against one
device, the device fails or drops exchanges at will, what happened is tied back
to a test only by hooks that clear and stash shared lists at the right moments,
and the schemas that responses are judged by are files another process may be
refreshing. This directory models that machinery in TLA+, checks it with TLC and
proves parts of it with TLAPS.

Paths such as `dut.py:363` are below `src/src/onvif_tt/` (`runtime/`, `runner/`,
`cases/`, `specs/`). `PROJECT.json` lists the components, the runs, the mutant
that each property is known to catch, the source lines of every definition, the
hazards and the theorems.

## Inventory

| Component | State it keeps | Operations | Hard behaviour | What makes it correct |
|---|---|---|---|---|
| Authentication negotiation (`dut.py`, `auth.py`) | `AuthState`, camera credentials and offset, cached clients, two flags | `__getattr__`, `_negotiate_auth`, `_try_auth`, `_apply_clock_offset` | lost exchanges in the middle, a wrong or moving device clock, re-entry, credentials baked into clients | cleartext only after a refusal and with the clock asked for, honest and final verdict, every client carries it |
| Dispatch loop (`dispatch.py`) | session fixtures, `schema_violations`, `_schema.enabled` | fixtures, service and consent gates, body, schema check, xfail wrapper | state shared between tests, early exits before the clear, bodies that go past the session | exact blame, no pass on invalid data, no verdict below a refused login |
| Reporter (`plugin.py`) | `_results`, `_auth_state`, `user_properties` of items | makereport, stash, logreport, session start and finish | a report per phase, several workers, a worker that dies between two of them, a second run in the same process | complete report, nothing leaks from test to test or run to run |
| Event subscriptions (`dut.py`, `cases/event.py`) | `session.subscriptions`, `_alive`, subscriptions on the device | create, `with` block, explicit unsubscribe, teardown | lost create response, failed unsubscribe, Ctrl-C, expiry, removal while iterating | the list is the live handles, nothing dangles without an excuse |
| Service discovery and gate (`features.py`, `services.py`, `dut.py`, `cases/base.py`) | `services`, `advertised_without_xaddr`, `unknown_namespaces` | `discover_services`, `can_bind`, `can_reach`, gate, audit test | either request fails and is swallowed, two overlapping envelopes, caching | no silent skip, what is let in can be bound, an honest audit |
| Validators (`response_validator.py`, `wsa_validator.py`, `raw_soap.py`) | the violation lists, the clients, the index of enumerations | `ingress`, the walk over a schema type, the raw path's own validation | enum lookup across imported schemas, namespaces, documents read at different times | a violation for every defect and none for a valid response |
| Device time and clock (`cases/base.py`, `cases/auth.py`) | the device clock, the offset of a settled session | `SetSystemDateAndTime` and its restore, SECURITY-1-1-1 | an offset that goes stale or was never measured, a restore that is skipped | the clock is put back; a device is blamed for what it does |
| Reboot (`cases/reboot.py`) | phase of the device, a hello list filled by another thread | reboot, grace period, recovery poll, hello listener | a device not yet down answers the poll, a callback races a deadline, a neighbour's Hello | recovered means: went down and came back |
| Write-and-restore tests (`cases/ptz.py`, `imaging.py`, `deviceio.py`, `doorcontrol.py`, `search.py`, `base.py`) | settings and motors of the device | save, change, verify, put back, move, Stop | two workers on one setting or motor, a change applied whose answer is lost, a device that faults or ignores a step, a Stop that fails | the device ends as it began; verdicts are about the device |
| Schema store (`schema_store.py`) | documents and a manifest on disk, the manifest each process read | `refresh`, `verify`, `load`, `local_path` | a refresh that dies between two writes or in one, two at once, an edition published in the middle | what `verify` accepts is whole |
| Registry (`registry.py`) | `REGISTRY` | `register`, `match_xfail` | duplicate ids, partial matchers | a matcher fits only the device it names |
| Corpus parser (`specs/parser.py`) | none | section, procedure and verdict lists of an HTML corpus | nested lists, lead-ins inside steps | every step once, in order, under its section |
| Command line, raw SOAP helpers, PDF reporter, CI scripts | none of interest | argument plumbing, request building, formatting | - | - |

How they interact. `onvif-tt run` calls `pytest.main()` in-process. The first
test of a process builds the `DUT`; its first access to a service negotiates the
password type, which binds `devicemgmt` and probes it; discovery then goes
through the negotiated client. Validators are attached to every client and
append to lists of the session. The dispatch loop clears one list before a body
and looks at it after it, the reporter's `makereport` hook copies both lists and
the authentication onto the item's report and clears the other one, and the
controller builds `results.json` from the reports it receives, in whatever order
the workers send them. Subscriptions go into a session list which the session
fixture walks when the process ends. Workers share nothing but the device and the
files: what one changes on the device for a moment, or another process writes
into the schema store, the others see.

## Modules

| Module | Models | Composed with |
|---|---|---|
| `NegotiatedSession` | the promise of a negotiation: what is refused, exposed and decided, and when it may be | refined by `AuthNegotiation` |
| `AuthNegotiation` | `DUT.__getattr__` down to the last exchange of a negotiation | `INSTANCE NegotiatedSession WITH ...` |
| `UserToken` | SECURITY-1-1-1, five hand-made requests stamped by what the session knows of the clock | extends `AuthNegotiation` |
| `MCAuthNegotiation` | an instance with clocks that agree, differ a little, differ a lot | extends `UserToken` |
| `AuthNegotiationProofs` | theorems of both | extends `UserToken`, `TLAPS` |
| `ConformanceRun` | fixtures, dispatch loop, validators' recording, reporter, workers | takes the negotiation's outcome and the discovery's as free choices; what those can be is the other modules' subject |
| `MCConformanceRun` | a suite of three kinds of tests, worker symmetry | extends `ConformanceRun` |
| `ElementLemmas` | what the operators on sequences do to the set of their elements; induction over the naturals, on a set | used by the three proof modules that extend it |
| `ConformanceRunProofs` | theorems | extends `ConformanceRun`, `ElementLemmas` |
| `Subscriptions` | handles, event tests, teardown, the device's subscriptions | - |
| `SubscriptionsProofs` | theorems | extends `Subscriptions`, `SequenceTheorems`, `TLAPS` |
| `ServiceDiscovery` | the two discovery requests, caching, gate, binding, audit | - |
| `ServiceDiscoveryProofs` | theorems | extends `ServiceDiscovery`, `TLAPS` |
| `WriteTests` | every test that changes or reboots the device, as scripts that two workers interpret against it | - |
| `WriteTestsProofs` | theorems | extends `WriteTests`, `ElementLemmas` |
| `MCWriteTests` | all sixteen scripts, seven devices, two initial settings | extends `WriteTests` |
| `SchemaStore` | documents, manifest, `refresh` and `verify` in several processes | - |
| `SchemaStoreProofs` | theorems | extends `SchemaStore`, `ElementLemmas` |
| `ResponseChecks` | a run that binds clients from the store and judges responses by them | extends `SchemaStore`, takes its steps |
| `ResponseChecksProofs` | theorems | extends `ResponseChecks`, `SchemaStoreProofs` |
| `MCResponseChecks` | four documents in a circle, two editions, ten responses | extends `ResponseChecks` |

### AuthNegotiation

Variables carry the names of the code: `accepted`, `rejected`, `clockOffset`,
`clockProbeRefused` are `AuthState`; `encrypt` and `dtDiff` the camera's fields;
`services` is `DUT._services`, mapped to the credentials each client was built
with, because `_service_kwargs` copies them at construction; `clockChecked` and
`negotiating` are the two flags. `pc`, `cand` and `want` are the program counter
of the access in progress. One step is one HTTP exchange and the code around it:

- `Access` is `__getattr__` with the early return of `_negotiate_auth`;
- `TryAuth` is `_try_auth`: credentials set, clients dropped, the probe bound
  and sent, then one of four outcomes (transport failure, a refusal in words
  `is_auth_failure` does not know, a refusal, acceptance);
- `ApplyClockOffset` is `_apply_clock_offset` with the flag set before the probe;
- `Bind` is the rest of `__getattr__`, which may raise `ServiceUnbindable`;
- `SetDeviceClock` is the environment.

`CleartextIsLastResort` does not say that the clock was ruled out before the
password went out in cleartext, for the code does not rule it out: a probe that is
lost, or answered without the time, is logged and the loop goes on to the weaker type
(`dut.py:449-461`). What it says is that digest was refused and the clock asked
for, and, where the answer came, that the device refuses digests at its own time.

The device is external: a policy drawn in `Init` says which types it accepts,
whether it enforces a freshness window, whether it answers the clock probe and
how it words a refusal. Skews are small integers around the tolerance, the unit
being of no interest. Two things are folded in rather than modelled apart: an
access to `devicemgmt` from inside discovery is an `Access` of its own, and an
empty `--user` is a device policy (what the device makes of an empty token).

### ConformanceRun

Each worker has a session (`dut`, discovery outcome, `auth`, `_schema.enabled`,
the two violation lists) and an item with a phase. `SetUp` is the three session
fixtures and the corpus: a DUT that cannot be built (a skip, cached for the tests
after it), a login refused (`pytest.exit`), a corpus that cannot be parsed (an error
of every setup), or a session. `Gate`, `Exchange`, `BodyEnds` are `test_onvif_case`.
An exchange goes `ThroughSession`, where the validators see what comes back, or
`Aside`: by hand, as SECURITY-1-1-1 posts its tokens (`cases/auth.py:211-225`), or
through a DUT made for the one test (`cases/auth.py:29-41`, `reboot.py:38`, `164`),
which records into a session that nobody reads. What comes aside is in no violation
list, and the properties of blame and of passes are about what came through the
session: that, and no more, is what a verdict rests on.

Each phase of a test is reported as it ends: `SetUpEnds`, `MakeReport` for the call,
with its stash, `TearDown`. `Send` puts a report on the worker's wire if the
controller will keep it (`Kept`): a call, or a setup that did not pass. `LogReport`
is the controller's hook, one report of one worker at a time. `Crash` is a worker
that dies in any phase of a test; pytest-xdist reports that in a phase of its own,
which the reporter drops, and starts another worker. So a test is missing from
`results.json` exactly if its worker died before the end of its call, or of a setup
it did not get through (`Lost`), which is what `ReportIsComplete` says, and not if
it died in the teardown. `SessionFinish` writes the payload; `RunAgain` is a further
`pytest.main()` in the process. Violations carry, as history, who sent the
request, so that blame can be compared with the truth.

Abstractions: reports that the controller drops unseen do not travel; after
`pytest.exit` in one worker the others finish the test they are in; the envelopes
of the SOAP trace are left out; a body is a bounded sequence of exchanges with a
free outcome; a response has no defect, a schema defect or a WS-Addressing
violation.

### Subscriptions

One handle per test. `onDevice` is the device's view, `alive` and
`subscriptions` the client's, so every way the two can part is visible: the
response of a create lost, an address missing, an Unsubscribe lost before or
after the device acted, expiry. `Interrupt` is a Ctrl-C between two exchanges,
`InterruptSubscribe` and `InterruptUnsubscribe` one inside an exchange (no
`except Exception` sees it, the `finally` does). A Ctrl-C inside an Unsubscribe that
the teardown itself sends (`dut.py:679-680`) is taken as one between two of them:
either leaves the rest of the list, with the same excuse. `EVENT-3-1-36` and
`EVENT-2-1-28` are the `"explicit"` style with their follow-up request.

### ServiceDiscovery

Services are identified by the namespace a device lists them under; `Known` are
those with a row in `services.SERVICES`, `Vendored` those whose WSDL is in the
store, `Legacy` those `GetCapabilities` has a category for. `GetServices` and
`GetCapabilities` each succeed or are swallowed. What the device lists may
differ from one discovery to the next, and `GetServices` may list a namespace
more than once, with an address and without: the code adds to both sets then,
and only the legacy envelope takes a service off the blanks
(`features.py:70-77`, `90-92`). So a service can be among those with an address
and those without, by the doing of `GetServices` alone; `AddressOrBlank` says
that there is no other way. `Gate` is the service part of `test_onvif_case`,
`Discover`/`Found` the return into the fixture, the audit test
`LOCAL-CLIENT-SERVICES-BINDABLE` or `_xaddr_for`.

### UserToken

`BeginTest` runs between two accesses of a session of `AuthNegotiation`; `Probe`
is `_accepts_token` and what the test makes of its answer, for a request without
a token, without a nonce, without a timestamp, with the password in clear, and
whole. `Correction` is the offset `cases/auth.py:254` takes from the session's
record: none within the tolerance, and none when digest was accepted at once and
the clock never measured. `LoseProbe` is an exchange lost in transport. While the
test runs the session makes no access, but the device's clock may be set.

### WriteTests

The device has traits (what it ignores, hides, refuses; `Trait` lists them: it
may ignore or fault a change, its readback or its restore, open a search without
a token, accept a reboot without a Message), a phase, an identity, five settings
and two axes that move. A test is a script, a sequence of steps; a step names
what it does, to what, the step that is its `finally` (0 for none) and what an
`except` around it absorbs. So the sixteen scripts are the test bodies, exchange
by exchange, and the actions are what Python and pytest make of any of them:
`Answered` is an exchange that comes through, `Lose` one lost on either way,
`Interrupt` a Ctrl-C (which no `except Exception` sees but a `finally` does),
`Unreachable` an exchange with a device that is away, `Crash` a worker that dies
(no `finally` runs). `Raise` and `Proceed` are where an exception, or its
absence, leads. `SkipTest` is a test that its first reads show to be not
applicable. Steps that wait, poll or listen have actions of their own (`Wait`,
`Grace`, `Poll`, `Listen`, `AwaitHello`). The device ends motions, goes down and
comes up in its own time, and strangers say Hello.

History: where an exchange did not come through (`mishaps`), whose subject
another worker changed meanwhile (`disturbed`), whose reboot the device went down
for (`wentDown`). With these the properties tell an excuse from a fault of the
tool. `LeftBehind` lists the excuses for a setting that is not put back, and
`Hidden` the defects that a device keeps from the test that looks for them.

### SchemaStore

`files` and `manifest` are the directory; `cache` is `_MANIFEST` of each process.
A `refresh` is a crawl (`Begin`, `Visit`, `EndCrawl`: a queue of URLs, a document
per key, the scheme dropped from it), then one `Write` per document, the listing
of what is stale (`EndWrite`), a `Delete` each, and the manifest
(`WriteManifest`), which also drops the cache. `Kill` may fall on any of these,
or in the middle of a write, which leaves the file torn or the manifest broken;
`LoseFetch` is a fetch that times out. `Publish` and `Edit` are the web and
people. The references of a document are queued in an order left open.
`Problems` and `Verifies` are `verify`.

### ResponseChecks

A run beside those processes. `Bind` builds a client from the documents reached
from a WSDL, through the transport that serves only what the manifest lists, if
every type they name is declared in them; `Ingress` is what both plugins do with
an envelope; `RawCall` is `raw_soap_call` with the clients it builds for itself,
in three cases: nothing to look up (a Fault, no SOAP 1.2 Body, no element), a
manifest that cannot be read, which the lookup swallows, and a judged response.
`Walk` is `validate_element`: occurrences counted by QName, required attributes,
enumerations from the index built at the first element walked, children descended
into. A body is a tree of nodes, a function on addresses. `Flaws` is the reference
it is compared with: every node of the tree is given the types the store's
documents give it, or none, and looked at by itself. `AddressingViolations` is
`WSAValidator.ingress`.

`sound` is history: the store verified when the run first turned to it, and has
not been touched since. `SinkIsExact` is about such a run: its sink holds nothing
but flaws, and all the flaws of the responses that are of the service asked
(`OfItsService`).

## Runs

Sizes are those of the configurations here; with two workers the longest takes
about three minutes.

| Run | Question | Bounds | Result |
|---|---|---|---|
| `auth` | Are verdicts honest, final and carried by every client, is the promise of `NegotiatedSession` kept, and is SECURITY-1-1-1 fair at any point of a session? | every mode and policy, 3 skews, 2 services, 2 lost exchanges, 1 clock change | holds, 951 888 states |
| `run` | Blame, validity, completeness, across workers, a crash and further runs | 2 workers, 2 tests (one known bad that also goes past its session, one that writes), 1 exchange per body, 1 crash per run | holds, 2 872 584 states (workers symmetric) |
| `subs` | Is the list exact, does the teardown miss nothing, is every leftover excused? | 3 tests, 1 lost exchange, one Ctrl-C in the tests and one in the teardown | holds, 76 880 states |
| `discovery` | No silent skip, no test let in that cannot bind | 4 services (two with all; one without a legacy category or schema; one unknown), listed blank, with an address, both or not, another answer to each discovery, 2 failed requests | holds, 568 526 states |
| `device` | Is everything put back, does every motor stop, is every pass and failure about the device? | any 2 of 16 tests, 2 workers, 7 devices, 2 initial settings, 1 lost exchange, Ctrl-C or death, 2 polls, 2 Hellos | holds, 2 120 892 states (workers symmetric) |
| `schemas` | Is a store that verifies whole, does a run over it record what is wrong and nothing else, does a refresh end? | 4 documents, 2 editions, 2 processes and a run with at most 2 of the three active, 1 new edition or edit, 1 kill or lost fetch, 1 of 10 responses | holds, 310 285 states |
| `auth_false_verdict` | Does "fell back to text" mean the device refused digest? | 1 lost exchange | violated |
| `run_rollup` | Does the roll-up name only tests that received the violation? | 1 worker, 2 tests | violated |
| `run_xpassed` | Is an unexpected pass told from an ordinary one? | 1 worker, 3 tests | violated |
| `run_xdist_auth` | Does the reported authentication speak for every test? | 2 workers, 2 tests, no defects | violated |
| `subs_swallowed` | Must an explicit Unsubscribe succeed? | 2 tests | violated |
| `discovery_partial` | Does "missing" mean "not implemented"? | 1 failed request | violated |

Why the bounds are enough. *auth*: an access makes at most two tries per
candidate and one clock probe, so two losses can hit a negotiation and the one
after it; three skews are the three cases of the code (agree, within tolerance,
beyond the window), with a sign so that direction matters. *run*: the shared
lists couple a test to its predecessor on the same DUT and to the fixtures, so
two tests and a further run show every handover; a run begins with what the one
before it left in the reporter, so their number needs no bound; the crash needs
a second worker, and falls on any phase; one exchange per body is enough since
lists only grow within a body. *subs*: three handles are what removal from the
list being walked needs (one before and one after). *discovery*: the four
services are what the code tells apart (the device's own, one in both envelopes,
one known that neither the legacy envelope nor the store has, one unknown), and
devices list them in every way, anew for each discovery. *device*: a test meets
one other, beside it or before it, so pairs of tests show every conflict; one
fault may fall on any exchange of either, and two would excuse each other. Seven
devices have every trait between them, so that each way of not obeying meets
every test; the last hides its one defect. Two polls tell a device that answers
before it goes down from one that comes back; two Hellos a stranger's from the
device's own. *schemas*: two editions, of which the second drops a document,
moves a type and adds a value; the four documents refer to each other in a
circle and by two schemes. Two processes are what an interleaving of refreshes,
or of a refresh and a run, needs; a third active one repeats what one of the two
does. Deadlock is checked in every run; `Terminated` is the only way to stop.

Every property of a passing run comes with a mutant, a definition next to the
original that changes the code the way a plausible bug would; replacing the
original by it makes TLC find the property violated.

### What the violations show

1. `dut.py:449`. `_clock_checked` is set before the probe, so a clock probe lost
   in transport is never repeated; a digest-capable device whose clock is wrong
   is then recorded as refusing digest, the false verdict `dut.py:404-409` is
   there to prevent, and the report gives no hint (`clock_probe_refused` stays
   False). `HonestFallback` states what does hold: the clock measured, the
   verdict is right.
2. `plugin.py:212`, `dispatch.py:226`. Schema violations are cleared only right
   before a body; a test that a gate skips or fails is stashed with those of the
   test before it and enters the roll-up as a receiver.
3. `dispatch.py:248`. An unexpected pass is a warning, so the documented status
   `xpassed` never appears.
4. `plugin.py:276`. Under xdist the reported authentication is that of the worker
   that reported last, not "any test's copy is the session's verdict".
5. `dut.py:185`. `unsubscribe()` swallows a fault, so the test that demands an
   explicit Unsubscribe to succeed goes on without it.
6. `features.py:52`. `GetServices` is lost and swallowed, `GetCapabilities` gets
   through and finds `devicemgmt`; `services` is not empty, so nobody discovers
   again, and a test of a service that only `GetServices` would have listed skips as
   not advertised. (Had neither found anything, the next caller would have asked
   again.)

### What passing runs leave open

A property that holds says by its exceptions what the code does not do. These are
the ones a reader should know of.

- `SettingsPutBack` excuses a setting whose write or restore did not come
  through: the write is outside the `try` (`ptz.py:464`), so one that the device
  carried out and whose answer was lost is never put back. It excuses one that the
  device does not put back, whether it faults the restore or answers and does
  nothing: there is no second try, and nobody reads the setting again (`ptz.py:469`).
  A search that was opened without a token is not ended, as the assertion on the
  token comes first (`search.py:75-76`). For the clock a lost or faulted readback is
  an excuse too, since its restore is in no `finally` (`base.py:549`).
- `BlameIsExact` and `PassMeansValid` are about the responses that came through the
  session. Nobody validates what SECURITY-1-1-1 receives by hand, and what a DUT made
  for one test records is in no report.
- `ReportIsComplete` says which tests are missing, not that none is: those whose
  worker died before their call was reported. The report of the crash is in no phase
  that the reporter keeps (`plugin.py:228-233`), so the reader of `results.json` is
  told nothing.
- `AddressOrBlank` leaves a service in both sets where `GetServices` lists it twice:
  the gate then fails tests for want of an address the session has.
- `Verifies` takes `verify` as one step, though it reads the manifest and then file
  after file: a refresh in the middle of it can make it complain of a store that is
  whole, or not see a change behind it.
- `FailureIsEarned` excuses a test whose subject another worker changed
  meanwhile. Nothing in the code keeps two workers off one motor or one setting.
- `PassIsEarned` lets a device whose timeout range is a single value
  (`narrow_range`) pass without having shown anything, lets a look-alike's Hello
  stand for the device's, since the address is looked for as a part of a string
  (`reboot.py:194`), and lets a device that is slow to go down pass as one that came
  back the same: DEVICE-3-1-8 may look before the reboot (`reboot.py:84`). Any Hello
  ends the recovery loop, so a stranger's, heard first, is held against the device.
- The relay test sends the relay's idle state, `open` or `closed`, for the
  logical one (`deviceio.py:105`): a device that tells the two apart fails, and
  one that takes it may be left in a state it was not in.
- `TokenVerdictIsFair` lets a device be blamed for refusing a whole token when
  the clock was never measured, because digest had been accepted at once: the
  token is then stamped by the host's clock.
- `DoneMeansVerified` needs that no other process wrote meanwhile, and
  `SinkIsExact` that nobody has touched the store since the run first looked: the
  store has no lock, and clients and index are read at different times.
- `SinkIsExact` is silent about a raw call that found the manifest broken: the
  lookup swallows the exception (`response_validator.py:251-256`), so the response
  counts as valid.
- A response may hold elements that only the documents of another service declare.
  Whether they are judged depends on the clients bound so far, so `SinkIsExact`
  promises to find all that is wrong only where the service's own documents
  declare what the response holds (`OfItsService`), and only over documents that
  declare no name twice: of two declarations the code takes the first it meets,
  and of two enumerations of one name the last.

## Fairness

The transport of the tests has no operation timeout (`dut.py:323-326`), so nothing
in the code guarantees that an exchange ends, and weak fairness of an exchange
would be an invention. `SettlesWhileUsed` therefore takes as premise that accesses
keep beginning and ending, and shows what the code adds to it: finitely many lost
exchanges never keep a session of an authenticable device undecided for good.

A refresh is different: `_fetch` gives up after 60 seconds (`schema_store.py:200`)
and all else it does is local. `StoreFairness` is weak fairness of the turn of
each process, whatever its next step is; under it `RefreshEnds` shows that a
refresh which has begun ends, as the crawl remembers what it has visited. The
environment (`Kill`, `LoseFetch`, `Publish`, `Edit`) and the beginning of a
refresh have no fairness.

## Proofs

The theorems hold for every value of the constants allowed by the named
assumptions (`NegotiationAssumption`, `SubscriptionsAssumption`,
`DiscoveryAssumption`, `RunAssumption`, `WriteTestsAssumption`,
`SchemaStoreAssumption`, `ResponseChecksAssumption`), which TLC evaluates on the
instances. They ask for no more than this of a run: finitely many tests and
workers, each test with a script; and of a device: that it does not both lack a
command of the door and answer it with a fault the test cannot read, and that no
recording search is open when the run begins (the test would end a search it did
not begin). Of a response, that its Body is a finite tree and that it was asked
of a service the store is seeded with.

**AuthNegotiationProofs.** `TypeOK` is not inductive by itself: the index of a
candidate is in range only inside the loop, and only for modes that have one.
`ControlInv` adds which program points belong to the negotiation, that the guard
is up exactly there and that nothing is accepted there; on it rest type
correctness and `VerdictCarried` (every client of a settled session was built
with the accepted credentials, because the last probe dropped all others), and
`Settled`, the action property that no step undoes a verdict. `RefusalInv`
relates `rejected` to how far the loop is: the second candidate is tried only
after the first was refused, which gives `NeverBoth`. `ClockInv` relates
`dtDiff`, `clockOffset` and the flag, and `GenuineInv` says of each refused type
that the device, its clock left alone, refuses it at the offset measured; from
these follow `FallbackIsHonest`, `Exhausted` and `CleartextLast`, which asks of
the device, where its clock was measured, that it refuses digests. `Refinement`
shows `Spec => ImplementsSession`: a `TryAuth` is a `Refuse`, `Lose` or `Decide`
of `NegotiatedSession`, every other step a `Drift` or a stutter.

There too are the theorems of `UserToken`, the same with SECURITY-1-1-1 in it. A
step of `TSpec` is a step of the session or one aside of it, which changes none
of its variables but the count of losses (`TestStep`), so the lemmas about
single steps above carry the session's properties over (`SessionInTest`,
`SettledInTest`, `RefinementInTest`). `TokenInv` says of each request already
answered what the device's answer shows about it, as long as the clock was left
alone since the test began; with `ClockInv` it gives `TokenFair`.

**ConformanceRunProofs.** Two inductive invariants, and every property of the
runs of `ConformanceRun` that hold is a theorem.

`Inv`: `RunInv` says where a test is (with the scheduler, with exactly one worker,
lost with one that died, or reported), that it has done nothing before its body,
that the violations of a session are those of the test that runs on it (`InOrder`:
the schema violations those of its body, the WS-Addressing violations those of its
body and its fixtures), and that every record, received or still to be made of a
report on a wire, is right about the test it names (`Truthful`) and that this test
has at most its teardown before it (`Settled`). Because of that no later step can
make the record wrong; `OneWorker` shows once that a step of one worker, which
touches only its own test, keeps all of this. `Blame`, `Valid`, `Addressing`,
`Refusal` and `Earned` are read off the records.

`Ledger` adds what `ReportIsComplete` needs. That no test gets lost unseen is in
`RunInv` (`Placed`: a test is with the scheduler, with a worker that has yet to
report it, among the `Lost`, or in a record; `LostInv`: the lost are in none).
`OnceInv` says that none is told of twice: of the reports on all wires and the
records received, at most one is of a given test. `TotalInv` says that
`results.json` counts the records; that the counts of a summary add up to its total
(`CountsAddUp`) is a fold over the statuses unrolled, and the union of the positions
of each status.

**SubscriptionsProofs.** The inductive invariant `SubsInv` adds four parts to the
type invariant and `ListIsLive`: where the program is and whose handle it holds
(`PlaceInv`), that a test not yet begun has no trace (`FreshInv`), what a sent or
unsent Unsubscribe says about the subscription (`AnswerInv`), and that the
teardown still has every live handle before it (`TeardownInv`). Two lemmas about
`RemoveFirst` and `Append` on injective sequences carry the list. All six
properties of the run `subs` are theorems.

**ServiceDiscoveryProofs.** `SourceInv` says that `GetServices` is sent only
while no service is known, so that between the two requests every address is
from it, and a service that is blank all the same was listed twice; with what
`GetCapabilities` takes off the blanks this gives `LegacyAddressCounts`.
`CompleteInv` says that, no request lost, everything listed is in one of the
three sets; `EnteredInv` that a test which was let in has its services. All six
properties of the run `discovery` are theorems.

**WriteTestsProofs.** The inductive invariant is `Ground`, and all six properties
of the run `device` are theorems: for any suite, any number of workers and of
faults, any set of devices.

`Base` is three parts. `RebootInv` follows the script of a reboot test: past the
request the device has accepted or has gone down for it, past the grace period
only the latter is left for a device that is not slow. `MotorInv` follows the
`finally`: every step that starts a motor is in a `try` that ends with a Stop
(`ScriptsStop`, a fact about the scripts), and until that Stop has been carried
out some worker has it ahead of it, or there is an excuse. `TypeInv` adds to the
types that a test is with one worker and that what it saved is a value of what it
saves.

`PutBackInv` is the same idea for settings, with two differences: what is restored
is a value the test has read, and the step after the change may be in no `try`. So
of each setting it says that an excuse is there (`LeftBehind`), or that its one writer
has read what the run found (`Knew`) and the setting is as found (`Back`) or the
writer has its restore ahead of it (`Owes`). It needs that an exception is pending
only where a `finally` is (`Pended`), and what the devices that ignore a write keep
(`Stuck`, `ClockSet`).

`EarnedInv` says what a worker can know from the answers it has had, as long as
nobody disturbed its test (`Known`): that the setting is what it wrote unless the
device ignores writes, that the motor it started runs or was one that stops by
itself, that the device it waits for has gone down, and that no step behind it was faulted
or answered with less than it asserts (`Behind`). Each step that fails or passes
a test then shows a trait, an accident or a disturbance. It needs `SameDevice`: only
a device of that trait comes back as another.

**SchemaStoreProofs.** About `StoreSpec`. `StoreInv` is four parts: what is on
disk and in the manifest (`DiskInv`), what each process has read of it
(`CacheInv`), what a refresh has fetched, queued and written (`RefreshInv`), and
the bounds. In a crawl every reference of a document visited is visited or queued,
so at its end the set is `Closed`; a manifest is always of a closed set
(`ManifestOK`), and a torn or foreign file does not have the sum the manifest
lists, which gives `VerifiedWhole`. `OwnInv` follows a refresh nobody else
disturbed write by write, and gives `DoneVerified`.

**ResponseChecksProofs.** About `Spec` of `ResponseChecks`, where the store takes
its steps beside a run. `StoreUndisturbed` shows `Spec => StoreSpec`: the run only
reads, so `StoreInv` and all that follows from it hold here too.

`Walk` and `Typing` are recursive functions over the nodes of a body, one from the
leaves up and one from the roots down. That such functions exist, and therefore
obey their definitions, has to be proved: `WalkExists` and `TypingExists` build
one that is right down to each depth, by `Induct`, an induction on membership in a
set, since the library's takes an operator as its parameter. The same induction
gives the two halves of the correctness of `validate_element`. `ValidateIsFlaws`:
what a walk records is a flaw, as each type it comes to a node with is one of
those the store gives that node. `FlawsAreRecorded`: what is a flaw is recorded,
as a walk comes to every node that has a type (`AllWalked`), because a client knows
its root and every type its documents name is declared in them (`Compiled`, which
zeep insists on). Both need that a name is declared once; the enumeration that
the index keeps of a type is then the only one.

`RunInv` says what a run goes by. `RunTypes` adds to the types that the clients are
compiled; `SoundInv` says of a sound run that the manifest it read lists what is on
disk, that the store is whole (by `VerifiedWhole`'s argument), that each client is
what would be built from the store now, that the index is of all its documents, and
that the sink is exact (`Ready`), or, before it has looked, that it has no client
and has judged nothing with an element in it (`NotLooked`). A whole store is closed
under references, so the documents a client reaches, the least closed set with its
WSDL, are the store's (`WholeReach`), and the client of a service can be built
(`WholeBuilds`), which the raw path, with no clients of its own, depends on.
`AddressingInv` says what is recorded of the addressing of each response. From these
follow `ResponsesTypeCorrect` and `SinkExact`, the latter for any documents, any
tree, any number of responses and any interleaving with other processes; on the
instance a run gets one response.

Only model-checked: the liveness properties `SettlesWhileUsed` and `RefreshEnds`,
out of the prover's reach. Every other property of a passing run is a theorem.

## Not modelled, and why

- Bodies of the read-only tests (`media.py`, `ipconfig.py`, `analytics.py` and
  the like): sequential assertions on one response. So are the arithmetic of
  dates in `base.py` and the `LOCAL-AUTH` tests, a request each with
  credentials made up for it.
- PTZ-2-1-10, a `SetConfiguration` with a token that does not exist: it changes
  nothing on a device that is right.
- That door commands are never undone (`doorcontrol.py:201`) is in the scripts,
  and no property is stated about it: the tests promise nothing else.
- The words of a fault: `fault.py` and `is_auth_failure` match text; they enter
  as what they make of the device's answer. `client_compat.py` patches a library,
  `discovery.py` is one probe.
- Contents of envelopes, messages of outcomes, the terminal summary, the PDF
  report: formatting.
- Hangs of an exchange (`dut.py:323`): the code has no bound to check against.
- Option parsing, the listing commands and exit codes of the command line; the
  parser of the HTML corpus, a sequential tree walk whose inputs are vendored.
- Vendored schemas and corpus, CI scripts: data and shell.

## Plan

Built, in this order: `NegotiatedSession`, `AuthNegotiation`, `ConformanceRun`,
`Subscriptions`, `ServiceDiscovery`, `WriteTests`, `SchemaStore`,
`ResponseChecks`, `UserToken`, and the proof modules. What is left, most
important first:

1. `Selection`: `match_xfail` (`registry.py:115-140`), the collection filters
   (`plugin.py:87-117`), and the exit code of `run` (`cli.py:232-270`).
2. `CorpusParser`: the tree algorithms of `specs/parser.py:53-283` against
   reference definitions on small documents.
