--------------------------- MODULE ServiceDiscovery ---------------------------
(***************************************************************************)
(* Which services a session believes the device offers, and which tests    *)
(* run because of it: discover_services of runtime/features.py over the    *)
(* table of runtime/services.py, the address and schema lookups of         *)
(* runtime/dut.py, the service gate of runner/dispatch.py and the test     *)
(* that audits it all, LOCAL-CLIENT-SERVICES-BINDABLE.                     *)
(*                                                                         *)
(* What a discovery finds is kept for the session, unless it is nothing,   *)
(* and then the next caller discovers again.  Both of its requests may     *)
(* fail, and either failure is swallowed.  The device is external, lists   *)
(* what it likes and may list something else to the next discovery.        *)
(***************************************************************************)
EXTENDS Integers, FiniteSets

CONSTANTS
  Service,     \* services, by the namespace a device lists them under
  Device,      \* devicemgmt: always at the fixed entry point
  Known,       \* those with a row in services.SERVICES
  Vendored,    \* those whose WSDL is in the schema store
  Legacy,      \* those GetCapabilities has a category for
  MaxRequires, \* bound: services one test requires
  MaxFailures  \* bound: requests that fail

ASSUME DiscoveryAssumption ==
  /\ Device \in Legacy \cap Vendored
  /\ Legacy \subseteq Known
  /\ Vendored \subseteq Known
  /\ Known \subseteq Service
  /\ {"fixture", "audit"} \cap Service = {}
  /\ MaxRequires \in Nat /\ MaxFailures \in Nat

VARIABLES
  device,    \* external: what the device offers, as of the last discovery
  services,  \* DUTSession.services, the services with an address
  bare,      \* DUTSession.advertised_without_xaddr
  unknown,   \* DUTSession.unknown_namespaces
  pc,        \* the discovery, the gate or the audit in progress
  caller,    \* who asked for the discovery: "fixture", "audit" or a service
  requires,  \* requires_services of the test at the gate
  outcome,   \* what became of the test, the audit or the binding
  missed,    \* history: a request of a discovery failed
  failures

found == <<services, bare, unknown>>
test  == <<requires, outcome>>
tally == <<missed, failures>>
vars == <<device, found, pc, caller, test, tally>>

\* external: the entries of GetServices for a namespace, with an address, with a
\* blank one, one of each or none; GetCapabilities gives some an address.  Which
\* of two entries comes first makes no difference to the code.
Offer == [listed : [Service -> SUBSET {"blank", "address"}],
          legacy : SUBSET Legacy]

Nothing == [listed |-> [s \in Service |-> {}], legacy |-> {}]

Offered(s) == device.listed[s] # {} \/ s \in device.legacy

Requirement ==
  {r \in SUBSET Known : r # {} /\ Cardinality(r) <= MaxRequires}

Init ==
  /\ device = Nothing
  /\ services = {} /\ bare = {} /\ unknown = {}
  /\ pc = "start"
  /\ caller = "fixture"
  /\ requires = {}
  /\ outcome = "none"
  /\ missed = FALSE
  /\ failures = 0

Fail == failures < MaxFailures /\ failures' = failures + 1 /\ missed' = TRUE

\* Mutant: every caller discovers.
NeverCached == FALSE

\* "Populate dut.session.services if empty; return it either way."
Cached == services # {}

\* The _services fixture comes first; the audit and the first access to a
\* service whose address is not known come later.
Discover(who) ==
  /\ IF who = "fixture" THEN pc = "start" ELSE pc \in {"idle", "entered"}
  /\ who \in Service => pc = "entered" /\ who \in requires \ {Device}
  /\ caller' = who
  /\ IF Cached
       THEN pc' = "found" /\ UNCHANGED device
       ELSE pc' = "GetServices" /\ device' \in Offer
  /\ UNCHANGED <<found, test, tally>>

\* Mutant: a namespace without a row is dropped.
Dropped(ns) == {}

\* Mutant: every namespace is filed as it stands.
RawNamespaces(ns) == ns

\* Namespaces the service table has no row for.
Unrecognised(ns) == ns \ Known

\* "Advertised with no endpoint."
NoEndpoint(s) == "blank" \in device.listed[s]

GetServices ==
  /\ pc = "GetServices"
  /\ pc' = "GetCapabilities"
  /\ \/ /\ services' = services \cup {s \in Known : "address" \in device.listed[s]}
        /\ bare' = bare \cup {s \in Known : NoEndpoint(s)}
        /\ unknown' = unknown \cup
             Unrecognised({s \in Service : device.listed[s] # {}})
        /\ UNCHANGED tally
     \/ /\ Fail
        /\ UNCHANGED found
  /\ UNCHANGED <<device, caller, test>>

\* Mutant: a service stays blank after GetCapabilities gave its address.
StillBare(filled) == bare

\* "The service is reachable after all."
Discarded(filled) == bare \ filled

GetCapabilities ==
  LET filled == device.legacy \ services IN
  /\ pc = "GetCapabilities"
  /\ pc' = "found"
  /\ \/ /\ services' = services \cup filled
        /\ bare' = Discarded(filled)
        /\ UNCHANGED tally
     \/ /\ Fail
        /\ UNCHANGED <<services, bare>>
  /\ UNCHANGED <<device, unknown, caller, test>>

CanBind(s) == s \in Vendored

\* Mutant: having the schema is enough.
SchemaOnly(s) == CanBind(s)

\* can_reach: the schema and somewhere to send the request.
CanReach(s) == CanBind(s) /\ s \notin bare

\* LOCAL-CLIENT-SERVICES-BINDABLE.
AuditPasses == unknown = {} /\ services \subseteq Vendored /\ bare = {}

\* The discovery returns to whoever asked: _xaddr_for raises ServiceUnbindable
\* when the service still has no address.
Found ==
  /\ pc = "found"
  /\ \/ /\ caller = "fixture"
        /\ pc' = "idle"
        /\ UNCHANGED outcome
     \/ /\ caller = "audit"
        /\ pc' = "audited"
        /\ outcome' = IF AuditPasses THEN "passed" ELSE "failed"
     \/ /\ caller \in Service
        /\ pc' = "bound"
        /\ outcome' = IF caller \in services /\ CanBind(caller)
                        THEN "bound" ELSE "unbindable"
  /\ UNCHANGED <<device, found, caller, requires, tally>>

\* Mutant: only services with an address count as advertised.
WithAddress == services

\* What the gate takes for advertised.
Advertised == services \cup bare

\* test_onvif_case with _gate_services: unreachable is a failure and goes
\* before missing, which is a skip.
Gate(r) ==
  /\ pc = "idle"
  /\ requires' = r
  /\ outcome' = IF \E s \in r \cap Advertised : ~CanReach(s) THEN "failed"
                ELSE IF r \subseteq Advertised THEN "entered"
                ELSE "skipped"
  /\ pc' = IF outcome' = "entered" THEN "entered" ELSE "gated"
  /\ UNCHANGED <<device, found, caller, tally>>

\* The test is over.
Return ==
  /\ pc \in {"gated", "entered", "bound", "audited"}
  /\ pc' = "idle"
  /\ requires' = {}
  /\ outcome' = "none"
  /\ caller' = "fixture"
  /\ UNCHANGED <<device, found, tally>>

Next ==
  \/ \E who \in {"fixture", "audit"} \cup Service : Discover(who)
  \/ GetServices
  \/ GetCapabilities
  \/ Found
  \/ \E r \in Requirement : Gate(r)
  \/ Return

Spec == Init /\ [][Next]_vars

------------------------------------------------------------------------------
FoundOK ==
  /\ device \in Offer
  /\ services \in SUBSET Known
  /\ bare \in SUBSET Known
  /\ unknown \in SUBSET (Service \ Known)

PlaceOK ==
  /\ pc \in {"start", "idle", "GetServices", "GetCapabilities", "found",
             "gated", "entered", "bound", "audited"}
  /\ caller \in {"fixture", "audit"} \cup Service

TestOK ==
  /\ requires \in SUBSET Known
  /\ outcome \in {"none", "passed", "failed", "skipped", "entered", "bound",
                  "unbindable"}
  /\ missed \in BOOLEAN
  /\ failures \in 0..MaxFailures

TypeOK == FoundOK /\ PlaceOK /\ TestOK

\* A service that has its address from the legacy envelope is not left among
\* those without an endpoint, however the two overlap and however often the
\* discovery is repeated: the gate would fail a test for an address the session
\* has (features.py:87-92).  GetServices alone can leave a service in both sets,
\* by listing it with an address beside a blank one or after one, since nothing
\* is discarded there (features.py:70-77).
AddressOrBlank ==
  \A s \in services \cap bare : "address" \in device.listed[s]

\* While its requests get through, the discovery loses nothing the device
\* lists: a test is skipped as not applicable only when the device really does
\* not offer one of its services (dispatch.py:116-121, issue #1).
SkipMeansNotOffered ==
  pc = "gated" /\ outcome = "skipped" /\ ~missed
    => \E s \in requires : ~Offered(s)

\* A test the gate lets in finds every service it requires: no binding it
\* attempts is unbindable, whether or not a request of the discovery failed
\* (dut.py:518-529, 563-587).
EnteredTestsCanBind == pc = "bound" => outcome = "bound"

\* The audit is honest: it passes, while the discovery's requests get through,
\* only if every service the device lists is one this client knows, has the
\* schema of and has an address for (base.py:440-489).
AuditIsHonest ==
  pc = "audited" /\ outcome = "passed" /\ ~missed
    => \A s \in Service :
         device.listed[s] # {} => s \in Vendored \cap services

\* What a discovery found is final as soon as it is something: no later one
\* changes the answer tests were gated on (features.py:52-53).
FoundForGood ==
  [][services # {} /\ pc # "GetCapabilities" => UNCHANGED found]_vars

\* "Missing means the DUT doesn't implement the service" (dispatch.py:117).
\* The code does not keep it: one lost request of a discovery leaves what the
\* other found, and where that is anything the session keeps it for good.
MissingMeansNotImplemented ==
  pc = "gated" /\ outcome = "skipped" /\ services # {}
    => \E s \in requires : ~Offered(s)
==============================================================================
