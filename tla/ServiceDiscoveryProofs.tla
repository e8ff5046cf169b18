------------------------ MODULE ServiceDiscoveryProofs ------------------------
(***************************************************************************)
(* Theorems of ServiceDiscovery, for every set of services, every table of *)
(* them and any number of failed requests.  The strengthening relates what *)
(* the session holds to what the device listed at each point of the two    *)
(* requests: before GetCapabilities every address is from GetServices,     *)
(* which is sent only while no service was found, and a discovery none of  *)
(* whose requests failed holds all that the device offers.                 *)
(***************************************************************************)
EXTENDS ServiceDiscovery, TLAPS

Listed == {s \in Service : device.listed[s] # {}}

\* Between the two requests every address is from GetServices, which is sent
\* only while there is none.
SourceInv ==
  /\ pc \in {"start", "GetServices"} => services = {}
  /\ pc = "GetCapabilities" => \A s \in services : "address" \in device.listed[s]

\* Once the requests are answered, everything listed and known is in one of
\* the two sets, and everything listed and unknown is in the third.
CompleteInv ==
  /\ pc \notin {"start", "GetServices"} /\ ~missed =>
       /\ Listed \cap Known \subseteq services \cup bare
       /\ Listed \ Known \subseteq unknown
  /\ pc \notin {"start", "GetServices", "GetCapabilities"} /\ ~missed =>
       device.legacy \subseteq services \cup bare

\* A test that was let in has all it requires, and only such a test asks for
\* a binding.
EnteredInv ==
  /\ pc = "entered" \/ caller \in Service =>
       requires # {} /\ requires \subseteq services \cap Vendored
  /\ caller \in Service => pc \in {"found", "bound"} /\ caller \in requires

DiscoveryInv ==
  /\ TypeOK
  /\ AddressOrBlank
  /\ SourceInv
  /\ CompleteInv
  /\ EnteredInv
  /\ SkipMeansNotOffered
  /\ AuditIsHonest
  /\ EnteredTestsCanBind

------------------------------------------------------------------------------
\* A device offer: a listing for every service, legacy addresses for some.
LEMMA OfferShape ==
  ASSUME TypeOK
  PROVE  /\ device.listed \in [Service -> SUBSET {"blank", "address"}]
         /\ device.legacy \subseteq Known
  BY DiscoveryAssumption DEF TypeOK, FoundOK, Offer

LEMMA DiscoveryInit == Init => DiscoveryInv
<1> SUFFICES ASSUME Init PROVE DiscoveryInv
  OBVIOUS
<1> USE DiscoveryAssumption DEF Init
<1>1. TypeOK
  <2>1. FoundOK /\ PlaceOK
    BY DEF FoundOK, PlaceOK, Nothing, Offer
  <2>2. failures \in 0..MaxFailures
    OBVIOUS
  <2>3. missed \in BOOLEAN
    BY Zenon
  <2> QED
    BY <2>1, <2>2, <2>3 DEF TypeOK, TestOK
<1>2. SourceInv /\ CompleteInv /\ EnteredInv
  BY DEF SourceInv, CompleteInv, EnteredInv
<1>3. AddressOrBlank /\ SkipMeansNotOffered /\ AuditIsHonest /\ EnteredTestsCanBind
  BY DEF AddressOrBlank, SkipMeansNotOffered, AuditIsHonest, EnteredTestsCanBind
<1> QED
  BY <1>1, <1>2, <1>3 DEF DiscoveryInv

LEMMA TypeStep == TypeOK /\ [Next]_vars => TypeOK'
<1> SUFFICES ASSUME TypeOK, [Next]_vars PROVE TypeOK'
  OBVIOUS
<1> USE DiscoveryAssumption, OfferShape DEF TypeOK, FoundOK, PlaceOK, TestOK
<1>1. ASSUME NEW who \in {"fixture", "audit"} \cup Service, Discover(who)
      PROVE  TypeOK'
  <2>1. FoundOK' /\ TestOK'
    BY <1>1 DEF Discover, found, test, tally
  <2>2. PlaceOK'
    BY <1>1 DEF Discover
  <2> QED
    BY <2>1, <2>2
<1>2. CASE GetServices
  <2>1. FoundOK'
    BY <1>2 DEF GetServices, Unrecognised, NoEndpoint, found
  <2>2. PlaceOK'
    BY <1>2 DEF GetServices
  <2>3. failures' \in 0..MaxFailures
    BY <1>2 DEF GetServices, Fail, tally
  <2>4. missed' \in BOOLEAN
    BY <1>2, Zenon DEF GetServices, Fail, tally
  <2>5. TestOK'
    BY <1>2, <2>3, <2>4 DEF GetServices, test
  <2> QED
    BY <2>1, <2>2, <2>5
<1>3. CASE GetCapabilities
  <2>1. FoundOK'
    BY <1>3 DEF GetCapabilities, Discarded
  <2>2. PlaceOK'
    BY <1>3 DEF GetCapabilities
  <2>3. failures' \in 0..MaxFailures
    BY <1>3 DEF GetCapabilities, Fail, tally
  <2>4. missed' \in BOOLEAN
    BY <1>3, Zenon DEF GetCapabilities, Fail, tally
  <2>5. TestOK'
    BY <1>3, <2>3, <2>4 DEF GetCapabilities, test
  <2> QED
    BY <2>1, <2>2, <2>5
<1>4. CASE Found
  <2>1. FoundOK' /\ PlaceOK'
    BY <1>4 DEF Found, found
  <2>2. TestOK'
    BY <1>4 DEF Found, tally
  <2> QED
    BY <2>1, <2>2
<1>5. ASSUME NEW r \in Requirement, Gate(r)
      PROVE  TypeOK'
  <2>1. FoundOK' /\ PlaceOK'
    BY <1>5 DEF Gate, found
  <2>2. outcome' \in {"failed", "entered", "skipped"}
    BY <1>5 DEF Gate
  <2>3. TestOK'
    BY <1>5, <2>2 DEF Gate, Requirement, tally
  <2> QED
    BY <2>1, <2>3
<1>6. CASE Return
  BY <1>6 DEF Return, found, tally
<1>7. CASE UNCHANGED vars
  BY <1>7 DEF vars, found, test, tally
<1> QED
  BY <1>1, <1>2, <1>3, <1>4, <1>5, <1>6, <1>7 DEF Next

\* The device does not change between the two requests of a discovery.
LEMMA FoundStep ==
  ASSUME DiscoveryInv, [Next]_vars
  PROVE  /\ AddressOrBlank'
         /\ SourceInv'
         /\ CompleteInv'
<1> USE DiscoveryAssumption, OfferShape DEF DiscoveryInv
<1> USE DEF AddressOrBlank, SourceInv, CompleteInv, Listed
<1>1. ASSUME NEW who \in {"fixture", "audit"} \cup Service, Discover(who)
      PROVE  AddressOrBlank' /\ SourceInv' /\ CompleteInv'
  BY <1>1 DEF Discover, Cached, found, test, tally
<1>2. CASE GetServices
  BY <1>2 DEF GetServices, Unrecognised, NoEndpoint, Fail, found, tally, TypeOK,
              FoundOK, TestOK
<1>3. CASE GetCapabilities
  BY <1>3 DEF GetCapabilities, Discarded, Fail, tally
<1>4. CASE Found
  BY <1>4 DEF Found, found, tally
<1>5. ASSUME NEW r \in Requirement, Gate(r)
      PROVE  AddressOrBlank' /\ SourceInv' /\ CompleteInv'
  BY <1>5 DEF Gate, found, tally
<1>6. CASE Return
  BY <1>6 DEF Return, found, tally
<1>7. CASE UNCHANGED vars
  BY <1>7 DEF vars, found, test, tally
<1> QED
  BY <1>1, <1>2, <1>3, <1>4, <1>5, <1>6, <1>7 DEF Next

\* Tests are let in, skipped, bound and audited on what was found.
LEMMA TestStep ==
  ASSUME DiscoveryInv, [Next]_vars
  PROVE  /\ EnteredInv'
         /\ SkipMeansNotOffered'
         /\ AuditIsHonest'
         /\ EnteredTestsCanBind'
<1> DEFINE Goal == /\ EnteredInv
                   /\ SkipMeansNotOffered
                   /\ AuditIsHonest
                   /\ EnteredTestsCanBind
<1> USE DiscoveryAssumption, OfferShape DEF DiscoveryInv
<1> USE DEF EnteredInv, SkipMeansNotOffered, AuditIsHonest, EnteredTestsCanBind
<1>1. ASSUME NEW who \in {"fixture", "audit"} \cup Service, Discover(who)
      PROVE  Goal'
  BY <1>1 DEF Discover, Cached, found, test, tally
<1>2. CASE GetServices
  BY <1>2 DEF GetServices, test
<1>3. CASE GetCapabilities
  BY <1>3 DEF GetCapabilities, test
<1>4. CASE Found
  <2>1. EnteredInv' /\ SkipMeansNotOffered'
    BY <1>4 DEF Found, found
  <2>2. EnteredTestsCanBind'
    BY <1>4 DEF Found, CanBind
  <2>3. AuditIsHonest'
    BY <1>4 DEF Found, AuditPasses, CompleteInv, Listed, found, tally
  <2> QED
    BY <2>1, <2>2, <2>3
<1>5. ASSUME NEW r \in Requirement, Gate(r)
      PROVE  Goal'
  <2>1. caller \notin Service
    BY <1>5 DEF Gate
  <2>2. EnteredInv'
    BY <1>5, <2>1 DEF Gate, Requirement, Advertised, CanReach, CanBind, found
  <2>3. SkipMeansNotOffered'
    BY <1>5 DEF Gate, Requirement, Advertised, CompleteInv, Listed, Offered,
                found, tally
  <2>4. AuditIsHonest' /\ EnteredTestsCanBind'
    BY <1>5 DEF Gate
  <2> QED
    BY <2>2, <2>3, <2>4
<1>6. CASE Return
  BY <1>6 DEF Return
<1>7. CASE UNCHANGED vars
  BY <1>7 DEF vars, found, test, tally, Offered
<1> QED
  BY <1>1, <1>2, <1>3, <1>4, <1>5, <1>6, <1>7 DEF Next

LEMMA DiscoveryStep == DiscoveryInv /\ [Next]_vars => DiscoveryInv'
  BY TypeStep, FoundStep, TestStep DEF DiscoveryInv

------------------------------------------------------------------------------
LEMMA Discovery == Spec => []DiscoveryInv
  BY DiscoveryInit, DiscoveryStep, PTL DEF Spec

\* The type invariant of the session's discoveries (DUTSession, dut.py:90-106).
THEOREM TypeCorrect == Spec => []TypeOK
  BY Discovery, PTL DEF DiscoveryInv

\* A service without an endpoint that has an address nevertheless has it from
\* GetServices itself, however often and with whatever losses the discovery is
\* repeated (features.py:70-92).
THEOREM LegacyAddressCounts == Spec => []AddressOrBlank
  BY Discovery, PTL DEF DiscoveryInv

\* No silent skip: with no request lost, a test is skipped only for a service
\* the device does not offer (dispatch.py:113-130).
THEOREM SkipsAreEarned == Spec => []SkipMeansNotOffered
  BY Discovery, PTL DEF DiscoveryInv

\* Every binding a test that was let in attempts succeeds (dut.py:518-587).
THEOREM GateAdmitsBindable == Spec => []EnteredTestsCanBind
  BY Discovery, PTL DEF DiscoveryInv

\* LOCAL-CLIENT-SERVICES-BINDABLE passes only when nothing the device lists is
\* out of this client's reach (base.py:440-489).
THEOREM AuditSound == Spec => []AuditIsHonest
  BY Discovery, PTL DEF DiscoveryInv

\* The services a session found once are those it keeps (features.py:52-53).
THEOREM FoundOnce == Spec => FoundForGood
<1>1. DiscoveryInv /\ [Next]_vars
      => [services # {} /\ pc # "GetCapabilities" => UNCHANGED found]_vars
  <2> SUFFICES ASSUME DiscoveryInv, Next, services # {}, pc # "GetCapabilities"
               PROVE  UNCHANGED found
    BY DEF vars
  <2> QED
    BY DEF Next, Discover, GetServices, GetCapabilities, Found, Gate, Return,
           DiscoveryInv, SourceInv
<1> QED
  BY <1>1, Discovery, PTL DEF Spec, FoundForGood
==============================================================================
