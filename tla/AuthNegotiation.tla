--------------------------- MODULE AuthNegotiation ---------------------------
(***************************************************************************)
(* The WS-Security negotiation of a DUT session: runtime/dut.py's          *)
(* __getattr__, _negotiate_auth, _try_auth and _apply_clock_offset, over   *)
(* the candidates and the verdict record of runtime/auth.py.               *)
(*                                                                         *)
(* The first access to a service proxy settles, once per session, which    *)
(* password type the device accepts.  A device that enforces a freshness   *)
(* window on wsu:Created refuses a good digest from a host whose clock     *)
(* disagrees, so a refusal prompts one unauthenticated clock probe, whose  *)
(* offset the same candidate is retried with before the next one is tried. *)
(* Credentials and offset are baked into every client when it is built.    *)
(*                                                                         *)
(* One step is one HTTP exchange and the code around it.  The device is    *)
(* external: its policy is fixed in Init, its clock may be set by someone  *)
(* else (NTP, an operator, another test) between any two steps, and any    *)
(* exchange may fail in transport.                                         *)
(***************************************************************************)
EXTENDS Integers, Sequences

CONSTANTS
  Service,       \* short names of the services a test can ask for
  DevMgmt,       \* the one whose GetDeviceInformation is the probe
  Skew,          \* device clock minus host clock, the values considered
  Tolerance,     \* _CLOCK_SKEW_TOLERANCE
  Window,        \* the freshness window of a device that enforces one
  NotMeasured,   \* AuthState.clock_offset is None
  NoClient,      \* a service with no entry in DUT._services
  MaxFailures,   \* bound: exchanges that fail in transport
  MaxClockSteps  \* bound: times the device clock is set by someone else

ASSUME NegotiationAssumption ==
  /\ DevMgmt \in Service
  /\ Skew \subseteq Int
  /\ 0 \in Skew
  /\ NotMeasured \notin Int
  /\ Tolerance \in Nat
  /\ Window \in Nat
  /\ Tolerance <= Window   \* "skew cannot be what a device is objecting to"
  /\ MaxFailures \in Nat
  /\ MaxClockSteps \in Nat
  /\ NoClient \notin [encrypt : BOOLEAN, dt : Int]

VARIABLES
  mode,              \* DUTConfig.auth
  device,            \* external: the device's policy
  skew,              \* external: device clock minus host clock
  encrypt, dtDiff,   \* _camera.encrypt, _camera.dt_diff (0 for None)
  services,          \* DUT._services: what each cached client was built with
  accepted,          \* AuthState.accepted
  rejected,          \* AuthState.rejected
  clockOffset,       \* AuthState.clock_offset
  clockProbeRefused, \* AuthState.clock_probe_refused
  clockChecked,      \* DUT._clock_checked
  negotiating,       \* DUT._negotiating
  pc,                \* where the access in progress is
  cand,              \* index of the candidate being tried
  want,              \* the service the access asked for
  exposed,           \* history: the password was sent in cleartext
  failures, clockSteps

camera  == <<encrypt, dtDiff>>
verdict == <<accepted, rejected>>
clock   == <<clockOffset, clockProbeRefused, clockChecked>>
control == <<negotiating, pc, cand, want>>
fixed   == <<mode, device>>
vars == <<fixed, skew, camera, services, verdict, clock, control, exposed,
          failures, clockSteps>>

Digest == "PasswordDigest"
Text   == "PasswordText"
Undecided == "undecided"   \* AuthState.accepted is None

Mode  == {"auto", "digest", "text", "none"}
Creds == [encrypt : BOOLEAN, dt : Int]
\* external: digest and text are the password types it accepts, fresh says
\* whether it enforces the window, preauth whether it tells the time to
\* anyone, plain whether it words a refusal the usual way.
DevicePolicy ==
  [digest : BOOLEAN, text : BOOLEAN, fresh : BOOLEAN, preauth : BOOLEAN,
   plain : BOOLEAN]

Dist(a, b) == IF a >= b THEN a - b ELSE b - a

\* Mutant: auto tries the type that always works first.
TextFirst(m) ==
  CASE m = "auto"   -> <<Text, Digest>>
    [] m = "digest" -> <<Digest>>
    [] m = "text"   -> <<Text>>
    [] m = "none"   -> <<>>

\* _CANDIDATES, in the order they are tried.
Candidates(m) ==
  CASE m = "auto"   -> <<Digest, Text>>
    [] m = "digest" -> <<Digest>>
    [] m = "text"   -> <<Text>>
    [] m = "none"   -> <<>>

Candidate == Candidates(mode)[cand]

\* external: does the device take a token with these credentials?  Only a
\* digest token carries wsu:Created, so only it can be stale.
Admits(c) ==
  IF c.encrypt
    THEN device.digest /\ (device.fresh => Dist(c.dt, skew) <= Window)
    ELSE device.text

\* is_auth_failure: a refusal is told from any other failure by two phrases.
IsAuthFailure == device.plain

\* device_utc_from_response: the answer to the probe has a complete, possible
\* UTCDateTime; a fault, or local time alone, has none.
HasDeviceUTC == device.preauth

\* _service_kwargs: what a client built now carries.
Kwargs == [encrypt |-> encrypt, dt |-> dtDiff]

------------------------------------------------------------------------------
Init ==
  /\ mode \in Mode
  /\ device \in DevicePolicy
  /\ skew \in Skew
  /\ encrypt = (mode \in {"auto", "digest"})
  /\ dtDiff = 0
  /\ services = [s \in Service |-> NoClient]
  /\ accepted = IF mode = "none" THEN "none" ELSE Undecided
  /\ rejected = {}
  /\ clockOffset = NotMeasured
  /\ clockProbeRefused = FALSE
  /\ clockChecked = FALSE
  /\ negotiating = FALSE
  /\ pc = "idle"
  /\ cand = 1
  /\ want = DevMgmt
  /\ exposed = FALSE
  /\ failures = 0
  /\ clockSteps = 0

\* Mutant: a settled session negotiates again on every access.
NeverSettled == ~negotiating /\ Candidates(mode) # <<>>

\* The early return of _negotiate_auth.
NeedsNegotiation ==
  ~negotiating /\ accepted = Undecided /\ Candidates(mode) # <<>>

\* __getattr__ up to the loop of _negotiate_auth: a settled session goes
\* straight to the cached client, an unsettled one tries every candidate.
Access(s) ==
  /\ pc = "idle"
  /\ want' = s
  /\ IF NeedsNegotiation
       THEN /\ pc' = "try"
            /\ negotiating' = TRUE
            /\ cand' = 1
       ELSE /\ pc' = "bind"
            /\ UNCHANGED <<negotiating, cand>>
  /\ UNCHANGED <<fixed, skew, camera, services, verdict, clock, exposed,
                 failures, clockSteps>>

\* The end of _negotiate_auth, its finally included.
Leave(next) ==
  /\ negotiating' = FALSE
  /\ pc' = next
  /\ UNCHANGED <<cand, want>>

\* The for loop goes on to the next candidate, or falls off its end.
NextCandidate ==
  IF cand < Len(Candidates(mode))
    THEN /\ cand' = cand + 1
         /\ pc' = "try"
         /\ UNCHANGED <<negotiating, want>>
    ELSE Leave("bind")

\* Mutant: an already bound client survives the change of credentials.
KeptClients(c) ==
  [services EXCEPT ![DevMgmt] = IF @ = NoClient THEN c ELSE @]

\* _reset_clients, and the probe's own access to devicemgmt, which binds it
\* anew with the credentials just set on the camera.
ProbeClients(c) == [s \in Service |-> IF s = DevMgmt THEN c ELSE NoClient]

\* Mutant: a mode that works on a retry stays listed as refused.
StillRejected(label) == rejected

\* _try_auth: "a mode that works on a retry was never really refused".
Upheld(label) == rejected \ {label}

\* Mutant: the guard is released only when the negotiation returns normally.
LeakGuard == /\ pc' = "idle"
             /\ UNCHANGED <<negotiating, cand, want>>

\* An exception that is no verdict leaves __getattr__ through the finally.
Raise == Leave("idle")

\* Mutant: the clock is looked at only after every candidate was refused.
ClockLast == IF cand < Len(Candidates(mode)) THEN NextCandidate
             ELSE /\ pc' = "clock"
                  /\ UNCHANGED <<negotiating, cand, want>>

\* Where _negotiate_auth goes when _try_auth returns False: to the clock the
\* first time, to the next candidate when this was the retry.
AfterRefusal ==
  IF pc = "try"
    THEN /\ pc' = "clock"
         /\ UNCHANGED <<negotiating, cand, want>>
    ELSE NextCandidate

\* _try_auth: GetDeviceInformation with this candidate's credentials.
TryAuth ==
  LET creds   == [encrypt |-> Candidate = Digest, dt |-> dtDiff]
      clients == ProbeClients(creds)
      says    == Admits(clients[DevMgmt])
  IN
  /\ pc \in {"try", "retry"}
  /\ encrypt' = creds.encrypt
  /\ services' = clients
  /\ exposed' = (exposed \/ Candidate = Text)
  /\ \/ /\ failures < MaxFailures      \* the exchange fails in transport
        /\ failures' = failures + 1
        /\ UNCHANGED verdict
        /\ Raise
     \/ /\ ~says /\ ~IsAuthFailure     \* refused, in words nobody knows
        /\ UNCHANGED <<verdict, failures>>
        /\ Raise
     \/ /\ ~says /\ IsAuthFailure
        /\ rejected' = rejected \cup {Candidate}
        /\ UNCHANGED <<accepted, failures>>
        /\ AfterRefusal
     \/ /\ says
        /\ accepted' = Candidate
        /\ rejected' = Upheld(Candidate)
        /\ UNCHANGED failures
        /\ Leave("bind")
  /\ UNCHANGED <<fixed, skew, dtDiff, clock, clockSteps>>

\* Mutant: host minus device.
ReversedOffset == 0 - skew

\* What the probe measures: device minus host.
MeasuredOffset == skew

\* Mutant: only a device that runs ahead is found out.
OnlyAhead(offset) == offset > Tolerance

\* The measured offset is big enough to be what the device objects to.
OutOfTolerance(offset) == Dist(offset, 0) > Tolerance

\* _apply_clock_offset: one unauthenticated GetSystemDateAndTime a session,
\* the flag set before the probe, whatever becomes of it.
ApplyClockOffset ==
  /\ pc = "clock"
  /\ \/ /\ clockChecked
        /\ NextCandidate
        /\ UNCHANGED <<clock, dtDiff, failures>>
     \/ /\ ~clockChecked
        /\ clockChecked' = TRUE
        /\ \/ /\ failures < MaxFailures        \* the probe raises
              /\ failures' = failures + 1
              /\ NextCandidate
              /\ UNCHANGED <<clockOffset, clockProbeRefused, dtDiff>>
           \/ /\ ~HasDeviceUTC
              /\ clockProbeRefused' = TRUE
              /\ NextCandidate
              /\ UNCHANGED <<clockOffset, dtDiff, failures>>
           \/ /\ HasDeviceUTC
              /\ clockOffset' = MeasuredOffset
              /\ IF OutOfTolerance(MeasuredOffset)
                   THEN /\ dtDiff' = MeasuredOffset
                        /\ pc' = "retry"
                        /\ UNCHANGED <<negotiating, cand, want>>
                   ELSE /\ NextCandidate
                        /\ UNCHANGED dtDiff
              /\ UNCHANGED <<clockProbeRefused, failures>>
  /\ UNCHANGED <<fixed, skew, encrypt, services, verdict, exposed, clockSteps>>

\* The rest of __getattr__: the cached client, or one built now and cached,
\* unless ServiceUnbindable is raised: no endpoint, no schema.  The discovery
\* _xaddr_for may need is an access to devicemgmt of its own.
Bind ==
  /\ pc = "bind"
  /\ \/ services' = [services EXCEPT ![want] = IF @ = NoClient THEN Kwargs ELSE @]
     \/ UNCHANGED services
  /\ pc' = "idle"
  /\ UNCHANGED <<fixed, skew, camera, verdict, clock, negotiating, cand, want,
                 exposed, failures, clockSteps>>

\* external: someone sets the device's clock.
SetDeviceClock(s) ==
  /\ clockSteps < MaxClockSteps
  /\ s # skew
  /\ skew' = s
  /\ clockSteps' = clockSteps + 1
  /\ UNCHANGED <<fixed, camera, services, verdict, clock, control, exposed,
                 failures>>

Negotiate == TryAuth \/ ApplyClockOffset \/ Bind

Next ==
  \/ \E s \in Service : Access(s)
  \/ Negotiate
  \/ \E s \in Skew : SetDeviceClock(s)

Spec == Init /\ [][Next]_vars

------------------------------------------------------------------------------
OutsideOK ==
  /\ mode \in Mode
  /\ device \in DevicePolicy
  /\ skew \in Skew
  /\ failures \in 0..MaxFailures
  /\ clockSteps \in 0..MaxClockSteps

ClientsOK ==
  /\ encrypt \in BOOLEAN
  /\ dtDiff \in Skew
  /\ services \in [Service -> Creds \cup {NoClient}]

RecordOK ==
  /\ accepted \in {Undecided, Digest, Text, "none"}
  /\ rejected \in SUBSET {Digest, Text}
  /\ clockOffset \in Skew \cup {NotMeasured}

FlagsOK == {clockProbeRefused, clockChecked, negotiating, exposed} \subseteq BOOLEAN

ControlOK ==
  /\ pc \in {"idle", "try", "clock", "retry", "bind"}
  /\ cand \in {1, 2}
  /\ want \in Service

TypeOK == OutsideOK /\ ClientsOK /\ RecordOK /\ FlagsOK /\ ControlOK

\* AuthState.fell_back_to_text: the record SECURITY-1-1-1 and the report read.
FellBackToText == accepted = Text /\ Digest \in rejected

\* While nobody sets the device's clock: a device that is reported as having
\* fallen back to cleartext, with its clock measured, really refuses digests,
\* right timestamps included.  This is what retrying the same candidate with
\* the clock corrected, before the weaker one is tried, is for (dut.py:404).
HonestFallback ==
  FellBackToText /\ clockSteps = 0 /\ clockOffset # NotMeasured
    => ~device.digest

\* Under auto the password goes on the wire in cleartext only after the device
\* has refused the digest and been asked for its time, and where that one probe
\* was answered, and nobody set the clock since, only to a device that refuses
\* digests whatever their timestamps.  A probe that is lost, or answered without
\* the time, does not keep the cleartext back (dut.py:449-461).  All this in every
\* renegotiation of the session too (dut.py:398-409); under digest it never goes.
CleartextIsLastResort ==
  pc \in {"try", "retry"} /\ Candidate = Text
    => \/ mode = "text"
       \/ /\ mode = "auto" /\ Digest \in rejected /\ clockChecked
          /\ clockOffset # NotMeasured /\ clockSteps = 0 => ~device.digest

\* A verdict is never contradicted by the record of refusals: whatever the
\* order of refusals, retries, lost exchanges and renegotiations, the type
\* that was accepted is not also listed as refused (dut.py:383-387).
AcceptedNotRejected == accepted \notin rejected

\* Once the session is settled, every client it holds sends the password type
\* the device accepted, at the clock offset the device accepted it with: no
\* client built during the negotiation survives it with older credentials
\* (dut.py:354-361 and 592-594).
SettledClientsCarryVerdict ==
  accepted # Undecided =>
    /\ encrypt = (accepted = Digest)
    /\ \A s \in Service : services[s] # NoClient => services[s] = Kwargs

\* While nobody sets the device's clock: an access that ran out of candidates
\* hands out an unaccepted client only if the device refuses every candidate,
\* at the offset it measured if it measured one, so "every candidate was
\* refused" is a fact about the device and not about the order of attempts.
ExhaustionIsGenuine ==
  pc = "bind" /\ accepted = Undecided /\ clockSteps = 0
    => \A i \in 1..Len(Candidates(mode)) :
         ~Admits([encrypt |-> Candidates(mode)[i] = Digest,
                  dt |-> IF clockOffset = NotMeasured THEN dtDiff
                         ELSE clockOffset])

\* A settled session never reopens: verdict, credentials and offset stay, and
\* no client is dropped or rebuilt, so one held by a test stays the cached one.
SettledForGood ==
  [][accepted # Undecided
       => /\ UNCHANGED <<verdict, camera>>
          /\ \A s \in Service : services[s] # NoClient
                                  => services'[s] = services[s]]_vars

\* A device that would take a permitted type at the offset the session uses,
\* and that says no in words the client knows when it takes only the weaker
\* one.
Authenticable ==
  \E i \in 1..Len(Candidates(mode)) :
    /\ Admits([encrypt |-> Candidates(mode)[i] = Digest, dt |-> dtDiff])
    /\ i = 1 \/ IsAuthFailure

\* A session that goes on being used, accesses beginning and ending without end,
\* settles on such a device: finitely many lost exchanges, wherever they fall
\* in a negotiation, cost it nothing for good, because a negotiation that
\* raised is begun again (dut.py:391-411).  That accesses end is a premise and
\* not fairness: the transport gives a request no timeout (dut.py:323-326).
SettlesWhileUsed ==
  []Authenticable /\ []<>(pc # "idle") /\ []<>(pc = "idle")
    => <>(accepted # Undecided)

\* What fell_back_to_text is documented to mean, "The device refused digest
\* and only accepted cleartext" (auth.py:85), a refused clock probe, which the
\* report shows, being the one excuse.  The code does not keep it.
FallbackMeansRefused ==
  FellBackToText /\ clockSteps = 0 => ~device.digest \/ clockProbeRefused

\* The refinement mapping to the promise.
Session == INSTANCE NegotiatedSession WITH
  Strong  <- Digest,
  Weak    <- Text,
  allowed <- {Candidates(mode)[i] : i \in 1..Len(Candidates(mode))},
  takes   <- {t \in {Digest, Text} :
                Admits([encrypt |-> t = Digest, dt |-> dtDiff])},
  refused <- rejected,
  verdict <- {accepted} \ {Undecided, "none"}

\* The negotiation implements what a session promises: downgrade only after
\* refusal, cleartext only where the mode permits it, one final verdict.
ImplementsSession == Session!Spec
==============================================================================
