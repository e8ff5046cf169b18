------------------------------- MODULE UserToken -------------------------------
(***************************************************************************)
(* SECURITY-1-1-1 (cases/auth.py) on the session of AuthNegotiation: five  *)
(* hand-made requests, stamped by the device's clock as the negotiation    *)
(* measured it, from which the test says what the device does with a       *)
(* UsernameToken that lacks a part and with one that lacks none.           *)
(*                                                                         *)
(* The test runs between two accesses of the session and makes none: while *)
(* it runs only the device's clock may be set by someone else.             *)
(***************************************************************************)
EXTENDS AuthNegotiation

\* external: what else the device insists on, in a request and in a token.
Insists == {"auth", "nonce", "created"}

\* The requests, in the order they are sent.
Probes == <<"anonymous", "no_nonce", "no_created", "text", "full">>

VARIABLE
  token  \* the test: the request it is at, the failures it has found, its
         \* outcome; external: what the device insists on; history: clockSteps
         \* when the test began

NoTest == [at |-> 0, failures |-> {}, outcome |-> "none", strict |-> {}, since |-> 0]

tvars == <<vars, token>>

\* Mutant: the token is stamped with the host's clock.
HostClock == 0

\* The correction the requests carry: none within the tolerance, and none if the
\* negotiation had no reason to look at the clock.
Correction ==
  IF clockOffset = NotMeasured THEN 0
  ELSE IF Dist(clockOffset, 0) <= Tolerance THEN 0 ELSE clockOffset

\* external: what becomes of a request.
Timely == device.fresh => Dist(Correction, skew) <= Window

Accepts(probe) ==
  \/ "auth" \notin token.strict
  \/ probe = "no_nonce" /\ device.digest /\ Timely /\ "nonce" \notin token.strict
  \/ probe = "no_created" /\ device.digest /\ "created" \notin token.strict
  \/ probe = "text" /\ device.text
  \/ probe = "full" /\ device.digest /\ Timely

\* A device should take the whole token and no other.
Wrong(probe, accepts) == accepts # (probe = "full")

------------------------------------------------------------------------------
TInit == Init /\ token = NoTest

Idle == token = NoTest

\* The session goes on between tests.
SessionStep == Next /\ (Idle \/ \E s \in Skew : SetDeviceClock(s)) /\ UNCHANGED token

\* The test begins, in a session that has credentials.
BeginTest ==
  /\ pc = "idle" /\ Idle
  /\ \E strict \in SUBSET Insists :
       token' = [NoTest EXCEPT !.strict = strict, !.since = clockSteps,
                   !.at = IF accepted = "none" THEN 0 ELSE 1,
                   !.outcome = IF accepted = "none" THEN "skipped" ELSE "running"]
  /\ UNCHANGED vars

\* _accepts_token, and what the test makes of it.
Probe ==
  LET probe == Probes[token.at]
      wrong == Wrong(probe, Accepts(probe))
      found == IF wrong THEN token.failures \cup {probe} ELSE token.failures
  IN
  /\ token.outcome = "running"
  /\ IF probe = "anonymous" /\ wrong
       THEN token' = [token EXCEPT !.outcome = "skipped"]
       ELSE IF probe = "full"
         THEN token' = [token EXCEPT !.failures = found,
                 !.outcome = IF found = {} THEN "passed" ELSE "failed"]
         ELSE token' = [token EXCEPT !.failures = found, !.at = @ + 1]
  /\ UNCHANGED vars

\* An exchange fails in transport: the exception is the test's outcome.
LoseProbe ==
  /\ token.outcome = "running"
  /\ failures < MaxFailures
  /\ failures' = failures + 1
  /\ token' = [token EXCEPT !.outcome = "raised"]
  /\ UNCHANGED <<fixed, skew, camera, services, verdict, clock, control, exposed,
                 clockSteps>>

\* The outcome is reported.
EndTest ==
  /\ token.outcome \notin {"none", "running"}
  /\ token' = NoTest
  /\ UNCHANGED vars

TNext == SessionStep \/ BeginTest \/ Probe \/ LoseProbe \/ EndTest

TSpec == TInit /\ [][TNext]_tvars

------------------------------------------------------------------------------
\* While nobody sets the clock during the test: a device that passes refuses
\* cleartext and every incomplete token, and takes a whole one.  What a device is
\* blamed for it does; that it refuses a whole token is said of one that takes
\* it only if the clock was never measured, or was set since, and the device
\* finds the timestamp stale (auth.py:250-298).
TokenVerdictIsFair ==
  token.since = clockSteps =>
    /\ token.outcome = "passed" =>
         /\ Insists \subseteq token.strict
         /\ device.digest /\ ~device.text
    /\ token.outcome = "failed" =>
         /\ "no_nonce" \in token.failures => "nonce" \notin token.strict
         /\ "no_created" \in token.failures => "created" \notin token.strict
         /\ "text" \in token.failures => device.text
         /\ "full" \in token.failures /\ device.digest =>
              /\ device.fresh /\ Dist(skew, Correction) > Window
              /\ clockOffset = NotMeasured \/ clockSteps > 0
==============================================================================
