------------------------ MODULE AuthNegotiationProofs ------------------------
(***************************************************************************)
(* Type correctness and the safety invariants of AuthNegotiation, for any  *)
(* set of services, any clock offsets, any tolerance not above the         *)
(* device's window, and any number of lost exchanges and clock changes.    *)
(* Then those of UserToken, whose test runs in such a session.             *)
(***************************************************************************)
EXTENDS UserToken, TLAPS

InLoop == pc \in {"try", "clock", "retry"}

\* The candidates of each mode, as its position in the loop selects them.
ModeShape ==
  /\ mode = "auto"   => /\ Len(Candidates(mode)) = 2
                        /\ Candidates(mode)[1] = Digest
                        /\ Candidates(mode)[2] = Text
  /\ mode = "digest" => /\ Len(Candidates(mode)) = 1
                        /\ Candidates(mode)[1] = Digest
  /\ mode = "text"   => /\ Len(Candidates(mode)) = 1
                        /\ Candidates(mode)[1] = Text
  /\ mode = "none"   => Candidates(mode) = <<>> /\ Len(Candidates(mode)) = 0

\* Every mode has the candidates it is documented to have.
LEMMA Shapes == ASSUME mode \in Mode PROVE ModeShape
<1>1. mode = "auto" => Candidates(mode) = <<Digest, Text>>
  BY DEF Candidates
<1>2. mode = "digest" => Candidates(mode) = <<Digest>>
  BY DEF Candidates
<1>3. mode = "text" => Candidates(mode) = <<Text>>
  BY DEF Candidates
<1>4. mode = "none" => Candidates(mode) = <<>>
  BY DEF Candidates
<1> QED
  BY <1>1, <1>2, <1>3, <1>4 DEF ModeShape

\* The negotiation guard is up exactly while a negotiation runs, whatever way
\* the last one ended.
GuardInv == IF InLoop THEN negotiating = TRUE ELSE negotiating = FALSE

\* Where the loop can be, and what a verdict says of the mode.
LoopInv ==
  /\ InLoop => /\ accepted = Undecided
               /\ mode = "auto" \/ (mode # "none" /\ cand = 1)
  /\ mode = "none" => accepted = "none"
  /\ accepted = "none" => mode = "none"
  /\ accepted = Digest => mode \in {"auto", "digest"}
  /\ accepted = Text => mode \in {"auto", "text"}

ControlInv == GuardInv /\ LoopInv

\* The steps of the loop that choose where it goes next keep to the candidates.
LEMMA NextCandidateStep ==
  ASSUME TypeOK, LoopInv, InLoop, NextCandidate
  PROVE  \/ mode = "auto" /\ cand = 1 /\ cand' = 2 /\ pc' = "try"
            /\ UNCHANGED <<negotiating, want>>
         \/ (mode = "auto" => cand = 2) /\ cand' = cand /\ pc' = "bind"
            /\ negotiating' = FALSE /\ want' = want
<1>1. ModeShape
  BY Shapes DEF TypeOK, OutsideOK
<1>2. CASE mode = "auto" /\ cand = 1
  BY <1>1, <1>2 DEF ModeShape, NextCandidate
<1>3. CASE mode = "auto" /\ cand = 2
  <2>1. cand = 2 /\ Len(Candidates(mode)) = 2
    BY <1>1, <1>3 DEF ModeShape
  <2>2. ~(cand < Len(Candidates(mode)))
    BY <2>1
  <2> QED
    BY <1>3, <2>2 DEF NextCandidate, Leave
<1>4. CASE mode \in {"digest", "text"} /\ cand = 1
  BY <1>1, <1>4 DEF ModeShape, NextCandidate, Leave
<1> QED
  BY <1>2, <1>3, <1>4 DEF TypeOK, ControlOK, OutsideOK, LoopInv, Mode

\* The candidate the loop is at is one of the two password types.
LEMMA CandidateShape ==
  ASSUME TypeOK, LoopInv, InLoop
  PROVE  /\ Candidate = Digest => mode \in {"auto", "digest"} /\ cand = 1
         /\ Candidate = Text => mode = "text" \/ (mode = "auto" /\ cand = 2)
         /\ Candidate \in {Digest, Text}
<1>1. ModeShape
  BY Shapes DEF TypeOK, OutsideOK
<1>2. CASE mode = "auto" /\ cand = 1
  BY <1>1, <1>2 DEF ModeShape, Candidate, Digest, Text
<1>3. CASE mode = "auto" /\ cand = 2
  BY <1>1, <1>3 DEF ModeShape, Candidate, Digest, Text
<1>4. CASE mode \in {"digest", "text"} /\ cand = 1
  BY <1>1, <1>4 DEF ModeShape, Candidate, Digest, Text
<1> QED
  BY <1>2, <1>3, <1>4 DEF TypeOK, ControlOK, OutsideOK, LoopInv, Mode

\* The program starts well typed, with no negotiation under way.
LEMMA TypeInit == Init => TypeOK /\ ControlInv
<1> USE NegotiationAssumption
<1> SUFFICES ASSUME Init PROVE TypeOK /\ ControlInv
  OBVIOUS
<1>1. OutsideOK
  BY DEF Init, OutsideOK
<1>2. ClientsOK
  BY DEF Init, ClientsOK
<1>3. RecordOK
  BY DEF Init, RecordOK
<1>4. ControlOK
  BY DEF Init, ControlOK
<1>5. FlagsOK
  BY DEF Init, FlagsOK
<1>6. GuardInv
  BY DEF Init, GuardInv, InLoop
<1>7. LoopInv
  BY DEF Init, LoopInv, InLoop, Mode, Undecided, Digest, Text
<1> QED
  BY <1>1, <1>2, <1>3, <1>4, <1>5, <1>6, <1>7 DEF TypeOK, ControlInv

\* A step keeps them.
LEMMA TypeStep == TypeOK /\ ControlInv /\ [Next]_vars => TypeOK' /\ ControlInv'
<1> USE NegotiationAssumption
<1> SUFFICES ASSUME TypeOK, ControlInv, [Next]_vars
             PROVE  TypeOK' /\ ControlInv'
  OBVIOUS
<1>0. ModeShape /\ mode \in Mode
  BY Shapes DEF TypeOK, OutsideOK
<1> USE DEF TypeOK, ControlInv
<1>1. ASSUME NEW s \in Service, Access(s) PROVE TypeOK' /\ ControlInv'
  <2> USE <1>1 DEF Access
  <2>1. OutsideOK'
    BY DEF OutsideOK, fixed
  <2>2. ClientsOK'
    BY DEF ClientsOK, camera
  <2>3. RecordOK'
    BY DEF RecordOK, verdict, clock
  <2>4. ControlOK'
    BY DEF ControlOK
  <2>5. FlagsOK'
    BY DEF FlagsOK, clock
  <2>6. GuardInv'
    BY DEF GuardInv, InLoop
  <2>7. LoopInv'
    BY <1>0 DEF LoopInv, InLoop, NeedsNegotiation, fixed, verdict, Mode,
       ModeShape, Undecided
  <2> QED
    BY <2>1, <2>2, <2>3, <2>4, <2>5, <2>6, <2>7
<1>2. CASE TryAuth
  <2> DEFINE creds == [encrypt |-> Candidate = Digest, dt |-> dtDiff]
  <2> USE <1>2 DEF TryAuth
  <2>1. Candidate \in {Digest, Text}
    BY CandidateShape DEF InLoop
  <2>2. OutsideOK'
    BY DEF OutsideOK, fixed
  <2>3. ClientsOK'
    <3>1. creds \in Creds
      BY DEF Creds, ClientsOK
    <3>2. ProbeClients(creds) \in [Service -> Creds \cup {NoClient}]
      BY <3>1 DEF ProbeClients
    <3> QED
      BY <3>2 DEF ClientsOK
  <2>4. RecordOK'
    BY <2>1 DEF RecordOK, clock, verdict, Upheld
  <2>5. \/ pc' = "idle" /\ negotiating' = FALSE /\ cand' = cand /\ want' = want
           /\ accepted' = accepted
        \/ pc' = "bind" /\ negotiating' = FALSE /\ cand' = cand /\ want' = want
           /\ accepted' \in {accepted, Candidate}
        \/ pc' = "clock" /\ UNCHANGED <<negotiating, cand, want, accepted>>
        \/ mode = "auto" /\ cand' = 2 /\ pc' = "try"
           /\ UNCHANGED <<negotiating, want, accepted>>
    BY NextCandidateStep DEF InLoop, Raise, Leave, AfterRefusal, verdict
  <2>6. ControlOK'
    BY <2>5 DEF ControlOK
  <2>7. FlagsOK'
    BY <2>5 DEF FlagsOK, clock
  <2>8. GuardInv'
    BY <2>5 DEF GuardInv, InLoop
  <2>9. LoopInv'
    BY <2>1, <2>5, CandidateShape DEF LoopInv, InLoop, fixed, Digest, Text,
       Undecided
  <2> QED
    BY <2>2, <2>3, <2>4, <2>6, <2>7, <2>8, <2>9
<1>3. CASE ApplyClockOffset
  <2> USE <1>3 DEF ApplyClockOffset
  <2>1. OutsideOK'
    BY DEF OutsideOK, fixed
  <2>2. ClientsOK'
    BY DEF ClientsOK, OutsideOK, MeasuredOffset
  <2>3. RecordOK'
    BY DEF RecordOK, OutsideOK, verdict, clock, MeasuredOffset
  <2>4. \/ pc' = "bind" /\ negotiating' = FALSE /\ cand' = cand /\ want' = want
        \/ pc' = "retry" /\ UNCHANGED <<negotiating, cand, want>>
        \/ mode = "auto" /\ cand' = 2 /\ pc' = "try"
           /\ UNCHANGED <<negotiating, want>>
    BY NextCandidateStep DEF InLoop
  <2>5. ControlOK'
    BY <2>4 DEF ControlOK
  <2>6. FlagsOK'
    BY <2>4 DEF FlagsOK, clock
  <2>7. GuardInv'
    BY <2>4 DEF GuardInv, InLoop
  <2>8. LoopInv'
    BY <2>4 DEF LoopInv, InLoop, fixed, verdict
  <2> QED
    BY <2>1, <2>2, <2>3, <2>5, <2>6, <2>7, <2>8
<1>4. CASE Bind
  <2> USE <1>4 DEF Bind
  <2>1. OutsideOK'
    BY DEF OutsideOK, fixed
  <2>2. ClientsOK'
    BY DEF ClientsOK, camera, Kwargs, Creds
  <2>3. RecordOK'
    BY DEF RecordOK, verdict, clock
  <2>4. ControlOK'
    BY DEF ControlOK
  <2>5. FlagsOK'
    BY DEF FlagsOK, clock
  <2>6. GuardInv'
    BY DEF GuardInv, InLoop
  <2>7. LoopInv'
    BY DEF LoopInv, InLoop, fixed, verdict
  <2> QED
    BY <2>1, <2>2, <2>3, <2>4, <2>5, <2>6, <2>7
<1>5. ASSUME NEW s \in Skew, SetDeviceClock(s)
      PROVE  TypeOK' /\ ControlInv'
  BY <1>5 DEF OutsideOK, ClientsOK, RecordOK, FlagsOK, ControlOK, GuardInv,
     LoopInv, InLoop,
     SetDeviceClock, fixed, camera, verdict, clock, control
<1>6. CASE UNCHANGED vars
  BY <1>6 DEF OutsideOK, ClientsOK, RecordOK, FlagsOK, ControlOK, GuardInv,
     LoopInv, InLoop,
     vars, fixed, camera, verdict, clock, control
<1> QED
  BY <1>1, <1>2, <1>3, <1>4, <1>5, <1>6 DEF Next, Negotiate

\* The record's types and the control state's shape hold in every state.
THEOREM TypeCorrect == Spec => [](TypeOK /\ ControlInv)
<1> USE NegotiationAssumption
<1>1. Init => TypeOK /\ ControlInv
  BY TypeInit
<1>2. TypeOK /\ ControlInv /\ [Next]_vars => TypeOK' /\ ControlInv'
  BY TypeStep
<1> QED
  BY <1>1, <1>2, PTL DEF Spec

------------------------------------------------------------------------------
\* The camera and the clients are only ever changed by the loop, which runs
\* while nothing is accepted, and by Bind, which copies the camera.
LEMMA ClientsStep ==
  /\ TypeOK /\ ControlInv /\ TypeOK'
  /\ SettledClientsCarryVerdict
  /\ [Next]_vars
  => SettledClientsCarryVerdict'
<1> SUFFICES ASSUME TypeOK, LoopInv, TypeOK', SettledClientsCarryVerdict,
                    [Next]_vars
             PROVE  SettledClientsCarryVerdict'
  BY DEF ControlInv
<1> USE DEF SettledClientsCarryVerdict, Kwargs
<1>1. ASSUME NEW s \in Service, Access(s)
      PROVE  SettledClientsCarryVerdict'
  BY <1>1 DEF Access, camera, verdict
<1>2. CASE TryAuth
  <2>1. accepted = Undecided
    BY <1>2 DEF TryAuth, LoopInv, InLoop
  <2>2. CASE accepted' = Undecided
    BY <2>2
  <2>3. CASE accepted' = Candidate
    <3>1. encrypt' = (accepted' = Digest) /\ dtDiff' = dtDiff
      BY <1>2, <2>3 DEF TryAuth
    <3>2. \A s \in Service : services'[s] # NoClient
            => services'[s] = [encrypt |-> Candidate = Digest, dt |-> dtDiff]
      BY <1>2 DEF TryAuth, ProbeClients
    <3> QED
      BY <2>3, <3>1, <3>2
  <2> QED
    BY <1>2, <2>1, <2>2, <2>3 DEF TryAuth, verdict
<1>3. CASE ApplyClockOffset
  BY <1>3 DEF ApplyClockOffset, verdict, LoopInv, InLoop
<1>4. CASE Bind
  BY <1>4 DEF Bind, camera, verdict, TypeOK, ClientsOK
<1>5. ASSUME NEW s \in Skew, SetDeviceClock(s)
      PROVE  SettledClientsCarryVerdict'
  BY <1>5 DEF SetDeviceClock, camera, verdict
<1>6. CASE UNCHANGED vars
  BY <1>6 DEF vars, camera, verdict
<1> QED
  BY <1>1, <1>2, <1>3, <1>4, <1>5, <1>6 DEF Next, Negotiate

\* Once settled, the camera and every client carry the accepted type.
\* The camera and the clients are only ever changed by the loop, which runs
\* while nothing is accepted, and by Bind, which copies the camera.
THEOREM VerdictCarried == Spec => []SettledClientsCarryVerdict
<1>1. Init => SettledClientsCarryVerdict
  BY DEF Init, SettledClientsCarryVerdict, Digest, Undecided
<1>2. /\ TypeOK /\ ControlInv /\ TypeOK'
      /\ SettledClientsCarryVerdict
      /\ [Next]_vars
      => SettledClientsCarryVerdict'
  BY ClientsStep
<1> QED
  BY <1>1, <1>2, TypeCorrect, PTL DEF Spec

\* Only the loop and Bind touch them, and Bind rebuilds no client.
LEMMA SettledStep ==
  TypeOK /\ ControlInv /\ accepted # Undecided /\ [Next]_vars
  => /\ UNCHANGED <<verdict, camera>>
     /\ \A s \in Service : services[s] # NoClient => services'[s] = services[s]
<1> SUFFICES ASSUME TypeOK, LoopInv, accepted # Undecided, [Next]_vars
             PROVE  /\ UNCHANGED <<verdict, camera>>
                    /\ \A s \in Service : services[s] # NoClient
                                            => services'[s] = services[s]
  BY DEF ControlInv
<1>1. ASSUME NEW s \in Service, Access(s) PROVE UNCHANGED <<verdict, camera, services>>
  BY <1>1 DEF Access
<1>2. ~TryAuth /\ ~ApplyClockOffset
  BY DEF TryAuth, ApplyClockOffset, LoopInv, InLoop
<1>3. CASE Bind
  BY <1>3 DEF Bind, TypeOK, ClientsOK
<1>4. ASSUME NEW s \in Skew, SetDeviceClock(s) PROVE UNCHANGED <<verdict, camera, services>>
  BY <1>4 DEF SetDeviceClock
<1>5. CASE UNCHANGED vars
  BY <1>5 DEF vars
<1> QED
  BY <1>1, <1>2, <1>3, <1>4, <1>5 DEF Next, Negotiate

\* A settled session never reopens, and drops or rebuilds no client
\* (dut.py:354-361).
THEOREM Settled == Spec => SettledForGood
<1>1. TypeOK /\ ControlInv /\ [Next]_vars
      => [accepted # Undecided
            => /\ UNCHANGED <<verdict, camera>>
               /\ \A s \in Service : services[s] # NoClient
                                       => services'[s] = services[s]]_vars
  BY SettledStep
<1> QED
  BY <1>1, TypeCorrect, PTL DEF Spec, SettledForGood

------------------------------------------------------------------------------
\* What the list of refusals says of where the loop is.
RefusalInv ==
  /\ mode = "text" => Digest \notin rejected
  /\ pc \in {"clock", "retry"} => Candidate \in rejected
  /\ pc = "retry" => clockChecked = TRUE
  /\ InLoop /\ cand = 2 => Digest \in rejected /\ clockChecked = TRUE
  /\ accepted \notin rejected

\* Neither the mode nor the place in the loop changes the candidate.
LEMMA SameCandidate ==
  ASSUME UNCHANGED <<fixed, cand>> PROVE Candidate' = Candidate
BY DEF fixed, Candidate, Candidates

\* A refusal moves the loop on, an acceptance ends it.
LEMMA RefusalStep ==
  TypeOK /\ ControlInv /\ RefusalInv /\ [Next]_vars => RefusalInv'
<1> SUFFICES ASSUME TypeOK, LoopInv, RefusalInv, [Next]_vars
             PROVE  RefusalInv'
  BY DEF ControlInv
<1> USE DEF RefusalInv
<1>1. ASSUME NEW s \in Service, Access(s) PROVE RefusalInv'
  BY <1>1 DEF Access, InLoop, fixed, verdict, clock, TypeOK, ControlOK
<1>2. CASE TryAuth
  <2>0. InLoop
    BY <1>2 DEF TryAuth, InLoop
  <2>1. fixed' = fixed /\ mode' = mode /\ clockChecked' = clockChecked
    BY <1>2 DEF TryAuth, fixed, clock
  <2>2. CASE pc' = "idle" /\ UNCHANGED verdict
    BY <2>1, <2>2 DEF verdict, InLoop
  <2>3. CASE /\ rejected' = rejected \cup {Candidate}
             /\ accepted' = accepted
             /\ AfterRefusal
    <3>1. accepted' \notin rejected'
      BY <2>0, <2>3, CandidateShape DEF LoopInv, Digest, Text, Undecided
    <3>2. mode = "text" => Digest \notin rejected'
      BY <2>0, <2>3, CandidateShape DEF Digest, Text
    <3>3. CASE pc = "try"
      <4>1. pc' = "clock" /\ cand' = cand
        BY <2>3, <3>3 DEF AfterRefusal
      <4>2. Candidate' = Candidate
        BY <2>1, <4>1, SameCandidate
      <4> QED
        BY <2>0, <2>1, <2>3, <3>1, <3>2, <4>1, <4>2 DEF InLoop
    <3>4. CASE pc = "retry"
      <4>1. NextCandidate
        BY <2>3, <3>4 DEF AfterRefusal
      <4>2. \/ mode = "auto" /\ cand = 1 /\ cand' = 2 /\ pc' = "try"
            \/ pc' = "bind"
        BY <2>0, <4>1, NextCandidateStep
      <4>3. cand = 1 /\ mode = "auto" => Candidate = Digest
        BY <2>0, CandidateShape DEF Digest, Text
      <4> QED
        BY <2>0, <2>1, <2>3, <3>1, <3>2, <3>4, <4>2, <4>3 DEF InLoop
    <3> QED
      BY <1>2, <3>3, <3>4 DEF TryAuth
  <2>4. CASE /\ accepted' = Candidate /\ rejected' = rejected \ {Candidate}
             /\ pc' = "bind"
    BY <2>1, <2>4 DEF InLoop
  <2> QED
    BY <1>2, <2>2, <2>3, <2>4 DEF TryAuth, Raise, Leave, Upheld
<1>3. CASE ApplyClockOffset
  <2>0. InLoop /\ pc = "clock"
    BY <1>3 DEF ApplyClockOffset, InLoop
  <2>1. fixed' = fixed /\ mode' = mode /\ UNCHANGED verdict
    BY <1>3 DEF ApplyClockOffset, fixed
  <2>2. clockChecked' = TRUE
    BY <1>3 DEF ApplyClockOffset, clock, TypeOK, FlagsOK
  <2>3. CASE NextCandidate
    <3>1. \/ mode = "auto" /\ cand = 1 /\ cand' = 2 /\ pc' = "try"
          \/ pc' = "bind"
      BY <2>0, <2>3, NextCandidateStep
    <3>2. cand = 1 /\ mode = "auto" => Candidate = Digest
      BY <2>0, CandidateShape DEF Digest, Text
    <3> QED
      BY <2>0, <2>1, <2>2, <3>1, <3>2 DEF InLoop, verdict
  <2>4. CASE pc' = "retry" /\ cand' = cand
    <3>1. Candidate' = Candidate
      BY <2>1, <2>4, SameCandidate
    <3> QED
      BY <2>0, <2>1, <2>2, <2>4, <3>1 DEF InLoop, verdict
  <2> QED
    BY <1>3, <2>3, <2>4 DEF ApplyClockOffset
<1>4. CASE Bind
  BY <1>4 DEF Bind, InLoop, fixed, verdict, clock
<1>5. ASSUME NEW s \in Skew, SetDeviceClock(s) PROVE RefusalInv'
  <2>1. Candidate' = Candidate
    BY <1>5, SameCandidate DEF SetDeviceClock, control
  <2> QED
    BY <1>5, <2>1 DEF SetDeviceClock, InLoop, fixed, verdict, clock, control
<1>6. CASE UNCHANGED vars
  <2>1. Candidate' = Candidate
    BY <1>6, SameCandidate DEF vars, control
  <2> QED
    BY <1>6, <2>1 DEF vars, InLoop, fixed, verdict, clock, control
<1> QED
  BY <1>1, <1>2, <1>3, <1>4, <1>5, <1>6 DEF Next, Negotiate

THEOREM RefusalsTracked == Spec => []RefusalInv
<1>1. Init => RefusalInv
  BY DEF Init, RefusalInv, InLoop
<1>2. TypeOK /\ ControlInv /\ RefusalInv /\ [Next]_vars => RefusalInv'
  BY RefusalStep
<1> QED
  BY <1>1, <1>2, TypeCorrect, PTL DEF Spec

\* The accepted type is never on the list of refusals.
THEOREM NeverBoth == Spec => []AcceptedNotRejected
<1>1. RefusalInv => AcceptedNotRejected
  BY DEF RefusalInv, AcceptedNotRejected
<1> QED
  BY <1>1, RefusalsTracked, PTL

------------------------------------------------------------------------------
\* What the session knows of the clock, while nobody sets it: an offset that
\* was measured is the true one, and the camera's is within the window of it.
ClockInv ==
  /\ clockOffset # NotMeasured => clockChecked = TRUE
  /\ clockOffset = NotMeasured => dtDiff = 0
  /\ clockOffset # NotMeasured /\ clockSteps = 0
       => clockOffset = skew /\ Dist(dtDiff, skew) <= Window

\* Only the probe sets the offset, and only to what the clock shows.
LEMMA ClockStep == TypeOK /\ ClockInv /\ [Next]_vars => ClockInv'
<1> USE NegotiationAssumption
<1> SUFFICES ASSUME TypeOK, ClockInv, [Next]_vars PROVE ClockInv'
  OBVIOUS
<1> USE DEF ClockInv
<1>0. skew \in Int /\ dtDiff \in Int
  BY DEF TypeOK, OutsideOK, ClientsOK
<1>1. ASSUME NEW s \in Service, Access(s) PROVE ClockInv'
  BY <1>1 DEF Access, camera, clock
<1>2. CASE TryAuth
  BY <1>2 DEF TryAuth, clock
<1>3. CASE ApplyClockOffset
  <2>1. skew' = skew /\ clockSteps' = clockSteps
    BY <1>3 DEF ApplyClockOffset
  <2>2. CASE UNCHANGED <<clockOffset, dtDiff>>
    BY <1>3, <2>1, <2>2 DEF ApplyClockOffset, clock
  <2>3. CASE /\ clockOffset' = skew /\ dtDiff' = skew /\ clockChecked' = TRUE
    <3>1. Dist(skew, skew) <= Window
      BY <1>0 DEF Dist
    <3> QED
      BY <1>0, <2>1, <2>3, <3>1 DEF Dist
  <2>4. CASE /\ clockOffset' = skew /\ dtDiff' = dtDiff /\ clockChecked' = TRUE
             /\ ~clockChecked /\ Dist(skew, 0) <= Tolerance
    <3>1. dtDiff = 0
      BY <2>4
    <3>2. Dist(0, skew) <= Window
      BY <1>0, <2>4 DEF Dist
    <3> QED
      BY <1>0, <2>1, <2>4, <3>1, <3>2 DEF Dist
  <2>5. ~OutOfTolerance(skew) => Dist(skew, 0) <= Tolerance
    BY <1>0 DEF OutOfTolerance, Dist
  <2> QED
    BY <1>3, <2>2, <2>3, <2>4, <2>5 DEF ApplyClockOffset, MeasuredOffset, clock
<1>4. CASE Bind
  BY <1>4 DEF Bind, camera, clock
<1>5. ASSUME NEW s \in Skew, SetDeviceClock(s) PROVE ClockInv'
  BY <1>5 DEF SetDeviceClock, camera, clock, TypeOK, OutsideOK
<1>6. CASE UNCHANGED vars
  BY <1>6 DEF vars, camera, clock
<1> QED
  BY <1>1, <1>2, <1>3, <1>4, <1>5, <1>6 DEF Next, Negotiate

THEOREM ClockKnown == Spec => []ClockInv
<1> USE NegotiationAssumption
<1>1. Init => ClockInv
  BY DEF Init, ClockInv
<1>2. TypeOK /\ ClockInv /\ [Next]_vars => ClockInv'
  BY ClockStep
<1> QED
  BY <1>1, <1>2, TypeCorrect, PTL DEF Spec

\* The device refuses this type at the offset the camera has now.
Refused(label) == ~Admits([encrypt |-> label = Digest, dt |-> dtDiff])

\* Within the window the freshness of a token is no reason to refuse it.
LEMMA FreshEnough ==
  ASSUME NEW e, NEW d, Dist(d, skew) <= Window
  PROVE  Admits([encrypt |-> e, dt |-> d])
           <=> IF e THEN device.digest ELSE device.text
BY DEF Admits

\* Only the offset, the clock and the policy decide what is refused.
LEMMA SameRefusals ==
  ASSUME UNCHANGED <<fixed, skew, dtDiff>>
  PROVE  /\ Refused(Digest)' = Refused(Digest)
         /\ Len(Candidates(mode))' = Len(Candidates(mode))
         /\ \A i : Refused(Candidates(mode)[i])' = Refused(Candidates(mode)[i])
         /\ UNCHANGED cand => Refused(Candidate)' = Refused(Candidate)
BY DEF fixed, Refused, Admits, Candidates, Candidate, Digest

\* While nobody sets the clock: what was tried and refused is still refused.
GenuineInv ==
  clockSteps = 0 =>
    /\ pc = "clock" => Refused(Candidate)
    /\ InLoop /\ cand = 2 => Refused(Digest)
    /\ pc = "bind" /\ accepted = Undecided
         => \A i \in 1..Len(Candidates(mode)) : Refused(Candidates(mode)[i])
    /\ accepted = Text /\ mode = "auto" => Refused(Digest)

\* Going on from a refused candidate keeps the claim about those before it.
LEMMA GoingOn ==
  ASSUME TypeOK, LoopInv, InLoop, NextCandidate, UNCHANGED <<fixed, skew, dtDiff>>,
         UNCHANGED <<accepted, clockSteps>>, GenuineInv,
         clockSteps = 0 => Refused(Candidate)
  PROVE  GenuineInv'
<1>0. ModeShape /\ clockSteps' = clockSteps /\ mode' = mode
  BY Shapes DEF TypeOK, OutsideOK, fixed
<1>1. accepted' = Undecided
  BY DEF LoopInv
<1> SUFFICES ASSUME clockSteps = 0
             PROVE  /\ pc' # "clock"
                    /\ pc' = "try" /\ cand' = 2 => Refused(Digest)
                    /\ pc' # "retry"
                    /\ pc' = "bind" => \A i \in 1..Len(Candidates(mode)) :
                                         Refused(Candidates(mode)[i])
  BY <1>0, <1>1, SameRefusals DEF GenuineInv, InLoop, Text, Undecided
<1>2. CASE mode = "auto" /\ cand = 1
  <2>1. cand' = 2 /\ pc' = "try"
    BY <1>2, NextCandidateStep
  <2>2. Candidate = Digest
    BY <1>0, <1>2 DEF ModeShape, Candidate
  <2> QED
    BY <2>1, <2>2
<1>3. CASE mode = "auto" /\ cand = 2
  <2>1. pc' = "bind"
    BY <1>3, NextCandidateStep
  <2>2. Refused(Candidates(mode)[1]) /\ Refused(Candidates(mode)[2])
    BY <1>0, <1>3 DEF ModeShape, Candidate, GenuineInv
  <2>3. Len(Candidates(mode)) = 2
    BY <1>0, <1>3 DEF ModeShape
  <2>4. \A i \in 1..2 : Refused(Candidates(mode)[i])
    <3>1. \A i \in 1..2 : i = 1 \/ i = 2
      OBVIOUS
    <3> QED
      BY <2>2, <3>1
  <2> QED
    BY <2>1, <2>3, <2>4
<1>4. CASE mode \in {"digest", "text"}
  <2>1. cand = 1
    BY <1>4 DEF LoopInv
  <2>2. pc' = "bind"
    BY <1>4, <2>1, NextCandidateStep
  <2>3. Len(Candidates(mode)) = 1
    BY <1>0, <1>4 DEF ModeShape
  <2>4. \A i \in 1..1 : Refused(Candidates(mode)[i])
    <3>1. \A i \in 1..1 : i = 1
      OBVIOUS
    <3> QED
      BY <2>1, <3>1 DEF Candidate
  <2> QED
    BY <2>2, <2>3, <2>4
<1> QED
  BY <1>2, <1>3, <1>4 DEF TypeOK, OutsideOK, ControlOK, LoopInv, Mode

\* A step keeps what was refused refused.
LEMMA GenuineStep ==
  /\ TypeOK /\ ControlInv /\ RefusalInv /\ GenuineInv /\ [Next]_vars
  => GenuineInv'
<1> SUFFICES ASSUME TypeOK, GuardInv, LoopInv, RefusalInv, GenuineInv,
                    [Next]_vars
             PROVE  GenuineInv'
  BY DEF ControlInv
<1>0. ModeShape
  BY Shapes DEF TypeOK, OutsideOK
<1>1. ASSUME NEW s \in Service, Access(s) PROVE GenuineInv'
  <2>1. /\ UNCHANGED <<fixed, skew, dtDiff, accepted, clockSteps>>
        /\ mode' = mode
    BY <1>1 DEF Access, fixed, camera, verdict
  <2>2. CASE NeedsNegotiation
    BY <1>1, <2>1, <2>2, SameRefusals DEF Access, GenuineInv, InLoop
  <2>3. CASE ~NeedsNegotiation
    <3>1. pc' = "bind"
      BY <1>1, <2>3 DEF Access
    <3>2. negotiating = FALSE
      BY <1>1 DEF Access, GuardInv, InLoop
    <3>3. accepted # Undecided \/ Candidates(mode) = <<>>
      BY <2>3, <3>2 DEF NeedsNegotiation
    <3>4. accepted # Undecided
      <4>1. Len(<<>>) = 0
        OBVIOUS
      <4>2. mode # "none" => Candidates(mode) # <<>>
        BY <1>0, <4>1 DEF ModeShape, TypeOK, OutsideOK, Mode
      <4> QED
        BY <3>3, <4>2 DEF LoopInv, Undecided
    <3> QED
      BY <2>1, <3>1, <3>4, SameRefusals DEF GenuineInv, InLoop
  <2> QED
    BY <2>2, <2>3
<1>2. CASE TryAuth
  <2>0. InLoop /\ accepted = Undecided
    BY <1>2 DEF TryAuth, InLoop, LoopInv
  <2>1. UNCHANGED <<fixed, skew, dtDiff, clockSteps>> /\ mode' = mode
    BY <1>2 DEF TryAuth, fixed
  <2>2. CASE pc' = "idle" /\ accepted' = accepted
    BY <2>0, <2>1, <2>2, SameRefusals DEF GenuineInv, InLoop, Text, Undecided
  <2>3. CASE accepted' = Candidate /\ pc' = "bind" /\ cand' = cand
    <3>1. accepted' # Undecided
      BY <2>0, <2>3, CandidateShape DEF Digest, Text, Undecided
    <3>2. accepted' = Text /\ mode = "auto" => cand = 2
      BY <2>0, <2>3, CandidateShape DEF Text
    <3> QED
      BY <2>0, <2>1, <2>3, <3>1, <3>2, SameRefusals DEF GenuineInv, InLoop
  <2>4. CASE accepted' = accepted /\ AfterRefusal /\ Refused(Candidate)
    <3>1. CASE pc = "try"
      <4>1. pc' = "clock" /\ cand' = cand
        BY <2>4, <3>1 DEF AfterRefusal
      <4> QED
        BY <2>0, <2>1, <2>4, <4>1, SameRefusals DEF GenuineInv, InLoop, Text,
           Undecided
    <3>2. CASE pc = "retry"
      <4>1. NextCandidate
        BY <2>4, <3>2 DEF AfterRefusal
      <4> QED
        BY <2>0, <2>1, <2>4, <4>1, GoingOn
    <3> QED
      BY <1>2, <3>1, <3>2 DEF TryAuth
  <2>5. ProbeClients([encrypt |-> Candidate = Digest, dt |-> dtDiff])[DevMgmt]
          = [encrypt |-> Candidate = Digest, dt |-> dtDiff]
    BY NegotiationAssumption DEF ProbeClients
  <2> QED
    BY <1>2, <2>2, <2>3, <2>4, <2>5 DEF TryAuth, Raise, Leave, verdict, Refused
<1>3. CASE ApplyClockOffset
  <2>0. InLoop /\ pc = "clock"
    BY <1>3 DEF ApplyClockOffset, InLoop
  <2>1. UNCHANGED <<fixed, skew, accepted, clockSteps>> /\ mode' = mode
    BY <1>3 DEF ApplyClockOffset, fixed, verdict
  <2>2. CASE NextCandidate /\ dtDiff' = dtDiff
    BY <2>0, <2>1, <2>2, GoingOn DEF GenuineInv
  <2>3. CASE /\ ~clockChecked /\ pc' = "retry" /\ cand' = cand
    <3>1. cand # 2
      BY <2>0, <2>3 DEF RefusalInv
    <3>2. accepted' # Text
      BY <2>0, <2>1 DEF LoopInv, Text, Undecided
    <3> QED
      BY <2>3, <3>1, <3>2 DEF GenuineInv
  <2> QED
    BY <1>3, <2>2, <2>3 DEF ApplyClockOffset
<1>4. CASE Bind
  <2>1. /\ UNCHANGED <<fixed, skew, dtDiff, accepted, clockSteps>>
        /\ mode' = mode /\ pc' = "idle"
    BY <1>4 DEF Bind, fixed, camera, verdict
  <2> QED
    BY <2>1, SameRefusals DEF GenuineInv, InLoop
<1>5. ASSUME NEW s \in Skew, SetDeviceClock(s) PROVE GenuineInv'
  <2>1. clockSteps' # 0
    BY <1>5 DEF SetDeviceClock, TypeOK, OutsideOK
  <2> QED
    BY <2>1 DEF GenuineInv
<1>6. CASE UNCHANGED vars
  <2>1. /\ UNCHANGED <<fixed, skew, dtDiff, accepted, clockSteps, pc, cand>>
        /\ mode' = mode
    BY <1>6 DEF vars, fixed, camera, verdict, control
  <2> QED
    BY <2>1, SameRefusals DEF GenuineInv, InLoop
<1> QED
  BY <1>1, <1>2, <1>3, <1>4, <1>5, <1>6 DEF Next, Negotiate

THEOREM GenuineRefusals == Spec => []GenuineInv
<1>1. Init => GenuineInv
  BY DEF Init, GenuineInv, InLoop, Undecided, Text
<1>2. /\ TypeOK /\ ControlInv /\ RefusalInv /\ GenuineInv /\ [Next]_vars
      => GenuineInv'
  BY GenuineStep
<1> QED
  BY <1>1, <1>2, TypeCorrect, RefusalsTracked, PTL DEF Spec

\* Within the window a device that refuses the digest has none.
LEMMA FallbackFollows ==
  TypeOK /\ ControlInv /\ RefusalInv /\ ClockInv /\ GenuineInv
    => HonestFallback
<1> SUFFICES ASSUME TypeOK, LoopInv, RefusalInv, ClockInv, GenuineInv,
                    FellBackToText, clockSteps = 0, clockOffset # NotMeasured
             PROVE  ~device.digest
  BY DEF ControlInv, HonestFallback
<1>1. mode = "auto"
  BY DEF FellBackToText, LoopInv, RefusalInv
<1>2. ~Admits([encrypt |-> Digest = Digest, dt |-> dtDiff])
  BY <1>1 DEF GenuineInv, FellBackToText, Refused
<1>3. Dist(dtDiff, skew) <= Window
  BY DEF ClockInv
<1> QED
  BY <1>2, <1>3, FreshEnough

\* A measured clock makes the fallback verdict true of the device.
THEOREM FallbackIsHonest == Spec => []HonestFallback
<1>1. TypeOK /\ ControlInv /\ RefusalInv /\ ClockInv /\ GenuineInv
        => HonestFallback
  BY FallbackFollows
<1> QED
  BY <1>1, TypeCorrect, RefusalsTracked, ClockKnown, GenuineRefusals, PTL

\* Text is a candidate where it is the only one, or the second, and then what the
\* measured clock shows of the digest is known.
LEMMA CleartextFollows ==
  TypeOK /\ ControlInv /\ RefusalInv /\ ClockInv /\ GenuineInv
    => CleartextIsLastResort
<1> SUFFICES ASSUME TypeOK, LoopInv, RefusalInv, ClockInv, GenuineInv,
                    pc \in {"try", "retry"}, Candidate = Text
             PROVE  \/ mode = "text"
                    \/ /\ mode = "auto" /\ Digest \in rejected /\ clockChecked
                       /\ clockOffset # NotMeasured /\ clockSteps = 0
                            => ~device.digest
  BY DEF ControlInv, CleartextIsLastResort
<1>1. InLoop
  BY DEF InLoop
<1>2. mode = "text" \/ (mode = "auto" /\ cand = 2)
  BY <1>1, CandidateShape
<1>3. ASSUME cand = 2, clockOffset # NotMeasured, clockSteps = 0
      PROVE  ~device.digest
  <2>1. ~Admits([encrypt |-> Digest = Digest, dt |-> dtDiff])
    BY <1>1, <1>3 DEF GenuineInv, Refused
  <2>2. Dist(dtDiff, skew) <= Window
    BY <1>3 DEF ClockInv
  <2> QED
    BY <2>1, <2>2, FreshEnough
<1> QED
  BY <1>1, <1>2, <1>3 DEF RefusalInv

\* The password goes in cleartext only where text was asked for, or after the
\* digest was refused and the clock asked for, and where it was measured, only
\* to a device that refuses digests at its own time (dut.py:398-409, 449-470).
THEOREM CleartextLast == Spec => []CleartextIsLastResort
<1>1. TypeOK /\ ControlInv /\ RefusalInv /\ ClockInv /\ GenuineInv
        => CleartextIsLastResort
  BY CleartextFollows
<1> QED
  BY <1>1, TypeCorrect, RefusalsTracked, ClockKnown, GenuineRefusals, PTL

\* The offset that was measured is within the window of the camera's.
LEMMA ExhaustionFollows ==
  TypeOK /\ ClockInv /\ GenuineInv => ExhaustionIsGenuine
<1> USE NegotiationAssumption
<1> SUFFICES ASSUME TypeOK, ClockInv, GenuineInv,
                    pc = "bind", accepted = Undecided, clockSteps = 0,
                    NEW i \in 1..Len(Candidates(mode))
             PROVE  ~Admits([encrypt |-> Candidates(mode)[i] = Digest,
                             dt |-> IF clockOffset = NotMeasured THEN dtDiff
                                    ELSE clockOffset])
  BY DEF ExhaustionIsGenuine
<1>1. ~Admits([encrypt |-> Candidates(mode)[i] = Digest, dt |-> dtDiff])
  BY DEF GenuineInv, Refused
<1>2. CASE clockOffset # NotMeasured
  <2>1. Dist(dtDiff, skew) <= Window /\ Dist(clockOffset, skew) <= Window
    BY <1>2 DEF ClockInv, Dist, TypeOK, OutsideOK
  <2> QED
    BY <1>1, <1>2, <2>1, FreshEnough
<1> QED
  BY <1>1, <1>2

\* An access that ran out of candidates was refused each of them for good
\* reason, the clock that the session measured included.
THEOREM Exhausted == Spec => []ExhaustionIsGenuine
<1> USE NegotiationAssumption
<1>1. TypeOK /\ ClockInv /\ GenuineInv => ExhaustionIsGenuine
  BY ExhaustionFollows
<1> QED
  BY <1>1, TypeCorrect, ClockKnown, GenuineRefusals, PTL

------------------------------------------------------------------------------
\* The refinement mapping, by name.
Allowed == {Candidates(mode)[i] : i \in 1..Len(Candidates(mode))}
Takes   == {t \in {Digest, Text} : Admits([encrypt |-> t = Digest, dt |-> dtDiff])}
Verdict == {accepted} \ {Undecided, "none"}

\* The types a mode permits are its candidates.
LEMMA AllowedShape ==
  ASSUME TypeOK
  PROVE  /\ Allowed \subseteq {Digest, Text}
         /\ LoopInv /\ InLoop => Candidate \in Allowed
         /\ mode = "text" => Digest \notin Allowed
<1>1. ModeShape
  BY Shapes DEF TypeOK, OutsideOK
<1>2. CASE mode = "auto"
  <2>1. Len(Candidates(mode)) = 2
    BY <1>1, <1>2 DEF ModeShape
  <2>2. \A i : i \in 1..2 <=> i = 1 \/ i = 2
    OBVIOUS
  <2>3. Allowed = {Digest, Text}
    BY <1>1, <1>2, <2>1, <2>2 DEF Allowed, ModeShape
  <2> QED
    BY <1>2, <2>3, CandidateShape
<1>3. CASE mode \in {"digest", "text"}
  <2>1. Len(Candidates(mode)) = 1
    BY <1>1, <1>3 DEF ModeShape
  <2>2. \A i : i \in 1..1 <=> i = 1
    OBVIOUS
  <2>3. Allowed = {Candidates(mode)[1]}
    BY <2>1, <2>2 DEF Allowed
  <2>4. LoopInv /\ InLoop => Candidate = Candidates(mode)[1]
    BY <1>3 DEF LoopInv, Candidate
  <2>5. Digest # Text
    BY DEF Digest, Text
  <2> QED
    BY <1>1, <1>3, <2>3, <2>4, <2>5 DEF ModeShape
<1>4. CASE mode = "none"
  <2>1. Len(Candidates(mode)) = 0
    BY <1>1, <1>4 DEF ModeShape
  <2>2. \A i : i \notin 1..0
    OBVIOUS
  <2>3. Allowed = {}
    BY <2>1, <2>2 DEF Allowed
  <2> QED
    BY <1>4, <2>3 DEF LoopInv
<1> QED
  BY <1>2, <1>3, <1>4 DEF TypeOK, OutsideOK, Mode

\* Every step of the negotiation is one of the promise, or a stutter.
LEMMA RefinementStep ==
  /\ TypeOK /\ ControlInv /\ CleartextIsLastResort /\ [Next]_vars
  => [Session!Next]_(Session!vars)
<1> USE DEF Allowed, Takes, Verdict
<1> SUFFICES ASSUME TypeOK, LoopInv, CleartextIsLastResort, [Next]_vars
             PROVE  [Session!Next]_(Session!vars)
  BY DEF ControlInv
<1>1. CASE TryAuth
  <2>1. InLoop /\ pc \in {"try", "retry"} /\ accepted = Undecided
    BY <1>1 DEF TryAuth, InLoop, LoopInv
  <2>2. /\ Candidate \in {Digest, Text} /\ Candidate \in Allowed
        /\ Candidate = Text /\ Digest \in Allowed => Digest \in rejected
    BY <2>1, CandidateShape, AllowedShape DEF CleartextIsLastResort
  <2>3. Verdict = {}
    BY <2>1 DEF Undecided
  <2>4. Allowed' = Allowed /\ Takes' = Takes
    BY <1>1 DEF TryAuth, fixed, Candidates, Admits
  <2>5. exposed' = (exposed \/ Candidate = Text)
    BY <1>1 DEF TryAuth
  <2>6. Session!Send(Candidate)
    BY <2>2, <2>3, <2>4, <2>5 DEF Session!Send
  <2>7. ProbeClients([encrypt |-> Candidate = Digest, dt |-> dtDiff])[DevMgmt]
          = [encrypt |-> Candidate = Digest, dt |-> dtDiff]
    BY NegotiationAssumption DEF ProbeClients
  <2>8. CASE UNCHANGED verdict
    <3>1. Session!Lose(Candidate)
      BY <2>6, <2>8 DEF Session!Lose, verdict
    <3> QED
      BY <2>2, <3>1 DEF Session!Next
  <2>9. CASE /\ Candidate \notin Takes
             /\ rejected' = rejected \cup {Candidate} /\ accepted' = accepted
    <3>1. Session!Refuse(Candidate)
      BY <2>6, <2>9 DEF Session!Refuse
    <3> QED
      BY <2>2, <3>1 DEF Session!Next
  <2>10. CASE /\ Candidate \in Takes /\ accepted' = Candidate
              /\ rejected' = rejected \ {Candidate}
    <3>1. Verdict' = {Candidate}
      BY <2>2, <2>10 DEF Digest, Text, Undecided
    <3>2. Session!Decide(Candidate)
      BY <2>6, <2>10, <3>1 DEF Session!Decide
    <3> QED
      BY <2>2, <3>2 DEF Session!Next
  <2> QED
    BY <1>1, <2>2, <2>7, <2>8, <2>9, <2>10 DEF TryAuth, Upheld, verdict
<1>2. CASE UNCHANGED <<fixed, verdict, exposed>>
  <2>1. Allowed' = Allowed /\ Verdict' = Verdict
    BY <1>2 DEF fixed, verdict, Candidates
  <2>2. Takes' \in SUBSET {Digest, Text}
    OBVIOUS
  <2>3. Session!Drift
    BY <1>2, <2>1, <2>2 DEF Session!Drift, verdict
  <2> QED
    BY <2>3 DEF Session!Next
<1>3. ASSUME NEW s \in Service, Access(s)
      PROVE  UNCHANGED <<fixed, verdict, exposed>>
  BY <1>3 DEF Access
<1>4. CASE ApplyClockOffset
  BY <1>2, <1>4 DEF ApplyClockOffset
<1>5. CASE Bind
  BY <1>2, <1>5 DEF Bind
<1>6. ASSUME NEW s \in Skew, SetDeviceClock(s)
      PROVE  UNCHANGED <<fixed, verdict, exposed>>
  BY <1>6 DEF SetDeviceClock
<1>7. CASE UNCHANGED vars
  BY <1>2, <1>7 DEF vars
<1> QED
  BY <1>1, <1>2, <1>3, <1>4, <1>5, <1>6, <1>7 DEF Next, Negotiate

\* A session starts undecided.
LEMMA RefinementInit == Init => Session!Init
<1> USE DEF Allowed, Takes, Verdict
<1> SUFFICES ASSUME Init PROVE Session!Init
  OBVIOUS
<1>1. TypeOK
  BY TypeInit
<1>2. Allowed \subseteq {Digest, Text}
  BY <1>1, AllowedShape
<1>3. Verdict = {} /\ rejected = {} /\ exposed = FALSE
  BY DEF Init, Undecided
<1> QED
  BY <1>2, <1>3 DEF Session!Init

\* The negotiation implements the promise of NegotiatedSession.
THEOREM Refinement == Spec => ImplementsSession
<1> USE DEF Allowed, Takes, Verdict
<1>1. Init => Session!Init
  BY RefinementInit
<1>2. /\ TypeOK /\ ControlInv /\ CleartextIsLastResort /\ [Next]_vars
      => [Session!Next]_(Session!vars)
  BY RefinementStep
<1> QED
  BY <1>1, <1>2, TypeCorrect, CleartextLast, PTL DEF Spec, Session!Spec, ImplementsSession

------------------------------------------------------------------------------
(***************************************************************************)
(* SECURITY-1-1-1 beside the negotiation: the invariants of the session    *)
(* hold with the test in it, because the test makes no access of its own,  *)
(* and what the test says of the device is true of it.                     *)
(***************************************************************************)
\* What AuthNegotiationProofs shows of every state of a session.
SessionInv ==
  /\ TypeOK /\ ControlInv
  /\ SettledClientsCarryVerdict /\ RefusalInv /\ ClockInv /\ GenuineInv

\* A step of the session keeps them.
LEMMA SessionKept == SessionInv /\ [Next]_vars => SessionInv'
<1> SUFFICES ASSUME SessionInv, [Next]_vars PROVE SessionInv'
  OBVIOUS
<1>1. TypeOK' /\ ControlInv'
  BY TypeStep DEF SessionInv
<1>2. SettledClientsCarryVerdict'
  BY <1>1, ClientsStep DEF SessionInv
<1>3. RefusalInv' /\ ClockInv' /\ GenuineInv'
  BY RefusalStep, ClockStep, GenuineStep DEF SessionInv
<1> QED
  BY <1>1, <1>2, <1>3 DEF SessionInv

\* What the test's requests leave of the session: all but the count of losses.
Aside == UNCHANGED <<fixed, skew, camera, services, verdict, clock, control, exposed,
                     clockSteps>>

\* So does a lost request of the test.
LEMMA AsideKept ==
  ASSUME SessionInv, Aside, failures' \in 0..MaxFailures PROVE SessionInv'
<1>1. Candidate' = Candidate
  BY SameCandidate DEF Aside, control
<1>2. TypeOK'
  BY DEF SessionInv, Aside, TypeOK, OutsideOK, ClientsOK, RecordOK, FlagsOK,
         ControlOK, fixed, camera, verdict, clock, control
<1>3. ControlInv'
  BY DEF SessionInv, Aside, ControlInv, GuardInv, LoopInv, InLoop, fixed, verdict,
         control
<1>4. SettledClientsCarryVerdict'
  BY DEF SessionInv, Aside, SettledClientsCarryVerdict, Kwargs, camera, verdict
<1>5. RefusalInv' /\ ClockInv'
  BY <1>1 DEF SessionInv, Aside, RefusalInv, ClockInv, InLoop, fixed, camera,
              verdict, clock, control
<1>6. GenuineInv'
  <2>1. /\ UNCHANGED <<fixed, skew, dtDiff, accepted, clockSteps, pc, cand>>
        /\ mode' = mode
    BY DEF Aside, fixed, camera, verdict, control
  <2> QED
    BY <2>1, SameRefusals DEF SessionInv, GenuineInv, InLoop
<1> QED
  BY <1>2, <1>3, <1>4, <1>5, <1>6 DEF SessionInv

\* A step with the test in it is a step of the session, or aside of it.
LEMMA TestStep ==
  ASSUME SessionInv, [TNext]_tvars
  PROVE  [Next]_vars \/ (Aside /\ failures' \in 0..MaxFailures)
<1>1. CASE LoseProbe
  BY <1>1, NegotiationAssumption DEF LoseProbe, Aside, SessionInv, TypeOK, OutsideOK
<1>2. CASE ~LoseProbe
  BY <1>2 DEF TNext, SessionStep, BeginTest, Probe, EndTest, tvars
<1> QED
  BY <1>1, <1>2

\* It is initially so.
LEMMA SessionInit == Init => SessionInv
<1>1. Init => SettledClientsCarryVerdict
  BY DEF Init, SettledClientsCarryVerdict, Digest, Undecided
<1>2. Init => RefusalInv
  BY DEF Init, RefusalInv, InLoop
<1>3. Init => ClockInv
  BY NegotiationAssumption DEF Init, ClockInv
<1>4. Init => GenuineInv
  BY DEF Init, GenuineInv, InLoop, Undecided, Text
<1> QED
  BY <1>1, <1>2, <1>3, <1>4, TypeInit DEF SessionInv

LEMMA SessionStays == TSpec => []SessionInv
<1>1. TInit => SessionInv
  BY SessionInit DEF TInit
<1>2. SessionInv /\ [TNext]_tvars => SessionInv'
  BY TestStep, SessionKept, AsideKept
<1> QED
  BY <1>1, <1>2, PTL DEF TSpec

\* Everything the session promises it promises with the test in it too: an honest
\* fallback, cleartext as a last resort, a verdict that no refusal contradicts and
\* every client carries, and exhaustion only for good reason (dut.py:354-411,
\* auth.py:232-298).
THEOREM SessionInTest ==
  TSpec => [](/\ TypeOK /\ HonestFallback /\ CleartextIsLastResort
              /\ AcceptedNotRejected /\ SettledClientsCarryVerdict
              /\ ExhaustionIsGenuine)
<1>1. SessionInv => /\ TypeOK /\ HonestFallback /\ CleartextIsLastResort
                    /\ AcceptedNotRejected /\ SettledClientsCarryVerdict
                    /\ ExhaustionIsGenuine
  BY FallbackFollows, CleartextFollows, ExhaustionFollows
  DEF SessionInv, RefusalInv, AcceptedNotRejected
<1> QED
  BY <1>1, SessionStays, PTL

\* A settled session stays settled whatever the test sends.
THEOREM SettledInTest == TSpec => SettledForGood
<1>1. SessionInv /\ [TNext]_tvars
      => [accepted # Undecided
            => /\ UNCHANGED <<verdict, camera>>
               /\ \A s \in Service : services[s] # NoClient
                                       => services'[s] = services[s]]_vars
  BY TestStep, SettledStep DEF SessionInv, Aside
<1> QED
  BY <1>1, SessionStays, PTL DEF TSpec, SettledForGood

\* With the test in it the session still implements the promise of
\* NegotiatedSession: the requests of the test are none of the session's.
THEOREM RefinementInTest == TSpec => ImplementsSession
<1>1. TInit => Session!Init
  BY RefinementInit DEF TInit
<1>2. SessionInv /\ [TNext]_tvars => [Session!Next]_(Session!vars)
  <2> SUFFICES ASSUME SessionInv, [TNext]_tvars
               PROVE  [Session!Next]_(Session!vars)
    OBVIOUS
  <2>1. CASE [Next]_vars
    BY <2>1, RefinementStep, CleartextFollows DEF SessionInv
  <2>2. CASE Aside
    <3>1. UNCHANGED <<mode, device, skew, dtDiff, rejected, exposed, accepted>>
      BY <2>2 DEF Aside, fixed, camera, verdict
    <3> QED
      BY <3>1 DEF Session!vars, Candidates, Admits
  <2> QED
    BY <2>1, <2>2, TestStep
<1> QED
  BY <1>1, <1>2, SessionStays, PTL DEF TSpec, Session!Spec, ImplementsSession

------------------------------------------------------------------------------
Part == {"no_nonce", "no_created", "text", "full"}

TokenType ==
  [at : 0..5, failures : SUBSET Part, strict : SUBSET Insists, since : Nat,
   outcome : {"none", "running", "skipped", "raised", "passed", "failed"}]

Running == token.outcome = "running"
Done == token.outcome \in {"passed", "failed"}
\* The test is past its n-th request.
Past(n) == Done \/ (Running /\ token.at > n)

\* What is among the failures once the n-th request is judged, and what before.
Found(n) ==
  Probes[n] \in token.failures <=> Past(n) /\ Wrong(Probes[n], Accepts(Probes[n]))

\* The failures are those of the device as it is.
JudgedOK ==
  (Running \/ Done) /\ token.since = clockSteps =>
    /\ Past(1) => "auth" \in token.strict
    /\ \A n \in 2..5 : Found(n)

TokenInv ==
  /\ token \in TokenType /\ token.since <= clockSteps
  /\ Running => token.at \in 1..5
  /\ Done => (token.outcome = "passed" <=> token.failures = {})
  /\ JudgedOK

\* The requests, by name.
LEMMA ProbeNames ==
  /\ Probes[1] = "anonymous" /\ Probes[2] = "no_nonce" /\ Probes[3] = "no_created"
  /\ Probes[4] = "text" /\ Probes[5] = "full"
BY DEF Probes

\* While its clock is not set the device takes what it took.
LEMMA SameDevice ==
  ASSUME UNCHANGED <<device, skew, clockOffset>>, token'.strict = token.strict
  PROVE  \A probe : Accepts(probe)' = Accepts(probe)
BY DEF Accepts, Timely, Correction, Dist

\* A step that leaves the test where it is, or sets the clock under it.
LEMMA TestWaits ==
  ASSUME SessionInv, TokenInv, token' = token,
         \/ ~Running /\ ~Done /\ clockSteps' \in {clockSteps, clockSteps + 1}
         \/ clockSteps' = clockSteps + 1
         \/ UNCHANGED <<device, skew, clockOffset, clockSteps>>
  PROVE  TokenInv'
<1>1. clockSteps \in Nat
  BY DEF SessionInv, TypeOK, OutsideOK
<1>2. JudgedOK'
  <2>1. CASE ~Running /\ ~Done
    BY <2>1 DEF JudgedOK, Running, Done
  <2>2. CASE clockSteps' = clockSteps + 1
    BY <1>1, <2>2 DEF TokenInv, TokenType, JudgedOK
  <2>3. CASE UNCHANGED <<device, skew, clockOffset, clockSteps>>
    BY <2>3, SameDevice DEF TokenInv, JudgedOK, Found, Past, Running, Done, Wrong
  <2> QED
    BY <2>1, <2>2, <2>3
<1> QED
  BY <1>1, <1>2 DEF TokenInv, TokenType, Running, Done

\* One request, judged.
LEMMA ProbeKept ==
  ASSUME SessionInv, TokenInv, Probe PROVE TokenInv'
<1> DEFINE n == token.at
           probe == Probes[n]
           wrong == Wrong(probe, Accepts(probe))
           found == IF wrong THEN token.failures \cup {probe} ELSE token.failures
<1>1. /\ Running /\ ~Done /\ n \in 1..5 /\ token \in TokenType
      /\ UNCHANGED <<device, skew, clockOffset, clockSteps>>
  BY DEF Probe, TokenInv, Running, Done, vars, fixed, clock
<1>2. CASE probe = "anonymous" /\ wrong
  <2>1. token' = [token EXCEPT !.outcome = "skipped"]
    BY <1>2 DEF Probe
  <2> QED
    BY <1>1, <2>1 DEF TokenInv, TokenType, JudgedOK, Running, Done
<1>3. CASE ~(probe = "anonymous" /\ wrong) /\ n # 5
  <2>1. token' = [token EXCEPT !.failures = found, !.at = n + 1]
    BY <1>1, <1>3, ProbeNames DEF Probe
  <2>2. n = 1 => found = token.failures /\ ~wrong
    BY <1>3, ProbeNames
  <2>3. /\ token'.at = n + 1 /\ token'.failures = found
        /\ token'.strict = token.strict /\ token'.since = token.since
        /\ token'.outcome = "running" /\ token' \in TokenType
    <3>1. n # 1 => probe \in Part
      BY <1>1, ProbeNames DEF Part
    <3>2. found \in SUBSET Part
      BY <1>1, <2>2, <3>1 DEF TokenType
    <3>3. n + 1 \in 0..5
      BY <1>1, <1>3
    <3> HIDE DEF found
    <3> QED
      BY <1>1, <2>1, <3>2, <3>3 DEF TokenType, Running
  <2>4. \A p : Accepts(p)' = Accepts(p)
    BY <1>1, <2>3, SameDevice
  <2>5. ASSUME token.since = clockSteps
        PROVE  "auth" \in token.strict
    <3>1. CASE n = 1
      BY <2>2, <3>1, ProbeNames DEF Wrong, Accepts
    <3>2. CASE n # 1
      BY <1>1, <2>5, <3>2 DEF TokenInv, JudgedOK, Past
    <3> QED
      BY <3>1, <3>2
  <2>6. ASSUME token.since = clockSteps, NEW m \in 2..5
        PROVE  Found(m)'
    <3>1. Found(m) /\ (Past(m) <=> n > m)
      BY <1>1, <2>6 DEF TokenInv, JudgedOK, Past
    <3>2. Past(m)' <=> n + 1 > m
      BY <2>3 DEF Past, Running, Done
    <3>3. Wrong(Probes[m], Accepts(Probes[m]))' <=> Wrong(Probes[m], Accepts(Probes[m]))
      BY <2>4 DEF Wrong
    <3>4. Probes[m] = probe <=> m = n \/ (m = 1 /\ n = 1)
      BY <1>1, <2>6, ProbeNames
    <3>5. CASE m = n
      BY <2>3, <3>1, <3>2, <3>3, <3>5 DEF Found
    <3>6. CASE m # n
      <4>1. Probes[m] \in found <=> Probes[m] \in token.failures
        BY <2>6, <3>4, <3>6
      <4> QED
        BY <1>1, <2>3, <2>6, <3>1, <3>2, <3>3, <3>6, <4>1 DEF Found
    <3> QED
      BY <3>5, <3>6
  <2> QED
    BY <1>1, <1>3, <2>3, <2>5, <2>6 DEF TokenInv, JudgedOK, Running, Done
<1>4. CASE n = 5
  <2>1. token' = [token EXCEPT !.failures = found,
                    !.outcome = IF found = {} THEN "passed" ELSE "failed"]
    BY <1>4, ProbeNames DEF Probe
  <2>2. /\ token'.failures = found /\ token'.strict = token.strict
        /\ token'.since = token.since /\ token' \in TokenType
        /\ token'.outcome = IF found = {} THEN "passed" ELSE "failed"
    <3>1. found \in SUBSET Part
      BY <1>1, <1>4, ProbeNames DEF TokenType, Part
    <3> HIDE DEF found
    <3> QED
      BY <1>1, <2>1, <3>1 DEF TokenType
  <2>3. \A p : Accepts(p)' = Accepts(p)
    BY <1>1, <2>2, SameDevice
  <2>4. ASSUME token.since = clockSteps, NEW m \in 2..5
        PROVE  Found(m)'
    <3>1. Found(m) /\ (Past(m) <=> 5 > m) /\ Past(m)'
      BY <1>1, <1>4, <2>2, <2>4 DEF TokenInv, JudgedOK, Past, Done
    <3>2. Wrong(Probes[m], Accepts(Probes[m]))' <=> Wrong(Probes[m], Accepts(Probes[m]))
      BY <2>3 DEF Wrong
    <3>3. CASE m = 5
      BY <1>4, <2>2, <3>1, <3>2, <3>3 DEF Found
    <3>4. CASE m # 5
      <4>1. Probes[m] # probe
        BY <1>4, <2>4, <3>4, ProbeNames
      <4> QED
        BY <2>2, <2>4, <3>1, <3>2, <3>4, <4>1 DEF Found
    <3> QED
      BY <3>3, <3>4
  <2>5. token.since = clockSteps => "auth" \in token.strict
    BY <1>1, <1>4 DEF TokenInv, JudgedOK, Past
  <2> QED
    BY <1>1, <2>2, <2>4, <2>5 DEF TokenInv, JudgedOK, Running, Done
<1> QED
  BY <1>2, <1>3, <1>4

\* The failures are those of the device as it is, whatever happens beside the test.
LEMMA TokenKept == SessionInv /\ TokenInv /\ [TNext]_tvars => TokenInv'
<1> SUFFICES ASSUME SessionInv, TokenInv, [TNext]_tvars PROVE TokenInv'
  OBVIOUS
<1>0. clockSteps \in Nat
  BY DEF SessionInv, TypeOK, OutsideOK
<1>1. CASE SessionStep
  <2>1. CASE Idle
    <3>1. ~Running /\ ~Done
      BY <2>1 DEF Idle, NoTest, Running, Done
    <3>2. clockSteps' \in {clockSteps, clockSteps + 1}
      BY <1>1 DEF SessionStep, Next, Negotiate, Access, TryAuth, ApplyClockOffset,
                  Bind, SetDeviceClock
    <3> QED
      BY <1>1, <3>1, <3>2, TestWaits DEF SessionStep
  <2>2. CASE \E s \in Skew : SetDeviceClock(s)
    BY <1>1, <2>2, TestWaits DEF SessionStep, SetDeviceClock
  <2> QED
    BY <1>1, <2>1, <2>2 DEF SessionStep
<1>2. CASE BeginTest
  <2>1. PICK strict \in SUBSET Insists :
          token' = [NoTest EXCEPT !.strict = strict, !.since = clockSteps,
                      !.at = IF accepted = "none" THEN 0 ELSE 1,
                      !.outcome = IF accepted = "none" THEN "skipped" ELSE "running"]
    BY <1>2 DEF BeginTest
  <2>2. /\ token' \in TokenType /\ token'.failures = {}
        /\ token'.since = clockSteps /\ token'.outcome \in {"skipped", "running"}
        /\ token'.outcome = "running" => token'.at = 1
    <3>1. CASE accepted = "none"
      <4>1. token' = [at |-> 0, failures |-> {}, outcome |-> "skipped",
                      strict |-> strict, since |-> clockSteps]
        BY <2>1, <3>1 DEF NoTest
      <4> QED
        BY <1>0, <4>1 DEF TokenType
    <3>2. CASE accepted # "none"
      <4>1. token' = [at |-> 1, failures |-> {}, outcome |-> "running",
                      strict |-> strict, since |-> clockSteps]
        BY <2>1, <3>2 DEF NoTest
      <4> QED
        BY <1>0, <4>1 DEF TokenType
    <3> QED
      BY <3>1, <3>2
  <2>3. clockSteps' = clockSteps
    BY <1>2 DEF BeginTest, vars
  <2>4. \A n \in 1..5 : ~Past(n)'
    BY <2>2 DEF Past, Running, Done
  <2> QED
    BY <1>0, <2>2, <2>3, <2>4 DEF TokenInv, JudgedOK, Found, Running, Done
<1>3. CASE Probe
  BY <1>3, ProbeKept
<1>4. CASE LoseProbe
  <2>1. /\ token' = [token EXCEPT !.outcome = "raised"]
        /\ clockSteps' = clockSteps
    BY <1>4 DEF LoseProbe
  <2> QED
    BY <2>1 DEF TokenInv, TokenType, JudgedOK, Running, Done
<1>5. CASE EndTest
  <2>1. token' = NoTest /\ clockSteps' = clockSteps
    BY <1>5 DEF EndTest, vars
  <2> QED
    BY <1>0, <2>1 DEF TokenInv, TokenType, NoTest, JudgedOK, Running, Done
<1>6. CASE UNCHANGED tvars
  BY <1>6, TestWaits DEF tvars, vars, fixed, clock
<1> QED
  BY <1>1, <1>2, <1>3, <1>4, <1>5, <1>6 DEF TNext

\* What SECURITY-1-1-1 says of a device is so, while nobody sets the clock during
\* the test; of a device that takes a whole token it says otherwise only where the
\* clock was never measured or was set since (auth.py:250-298).
THEOREM TokenFair == TSpec => []TokenVerdictIsFair
<1>1. TInit => TokenInv
  BY NegotiationAssumption
  DEF TInit, Init, NoTest, TokenInv, TokenType, JudgedOK, Running, Done
<1>2. SessionInv /\ TokenInv => TokenVerdictIsFair
  <2> SUFFICES ASSUME SessionInv, TokenInv, token.since = clockSteps, Done
               PROVE  TokenVerdictIsFair
    BY DEF TokenVerdictIsFair, Done
  <2>1. "auth" \in token.strict
    BY DEF TokenInv, JudgedOK, Past
  <2>2. \A n \in 2..5 :
          Probes[n] \in token.failures <=> Wrong(Probes[n], Accepts(Probes[n]))
    BY DEF TokenInv, JudgedOK, Found, Past
  <2>3. /\ "no_nonce" \in token.failures
             <=> device.digest /\ Timely /\ "nonce" \notin token.strict
        /\ "no_created" \in token.failures
             <=> device.digest /\ "created" \notin token.strict
        /\ "text" \in token.failures <=> device.text
        /\ "full" \in token.failures <=> ~(device.digest /\ Timely)
    <3>1. device.digest \in BOOLEAN /\ device.text \in BOOLEAN
      BY DEF SessionInv, TypeOK, OutsideOK, DevicePolicy
    <3>2. /\ "no_nonce" \in token.failures <=> Wrong("no_nonce", Accepts("no_nonce"))
          /\ "no_created" \in token.failures
               <=> Wrong("no_created", Accepts("no_created"))
          /\ "text" \in token.failures <=> Wrong("text", Accepts("text"))
          /\ "full" \in token.failures <=> Wrong("full", Accepts("full"))
      <4>1. 2 \in 2..5 /\ 3 \in 2..5 /\ 4 \in 2..5 /\ 5 \in 2..5
        OBVIOUS
      <4> QED
        BY <2>2, <4>1, ProbeNames
    <3>3. /\ Accepts("no_nonce")
               <=> device.digest /\ Timely /\ "nonce" \notin token.strict
          /\ Accepts("no_created")
               <=> device.digest /\ "created" \notin token.strict
          /\ Accepts("text") <=> device.text
          /\ Accepts("full") <=> device.digest /\ Timely
      BY <2>1 DEF Accepts
    <3>4. \A p : (p # "full" => (Wrong(p, Accepts(p)) <=> Accepts(p)))
      BY <3>1 DEF Wrong, Accepts, Timely
    <3>5. Wrong("full", Accepts("full")) <=> ~Accepts("full")
      BY <3>1 DEF Wrong, Accepts, Timely
    <3> QED
      BY <3>2, <3>3, <3>4, <3>5
  <2>4. ~Timely => /\ device.fresh /\ Dist(skew, Correction) > Window
                   /\ clockOffset = NotMeasured \/ clockSteps > 0
    <3>1. /\ skew \in Int /\ clockSteps \in Nat /\ Correction \in Int
          /\ Tolerance \in Nat /\ Window \in Nat /\ Tolerance <= Window
      BY NegotiationAssumption
      DEF SessionInv, TypeOK, OutsideOK, RecordOK, Correction
    <3>2. clockOffset # NotMeasured /\ clockSteps = 0
            => Dist(Correction, skew) <= Window
      BY <3>1 DEF SessionInv, ClockInv, Correction, Dist
    <3> QED
      BY <3>1, <3>2 DEF Timely, Dist
  <2>5. token.outcome = "passed" => token.failures = {}
    BY DEF TokenInv, Done
  <2> QED
    BY <2>1, <2>3, <2>4, <2>5 DEF TokenVerdictIsFair, Insists
<1> QED
  BY <1>1, <1>2, TokenKept, SessionStays, PTL DEF TSpec
==============================================================================
