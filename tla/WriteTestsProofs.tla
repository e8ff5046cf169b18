--------------------------- MODULE WriteTestsProofs ---------------------------
(***************************************************************************)
(* Of the tests that change the device, for any suite, any number of       *)
(* workers side by side, and any losses, Ctrl-Cs and deaths: that a reboot *)
(* test which passes has seen its reboot, that a motor left running and a  *)
(* setting not put back have an excuse, that a failure is the device's     *)
(* fault, or an accident, or another worker's doing, and that a pass is    *)
(* the device's own.                                                       *)
(*                                                                         *)
(* The first argument follows the script: past SystemReboot the device has *)
(* accepted, or has gone down for this test; past the grace period a       *)
(* device that is not slow can only have done the latter.  The second      *)
(* follows the finally: until the Stop has been carried out, a worker has  *)
(* it ahead of it.  So does the third, for what a test restores, which is  *)
(* what it has read, which is what the run found.  The last follows what a *)
(* worker can conclude from the answers it had, while nobody disturbs it.  *)
(***************************************************************************)
EXTENDS WriteTests, ElementLemmas

Reboots == {"system_reboot", "hello_after_reboot"}
Fields == {"test", "at", "pending", "saved", "tries"}

\* What holds of every worker's job.
Shape ==
  /\ DOMAIN job = Worker /\ DOMAIN verdict = Suite
  /\ \A w \in Worker : DOMAIN job[w] = Fields

\* Where a reboot test is, and what its device has done by then.
RebootOK(w) ==
  LET j == job[w] IN
  j.test \in Reboots =>
    /\ j.pending = "none"
    /\ j.at \in 1..Len(Script[j.test])
    /\ "slow_reboot" \notin traits =>
         /\ j.at = 3 => phase = "accepted" \/ j.test \in wentDown
         /\ j.at > 3 => j.test \in wentDown

RebootInv ==
  /\ Shape
  /\ \A w \in Worker : RebootOK(w)
  /\ RecoveredMeansRebooted

\* The scripts of the two reboot tests.
LEMMA RebootScripts ==
  ASSUME NEW t \in Reboots
  PROVE  /\ Len(Script[t]) = (IF t = "system_reboot" THEN 5 ELSE 4)
         /\ Script[t][1].do \in {"identify", "listen"}
         /\ Script[t][2].do = "reboot" /\ Script[t][3].do = "grace"
         /\ Script[t][4].do \in {"poll", "await_hello"}
         /\ t = "system_reboot" => Script[t][5].do = "compare"
         /\ \A i \in 1..Len(Script[t]) :
              Script[t][i].fin = 0 /\ Script[t][i].absorbs = "nothing"
<1>1. CASE t = "system_reboot"
  <2>1. Script[t] = SystemReboot
    BY <1>1 DEF Script
  <2> QED
    BY <1>1, <2>1 DEF SystemReboot, Step
<1>2. CASE t = "hello_after_reboot"
  <2>1. Script[t] = HelloAfterReboot
    BY <1>2 DEF Script
  <2> QED
    BY <1>2, <2>1 DEF HelloAfterReboot, Step
<1> QED
  BY <1>1, <1>2 DEF Reboots

------------------------------------------------------------------------------
\* What a step makes of the job of its worker: it ends, goes on, goes to its
\* finally, or tries again.
Ends(w) == \E o : End(w, o)
GoesOn(w) ==
  \E s : job' = [job EXCEPT ![w].at = @ + 1, ![w].saved = s] /\ verdict' = verdict
GoesTo(w) ==
  \E f : job' = [job EXCEPT ![w].at = f, ![w].pending = "failed"] /\ verdict' = verdict
Retries(w) == job' = [job EXCEPT ![w].tries = @ + 1] /\ verdict' = verdict

\* Whatever it makes, it is still a job, of this test or of none, and no other
\* worker's.
LEMMA JobStep ==
  ASSUME Shape, NEW w \in Worker,
         Ends(w) \/ GoesOn(w) \/ GoesTo(w) \/ Retries(w)
  PROVE  /\ Shape'
         /\ \A v \in Worker \ {w} : job'[v] = job[v]
         /\ job'[w] = NoJob \/ job'[w].test = job[w].test
         /\ \A t \in Suite \ {job[w].test} : verdict'[t] = verdict[t]
<1>1. CASE Ends(w)
  BY <1>1 DEF Ends, End, Shape, NoJob, Fields
<1>2. CASE GoesOn(w)
  BY <1>2 DEF GoesOn, Shape, Fields
<1>3. CASE GoesTo(w)
  BY <1>3 DEF GoesTo, Shape, Fields
<1>4. CASE Retries(w)
  BY <1>4 DEF Retries, Shape, Fields
<1> QED
  BY <1>1, <1>2, <1>3, <1>4

\* A step that goes well leads to the next, or ends the test.
LEMMA ProceedStep ==
  ASSUME NEW w \in Worker, NEW s, Proceed(w, s)
  PROVE  Ends(w) \/ GoesOn(w)
  BY DEF Proceed, Ends, GoesOn

\* An exception may lead to the finally too.
LEMMA RaiseStep ==
  ASSUME NEW w \in Worker, NEW what, Raise(w, what)
  PROVE  Ends(w) \/ GoesOn(w) \/ GoesTo(w)
<1>1. CASE Proceed(w, job[w].saved)
  BY <1>1, ProceedStep
<1>2. CASE End(w, "failed") \/ End(w, "skipped")
  BY <1>2 DEF Ends
<1>3. CASE /\ job' = [job EXCEPT ![w].at = Now(w).fin, ![w].pending = "failed"]
           /\ UNCHANGED verdict
  BY <1>3 DEF GoesTo
<1> QED
  BY <1>1, <1>2, <1>3 DEF Raise

\* In a reboot test nothing is in a try and nothing is absorbed.
LEMMA ProceedReboot ==
  ASSUME NEW w \in Worker, RebootOK(w), job[w].test \in Reboots, NEW s, Proceed(w, s)
  PROVE  \/ End(w, "passed") /\ job[w].at = Len(Script[job[w].test])
         \/ GoesOn(w) /\ job[w].at # Len(Script[job[w].test])
  BY DEF RebootOK, Proceed, GoesOn

\* So every exception ends it.
LEMMA RaiseReboot ==
  ASSUME NEW w \in Worker, RebootOK(w), job[w].test \in Reboots, NEW what,
         Raise(w, what)
  PROVE  End(w, "failed")
<1>1. Now(w).fin = 0 /\ Now(w).absorbs = "nothing"
  BY RebootScripts DEF RebootOK, Now
<1>2. ~Caught(Now(w), what)
  BY <1>1 DEF Caught
<1> QED
  BY <1>1, <1>2 DEF Raise

\* The device forgets no reboot it accepted.
Frame ==
  /\ traits' = traits /\ wentDown' = wentDown
  /\ phase = "accepted" => phase' = "accepted"

\* What a step may make of a reboot test.
RebootStep(w) ==
  LET at == job[w].at IN
  \/ \E o : o # "passed" /\ End(w, o)
  \/ End(w, "passed") /\ at > 3
  \/ /\ GoesOn(w) /\ at # Len(Script[job[w].test])
     /\ at = 2 => phase' = "accepted"
     /\ at = 3 => "slow_reboot" \in traits \/ phase # "accepted"
  \/ Retries(w)

\* A worker with another test does not touch those of the others.
LEMMA OtherJob ==
  ASSUME RebootInv, NEW w \in Worker, job[w].test \notin Reboots, Frame,
         Ends(w) \/ GoesOn(w) \/ GoesTo(w) \/ Retries(w)
  PROVE  RebootInv'
<1>1. /\ Shape'
      /\ \A v \in Worker \ {w} : job'[v] = job[v]
      /\ job'[w] = NoJob \/ job'[w].test = job[w].test
      /\ \A t \in Suite \ {job[w].test} : verdict'[t] = verdict[t]
  BY JobStep DEF RebootInv
<1>2. job'[w].test \notin Reboots
  BY <1>1 DEF NoJob, Reboots
<1>3. \A v \in Worker : RebootOK(v)'
  BY <1>1, <1>2 DEF RebootInv, RebootOK, Frame
<1>4. RecoveredMeansRebooted'
  BY <1>1 DEF RebootInv, RecoveredMeansRebooted, Frame, Reboots
<1> QED
  BY <1>1, <1>3, <1>4 DEF RebootInv

\* A reboot test gets as far as its device did.
LEMMA RebootJob ==
  ASSUME RebootInv, NEW w \in Worker, job[w].test \in Reboots, Frame, RebootStep(w)
  PROVE  RebootInv'
<1>1. /\ Shape'
      /\ \A v \in Worker \ {w} : job'[v] = job[v]
      /\ \A t \in Suite \ {job[w].test} : verdict'[t] = verdict[t]
  BY JobStep DEF RebootInv, RebootStep, Ends
<1>2. DOMAIN job = Worker /\ DOMAIN job[w] = Fields /\ DOMAIN verdict = Suite
  BY DEF RebootInv, Shape
<1>3. /\ job[w].pending = "none" /\ job[w].at \in 1..Len(Script[job[w].test])
      /\ Len(Script[job[w].test]) \in {4, 5}
      /\ "slow_reboot" \notin traits =>
           /\ job[w].at = 3 => phase = "accepted" \/ job[w].test \in wentDown
           /\ job[w].at > 3 => job[w].test \in wentDown
  BY RebootScripts DEF RebootInv, RebootOK
<1>4. RebootOK(w)'
  <2>1. CASE \E o : End(w, o)
    <3>1. job'[w].test = "none"
      BY <1>2, <2>1 DEF End, NoJob
    <3> QED
      BY <3>1 DEF RebootOK, Reboots
  <2>2. CASE Retries(w)
    <3>1. /\ job'[w].test = job[w].test /\ job'[w].at = job[w].at
          /\ job'[w].pending = job[w].pending
      BY <1>2, <2>2 DEF Retries, Fields
    <3> QED
      BY <1>3, <3>1 DEF RebootOK, Frame
  <2>3. CASE /\ GoesOn(w) /\ job[w].at # Len(Script[job[w].test])
             /\ job[w].at = 2 => phase' = "accepted"
             /\ job[w].at = 3 => "slow_reboot" \in traits \/ phase # "accepted"
    <3>1. /\ job'[w].test = job[w].test /\ job'[w].at = job[w].at + 1
          /\ job'[w].pending = job[w].pending
      BY <1>2, <2>3 DEF GoesOn, Fields
    <3> QED
      BY <1>3, <2>3, <3>1 DEF RebootOK, Frame
  <2> QED
    BY <2>1, <2>2, <2>3 DEF RebootStep
<1>5. \A v \in Worker : RebootOK(v)'
  BY <1>1, <1>4 DEF RebootInv, RebootOK, Frame
<1>6. RecoveredMeansRebooted'
  <2>1. ASSUME job[w].test \in Suite, verdict'[job[w].test] = "passed",
               "slow_reboot" \notin traits
        PROVE  job[w].test \in wentDown
    <3>1. CASE verdict' = verdict
      BY <2>1, <3>1 DEF RebootInv, RecoveredMeansRebooted, Reboots
    <3>2. CASE \E o : o # "passed" /\ End(w, o)
      BY <1>2, <2>1, <3>2 DEF End
    <3>3. CASE job[w].at > 3
      BY <1>3, <2>1, <3>3
    <3> QED
      BY <3>1, <3>2, <3>3 DEF RebootStep, GoesOn, Retries
  <2> QED
    BY <1>1, <2>1 DEF RebootInv, RecoveredMeansRebooted, Frame, Reboots
<1> QED
  BY <1>1, <1>5, <1>6 DEF RebootInv

------------------------------------------------------------------------------
\* A step that goes well, provided that the two that matter do what they are for.
LEMMA WorkerProceeds ==
  ASSUME RebootInv, NEW w \in Worker, NEW s, Proceed(w, s), Frame,
         job[w].test \in Reboots =>
           /\ job[w].at = 2 => phase' = "accepted"
           /\ job[w].at = 3 => "slow_reboot" \in traits \/ phase # "accepted"
  PROVE  RebootInv'
<1>1. CASE job[w].test \notin Reboots
  BY <1>1, ProceedStep, OtherJob
<1>2. CASE job[w].test \in Reboots
  <2>1. RebootOK(w) /\ Len(Script[job[w].test]) > 3
    BY <1>2, RebootScripts DEF RebootInv
  <2>2. RebootStep(w)
    BY <1>2, <2>1, ProceedReboot DEF RebootStep
  <2> QED
    BY <1>2, <2>2, RebootJob
<1> QED
  BY <1>1, <1>2

\* A step that raises.
LEMMA WorkerRaises ==
  ASSUME RebootInv, NEW w \in Worker, NEW what, Raise(w, what), Frame
  PROVE  RebootInv'
<1>1. CASE job[w].test \notin Reboots
  BY <1>1, RaiseStep, OtherJob
<1>2. CASE job[w].test \in Reboots
  <2>1. End(w, "failed")
    BY <1>2, RaiseReboot DEF RebootInv
  <2>2. RebootStep(w)
    BY <2>1 DEF RebootStep
  <2> QED
    BY <1>2, <2>2, RebootJob
<1> QED
  BY <1>1, <1>2

\* A test that ends otherwise than by passing.
LEMMA WorkerEnds ==
  ASSUME RebootInv, NEW w \in Worker, NEW o, o # "passed", End(w, o), Frame
  PROVE  RebootInv'
<1>1. CASE job[w].test \notin Reboots
  BY <1>1, OtherJob DEF Ends
<1>2. CASE job[w].test \in Reboots
  BY <1>2, RebootJob DEF RebootStep
<1> QED
  BY <1>1, <1>2

\* One more attempt.
LEMMA WorkerRetries ==
  ASSUME RebootInv, NEW w \in Worker, Retries(w), Frame
  PROVE  RebootInv'
<1>1. CASE job[w].test \notin Reboots
  BY <1>1, OtherJob
<1>2. CASE job[w].test \in Reboots
  BY <1>2, RebootJob DEF RebootStep
<1> QED
  BY <1>1, <1>2

\* What a step of a reboot test does tells where it is.
LEMMA Place ==
  ASSUME RebootInv, NEW w \in Worker, job[w].test \in Reboots
  PROVE  /\ job[w].at = 2 <=> Now(w).do = "reboot"
         /\ job[w].at = 3 <=> Now(w).do = "grace"
         /\ Now(w).do \in {"identify", "listen", "reboot", "grace", "poll",
                           "await_hello", "compare"}
<1> DEFINE s == Script[job[w].test]
<1>1. job[w].at \in 1..Len(s) /\ Now(w) = s[job[w].at]
  BY DEF RebootInv, RebootOK, Now
<1>2. /\ Len(s) \in {4, 5} /\ (Len(s) = 5 => s[5].do = "compare")
      /\ s[1].do \in {"identify", "listen"} /\ s[2].do = "reboot"
      /\ s[3].do = "grace" /\ s[4].do \in {"poll", "await_hello"}
  <2>1. /\ s[1].do \in {"identify", "listen"} /\ s[2].do = "reboot"
        /\ s[3].do = "grace" /\ s[4].do \in {"poll", "await_hello"}
    BY RebootScripts
  <2>2. CASE job[w].test = "system_reboot"
    BY <2>1, <2>2, RebootScripts
  <2>3. CASE job[w].test = "hello_after_reboot"
    <3>1. Len(s) = 4
      BY <2>3, RebootScripts
    <3> QED
      BY <2>1, <3>1
  <2> QED
    BY <2>2, <2>3 DEF Reboots
<1> HIDE DEF s
<1>3. job[w].at \in 1..5 /\ (job[w].at = 5 => Len(s) = 5)
  BY <1>1, <1>2
<1> QED
  BY <1>1, <1>2, <1>3

\* Whether the device heard the request or not, it forgets no reboot.
LEMMA HeardFrame ==
  ASSUME NEW w \in Worker, Heard(w) \/ MaybeHeard(w), traits' = traits,
         wentDown' = wentDown
  PROVE  Frame
  BY DEF Heard, MaybeHeard, Frame, box

\* A test begins at its first step.
LEMMA StartReboot ==
  ASSUME RebootInv, NEW w \in Worker, NEW t \in Suite, Start(w, t)
  PROVE  RebootInv'
<1>1. /\ job' = [job EXCEPT ![w] = [NoJob EXCEPT !.test = t, !.at = 1]]
      /\ verdict' = [verdict EXCEPT ![t] = "running"]
      /\ phase' = phase /\ traits' = traits /\ wentDown' = wentDown
  BY DEF Start, outside, box, history
<1>2. /\ DOMAIN job = Worker /\ DOMAIN verdict = Suite
      /\ \A v \in Worker : DOMAIN job[v] = Fields
  BY DEF RebootInv, Shape
<1>3. /\ DOMAIN job'[w] = Fields /\ job'[w].test = t /\ job'[w].at = 1
      /\ job'[w].pending = "none"
  BY <1>1, <1>2 DEF NoJob, Fields
<1>4. Shape'
  BY <1>1, <1>2, <1>3 DEF Shape
<1>5. RebootOK(w)'
  <2>1. t \in Reboots => 1 \in 1..Len(Script[t])
    BY RebootScripts
  <2> QED
    BY <1>3, <2>1 DEF RebootOK
<1>6. \A v \in Worker \ {w} : RebootOK(v)'
  BY <1>1, <1>2 DEF RebootInv, RebootOK
<1>7. RecoveredMeansRebooted'
  BY <1>1, <1>2 DEF RebootInv, RecoveredMeansRebooted
<1> QED
  BY <1>4, <1>5, <1>6, <1>7 DEF RebootInv

\* An answer to SystemReboot is its acceptance.
LEMMA AnsweredReboot ==
  ASSUME RebootInv, NEW w \in Worker, Answered(w)
  PROVE  RebootInv'
<1>1. Now(w).do \notin Waits /\ traits' = traits /\ wentDown' = wentDown
  BY DEF Answered, outside
<1>2. CASE /\ Refused(Now(w)) /\ UNCHANGED <<box, disturbed>>
           /\ Now(w).do = "command" /\ Proceed(w, "none")
  <2>1. Frame
    BY <1>1, <1>2 DEF Frame, box
  <2>2. job[w].test \notin Reboots
    BY <1>2, Place
  <2> QED
    BY <1>2, <2>1, <2>2, WorkerProceeds
<1>3. CASE UNCHANGED <<box, disturbed>> /\ Raise(w, "fault")
  <2>1. Frame
    BY <1>1, <1>3 DEF Frame, box
  <2> QED
    BY <1>3, <2>1, WorkerRaises
<1>4. CASE Heard(w) /\ \E s : Proceed(w, s)
  <2>1. Frame
    BY <1>1, <1>4, HeardFrame
  <2>2. job[w].test \in Reboots =>
          /\ job[w].at = 2 => phase' = "accepted"
          /\ job[w].at # 3
    BY <1>1, <1>4, Place DEF Heard, Waits
  <2> QED
    BY <1>4, <2>1, <2>2, WorkerProceeds
<1>5. CASE Heard(w) /\ Raise(w, "assertion")
  <2>1. Frame
    BY <1>1, <1>5, HeardFrame
  <2> QED
    BY <1>5, <2>1, WorkerRaises
<1> QED
  BY <1>2, <1>3, <1>4, <1>5 DEF Answered

\* What is lost, interrupted or unreachable raises; a worker that dies ends its
\* test.
LEMMA BrokenReboot ==
  ASSUME RebootInv, NEW w \in Worker,
         Lose(w) \/ Interrupt(w) \/ Unreachable(w) \/ Crash(w) \/ SkipTest(w)
  PROVE  RebootInv'
<1>1. CASE Lose(w)
  <2>1. Frame /\ Raise(w, "lost")
    BY <1>1, HeardFrame DEF Lose, outside
  <2> QED
    BY <2>1, WorkerRaises
<1>2. CASE Interrupt(w)
  <2>1. Frame /\ Raise(w, "interrupt")
    BY <1>2, HeardFrame DEF Interrupt, outside
  <2> QED
    BY <2>1, WorkerRaises
<1>3. CASE Unreachable(w)
  <2>1. Frame /\ Raise(w, "lost")
    BY <1>3 DEF Unreachable, Frame, outside, box
  <2> QED
    BY <2>1, WorkerRaises
<1>4. CASE Crash(w)
  <2>1. Frame /\ End(w, "crashed")
    BY <1>4 DEF Crash, Frame, outside, box
  <2> QED
    BY <2>1, WorkerEnds
<1>5. CASE SkipTest(w)
  <2>1. Frame /\ End(w, "skipped")
    BY <1>5 DEF SkipTest, Frame, outside, box, history
  <2> QED
    BY <2>1, WorkerEnds
<1> QED
  BY <1>1, <1>2, <1>3, <1>4, <1>5

\* Past the grace period a device that is not slow has gone down.
LEMMA WaitingReboot ==
  ASSUME RebootInv, NEW w \in Worker, Wait(w) \/ Grace(w) \/ Listen(w)
  PROVE  RebootInv'
<1>1. Frame /\ \E s : Proceed(w, s)
  BY DEF Wait, Grace, Listen, Frame, outside, box, history
<1>2. CASE Wait(w) \/ Listen(w)
  <2>1. job[w].test \in Reboots => job[w].at \notin {2, 3}
    BY <1>2, Place DEF Wait, Listen
  <2> QED
    BY <1>1, <2>1, WorkerProceeds
<1>3. CASE Grace(w)
  <2>1. job[w].test \in Reboots =>
          /\ job[w].at # 2
          /\ "slow_reboot" \in traits \/ phase # "accepted"
    BY <1>3, Place DEF Grace
  <2> QED
    BY <1>1, <2>1, WorkerProceeds
<1> QED
  BY <1>2, <1>3

\* The recovery loops come after it.
LEMMA PollingReboot ==
  ASSUME RebootInv, NEW w \in Worker, Poll(w) \/ AwaitHello(w)
  PROVE  RebootInv'
<1>1. Frame /\ Now(w).do \in {"poll", "await_hello"}
  BY DEF Poll, AwaitHello, Frame, outside, box
<1>2. \/ \E s : Proceed(w, s)
      \/ Raise(w, "assertion")
      \/ End(w, "skipped")
      \/ Retries(w)
  BY DEF Poll, AwaitHello, JudgeHellos, TryAgain, Retries
<1>3. job[w].test \in Reboots => job[w].at \notin {2, 3}
  BY <1>1, Place
<1> QED
  BY <1>1, <1>2, <1>3, WorkerProceeds, WorkerRaises, WorkerEnds, WorkerRetries

\* The device goes down for every test that has asked it to.
LEMMA GoDownReboot ==
  ASSUME RebootInv, GoDown
  PROVE  RebootInv'
<1>1. /\ job' = job /\ verdict' = verdict /\ traits' = traits
      /\ wentDown' = wentDown \cup {job[w].test : w \in {v \in Worker : Asked(v)}}
  BY DEF GoDown, outside
<1>2. ASSUME NEW w \in Worker
      PROVE  RebootOK(w)'
  <2>1. CASE job[w].test \in Reboots /\ job[w].at = 3
    <3>1. Busy(w)
      BY <2>1 DEF Busy, NoJob, Reboots
    <3>2. Asked(w)
      BY <2>1, <3>1, RebootScripts DEF Asked
    <3> QED
      BY <1>1, <2>1, <3>2 DEF RebootInv, RebootOK
  <2>2. CASE ~(job[w].test \in Reboots /\ job[w].at = 3)
    BY <1>1, <2>2 DEF RebootInv, RebootOK
  <2> QED
    BY <2>1, <2>2
<1>3. Shape' /\ RecoveredMeansRebooted'
  BY <1>1 DEF RebootInv, Shape, RecoveredMeansRebooted
<1> QED
  BY <1>2, <1>3 DEF RebootInv

\* What leaves the tests alone, and comes up or stays.
LEMMA QuietReboot ==
  ASSUME RebootInv, job' = job, verdict' = verdict, Frame \/ ComeUp,
         traits' = traits, wentDown' = wentDown
  PROVE  RebootInv'
<1>1. phase = "accepted" => phase' = "accepted"
  BY DEF Frame, ComeUp
<1>2. \A w \in Worker : RebootOK(w)'
  BY <1>1 DEF RebootInv, RebootOK
<1>3. Shape' /\ RecoveredMeansRebooted'
  BY DEF RebootInv, Shape, RecoveredMeansRebooted
<1> QED
  BY <1>2, <1>3 DEF RebootInv

\* It holds at the start.
LEMMA InitReboot == Init => RebootInv
<1> SUFFICES ASSUME Init
             PROVE  RebootInv
  OBVIOUS
<1>1. Shape
  BY DEF Init, Shape, NoJob, Fields
<1>2. \A w \in Worker : RebootOK(w)
  BY DEF Init, RebootOK, NoJob, Reboots
<1>3. RecoveredMeansRebooted
  BY DEF Init, RecoveredMeansRebooted
<1> QED
  BY <1>1, <1>2, <1>3 DEF RebootInv

\* And every step keeps it.
LEMMA NextReboot == RebootInv /\ [Next]_vars => RebootInv'
<1> SUFFICES ASSUME RebootInv, [Next]_vars
             PROVE  RebootInv'
  OBVIOUS
<1>1. ASSUME NEW w \in Worker, NEW t \in Suite, Start(w, t)
      PROVE  RebootInv'
  BY <1>1, StartReboot
<1>2. ASSUME NEW w \in Worker,
             \/ Answered(w) \/ SkipTest(w) \/ Lose(w) \/ Interrupt(w)
             \/ Unreachable(w) \/ Crash(w) \/ Wait(w) \/ Grace(w) \/ Listen(w)
             \/ Poll(w) \/ AwaitHello(w)
      PROVE  RebootInv'
  BY <1>2, AnsweredReboot, BrokenReboot, WaitingReboot, PollingReboot
<1>3. CASE GoDown
  BY <1>3, GoDownReboot
<1>4. CASE (\E a \in Axis : MotionEnds(a)) \/ ComeUp \/ ForeignHello \/ UNCHANGED vars
  <2>1. /\ job' = job /\ verdict' = verdict /\ traits' = traits
        /\ wentDown' = wentDown /\ (Frame \/ ComeUp)
    BY <1>4 DEF MotionEnds, ComeUp, ForeignHello, Frame, vars, outside, box,
                history
  <2> QED
    BY <2>1, QuietReboot
<1> QED
  BY <1>1, <1>2, <1>3, <1>4 DEF Next, Terminated

\* A reboot test that passes on a device that is not slow has seen it go down
\* after its own request (reboot.py:84-89, 154-172), whatever the other workers
\* do meanwhile.
THEOREM RebootSeen == Spec => []RecoveredMeansRebooted
<1>1. Init => RebootInv
  BY InitReboot
<1>2. RebootInv /\ [Next]_vars => RebootInv'
  BY NextReboot
<1>3. RebootInv => RecoveredMeansRebooted
  BY DEF RebootInv
<1> QED
  BY <1>1, <1>2, <1>3, PTL DEF Spec

------------------------------------------------------------------------------
(***************************************************************************)
(* That no motor is left running.  Whatever starts one is in a try that    *)
(* ends with a Stop; until that Stop has been carried out a worker has it  *)
(* ahead of it.                                                            *)
(***************************************************************************)
\* A step that starts a motor is in a try that ends with a Stop, and so is every
\* step from there to the Stop; nothing on the way is absorbed, and a finally is in
\* no try.
StopsIn(s) ==
  /\ Len(s) \in Nat /\ Len(s) > 0 /\ DOMAIN s = 1..Len(s)
  /\ \A i \in 1..Len(s) :
       /\ s[i].fin \in 0..Len(s)
       /\ s[i].fin # 0 => s[s[i].fin].fin = 0
       /\ s[i].do \in {"move", "timed"} => s[i].fin # 0 /\ s[s[i].fin].do = "stop"
       /\ s[i].do = "stop" => s[i].on = "motor"
       /\ s[i].fin # 0 /\ s[s[i].fin].do = "stop" =>
            /\ i < Len(s) /\ s[i].absorbs = "nothing"
            /\ s[i].do \in {"move", "timed", "wait", "idle"}
            /\ i + 1 = s[i].fin \/ s[i + 1].fin = s[i].fin

\* Every script is of that kind.
LEMMA ScriptsStop == ASSUME NEW t \in DOMAIN Script PROVE StopsIn(Script[t])
<1> USE DEF StopsIn, Step, InTry, Absorbing, Survey, Stop, FocusOptions
<1>1. CASE t = "set_configuration"
  <2>1. Script[t] = SetConfiguration
    BY <1>1 DEF Script
  <2>2. StopsIn(SetConfiguration)
    BY DEF SetConfiguration
  <2> HIDE DEF StopsIn
  <2> QED
    BY <2>1, <2>2
<1>2. CASE t = "consistency"
  <2>1. Script[t] = Consistency
    BY <1>2 DEF Script
  <2>2. StopsIn(Consistency)
    BY DEF Consistency
  <2> HIDE DEF StopsIn
  <2> QED
    BY <2>1, <2>2
<1>3. CASE t = "absolute_move"
  <2>1. Script[t] = AbsoluteMove
    BY <1>3 DEF Script
  <2>2. StopsIn(AbsoluteMove)
    BY DEF AbsoluteMove
  <2> HIDE DEF StopsIn
  <2> QED
    BY <2>1, <2>2
<1>4. CASE t = "relative_move"
  <2>1. Script[t] = RelativeMove
    BY <1>4 DEF Script
  <2>2. StopsIn(RelativeMove)
    BY DEF RelativeMove
  <2> HIDE DEF StopsIn
  <2> QED
    BY <2>1, <2>2
<1>5. CASE t = "continuous_move_and_stop"
  <2>1. Script[t] = ContinuousMoveAndStop
    BY <1>5 DEF Script
  <2>2. StopsIn(ContinuousMoveAndStop)
    BY DEF ContinuousMoveAndStop
  <2> HIDE DEF StopsIn
  <2> QED
    BY <2>1, <2>2
<1>6. CASE t = "continuous_move_timeout"
  <2>1. Script[t] = ContinuousMoveTimeout
    BY <1>6 DEF Script
  <2>2. StopsIn(ContinuousMoveTimeout)
    BY DEF ContinuousMoveTimeout
  <2> HIDE DEF StopsIn
  <2> QED
    BY <2>1, <2>2
<1>7. CASE t = "generic_velocity"
  <2>1. Script[t] = GenericVelocity
    BY <1>7 DEF Script
  <2>2. StopsIn(GenericVelocity)
    BY DEF GenericVelocity
  <2> HIDE DEF StopsIn
  <2> QED
    BY <2>1, <2>2
<1>8. CASE t = "focus_to"
  <2>1. Script[t] = FocusTo
    BY <1>8 DEF Script
  <2>2. StopsIn(FocusTo)
    BY DEF FocusTo
  <2> HIDE DEF StopsIn
  <2> QED
    BY <2>1, <2>2
<1>9. CASE t = "focus_move"
  <2>1. Script[t] = FocusMove
    BY <1>9 DEF Script
  <2>2. StopsIn(FocusMove)
    BY DEF FocusMove
  <2> HIDE DEF StopsIn
  <2> QED
    BY <2>1, <2>2
<1>10. CASE t = "focus_stop"
  <2>1. Script[t] = FocusStop
    BY <1>10 DEF Script
  <2>2. StopsIn(FocusStop)
    BY DEF FocusStop
  <2> HIDE DEF StopsIn
  <2> QED
    BY <2>1, <2>2
<1>11. CASE t = "set_date_and_time"
  <2>1. Script[t] = SetDateAndTime
    BY <1>11 DEF Script
  <2>2. StopsIn(SetDateAndTime)
    BY DEF SetDateAndTime
  <2> HIDE DEF StopsIn
  <2> QED
    BY <2>1, <2>2
<1>12. CASE t = "relay_state"
  <2>1. Script[t] = RelayState
    BY <1>12 DEF Script
  <2>2. StopsIn(RelayState)
    BY DEF RelayState
  <2> HIDE DEF StopsIn
  <2> QED
    BY <2>1, <2>2
<1>13. CASE t = "find_recordings"
  <2>1. Script[t] = FindRecordings
    BY <1>13 DEF Script
  <2>2. StopsIn(FindRecordings)
    BY DEF FindRecordings
  <2> HIDE DEF StopsIn
  <2> QED
    BY <2>1, <2>2
<1>14. CASE t = "door_command"
  <2>1. Script[t] = DoorCommand
    BY <1>14 DEF Script
  <2>2. StopsIn(DoorCommand)
    BY DEF DoorCommand
  <2> HIDE DEF StopsIn
  <2> QED
    BY <2>1, <2>2
<1>15. CASE t = "system_reboot"
  <2>1. Script[t] = SystemReboot
    BY <1>15 DEF Script
  <2>2. StopsIn(SystemReboot)
    BY DEF SystemReboot
  <2> HIDE DEF StopsIn
  <2> QED
    BY <2>1, <2>2
<1>16. CASE t = "hello_after_reboot"
  <2>1. Script[t] = HelloAfterReboot
    BY <1>16 DEF Script
  <2>2. StopsIn(HelloAfterReboot)
    BY DEF HelloAfterReboot
  <2> HIDE DEF StopsIn
  <2> QED
    BY <2>1, <2>2
<1> QED
  BY <1>1, <1>2, <1>3, <1>4, <1>5, <1>6, <1>7, <1>8,
     <1>9, <1>10, <1>11, <1>12, <1>13, <1>14, <1>15, <1>16
  DEF Script

\* Where a worker is in its script; what is pending leads to a finally only.
Placed(w) ==
  LET j == job[w]
      s == Script[j.test]
  IN  Busy(w) =>
        /\ j.test \in DOMAIN Script
        /\ j.at \in 1..Len(s)
        /\ j.pending # "none" => s[j.at].fin = 0

\* It is at a Stop, or in the try that ends with one.
Ahead(w) ==
  /\ Busy(w)
  /\ \/ Now(w).do = "stop"
     \/ Now(w).fin # 0 /\ Script[job[w].test][Now(w).fin].do = "stop"

Running(a) == motion[a] \in {"endless", "timed"}

Excused ==
  \/ "ignores_stop" \in traits
  \/ \E step \in MishapSteps : step.do = "stop"
  \/ \E t \in crashed : "motor" \in Subjects(t)

MotorInv ==
  /\ Shape
  /\ \A w \in Worker : Placed(w)
  /\ DOMAIN motion = Axis
  /\ Excused \/ \A a \in Axis : Running(a) => \E w \in Worker : Ahead(w)

\* What a step of w may do to the motors.
Motors(w) ==
  /\ DOMAIN motion' = Axis
  /\ \A a \in Axis : Running(a)' => Running(a) \/ Now(w).do \in {"move", "timed"}

\* An exchange starts a motor only if it is there to.
LEMMA HeardMotors ==
  ASSUME MotorInv, NEW w \in Worker, Heard(w) \/ MaybeHeard(w) \/ UNCHANGED box
  PROVE  Motors(w)
<1>1. CASE UNCHANGED motion
  BY <1>1 DEF MotorInv, Motors, Running
<1>2. CASE motion' = Moved(Now(w))
  BY <1>2 DEF MotorInv, Motors, Running, Moved
<1> QED
  BY <1>1, <1>2 DEF Heard, MaybeHeard, box

\* What the scripts say of the step a worker is at.
LEMMA StepStops ==
  ASSUME MotorInv, NEW w \in Worker, Busy(w)
  PROVE  LET s == Script[job[w].test]
             at == job[w].at
         IN  /\ at \in 1..Len(s) /\ Len(s) \in Nat
             /\ Now(w).fin \in 0..Len(s) /\ (Now(w).fin # 0 => s[Now(w).fin].fin = 0)
             /\ Now(w).do = "stop" => Now(w).on = "motor"
             /\ Ahead(w) /\ Now(w).do # "stop" =>
                  /\ Now(w).fin # 0 /\ s[Now(w).fin].do = "stop"
                  /\ at < Len(s) /\ Now(w).absorbs = "nothing"
                  /\ Now(w).do \in {"move", "timed", "wait", "idle"}
                  /\ at + 1 = Now(w).fin \/ s[at + 1].fin = Now(w).fin
<1> DEFINE s == Script[job[w].test]
           i == job[w].at
<1>1. /\ job[w].test \in DOMAIN Script /\ i \in 1..Len(s) /\ Now(w) = s[i]
  BY DEF MotorInv, Placed, Now
<1>2. StopsIn(s)
  BY <1>1, ScriptsStop
<1>3. Ahead(w) /\ Now(w).do # "stop" => s[i].fin # 0 /\ s[s[i].fin].do = "stop"
  BY <1>1 DEF Ahead
<1> HIDE DEF s, i
<1>4. /\ Len(s) \in Nat /\ s[i].fin \in 0..Len(s)
      /\ s[i].fin # 0 => s[s[i].fin].fin = 0
      /\ s[i].do = "stop" => s[i].on = "motor"
  BY <1>1, <1>2 DEF StopsIn
<1>5. ASSUME s[i].fin # 0, s[s[i].fin].do = "stop"
      PROVE  /\ i < Len(s) /\ s[i].absorbs = "nothing"
             /\ s[i].do \in {"move", "timed", "wait", "idle"}
             /\ i + 1 = s[i].fin \/ s[i + 1].fin = s[i].fin
  BY <1>1, <1>2, <1>5 DEF StopsIn
<1> QED
  BY <1>1, <1>3, <1>4, <1>5 DEF s, i

\* A step that goes well leaves its worker in its script, and a Stop where it was.
LEMMA ProceedMotor ==
  ASSUME MotorInv, NEW w \in Worker, Busy(w), NEW v, Proceed(w, v)
  PROVE  /\ Placed(w)'
         /\ Ahead(w) /\ Now(w).do # "stop" => Ahead(w)'
<1> DEFINE s == Script[job[w].test]
<1>1. /\ job[w].test \in DOMAIN Script /\ job[w].at \in 1..Len(s)
      /\ job[w].pending # "none" => s[job[w].at].fin = 0
      /\ StopsIn(s) /\ Now(w) = s[job[w].at]
  BY ScriptsStop DEF MotorInv, Placed, Now
<1>2. DOMAIN job = Worker /\ DOMAIN job[w] = Fields
  BY DEF MotorInv, Shape
<1>3. CASE Ends(w) /\ (job[w].pending # "none" \/ job[w].at = Len(s))
  <2>1. job'[w] = NoJob
    BY <1>2, <1>3 DEF Ends, End
  <2>2. ~(Ahead(w) /\ Now(w).do # "stop")
    BY <1>1, <1>3, StepStops
  <2> QED
    BY <2>1, <2>2 DEF Placed, Busy
<1>4. CASE GoesOn(w) /\ job[w].pending = "none" /\ job[w].at # Len(s)
  <2>1. /\ job'[w].test = job[w].test /\ job'[w].at = job[w].at + 1
        /\ job'[w].pending = "none"
    BY <1>2, <1>4 DEF GoesOn, Fields
  <2>2. job[w].at + 1 \in 1..Len(s)
    BY <1>4, StepStops
  <2>3. Placed(w)'
    BY <1>1, <2>1, <2>2 DEF Placed
  <2>4. ASSUME Ahead(w), Now(w).do # "stop"
        PROVE  Ahead(w)'
    <3>1. /\ s[job[w].at].fin # 0 /\ s[s[job[w].at].fin].do = "stop"
      BY <1>1, <2>4 DEF Ahead
    <3>2. \/ s[job[w].at + 1].do = "stop"
          \/ /\ s[job[w].at + 1].fin # 0
             /\ s[s[job[w].at + 1].fin].do = "stop"
      BY <1>1, <3>1 DEF StopsIn
    <3>3. Busy(w)'
      BY <1>1, <2>1 DEF Busy, NoJob, Script
    <3> QED
      BY <2>1, <3>2, <3>3 DEF Ahead, Now
  <2> QED
    BY <2>3, <2>4
<1> QED
  BY <1>3, <1>4 DEF Proceed, Ends, GoesOn

\* So does one that raises.
LEMMA RaiseMotor ==
  ASSUME MotorInv, NEW w \in Worker, Busy(w), NEW what, Raise(w, what)
  PROVE  /\ Placed(w)'
         /\ Ahead(w) /\ Now(w).do # "stop" => Ahead(w)'
<1> DEFINE s == Script[job[w].test]
<1>1. /\ job[w].test \in DOMAIN Script /\ job[w].at \in 1..Len(s)
      /\ StopsIn(s) /\ Now(w) = s[job[w].at]
  BY ScriptsStop DEF MotorInv, Placed, Now
<1>2. DOMAIN job = Worker /\ DOMAIN job[w] = Fields
  BY DEF MotorInv, Shape
<1>3. Ahead(w) /\ Now(w).do # "stop" => Now(w).fin # 0 /\ Now(w).absorbs = "nothing"
  BY StepStops
<1>4. CASE Proceed(w, job[w].saved) /\ Caught(Now(w), what)
  BY <1>4, ProceedMotor
<1>5. CASE Ends(w) /\ (Caught(Now(w), what) \/ Now(w).fin = 0)
  <2>1. job'[w] = NoJob
    BY <1>2, <1>5 DEF Ends, End
  <2>2. ~(Ahead(w) /\ Now(w).do # "stop")
    BY <1>3, <1>5 DEF Caught
  <2> QED
    BY <2>1, <2>2 DEF Placed, Busy
<1>6. CASE /\ Now(w).fin # 0
           /\ job' = [job EXCEPT ![w].at = Now(w).fin, ![w].pending = "failed"]
  <2>1. job'[w].test = job[w].test /\ job'[w].at = Now(w).fin
    BY <1>2, <1>6 DEF Fields
  <2>2. Now(w).fin \in 1..Len(s) /\ s[Now(w).fin].fin = 0
    BY <1>6, StepStops
  <2>3. Placed(w)'
    BY <1>1, <2>1, <2>2 DEF Placed
  <2>4. Busy(w)'
    BY <1>1, <2>1 DEF Busy, NoJob, Script
  <2>5. Ahead(w) /\ Now(w).do # "stop" => Ahead(w)'
    BY <2>1, <2>4 DEF Ahead, Now
  <2> QED
    BY <2>3, <2>5
<1> QED
  BY <1>4, <1>5, <1>6 DEF Raise, Ends

\* The step a worker is at, and what is ahead of it.
LEMMA AheadStep ==
  ASSUME MotorInv, NEW w \in Worker, Busy(w)
  PROVE  /\ Now(w).do \in {"move", "timed"} => Ahead(w)
         /\ Now(w).do = "stop" => Now(w).on = "motor"
         /\ Ahead(w) => /\ Now(w).do \in {"stop", "move", "timed", "wait", "idle"}
                        /\ "motor" \in Subjects(job[w].test)
<1> DEFINE s == Script[job[w].test]
<1>1. /\ job[w].test \in DOMAIN Script /\ job[w].at \in 1..Len(s)
      /\ StopsIn(s) /\ Now(w) = s[job[w].at]
  BY ScriptsStop DEF MotorInv, Placed, Now
<1>2. Now(w).do \in {"move", "timed"} => Ahead(w)
  BY <1>1 DEF StopsIn, Ahead
<1>3. Now(w).do = "stop" => Now(w).on = "motor"
  BY <1>1 DEF StopsIn
<1>4. ASSUME Ahead(w)
      PROVE  /\ Now(w).do \in {"stop", "move", "timed", "wait", "idle"}
             /\ "motor" \in Subjects(job[w].test)
  <2>1. Now(w).do \in {"stop", "move", "timed", "wait", "idle"}
    BY <1>4, StepStops
  <2>2. PICK i \in 1..Len(s) : s[i].do = "stop"
    BY <1>1, <1>4, StepStops
  <2>3. About(s[i]) = "motor"
    BY <1>1, <2>2 DEF StopsIn, About, Axis
  <2>4. i \in DOMAIN s
    BY <1>1, <2>2 DEF StopsIn
  <2> QED
    BY <2>1, <2>3, <2>4 DEF Subjects
<1> QED
  BY <1>2, <1>3, <1>4

\* What excuses a motor left running is not forgotten.
Blame == traits' = traits /\ mishaps \subseteq mishaps' /\ crashed \subseteq crashed'

LEMMA ExcuseStays == ASSUME Blame, Excused PROVE Excused'
  BY DEF Blame, Excused, MishapSteps

\* A worker that keeps its Stop ahead of it, or has none, leaves no motor running.
LEMMA WorkerMotor ==
  ASSUME MotorInv, NEW w \in Worker, Busy(w), Motors(w), Blame,
         Ends(w) \/ GoesOn(w) \/ GoesTo(w) \/ Retries(w), Placed(w)',
         Ahead(w) => Ahead(w)' \/ Excused' \/ \A a \in Axis : ~Running(a)'
  PROVE  MotorInv'
<1>1. Shape' /\ \A v \in Worker \ {w} : job'[v] = job[v]
  BY JobStep DEF MotorInv
<1>2. \A v \in Worker : Placed(v)'
  BY <1>1 DEF MotorInv, Placed, Busy
<1>3. \A v \in Worker \ {w} : Ahead(v) => Ahead(v)'
  BY <1>1 DEF Ahead, Busy, Now
<1>4. ASSUME ~Excused', NEW a \in Axis, Running(a)'
      PROVE  \E v \in Worker : Ahead(v)'
  <2>1. Running(a) \/ Ahead(w)
    BY <1>4, AheadStep DEF Motors
  <2>2. PICK v \in Worker : Ahead(v)
    BY <1>4, <2>1, ExcuseStays DEF MotorInv
  <2>3. CASE v = w
    BY <1>4, <2>2, <2>3
  <2>4. CASE v # w
    BY <1>3, <2>2, <2>4
  <2> QED
    BY <2>3, <2>4
<1> QED
  BY <1>1, <1>2, <1>4 DEF MotorInv, Motors

\* A Stop that does not come through is an excuse, and one that does stops them all.
LEMMA StepMotor ==
  ASSUME MotorInv, NEW w \in Worker, Busy(w), Motors(w), Blame,
         (\E v : Proceed(w, v)) \/ (\E what : Raise(w, what)),
         Now(w).do = "stop" => Excused' \/ \A a \in Axis : ~Running(a)'
  PROVE  MotorInv'
<1>1. Placed(w)' /\ (Ahead(w) /\ Now(w).do # "stop" => Ahead(w)')
  BY ProceedMotor, RaiseMotor
<1>2. Ends(w) \/ GoesOn(w) \/ GoesTo(w)
  BY ProceedStep, RaiseStep
<1> QED
  BY <1>1, <1>2, WorkerMotor

\* A test that ends with no Stop ahead of it, or with an excuse.
LEMMA EndMotor ==
  ASSUME MotorInv, NEW w \in Worker, Busy(w), Motors(w), Blame, NEW o, End(w, o),
         Ahead(w) => Excused'
  PROVE  MotorInv'
<1>1. job'[w] = NoJob
  BY DEF MotorInv, Shape, End
<1>2. Placed(w)'
  BY <1>1 DEF Placed, Busy
<1> QED
  BY <1>2, WorkerMotor DEF Ends

\* One more attempt of a recovery loop, which has no Stop ahead of it.
LEMMA RetryMotor ==
  ASSUME MotorInv, NEW w \in Worker, Busy(w), Motors(w), Blame, Retries(w),
         ~Ahead(w)
  PROVE  MotorInv'
<1>1. /\ job'[w].test = job[w].test /\ job'[w].at = job[w].at
      /\ job'[w].pending = job[w].pending
  BY DEF MotorInv, Shape, Retries, Fields
<1>2. Placed(w)'
  BY <1>1 DEF MotorInv, Placed
<1> QED
  BY <1>2, WorkerMotor

------------------------------------------------------------------------------
\* An answered Stop stops the motors, on a device that obeys it.
LEMMA AnsweredMotor ==
  ASSUME MotorInv, NEW w \in Worker, Answered(w)
  PROVE  MotorInv'
<1>1. Busy(w) /\ Blame
  BY DEF Answered, outside, Blame
<1>2. CASE Refused(Now(w)) /\ UNCHANGED <<box, disturbed>>
  <2>1. Motors(w)
    BY <1>2, HeardMotors
  <2>2. Now(w).do # "stop"
    BY <1>1, <1>2, AheadStep DEF Refused
  <2>3. (\E v : Proceed(w, v)) \/ (\E what : Raise(w, what))
    BY DEF Answered
  <2> QED
    BY <1>1, <2>1, <2>2, <2>3, StepMotor
<1>3. CASE Heard(w)
  <2>1. Motors(w)
    BY <1>3, HeardMotors
  <2>2. ASSUME Now(w).do = "stop"
        PROVE  Excused' \/ \A a \in Axis : ~Running(a)'
    <3>1. CASE "ignores_stop" \in traits
      BY <1>1, <3>1 DEF Blame, Excused
    <3>2. CASE "ignores_stop" \notin traits
      BY <1>3, <2>2, <3>2 DEF Heard, Moved, Running
    <3> QED
      BY <3>1, <3>2
  <2>3. (\E v : Proceed(w, v)) \/ (\E what : Raise(w, what))
    BY DEF Answered
  <2> QED
    BY <1>1, <2>1, <2>2, <2>3, StepMotor
<1> QED
  BY <1>2, <1>3 DEF Answered

\* A Stop that does not come through is recorded; so is the death of a worker.
LEMMA BrokenMotor ==
  ASSUME MotorInv, NEW w \in Worker,
         Lose(w) \/ Interrupt(w) \/ Unreachable(w) \/ Crash(w) \/ SkipTest(w)
  PROVE  MotorInv'
<1>1. CASE Lose(w) \/ Interrupt(w) \/ Unreachable(w)
  <2>1. /\ Busy(w) /\ Mishap(w) /\ crashed' = crashed /\ traits' = traits
        /\ MaybeHeard(w) \/ UNCHANGED box
        /\ \E what : Raise(w, what)
    BY <1>1 DEF Lose, Interrupt, Unreachable, outside
  <2>2. Motors(w) /\ Blame
    BY <2>1, HeardMotors DEF Blame, Mishap
  <2>3. Now(w).do = "stop" => Excused'
    <3> DEFINE m == <<job[w].test, job[w].at>>
    <3>1. m \in mishaps'
      BY <2>1 DEF Mishap
    <3>2. Now(w) = Script[m[1]][m[2]]
      BY DEF Now
    <3>3. Now(w) \in {Script[n[1]][n[2]] : n \in mishaps'}
      BY <3>1, <3>2
    <3> QED
      BY <3>3 DEF Excused, MishapSteps
  <2> QED
    BY <2>1, <2>2, <2>3, StepMotor
<1>2. CASE Crash(w)
  <2>1. /\ Busy(w) /\ UNCHANGED box /\ End(w, "crashed") /\ Blame
        /\ job[w].test \in crashed'
    BY <1>2 DEF Crash, outside, Blame
  <2>2. Motors(w)
    BY <2>1, HeardMotors
  <2>3. Ahead(w) => Excused'
    BY <2>1, AheadStep DEF Excused
  <2> QED
    BY <2>1, <2>2, <2>3, EndMotor
<1>3. CASE SkipTest(w)
  <2>1. /\ Busy(w) /\ UNCHANGED box /\ End(w, "skipped") /\ Blame
        /\ Now(w).do \in {"survey", "read", "listen"}
    BY <1>3 DEF SkipTest, outside, history, Blame
  <2>2. Motors(w)
    BY <2>1, HeardMotors
  <2>3. ~Ahead(w)
    BY <2>1, AheadStep
  <2> QED
    BY <2>1, <2>2, <2>3, EndMotor
<1> QED
  BY <1>1, <1>2, <1>3

\* A wait starts nothing and stops nothing.
LEMMA WaitingMotor ==
  ASSUME MotorInv, NEW w \in Worker,
         Wait(w) \/ Grace(w) \/ Listen(w) \/ Poll(w) \/ AwaitHello(w)
  PROVE  MotorInv'
<1>1. /\ Busy(w) /\ UNCHANGED box /\ crashed' = crashed /\ traits' = traits
      /\ Now(w).do \in {"wait", "grace", "listen", "poll", "await_hello"}
  BY DEF Wait, Grace, Listen, Poll, AwaitHello, outside, history
<1>2. \/ \E v : Proceed(w, v)
      \/ \E what : Raise(w, what)
      \/ End(w, "skipped") /\ Now(w).do = "await_hello"
      \/ Retries(w) /\ Now(w).do \in {"poll", "await_hello"}
  BY DEF Wait, Grace, Listen, Poll, AwaitHello, JudgeHellos, TryAgain, Retries
<1>3. mishaps \subseteq mishaps'
  BY DEF Wait, Grace, Listen, Poll, AwaitHello, TryAgain, Mishap, history
<1>4. Motors(w) /\ Blame
  BY <1>1, <1>3, HeardMotors DEF Blame
<1>5. Now(w).do \in {"poll", "await_hello"} => ~Ahead(w)
  BY <1>1, AheadStep
<1> QED
  BY <1>1, <1>2, <1>4, <1>5, StepMotor, EndMotor, RetryMotor

\* A test begins with nothing ahead of it that another does not have.
LEMMA StartMotor ==
  ASSUME MotorInv, NEW w \in Worker, NEW t \in Suite, Start(w, t)
  PROVE  MotorInv'
<1>1. /\ job' = [job EXCEPT ![w] = [NoJob EXCEPT !.test = t, !.at = 1]]
      /\ verdict' = [verdict EXCEPT ![t] = "running"]
      /\ UNCHANGED <<motion, traits, mishaps, crashed>> /\ ~Busy(w)
  BY DEF Start, outside, box, history
<1>2. /\ DOMAIN job = Worker /\ DOMAIN verdict = Suite
      /\ \A v \in Worker : DOMAIN job[v] = Fields
  BY DEF MotorInv, Shape
<1>3. /\ DOMAIN job'[w] = Fields /\ job'[w].test = t /\ job'[w].at = 1
      /\ job'[w].pending = "none"
      /\ \A v \in Worker \ {w} : job'[v] = job[v]
  BY <1>1, <1>2 DEF NoJob, Fields
<1>4. Shape'
  BY <1>1, <1>2, <1>3 DEF Shape
<1>5. Placed(w)'
  <2>1. t \in DOMAIN Script
    BY WriteTestsAssumption
  <2>2. 1 \in 1..Len(Script[t])
    BY <2>1, ScriptsStop DEF StopsIn
  <2> QED
    BY <1>3, <2>1, <2>2 DEF Placed
<1>6. \A v \in Worker : Placed(v)'
  BY <1>3, <1>5 DEF MotorInv, Placed, Busy
<1>7. \A v \in Worker : Ahead(v) => Ahead(v)'
  BY <1>1, <1>3 DEF Ahead, Busy, Now
<1>8. Excused => Excused'
  BY <1>1, ExcuseStays DEF Blame
<1> QED
  BY <1>1, <1>4, <1>6, <1>7, <1>8 DEF MotorInv, Running

\* By itself the device starts nothing.
LEMMA QuietMotor ==
  ASSUME MotorInv, job' = job, verdict' = verdict, Blame, DOMAIN motion' = Axis,
         \A a \in Axis : motion'[a] = motion[a] \/ motion'[a] = "idle"
  PROVE  MotorInv'
<1>1. Shape' /\ \A w \in Worker : Placed(w)' /\ (Ahead(w) => Ahead(w)')
  BY DEF MotorInv, Shape, Placed, Ahead, Busy, Now
<1> QED
  BY <1>1, ExcuseStays DEF MotorInv, Running

\* It holds at the start.
LEMMA InitMotor == Init => MotorInv
<1> SUFFICES ASSUME Init
             PROVE  MotorInv
  OBVIOUS
<1>1. Shape
  BY DEF Init, Shape, NoJob, Fields
<1>2. \A w \in Worker : Placed(w)
  BY DEF Init, Placed, Busy
<1>3. DOMAIN motion = Axis /\ \A a \in Axis : ~Running(a)
  BY DEF Init, Running
<1> QED
  BY <1>1, <1>2, <1>3 DEF MotorInv

\* And every step keeps it.
LEMMA NextMotor == MotorInv /\ [Next]_vars => MotorInv'
<1> SUFFICES ASSUME MotorInv, [Next]_vars
             PROVE  MotorInv'
  OBVIOUS
<1>1. ASSUME NEW w \in Worker, NEW t \in Suite, Start(w, t)
      PROVE  MotorInv'
  BY <1>1, StartMotor
<1>2. ASSUME NEW w \in Worker,
             \/ Answered(w) \/ SkipTest(w) \/ Lose(w) \/ Interrupt(w)
             \/ Unreachable(w) \/ Crash(w) \/ Wait(w) \/ Grace(w) \/ Listen(w)
             \/ Poll(w) \/ AwaitHello(w)
      PROVE  MotorInv'
  BY <1>2, AnsweredMotor, BrokenMotor, WaitingMotor
<1>3. CASE (\E a \in Axis : MotionEnds(a)) \/ GoDown
  <2>1. /\ job' = job /\ verdict' = verdict /\ Blame /\ DOMAIN motion' = Axis
        /\ \A a \in Axis : motion'[a] = motion[a] \/ motion'[a] = "idle"
    BY <1>3 DEF MotorInv, MotionEnds, GoDown, Blame, outside, history
  <2> QED
    BY <2>1, QuietMotor
<1>4. CASE ComeUp \/ ForeignHello \/ UNCHANGED vars
  <2>1. job' = job /\ verdict' = verdict /\ Blame /\ motion' = motion
    BY <1>4 DEF ComeUp, ForeignHello, Blame, vars, outside, box, history
  <2> QED
    BY <2>1, QuietMotor DEF MotorInv
<1> QED
  BY <1>1, <1>2, <1>3, <1>4 DEF Next, Terminated

\* Once no test is running no motor is, unless a Stop did not come through, the
\* device does not obey it, or a worker died on the move (ptz.py:165-169,
\* 499-504, 533-543).
THEOREM MotorsHalt == Spec => []MotorsStop
<1>1. Init => MotorInv
  BY InitMotor
<1>2. MotorInv /\ [Next]_vars => MotorInv'
  BY NextMotor
<1>3. MotorInv => MotorsStop
  BY DEF MotorInv, MotorsStop, AllQuiet, Ahead, Running, Excused
<1> QED
  BY <1>1, <1>2, <1>3, PTL DEF Spec

\* The test that writes a setting.
Writer(x) ==
  CASE x = "timeout" -> "set_configuration"
    [] x = "clock"   -> "set_date_and_time"
    [] x = "relay"   -> "relay_state"
    [] x = "search"  -> "find_recordings"
    [] OTHER -> "none"

\* Who does what: a setting has one test that writes it, what can be refused is
\* its test's own, only four steps assert anything, and a finally comes after its
\* try.
Apart(t, s) ==
  /\ Len(s) \in Nat \ {0} /\ DOMAIN s = 1..Len(s)
  /\ \A i \in 1..Len(s) :
       /\ s[i].fin \in 0..Len(s) /\ (s[i].fin = 0 \/ s[i].fin > i)
       /\ s[i].fin # 0 => s[s[i].fin].do \in {"stop", "restore", "focus"}
       /\ s[i].do \in {"put", "restore"} =>
            s[i].on \in {"timeout", "clock", "relay", "search"} /\ Writer(s[i].on) = t
       /\ s[i].do = "restore" => s[i].on = "search" \/ i \in {3, 4}
       /\ s[i].do = "restore" /\ s[i].on \in {"relay", "search"} => s[i].absorbs = "all"
       /\ s[i].do = "put" /\ s[i].on = "search" => s[i].absorbs = "skip"
       /\ s[i].on = "message" => t = "system_reboot"
       /\ s[i].do \in {"read", "same", "check"} =>
            s[i].on \in {"timeout", "clock", "relay"}
       /\ s[i].do \in {"move", "timed", "goto"} => s[i].on \in Axis
       /\ s[i].do = "focus" => t \in {"focus_to", "focus_move", "focus_stop"}
       /\ s[i].do = "command" => t = "door_command"
       /\ s[i].do = "reboot" => t \in Reboots
       /\ s[i].on = "relay" => t = "relay_state"
       /\ s[i].do \in {"identify", "compare", "poll"} => t = "system_reboot"
       /\ s[i].do \in {"listen", "await_hello"} => t = "hello_after_reboot"
       /\ s[i].do = "same" => t = "consistency"
       /\ s[i].do = "check" => t \in {"set_configuration", "set_date_and_time"}
       /\ s[i].do = "idle" =>
            t \in {"continuous_move_and_stop", "continuous_move_timeout"}
       /\ s[i].absorbs # "nothing" =>
            t \in {"relay_state", "find_recordings", "focus_to", "focus_move", "focus_stop"}
       /\ s[i].do = "focus" /\ t = "focus_stop" => s[i].absorbs = "fault"
       /\ s[i].absorbs # "nothing" /\ t \in {"focus_to", "focus_move"} =>
            s[i].absorbs = "skip"

\* Every script is of that kind.
LEMMA ScriptsApart == ASSUME NEW t \in DOMAIN Script PROVE Apart(t, Script[t])
<1> USE DEF Apart, Writer, Axis, Reboots, Step, InTry, Absorbing, Survey, Stop, FocusOptions
<1>1. CASE t = "set_configuration"
  <2>1. Script[t] = SetConfiguration
    BY <1>1 DEF Script
  <2>2. Apart("set_configuration", SetConfiguration)
    BY DEF SetConfiguration
  <2> HIDE DEF Apart
  <2> QED
    BY <1>1, <2>1, <2>2
<1>2. CASE t = "consistency"
  <2>1. Script[t] = Consistency
    BY <1>2 DEF Script
  <2>2. Apart("consistency", Consistency)
    BY DEF Consistency
  <2> HIDE DEF Apart
  <2> QED
    BY <1>2, <2>1, <2>2
<1>3. CASE t = "absolute_move"
  <2>1. Script[t] = AbsoluteMove
    BY <1>3 DEF Script
  <2>2. Apart("absolute_move", AbsoluteMove)
    BY DEF AbsoluteMove
  <2> HIDE DEF Apart
  <2> QED
    BY <1>3, <2>1, <2>2
<1>4. CASE t = "relative_move"
  <2>1. Script[t] = RelativeMove
    BY <1>4 DEF Script
  <2>2. Apart("relative_move", RelativeMove)
    BY DEF RelativeMove
  <2> HIDE DEF Apart
  <2> QED
    BY <1>4, <2>1, <2>2
<1>5. CASE t = "continuous_move_and_stop"
  <2>1. Script[t] = ContinuousMoveAndStop
    BY <1>5 DEF Script
  <2>2. Apart("continuous_move_and_stop", ContinuousMoveAndStop)
    BY DEF ContinuousMoveAndStop
  <2> HIDE DEF Apart
  <2> QED
    BY <1>5, <2>1, <2>2
<1>6. CASE t = "continuous_move_timeout"
  <2>1. Script[t] = ContinuousMoveTimeout
    BY <1>6 DEF Script
  <2>2. Apart("continuous_move_timeout", ContinuousMoveTimeout)
    BY DEF ContinuousMoveTimeout
  <2> HIDE DEF Apart
  <2> QED
    BY <1>6, <2>1, <2>2
<1>7. CASE t = "generic_velocity"
  <2>1. Script[t] = GenericVelocity
    BY <1>7 DEF Script
  <2>2. Apart("generic_velocity", GenericVelocity)
    BY DEF GenericVelocity
  <2> HIDE DEF Apart
  <2> QED
    BY <1>7, <2>1, <2>2
<1>8. CASE t = "focus_to"
  <2>1. Script[t] = FocusTo
    BY <1>8 DEF Script
  <2>2. Apart("focus_to", FocusTo)
    BY DEF FocusTo
  <2> HIDE DEF Apart
  <2> QED
    BY <1>8, <2>1, <2>2
<1>9. CASE t = "focus_move"
  <2>1. Script[t] = FocusMove
    BY <1>9 DEF Script
  <2>2. Apart("focus_move", FocusMove)
    BY DEF FocusMove
  <2> HIDE DEF Apart
  <2> QED
    BY <1>9, <2>1, <2>2
<1>10. CASE t = "focus_stop"
  <2>1. Script[t] = FocusStop
    BY <1>10 DEF Script
  <2>2. Apart("focus_stop", FocusStop)
    BY DEF FocusStop
  <2> HIDE DEF Apart
  <2> QED
    BY <1>10, <2>1, <2>2
<1>11. CASE t = "set_date_and_time"
  <2>1. Script[t] = SetDateAndTime
    BY <1>11 DEF Script
  <2>2. Apart("set_date_and_time", SetDateAndTime)
    BY DEF SetDateAndTime
  <2> HIDE DEF Apart
  <2> QED
    BY <1>11, <2>1, <2>2
<1>12. CASE t = "relay_state"
  <2>1. Script[t] = RelayState
    BY <1>12 DEF Script
  <2>2. Apart("relay_state", RelayState)
    BY DEF RelayState
  <2> HIDE DEF Apart
  <2> QED
    BY <1>12, <2>1, <2>2
<1>13. CASE t = "find_recordings"
  <2>1. Script[t] = FindRecordings
    BY <1>13 DEF Script
  <2>2. Apart("find_recordings", FindRecordings)
    BY DEF FindRecordings
  <2> HIDE DEF Apart
  <2> QED
    BY <1>13, <2>1, <2>2
<1>14. CASE t = "door_command"
  <2>1. Script[t] = DoorCommand
    BY <1>14 DEF Script
  <2>2. Apart("door_command", DoorCommand)
    BY DEF DoorCommand
  <2> HIDE DEF Apart
  <2> QED
    BY <1>14, <2>1, <2>2
<1>15. CASE t = "system_reboot"
  <2>1. Script[t] = SystemReboot
    BY <1>15 DEF Script
  <2>2. Apart("system_reboot", SystemReboot)
    BY DEF SystemReboot
  <2> HIDE DEF Apart
  <2> QED
    BY <1>15, <2>1, <2>2
<1>16. CASE t = "hello_after_reboot"
  <2>1. Script[t] = HelloAfterReboot
    BY <1>16 DEF Script
  <2>2. Apart("hello_after_reboot", HelloAfterReboot)
    BY DEF HelloAfterReboot
  <2> HIDE DEF Apart
  <2> QED
    BY <1>16, <2>1, <2>2
<1> HIDE DEF Apart
<1> QED
  BY <1>1, <1>2, <1>3, <1>4, <1>5, <1>6, <1>7, <1>8,
     <1>9, <1>10, <1>11, <1>12, <1>13, <1>14, <1>15, <1>16
  DEF Script

\* The tests that hold on to what they read, and what that is.
Looks(t) ==
  CASE t \in {"set_configuration", "consistency"} -> "timeout"
    [] t = "set_date_and_time" -> "clock"
    [] t = "relay_state" -> "relay"
    [] OTHER -> "power"
Readers == {"set_configuration", "consistency", "set_date_and_time", "relay_state",
            "system_reboot"}

\* They read it first, and nothing else after it.
ReadFirst(t, s) ==
  /\ s[1].do = (IF t = "system_reboot" THEN "identify" ELSE "read")
  /\ s[1].fin = 0 /\ s[1].absorbs = "nothing"
  /\ \A i \in 1..Len(s) : s[i].on = Looks(t) \/ s[i].do = "reboot"
  /\ \A i \in 2..Len(s) : s[i].do \notin {"read", "identify", "listen", "command"}

LEMMA ScriptsRead == ASSUME NEW t \in Readers PROVE ReadFirst(t, Script[t])
<1> USE DEF ReadFirst, Looks, Step, InTry, Absorbing
<1>1. CASE t = "set_configuration"
  BY <1>1 DEF Script, SetConfiguration
<1>2. CASE t = "consistency"
  BY <1>2 DEF Script, Consistency
<1>3. CASE t = "set_date_and_time"
  BY <1>3 DEF Script, SetDateAndTime
<1>4. CASE t = "relay_state"
  BY <1>4 DEF Script, RelayState
<1>5. CASE t = "system_reboot"
  BY <1>5 DEF Script, SystemReboot
<1> QED
  BY <1>1, <1>2, <1>3, <1>4, <1>5 DEF Readers

------------------------------------------------------------------------------
(***************************************************************************)
(* A step of a worker, whatever its action: what comes of the exchange,    *)
(* and what has already happened is not forgotten.                         *)
(***************************************************************************)
Acts(w) ==
  \/ Answered(w) \/ SkipTest(w) \/ Lose(w) \/ Interrupt(w)
  \/ Unreachable(w) \/ Crash(w) \/ Wait(w) \/ Grace(w) \/ Listen(w)
  \/ Poll(w) \/ AwaitHello(w)

\* What a worker knows once its step has gone well.
Kept(w) ==
  IF Now(w).do \in {"read", "identify"} THEN Shown(Now(w).on) ELSE job[w].saved

Calm == UNCHANGED <<box, disturbed>>

\* An answer as it should be, and one as it should not.
Good(w) ==
  /\ Now(w).do \notin Waits /\ phase # "down" /\ ~Refused(Now(w)) /\ Heard(w)
  /\ Holds(Now(w), job[w].saved)
  /\ Proceed(w, Kept(w))
Bad(w) ==
  /\ Now(w).do \notin Waits /\ ~Refused(Now(w)) /\ Heard(w)
  /\ ~Holds(Now(w), job[w].saved)
  /\ Raise(w, "assertion")

\* A fault; a door may answer so.
Faulted(w) ==
  /\ Refused(Now(w)) /\ Calm /\ Raise(w, "fault")
  /\ ~("no_door_command" \in traits /\ Now(w).do = "command")
Declined(w) ==
  /\ Now(w).do = "command" /\ Calm /\ Proceed(w, "none")
  /\ "no_door_command" \in traits

\* No answer, or none in time.
Missed(w) == Mishap(w) /\ MaybeHeard(w) /\ \E what : Raise(w, what)

\* A wait that is over.
Waited(w) ==
  /\ Calm
  /\ \/ /\ Now(w).do = "wait" /\ Proceed(w, job[w].saved)
        /\ motion[Now(w).on] = "timed" => "ignores_timeout" \in traits
     \/ /\ Now(w).do = "grace" /\ Proceed(w, job[w].saved)
        /\ phase = "accepted" => "slow_reboot" \in traits
     \/ Now(w).do = "listen" /\ Proceed(w, "none")
     \/ Now(w).do = "poll" /\ phase # "down" /\ Proceed(w, job[w].saved)
     \/ Now(w).do = "await_hello" /\ HelloIsGood /\ Proceed(w, job[w].saved)

\* The wrong Hello.
Stranger(w) ==
  /\ Calm /\ Now(w).do = "await_hello" /\ hellos # <<>> /\ ~HelloIsGood
  /\ Raise(w, "assertion")

\* The test ends at once, or one more attempt is made.
Dropped(w) ==
  /\ Calm
  /\ \/ End(w, "skipped") /\ Now(w).do \in {"survey", "read", "listen", "await_hello"}
     \/ End(w, "crashed") /\ job[w].test \in crashed'
Again(w) == Calm /\ Retries(w) /\ job[w].tries + 1 < MaxPolls

\* Nothing is forgotten, and nothing that is only the device's or the network's
\* changes.
Remembers ==
  /\ UNCHANGED <<traits, began, hellos>>
  /\ mishaps \subseteq mishaps' /\ crashed \subseteq crashed'
  /\ disturbed \subseteq disturbed'

\* These are all there are.
LEMMA WorkerStep ==
  ASSUME NEW w \in Worker, Acts(w)
  PROVE  /\ Busy(w) /\ Remembers
         /\ \/ Good(w) \/ Bad(w) \/ Faulted(w) \/ Declined(w) \/ Missed(w)
            \/ Waited(w) \/ Stranger(w) \/ Dropped(w) \/ Again(w)
<1>1. CASE Answered(w)
  <2>1. /\ Busy(w) /\ Now(w).do \notin Waits /\ phase # "down"
        /\ UNCHANGED <<traits, began, hellos, mishaps, crashed>>
    BY <1>1 DEF Answered, outside, hello
  <2>2. CASE Refused(Now(w)) /\ Calm /\ "no_door_command" \in traits
             /\ Now(w).do = "command" /\ Proceed(w, "none")
    BY <2>1, <2>2 DEF Remembers, Calm, Declined
  <2>3. CASE Refused(Now(w)) /\ Calm /\ Raise(w, "fault")
             /\ ~("no_door_command" \in traits /\ Now(w).do = "command")
    BY <2>1, <2>3 DEF Remembers, Calm, Faulted
  <2>4. CASE ~Refused(Now(w)) /\ Heard(w)
    <3>1. Remembers
      BY <2>1, <2>4 DEF Remembers, Heard, Disturb
    <3>2. \/ Holds(Now(w), job[w].saved) /\ Proceed(w, Kept(w))
          \/ ~Holds(Now(w), job[w].saved) /\ Raise(w, "assertion")
      BY <1>1, <2>4 DEF Answered, Kept
    <3> QED
      BY <2>1, <2>4, <3>1, <3>2 DEF Good, Bad
  <2> QED
    BY <1>1, <2>2, <2>3, <2>4 DEF Answered, Calm
<1>2. CASE Lose(w) \/ Interrupt(w) \/ Unreachable(w)
  <2>1. /\ Busy(w) /\ Mishap(w) /\ MaybeHeard(w) /\ (\E what : Raise(w, what))
        /\ UNCHANGED <<traits, began, hellos, crashed>>
    BY <1>2 DEF Lose, Interrupt, Unreachable, outside, hello, MaybeHeard
  <2>2. Remembers
    BY <2>1 DEF Remembers, Mishap, MaybeHeard, Heard, Disturb
  <2> QED
    BY <2>1, <2>2 DEF Missed
<1>3. CASE SkipTest(w) \/ Crash(w)
  BY <1>3 DEF SkipTest, Crash, Remembers, Dropped, Calm, outside, box, hello, history
<1>4. CASE Wait(w) \/ Grace(w) \/ Listen(w)
  BY <1>4 DEF Wait, Grace, Listen, Remembers, Waited, Calm, outside, box, hello, history
<1>5. CASE Poll(w)
  <2>1. Busy(w) /\ Now(w).do = "poll" /\ Calm
        /\ UNCHANGED <<traits, began, hellos, crashed>>
    BY <1>5 DEF Poll, Calm, outside, box, hello
  <2>2. mishaps \subseteq mishaps'
    BY <1>5 DEF Poll, TryAgain, Mishap
  <2>3. Waited(w) \/ Again(w) \/ Missed(w)
    <3>1. CASE phase # "down" /\ Proceed(w, job[w].saved)
      BY <2>1, <3>1 DEF Waited
    <3>2. CASE TryAgain(w, Raise(w, "assertion"))
      BY <2>1, <3>2 DEF TryAgain, Again, Retries, Missed, MaybeHeard, Calm
    <3> QED
      BY <1>5, <3>1, <3>2 DEF Poll
  <2> QED
    BY <2>1, <2>2, <2>3 DEF Remembers, Calm
<1>6. CASE AwaitHello(w)
  <2>1. Busy(w) /\ Now(w).do = "await_hello" /\ Calm
        /\ UNCHANGED <<traits, began, hellos, crashed>>
    BY <1>6 DEF AwaitHello, Calm, outside, box
  <2>2. mishaps \subseteq mishaps'
    BY <1>6 DEF AwaitHello, TryAgain, Mishap
  <2>3. Waited(w) \/ Again(w) \/ Missed(w) \/ Dropped(w) \/ Stranger(w)
    <3>1. CASE hellos # <<>> /\ JudgeHellos(w)
      BY <2>1, <3>1 DEF JudgeHellos, Waited, Stranger
    <3>2. CASE \/ TryAgain(w, End(w, "skipped"))
               \/ TryAgain(w, Raise(w, "assertion"))
      BY <2>1, <3>2 DEF TryAgain, Again, Retries, Missed, MaybeHeard, Calm, Dropped
    <3> QED
      BY <1>6, <3>1, <3>2 DEF AwaitHello, TryAgain
  <2> QED
    BY <2>1, <2>2, <2>3 DEF Remembers, Calm
<1> QED
  BY <1>1, <1>2, <1>3, <1>4, <1>5, <1>6 DEF Acts

\* What a step that goes well makes of its worker's job, and one that raises.
LEMMA ProceedCases ==
  ASSUME NEW w \in Worker, NEW s, Proceed(w, s)
  PROVE  \/ job[w].pending # "none" /\ End(w, job[w].pending)
         \/ /\ job[w].pending = "none" /\ job[w].at = Len(Script[job[w].test])
            /\ End(w, "passed")
         \/ /\ job[w].pending = "none" /\ job[w].at # Len(Script[job[w].test])
            /\ job' = [job EXCEPT ![w].at = @ + 1, ![w].saved = s]
            /\ verdict' = verdict
BY DEF Proceed

LEMMA RaiseCases ==
  ASSUME NEW w \in Worker, NEW what, Raise(w, what)
  PROVE  \/ /\ Caught(Now(w), what)
            /\ \/ Now(w).absorbs = "skip" /\ End(w, "skipped")
               \/ Now(w).absorbs # "skip" /\ Proceed(w, job[w].saved)
         \/ /\ ~Caught(Now(w), what)
            /\ \/ Now(w).fin = 0 /\ End(w, "failed")
               \/ /\ Now(w).fin # 0
                  /\ job' = [job EXCEPT ![w].at = Now(w).fin,
                                        ![w].pending = "failed"]
                  /\ verdict' = verdict
BY DEF Raise

\* Whatever happens, the job ends, goes on, goes to its finally or tries again.
LEMMA ActsJob ==
  ASSUME NEW w \in Worker, Acts(w)
  PROVE  Ends(w) \/ GoesOn(w) \/ GoesTo(w) \/ Retries(w)
<1>1. \/ \E s : Proceed(w, s)
      \/ \E what : Raise(w, what)
      \/ \E o : End(w, o)
      \/ Retries(w)
  BY WorkerStep DEF Good, Bad, Faulted, Declined, Missed, Waited, Stranger,
                    Dropped, Again
<1> QED
  BY <1>1, ProceedStep, RaiseStep DEF Ends

------------------------------------------------------------------------------
(***************************************************************************)
(* Types.  A test that writes a setting has read it first, so what it puts *)
(* back is a value of the setting; and no two workers run the same test.   *)
(***************************************************************************)
Sole ==
  /\ \A w \in Worker : Busy(w) => verdict[job[w].test] = "running"
  /\ \A v, w \in Worker : Busy(v) /\ Busy(w) /\ job[v].test = job[w].test => v = w

SavedOK(w) ==
  job[w].at > 1 =>
    /\ job[w].test = "set_configuration" => job[w].saved \in Values.timeout
    /\ job[w].test = "set_date_and_time" => job[w].saved \in Values.clock
    /\ job[w].test = "relay_state" => job[w].saved = "idle"

TypeInv == TypeOK /\ Sole /\ \A w \in Worker : SavedOK(w)

\* With what the two theorems above rest on.
Base == RebootInv /\ MotorInv /\ TypeInv

\* A busy worker is at a step of its script.
LEMMA AtStep ==
  ASSUME Base, NEW w \in Worker, Busy(w)
  PROVE  /\ job[w].test \in Suite /\ job[w].test \in DOMAIN Script
         /\ job[w].at \in 1..Len(Script[job[w].test])
         /\ Now(w) = Script[job[w].test][job[w].at]
         /\ Apart(job[w].test, Script[job[w].test])
         /\ job[w].pending \in {"none", "failed"}
         /\ job[w].pending # "none" => Now(w).fin = 0
         /\ job[w].tries \in 0..MaxPolls-1
         /\ DOMAIN job = Worker /\ DOMAIN job[w] = Fields /\ DOMAIN verdict = Suite
         /\ verdict[job[w].test] = "running"
<1>1. JobOK(job[w]) /\ Placed(w) /\ Shape
  BY DEF Base, TypeInv, TypeOK, MotorInv
<1>2. job[w].test \in DOMAIN Script
  BY <1>1 DEF Placed
<1> QED
  BY <1>1, <1>2, ScriptsApart DEF JobOK, Busy, Placed, Now, Shape, Base, TypeInv, Sole

\* And that step is apart from those of other tests.
LEMMA StepApart ==
  ASSUME Base, NEW w \in Worker, Busy(w)
  PROVE  /\ Len(Script[job[w].test]) \in Nat \ {0}
         /\ DOMAIN Script[job[w].test] = 1..Len(Script[job[w].test])
         /\ Now(w).fin \in 0..Len(Script[job[w].test])
         /\ Now(w).fin = 0 \/ Now(w).fin > job[w].at
         /\ Now(w).do \in {"put", "restore"} =>
              /\ Now(w).on \in {"timeout", "clock", "relay", "search"}
              /\ Writer(Now(w).on) = job[w].test
         /\ Now(w).do = "restore" => Now(w).on = "search" \/ job[w].at \in {3, 4}
         /\ Now(w).do \in {"move", "timed", "goto"} => Now(w).on \in Axis
         /\ Now(w).do \in {"listen", "await_hello"} => job[w].test = "hello_after_reboot"
         /\ Now(w).absorbs \notin {"nothing", "skip"} =>
              job[w].test \in {"relay_state", "find_recordings", "focus_stop"}
<1> DEFINE s == Script[job[w].test]
           i == job[w].at
<1>1. Apart(job[w].test, s) /\ i \in 1..Len(s) /\ Now(w) = s[i]
  BY AtStep
<1> HIDE DEF s, i
<1>2. /\ Len(s) \in Nat \ {0} /\ DOMAIN s = 1..Len(s)
      /\ s[i].fin \in 0..Len(s) /\ (s[i].fin = 0 \/ s[i].fin > i)
  BY <1>1 DEF Apart
<1>3. /\ s[i].do \in {"put", "restore"} =>
           /\ s[i].on \in {"timeout", "clock", "relay", "search"}
           /\ Writer(s[i].on) = job[w].test
      /\ s[i].do = "restore" => s[i].on = "search" \/ i \in {3, 4}
  BY <1>1 DEF Apart
<1>4. /\ s[i].do \in {"move", "timed", "goto"} => s[i].on \in Axis
      /\ s[i].do \in {"listen", "await_hello"} => job[w].test = "hello_after_reboot"
  BY <1>1 DEF Apart
<1>5. s[i].absorbs \notin {"nothing", "skip"} =>
        job[w].test \in {"relay_state", "find_recordings", "focus_stop"}
  BY <1>1 DEF Apart
<1> QED
  BY <1>1, <1>2, <1>3, <1>4, <1>5 DEF s, i

Outcome == {"passed", "failed", "skipped", "crashed"}

\* The job of a worker that has acted is one, and its verdict is a verdict.
LEMMA JobType ==
  ASSUME Base, NEW w \in Worker, Busy(w),
         \/ \E s : Proceed(w, s)
         \/ \E what : Raise(w, what)
         \/ \E o \in Outcome : End(w, o)
         \/ Again(w)
  PROVE  /\ JobOK(job'[w])
         /\ verdict' \in [Suite -> Outcome \cup {"none", "running"}]
<1> DEFINE s == Script[job[w].test]
<1>1. /\ job[w].test \in Suite /\ job[w].test \in DOMAIN Script
      /\ job[w].at \in 1..Len(s) /\ Len(s) \in Nat \ {0} /\ DOMAIN s = 1..Len(s)
      /\ Now(w) = s[job[w].at] /\ Now(w).fin \in 0..Len(s)
      /\ job[w].pending \in {"none", "failed"} /\ job[w].tries \in 0..MaxPolls-1
      /\ DOMAIN job = Worker /\ DOMAIN job[w] = Fields /\ DOMAIN verdict = Suite
  BY AtStep, StepApart
<1>2. verdict \in [Suite -> Outcome \cup {"none", "running"}]
  BY DEF Base, TypeInv, TypeOK, RecordOK, Outcome
<1>3. ASSUME NEW o \in Outcome, End(w, o)
      PROVE  /\ JobOK(job'[w])
             /\ verdict' \in [Suite -> Outcome \cup {"none", "running"}]
  BY <1>1, <1>2, <1>3 DEF End, JobOK
<1>4. ASSUME NEW x, job[w].at # Len(s), verdict' = verdict,
             job' = [job EXCEPT ![w].at = @ + 1, ![w].saved = x]
      PROVE  JobOK(job'[w])
  <2>1. /\ job'[w].test = job[w].test /\ job'[w].at = job[w].at + 1
        /\ job'[w].pending = job[w].pending /\ job'[w].tries = job[w].tries
    BY <1>1, <1>4 DEF Fields
  <2> QED
    BY <1>1, <1>4, <2>1 DEF JobOK
<1>5. ASSUME Now(w).fin # 0, verdict' = verdict,
             job' = [job EXCEPT ![w].at = Now(w).fin, ![w].pending = "failed"]
      PROVE  JobOK(job'[w])
  <2>1. /\ job'[w].test = job[w].test /\ job'[w].at = Now(w).fin
        /\ job'[w].pending = "failed" /\ job'[w].tries = job[w].tries
    BY <1>1, <1>5 DEF Fields
  <2>2. Now(w).fin \in 1..Len(s)
    BY <1>1, <1>5
  <2>3. job'[w].at \in DOMAIN Script[job'[w].test]
    BY <1>1, <2>1, <2>2
  <2> QED
    BY <1>1, <2>1, <2>3 DEF JobOK
<1>6. ASSUME Again(w)
      PROVE  JobOK(job'[w]) /\ verdict' = verdict
  <2>1. /\ job'[w].test = job[w].test /\ job'[w].at = job[w].at
        /\ job'[w].pending = job[w].pending /\ job'[w].tries = job[w].tries + 1
        /\ verdict' = verdict
    BY <1>1, <1>6 DEF Again, Retries, Fields
  <2>2. job[w].tries + 1 \in 0..MaxPolls-1
    BY <1>1, <1>6, WriteTestsAssumption DEF Again
  <2> QED
    BY <1>1, <2>1, <2>2 DEF JobOK
<1>7. ASSUME NEW x, Proceed(w, x)
      PROVE  /\ JobOK(job'[w])
             /\ verdict' \in [Suite -> Outcome \cup {"none", "running"}]
  <2>1. job[w].pending # "none" => job[w].pending \in Outcome
    BY <1>1 DEF Outcome
  <2>2. "passed" \in Outcome
    BY DEF Outcome
  <2> HIDE DEF s
  <2> QED
    BY <1>1, <1>2, <1>3, <1>4, <1>7, <2>1, <2>2, ProceedCases DEF s
<1>8. ASSUME NEW what, Raise(w, what)
      PROVE  /\ JobOK(job'[w])
             /\ verdict' \in [Suite -> Outcome \cup {"none", "running"}]
  <2>1. {"skipped", "failed"} \subseteq Outcome
    BY DEF Outcome
  <2> QED
    BY <1>1, <1>2, <1>3, <1>5, <1>7, <1>8, <2>1, RaiseCases
<1> QED
  BY <1>1, <1>2, <1>3, <1>6, <1>7, <1>8

\* What a test that reads knows: nothing before its first step, what that step
\* showed it afterwards.
LEMMA SavedStep ==
  ASSUME Base, NEW w \in Worker, Acts(w), job[w].test \in Readers, job'[w] # NoJob
  PROVE  /\ job'[w].test = job[w].test
         /\ job[w].at = 1 => \/ job'[w].at = 1
                             \/ /\ job'[w].at = 2 /\ Good(w)
                                /\ job'[w].saved = Shown(Looks(job[w].test))
         /\ job[w].at > 1 => job'[w].at > 1 /\ job'[w].saved = job[w].saved
<1> DEFINE s == Script[job[w].test]
<1>1. /\ job[w].at \in 1..Len(s) /\ Now(w) = s[job[w].at]
      /\ DOMAIN job = Worker /\ DOMAIN job[w] = Fields
      /\ Now(w).fin = 0 \/ Now(w).fin > job[w].at
      /\ Now(w).fin \in Nat
  BY WorkerStep, AtStep, StepApart
<1>2. /\ Now(w).on = Looks(job[w].test) \/ Now(w).do = "reboot"
      /\ job[w].at = 1 => /\ Now(w).do \in {"identify", "read"}
                          /\ Now(w).fin = 0 /\ Now(w).absorbs = "nothing"
      /\ job[w].at > 1 => Now(w).do \notin {"read", "identify", "listen", "command"}
  <2>1. ReadFirst(job[w].test, s)
    BY ScriptsRead
  <2>2. /\ job[w].at = 1 => Now(w) = s[1]
        /\ job[w].at > 1 => job[w].at \in 2..Len(s)
    BY <1>1
  <2> HIDE DEF s
  <2> QED
    BY <1>1, <2>1, <2>2 DEF ReadFirst
<1> HIDE DEF s
<1>3. ASSUME NEW x, Proceed(w, x)
      PROVE  /\ job'[w].test = job[w].test /\ job'[w].at = job[w].at + 1
             /\ job'[w].saved = x
  <2>1. ~\E o : End(w, o)
    BY <1>1 DEF End
  <2>2. job' = [job EXCEPT ![w].at = @ + 1, ![w].saved = x]
    BY <1>3, <2>1, ProceedCases
  <2> QED
    BY <1>1, <2>2 DEF Fields
<1>4. ASSUME NEW what, Raise(w, what)
      PROVE  /\ job'[w].test = job[w].test /\ job'[w].at > 1 /\ job[w].at > 1
             /\ job'[w].saved = job[w].saved
  <2>1. ~\E o : End(w, o)
    BY <1>1 DEF End
  <2>2. CASE Caught(Now(w), what) /\ Proceed(w, job[w].saved)
    <3>1. job[w].at # 1
      BY <1>2, <2>2 DEF Caught
    <3> QED
      BY <1>1, <1>3, <2>2, <3>1
  <2>3. CASE /\ Now(w).fin # 0
             /\ job' = [job EXCEPT ![w].at = Now(w).fin, ![w].pending = "failed"]
    <3>1. /\ job'[w].test = job[w].test /\ job'[w].at = Now(w).fin
          /\ job'[w].saved = job[w].saved
      BY <1>1, <2>3 DEF Fields
    <3> QED
      BY <1>1, <1>2, <2>3, <3>1
  <2> QED
    BY <1>4, <2>1, <2>2, <2>3, RaiseCases
<1>5. CASE Good(w)
  BY <1>1, <1>2, <1>3, <1>5 DEF Good, Kept
<1>6. CASE \E what : Raise(w, what)
  BY <1>4, <1>6, <1>1
<1>7. CASE Waited(w) \/ Declined(w)
  <2>1. job[w].at > 1 /\ Proceed(w, job[w].saved)
    BY <1>1, <1>2, <1>7 DEF Waited, Declined
  <2> QED
    BY <1>1, <1>3, <2>1
<1>8. CASE Dropped(w)
  BY <1>1, <1>8 DEF Dropped, End
<1>9. CASE Again(w)
  <2>1. /\ job'[w].test = job[w].test /\ job'[w].at = job[w].at
        /\ job'[w].saved = job[w].saved
    BY <1>1, <1>9 DEF Again, Retries, Fields
  <2> QED
    BY <1>1, <2>1
<1> QED
  BY <1>5, <1>6, <1>7, <1>8, <1>9, WorkerStep DEF Bad, Faulted, Missed, Stranger

\* The settings, one by one.
LEMMA Things ==
  /\ Thing = {"timeout", "clock", "relay", "search", "door"}
  /\ Values.timeout = {"default", "min", "max"} /\ Values.clock = {"NTP", "Manual"}
  /\ Values.relay = {"idle", "inverse"} /\ Values.search = {"none", "open"}
  /\ Values.door = {"locked", "down"}
  BY DEF Thing, Values

SettingOK(s) == DOMAIN s = Thing /\ \A x \in Thing : s[x] \in Values[x]

\* So is the value that a step writes.
LEMMA WrittenOK ==
  ASSUME Base, NEW w \in Worker, Busy(w)
  PROVE  SettingOK(Written(Now(w), job[w].saved))
<1> DEFINE s == Script[job[w].test]
           on == Now(w).on
<1>1. SettingOK(setting) /\ SavedOK(w)
  BY DEF Base, TypeInv, TypeOK, DeviceOK, SettingOK
<1>2. /\ job[w].at \in 1..Len(s)
      /\ Now(w).do \in {"put", "restore"} =>
           on \in {"timeout", "clock", "relay", "search"} /\ Writer(on) = job[w].test
      /\ Now(w).do = "restore" => on = "search" \/ job[w].at \in {3, 4}
  BY AtStep, StepApart
<1> HIDE DEF s
<1>3. ASSUME Now(w).do = "put"
      PROVE  Target(on, job[w].saved) \in Values[on]
  BY <1>2, <1>3, Things DEF Target
<1>4. ASSUME Now(w).do = "restore", on # "search"
      PROVE  job[w].saved \in Values[on]
  <2>1. job[w].at > 1
    BY <1>2, <1>4
  <2> QED
    BY <1>1, <1>2, <1>4, <2>1, Things DEF SavedOK, Writer
<1>5. ASSUME NEW x \in Thing, NEW v \in Values[x]
      PROVE  SettingOK([setting EXCEPT ![x] = v])
  BY <1>1, <1>5 DEF SettingOK
<1>6. CASE Now(w).do = "command"
  BY <1>5, <1>6, Things DEF Written
<1>7. CASE Now(w).do = "put"
  BY <1>1, <1>2, <1>3, <1>5, <1>7, Things DEF Written
<1>8. CASE Now(w).do = "restore"
  BY <1>1, <1>2, <1>4, <1>5, <1>8, Things DEF Written
<1>9. CASE Now(w).do \notin {"command", "put", "restore"}
  BY <1>1, <1>9 DEF Written
<1> QED
  BY <1>6, <1>7, <1>8, <1>9

\* And the motion it makes.
LEMMA MovedOK ==
  ASSUME Base, NEW w \in Worker, Busy(w)
  PROVE  Moved(Now(w)) \in [Axis -> {"idle", "goto", "timed", "endless"}]
<1>1. motion \in [Axis -> {"idle", "goto", "timed", "endless"}]
  BY DEF Base, TypeInv, TypeOK, DeviceOK
<1>2. Now(w).do \in {"move", "timed", "goto"} => Now(w).on \in Axis
  BY AtStep DEF Apart
<1> QED
  BY <1>1, <1>2 DEF Moved

\* What a step of a worker records.
LEMMA WorkerRecords ==
  ASSUME Base, NEW w \in Worker, Acts(w)
  PROVE  /\ mishaps' \subseteq mishaps \cup {<<job[w].test, job[w].at>>}
         /\ crashed' \subseteq crashed \cup {job[w].test}
         /\ disturbed' \subseteq disturbed \cup {job[v].test : v \in {u \in Worker : Busy(u)}}
         /\ UNCHANGED <<wentDown, hellos, traits, began>>
         /\ aborted' \in BOOLEAN /\ fresh' \in BOOLEAN /\ faults' \in 0..MaxFaults
<1>1. /\ aborted \in BOOLEAN /\ fresh \in BOOLEAN /\ faults \in 0..MaxFaults
      /\ MaxFaults \in Nat
  BY WriteTestsAssumption DEF Base, TypeInv, TypeOK, RecordOK
<1>2. CASE Answered(w)
  BY <1>1, <1>2 DEF Answered, Heard, Disturb, outside, hello
<1>3. CASE Lose(w) \/ Interrupt(w)
  <2>1. disturbed' \subseteq disturbed \cup {job[v].test : v \in {u \in Worker : Busy(u)}}
    BY <1>3 DEF Lose, Interrupt, MaybeHeard, Heard, Disturb
  <2>2. /\ mishaps' = mishaps \cup {<<job[w].test, job[w].at>>}
        /\ UNCHANGED <<crashed, wentDown, hellos, traits, began, fresh>>
        /\ aborted' \in BOOLEAN /\ faults' = faults + 1 /\ faults < MaxFaults
    BY <1>1, <1>3 DEF Lose, Interrupt, Fault, Mishap, outside, hello
  <2> QED
    BY <1>1, <2>1, <2>2
<1>4. CASE Unreachable(w)
  BY <1>1, <1>4 DEF Unreachable, Mishap, outside, hello
<1>5. CASE Crash(w)
  BY <1>1, <1>5 DEF Crash, Fault, outside, hello
<1>6. CASE SkipTest(w) \/ Wait(w) \/ Grace(w) \/ Listen(w)
  BY <1>1, <1>6 DEF SkipTest, Wait, Grace, Listen, outside, hello, history
<1>7. CASE Poll(w)
  BY <1>1, <1>7 DEF Poll, TryAgain, Mishap, outside, hello
<1>8. CASE AwaitHello(w)
  BY <1>1, <1>8 DEF AwaitHello, TryAgain, Mishap, outside
<1> QED
  BY <1>2, <1>3, <1>4, <1>5, <1>6, <1>7, <1>8 DEF Acts

\* A step of a worker keeps the types.
LEMMA WorkerType ==
  ASSUME Base, NEW w \in Worker, Acts(w)
  PROVE  TypeInv'
<1>1. Busy(w) /\ Shape /\ TypeInv
  BY WorkerStep DEF Base, RebootInv
<1>2. /\ \A v \in Worker \ {w} : job'[v] = job[v]
      /\ job'[w] = NoJob \/ job'[w].test = job[w].test
      /\ \A t \in Suite \ {job[w].test} : verdict'[t] = verdict[t]
  BY <1>1, ActsJob, JobStep
<1>3. /\ JobOK(job'[w])
      /\ verdict' \in [Suite -> Outcome \cup {"none", "running"}]
  <2>1. \/ \E s : Proceed(w, s)
        \/ \E what : Raise(w, what)
        \/ \E o \in Outcome : End(w, o)
        \/ Again(w)
    BY WorkerStep DEF Good, Bad, Faulted, Declined, Missed, Waited, Stranger,
                      Dropped, Outcome
  <2> QED
    BY <1>1, <2>1, JobType
<1>4. DeviceOK'
  <2>1. UNCHANGED <<traits, began>>
    BY WorkerStep DEF Remembers
  <2>2. CASE UNCHANGED box
    BY <1>1, <2>1, <2>2 DEF TypeInv, TypeOK, DeviceOK, box
  <2>3. CASE Heard(w)
    <3>1. /\ SettingOK(setting') /\ UNCHANGED identity
          /\ motion' \in [Axis -> {"idle", "goto", "timed", "endless"}]
          /\ phase' \in {phase, "accepted"}
      BY <1>1, <2>3, WrittenOK, MovedOK DEF Heard
    <3> QED
      BY <1>1, <2>1, <3>1 DEF TypeInv, TypeOK, DeviceOK, SettingOK
  <2> QED
    BY <2>2, <2>3, WorkerStep DEF Good, Bad, Faulted, Declined, Missed, Waited,
                                  Stranger, Dropped, Again, Calm, MaybeHeard
<1>5. RecordOK'
  <2>1. /\ job[w].test \in Suite /\ job[w].at \in DOMAIN Script[job[w].test]
        /\ \A v \in Worker : Busy(v) => job[v].test \in Suite
    BY <1>1 DEF TypeInv, TypeOK, JobOK, Busy
  <2>2. crashed' \cup disturbed' \cup wentDown' \subseteq Suite
    BY <1>1, <2>1, WorkerRecords DEF TypeInv, TypeOK, RecordOK
  <2>3. \A m \in mishaps' : m[1] \in Suite /\ m[2] \in DOMAIN Script[m[1]]
    BY <1>1, <2>1, WorkerRecords DEF TypeInv, TypeOK, RecordOK
  <2>4. /\ aborted' \in BOOLEAN /\ fresh' \in BOOLEAN /\ faults' \in 0..MaxFaults
        /\ hellos' = hellos
    BY WorkerRecords
  <2> QED
    BY <1>1, <1>3, <2>2, <2>3, <2>4 DEF TypeInv, TypeOK, RecordOK, Outcome
<1>6. Sole'
  <2>1. job'[w] # NoJob => verdict' = verdict
    <3>1. CASE Ends(w)
      BY <1>1, <3>1 DEF Ends, End, Shape
    <3> QED
      BY <3>1, ActsJob DEF GoesOn, GoesTo, Retries
  <2>2. \A v \in Worker : Busy(v) => job[v].test \in Suite
    BY <1>1 DEF TypeInv, TypeOK, JobOK, Busy
  <2> QED
    BY <1>1, <1>2, <2>1, <2>2 DEF TypeInv, Sole, Busy
<1>7. \A v \in Worker : SavedOK(v)'
  <2>1. ASSUME job'[w] # NoJob, job[w].test \in Readers
        PROVE  SavedOK(w)'
    <3>1. SavedOK(w) /\ DeviceOK
      BY <1>1 DEF TypeInv, TypeOK
    <3> QED
      BY <1>1, <2>1, <3>1, SavedStep, Things, AtStep
         DEF SavedOK, DeviceOK, Looks, Shown, Readers
  <2>2. ASSUME job'[w] = NoJob \/ job[w].test \notin Readers
        PROVE  SavedOK(w)'
    BY <1>2, <2>2 DEF SavedOK, NoJob, Readers
  <2> QED
    BY <1>1, <1>2, <2>1, <2>2 DEF TypeInv, SavedOK
<1>8. \A v \in Worker : JobOK(job'[v])
  BY <1>1, <1>2, <1>3 DEF TypeInv, TypeOK
<1> QED
  BY <1>4, <1>5, <1>6, <1>7, <1>8 DEF TypeInv, TypeOK

\* What Start does, and that the test it starts was not running.
LEMMA StartStep ==
  ASSUME Shape, NEW w \in Worker, NEW t \in Suite, Start(w, t)
  PROVE  /\ job'[w].test = t /\ job'[w].at = 1 /\ job'[w].pending = "none"
         /\ job'[w].tries = 0 /\ DOMAIN job'[w] = Fields /\ job'[w] # NoJob
         /\ ~Busy(w) /\ \A v \in Worker \ {w} : job'[v] = job[v]
         /\ verdict[t] = "none" /\ verdict' = [verdict EXCEPT ![t] = "running"]
         /\ UNCHANGED <<outside, box, hello, aborted, history>>
<1>1. /\ job' = [job EXCEPT ![w] = [NoJob EXCEPT !.test = t, !.at = 1]]
      /\ ~Busy(w) /\ verdict[t] = "none"
      /\ verdict' = [verdict EXCEPT ![t] = "running"]
      /\ UNCHANGED <<outside, box, hello, aborted, history>>
  BY DEF Start
<1>2. DOMAIN job = Worker
  BY DEF Shape
<1>3. job'[w] = [NoJob EXCEPT !.test = t, !.at = 1]
  BY <1>1, <1>2
<1>4. job'[w].at # NoJob.at
  BY <1>3 DEF NoJob
<1>5. /\ job'[w].test = t /\ job'[w].at = 1 /\ job'[w].pending = "none"
      /\ job'[w].tries = 0 /\ DOMAIN job'[w] = Fields
  BY <1>3 DEF NoJob, Fields
<1> QED
  BY <1>1, <1>2, <1>4, <1>5

\* A test that begins has its type.
LEMMA StartType ==
  ASSUME Base, NEW w \in Worker, NEW t \in Suite, Start(w, t)
  PROVE  TypeInv'
<1>1. Shape /\ TypeInv
  BY DEF Base, RebootInv
<1>2. /\ job'[w].test = t /\ job'[w].at = 1 /\ job'[w].pending = "none"
      /\ job'[w].tries = 0
      /\ \A v \in Worker \ {w} : job'[v] = job[v]
      /\ verdict[t] = "none" /\ verdict' = [verdict EXCEPT ![t] = "running"]
      /\ UNCHANGED <<outside, box, hello, aborted, history>>
  BY <1>1, StartStep
<1>3. JobOK(job'[w])
  <2>1. 1 \in DOMAIN Script[t]
    BY WriteTestsAssumption, ScriptsApart DEF Apart
  <2> QED
    BY <1>2, <2>1, WriteTestsAssumption DEF JobOK
<1>4. DeviceOK'
  BY <1>1, <1>2 DEF TypeInv, TypeOK, DeviceOK, outside, box
<1>5. RecordOK'
  BY <1>1, <1>2 DEF TypeInv, TypeOK, RecordOK, hello, history
<1>6. \A v \in Worker : JobOK(job'[v])
  BY <1>1, <1>2, <1>3 DEF TypeInv, TypeOK
<1>7. Sole'
  <2>1. \A v \in Worker \ {w} : Busy(v) => job[v].test # t /\ job[v].test \in Suite
    BY <1>1, <1>2 DEF TypeInv, TypeOK, JobOK, Sole, Busy
  <2>2. \A x \in Suite \ {t} : verdict'[x] = verdict[x]
    BY <1>2
  <2>3. verdict'[t] = "running"
    BY <1>1, <1>2 DEF Shape
  <2> QED
    BY <1>1, <1>2, <2>1, <2>2, <2>3 DEF TypeInv, Sole, Busy
<1>8. \A v \in Worker : SavedOK(v)'
  BY <1>1, <1>2 DEF TypeInv, SavedOK
<1> QED
  BY <1>4, <1>5, <1>6, <1>7, <1>8 DEF TypeInv, TypeOK

\* The device and the network touch no job and no verdict.
Outer == (\E a \in Axis : MotionEnds(a)) \/ GoDown \/ ComeUp \/ ForeignHello

LEMMA OuterStep ==
  ASSUME Outer
  PROVE  /\ UNCHANGED <<job, verdict, traits, began, fresh, aborted, mishaps,
                        crashed, faults>>
         /\ disturbed \subseteq disturbed'
<1>1. CASE \E a \in Axis : MotionEnds(a)
  BY <1>1 DEF MotionEnds, outside, hello, history
<1>2. CASE GoDown
  BY <1>2 DEF GoDown, outside, hello
<1>3. CASE ComeUp
  BY <1>3 DEF ComeUp, outside, history
<1>4. CASE ForeignHello
  BY <1>4 DEF ForeignHello, outside, history
<1> QED
  BY <1>1, <1>2, <1>3, <1>4 DEF Outer

\* What they change has its type.
LEMMA OuterType ==
  ASSUME Base, Outer
  PROVE  TypeInv'
<1>1. /\ Shape /\ TypeInv
      /\ UNCHANGED <<job, verdict, traits, began, fresh, aborted, mishaps, crashed,
                     faults>>
  BY OuterStep DEF Base, RebootInv
<1>2. /\ SettingOK(setting) /\ SettingOK(began)
      /\ motion \in [Axis -> {"idle", "goto", "timed", "endless"}]
      /\ identity \in {"first", "second"} /\ phase \in {"up", "accepted", "down"}
      /\ disturbed \cup wentDown \subseteq Suite
      /\ hellos \in Seq({"own", "foreign", "lookalike"}) /\ Len(hellos) <= MaxHellos
      /\ MaxHellos \in Nat
  BY <1>1, WriteTestsAssumption DEF TypeInv, TypeOK, DeviceOK, RecordOK, SettingOK
<1>3. \A kind \in {"own", "foreign", "lookalike"} : Captures(kind) =>
        /\ hellos' \in Seq({"own", "foreign", "lookalike"})
        /\ Len(hellos') <= MaxHellos
  BY <1>2 DEF Captures
<1>4. \A v \in Worker : Busy(v) => job[v].test \in Suite
  BY <1>1 DEF TypeInv, TypeOK, JobOK, Busy
<1>5. CASE \E a \in Axis : MotionEnds(a)
  <2>1. PICK a \in Axis : MotionEnds(a)
    BY <1>5
  <2>2. UNCHANGED <<phase, identity, setting, disturbed, wentDown, hellos>>
    BY <2>1 DEF MotionEnds, hello, history
  <2>3. motion' \in [Axis -> {"idle", "goto", "timed", "endless"}]
    BY <1>2, <2>1 DEF MotionEnds
  <2> QED
    BY <1>1, <2>2, <2>3 DEF TypeInv, TypeOK, DeviceOK, RecordOK, Sole, SavedOK, Busy
<1>6. CASE GoDown
  <2>1. phase' = "down" /\ UNCHANGED <<identity, hellos>>
    BY <1>6 DEF GoDown, hello
  <2>2. motion' \in [Axis -> {"idle", "goto", "timed", "endless"}]
    BY <1>6 DEF GoDown
  <2>3. SettingOK(setting')
    <3>1. PICK t \in {setting.timeout, began.timeout} :
            setting' = [setting EXCEPT !.timeout = t, !.search = "none"]
      BY <1>6 DEF GoDown
    <3>2. t \in Values.timeout
      BY <1>2, Things DEF SettingOK
    <3> QED
      BY <1>2, <3>1, <3>2, Things DEF SettingOK
  <2>4. disturbed' \cup wentDown' \subseteq Suite
    BY <1>2, <1>4, <1>6 DEF GoDown, Asked
  <2> QED
    BY <1>1, <2>1, <2>2, <2>3, <2>4
       DEF TypeInv, TypeOK, DeviceOK, RecordOK, Sole, SavedOK, Busy, SettingOK
<1>7. CASE ComeUp
  <2>1. /\ phase' = "up" /\ identity' \in {"first", "second"}
        /\ UNCHANGED <<setting, motion, disturbed, wentDown>>
    BY <1>7 DEF ComeUp, history
  <2>2. /\ hellos' \in Seq({"own", "foreign", "lookalike"})
        /\ Len(hellos') <= MaxHellos
    BY <1>2, <1>3, <1>7 DEF ComeUp
  <2> QED
    BY <1>1, <2>1, <2>2 DEF TypeInv, TypeOK, DeviceOK, RecordOK, Sole, SavedOK, Busy
<1>8. CASE ForeignHello
  <2>1. UNCHANGED <<phase, identity, setting, motion, disturbed, wentDown>>
    BY <1>8 DEF ForeignHello, box, history
  <2>2. /\ hellos' \in Seq({"own", "foreign", "lookalike"})
        /\ Len(hellos') <= MaxHellos
    BY <1>3, <1>8 DEF ForeignHello
  <2> QED
    BY <1>1, <2>1, <2>2 DEF TypeInv, TypeOK, DeviceOK, RecordOK, Sole, SavedOK, Busy
<1> QED
  BY <1>5, <1>6, <1>7, <1>8 DEF Outer

\* The types hold at the start.
LEMMA InitType == Init => TypeInv
<1> SUFFICES ASSUME Init
             PROVE  TypeInv
  OBVIOUS
<1>1. DeviceOK
  BY WriteTestsAssumption DEF Init, DeviceOK
<1>2. RecordOK
  <2>1. hellos \in Seq({"own", "foreign", "lookalike"}) /\ Len(hellos) = 0
    BY DEF Init
  <2> QED
    <3>1. /\ verdict = [t \in Suite |-> "none"] /\ crashed = {} /\ disturbed = {}
          /\ wentDown = {} /\ mishaps = {} /\ aborted = FALSE /\ fresh = FALSE
          /\ faults = 0
      BY DEF Init
    <3>2. verdict \in [Suite -> {"none", "running", "passed", "failed", "skipped",
                                "crashed"}]
      BY <3>1
    <3>3. MaxFaults \in Nat /\ MaxHellos \in Nat
      BY WriteTestsAssumption
    <3>4. faults \in 0..MaxFaults /\ Len(hellos) <= MaxHellos
      BY <2>1, <3>1, <3>3
    <3>5. \A m \in mishaps : m[1] \in Suite /\ m[2] \in DOMAIN Script[m[1]]
      BY <3>1
    <3>6. crashed \cup disturbed \cup wentDown \subseteq Suite
      BY <3>1
    <3> QED
      BY <2>1, <3>1, <3>2, <3>4, <3>5, <3>6 DEF RecordOK
<1>3. \A w \in Worker : ~Busy(w) /\ JobOK(job[w]) /\ SavedOK(w)
  BY DEF Init, JobOK, Busy, SavedOK, NoJob
<1> QED
  BY <1>1, <1>2, <1>3 DEF TypeInv, TypeOK, Sole

LEMMA InitBase == Init => Base
  BY InitReboot, InitMotor, InitType DEF Base

\* A step is a worker's, a test's beginning, or none of theirs.
LEMMA Steps ==
  ASSUME [Next]_vars
  PROVE  \/ \E w \in Worker, t \in Suite : Start(w, t)
         \/ \E w \in Worker : Acts(w)
         \/ Outer
         \/ UNCHANGED vars
  BY DEF Next, Acts, Outer, Terminated

\* And every step keeps them.
LEMMA NextBase == Base /\ [Next]_vars => Base'
<1> SUFFICES ASSUME Base, [Next]_vars
             PROVE  TypeInv'
  BY NextReboot, NextMotor DEF Base
<1>1. CASE UNCHANGED vars
  <2>1. UNCHANGED <<traits, phase, identity, setting, motion, began, job, fresh,
                    hellos, aborted, verdict, mishaps, crashed, disturbed,
                    wentDown, faults>>
    BY <1>1 DEF vars, outside, box, hello, history
  <2>2. DeviceOK' /\ RecordOK'
    BY <2>1 DEF Base, TypeInv, TypeOK, DeviceOK, RecordOK
  <2> QED
    BY <2>1, <2>2 DEF Base, TypeInv, TypeOK, Sole, SavedOK, Busy
<1> QED
  BY <1>1, Steps, WorkerType, StartType, OuterType

\* Every value has its type: what a test puts back is a value of the setting it
\* read (ptz.py:449-469, base.py:536-567), and a worker is at a step of its script.
THEOREM TypeCorrect == Spec => []TypeOK
<1>1. Base => TypeOK
  BY DEF Base, TypeInv
<1> QED
  BY <1>1, InitBase, NextBase, PTL DEF Spec

------------------------------------------------------------------------------
\* Either the device carried the request out, or it stayed as it was.
LEMMA Touch ==
  ASSUME NEW w \in Worker, Acts(w)
  PROVE  Calm \/ (Heard(w) /\ ~Refused(Now(w)))
  BY WorkerStep DEF Good, Bad, Faulted, Declined, Missed, Waited, Stranger, Dropped,
                    Again, Calm, MaybeHeard

\* Where a step that goes well leaves its worker, and one that raises.
LEMMA AfterProceed ==
  ASSUME Base, NEW w \in Worker, Busy(w), NEW x, Proceed(w, x)
  PROVE  \/ /\ job[w].pending # "none" /\ job'[w] = NoJob
            /\ verdict' = [verdict EXCEPT ![job[w].test] = job[w].pending]
         \/ /\ job[w].pending = "none" /\ job[w].at = Len(Script[job[w].test])
            /\ job'[w] = NoJob
            /\ verdict' = [verdict EXCEPT ![job[w].test] = "passed"]
         \/ /\ job[w].pending = "none" /\ job[w].at # Len(Script[job[w].test])
            /\ job'[w].test = job[w].test /\ job'[w].at = job[w].at + 1
            /\ job'[w].pending = "none" /\ job'[w].saved = x
            /\ verdict' = verdict
<1>1. DOMAIN job = Worker /\ DOMAIN job[w] = Fields
  BY AtStep
<1>2. ASSUME NEW o, End(w, o)
      PROVE  job'[w] = NoJob /\ verdict' = [verdict EXCEPT ![job[w].test] = o]
  BY <1>1, <1>2 DEF End
<1>3. ASSUME job' = [job EXCEPT ![w].at = @ + 1, ![w].saved = x]
      PROVE  /\ job'[w].test = job[w].test /\ job'[w].at = job[w].at + 1
             /\ job'[w].pending = job[w].pending /\ job'[w].saved = x
  BY <1>1, <1>3 DEF Fields
<1>4. CASE job[w].pending # "none" /\ End(w, job[w].pending)
  BY <1>2, <1>4
<1>5. CASE /\ job[w].pending = "none" /\ job[w].at = Len(Script[job[w].test])
           /\ End(w, "passed")
  BY <1>2, <1>5
<1>6. CASE /\ job[w].pending = "none" /\ job[w].at # Len(Script[job[w].test])
           /\ job' = [job EXCEPT ![w].at = @ + 1, ![w].saved = x]
           /\ verdict' = verdict
  BY <1>3, <1>6
<1> QED
  BY <1>4, <1>5, <1>6, ProceedCases

LEMMA AfterRaise ==
  ASSUME Base, NEW w \in Worker, Busy(w), NEW what, Raise(w, what)
  PROVE  \/ /\ Caught(Now(w), what) /\ Now(w).absorbs = "skip" /\ job'[w] = NoJob
            /\ verdict' = [verdict EXCEPT ![job[w].test] = "skipped"]
         \/ /\ Caught(Now(w), what) /\ Now(w).absorbs # "skip"
            /\ Proceed(w, job[w].saved)
         \/ /\ ~Caught(Now(w), what) /\ Now(w).fin = 0 /\ job'[w] = NoJob
            /\ verdict' = [verdict EXCEPT ![job[w].test] = "failed"]
         \/ /\ ~Caught(Now(w), what) /\ Now(w).fin # 0
            /\ job'[w].test = job[w].test /\ job'[w].at = Now(w).fin
            /\ job'[w].pending = "failed" /\ job'[w].saved = job[w].saved
            /\ verdict' = verdict
<1>1. DOMAIN job = Worker /\ DOMAIN job[w] = Fields
  BY AtStep
<1>2. ASSUME NEW o, End(w, o)
      PROVE  job'[w] = NoJob /\ verdict' = [verdict EXCEPT ![job[w].test] = o]
  BY <1>1, <1>2 DEF End
<1>3. ASSUME job' = [job EXCEPT ![w].at = Now(w).fin, ![w].pending = "failed"]
      PROVE  /\ job'[w].test = job[w].test /\ job'[w].at = Now(w).fin
             /\ job'[w].pending = "failed" /\ job'[w].saved = job[w].saved
  BY <1>1, <1>3 DEF Fields
<1>4. CASE Caught(Now(w), what)
  BY <1>2, <1>4, RaiseCases
<1>5. CASE ~Caught(Now(w), what) /\ Now(w).fin = 0
  BY <1>2, <1>5, RaiseCases
<1>6. CASE ~Caught(Now(w), what) /\ Now(w).fin # 0
  BY <1>3, <1>6, RaiseCases
<1> QED
  BY <1>4, <1>5, <1>6

\* One more attempt moves nothing.
LEMMA AfterAgain ==
  ASSUME Base, NEW w \in Worker, Busy(w), Again(w)
  PROVE  /\ job'[w].test = job[w].test /\ job'[w].at = job[w].at
         /\ job'[w].pending = job[w].pending /\ job'[w].saved = job[w].saved
         /\ verdict' = verdict
<1>1. DOMAIN job = Worker /\ DOMAIN job[w] = Fields
  BY AtStep
<1> QED
  BY <1>1 DEF Again, Retries, Fields

\* A test that is dropped ends.
LEMMA AfterDrop ==
  ASSUME Base, NEW w \in Worker, Busy(w), Dropped(w)
  PROVE  /\ job'[w] = NoJob
         /\ \E o \in {"skipped", "crashed"} :
              verdict' = [verdict EXCEPT ![job[w].test] = o]
<1>1. DOMAIN job = Worker
  BY AtStep
<1> QED
  BY <1>1 DEF Dropped, End

------------------------------------------------------------------------------
(***************************************************************************)
(* That every setting is put back.  Until a test has carried out its       *)
(* restore it has it ahead of it, and what it restores is what the run     *)
(* found.                                                                  *)
(***************************************************************************)
Four == {"timeout", "clock", "relay", "search"}

Back(x) == setting[x] = began[x] \/ (x = "relay" /\ setting.relay = "idle")

\* The step of the writer that changes the setting; after it a restore is owed.
PutAt(x) == IF x = "search" THEN 1 ELSE 2
Owes(w, x) == Busy(w) /\ job[w].test = Writer(x) /\ job[w].at > PutAt(x)

\* What the writer read is what the run found.
Knew(w, x) ==
  job[w].test = Writer(x) /\ job[w].at > 1 /\ x \in {"timeout", "clock"} =>
    job[w].saved = began[x]

\* An exception is pending in a finally only.
Pended(w) ==
  Busy(w) /\ job[w].pending # "none" =>
    \E i \in 1..Len(Script[job[w].test]) : Script[job[w].test][i].fin = job[w].at

\* Between the put and the check the clock is as the test set it.
ClockSet(w) ==
  job[w].test = "set_date_and_time" /\ job[w].at = 3 =>
    setting.clock = "Manual" \/ "ignores_writes" \in traits

\* What a device does not let go of.
Stuck ==
  /\ began.search = "none"
  /\ "ignores_writes" \in traits =>
       /\ \A x \in Four : setting[x] = began[x]
       /\ \A w \in Worker, x \in {"timeout", "clock"} : Knew(w, x)
  /\ "takes_idle_words" \notin traits => setting.relay = began.relay

PutBackInv ==
  /\ \A w \in Worker : Pended(w) /\ ClockSet(w)
  /\ Stuck
  /\ \A x \in Four :
       \/ LeftBehind(x)
       \/ /\ \A w \in Worker : Knew(w, x)
          /\ Back(x) \/ \E w \in Worker : Owes(w, x)

\* The script of a writer: it reads, puts, perhaps checks, and restores.
Puts(x, s) ==
  /\ Len(s) = (CASE x = "search" -> 2 [] x = "relay" -> 3 [] OTHER -> 4)
  /\ \A i \in 1..Len(s) :
       /\ s[i].on = x /\ s[i].fin \in {0, Len(s)}
       /\ i < PutAt(x) => /\ s[i].do = "read" /\ s[i].fin = 0
                          /\ s[i].absorbs = "nothing"
       /\ i = PutAt(x) => /\ s[i].do = "put"
                          /\ s[i].absorbs = (IF x = "search" THEN "skip" ELSE "nothing")
                          /\ x = "relay" => s[i].fin = 3 /\ s[i].absorbs = "nothing"
       /\ i > PutAt(x) /\ i < Len(s) =>
            /\ s[i].do = "check" /\ s[i].absorbs = "nothing"
            /\ s[i].fin = (IF x = "clock" THEN 0 ELSE Len(s))
       /\ i = Len(s) => s[i].do = "restore" /\ s[i].fin = 0

LEMMA ScriptsPut == ASSUME NEW x \in Four PROVE Puts(x, Script[Writer(x)])
<1> USE DEF Puts, PutAt, Step, InTry, Absorbing
<1>1. CASE x = "timeout"
  <2>1. Writer("timeout") = "set_configuration" /\ Script["set_configuration"] = SetConfiguration
    BY DEF Writer, Script
  <2>2. Puts("timeout", SetConfiguration)
    BY DEF SetConfiguration
  <2> HIDE DEF Puts
  <2> QED
    BY <1>1, <2>1, <2>2
<1>2. CASE x = "clock"
  <2>1. Writer("clock") = "set_date_and_time" /\ Script["set_date_and_time"] = SetDateAndTime
    BY DEF Writer, Script
  <2>2. Puts("clock", SetDateAndTime)
    BY DEF SetDateAndTime
  <2> HIDE DEF Puts
  <2> QED
    BY <1>2, <2>1, <2>2
<1>3. CASE x = "relay"
  <2>1. Writer("relay") = "relay_state" /\ Script["relay_state"] = RelayState
    BY DEF Writer, Script
  <2>2. Puts("relay", RelayState)
    BY DEF RelayState
  <2> HIDE DEF Puts
  <2> QED
    BY <1>3, <2>1, <2>2
<1>4. CASE x = "search"
  <2>1. Writer("search") = "find_recordings" /\ Script["find_recordings"] = FindRecordings
    BY DEF Writer, Script
  <2>2. Puts("search", FindRecordings)
    BY DEF FindRecordings
  <2> HIDE DEF Puts
  <2> QED
    BY <1>4, <2>1, <2>2
<1> QED
  BY <1>1, <1>2, <1>3, <1>4 DEF Four

\* Nobody else changes it.
LEMMA OthersLeave ==
  ASSUME Base, NEW w \in Worker, Acts(w), NEW x \in Four,
         job[w].test # Writer(x) \/ Now(w).do \notin {"put", "restore"}
  PROVE  setting'[x] = setting[x]
<1>1. /\ Now(w).do \in {"put", "restore"} => Writer(Now(w).on) = job[w].test
      /\ DOMAIN setting = Thing
  <2>1. Busy(w)
    BY WorkerStep
  <2>2. DOMAIN setting = Thing
    BY DEF Base, TypeInv, TypeOK, DeviceOK
  <2> QED
    BY <2>1, <2>2, StepApart
<1>2. CASE Calm
  BY <1>2 DEF Calm, box
<1>3. CASE setting' = Written(Now(w), job[w].saved)
  <2>1. CASE Now(w).do = "command"
    BY <1>1, <1>3, <2>1, Things DEF Written, Ignored, Four
  <2>2. CASE Now(w).do \in {"put", "restore"}
    <3>1. Now(w).on # x
      BY <1>1, <2>2
    <3> QED
      BY <1>1, <1>3, <2>2, <3>1 DEF Written
  <2>3. CASE Now(w).do \notin {"put", "restore", "command"}
    BY <1>3, <2>3 DEF Written
  <2> QED
    BY <2>1, <2>2, <2>3
<1> QED
  BY <1>2, <1>3, Touch DEF Heard

\* What did not come through is recorded.
LEMMA MissedStep ==
  ASSUME NEW w \in Worker, Mishap(w)
  PROVE  Now(w) \in MishapSteps' /\ <<job[w].test, job[w].at>> \in mishaps'
<1> DEFINE m == <<job[w].test, job[w].at>>
<1>1. m \in mishaps'
  BY DEF Mishap
<1>2. Now(w) = Script[m[1]][m[2]]
  BY DEF Now
<1>3. Now(w) \in {Script[n[1]][n[2]] : n \in mishaps'}
  BY <1>1, <1>2
<1> QED
  BY <1>1, <1>3 DEF MishapSteps

LEMMA LeftBehindStays ==
  ASSUME traits' = traits, mishaps \subseteq mishaps', crashed \subseteq crashed',
         NEW x, LeftBehind(x)
  PROVE  LeftBehind(x)'
  BY DEF LeftBehind, MishapSteps

\* A step of the writer leads to one of four: it has not written yet, it owes a
\* restore, it has restored, or the clock was not as it had set it.
LEMMA WriterStep ==
  ASSUME Base, NEW w \in Worker, Acts(w), Pended(w), NEW x \in Four,
         job[w].test = Writer(x), ~LeftBehind(x)'
  PROVE  \/ /\ job[w].at <= PutAt(x) /\ setting'[x] = setting[x]
            /\ \/ job'[w] = NoJob
               \/ /\ job'[w].test = job[w].test /\ job'[w].at <= PutAt(x)
                  /\ job'[w].at > job[w].at => job'[w].saved = Shown(x)
         \/ /\ job'[w].test = job[w].test /\ job'[w].at > PutAt(x)
            /\ job'[w].at > job[w].at /\ job[w].at < PutAt(x) =>
                 job'[w].saved = Shown(x)
         \/ /\ job[w].at = Len(Script[job[w].test])
            /\ \/ setting' = Written(Now(w), job[w].saved)
               \/ Refused(Now(w)) /\ setting' = setting
         \/ /\ x = "clock" /\ job[w].at = 3 /\ setting'[x] = setting[x]
            /\ setting.clock # "Manual"
<1> DEFINE s == Script[job[w].test]
           at == job[w].at
<1>1. /\ Busy(w) /\ at \in 1..Len(s) /\ Now(w) = s[at] /\ DOMAIN job = Worker
      /\ crashed \subseteq crashed' /\ mishaps \subseteq mishaps' /\ traits' = traits
  BY WorkerStep, AtStep DEF Remembers
<1>2. Puts(x, s)
  BY ScriptsPut
<1>3. /\ Len(s) \in {2, 3, 4} /\ PutAt(x) \in {1, 2} /\ PutAt(x) < Len(s)
      /\ PutAt(x) = 1 <=> x = "search"
      /\ Len(s) = 4 <=> x \in {"timeout", "clock"}
      /\ x = "relay" => Len(s) = 3 /\ PutAt(x) = 2
      /\ x = "clock" => PutAt(x) = 2
  BY <1>2 DEF Puts, PutAt, Four
<1>4. /\ Now(w).on = x /\ Now(w).fin \in {0, Len(s)}
      /\ at < PutAt(x) => /\ Now(w).do = "read" /\ Now(w).fin = 0
                          /\ Now(w).absorbs = "nothing"
      /\ at = PutAt(x) => /\ Now(w).do = "put"
                          /\ x = "relay" => Now(w).fin = 3 /\ Now(w).absorbs = "nothing"
      /\ at > PutAt(x) /\ at < Len(s) =>
            /\ Now(w).do = "check" /\ Now(w).absorbs = "nothing"
            /\ Now(w).fin = (IF x = "clock" THEN 0 ELSE Len(s))
      /\ at = Len(s) => Now(w).do = "restore" /\ Now(w).fin = 0
  BY <1>1, <1>2 DEF Puts
<1>0. at \in Int /\ 1 <= at /\ at <= Len(s) /\ Len(s) \in Int /\ PutAt(x) \in Int
  BY <1>1, <1>3
<1>5. at # Len(s) => job[w].pending = "none"
  BY <1>1, <1>2, <1>3 DEF Pended, Puts
<1>6. Now(w).do \in {"read", "put", "check", "restore"}
  BY <1>1, <1>3, <1>4
<1> HIDE DEF s, at
<1>7. setting'[x] = setting[x] \/ Now(w).do \in {"put", "restore"}
  BY OthersLeave
<1>8. CASE Good(w)
  <2>1. CASE at = Len(s)
    BY <1>8, <2>1 DEF Good, Heard, s, at
  <2>2. CASE at # Len(s)
    <3>1. /\ job'[w].test = job[w].test /\ job'[w].at = at + 1
          /\ job'[w].saved = Kept(w)
      BY <1>1, <1>5, <1>8, <2>2, AfterProceed DEF Good, s, at
    <3> QED
      BY <1>1, <1>3, <1>4, <1>7, <2>2, <3>1 DEF Kept, s, at
  <2> QED
    BY <2>1, <2>2
<1>9. CASE Bad(w)
  <2>0. Now(w).do # "put"
    <3>1. ASSUME Now(w).do = "put"
          PROVE  x = "search" /\ "no_token" \in traits'
      <4>1. Holds(Now(w), job[w].saved) <=> (Now(w).on = "search" => "no_token" \notin traits)
        BY <3>1 DEF Holds
      <4> QED
        BY <1>1, <1>4, <1>9, <4>1 DEF Bad
    <3> QED
      BY <3>1 DEF LeftBehind
  <2>1. Now(w).do = "check" /\ Shown(x) # Target(x, job[w].saved)
    BY <1>4, <1>6, <1>9, <2>0 DEF Bad, Holds, Four
  <2>2. at > PutAt(x) /\ at < Len(s) /\ Now(w).absorbs = "nothing"
    BY <1>1, <1>3, <1>4, <2>1
  <2>3. CASE x = "clock"
    <3>1. at = 3 /\ setting'[x] = setting[x]
      <4>1. Len(s) = 4 /\ PutAt(x) = 2
        BY <1>3, <2>3
      <4> QED
        BY <1>0, <1>7, <2>1, <2>2, <4>1
    <3>2. setting.clock # "Manual"
      BY <2>1, <2>3 DEF Shown, Target
    <3> QED
      BY <2>3, <3>1, <3>2 DEF at
  <2>4. CASE x # "clock"
    <3>1. Raise(w, "assertion") /\ Now(w).fin = Len(s) /\ ~Caught(Now(w), "assertion")
      BY <1>4, <1>9, <2>2, <2>4 DEF Bad, Caught
    <3>2. Now(w).fin # 0
      BY <1>3, <3>1
    <3>3. job'[w].test = job[w].test /\ job'[w].at = Len(s)
      BY <1>1, <3>1, <3>2, AfterRaise
    <3> QED
      BY <1>1, <1>3, <2>2, <3>3 DEF s, at
  <2> QED
    BY <2>3, <2>4
<1>10. CASE Faulted(w)
  <2>1. /\ Raise(w, "fault") /\ setting' = setting /\ Refused(Now(w))
        /\ Now(w).do # "read"
    BY <1>6, <1>10 DEF Faulted, Refused, Calm, box
  <2>2. CASE at = Len(s)
    BY <2>1, <2>2 DEF s, at
  <2>3. CASE at = PutAt(x)
    <3>1. CASE job'[w] = NoJob
      BY <1>0, <2>1, <2>3, <3>1 DEF at
    <3>2. CASE Proceed(w, job[w].saved)
      <4>1. job'[w] = NoJob \/ (job'[w].test = job[w].test /\ job'[w].at = at + 1)
        BY <1>1, <3>2, AfterProceed DEF at
      <4> QED
        BY <1>0, <2>1, <2>3, <3>1, <4>1 DEF at
    <3>3. CASE /\ Now(w).fin # 0 /\ job'[w].test = job[w].test
               /\ job'[w].at = Now(w).fin
      <4>1. job'[w].at = Len(s)
        BY <1>4, <3>3
      <4> QED
        BY <1>0, <1>3, <2>3, <3>3, <4>1 DEF at
    <3> QED
      BY <1>1, <2>1, <3>1, <3>2, <3>3, AfterRaise
  <2>4. CASE at > PutAt(x) /\ at < Len(s)
    <3>1. Now(w).do = "check" /\ Now(w).absorbs = "nothing" /\ Now(w).on = x
      BY <1>4, <2>4
    <3>2. x # "clock"
      <4>1. x = "clock" => "no_readback" \in traits'
        BY <1>1, <2>1, <3>1 DEF Refused
      <4> QED
        BY <4>1 DEF LeftBehind
    <3>3. Now(w).fin = Len(s) /\ Now(w).fin # 0
      BY <1>3, <1>4, <2>4, <3>2
    <3>4. job'[w].test = job[w].test /\ job'[w].at = Len(s)
      BY <1>1, <2>1, <3>1, <3>3, AfterRaise DEF Caught
    <3> QED
      BY <1>0, <1>3, <2>4, <3>4 DEF at
  <2>5. ~(at < PutAt(x))
    BY <1>4, <2>1
  <2> QED
    BY <1>0, <2>2, <2>3, <2>4, <2>5
<1>11. CASE Missed(w)
  <2>1. PICK what : Raise(w, what)
    BY <1>11 DEF Missed
  <2>2. Now(w) \in MishapSteps'
    BY <1>11, MissedStep DEF Missed
  <2>3. Now(w).do \notin {"put", "restore"} /\ (x = "clock" => Now(w).do # "check")
    BY <1>4, <2>2 DEF LeftBehind
  <2>4. Now(w).absorbs = "nothing"
    BY <1>1, <1>3, <1>4, <2>3
  <2>5. CASE at < PutAt(x)
    <3>1. job'[w] = NoJob
      BY <1>1, <1>4, <2>1, <2>4, <2>5, AfterRaise DEF Caught
    <3> QED
      BY <1>1, <1>3, <1>7, <2>3, <2>5, <3>1 DEF at
  <2>6. CASE at > PutAt(x)
    <3>1. at < Len(s) /\ x # "clock" /\ Now(w).fin = Len(s) /\ Now(w).fin # 0
      BY <1>1, <1>3, <1>4, <2>3, <2>6
    <3>2. job'[w].test = job[w].test /\ job'[w].at = Len(s)
      BY <1>1, <2>1, <2>4, <3>1, AfterRaise DEF Caught
    <3> QED
      BY <1>1, <1>3, <2>6, <3>1, <3>2 DEF s, at
  <2> QED
    BY <1>1, <1>3, <1>4, <2>3, <2>5, <2>6
<1>12. CASE Dropped(w)
  <2>0. CASE Now(w).do = "read"
    <3>1. at < PutAt(x)
      BY <1>0, <1>3, <1>4, <2>0
    <3>2. job'[w] = NoJob /\ setting'[x] = setting[x]
      BY <1>1, <1>7, <1>12, <2>0, AfterDrop
    <3> QED
      BY <1>0, <3>1, <3>2 DEF at
  <2>1. CASE Now(w).do # "read"
    <3>1. job[w].test \in crashed'
      BY <1>6, <1>12, <2>1 DEF Dropped
    <3>2. About(Now(w)) = x
      BY <1>4 DEF About, Axis, Four
    <3>3. x \in Subjects(job[w].test)
      <4>1. job[w].at \in DOMAIN Script[job[w].test]
        BY <1>1, AtStep DEF Apart
      <4> QED
        BY <1>1, <3>2, <4>1 DEF Subjects, s, at
    <3> QED
      BY <3>1, <3>3 DEF LeftBehind
  <2> QED
    BY <2>0, <2>1
<1>13. CASE Again(w)
  <2>1. job'[w].test = job[w].test /\ job'[w].at = at /\ setting' = setting
    BY <1>1, <1>13, AfterAgain DEF Again, Calm, box, at
  <2> QED
    BY <1>1, <1>3, <2>1 DEF at
<1>14. ~Declined(w) /\ ~Waited(w) /\ ~Stranger(w)
  BY <1>6 DEF Declined, Waited, Stranger
<1> QED
  BY <1>8, <1>9, <1>10, <1>11, <1>12, <1>13, <1>14, WorkerStep

\* No two workers run one test, and a step of one leaves the other's job alone.
LEMMA Alone ==
  ASSUME Base, NEW w \in Worker, Acts(w)
  PROVE  /\ Busy(w) /\ job[w].test \in Suite /\ Remembers
         /\ \A v \in Worker \ {w} :
              /\ job'[v] = job[v]
              /\ Busy(v) => job[v].test # job[w].test
         /\ job'[w] = NoJob \/ job'[w].test = job[w].test
         /\ \A t \in Suite \ {job[w].test} : verdict'[t] = verdict[t]
<1>1. Busy(w) /\ Remembers
  BY WorkerStep
<1>2. /\ \A v \in Worker \ {w} : job'[v] = job[v]
      /\ job'[w] = NoJob \/ job'[w].test = job[w].test
      /\ \A t \in Suite \ {job[w].test} : verdict'[t] = verdict[t]
  BY ActsJob, JobStep DEF Base, RebootInv
<1>3. \A v \in Worker \ {w} : Busy(v) => job[v].test # job[w].test
  BY <1>1 DEF Base, TypeInv, Sole
<1> QED
  BY <1>1, <1>2, <1>3, AtStep

\* What is pending took its worker to a finally.
LEMMA PendedStep ==
  ASSUME Base, NEW w \in Worker, Acts(w), Pended(w)
  PROVE  Pended(w)'
<1>1. /\ Busy(w) /\ job[w].at \in 1..Len(Script[job[w].test])
      /\ Now(w) = Script[job[w].test][job[w].at]
  BY WorkerStep, AtStep
<1>2. ASSUME NEW x, Proceed(w, x)
      PROVE  Pended(w)'
  BY <1>1, <1>2, AfterProceed DEF Pended, Busy
<1>3. ASSUME NEW what, Raise(w, what)
      PROVE  Pended(w)'
  <2>1. CASE job'[w] = NoJob
    BY <2>1 DEF Pended, Busy
  <2>2. CASE Proceed(w, job[w].saved)
    BY <1>2, <2>2
  <2>3. CASE job'[w].test = job[w].test /\ job'[w].at = Now(w).fin
    BY <1>1, <2>3 DEF Pended
  <2> QED
    BY <1>1, <1>3, <2>1, <2>2, <2>3, AfterRaise
<1>4. CASE Dropped(w)
  BY <1>1, <1>4, AfterDrop DEF Pended, Busy
<1>5. CASE Again(w)
  BY <1>1, <1>5, AfterAgain DEF Pended
<1> QED
  BY <1>2, <1>3, <1>4, <1>5, WorkerStep
     DEF Good, Bad, Faulted, Declined, Missed, Waited, Stranger

\* The clock's test is in no try: only what goes well leads on.
LEMMA ClockScript ==
  LET s == Script["set_date_and_time"] IN
  /\ Len(s) = 4
  /\ \A i \in 1..4 : s[i].fin = 0 /\ s[i].absorbs = "nothing" /\ s[i].on = "clock"
  /\ s[1].do = "read" /\ s[2].do = "put" /\ s[3].do = "check" /\ s[4].do = "restore"
<1>1. Script["set_date_and_time"] = SetDateAndTime
  BY DEF Script
<1> QED
  BY <1>1 DEF SetDateAndTime, Step

LEMMA ClockStep ==
  ASSUME Base, NEW w \in Worker, Acts(w), ClockSet(w)
  PROVE  ClockSet(w)'
<1> SUFFICES ASSUME job'[w].test = "set_date_and_time", job'[w].at = 3
             PROVE  setting'.clock = "Manual" \/ "ignores_writes" \in traits'
  BY DEF ClockSet
<1>1. /\ job'[w] # NoJob /\ job[w].test = "set_date_and_time" /\ Busy(w)
      /\ traits' = traits
  BY Alone DEF NoJob, Remembers
<1>2. /\ Now(w) = Script["set_date_and_time"][job[w].at] /\ job[w].at \in 1..4
      /\ DOMAIN setting = Thing
  BY <1>1, AtStep, ClockScript DEF Base, TypeInv, TypeOK, DeviceOK
<1>3. /\ Now(w).fin = 0 /\ Now(w).absorbs = "nothing" /\ Now(w).on = "clock"
      /\ job[w].at = 2 => Now(w).do = "put"
      /\ Now(w).do \in {"read", "put", "check", "restore"}
  <2>1. job[w].at = 1 \/ job[w].at = 2 \/ job[w].at = 3 \/ job[w].at = 4
    BY <1>2
  <2> QED
    BY <1>2, <2>1, ClockScript
<1>4. \A what : ~Raise(w, what)
  BY <1>1, <1>3, AfterRaise DEF Caught
<1>5. CASE Good(w)
  <2>1. job[w].at = 2
    BY <1>1, <1>2, <1>5, AfterProceed DEF Good
  <2>2. setting' = Written(Now(w), job[w].saved) /\ Now(w).do = "put"
    BY <1>3, <1>5, <2>1 DEF Good, Heard
  <2> QED
    BY <1>1, <1>2, <1>3, <2>2, Things DEF Written, Ignored, Target
<1>6. CASE Again(w)
  <2>1. job[w].at = 3 /\ setting' = setting
    BY <1>1, <1>6, AfterAgain DEF Again, Calm, box
  <2> QED
    BY <1>1, <2>1 DEF ClockSet
<1>7. ~Dropped(w)
  BY <1>1, AfterDrop
<1> QED
  BY <1>3, <1>4, <1>5, <1>6, <1>7, WorkerStep
     DEF Bad, Faulted, Declined, Missed, Waited, Stranger

\* What a worker knows of the timeout or the clock is what it read of it.
LEMMA KnewStep ==
  ASSUME Base, NEW w \in Worker, Acts(w), NEW x \in {"timeout", "clock"}, Knew(w, x),
         job[w].test = Writer(x) /\ job[w].at = 1 => setting[x] = began[x]
  PROVE  Knew(w, x)'
<1> SUFFICES ASSUME job'[w].test = Writer(x), job'[w].at > 1
             PROVE  job'[w].saved = began'[x]
  BY DEF Knew
<1>1. /\ job'[w] # NoJob /\ job[w].test = Writer(x) /\ Busy(w) /\ began' = began
  BY Alone DEF NoJob, Remembers, Writer
<1>2. Writer(x) \in Readers /\ Looks(Writer(x)) = x
  BY DEF Writer, Readers, Looks
<1>3. job[w].at = 1 \/ job[w].at > 1
  BY <1>1, AtStep
<1>4. CASE job[w].at = 1
  <2>1. job'[w].saved = Shown(x)
    BY <1>1, <1>2, <1>4, SavedStep
  <2> QED
    BY <1>1, <1>4, <2>1 DEF Shown
<1>5. CASE job[w].at > 1
  BY <1>1, <1>2, <1>5, SavedStep DEF Knew
<1> QED
  BY <1>3, <1>4, <1>5

\* What the device does not let go of, no step of a worker takes from it.
LEMMA StuckStep ==
  ASSUME Base, NEW w \in Worker, Acts(w), Stuck
  PROVE  Stuck'
<1>1. /\ traits' = traits /\ began' = began /\ Busy(w)
      /\ \A v \in Worker \ {w} : job'[v] = job[v]
      /\ DOMAIN setting = Thing
  BY Alone DEF Remembers, Base, TypeInv, TypeOK, DeviceOK
<1>2. ASSUME "ignores_writes" \in traits, NEW x \in Four
      PROVE  setting'[x] = setting[x]
  <2>1. CASE setting' = Written(Now(w), job[w].saved)
    BY <1>1, <1>2, <2>1, Things DEF Written, Ignored, Four
  <2> QED
    BY <2>1, Touch DEF Calm, box, Heard
<1>3. ASSUME "ignores_writes" \in traits, NEW v \in Worker, NEW x \in {"timeout", "clock"}
      PROVE  Knew(v, x)'
  <2>1. Knew(v, x) /\ setting[x] = began[x]
    BY <1>3 DEF Stuck, Four
  <2>2. CASE v = w
    BY <1>3, <2>1, <2>2, KnewStep
  <2>3. CASE v # w
    BY <1>1, <2>1, <2>3 DEF Knew
  <2> QED
    BY <2>2, <2>3
<1>4. ASSUME "takes_idle_words" \notin traits
      PROVE  setting'.relay = setting.relay
  <2>1. "relay" \in Four /\ Writer("relay") = "relay_state"
    BY DEF Four, Writer
  <2>2. CASE job[w].test # "relay_state" \/ Now(w).do \notin {"put", "restore"}
    BY <2>1, <2>2, OthersLeave
  <2>3. CASE job[w].test = "relay_state" /\ Now(w).do \in {"put", "restore"}
    <3>1. Now(w).on = "relay"
      <4>1. Puts("relay", Script["relay_state"])
        BY <2>1, ScriptsPut
      <4> QED
        BY <1>1, <2>3, <4>1, AtStep DEF Puts
    <3>2. Refused(Now(w))
      BY <1>4, <2>3, <3>1 DEF Refused
    <3> QED
      BY <3>2, Touch DEF Calm, box
  <2> QED
    BY <2>2, <2>3
<1> QED
  BY <1>1, <1>2, <1>3, <1>4 DEF Stuck

\* The writer restores what the run found.
LEMMA Restores ==
  ASSUME Base, PutBackInv, NEW w \in Worker, Acts(w), NEW x \in Four,
         job[w].test = Writer(x), Knew(w, x), ~LeftBehind(x),
         job[w].at = Len(Script[job[w].test]),
         \/ setting' = Written(Now(w), job[w].saved)
         \/ Refused(Now(w)) /\ setting' = setting
  PROVE  Back(x)'
<1>1. /\ traits' = traits /\ began' = began /\ Busy(w) /\ Stuck /\ DOMAIN setting = Thing
      /\ SavedOK(w) /\ traits \cap {"refuses_restore", "ignores_restore"} = {}
  BY Alone DEF Remembers, Base, TypeInv, TypeOK, DeviceOK, PutBackInv, LeftBehind
<1>2. /\ Now(w).do = "restore" /\ Now(w).on = x /\ job[w].at > 1
  <2>1. Puts(x, Script[job[w].test])
    BY ScriptsPut
  <2>2. Len(Script[job[w].test]) > 1 /\ Len(Script[job[w].test]) \in Nat
    BY <2>1 DEF Puts, Four
  <2> QED
    BY <1>1, <2>1, <2>2, AtStep DEF Puts
<1>3. x \in Thing
  BY Things DEF Four
<1>4. CASE Refused(Now(w)) /\ setting' = setting
  <2>1. x = "relay" /\ "takes_idle_words" \notin traits
    BY <1>1, <1>2, <1>4 DEF Refused
  <2> QED
    BY <1>1, <1>4, <2>1 DEF Stuck, Back
<1>5. CASE setting' = Written(Now(w), job[w].saved) /\ "ignores_writes" \in traits
  <2>1. setting' = setting /\ setting[x] = began[x]
    BY <1>1, <1>2, <1>5 DEF Written, Ignored, Stuck
  <2> QED
    BY <1>1, <2>1 DEF Back
<1>6. CASE setting' = Written(Now(w), job[w].saved) /\ "ignores_writes" \notin traits
  <2>1. setting'[x] = IF x = "search" THEN "none" ELSE job[w].saved
    BY <1>1, <1>2, <1>3, <1>6 DEF Written, Ignored
  <2>2. CASE x = "search"
    BY <1>1, <2>1, <2>2 DEF Stuck, Back
  <2>3. CASE x = "relay"
    BY <1>1, <1>2, <2>1, <2>3 DEF SavedOK, Writer, Back
  <2>4. CASE x \in {"timeout", "clock"}
    BY <1>1, <1>2, <2>1, <2>4 DEF Knew, Back
  <2> QED
    BY <2>2, <2>3, <2>4 DEF Four
<1> QED
  BY <1>4, <1>5, <1>6

\* One setting: it is as the run found it, or somebody still owes its restore.
LEMMA SettingStep ==
  ASSUME Base, PutBackInv, NEW w \in Worker, Acts(w), NEW x \in Four, ~LeftBehind(x)'
  PROVE  /\ \A v \in Worker : Knew(v, x)'
         /\ Back(x)' \/ \E v \in Worker : Owes(v, x)'
<1>1. /\ Busy(w) /\ traits' = traits /\ began' = began /\ Stuck /\ Pended(w) /\ ClockSet(w)
      /\ \A v \in Worker \ {w} :
           job'[v] = job[v] /\ (Busy(v) => job[v].test # job[w].test)
      /\ mishaps \subseteq mishaps' /\ crashed \subseteq crashed'
      /\ DOMAIN job = Worker
  BY Alone, AtStep DEF Remembers, PutBackInv
<1>2. ~LeftBehind(x)
  BY <1>1, LeftBehindStays
<1>3. /\ \A v \in Worker : Knew(v, x)
      /\ Back(x) \/ \E v \in Worker : Owes(v, x)
  BY <1>2 DEF PutBackInv
<1>4. PutAt(x) \in {1, 2} /\ (x \in {"timeout", "clock"} => PutAt(x) = 2)
  BY DEF PutAt
<1>5. ASSUME job[w].test = Writer(x), job[w].at <= PutAt(x)
      PROVE  Back(x)
  <2>1. \A v \in Worker : ~Owes(v, x)
    BY <1>1, <1>4, <1>5, AtStep DEF Owes
  <2> QED
    BY <1>3, <2>1
<1>6. \A v \in Worker : Knew(v, x)'
  <2>1. ASSUME x \in {"timeout", "clock"}
        PROVE  Knew(w, x)'
    <3>1. job[w].test = Writer(x) /\ job[w].at = 1 => setting[x] = began[x]
      BY <1>4, <1>5, <2>1 DEF Back
    <3> QED
      BY <1>3, <2>1, <3>1, KnewStep
  <2>2. CASE x \notin {"timeout", "clock"}
    BY <2>2 DEF Knew
  <2> QED
    BY <1>1, <1>3, <2>1, <2>2 DEF Knew
<1>7. CASE job[w].test # Writer(x)
  <2>1. setting'[x] = setting[x]
    BY <1>7, OthersLeave
  <2>2. \A v \in Worker : Owes(v, x) => Owes(v, x)'
    BY <1>1, <1>7 DEF Owes, Busy
  <2>3. Back(x) => Back(x)'
    BY <1>1, <2>1 DEF Back
  <2> QED
    BY <1>3, <1>6, <2>2, <2>3
<1>8. CASE job[w].test = Writer(x)
  <2>1. CASE job[w].at <= PutAt(x) /\ setting'[x] = setting[x]
    BY <1>1, <1>5, <1>6, <1>8, <2>1 DEF Back
  <2>2. CASE job'[w].test = job[w].test /\ job'[w].at > PutAt(x)
    <3>1. job'[w] # NoJob
      BY <1>8, <2>2 DEF NoJob, Writer, Four
    <3>2. Owes(w, x)'
      BY <1>8, <2>2, <3>1 DEF Owes, Busy, PutAt
    <3> QED
      BY <1>6, <3>2
  <2>3. CASE /\ job[w].at = Len(Script[job[w].test])
             /\ \/ setting' = Written(Now(w), job[w].saved)
                \/ Refused(Now(w)) /\ setting' = setting
    BY <1>2, <1>3, <1>6, <1>8, <2>3, Restores
  <2>4. CASE /\ x = "clock" /\ job[w].at = 3 /\ setting'[x] = setting[x]
             /\ setting.clock # "Manual"
    <3>1. "ignores_writes" \in traits
      BY <1>1, <1>8, <2>4 DEF ClockSet, Writer
    <3>2. setting[x] = began[x]
      BY <1>1, <3>1 DEF Stuck
    <3> QED
      BY <1>1, <1>6, <2>4, <3>2 DEF Back
  <2> QED
    BY <1>1, <1>8, <2>1, <2>2, <2>3, <2>4, WriterStep
<1> QED
  BY <1>7, <1>8

\* So a step of a worker keeps what the settings' theorem rests on.
LEMMA WorkerPutBack ==
  ASSUME Base, PutBackInv, NEW w \in Worker, Acts(w)
  PROVE  PutBackInv'
<1>1. /\ Stuck /\ Pended(w) /\ ClockSet(w) /\ traits' = traits /\ began' = began
      /\ \A v \in Worker \ {w} :
           job'[v] = job[v] /\ (Busy(v) => job[v].test # job[w].test)
      /\ \A v \in Worker \ {w} : Pended(v) /\ ClockSet(v)
  BY Alone DEF Remembers, PutBackInv
<1>2. \A v \in Worker \ {w} : Pended(v)'
  BY <1>1 DEF Pended, Busy
<1>3. ASSUME NEW v \in Worker \ {w}
      PROVE  ClockSet(v)'
  <2>1. CASE job[v].test = "set_date_and_time"
    <3>1. Busy(v)
      BY <2>1 DEF Busy, NoJob
    <3>2. setting'.clock = setting.clock
      BY <1>1, <2>1, <3>1, OthersLeave DEF Four, Writer
    <3> QED
      BY <1>1, <3>2 DEF ClockSet
  <2>2. CASE job[v].test # "set_date_and_time"
    BY <1>1, <2>2 DEF ClockSet
  <2> QED
    BY <2>1, <2>2
<1>4. Pended(w)' /\ ClockSet(w)' /\ Stuck'
  BY <1>1, PendedStep, ClockStep, StuckStep
<1>5. \A x \in Four :
        LeftBehind(x)' \/ /\ \A v \in Worker : Knew(v, x)'
                          /\ Back(x)' \/ \E v \in Worker : Owes(v, x)'
  BY SettingStep
<1> QED
  BY <1>2, <1>3, <1>4, <1>5 DEF PutBackInv

\* A test that begins owes nothing.
LEMMA StartPutBack ==
  ASSUME Base, PutBackInv, NEW w \in Worker, NEW t \in Suite, Start(w, t)
  PROVE  PutBackInv'
<1>1. /\ job'[w].test = t /\ job'[w].at = 1 /\ job'[w].pending = "none"
      /\ ~Busy(w) /\ \A v \in Worker \ {w} : job'[v] = job[v]
      /\ UNCHANGED <<traits, began, setting, mishaps, crashed>>
  BY StartStep DEF Base, RebootInv, outside, box, history
<1>2. \A v \in Worker : Pended(v)' /\ ClockSet(v)'
  BY <1>1 DEF PutBackInv, Pended, Busy, ClockSet
<1>3. \A v \in Worker : \A x \in Four : Knew(v, x) => Knew(v, x)'
  BY <1>1 DEF Knew
<1>4. Stuck'
  BY <1>1, <1>3 DEF PutBackInv, Stuck, Four
<1>5. \A v \in Worker : \A x \in Four : Owes(v, x) => Owes(v, x)'
  BY <1>1 DEF Owes, Busy, PutAt
<1>6. \A x \in Four : /\ Back(x) => Back(x)'
                      /\ LeftBehind(x) => LeftBehind(x)'
  BY <1>1, LeftBehindStays DEF Back
<1> QED
  BY <1>2, <1>3, <1>4, <1>5, <1>6 DEF PutBackInv

\* The device by itself changes a setting back only.
LEMMA OuterSetting ==
  ASSUME Base, Outer, Stuck
  PROVE  /\ setting'.clock = setting.clock /\ setting'.relay = setting.relay
         /\ setting'.timeout \in {setting.timeout, began.timeout}
         /\ setting'.search \in {setting.search, began.search}
<1>1. CASE GoDown
  <2>1. DOMAIN setting = {"timeout", "clock", "relay", "search", "door"}
    BY Things DEF Base, TypeInv, TypeOK, DeviceOK
  <2>2. PICK v \in {setting.timeout, began.timeout} :
          setting' = [setting EXCEPT !.timeout = v, !.search = "none"]
    BY <1>1 DEF GoDown
  <2> QED
    BY <2>1, <2>2 DEF Stuck
<1>2. CASE ~GoDown
  <2>1. setting' = setting
    BY <1>2 DEF Outer, MotionEnds, ComeUp, ForeignHello, box
  <2> QED
    BY <2>1
<1> QED
  BY <1>1, <1>2

LEMMA OuterPutBack ==
  ASSUME Base, PutBackInv, Outer
  PROVE  PutBackInv'
<1>1. /\ UNCHANGED <<job, traits, began, mishaps, crashed>> /\ Stuck
  BY OuterStep DEF PutBackInv
<1>2. \A v \in Worker : Pended(v)' /\ ClockSet(v)'
  BY <1>1, OuterSetting DEF PutBackInv, Pended, Busy, ClockSet
<1>3. \A v \in Worker : \A x \in Four : /\ Knew(v, x) => Knew(v, x)'
                                        /\ Owes(v, x) => Owes(v, x)'
  BY <1>1 DEF Knew, Owes, Busy
<1>4. \A x \in Four : setting[x] = began[x] => setting'[x] = began[x]
  BY <1>1, OuterSetting DEF Four
<1>5. Stuck'
  BY <1>1, <1>3, <1>4, OuterSetting DEF Stuck, Four
<1>6. \A x \in Four : /\ Back(x) => Back(x)'
                      /\ LeftBehind(x) => LeftBehind(x)'
  BY <1>1, <1>4, OuterSetting, LeftBehindStays DEF Back
<1> QED
  BY <1>2, <1>3, <1>5, <1>6 DEF PutBackInv

\* It holds at the start.
LEMMA InitPutBack == Init => PutBackInv
<1> SUFFICES ASSUME Init
             PROVE  PutBackInv
  OBVIOUS
<1>1. \A w \in Worker : ~Busy(w) /\ job[w].test = "none" /\ job[w].at = 0
  BY DEF Init, Busy, NoJob
<1>2. setting = began /\ began.search = "none"
  BY WriteTestsAssumption DEF Init
<1>3. \A w \in Worker : Pended(w) /\ ClockSet(w) /\ \A x \in Four : Knew(w, x)
  BY <1>1 DEF Pended, ClockSet, Knew
<1> QED
  BY <1>2, <1>3 DEF PutBackInv, Stuck, Back, Four

\* And every step keeps it.
LEMMA NextPutBack == Base /\ PutBackInv /\ [Next]_vars => PutBackInv'
<1> SUFFICES ASSUME Base, PutBackInv, [Next]_vars
             PROVE  PutBackInv'
  OBVIOUS
<1>1. CASE UNCHANGED vars
  <2>1. UNCHANGED <<job, traits, began, setting, mishaps, crashed>>
    BY <1>1 DEF vars, outside, box, history
  <2>2. \A v \in Worker : Pended(v)' /\ ClockSet(v)'
    BY <2>1 DEF PutBackInv, Pended, Busy, ClockSet
  <2>3. \A v \in Worker : \A x \in Four : /\ Knew(v, x) <=> Knew(v, x)'
                                          /\ Owes(v, x) <=> Owes(v, x)'
    BY <2>1 DEF Knew, Owes, Busy
  <2>4. \A x \in Four : (Back(x) <=> Back(x)') /\ (LeftBehind(x) => LeftBehind(x)')
    BY <2>1, LeftBehindStays DEF Back
  <2>5. Stuck'
    BY <2>1, <2>3 DEF PutBackInv, Stuck, Four
  <2> QED
    BY <2>2, <2>3, <2>4, <2>5 DEF PutBackInv
<1> QED
  BY <1>1, Steps, WorkerPutBack, StartPutBack, OuterPutBack

\* Once no test is running every setting but the door's is as the run found it, or
\* one of these left it behind: the device did not put it back though asked; it
\* opened a search without saying which (search.py:75-76), or, of the clock, did not
\* let it be read back (base.py:549); the exchange that sets or restores it did not
\* come through; the worker died.  A fault on a readback, and whatever else is lost,
\* is no excuse where the restore is in a finally (ptz.py:464-469,
\* deviceio.py:104-111).
THEOREM PutBack == Spec => []SettingsPutBack
<1>1. Init => Base /\ PutBackInv
  BY InitBase, InitPutBack
<1>2. (Base /\ PutBackInv) /\ [Next]_vars => (Base /\ PutBackInv)'
  BY NextBase, NextPutBack
<1>3. Base /\ PutBackInv => SettingsPutBack
  <2> SUFFICES ASSUME Base, PutBackInv, AllQuiet, NEW x \in Thing \ {"door"}
               PROVE  Back(x) \/ LeftBehind(x)
    BY DEF SettingsPutBack, Back
  <2>1. x \in Four
    BY Things DEF Four
  <2>2. \A w \in Worker : ~Owes(w, x)
    BY DEF AllQuiet, Owes
  <2> QED
    BY <2>1, <2>2 DEF PutBackInv
<1> QED
  BY <1>1, <1>2, <1>3, PTL DEF Spec

------------------------------------------------------------------------------
(***************************************************************************)
(* That a failure is earned, and a pass.  While nobody has disturbed it a  *)
(* worker knows what the device is like, as far as its script has told.    *)
(***************************************************************************)
Earned(t) ==
  \/ \E m \in mishaps : m[1] = t
  \/ t \in disturbed
  \/ traits \cap Defects(t) # {}
  \/ t = "relay_state" /\ "takes_idle_words" \notin traits
  \/ t = "hello_after_reboot" /\ OnlyStrangers

Sound(t) == traits \cap Defects(t) \subseteq Hidden(t)
Heeded(t) == "ignores_writes" \in traits => "ignores_writes" \in Hidden(t)
Answers(t) ==
  t = "hello_after_reboot" => ToSet(hellos) \cap {"own", "lookalike"} # {}

\* Of the settings, of the motors, and of the device that was rebooted.
KnowsSetting(w) ==
  LET t == job[w].test
      at == job[w].at
  IN  /\ t = "set_configuration" /\ at = 3 =>
           setting.timeout = Target("timeout", job[w].saved)
             \/ "ignores_writes" \in traits
      /\ t = "consistency" /\ at = 2 => setting.timeout = job[w].saved
      /\ t \in {"set_configuration", "set_date_and_time"} /\ at = 4 => Heeded(t)

Obeyed(a) == motion[a] = IF "ignores_stop" \in traits THEN "endless" ELSE "idle"
Timed(a) ==
  motion[a] = "timed" \/ (motion[a] = "idle" /\ "ignores_timeout" \notin traits)
Elapsed(a) == motion[a] = IF "ignores_timeout" \in traits THEN "timed" ELSE "idle"

KnowsMotor(w) ==
  LET at == job[w].at IN
  /\ job[w].test = "continuous_move_and_stop" =>
       /\ at = 3 => motion["PanTilt"] = "endless"
       /\ at = 4 => Obeyed("PanTilt")
       /\ at = 6 => motion["Zoom"] = "endless"
       /\ at = 7 => Obeyed("Zoom")
  /\ job[w].test = "continuous_move_timeout" =>
       /\ at = 3 => Timed("PanTilt")
       /\ at = 4 => Elapsed("PanTilt")
       /\ at = 7 => Timed("Zoom")
       /\ at = 8 => Elapsed("Zoom")
       /\ at = 9 => Sound("continuous_move_timeout")

\* It is back, as another.
Changed(w) == phase = "up" /\ job[w].saved # identity

KnowsReboot(w) ==
  LET at == job[w].at IN
  job[w].test = "system_reboot" /\ "new_identity" \in traits
    /\ "slow_reboot" \notin traits =>
    /\ at = 2 => job[w].saved = identity /\ phase # "down"
    /\ at = 3 => Changed(w) \/ (phase # "up" /\ job[w].saved = identity)
    /\ at = 4 => Changed(w) \/ (phase = "down" /\ job[w].saved = identity)
    /\ at = 5 => Changed(w)

Known(w) ==
  Busy(w) /\ job[w].pending = "none" /\ job[w].test \notin disturbed =>
    KnowsSetting(w) /\ KnowsMotor(w) /\ KnowsReboot(w)

\* What a step could not have led on without.
Kind(step) ==
  /\ ~Refused(step)
  /\ step.do = "put" /\ step.on = "search" => "no_token" \notin traits
  /\ step.do = "reboot" /\ step.on = "message" => "no_message" \notin traits

\* With nothing pending the steps behind a worker went well.
Straight(step) ==
  step.do \notin Waits \cup {"command"} /\ step.absorbs \in {"nothing", "skip"}
Behind(w) ==
  Busy(w) /\ job[w].pending = "none" =>
    \A i \in 1..(job[w].at - 1) :
      LET step == Script[job[w].test][i] IN Straight(step) => Kind(step)

SameDevice ==
  "new_identity" \notin traits =>
    /\ identity = "first"
    /\ \A w \in Worker :
         job[w].test = "system_reboot" /\ job[w].at > 1 => job[w].saved = "first"

EarnedInv ==
  /\ SameDevice
  /\ \A w \in Worker : Known(w)
  /\ \A w \in Worker : Behind(w)
  /\ \A w \in Worker : Busy(w) /\ job[w].pending # "none" => Earned(job[w].test)
  /\ FailureIsEarned /\ PassIsEarned

\* All that the two theorems rest on.
Ground == Base /\ PutBackInv /\ EarnedInv

\* Where a Hello can be told to be the device's own, it has been.
LEMMA FirstMatch ==
  ASSUME hellos \in Seq({"own", "foreign", "lookalike"}), "own" \in ToSet(hellos),
         traits \cap {"no_epr", "no_address"} = {}
  PROVE  HelloIsGood
<1> DEFINE M == {n \in DOMAIN hellos : Matches(hellos[n])}
<1>1. PICK i \in DOMAIN hellos : hellos[i] = "own"
  BY DEF ToSet
<1>2. M \subseteq Nat /\ M # {} /\ DOMAIN hellos = 1..Len(hellos) /\ Len(hellos) \in Nat
  BY <1>1 DEF Matches
<1>3. PICK k \in M : \A n \in M : k <= n
  BY <1>2, First
<1>4. k \in DOMAIN hellos /\ Matches(hellos[k])
  OBVIOUS
<1>5. \A j \in 1..k-1 : ~Matches(hellos[j])
  <2>1. \A j \in 1..k-1 : j \in DOMAIN hellos /\ ~(k <= j)
    BY <1>2, <1>4
  <2> QED
    BY <1>3, <2>1
<1> QED
  BY <1>4, <1>5 DEF HelloIsGood

\* What the Hellos say of the device, and of a test that judges them.
LEMMA HelloVerdict ==
  ASSUME hellos \in Seq({"own", "foreign", "lookalike"})
  PROVE  /\ HelloIsGood => Sound("hello_after_reboot") /\ Answers("hello_after_reboot")
         /\ hellos # <<>> /\ ~HelloIsGood => Earned("hello_after_reboot")
<1>1. Defects("hello_after_reboot") = {"no_epr", "no_address"}
  BY DEF Defects
<1>2. ASSUME HelloIsGood
      PROVE  Sound("hello_after_reboot") /\ Answers("hello_after_reboot")
  <2>1. PICK i \in DOMAIN hellos :
          /\ Matches(hellos[i])
          /\ hellos[i] = "own" => "no_epr" \notin traits
    BY <1>2 DEF HelloIsGood
  <2>2. hellos[i] \in ToSet(hellos)
    BY DEF ToSet
  <2>3. \/ hellos[i] = "lookalike"
        \/ hellos[i] = "own" /\ "no_address" \notin traits /\ "no_epr" \notin traits
    BY <2>1 DEF Matches
  <2> QED
    BY <1>1, <2>2, <2>3 DEF Sound, Answers, Hidden
<1>3. ASSUME hellos # <<>>, ~HelloIsGood
      PROVE  Earned("hello_after_reboot")
  BY <1>1, <1>3, FirstMatch DEF Earned, OnlyStrangers
<1> QED
  BY <1>2, <1>3

\* What has been earned stays earned, and what is sound stays sound.
LEMMA EarnedStays ==
  ASSUME UNCHANGED <<traits, began, hellos>>, mishaps \subseteq mishaps',
         disturbed \subseteq disturbed', NEW t
  PROVE  /\ Earned(t) => Earned(t)'
         /\ Sound(t) => Sound(t)'
         /\ Answers(t) => Answers(t)'
  BY DEF Earned, OnlyStrangers, Sound, Answers, Hidden

\* With nothing pending every step behind a worker still went well.
LEMMA BehindStep ==
  ASSUME Base, NEW w \in Worker, Acts(w), Behind(w)
  PROVE  Behind(w)'
<1>1. Busy(w) /\ traits' = traits
  BY Alone DEF Remembers
<1>2. \A step : Kind(step)' <=> Kind(step)
  BY <1>1 DEF Kind, Refused
<1> SUFFICES ASSUME job'[w] # NoJob, job'[w].pending = "none",
                    NEW i \in 1..(job'[w].at - 1), NEW step,
                    step = Script[job'[w].test][i], Straight(step)
             PROVE  Kind(step)
  BY <1>1, <1>2 DEF Behind, Busy, Kind, Refused
<1>0. /\ job'[w].test = job[w].test /\ job[w].at \in Nat
      /\ Now(w) = Script[job[w].test][job[w].at]
  BY <1>1, Alone, AtStep
<1>3. CASE job'[w].at = job[w].at /\ job[w].pending = "none"
  BY <1>0, <1>1, <1>3 DEF Behind
<1>4. CASE /\ job'[w].at = job[w].at + 1 /\ job[w].pending = "none"
           /\ Straight(Now(w)) => Kind(Now(w))
  <2>1. i = job[w].at \/ i \in 1..(job[w].at - 1)
    BY <1>0, <1>4
  <2>2. CASE i = job[w].at
    BY <1>0, <1>4, <2>2
  <2>3. CASE i \in 1..(job[w].at - 1)
    BY <1>0, <1>1, <1>4, <2>3 DEF Behind
  <2> QED
    BY <2>1, <2>2, <2>3
<1>5. ASSUME NEW x, Proceed(w, x)
      PROVE  job'[w].at = job[w].at + 1 /\ job[w].pending = "none"
  BY <1>1, <1>5, AfterProceed
<1>6. ASSUME NEW what, Raise(w, what)
      PROVE  /\ Now(w).absorbs \notin {"nothing", "skip"}
             /\ Proceed(w, job[w].saved)
  <2>1. Caught(Now(w), what) /\ Now(w).absorbs # "skip" /\ Proceed(w, job[w].saved)
    BY <1>1, <1>6, AfterRaise
  <2> QED
    BY <2>1 DEF Caught
<1>7. CASE \E what : Raise(w, what)
  BY <1>4, <1>5, <1>6, <1>7 DEF Straight
<1>8. CASE Good(w)
  <2>1. Kind(Now(w))
    BY <1>8 DEF Good, Kind, Holds
  <2> QED
    BY <1>4, <1>5, <1>8, <2>1 DEF Good
<1>9. CASE Declined(w) \/ Waited(w)
  <2>1. ~Straight(Now(w))
    BY <1>9 DEF Declined, Waited, Straight, Waits
  <2> QED
    BY <1>4, <1>5, <1>9, <2>1 DEF Declined, Waited
<1>10. CASE Again(w)
  BY <1>1, <1>3, <1>10, AfterAgain
<1>11. ~Dropped(w)
  BY <1>1, AfterDrop
<1> QED
  BY <1>7, <1>8, <1>9, <1>10, <1>11, WorkerStep DEF Bad, Faulted, Missed, Stranger

\* What another worker changes without disturbing a test is none of its business.
LEMMA Aside ==
  ASSUME Base, NEW u \in Worker, Acts(u), NEW v \in Worker \ {u}, Busy(v),
         job[v].test \notin disturbed'
  PROVE  /\ \A x \in Four \cap Subjects(job[v].test) : setting'[x] = setting[x]
         /\ "motor" \in Subjects(job[v].test) => motion' = motion
         /\ phase' = phase /\ identity' = identity
<1>1. CASE Calm
  BY <1>1 DEF Calm, box
<1>2. CASE Heard(u)
  <2> DEFINE step == Now(u)
  <2>1. ~Disturbs(step, job[v].test)
    BY <1>2 DEF Heard, Disturb
  <2>2. /\ step.do \in {"put", "restore"} => step.on \in Four
        /\ step.do \in {"move", "timed", "goto"} => step.on \in Axis
        /\ step.do = "stop" => step.on = "motor"
        /\ Busy(u) /\ DOMAIN setting = Thing
    <3>1. Busy(u)
      BY WorkerStep
    <3>2. DOMAIN setting = Thing
      BY DEF Base, TypeInv, TypeOK, DeviceOK
    <3>3. step.do = "stop" => step.on = "motor"
      BY <3>1, AheadStep DEF Base
    <3> QED
      BY <3>1, <3>2, <3>3, StepApart DEF Four
  <2>3. step.do # "reboot" /\ (Changes(step) => About(step) \notin Subjects(job[v].test))
    BY <2>1 DEF Disturbs, Changes
  <2>4. setting' = Written(step, job[u].saved) /\ motion' = Moved(step)
        /\ phase' = phase /\ identity' = identity
    BY <1>2, <2>3 DEF Heard
  <2>5. \A x \in Four \cap Subjects(job[v].test) : setting'[x] = setting[x]
    <3> SUFFICES ASSUME NEW x \in Four, x \in Subjects(job[v].test)
                 PROVE  setting'[x] = setting[x]
      OBVIOUS
    <3>1. CASE step.do \in {"put", "restore"}
      <4>1. step.on # x
        BY <2>2, <2>3, <3>1 DEF Changes, About, Axis, Four
      <4> QED
        BY <2>2, <2>4, <3>1, <4>1 DEF Written
    <3>2. CASE step.do = "command"
      <4>1. setting' = [setting EXCEPT !.door = "down"]
        BY <2>4, <3>2 DEF Written
      <4>2. x # "door" /\ DOMAIN setting = Thing /\ x \in Thing
        BY <2>2, Things DEF Four
      <4> QED
        BY <4>1, <4>2
    <3>3. CASE step.do \notin {"put", "restore", "command"}
      BY <2>4, <3>3 DEF Written
    <3> QED
      BY <3>1, <3>2, <3>3
  <2>6. "motor" \in Subjects(job[v].test) => motion' = motion
    <3>1. CASE step.do \in {"move", "timed", "goto", "stop"}
      BY <2>2, <2>3, <3>1 DEF Changes, About, Axis
    <3>2. CASE step.do \notin {"move", "timed", "goto", "stop"}
      BY <2>4, <3>2 DEF Moved
    <3> QED
      BY <3>1, <3>2
  <2> QED
    BY <2>4, <2>5, <2>6
<1> QED
  BY <1>1, <1>2, Touch

\* The two tests that watch the motors.
LEMMA MotorScripts ==
  LET s == Script["continuous_move_and_stop"]
      t == Script["continuous_move_timeout"]
  IN  /\ Len(s) = 7 /\ Len(t) = 9
      /\ s[1].do = "survey" /\ s[2].do = "move" /\ s[2].on = "PanTilt"
      /\ s[3].do = "stop" /\ s[4].do = "idle" /\ s[4].on = "PanTilt"
      /\ s[5].do = "move" /\ s[5].on = "Zoom"
      /\ s[6].do = "stop" /\ s[7].do = "idle" /\ s[7].on = "Zoom"
      /\ t[1].do = "survey" /\ t[2].do = "timed" /\ t[2].on = "PanTilt"
      /\ t[3].do = "wait" /\ t[3].on = "PanTilt"
      /\ t[4].do = "idle" /\ t[4].on = "PanTilt" /\ t[5].do = "stop"
      /\ t[6].do = "timed" /\ t[6].on = "Zoom"
      /\ t[7].do = "wait" /\ t[7].on = "Zoom"
      /\ t[8].do = "idle" /\ t[8].on = "Zoom" /\ t[9].do = "stop"
<1>1. /\ Script["continuous_move_and_stop"] = ContinuousMoveAndStop
      /\ Script["continuous_move_timeout"] = ContinuousMoveTimeout
  BY DEF Script
<1> QED
  BY <1>1 DEF ContinuousMoveAndStop, ContinuousMoveTimeout, Step, InTry, Survey, Stop

\* The other tests that can tell: where they look, and at what.
LEMMA LookScripts ==
  /\ Len(Script["consistency"]) = 2
  /\ Script["consistency"][1].do = "read" /\ Script["consistency"][1].on = "timeout"
  /\ Script["consistency"][2].do = "same" /\ Script["consistency"][2].on = "timeout"
  /\ Script["system_reboot"][5].on = "power"
  /\ \A t \in {"focus_to", "focus_move"} : Script[t][Len(Script[t])].do = "focus"
  /\ Script["door_command"][Len(Script["door_command"])].do = "command"
<1> USE DEF Step, InTry, FocusOptions, Absorbing, Survey
<1>1. Script["consistency"] = Consistency /\ Script["system_reboot"] = SystemReboot
  BY DEF Script
<1>2. /\ Script["focus_to"] = FocusTo /\ Script["focus_move"] = FocusMove
      /\ Script["door_command"] = DoorCommand
  BY DEF Script
<1>3. Len(FocusTo) = 3 /\ FocusTo[3].do = "focus"
  BY DEF FocusTo
<1>4. Len(FocusMove) = 4 /\ FocusMove[4].do = "focus"
  BY DEF FocusMove
<1>5. Len(DoorCommand) = 2 /\ DoorCommand[2].do = "command"
  BY DEF DoorCommand
<1>6. /\ Len(Consistency) = 2 /\ Consistency[1].do = "read"
      /\ Consistency[1].on = "timeout"
      /\ Consistency[2].do = "same" /\ Consistency[2].on = "timeout"
  BY DEF Consistency
<1>7. SystemReboot[5].on = "power"
  BY DEF SystemReboot
<1> QED
  BY <1>1, <1>2, <1>3, <1>4, <1>5, <1>6, <1>7

\* What each of them is about.
LEMMA TheirSubjects ==
  /\ "timeout" \in Subjects("set_configuration") /\ "timeout" \in Subjects("consistency")
  /\ "motor" \in Subjects("continuous_move_and_stop")
  /\ "motor" \in Subjects("continuous_move_timeout")
<1>1. \A t \in DOMAIN Script : \A i \in 1..Len(Script[t]) :
        About(Script[t][i]) \in Subjects(t)
  BY ScriptsApart DEF Apart, Subjects
<1>2. /\ "set_configuration" \in DOMAIN Script /\ "consistency" \in DOMAIN Script
      /\ "continuous_move_and_stop" \in DOMAIN Script
      /\ "continuous_move_timeout" \in DOMAIN Script
  BY DEF Script
<1>3. Len(Script["set_configuration"]) = 4 /\ Script["set_configuration"][2].on = "timeout"
  <2>1. Script["set_configuration"] = SetConfiguration
    BY DEF Script
  <2> QED
    BY <2>1 DEF SetConfiguration, Step, InTry
<1>4. \A step : /\ step.on = "timeout" => About(step) = "timeout"
                /\ step.on = "PanTilt" => About(step) = "motor"
  BY DEF About, Axis
<1>5. /\ 2 \in 1..Len(Script["set_configuration"]) /\ 2 \in 1..Len(Script["consistency"])
      /\ 2 \in 1..Len(Script["continuous_move_and_stop"])
      /\ 2 \in 1..Len(Script["continuous_move_timeout"])
  BY <1>3, LookScripts, MotorScripts
<1>6. /\ About(Script["set_configuration"][2]) = "timeout"
      /\ About(Script["consistency"][2]) = "timeout"
      /\ About(Script["continuous_move_and_stop"][2]) = "motor"
      /\ About(Script["continuous_move_timeout"][2]) = "motor"
  BY <1>3, <1>4, LookScripts, MotorScripts
<1> QED
  BY <1>1, <1>2, <1>5, <1>6

\* An assertion that fails, and that nobody else made fail, tells of the device.
LEMMA BadEarned ==
  ASSUME Ground, NEW w \in Worker, Busy(w), ~Holds(Now(w), job[w].saved)
  PROVE  Earned(job[w].test)
<1> DEFINE t == job[w].test
           at == job[w].at
<1>1. /\ at \in 1..Len(Script[t]) /\ Now(w) = Script[t][at] /\ Apart(t, Script[t])
      /\ Len(Script[t]) \in Nat
  BY AtStep DEF Ground, Apart
<1>2. CASE t \in disturbed \/ job[w].pending # "none"
  BY <1>2 DEF Ground, EarnedInv, Earned
<1>3. ASSUME t \notin disturbed, job[w].pending = "none"
      PROVE  Earned(t)
  <2>1. KnowsSetting(w) /\ KnowsMotor(w) /\ ClockSet(w) /\ SameDevice
    BY <1>3 DEF Ground, EarnedInv, Known, PutBackInv
  <2>2. CASE Now(w).do = "check"
    <3>1. t \in {"set_configuration", "set_date_and_time"}
      BY <1>1, <2>2 DEF Apart
    <3>2. "ignores_writes" \in Defects(t)
      BY <3>1 DEF Defects
    <3>3. Shown(Now(w).on) # Target(Now(w).on, job[w].saved)
      BY <2>2 DEF Holds
    <3>4. CASE t = "set_configuration"
      <4>1. Puts("timeout", Script[t])
        BY <3>4, ScriptsPut DEF Four, Writer
      <4>2. at = 3 /\ Now(w).on = "timeout"
        <5>1. DOMAIN Script[t] = 1..Len(Script[t])
          BY <1>1 DEF Apart
        <5> HIDE DEF t, at
        <5> QED
          BY <1>1, <2>2, <4>1, <5>1 DEF Puts, PutAt
      <4>3. setting.timeout # Target("timeout", job[w].saved)
        BY <3>3, <4>2 DEF Shown
      <4> QED
        BY <2>1, <3>2, <3>4, <4>2, <4>3 DEF KnowsSetting, Earned
    <3>5. CASE t = "set_date_and_time"
      <4>1. at = 3 /\ Now(w).on = "clock"
        <5>1. at = 1 \/ at = 2 \/ at = 3 \/ at = 4
          BY <1>1, <3>5, ClockScript
        <5> QED
          BY <1>1, <2>2, <3>5, <5>1, ClockScript
      <4>2. setting.clock # "Manual"
        BY <3>3, <4>1 DEF Shown, Target
      <4> QED
        BY <2>1, <3>2, <3>5, <4>1, <4>2 DEF ClockSet, Earned
    <3> QED
      BY <3>1, <3>4, <3>5
  <2>3. CASE Now(w).do = "same"
    <3>1. t = "consistency"
      BY <1>1, <2>3 DEF Apart
    <3>2. at = 2 /\ Now(w).on = "timeout"
      <4>1. at = 1 \/ at = 2
        BY <1>1, <3>1, LookScripts
      <4> QED
        BY <1>1, <2>3, <3>1, <4>1, LookScripts
    <3>3. setting.timeout # job[w].saved
      BY <2>3, <3>2 DEF Holds, Shown
    <3> QED
      BY <2>1, <3>1, <3>2, <3>3 DEF KnowsSetting
  <2>4. CASE Now(w).do = "compare"
    <3>1. t = "system_reboot"
      BY <1>1, <2>4 DEF Apart
    <3>2. Now(w).on = "power" /\ at > 1
      <4>1. ReadFirst(t, Script[t])
        BY <3>1, ScriptsRead DEF Readers
      <4> QED
        BY <1>1, <2>4, <3>1, <4>1 DEF ReadFirst, Looks
    <3>3. identity # job[w].saved
      BY <2>4, <3>2 DEF Holds, Shown
    <3>4. "new_identity" \in traits
      BY <2>1, <3>1, <3>2, <3>3 DEF SameDevice
    <3> QED
      BY <3>1, <3>4 DEF Earned, Defects
  <2>6. CASE Now(w).do = "put"
    <3>1. Now(w).on = "search" /\ "no_token" \in traits
      BY <2>6 DEF Holds
    <3>2. t = "find_recordings"
      BY <1>1, <2>6, <3>1 DEF Apart, Writer
    <3> QED
      BY <3>1, <3>2 DEF Earned, Defects
  <2>7. CASE Now(w).do = "reboot"
    <3>1. Now(w).on = "message" /\ "no_message" \in traits
      BY <2>7 DEF Holds
    <3>2. t = "system_reboot"
      BY <1>1, <3>1 DEF Apart
    <3> QED
      BY <3>1, <3>2 DEF Earned, Defects
  <2>5. CASE Now(w).do = "idle"
    <3>1. t \in {"continuous_move_and_stop", "continuous_move_timeout"}
      BY <1>1, <2>5 DEF Apart
    <3>2. ~LooksIdle(Now(w).on)
      BY <2>5 DEF Holds
    <3>3. "hides_status" \in traits \/ motion[Now(w).on] # "idle"
      BY <3>2 DEF LooksIdle
    <3>4. CASE t = "continuous_move_and_stop"
      <4>1. \/ at = 4 /\ Now(w).on = "PanTilt"
            \/ at = 7 /\ Now(w).on = "Zoom"
        <5>1. at \in 1..7
          BY <1>1, <3>4, MotorScripts
        <5>2. at = 1 \/ at = 2 \/ at = 3 \/ at = 4 \/ at = 5 \/ at = 6 \/ at = 7
          BY <5>1
        <5> QED
          BY <1>1, <2>5, <3>4, <5>2, MotorScripts
      <4>2. "hides_status" \in traits \/ "ignores_stop" \in traits
        BY <2>1, <3>3, <3>4, <4>1 DEF KnowsMotor, Obeyed
      <4>3. Defects(t) = {"ignores_stop", "hides_status"}
        BY <3>4 DEF Defects
      <4> QED
        BY <4>2, <4>3 DEF Earned
    <3>5. CASE t = "continuous_move_timeout"
      <4>1. \/ at = 4 /\ Now(w).on = "PanTilt"
            \/ at = 8 /\ Now(w).on = "Zoom"
        <5>1. at \in 1..9
          BY <1>1, <3>5, MotorScripts
        <5>2. \/ at = 1 \/ at = 2 \/ at = 3 \/ at = 4 \/ at = 5 \/ at = 6 \/ at = 7
              \/ at = 8 \/ at = 9
          BY <5>1
        <5> QED
          BY <1>1, <2>5, <3>5, <5>2, MotorScripts
      <4>2. "hides_status" \in traits \/ "ignores_timeout" \in traits
        BY <2>1, <3>3, <3>5, <4>1 DEF KnowsMotor, Elapsed
      <4>3. Defects(t) = {"ignores_timeout", "hides_status"}
        BY <3>5 DEF Defects
      <4> QED
        BY <4>2, <4>3 DEF Earned
    <3> QED
      BY <3>1, <3>4, <3>5
  <2> QED
    BY <2>2, <2>3, <2>4, <2>5, <2>6, <2>7 DEF Holds
<1> QED
  BY <1>2, <1>3

\* So does a fault that no except clause takes for an answer.
LEMMA FaultEarned ==
  ASSUME Ground, NEW w \in Worker, Busy(w), Faulted(w), ~Caught(Now(w), "fault")
  PROVE  Earned(job[w].test)
<1> DEFINE t == job[w].test
<1>1. /\ Now(w) = Script[t][job[w].at] /\ job[w].at \in 1..Len(Script[t])
      /\ Apart(t, Script[t])
  BY AtStep DEF Ground
<1>2. Refused(Now(w)) /\ ~("no_door_command" \in traits /\ Now(w).do = "command")
  BY DEF Faulted
<1>3. CASE Now(w).on = "relay" /\ "takes_idle_words" \notin traits
  <2>1. t = "relay_state"
    BY <1>1, <1>3 DEF Apart
  <2> QED
    BY <1>3, <2>1 DEF Earned
<1>4. CASE Now(w).do = "focus" /\ "no_focus" \in traits
  <2>1. t \in {"focus_to", "focus_move", "focus_stop"} /\ t # "focus_stop"
    BY <1>1, <1>4 DEF Apart, Caught
  <2>2. Defects(t) = {"no_focus"}
    BY <2>1 DEF Defects
  <2> QED
    BY <1>4, <2>2 DEF Earned
<1>5. CASE Now(w).do = "command" /\ "garbled_fault" \in traits
  <2>1. t = "door_command"
    BY <1>1, <1>5 DEF Apart
  <2>2. Defects(t) = {"garbled_fault"}
    BY <2>1 DEF Defects
  <2> QED
    BY <1>5, <2>2 DEF Earned
<1>6. CASE \/ Now(w).do = "put" /\ "refuses_put" \in traits
           \/ Now(w).do = "restore" /\ "refuses_restore" \in traits
  <2>1. /\ Now(w).on \in {"timeout", "clock", "relay", "search"}
        /\ Writer(Now(w).on) = t
        /\ Now(w).do = "restore" => Now(w).on \in {"timeout", "clock"}
    BY <1>1, <1>6 DEF Apart, Caught
  <2>2. Now(w).on # "search"
    BY <1>1, <1>6, <2>1 DEF Apart, Caught
  <2>3. CASE Now(w).on = "relay"
    <3>1. t = "relay_state" /\ "refuses_put" \in traits
      BY <1>6, <2>1, <2>3 DEF Writer
    <3> QED
      BY <3>1 DEF Earned, Defects
  <2>4. CASE Now(w).on \in {"timeout", "clock"}
    <3>1. t \in {"set_configuration", "set_date_and_time"}
      BY <2>1, <2>4 DEF Writer
    <3> QED
      BY <1>6, <3>1 DEF Earned, Defects
  <2> QED
    BY <2>1, <2>2, <2>3, <2>4
<1>7. CASE Now(w).do = "check" /\ "no_readback" \in traits
  <2>1. t \in {"set_configuration", "set_date_and_time"}
    BY <1>1, <1>7 DEF Apart
  <2> QED
    BY <1>7, <2>1 DEF Earned, Defects
<1> QED
  BY <1>2, <1>3, <1>4, <1>5, <1>6, <1>7 DEF Refused

\* Whatever raises, it has its reason, unless it is caught.
LEMMA RaiseEarned ==
  ASSUME Ground, NEW w \in Worker, Acts(w), NEW t, t = job[w].test,
         \/ Bad(w) \/ Stranger(w) \/ Missed(w)
         \/ Faulted(w) /\ ~Caught(Now(w), "fault")
  PROVE  Earned(t)'
<1>1. /\ Busy(w) /\ UNCHANGED <<traits, began, hellos>>
      /\ mishaps \subseteq mishaps' /\ disturbed \subseteq disturbed' /\ Base
  BY Alone DEF Remembers, Ground
<1>2. Earned(t) => Earned(t)'
  BY <1>1, EarnedStays
<1>3. CASE Bad(w)
  <2>1. Earned(t)
    BY <1>1, <1>3, BadEarned DEF Bad
  <2> QED
    BY <1>2, <2>1
<1>4. CASE Stranger(w)
  <2>1. t = "hello_after_reboot" /\ hellos \in Seq({"own", "foreign", "lookalike"})
    <3>1. hellos \in Seq({"own", "foreign", "lookalike"})
      BY <1>1 DEF Base, TypeInv, TypeOK, RecordOK
    <3>2. t = "hello_after_reboot"
      BY <1>1, <1>4, StepApart DEF Stranger
    <3> QED
      BY <3>1, <3>2
  <2>2. Earned(t)
    BY <1>4, <2>1, HelloVerdict DEF Stranger
  <2> QED
    BY <1>2, <2>2
<1>5. CASE Missed(w)
  <2>1. <<job[w].test, job[w].at>> \in mishaps'
    BY <1>5, MissedStep DEF Missed
  <2> QED
    BY <2>1 DEF Earned
<1>6. CASE Faulted(w) /\ ~Caught(Now(w), "fault")
  <2>1. Earned(t)
    BY <1>1, <1>6, FaultEarned
  <2> QED
    BY <1>2, <2>1
<1> QED
  BY <1>3, <1>4, <1>5, <1>6

\* How a test comes to pass, and how to fail or to have a failure pending.
LEMMA Passes ==
  ASSUME Base, NEW w \in Worker, Acts(w), verdict'[job[w].test] = "passed"
  PROVE  /\ job[w].pending = "none" /\ job[w].at = Len(Script[job[w].test])
         /\ \/ Good(w) \/ Waited(w) \/ Declined(w)
            \/ Now(w).absorbs \notin {"nothing", "skip"}
<1>1. /\ Busy(w) /\ job[w].test \in Suite /\ DOMAIN verdict = Suite
      /\ verdict[job[w].test] = "running" /\ job[w].pending \in {"none", "failed"}
  BY WorkerStep, AtStep
<1>2. \A o : verdict' = [verdict EXCEPT ![job[w].test] = o] => o = "passed"
  BY <1>1
<1>3. ASSUME NEW x, Proceed(w, x)
      PROVE  job[w].pending = "none" /\ job[w].at = Len(Script[job[w].test])
  BY <1>1, <1>2, <1>3, AfterProceed
<1>4. ASSUME NEW what, Raise(w, what)
      PROVE  /\ job[w].pending = "none" /\ job[w].at = Len(Script[job[w].test])
             /\ Now(w).absorbs \notin {"nothing", "skip"}
  <2>1. Caught(Now(w), what) /\ Now(w).absorbs # "skip" /\ Proceed(w, job[w].saved)
    BY <1>1, <1>2, <1>4, AfterRaise
  <2> QED
    BY <1>3, <2>1 DEF Caught
<1>5. ~Dropped(w) /\ ~Again(w)
  BY <1>1, <1>2, AfterDrop, AfterAgain
<1> QED
  BY <1>3, <1>4, <1>5, WorkerStep
     DEF Good, Bad, Faulted, Declined, Missed, Waited, Stranger

LEMMA Fails ==
  ASSUME Ground, NEW w \in Worker, Acts(w), NEW t, t = job[w].test,
         \/ verdict'[t] = "failed"
         \/ job'[w] # NoJob /\ job'[w].pending # "none"
  PROVE  Earned(t)'
<1>1. /\ Busy(w) /\ t \in Suite /\ DOMAIN verdict = Suite /\ Base
      /\ verdict[t] = "running" /\ job[w].pending \in {"none", "failed"}
      /\ UNCHANGED <<traits, began, hellos>>
      /\ mishaps \subseteq mishaps' /\ disturbed \subseteq disturbed'
  BY WorkerStep, AtStep DEF Ground, Remembers
<1>2. \A o : verdict' = [verdict EXCEPT ![t] = o] => verdict'[t] = o
  BY <1>1
<1>3. job[w].pending # "none" => Earned(t)'
  <2>1. job[w].pending # "none" => Earned(t)
    BY <1>1 DEF Ground, EarnedInv
  <2> QED
    BY <1>1, <2>1, EarnedStays
<1>4. ASSUME NEW x, Proceed(w, x)
      PROVE  job[w].pending # "none"
  <2>1. CASE job[w].pending = "none" /\ verdict' = [verdict EXCEPT ![t] = "passed"] /\ job'[w] = NoJob
    BY <1>2, <2>1
  <2>2. CASE job'[w].pending = "none" /\ verdict' = verdict
    BY <1>1, <2>2
  <2> QED
    BY <1>1, <1>4, <2>1, <2>2, AfterProceed
<1>5. CASE \E x : Proceed(w, x)
  BY <1>3, <1>4, <1>5
<1>6. CASE Bad(w) \/ Stranger(w) \/ Missed(w)
  BY <1>6, RaiseEarned
<1>7. CASE Faulted(w)
  <2>1. CASE ~Caught(Now(w), "fault")
    BY <1>7, <2>1, RaiseEarned
  <2>2. CASE Caught(Now(w), "fault") /\ verdict' = [verdict EXCEPT ![t] = "skipped"] /\ job'[w] = NoJob
    BY <1>2, <2>2
  <2>3. CASE Proceed(w, job[w].saved)
    BY <1>5, <2>3
  <2>4. Raise(w, "fault")
    BY <1>7 DEF Faulted
  <2> QED
    BY <1>1, <2>1, <2>2, <2>3, <2>4, AfterRaise
<1>8. CASE Dropped(w)
  BY <1>1, <1>2, <1>8, AfterDrop
<1>9. CASE Again(w)
  BY <1>1, <1>3, <1>9, AfterAgain
<1> QED
  BY <1>5, <1>6, <1>7, <1>8, <1>9, WorkerStep DEF Good, Declined, Waited

\* What passes undisturbed is sound.
LEMMA PassSound ==
  ASSUME Ground, NEW w \in Worker, Acts(w), NEW t, t = job[w].test,
         verdict'[t] = "passed", t \notin disturbed'
  PROVE  Sound(t)' /\ Answers(t)'
<1> DEFINE at == job[w].at
<1>1. /\ Busy(w) /\ t \in Suite /\ Base
      /\ UNCHANGED <<traits, began, hellos>>
      /\ mishaps \subseteq mishaps' /\ disturbed \subseteq disturbed'
      /\ at \in 1..Len(Script[t]) /\ Now(w) = Script[t][at] /\ Apart(t, Script[t])
  BY WorkerStep, AtStep DEF Ground, Remembers
<1>2. SUFFICES Sound(t) /\ Answers(t)
  BY <1>1, EarnedStays
<1>3. /\ job[w].pending = "none" /\ at = Len(Script[t])
      /\ \/ Good(w) \/ Waited(w) \/ Declined(w)
         \/ Now(w).absorbs \notin {"nothing", "skip"}
  BY <1>1, Passes
<1>4. KnowsSetting(w) /\ KnowsMotor(w) /\ KnowsReboot(w)
  BY <1>1, <1>3 DEF Ground, EarnedInv, Known
<1>15. \A i \in 1..(at - 1) : Straight(Script[t][i]) => Kind(Script[t][i])
  BY <1>1, <1>3 DEF Ground, EarnedInv, Behind
<1>5. Now(w).absorbs \notin {"nothing", "skip"} =>
        t \in {"relay_state", "find_recordings", "focus_stop"}
  BY <1>1, StepApart
<1>6. t # "hello_after_reboot" => Answers(t)
  BY DEF Answers
<1>7. CASE t \in {"set_configuration", "set_date_and_time"}
  <2>1. PICK x \in {"timeout", "clock"} : t = Writer(x)
    BY <1>7 DEF Writer
  <2>2. Puts(x, Script[t])
    BY <2>1, ScriptsPut DEF Four
  <2>0. PutAt(x) = 2 /\ Len(Script[t]) = 4
    BY <2>2 DEF Puts, PutAt
  <2>3. /\ at = 4 /\ Now(w).do = "restore"
        /\ Script[t][2].do = "put" /\ Script[t][3].do = "check"
        /\ Script[t][2].absorbs = "nothing" /\ Script[t][3].absorbs = "nothing"
    <3> HIDE DEF at
    <3>1. 2 \in 1..4 /\ 3 \in 1..4 /\ 4 \in 1..4 /\ at = 4
      BY <1>3, <2>0
    <3>2. /\ Script[t][4].do = "restore" /\ Script[t][2].do = "put"
          /\ Script[t][3].do = "check" /\ Script[t][3].absorbs = "nothing"
      BY <2>0, <2>2, <3>1 DEF Puts
    <3>3. Script[t][2].absorbs = "nothing"
      BY <2>0, <2>2, <3>1 DEF Puts
    <3> QED
      BY <1>1, <3>1, <3>2, <3>3
  <2>4. Good(w)
    BY <1>3, <1>5, <1>7, <2>3 DEF Waited, Declined
  <2>5. Kind(Script[t][2]) /\ Kind(Script[t][3])
    <3>1. Straight(Script[t][2]) /\ Straight(Script[t][3])
      BY <2>3 DEF Straight, Waits
    <3> QED
      BY <1>15, <2>3, <3>1
  <2>6. traits \cap {"refuses_put", "no_readback", "refuses_restore"} = {}
    BY <2>3, <2>4, <2>5 DEF Good, Kind, Refused
  <2>7. Heeded(t)
    BY <1>4, <1>7, <2>3 DEF KnowsSetting
  <2>8. Defects(t) = {"ignores_writes", "refuses_put", "no_readback", "refuses_restore"}
    BY <1>7 DEF Defects
  <2> QED
    BY <1>6, <1>7, <2>6, <2>7, <2>8 DEF Sound, Heeded
<1>8. CASE t = "continuous_move_timeout"
  <2>1. at = 9
    BY <1>3, <1>8, MotorScripts
  <2> QED
    BY <1>1, <1>4, <1>6, <1>8, <2>1 DEF KnowsMotor
<1>9. CASE t = "continuous_move_and_stop"
  <2>1. at = 7 /\ Now(w).do = "idle" /\ Now(w).on = "Zoom"
    BY <1>1, <1>3, <1>9, MotorScripts
  <2>2. Good(w)
    BY <1>3, <1>5, <1>9, <2>1 DEF Waited, Declined
  <2>3. LooksIdle("Zoom")
    BY <2>1, <2>2 DEF Good, Holds
  <2>4. Obeyed("Zoom")
    BY <1>1, <1>4, <1>9, <2>1 DEF KnowsMotor
  <2>5. Defects(t) = {"ignores_stop", "hides_status"}
    BY <1>9 DEF Defects
  <2> QED
    BY <1>6, <1>9, <2>3, <2>4, <2>5 DEF LooksIdle, Obeyed, Sound, Hidden
<1>10. CASE t \in {"focus_to", "focus_move"}
  <2>1. Now(w).do = "focus"
    BY <1>1, <1>3, <1>10, LookScripts
  <2>2. Good(w)
    BY <1>3, <1>5, <1>10, <2>1 DEF Waited, Declined
  <2>3. "no_focus" \notin traits
    BY <2>1, <2>2 DEF Good, Refused
  <2>4. Defects(t) = {"no_focus"}
    BY <1>10 DEF Defects
  <2> QED
    BY <1>6, <1>10, <2>3, <2>4 DEF Sound
<1>11. CASE t = "door_command"
  <2>1. Now(w).do = "command"
    BY <1>1, <1>3, <1>11, LookScripts
  <2>2. Good(w) \/ Declined(w)
    BY <1>3, <1>5, <1>11, <2>1 DEF Waited
  <2>3. "garbled_fault" \notin traits
    <3>1. CASE Good(w)
      BY <2>1, <3>1 DEF Good, Refused
    <3>2. CASE Declined(w)
      <4>1. traits \in Devices
        BY <1>1 DEF Base, TypeInv, TypeOK, DeviceOK
      <4> QED
        BY <3>2, <4>1, WriteTestsAssumption DEF Declined
    <3> QED
      BY <2>2, <3>1, <3>2
  <2>4. Defects(t) = {"garbled_fault"}
    BY <1>11 DEF Defects
  <2> QED
    BY <1>6, <1>11, <2>3, <2>4 DEF Sound
<1>12. CASE t = "system_reboot"
  <2>1. at = 5 /\ Now(w).do = "compare" /\ Now(w).on = "power"
    <3>1. /\ Len(Script["system_reboot"]) = 5
          /\ Script["system_reboot"][5].do = "compare"
      BY RebootScripts DEF Reboots
    <3>2. Script["system_reboot"][5].on = "power"
      BY LookScripts
    <3>3. at = 5
      BY <1>3, <1>12, <3>1
    <3> QED
      BY <1>1, <1>12, <3>1, <3>2, <3>3
  <2>2. Good(w)
    BY <1>3, <1>5, <1>12, <2>1 DEF Waited, Declined
  <2>3. identity = job[w].saved
    BY <2>1, <2>2 DEF Good, Holds, Shown
  <2>4. "new_identity" \notin traits \/ "slow_reboot" \in traits
    BY <1>1, <1>4, <1>12, <2>1, <2>3 DEF KnowsReboot, Changed
  <2>5. Defects(t) = {"new_identity", "no_message"}
    BY <1>12 DEF Defects
  <2>6. "no_message" \notin traits
    <3>1. Script[t][2] = Step("reboot", "message")
      BY <1>12 DEF Script, SystemReboot
    <3>2. Straight(Script[t][2])
      BY <3>1 DEF Straight, Waits, Step
    <3> QED
      BY <1>15, <2>1, <3>1, <3>2 DEF Kind, Step
  <2> QED
    BY <1>6, <1>12, <2>4, <2>5, <2>6 DEF Sound, Hidden
<1>13. CASE t = "hello_after_reboot"
  <2>1. Now(w).do \in {"poll", "await_hello"}
    <3>1. t \in Reboots /\ t # "system_reboot"
      BY <1>13 DEF Reboots
    <3>2. Len(Script[t]) = 4 /\ Script[t][4].do \in {"poll", "await_hello"}
      BY <3>1, RebootScripts
    <3> QED
      BY <1>1, <1>3, <3>2
  <2>2. Now(w).do = "await_hello"
    BY <1>1, <1>13, <2>1 DEF Apart
  <2>3. HelloIsGood
    BY <1>3, <1>5, <1>13, <2>2 DEF Good, Waited, Declined, Waits
  <2>4. hellos \in Seq({"own", "foreign", "lookalike"})
    BY <1>1 DEF Base, TypeInv, TypeOK, RecordOK
  <2> QED
    BY <1>13, <2>3, <2>4, HelloVerdict
<1>14. CASE t \notin {"set_configuration", "set_date_and_time", "continuous_move_timeout",
                      "continuous_move_and_stop", "focus_to", "focus_move",
                      "door_command", "system_reboot", "hello_after_reboot",
                      "relay_state", "find_recordings"}
  <2>1. Defects(t) = {}
    BY <1>14 DEF Defects
  <2> QED
    BY <1>6, <1>14, <2>1 DEF Sound
<1>16. CASE t \in {"relay_state", "find_recordings"}
  <2>1. PICK x \in {"relay", "search"} : t = Writer(x)
    BY <1>16 DEF Writer
  <2>2. Puts(x, Script[t])
    BY <2>1, ScriptsPut DEF Four
  <2>3. /\ PutAt(x) \in 1..(at - 1) /\ Script[t][PutAt(x)].do = "put"
        /\ Script[t][PutAt(x)].on = x
        /\ Script[t][PutAt(x)].absorbs \in {"nothing", "skip"}
    <3>1. PutAt(x) = (IF x = "search" THEN 1 ELSE 2)
          /\ Len(Script[t]) = (IF x = "search" THEN 2 ELSE 3)
      BY <2>2 DEF Puts, PutAt
    <3>2. PutAt(x) \in 1..Len(Script[t])
      BY <3>1
    <3>3. /\ Script[t][PutAt(x)].do = "put" /\ Script[t][PutAt(x)].on = x
          /\ Script[t][PutAt(x)].absorbs = (IF x = "search" THEN "skip" ELSE "nothing")
      BY <2>2, <3>2 DEF Puts
    <3> QED
      BY <1>3, <3>1, <3>3
  <2>4. Kind(Script[t][PutAt(x)])
    <3>1. Straight(Script[t][PutAt(x)])
      BY <2>3 DEF Straight, Waits
    <3> QED
      BY <1>15, <2>3, <3>1
  <2>5. /\ "refuses_put" \notin traits
        /\ x = "search" => "no_token" \notin traits
    BY <2>3, <2>4 DEF Kind, Refused
  <2>6. Defects(t) = IF x = "search" THEN {"no_token"} ELSE {"refuses_put"}
    BY <1>16, <2>1 DEF Defects, Writer
  <2> QED
    BY <1>6, <1>16, <2>5, <2>6 DEF Sound
<1> QED
  BY <1>7, <1>8, <1>9, <1>10, <1>11, <1>12, <1>13, <1>14, <1>16

\* The tests that have something to know; while nothing is pending each of their
\* steps has gone well, or is tried again.
Watchers == {"set_configuration", "set_date_and_time", "consistency",
             "continuous_move_and_stop", "continuous_move_timeout", "system_reboot"}

LEMMA Onward ==
  ASSUME Base, NEW w \in Worker, Acts(w), job[w].test \in Watchers,
         job'[w] # NoJob, job'[w].pending = "none"
  PROVE  /\ job[w].pending = "none" /\ job'[w].test = job[w].test
         /\ \/ Calm /\ job'[w].at = job[w].at /\ job'[w].saved = job[w].saved
            \/ /\ Good(w) /\ job'[w].at = job[w].at + 1
               /\ job'[w].saved = Kept(w)
            \/ /\ Waited(w) /\ job'[w].at = job[w].at + 1
               /\ job'[w].saved = job[w].saved
<1>1. /\ Busy(w) /\ Apart(job[w].test, Script[job[w].test])
      /\ job[w].at \in 1..Len(Script[job[w].test])
      /\ Now(w) = Script[job[w].test][job[w].at]
  BY WorkerStep, AtStep
<1>2. Now(w).absorbs = "nothing" /\ Now(w).do \notin {"command", "listen"}
  BY <1>1 DEF Apart, Watchers
<1>3. \A what : ~Raise(w, what)
  <2>1. \A what : ~Caught(Now(w), what)
    BY <1>2 DEF Caught
  <2>2. SUFFICES ASSUME NEW what, Raise(w, what) PROVE FALSE
    OBVIOUS
  <2> QED
    BY <1>1, <2>1, <2>2, AfterRaise
<1>4. ASSUME NEW x, Proceed(w, x)
      PROVE  /\ job[w].pending = "none" /\ job'[w].test = job[w].test
             /\ job'[w].at = job[w].at + 1 /\ job'[w].saved = x
  BY <1>1, <1>4, AfterProceed
<1>5. CASE Good(w)
  BY <1>4, <1>5 DEF Good
<1>6. CASE Waited(w)
  BY <1>2, <1>4, <1>6 DEF Waited
<1>7. CASE Again(w)
  BY <1>1, <1>7, AfterAgain DEF Again
<1>8. ~Dropped(w)
  BY <1>1, AfterDrop
<1> QED
  BY <1>2, <1>3, <1>5, <1>6, <1>7, <1>8, WorkerStep
     DEF Bad, Faulted, Missed, Stranger, Declined

\* What a worker knew before its step.
LEMMA KnewBefore ==
  ASSUME Ground, NEW w \in Worker, Acts(w), job[w].pending = "none",
         job[w].test \notin disturbed'
  PROVE  /\ KnowsSetting(w) /\ KnowsMotor(w) /\ KnowsReboot(w)
         /\ traits' = traits /\ began' = began
  BY Alone DEF Ground, EarnedInv, Known, Remembers

\* Of a setting.
LEMMA SettingLearnt ==
  ASSUME Ground, NEW w \in Worker, Acts(w), job'[w] # NoJob,
         job'[w].pending = "none", job[w].test \notin disturbed',
         job[w].test \in {"set_configuration", "set_date_and_time", "consistency"}
  PROVE  KnowsSetting(w)'
<1> DEFINE t == job[w].test
           at == job[w].at
<1>1. /\ Base /\ Busy(w) /\ at \in 1..Len(Script[t])
      /\ Now(w) = Script[t][at] /\ Stuck /\ DOMAIN setting = Thing
  BY Alone, AtStep DEF Ground, PutBackInv, Base, TypeInv, TypeOK, DeviceOK
<1>2. /\ job[w].pending = "none" /\ job'[w].test = t
      /\ \/ Calm /\ job'[w].at = at /\ job'[w].saved = job[w].saved
         \/ Good(w) /\ job'[w].at = at + 1 /\ job'[w].saved = Kept(w)
         \/ Waited(w) /\ job'[w].at = at + 1 /\ job'[w].saved = job[w].saved
  BY <1>1, Onward DEF Watchers
<1>3. KnowsSetting(w) /\ traits' = traits /\ began' = began
  BY <1>2, KnewBefore
<1> DEFINE Told == \/ "ignores_writes" \notin traits
                   \/ t = "set_configuration" /\ "narrow_range" \in traits
                        /\ began.timeout = "max"
                   \/ t = "set_date_and_time" /\ began.clock = "Manual"
           Aim == /\ t = "set_configuration" /\ job'[w].at = 3 =>
                       \/ setting'.timeout = Target("timeout", job'[w].saved)
                       \/ "ignores_writes" \in traits
                  /\ t = "consistency" /\ job'[w].at = 2 =>
                       setting'.timeout = job'[w].saved
                  /\ t \in {"set_configuration", "set_date_and_time"}
                       /\ job'[w].at = 4 => Told
<1>4. t \in {"set_configuration", "set_date_and_time"} => (Heeded(t) <=> Told)
  BY DEF Heeded, Hidden
<1>5. SUFFICES Aim
  <2>1. ASSUME NEW x \in {"set_configuration", "set_date_and_time"}
        PROVE  Heeded(x)' <=> Heeded(x)
    BY <1>3, <2>1 DEF Heeded, Hidden
  <2>2. ASSUME NEW x, x = job'[w].test, x \in {"set_configuration", "set_date_and_time"}, Told
        PROVE  Heeded(x)'
    BY <1>2, <1>4, <2>1, <2>2
  <2>3. ASSUME NEW x, x = job'[w].saved
        PROVE  Target("timeout", x)' = Target("timeout", x)
    BY <1>3 DEF Target
  <2> QED
    BY <1>2, <1>3, <2>2, <2>3 DEF KnowsSetting
<1>6. CASE Calm /\ job'[w].at = at /\ job'[w].saved = job[w].saved
  <2>1. setting' = setting
    BY <1>6 DEF Calm, box
  <2> QED
    BY <1>2, <1>3, <1>4, <1>6, <2>1 DEF KnowsSetting
<1>7. ~Waited(w)
  <2>1. Apart(t, Script[t])
    BY <1>1, AtStep
  <2>2. Now(w).do \notin {"poll", "listen", "await_hello"}
    BY <1>1, <2>1 DEF Apart
  <2>3. Now(w).do \notin {"wait", "grace"}
    <3>1. CASE t = "consistency"
      <4>1. at = 1 \/ at = 2
        BY <1>1, <3>1, LookScripts
      <4> QED
        BY <1>1, <3>1, <4>1, LookScripts
    <3>2. CASE t = "set_date_and_time"
      <4>1. at = 1 \/ at = 2 \/ at = 3 \/ at = 4
        BY <1>1, <3>2, ClockScript
      <4> QED
        BY <1>1, <3>2, <4>1, ClockScript
    <3>3. CASE t = "set_configuration"
      <4>1. Puts("timeout", Script[t])
        BY <3>3, ScriptsPut DEF Four, Writer
      <4> QED
        BY <1>1, <4>1 DEF Puts, PutAt
    <3> QED
      BY <3>1, <3>2, <3>3
  <2> QED
    BY <2>2, <2>3 DEF Waited
<1>8. CASE Good(w) /\ job'[w].at = at + 1 /\ job'[w].saved = Kept(w)
  <2>1. setting' = Written(Now(w), job[w].saved) /\ Holds(Now(w), job[w].saved)
    BY <1>8 DEF Good, Heard
  <2>2. CASE t = "consistency"
    <3>1. job'[w].at = 2 => /\ Now(w).do = "read" /\ Now(w).on = "timeout"
      BY <1>1, <1>8, <2>2, LookScripts
    <3>2. Now(w).do = "read" /\ Now(w).on = "timeout" =>
            job'[w].saved = setting.timeout /\ setting' = setting
      BY <1>8, <2>1 DEF Kept, Shown, Written
    <3> QED
      BY <2>2, <3>1, <3>2
  <2>3. CASE t = "set_date_and_time"
    <3>1. ASSUME job'[w].at = 4
          PROVE  Told
      <4>1. at = 3 /\ Now(w).do = "check" /\ Now(w).on = "clock"
        BY <1>1, <1>8, <2>3, <3>1, ClockScript
      <4>2. setting.clock = "Manual"
        BY <2>1, <4>1 DEF Holds, Shown, Target
      <4>3. "ignores_writes" \in traits => began.clock = "Manual"
        BY <1>1, <4>2 DEF Stuck, Four
      <4> QED
        BY <2>3, <4>3
    <3> QED
      BY <2>3, <3>1
  <2>4. CASE t = "set_configuration"
    <3>1. Puts("timeout", Script[t])
      BY <2>4, ScriptsPut DEF Four, Writer
    <3>2. Len(Script[t]) = 4 /\ at \in 1..4 /\ Now(w).on = "timeout"
          /\ (at = 2 => Now(w).do = "put") /\ (at = 3 => Now(w).do = "check")
      BY <1>1, <3>1 DEF Puts, PutAt
    <3>3. ASSUME job'[w].at = 3
          PROVE  setting'.timeout = Target("timeout", job'[w].saved) \/ "ignores_writes" \in traits
      <4>1. at = 2 /\ Now(w).do = "put" /\ job'[w].saved = job[w].saved
        BY <1>8, <3>2, <3>3 DEF Kept
      <4>3. "timeout" \in DOMAIN setting
        BY <1>1, Things
      <4>4. "ignores_writes" \notin traits =>
              setting' = [setting EXCEPT !["timeout"] = Target("timeout", job[w].saved)]
        BY <2>1, <3>2, <4>1 DEF Written, Ignored
      <4> QED
        BY <4>1, <4>3, <4>4
    <3>4. ASSUME job'[w].at = 4
          PROVE  Told
      <4>1. at = 3 /\ Now(w).do = "check"
        BY <1>8, <3>2, <3>4
      <4>2. setting.timeout = Target("timeout", job[w].saved)
        BY <2>1, <3>2, <4>1 DEF Holds, Shown
      <4>3. "ignores_writes" \in traits =>
              setting.timeout = began.timeout /\ job[w].saved = began.timeout
        BY <1>1, <2>4, <4>1 DEF Stuck, Four, Knew, Writer
      <4>4. "ignores_writes" \in traits => "narrow_range" \in traits /\ began.timeout = "max"
        BY <4>2, <4>3 DEF Target
      <4> QED
        BY <2>4, <4>4
    <3> QED
      BY <2>4, <3>3, <3>4
  <2> QED
    BY <2>2, <2>3, <2>4
<1> QED
  BY <1>2, <1>6, <1>7, <1>8

\* Of a motor.
LEMMA MotorLearnt ==
  ASSUME Ground, NEW w \in Worker, Acts(w), job'[w] # NoJob,
         job'[w].pending = "none", job[w].test \notin disturbed',
         job[w].test \in {"continuous_move_and_stop", "continuous_move_timeout"}
  PROVE  KnowsMotor(w)'
<1> DEFINE t == job[w].test
           at == job[w].at
<1>1. /\ Base /\ Busy(w) /\ at \in 1..Len(Script[t]) /\ Now(w) = Script[t][at]
      /\ DOMAIN motion = Axis /\ {"PanTilt", "Zoom"} = Axis
  BY Alone, AtStep DEF Ground, Base, TypeInv, TypeOK, DeviceOK, Axis
<1>2. /\ job[w].pending = "none" /\ job'[w].test = t
      /\ \/ Calm /\ job'[w].at = at /\ job'[w].saved = job[w].saved
         \/ Good(w) /\ job'[w].at = at + 1
         \/ Waited(w) /\ job'[w].at = at + 1
  BY <1>1, Onward DEF Watchers
<1>3. KnowsMotor(w) /\ traits' = traits /\ began' = began
  BY <1>2, KnewBefore
<1>4. /\ Good(w) => motion' = Moved(Now(w)) /\ Holds(Now(w), job[w].saved)
                    /\ Now(w).do \notin Waits
      /\ Waited(w) => motion' = motion /\ Now(w).do \in Waits
  BY DEF Good, Waited, Heard, Calm, box, Waits
<1>5. CASE Calm /\ job'[w].at = at /\ job'[w].saved = job[w].saved
  <2>1. motion' = motion
    BY <1>5 DEF Calm, box
  <2>2. Sound("continuous_move_timeout") => Sound("continuous_move_timeout")'
    BY <1>3 DEF Sound, Hidden
  <2> QED
    BY <1>2, <1>3, <1>5, <2>1, <2>2 DEF KnowsMotor, Obeyed, Timed, Elapsed
<1>6. CASE t = "continuous_move_and_stop" /\ job'[w].at = at + 1 /\ (Good(w) \/ Waited(w))
  <2>1. at \in 1..7 /\ job'[w].at \in 2..8
    BY <1>1, <1>6, MotorScripts
  <2>2. ASSUME job'[w].at = 3
        PROVE  motion'["PanTilt"] = "endless"
    <3>1. at = 2 /\ Now(w).do = "move" /\ Now(w).on = "PanTilt"
      BY <1>1, <1>6, <2>2, MotorScripts
    <3> QED
      BY <1>1, <1>4, <1>6, <3>1 DEF Moved, Waits
  <2>3. ASSUME job'[w].at = 6
        PROVE  motion'["Zoom"] = "endless"
    <3>1. at = 5 /\ Now(w).do = "move" /\ Now(w).on = "Zoom"
      BY <1>1, <1>6, <2>3, MotorScripts
    <3> QED
      BY <1>1, <1>4, <1>6, <3>1 DEF Moved, Waits
  <2>4. ASSUME job'[w].at = 4
        PROVE  motion'["PanTilt"] = IF "ignores_stop" \in traits THEN "endless" ELSE "idle"
    <3>1. at = 3 /\ Now(w).do = "stop" /\ motion["PanTilt"] = "endless"
      BY <1>1, <1>3, <1>6, <2>4, MotorScripts DEF KnowsMotor
    <3> QED
      BY <1>1, <1>4, <1>6, <3>1 DEF Moved, Waits
  <2>5. ASSUME job'[w].at = 7
        PROVE  motion'["Zoom"] = IF "ignores_stop" \in traits THEN "endless" ELSE "idle"
    <3>1. at = 6 /\ Now(w).do = "stop" /\ motion["Zoom"] = "endless"
      BY <1>1, <1>3, <1>6, <2>5, MotorScripts DEF KnowsMotor
    <3> QED
      BY <1>1, <1>4, <1>6, <3>1 DEF Moved, Waits
  <2> QED
    BY <1>2, <1>3, <1>6, <2>2, <2>3, <2>4, <2>5 DEF KnowsMotor, Obeyed
<1>7. CASE t = "continuous_move_timeout" /\ job'[w].at = at + 1 /\ (Good(w) \/ Waited(w))
  <2>1. at \in 1..9
    BY <1>1, <1>7, MotorScripts
  <2>2. ASSUME job'[w].at = 3
        PROVE  motion'["PanTilt"] = "timed"
    <3>1. at = 2 /\ Now(w).do = "timed" /\ Now(w).on = "PanTilt"
      BY <1>1, <1>7, <2>2, MotorScripts
    <3> QED
      BY <1>1, <1>4, <1>7, <3>1 DEF Moved, Waits
  <2>3. ASSUME job'[w].at = 7
        PROVE  motion'["Zoom"] = "timed"
    <3>1. at = 6 /\ Now(w).do = "timed" /\ Now(w).on = "Zoom"
      BY <1>1, <1>7, <2>3, MotorScripts
    <3> QED
      BY <1>1, <1>4, <1>7, <3>1 DEF Moved, Waits
  <2>4. ASSUME job'[w].at = 4
        PROVE  motion'["PanTilt"] = IF "ignores_timeout" \in traits THEN "timed" ELSE "idle"
    <3>1. at = 3 /\ Now(w).do = "wait" /\ Now(w).on = "PanTilt" /\ Timed("PanTilt")
      BY <1>1, <1>3, <1>7, <2>4, MotorScripts DEF KnowsMotor
    <3>2. motion' = motion /\ (motion["PanTilt"] = "timed" => "ignores_timeout" \in traits)
      BY <1>4, <1>7, <3>1 DEF Waits, Waited
    <3> QED
      BY <3>1, <3>2 DEF Timed
  <2>5. ASSUME job'[w].at = 8
        PROVE  motion'["Zoom"] = IF "ignores_timeout" \in traits THEN "timed" ELSE "idle"
    <3>1. at = 7 /\ Now(w).do = "wait" /\ Now(w).on = "Zoom" /\ Timed("Zoom")
      BY <1>1, <1>3, <1>7, <2>5, MotorScripts DEF KnowsMotor
    <3>2. motion' = motion /\ (motion["Zoom"] = "timed" => "ignores_timeout" \in traits)
      BY <1>4, <1>7, <3>1 DEF Waits, Waited
    <3> QED
      BY <3>1, <3>2 DEF Timed
  <2>6. ASSUME job'[w].at = 9
        PROVE  Sound("continuous_move_timeout")'
    <3>1. at = 8 /\ Now(w).do = "idle" /\ Now(w).on = "Zoom" /\ Elapsed("Zoom")
      BY <1>1, <1>3, <1>7, <2>6, MotorScripts DEF KnowsMotor
    <3>2. LooksIdle("Zoom")
      BY <1>4, <1>7, <3>1 DEF Waits, Holds
    <3>3. Defects("continuous_move_timeout") = {"ignores_timeout", "hides_status"}
      BY DEF Defects
    <3>4. \/ "no_status" \in traits
          \/ "hides_status" \notin traits /\ "ignores_timeout" \notin traits
      BY <3>1, <3>2 DEF LooksIdle, Elapsed
    <3> QED
      BY <1>3, <3>3, <3>4 DEF Sound, Hidden
  <2> QED
    BY <1>2, <1>3, <1>7, <2>2, <2>3, <2>4, <2>5, <2>6 DEF KnowsMotor, Timed, Elapsed
<1> QED
  BY <1>2, <1>5, <1>6, <1>7

\* Of the device that was rebooted.
LEMMA RebootLearnt ==
  ASSUME Ground, NEW w \in Worker, Acts(w), job'[w] # NoJob,
         job'[w].pending = "none", job[w].test \notin disturbed',
         job[w].test = "system_reboot"
  PROVE  KnowsReboot(w)'
<1> DEFINE t == job[w].test
           at == job[w].at
<1>1. /\ Base /\ Busy(w) /\ at \in 1..Len(Script[t]) /\ Now(w) = Script[t][at]
  BY Alone, AtStep DEF Ground
<1>2. /\ job[w].pending = "none" /\ job'[w].test = t
      /\ \/ Calm /\ job'[w].at = at /\ job'[w].saved = job[w].saved
         \/ Good(w) /\ job'[w].at = at + 1 /\ job'[w].saved = Kept(w)
         \/ Waited(w) /\ job'[w].at = at + 1 /\ job'[w].saved = job[w].saved
  BY <1>1, Onward DEF Watchers
<1>3. KnowsReboot(w) /\ traits' = traits
  BY <1>2, KnewBefore
<1>4. CASE Calm /\ job'[w].at = at /\ job'[w].saved = job[w].saved
  BY <1>2, <1>3, <1>4 DEF KnowsReboot, Changed, Calm, box
<1>5. ASSUME \/ Good(w) /\ job'[w].at = at + 1 /\ job'[w].saved = Kept(w)
             \/ Waited(w) /\ job'[w].at = at + 1 /\ job'[w].saved = job[w].saved,
             "new_identity" \in traits, "slow_reboot" \notin traits
      PROVE  KnowsReboot(w)'
  <2>1. /\ Len(Script[t]) = 5 /\ Script[t][1].do = "identify" /\ Script[t][2].do = "reboot"
        /\ Script[t][3].do = "grace" /\ Script[t][4].do = "poll"
        /\ Script[t][5].do = "compare" /\ Script[t][1].on = "power"
    <3>1. Script["system_reboot"] = SystemReboot
      BY DEF Script
    <3> QED
      BY <3>1 DEF SystemReboot, Step
  <2>2. at = 1 \/ at = 2 \/ at = 3 \/ at = 4 \/ at = 5
    BY <1>1, <2>1
  <2>3. CASE at = 1
    <3>1. Now(w).do = "identify" /\ Now(w).on = "power"
      BY <1>1, <2>1, <2>3
    <3>2. Good(w) /\ job'[w].at = 2 /\ job'[w].saved = identity
      BY <1>5, <2>3, <3>1 DEF Waited, Kept, Shown
    <3>3. phase # "down" /\ phase' = phase /\ identity' = identity
      BY <3>1, <3>2 DEF Good, Heard
    <3> QED
      BY <1>2, <3>2, <3>3 DEF KnowsReboot
  <2>4. CASE at = 2
    <3>1. Now(w).do = "reboot"
      BY <1>1, <2>1, <2>4
    <3>2. Good(w) /\ job'[w].at = 3 /\ job'[w].saved = job[w].saved
      BY <1>5, <2>4, <3>1 DEF Waited, Kept
    <3>3. phase' = "accepted" /\ identity' = identity /\ job[w].saved = identity
      BY <1>3, <1>5, <2>4, <3>1, <3>2 DEF Good, Heard, KnowsReboot
    <3> QED
      BY <1>2, <3>2, <3>3 DEF KnowsReboot
  <2>5. CASE at = 3
    <3>1. Now(w).do = "grace"
      BY <1>1, <2>1, <2>5
    <3>2. Waited(w) /\ job'[w].at = 4 /\ job'[w].saved = job[w].saved
      BY <1>5, <2>5, <3>1 DEF Good, Waits
    <3>3. phase' = phase /\ identity' = identity /\ phase # "accepted"
      BY <1>5, <3>1, <3>2 DEF Waited, Calm, box
    <3>4. Changed(w) \/ (phase = "down" /\ job[w].saved = identity)
      <4>1. phase \in {"up", "accepted", "down"}
        BY <1>1 DEF Base, TypeInv, TypeOK, DeviceOK
      <4> QED
        BY <1>3, <1>5, <2>5, <3>3, <4>1 DEF KnowsReboot
    <3> QED
      BY <1>2, <3>2, <3>3, <3>4 DEF KnowsReboot, Changed
  <2>6. CASE at = 4
    <3>1. Now(w).do = "poll"
      BY <1>1, <2>1, <2>6
    <3>2. Waited(w) /\ job'[w].at = 5 /\ job'[w].saved = job[w].saved
      BY <1>5, <2>6, <3>1 DEF Good, Waits
    <3>3. phase' = phase /\ identity' = identity /\ phase # "down"
      BY <3>1, <3>2 DEF Waited, Calm, box
    <3>4. Changed(w)
      BY <1>3, <1>5, <2>6, <3>3 DEF KnowsReboot
    <3> QED
      BY <1>2, <3>2, <3>3, <3>4 DEF KnowsReboot, Changed
  <2>7. CASE at = 5
    BY <1>5, <2>7 DEF KnowsReboot
  <2> QED
    BY <2>2, <2>3, <2>4, <2>5, <2>6, <2>7
<1>6. CASE ~("new_identity" \in traits /\ "slow_reboot" \notin traits)
  BY <1>3, <1>6 DEF KnowsReboot
<1> QED
  BY <1>2, <1>4, <1>5, <1>6

\* What a worker has learnt it knows, whoever acted.
LEMMA OwnKnown ==
  ASSUME Ground, NEW w \in Worker, Acts(w)
  PROVE  Known(w)'
<1> SUFFICES ASSUME job'[w] # NoJob, job'[w].pending = "none",
                    job'[w].test \notin disturbed'
             PROVE  KnowsSetting(w)' /\ KnowsMotor(w)' /\ KnowsReboot(w)'
  BY DEF Known, Busy
<1>1. job'[w].test = job[w].test
  BY Alone DEF Ground
<1>2. KnowsSetting(w)'
  <2>1. CASE job[w].test \in {"set_configuration", "set_date_and_time", "consistency"}
    BY <1>1, <2>1, SettingLearnt
  <2> QED
    BY <1>1, <2>1 DEF KnowsSetting
<1>3. KnowsMotor(w)'
  <2>1. CASE job[w].test \in {"continuous_move_and_stop", "continuous_move_timeout"}
    BY <1>1, <2>1, MotorLearnt
  <2> QED
    BY <1>1, <2>1 DEF KnowsMotor
<1>4. KnowsReboot(w)'
  <2>1. CASE job[w].test = "system_reboot"
    BY <1>1, <2>1, RebootLearnt
  <2> QED
    BY <1>1, <2>1 DEF KnowsReboot
<1> QED
  BY <1>2, <1>3, <1>4

LEMMA OtherKnown ==
  ASSUME Ground, NEW u \in Worker, Acts(u), NEW v \in Worker \ {u}
  PROVE  Known(v)'
<1> SUFFICES ASSUME job'[v] # NoJob, job'[v].pending = "none",
                    job'[v].test \notin disturbed'
             PROVE  KnowsSetting(v)' /\ KnowsMotor(v)' /\ KnowsReboot(v)'
  BY DEF Known, Busy
<1>1. /\ Base /\ job'[v] = job[v] /\ Busy(v) /\ traits' = traits /\ began' = began
      /\ disturbed \subseteq disturbed'
  BY Alone DEF Ground, Remembers, Busy
<1>2. KnowsSetting(v) /\ KnowsMotor(v) /\ KnowsReboot(v)
  BY <1>1 DEF Ground, EarnedInv, Known
<1>3. /\ \A x \in Four \cap Subjects(job[v].test) : setting'[x] = setting[x]
      /\ "motor" \in Subjects(job[v].test) => motion' = motion
      /\ phase' = phase /\ identity' = identity
  BY <1>1, Aside
<1>4. KnowsSetting(v)'
  <2>1. job[v].test \in {"set_configuration", "consistency"} =>
          setting'.timeout = setting.timeout
    BY <1>3, TheirSubjects DEF Four
  <2>2. ASSUME NEW x \in {"set_configuration", "set_date_and_time"}
        PROVE  Heeded(x)' <=> Heeded(x)
    BY <1>1, <2>2 DEF Heeded, Hidden
  <2>3. ASSUME NEW x, x = job[v].saved
        PROVE  Target("timeout", x)' = Target("timeout", x)
    BY <1>1 DEF Target
  <2>4. ASSUME NEW x, x = job[v].test, x \in {"set_configuration", "set_date_and_time"},
               job[v].at = 4
        PROVE  Heeded(x)'
    BY <1>2, <2>2, <2>4 DEF KnowsSetting
  <2> QED
    BY <1>1, <1>2, <2>1, <2>3, <2>4 DEF KnowsSetting
<1>5. KnowsMotor(v)'
  <2>1. job[v].test \in {"continuous_move_and_stop", "continuous_move_timeout"} =>
          motion' = motion
    BY <1>3, TheirSubjects
  <2>2. Sound("continuous_move_timeout") => Sound("continuous_move_timeout")'
    BY <1>1 DEF Sound, Hidden
  <2> QED
    BY <1>1, <1>2, <2>1, <2>2 DEF KnowsMotor, Obeyed, Timed, Elapsed
<1>6. KnowsReboot(v)'
  BY <1>1, <1>2, <1>3 DEF KnowsReboot, Changed
<1> QED
  BY <1>4, <1>5, <1>6

\* A device that does not change stays what it is.
LEMMA SameStays ==
  ASSUME Ground, NEW w \in Worker, Acts(w)
  PROVE  SameDevice'
<1> SUFFICES ASSUME "new_identity" \notin traits
             PROVE  /\ identity' = "first"
                    /\ \A v \in Worker :
                         job'[v].test = "system_reboot" /\ job'[v].at > 1 =>
                           job'[v].saved = "first"
  BY Alone DEF SameDevice, Ground, Remembers
<1>1. /\ Base /\ SameDevice /\ identity = "first" /\ Busy(w)
      /\ \A v \in Worker \ {w} : job'[v] = job[v]
      /\ job'[w] = NoJob \/ job'[w].test = job[w].test
  BY Alone DEF Ground, EarnedInv, SameDevice
<1>2. identity' = identity
  BY Touch DEF Calm, box, Heard
<1>3. job'[w].test = "system_reboot" /\ job'[w].at > 1 => job'[w].saved = "first"
  <2> SUFFICES ASSUME job'[w].test = "system_reboot", job'[w].at > 1
               PROVE  job'[w].saved = "first"
    OBVIOUS
  <2>1. job'[w] # NoJob
    BY DEF NoJob
  <2>2. job[w].test = "system_reboot" /\ job[w].test \in Readers
        /\ Shown(Looks(job[w].test)) = identity
    BY <1>1, <2>1 DEF Readers, Looks, Shown
  <2>3. job[w].at = 1 \/ job[w].at > 1
    BY <1>1, AtStep
  <2> QED
    BY <1>1, <2>1, <2>2, <2>3, SavedStep DEF SameDevice
<1> QED
  BY <1>1, <1>2, <1>3 DEF SameDevice

\* A step of a worker fails no test, and passes none, that has not earned it.
LEMMA WorkerEarned ==
  ASSUME Ground, NEW w \in Worker, Acts(w)
  PROVE  EarnedInv'
<1>1. /\ Base /\ EarnedInv /\ Busy(w) /\ job[w].test \in Suite
      /\ UNCHANGED <<traits, began, hellos>>
      /\ mishaps \subseteq mishaps' /\ disturbed \subseteq disturbed'
      /\ \A v \in Worker \ {w} : job'[v] = job[v]
      /\ job'[w] = NoJob \/ job'[w].test = job[w].test
      /\ \A t \in Suite \ {job[w].test} : verdict'[t] = verdict[t]
  BY Alone DEF Ground, Remembers
<1>2. \A t \in Suite : /\ Earned(t) => Earned(t)'
                       /\ Sound(t) => Sound(t)'
                       /\ Answers(t) => Answers(t)'
  BY <1>1, EarnedStays
<1>3. \A v \in Worker : Known(v)'
  BY OwnKnown, OtherKnown
<1>10. \A v \in Worker : Behind(v)'
  <2>1. \A step : Kind(step)' <=> Kind(step)
    BY <1>1 DEF Kind, Refused
  <2>2. \A v \in Worker \ {w} : Behind(v)'
    BY <1>1, <2>1 DEF EarnedInv, Behind, Busy
  <2> QED
    BY <1>1, <2>2, BehindStep DEF EarnedInv
<1>4. \A v \in Worker, t \in Suite :
        job'[v] # NoJob /\ job'[v].pending # "none" /\ t = job'[v].test => Earned(t)'
  <2> SUFFICES ASSUME NEW v \in Worker, NEW t \in Suite, job'[v] # NoJob,
                      job'[v].pending # "none", t = job'[v].test
               PROVE  Earned(t)'
    OBVIOUS
  <2>1. CASE v = w
    BY <1>1, <2>1, Fails
  <2>2. CASE v # w
    <3>1. Busy(v) /\ job[v].pending # "none" /\ t = job[v].test
      BY <1>1, <2>2 DEF Busy
    <3> QED
      BY <1>1, <1>2, <3>1 DEF EarnedInv
  <2> QED
    BY <2>1, <2>2
<1>5. \A t \in Suite : verdict'[t] = "failed" => Earned(t)'
  <2> SUFFICES ASSUME NEW t \in Suite, verdict'[t] = "failed"
               PROVE  Earned(t)'
    OBVIOUS
  <2>1. CASE t = job[w].test
    BY <2>1, Fails
  <2>2. CASE t # job[w].test
    BY <1>1, <1>2, <2>2 DEF EarnedInv, FailureIsEarned, Earned
  <2> QED
    BY <2>1, <2>2
<1>6. \A t \in Suite : verdict'[t] = "passed" /\ t \notin disturbed' =>
                         Sound(t)' /\ Answers(t)'
  <2> SUFFICES ASSUME NEW t \in Suite, verdict'[t] = "passed", t \notin disturbed'
               PROVE  Sound(t)' /\ Answers(t)'
    OBVIOUS
  <2>1. CASE t = job[w].test
    BY <2>1, PassSound
  <2>2. CASE t # job[w].test
    <3>1. Sound(t) /\ Answers(t)
      BY <1>1, <2>2 DEF EarnedInv, PassIsEarned, Sound, Answers
    <3> QED
      BY <1>2, <3>1
  <2> QED
    BY <2>1, <2>2
<1>7. SameDevice'
  BY SameStays
<1>8. (\A v \in Worker : Busy(v) /\ job[v].pending # "none" => Earned(job[v].test))'
  <2>1. \A v \in Worker : job'[v] # NoJob => job'[v].test \in Suite
    BY <1>1, WorkerType DEF TypeInv, TypeOK, JobOK
  <2> QED
    BY <1>4, <2>1 DEF Busy, Earned
<1>9. FailureIsEarned' /\ PassIsEarned'
  BY <1>5, <1>6 DEF FailureIsEarned, PassIsEarned, Earned, Sound, Answers
<1> QED
  BY <1>3, <1>7, <1>8, <1>9, <1>10 DEF EarnedInv

\* A test that begins knows nothing yet.
LEMMA StartEarned ==
  ASSUME Ground, NEW w \in Worker, NEW t \in Suite, Start(w, t)
  PROVE  EarnedInv'
<1>1. /\ job'[w].test = t /\ job'[w].at = 1 /\ job'[w].pending = "none"
      /\ \A v \in Worker \ {w} : job'[v] = job[v]
      /\ verdict' = [verdict EXCEPT ![t] = "running"] /\ DOMAIN verdict = Suite
      /\ UNCHANGED <<traits, began, phase, identity, setting, motion, hellos,
                     mishaps, disturbed>>
      /\ EarnedInv
  BY StartStep DEF Ground, Base, RebootInv, Shape, outside, box, hello, history
<1>2. SameDevice'
  BY <1>1 DEF EarnedInv, SameDevice
<1>3. Known(w)'
  BY <1>1 DEF Known, KnowsSetting, KnowsMotor, KnowsReboot
<1>4. ASSUME NEW v \in Worker \ {w}
      PROVE  Known(v)'
  BY <1>1 DEF EarnedInv, Known, KnowsSetting, KnowsMotor, KnowsReboot, Busy, Sound,
              Heeded, Hidden, Target, Obeyed, Timed, Elapsed, Changed
<1>9. \A v \in Worker : Behind(v)'
  <2>1. \A step : Kind(step)' <=> Kind(step)
    BY <1>1 DEF Kind, Refused
  <2>2. \A v \in Worker \ {w} : Behind(v)'
    BY <1>1, <2>1 DEF EarnedInv, Behind, Busy
  <2>3. Behind(w)'
    BY <1>1 DEF Behind
  <2> QED
    BY <2>2, <2>3
<1>5. (\A v \in Worker : Busy(v) /\ job[v].pending # "none" => Earned(job[v].test))'
  BY <1>1 DEF EarnedInv, Busy, Earned, OnlyStrangers
<1>6. \A u \in Suite : verdict'[u] \in {"failed", "passed"} => verdict[u] = verdict'[u]
  BY <1>1
<1>7. FailureIsEarned'
  BY <1>1, <1>6 DEF EarnedInv, FailureIsEarned, OnlyStrangers
<1>8. PassIsEarned'
  BY <1>1, <1>6 DEF EarnedInv, PassIsEarned, Hidden
<1> QED
  BY <1>2, <1>3, <1>4, <1>5, <1>7, <1>8, <1>9 DEF EarnedInv

\* A worker past its SystemReboot is in a reboot test.
LEMMA AskedReboot ==
  ASSUME Base, NEW v \in Worker, Asked(v)
  PROVE  job[v].test \in Reboots /\ job[v].at > 2
<1>1. /\ Busy(v) /\ job[v].at \in 1..Len(Script[job[v].test])
      /\ Apart(job[v].test, Script[job[v].test])
      /\ Len(Script[job[v].test]) \in Nat
  BY AtStep DEF Asked, Apart
<1>2. PICK i \in 1..(job[v].at - 1) : Script[job[v].test][i].do = "reboot"
  BY DEF Asked
<1>3. i \in 1..Len(Script[job[v].test]) /\ i < job[v].at
  BY <1>1, <1>2
<1>4. job[v].test \in Reboots
  BY <1>1, <1>2, <1>3 DEF Apart
<1>5. i # 1
  BY <1>2, <1>4, RebootScripts
<1> QED
  BY <1>1, <1>3, <1>4, <1>5

\* What the device does in its own time, each test that watches it expects.
LEMMA OuterKnown ==
  ASSUME Ground, Outer, NEW v \in Worker
  PROVE  Known(v)'
<1> SUFFICES ASSUME job'[v] # NoJob, job'[v].pending = "none",
                    job'[v].test \notin disturbed'
             PROVE  KnowsSetting(v)' /\ KnowsMotor(v)' /\ KnowsReboot(v)'
  BY DEF Known, Busy
<1>1. /\ Base /\ job' = job /\ Busy(v) /\ traits' = traits /\ began' = began
      /\ disturbed \subseteq disturbed'
  BY OuterStep DEF Ground, Busy
<1>2. KnowsSetting(v) /\ KnowsMotor(v) /\ KnowsReboot(v)
  BY <1>1 DEF Ground, EarnedInv, Known
<1>3. setting' = setting => KnowsSetting(v)'
  <2>1. ASSUME NEW x \in {"set_configuration", "set_date_and_time"}
        PROVE  Heeded(x)' <=> Heeded(x)
    BY <1>1, <2>1 DEF Heeded, Hidden
  <2>2. ASSUME NEW x, x = job[v].saved
        PROVE  Target("timeout", x)' = Target("timeout", x)
    BY <1>1 DEF Target
  <2>3. ASSUME NEW x, x = job[v].test, x \in {"set_configuration", "set_date_and_time"},
               job[v].at = 4
        PROVE  Heeded(x)'
    BY <1>2, <2>1, <2>3 DEF KnowsSetting
  <2> QED
    BY <1>1, <1>2, <2>2, <2>3 DEF KnowsSetting
<1>4. Sound("continuous_move_timeout") => Sound("continuous_move_timeout")'
  BY <1>1 DEF Sound, Hidden
<1>5. motion' = motion => KnowsMotor(v)'
  BY <1>1, <1>2, <1>4 DEF KnowsMotor, Obeyed, Timed, Elapsed
<1>6. phase' = phase /\ identity' = identity => KnowsReboot(v)'
  BY <1>1, <1>2 DEF KnowsReboot, Changed
<1>7. CASE \E a \in Axis : MotionEnds(a)
  <2>1. PICK a \in Axis : MotionEnds(a)
    BY <1>7
  <2>2. /\ motion[a] = "goto" \/ (motion[a] = "timed" /\ "ignores_timeout" \notin traits)
        /\ motion' = [motion EXCEPT ![a] = "idle"]
        /\ UNCHANGED <<setting, phase, identity>>
    BY <2>1 DEF MotionEnds
  <2>3. DOMAIN motion = Axis /\ Axis = {"PanTilt", "Zoom"}
    BY <1>1 DEF Base, TypeInv, TypeOK, DeviceOK, Axis
  <2>4. /\ motion'["PanTilt"] = IF a = "PanTilt" THEN "idle" ELSE motion["PanTilt"]
        /\ motion'["Zoom"] = IF a = "Zoom" THEN "idle" ELSE motion["Zoom"]
    BY <2>2, <2>3
  <2>5. KnowsMotor(v)'
    <3>1. /\ motion["PanTilt"] = "endless" => motion'["PanTilt"] = "endless"
          /\ motion["Zoom"] = "endless" => motion'["Zoom"] = "endless"
      BY <2>2, <2>4
    <3>2. Obeyed("PanTilt") => Obeyed("PanTilt")'
      BY <1>1, <2>2, <2>4 DEF Obeyed
    <3>3. Obeyed("Zoom") => Obeyed("Zoom")'
      BY <1>1, <2>2, <2>4 DEF Obeyed
    <3>4. Timed("PanTilt") => Timed("PanTilt")'
      BY <1>1, <2>2, <2>4 DEF Timed
    <3>5. Timed("Zoom") => Timed("Zoom")'
      BY <1>1, <2>2, <2>4 DEF Timed
    <3>6. Elapsed("PanTilt") => Elapsed("PanTilt")'
      BY <1>1, <2>2, <2>4 DEF Elapsed
    <3>7. Elapsed("Zoom") => Elapsed("Zoom")'
      BY <1>1, <2>2, <2>4 DEF Elapsed
    <3> QED
      BY <1>1, <1>2, <1>4, <3>1, <3>2, <3>3, <3>4, <3>5, <3>6, <3>7
         DEF KnowsMotor, Obeyed, Timed, Elapsed
  <2> QED
    BY <1>3, <1>6, <2>2, <2>5
<1>8. CASE GoDown
  <2>1. phase = "accepted" /\ phase' = "down" /\ identity' = identity
    BY <1>8 DEF GoDown
  <2>2. Asked(v)
    BY <1>1, <1>8 DEF GoDown
  <2>3. job[v].test \in Reboots /\ job[v].at > 2
    BY <1>1, <2>2, AskedReboot
  <2>4. KnowsSetting(v)' /\ KnowsMotor(v)'
    BY <1>1, <2>3 DEF KnowsSetting, KnowsMotor, Reboots
  <2>5. KnowsReboot(v)'
    BY <1>1, <1>2, <2>1, <2>3 DEF KnowsReboot, Changed
  <2> QED
    BY <2>4, <2>5
<1>9. CASE ComeUp
  <2>1. /\ phase = "down" /\ phase' = "up"
        /\ setting' = setting /\ motion' = motion
        /\ identity' = IF "new_identity" \in traits /\ identity = "first"
                         THEN "second" ELSE "first"
    BY <1>9 DEF ComeUp
  <2>2. "new_identity" \in traits => identity' # identity
    <3>1. identity \in {"first", "second"}
      BY <1>1 DEF Base, TypeInv, TypeOK, DeviceOK
    <3> QED
      BY <2>1, <3>1
  <2>3. KnowsReboot(v)'
    BY <1>1, <1>2, <2>1, <2>2 DEF KnowsReboot, Changed
  <2> QED
    BY <1>3, <1>5, <2>1, <2>3
<1>10. CASE ForeignHello
  BY <1>3, <1>5, <1>6, <1>10 DEF ForeignHello, box
<1> QED
  BY <1>7, <1>8, <1>9, <1>10 DEF Outer

\* A Hello reaches a listener only, and its test is still running.
LEMMA OuterHello ==
  ASSUME Ground, Outer
  PROVE  \/ hellos' = hellos
         \/ /\ "hello_after_reboot" \in Suite => verdict["hello_after_reboot"] = "running"
            /\ \A v \in Worker : Busy(v) /\ job[v].pending # "none" =>
                 job[v].test # "hello_after_reboot"
<1>1. hellos' = hellos \/ Listening
  BY DEF Outer, MotionEnds, GoDown, ComeUp, ForeignHello, Captures, hello
<1>2. ASSUME Listening, "hello_after_reboot" \in Suite
      PROVE  verdict["hello_after_reboot"] = "running"
  BY <1>2 DEF Listening, Ground, Base, TypeInv, Sole
<1>3. \A v \in Worker : job[v].test = "hello_after_reboot" => job[v].pending = "none"
  BY DEF Ground, Base, RebootInv, RebootOK, Reboots
<1> QED
  BY <1>1, <1>2, <1>3

LEMMA OuterEarned ==
  ASSUME Ground, Outer
  PROVE  EarnedInv'
<1>1. /\ UNCHANGED <<job, verdict, traits, began, mishaps>>
      /\ disturbed \subseteq disturbed' /\ EarnedInv
  BY OuterStep DEF Ground
<1>2. SameDevice'
  <2>1. "new_identity" \notin traits => identity' = "first"
    BY <1>1 DEF Outer, MotionEnds, GoDown, ComeUp, ForeignHello, box, EarnedInv,
                SameDevice
  <2> QED
    BY <1>1, <2>1 DEF EarnedInv, SameDevice
<1>3. \A v \in Worker : Known(v)'
  BY OuterKnown
<1>4. ASSUME NEW t, t # "hello_after_reboot" \/ hellos' = hellos
      PROVE  /\ Earned(t) => Earned(t)'
             /\ Sound(t) => Sound(t)'
             /\ Answers(t) => Answers(t)'
  BY <1>1, <1>4 DEF Earned, OnlyStrangers, Sound, Answers, Hidden
<1>5. \A v \in Worker : Busy(v) <=> Busy(v)'
  BY <1>1 DEF Busy
<1>6. ASSUME NEW v \in Worker, NEW t, t = job[v].test, Busy(v), job[v].pending # "none"
      PROVE  Earned(t)'
  <2>1. Earned(t)
    BY <1>1, <1>6 DEF EarnedInv
  <2>2. t # "hello_after_reboot" \/ hellos' = hellos
    BY <1>6, OuterHello
  <2> QED
    BY <1>4, <2>1, <2>2
<1>7. (\A v \in Worker : Busy(v) /\ job[v].pending # "none" => Earned(job[v].test))'
  BY <1>1, <1>5, <1>6 DEF Earned
<1>8. ASSUME NEW t \in Suite, verdict[t] # "running"
      PROVE  t # "hello_after_reboot" \/ hellos' = hellos
  BY <1>8, OuterHello
<1>9. FailureIsEarned'
  <2>1. ASSUME NEW t \in Suite, verdict[t] = "failed"
        PROVE  Earned(t)'
    BY <1>1, <1>4, <1>8, <2>1 DEF EarnedInv, FailureIsEarned, Earned
  <2> QED
    BY <1>1, <2>1 DEF FailureIsEarned, Earned
<1>10. PassIsEarned'
  <2>1. ASSUME NEW t \in Suite, verdict[t] = "passed", t \notin disturbed'
        PROVE  Sound(t)' /\ Answers(t)'
    <3>1. Sound(t) /\ Answers(t)
      BY <1>1, <2>1 DEF EarnedInv, PassIsEarned, Sound, Answers
    <3> QED
      BY <1>4, <1>8, <2>1, <3>1
  <2> QED
    BY <1>1, <2>1 DEF PassIsEarned, Sound, Answers
<1>11. \A v \in Worker : Behind(v)'
  <2>1. \A step : Kind(step)' <=> Kind(step)
    BY <1>1 DEF Kind, Refused
  <2> QED
    BY <1>1, <2>1 DEF EarnedInv, Behind, Busy
<1> QED
  BY <1>2, <1>3, <1>7, <1>9, <1>10, <1>11 DEF EarnedInv

LEMMA InitEarned == Init => EarnedInv
<1> SUFFICES ASSUME Init
             PROVE  EarnedInv
  OBVIOUS
<1>1. \A w \in Worker : ~Busy(w) /\ job[w].at = 0
  BY DEF Init, Busy, NoJob
<1>2. \A t \in Suite : verdict[t] = "none"
  BY DEF Init
<1>3. SameDevice
  BY <1>1 DEF Init, SameDevice
<1> QED
  BY <1>1, <1>2, <1>3 DEF EarnedInv, Known, Behind, FailureIsEarned, PassIsEarned

LEMMA NextEarned == Ground /\ [Next]_vars => Ground'
<1> SUFFICES ASSUME Ground, [Next]_vars
             PROVE  EarnedInv'
  BY NextBase, NextPutBack DEF Ground
<1>1. CASE UNCHANGED vars
  <2>1. UNCHANGED <<traits, phase, identity, setting, motion, began, job, hellos,
                    verdict, mishaps, disturbed>>
    BY <1>1 DEF vars, outside, box, hello, history
  <2>2. SameDevice' /\ FailureIsEarned' /\ PassIsEarned'
    BY <2>1 DEF Ground, EarnedInv, SameDevice, FailureIsEarned, PassIsEarned,
                OnlyStrangers, Hidden
  <2>3. \A w \in Worker : Known(w)'
    BY <2>1 DEF Ground, EarnedInv, Known, KnowsSetting, KnowsMotor, KnowsReboot, Busy,
                Sound, Heeded, Hidden, Target, Obeyed, Timed, Elapsed, Changed
  <2>4. (\A v \in Worker : Busy(v) /\ job[v].pending # "none" => Earned(job[v].test))'
    BY <2>1 DEF Ground, EarnedInv, Busy, Earned, OnlyStrangers
  <2>5. \A w \in Worker : Behind(w)'
    <3>1. \A step : Kind(step)' <=> Kind(step)
      BY <2>1 DEF Kind, Refused
    <3> QED
      BY <2>1, <3>1 DEF Ground, EarnedInv, Behind, Busy
  <2> QED
    BY <2>2, <2>3, <2>4, <2>5 DEF EarnedInv
<1>2. CASE \E w \in Worker, t \in Suite : Start(w, t)
  BY <1>2, StartEarned
<1>3. CASE \E w \in Worker : Acts(w)
  BY <1>3, WorkerEarned
<1>4. CASE Outer
  BY <1>4, OuterEarned
<1> QED
  BY <1>1, <1>2, <1>3, <1>4, Steps

LEMMA AlwaysGround == Spec => []Ground
<1>1. Init => Ground
  BY InitBase, InitPutBack, InitEarned DEF Ground
<1> QED
  BY <1>1, NextEarned, PTL DEF Spec

\* A test fails because of the device, or of a lost exchange of its own, or of
\* another worker's test that changed what it was looking at, in any suite and
\* among any number of workers (ptz.py:273-287, 356-360); the two that fail on a
\* device without fault are the relay's and the Hello's (deviceio.py:102-105,
\* reboot.py:169-202).
THEOREM FailureEarned == Spec => []FailureIsEarned
<1>1. Ground => FailureIsEarned
  BY DEF Ground, EarnedInv
<1> QED
  BY <1>1, AlwaysGround, PTL

\* And it passes, undisturbed, only on a device that has none of the traits it
\* looks for, unless they are hidden from it (ptz.py:273-287, 464-469;
\* reboot.py:86-96, 190-202).
THEOREM PassEarned == Spec => []PassIsEarned
<1>1. Ground => PassIsEarned
  BY DEF Ground, EarnedInv
<1> QED
  BY <1>1, AlwaysGround, PTL
==============================================================================
