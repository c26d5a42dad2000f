---------------------------- MODULE OutcomeProofs ----------------------------
(***************************************************************************)
(* Lifecycle implements ProcessOutcome: whatever the handlers do to a      *)
(* server, the end of each of its JVMs is judged once, and never as a      *)
(* crash when RealmRunner asked for it.                                    *)
(*                                                                         *)
(* Each step of Lifecycle changes what ProcessOutcome sees of at most one  *)
(* Process.  OneStep lists the ways it may, and each way is a step of      *)
(* ProcessOutcome.  Only a reboot touches them all.                        *)
(***************************************************************************)
EXTENDS LifecycleProofs

Same(p) == Life(p)' = Life(p) /\ Asked(p)' = Asked(p) /\ Verdict(p)' = Verdict(p)

\* What a step may do to the one Process it is about.
OneStep(p) ==
  \/ Same(p)
  \/ Life(p) = "none" /\ Life(p)' = "up" /\ Asked(p)' = Asked(p) /\ Verdict(p)' = Verdict(p)
  \/ Life(p) = "up" /\ Asked(p)' = TRUE /\ Life(p)' = Life(p) /\ Verdict(p)' = Verdict(p)
  \/ Life(p) = "up" /\ Life(p)' = "down" /\ Asked(p)' = Asked(p) /\ Verdict(p)' = Verdict(p)
  \/ /\ Life(p) = "down" /\ Verdict(p) = "none"
     /\ Verdict(p)' \in {"stopped", "crashed"}
     /\ Verdict(p)' = "crashed" => ~Asked(p)
     /\ Life(p)' = Life(p) /\ Asked(p)' = Asked(p)
  \/ Verdict(p) # "none" /\ Life(p)' = "none" /\ Asked(p)' = FALSE /\ Verdict(p)' = "none"

AbstractStep == [Outcome!Promised]_(Outcome!vars)

\* A step that changes no Process is a stuttering step of ProcessOutcome.
LEMMA NoneChanged ==
  ASSUME \A q \in Procs : Same(q) PROVE AbstractStep
  BY DEF Same, AbstractStep, Outcome!vars

\* A step that changes one of them in one of these ways is one of its actions.
LEMMA OneChanged ==
  ASSUME NEW p \in Procs, OneStep(p), \A q \in Procs \ {p} : Same(q)
  PROVE  AbstractStep
<1>. DEFINE L == [q \in Procs |-> Life(q)]
            A == [q \in Procs |-> Asked(q)]
            V == [q \in Procs |-> Verdict(q)]
<1>1. /\ L' = [L EXCEPT ![p] = Life(p)']
      /\ A' = [A EXCEPT ![p] = Asked(p)']
      /\ V' = [V EXCEPT ![p] = Verdict(p)']
  BY DEF Same
<1>2. /\ Life(p)' = Life(p) => L' = L
      /\ Asked(p)' = Asked(p) => A' = A
      /\ Verdict(p)' = Verdict(p) => V' = V
  BY <1>1
<1>3. CASE Same(p)
  BY <1>3, NoneChanged
<1>4. CASE Life(p) = "none" /\ Life(p)' = "up" /\ Asked(p)' = Asked(p) /\ Verdict(p)' = Verdict(p)
  BY <1>1, <1>2, <1>4 DEF AbstractStep, Outcome!Promised, Outcome!Launch
<1>5. CASE Life(p) = "up" /\ Asked(p)' = TRUE /\ Life(p)' = Life(p) /\ Verdict(p)' = Verdict(p)
  BY <1>1, <1>2, <1>5 DEF AbstractStep, Outcome!Promised, Outcome!Ask
<1>6. CASE Life(p) = "up" /\ Life(p)' = "down" /\ Asked(p)' = Asked(p) /\ Verdict(p)' = Verdict(p)
  BY <1>1, <1>2, <1>6 DEF AbstractStep, Outcome!Promised, Outcome!Exit
<1>7. CASE /\ Life(p) = "down" /\ Verdict(p) = "none"
           /\ Verdict(p)' \in {"stopped", "crashed"}
           /\ Verdict(p)' = "crashed" => ~Asked(p)
           /\ Life(p)' = Life(p) /\ Asked(p)' = Asked(p)
  BY <1>1, <1>2, <1>7 DEF AbstractStep, Outcome!Promised, Outcome!Judge
<1>8. CASE Verdict(p) # "none" /\ Life(p)' = "none" /\ Asked(p)' = FALSE /\ Verdict(p)' = "none"
  BY <1>1, <1>8 DEF AbstractStep, Outcome!Promised, Outcome!Forget
<1>. QED
  BY <1>3, <1>4, <1>5, <1>6, <1>7, <1>8 DEF OneStep

-----------------------------------------------------------------------------
(* Plain steps.                                                            *)

\* Once an exit has been judged, its goroutine keeps the verdict until it
\* returns: the cleanup after a stop, or the crash handler and the start it
\* makes.
KeepsVerdict(p) ==
  /\ pc[p] \in {"exitRest", "exitReset"} \cup CrashSteps \cup StartSteps
  /\ \/ pc[p] \in {"exitRest", "exitReset"} /\ pc'[p] \in {"exitRest", "exitReset", "idle"}
     \/ pc[p] \in CrashSteps \cup StartSteps /\ pc'[p] \in CrashSteps \cup StartSteps \cup {"idle"}

\* StartServer in the goroutine of a crashed Process.
LEMMA StartKeepsVerdict ==
  ASSUME Typed, NEW p \in Procs, PlainStart(p)
  PROVE  KeepsVerdict(p)
<1>. USE DEF KeepsVerdict, Typed, TypeOK, At, Goto, Finish, Threads,
       CrashSteps, StartSteps, memory, process, locals
<1>1. CASE StartCount(p)
  BY <1>1 DEF StartCount
<1>2. CASE StartGet(p)
  BY <1>2 DEF StartGet
<1>3. CASE StartMark(p)
  BY <1>3 DEF StartMark, UpdateServerStatus
<1>4. CASE StartSpawnFails(p)
  BY <1>4 DEF StartSpawnFails
<1>5. CASE StartFail(p)
  BY <1>5 DEF StartFail, UpdateServerStatus, RestingStatus
<1>6. CASE StartRefuse(p)
  BY <1>6 DEF StartRefuse, UpdateServerStatus, RestingStatus
<1>7. CASE StartRecord(p)
  BY <1>7 DEF StartRecord, SetError
<1>8. CASE StartRunning(p)
  BY <1>8 DEF StartRunning, UpdateServerStatus
<1>9. CASE StartClear(p)
  BY <1>9 DEF StartClear, SetError
<1>. QED
  BY <1>1, <1>2, <1>3, <1>4, <1>5, <1>6, <1>7, <1>8, <1>9 DEF PlainStart

\* The monitor after the judgement, and the crash handler.
LEMMA MonitorKeepsVerdict ==
  ASSUME Typed, NEW p \in Procs, PlainMonitor(p)
  PROVE  KeepsVerdict(p)
<1>. USE DEF KeepsVerdict, Typed, TypeOK, At, Goto, Finish, Threads,
       CrashSteps, StartSteps, memory, process, locals
<1>1. CASE ExitRest(p)
  BY <1>1 DEF ExitRest, UpdateServerStatus, RestingStatus
<1>2. CASE ExitReset(p)
  BY <1>2 DEF ExitReset
<1>3. CASE CrashGet(p)
  BY <1>3 DEF CrashGet
<1>4. CASE CrashMark(p)
  BY <1>4 DEF CrashMark, UpdateServerStatus
<1>5. CASE CrashRecord(p)
  BY <1>5 DEF CrashRecord, SetError
<1>6. CASE CrashNext(p)
  BY <1>6 DEF CrashNext
<1>7. CASE CrashGiveUp(p)
  BY <1>7 DEF CrashGiveUp, SetError
<1>8. CASE Backoff(p)
  BY <1>8 DEF Backoff
<1>. QED
  BY <1>1, <1>2, <1>3, <1>4, <1>5, <1>6, <1>7, <1>8 DEF PlainMonitor

\* A plain step of a Process's own goroutine keeps the verdict or, when the
\* goroutine returns, forgets the Process.
LEMMA KeptIsOneStep ==
  ASSUME IInv, NEW p \in Procs, PlainStep(p), KeepsVerdict(p)
  PROVE  AbstractStep
<1>1. jvm[p] = "reaped"
  BY DEF IInv, Pending, KeepsVerdict, CrashSteps, StartSteps
<1>2. OneStep(p)
  BY <1>1 DEF OneStep, Same, KeepsVerdict, PlainStep, Life, Asked, Verdict, CrashSteps, StartSteps
<1>3. \A q \in Procs \ {p} : Same(q)
  BY DEF PlainStep, Same, Life, Asked, Verdict, Threads
<1>. QED
  BY <1>2, <1>3, OneChanged

\* A plain step of a caller shows no Process anything.
LEMMA CallerIsUnseen ==
  ASSUME NEW c \in Callers, PlainStep(c) PROVE AbstractStep
<1>1. \A q \in Procs : Same(q)
  BY ThreadsAssumption DEF PlainStep, Same, Life, Asked, Verdict, Threads
<1>. QED
  BY <1>1, NoneChanged

-----------------------------------------------------------------------------
(* The steps that touch a Process.                                         *)

\* StartProcess.
LEMMA SpawnStep ==
  ASSUME IInv, NEW t \in Threads, NEW p \in Procs, StartSpawn(t, p)
  PROVE  AbstractStep
<1>. USE DEF IInv, Typed, TypeOK, StartSpawn, Free, At, Threads
<1>1. OneStep(p)
  BY DEF OneStep, Life, Asked, Verdict, CrashSteps, StartSteps
<1>2. \A q \in Procs \ {p} : Same(q)
  BY DEF Same, Life, Asked, Verdict, CrashSteps, StartSteps
<1>. QED
  BY <1>1, <1>2, OneChanged

\* The handover to the monitor.
LEMMA StoreStep ==
  ASSUME IInv, NEW t \in Threads, StartStore(t) PROVE AbstractStep
<1>. USE DEF IInv, Typed, TypeOK, StartStore, At, Threads, process
<1>1. held[t] \in Procs /\ pc[held[t]] = "launched"
  BY DEF Handover
<1>2. \A q \in Procs : Same(q)
  BY <1>1 DEF Same, Life, Asked, Verdict, CrashSteps, StartSteps
<1>. QED
  BY <1>2, NoneChanged

\* The JVM ends, its monitor reaps it, clears the table and judges.
LEMMA MonitorStep ==
  ASSUME IInv, NEW p \in Procs,
         JvmExit(p) \/ ExitWait(p) \/ ExitForget(p) \/ ExitJudge(p)
  PROVE  AbstractStep
<1>. USE DEF IInv, Typed, TypeOK, At, Goto, Threads, process, locals
<1>1. OneStep(p)
  <2>1. CASE JvmExit(p)
    BY <2>1 DEF JvmExit, Pending, OneStep, Life, Asked, Verdict
  <2>2. CASE ExitWait(p)
    BY <2>2 DEF ExitWait, OneStep, Same, Life, Asked, Verdict, CrashSteps, StartSteps
  <2>3. CASE ExitForget(p)
    BY <2>3 DEF ExitForget, OneStep, Same, Life, Asked, Verdict, CrashSteps, StartSteps
  <2>4. CASE ExitJudge(p)
    BY <2>4 DEF ExitJudge, Pending, OneStep, Life, Asked, Verdict, CrashSteps, StartSteps
  <2>. QED
    BY <2>1, <2>2, <2>3, <2>4
<1>2. \A q \in Procs \ {p} : Same(q)
  BY DEF JvmExit, ExitWait, ExitForget, ExitJudge, Same, Life, Asked, Verdict
<1>. QED
  BY <1>1, <1>2, OneChanged

\* A stop or a kill: it counts as asked only if the JVM is up to hear it.
LEMMA SignalStep ==
  ASSUME IInv, NEW c \in Callers, StopLock(c) \/ StopTimeout(c) \/ ForceKill(c)
  PROVE  AbstractStep
<1>. USE DEF IInv, Typed, TypeOK, At, Goto, Threads, StopLock, StopTimeout, ForceKill
<1>1. /\ jvm' = jvm
      /\ \A q \in Procs : pc'[q] = pc[q]
      /\ \E request \in {"stop", "kill"} : signal' = Signalled(held[c], request)
  BY ThreadsAssumption
<1>2. CASE held[c] \in Procs
  <2>1. PICK p \in Procs : p = held[c]
    BY <1>2
  <2>2. \A q \in Procs \ {p} : Same(q)
    BY <1>1, <2>1 DEF Signalled, Same, Life, Asked, Verdict
  <2>3. Life(p)' = Life(p) /\ Verdict(p)' = Verdict(p)
    BY <1>1 DEF Life, Verdict
  <2>4. CASE signal' = signal
    <3>1. OneStep(p)
      BY <1>1, <2>4 DEF OneStep, Same, Life, Asked, Verdict
    <3>. QED
      BY <2>2, <3>1, OneChanged
  <2>5. CASE signal' # signal
    <3>1. jvm[p] = "alive" /\ signal'[p] \in {"stop", "kill"}
      BY <1>1, <2>1, <2>5 DEF Signalled
    <3>2. Life(p) = "up" /\ Asked(p)' = TRUE
      BY <1>1, <3>1 DEF Life, Asked
    <3>3. OneStep(p)
      BY <2>3, <3>2 DEF OneStep
    <3>. QED
      BY <2>2, <3>3, OneChanged
  <2>. QED
    BY <2>4, <2>5
<1>3. CASE held[c] \notin Procs
  <2>1. \A q \in Procs : Same(q)
    BY <1>1, <1>3 DEF Signalled, Same, Life, Asked, Verdict
  <2>. QED
    BY <2>1, NoneChanged
<1>. QED
  BY <1>2, <1>3

\* A request shows nothing.
LEMMA RequestStep ==
  ASSUME IInv, NEW c \in Callers, NEW j \in Jobs, NEW s \in Servers, Request(c, j, s)
  PROVE  AbstractStep
<1>1. \A q \in Procs : Same(q)
  BY ThreadsAssumption
  DEF IInv, Typed, TypeOK, Request, process, Same, Life, Asked, Verdict, Threads
<1>. QED
  BY <1>1, NoneChanged

\* A reboot loses every Process.
LEMMA RebootStep == Reboot => Outcome!Lose
<1>. SUFFICES ASSUME Reboot PROVE Outcome!Lose
  OBVIOUS
<1>1. \A p \in Procs : Life(p)' = "none" /\ Asked(p)' = FALSE /\ Verdict(p)' = "none"
  BY DEF Reboot, Life, Asked, Verdict, Threads, CrashSteps, StartSteps
<1>. QED
  BY <1>1 DEF Outcome!Lose

-----------------------------------------------------------------------------

LEMMA InitOutcome == Init => Outcome!Init
<1>. SUFFICES ASSUME Init PROVE Outcome!Init
  OBVIOUS
<1>1. \A p \in Procs : jvm[p] = "reaped" /\ pc[p] = "idle"
  BY DEF Init, Threads
<1>2. \A p \in Procs : Life(p) = "none"
  BY <1>1 DEF Life
<1>3. \A p \in Procs : Asked(p) = FALSE
  BY <1>2 DEF Asked
<1>4. \A p \in Procs : Verdict(p) = "none"
  BY <1>1 DEF Verdict, CrashSteps, StartSteps
<1>. QED
  BY <1>2, <1>3, <1>4 DEF Outcome!Init

\* Every step of Lifecycle but the reboot is a promised step of ProcessOutcome, or
\* shows it nothing.
LEMMA StepOutcome == IInv /\ [Next]_vars => Reboot \/ AbstractStep
<1>. SUFFICES ASSUME IInv, [Next]_vars, ~Reboot PROVE AbstractStep
  OBVIOUS
<1>. USE DEF IInv, Threads
<1>1. CASE \E t \in Threads : StartServer(t)
  <2>1. PICK t \in Threads : StartServer(t)
    BY <1>1
  <2>2. CASE PlainStart(t) /\ t \in Callers
    BY <2>2, PlainStartIsPlain, CallerIsUnseen
  <2>3. CASE PlainStart(t) /\ t \in Procs
    BY <2>3, PlainStartIsPlain, StartKeepsVerdict, KeptIsOneStep
  <2>4. CASE StartStore(t)
    BY <2>4, StoreStep
  <2>5. CASE \E p \in Procs : StartSpawn(t, p)
    BY <2>5, SpawnStep
  <2>. QED
    BY <2>1, <2>2, <2>3, <2>4, <2>5 DEF StartServer, PlainStart
<1>2. CASE \E c \in Callers : StopServer(c) \/ Locking(c) \/ Housekeeping(c)
  <2>1. PICK c \in Callers : StopServer(c) \/ Locking(c) \/ Housekeeping(c)
    BY <1>2
  <2>2. CASE PlainStop(c)
    BY <2>2, PlainStopIsPlain, CallerIsUnseen
  <2>3. CASE Housekeeping(c)
    BY <2>3, HousekeepingIsPlain, CallerIsUnseen
  <2>4. CASE StopTimeout(c) \/ Locking(c)
    BY <2>4, SignalStep DEF Locking
  <2>. QED
    BY <2>1, <2>2, <2>3, <2>4 DEF StopServer, PlainStop
<1>3. CASE \E p \in Procs : MonitorProcess(p) \/ ExitJudge(p) \/ JvmExit(p)
  <2>1. PICK p \in Procs : MonitorProcess(p) \/ ExitJudge(p) \/ JvmExit(p)
    BY <1>3
  <2>2. CASE PlainMonitor(p)
    BY <2>2, PlainMonitorIsPlain, MonitorKeepsVerdict, KeptIsOneStep
  <2>3. CASE JvmExit(p) \/ ExitWait(p) \/ ExitForget(p) \/ ExitJudge(p)
    BY <2>3, MonitorStep
  <2>. QED
    BY <2>1, <2>2, <2>3 DEF MonitorProcess, PlainMonitor
<1>4. CASE UNCHANGED vars
  <2>1. \A q \in Procs : Same(q)
    BY <1>4 DEF vars, process, Same, Life, Asked, Verdict
  <2>. QED
    BY <2>1, NoneChanged
<1>. QED
  BY <1>1, <1>2, <1>3, <1>4, RequestStep DEF Next

LEMMA StepIsJudged == IInv /\ [Next]_vars => [StepIsOutcome]_vars
  BY StepOutcome, RebootStep DEF StepIsOutcome, AbstractStep

LEMMA StepIsAbstract == [StepIsOutcome]_vars => [Outcome!Next]_(Outcome!vars)
<1>. SUFFICES ASSUME [StepIsOutcome]_vars PROVE [Outcome!Next]_(Outcome!vars)
  OBVIOUS
<1>1. CASE StepIsOutcome
  BY <1>1 DEF StepIsOutcome, Outcome!Next
<1>2. CASE UNCHANGED vars
  <2>1. \A q \in Procs : Same(q)
    BY <1>2 DEF vars, process, Same, Life, Asked, Verdict
  <2>. QED
    BY <2>1, NoneChanged DEF AbstractStep, Outcome!Next
<1>. QED
  BY <1>1, <1>2

\* Lifecycle implements ProcessOutcome, and only a reboot loses what has become of a
\* JVM: every other step of every handler keeps the promise.
THEOREM OutcomeIsJudged == Spec => JudgesOutcome /\ Outcome!Spec
<1>1. Spec => JudgesOutcome
  BY InitOutcome, StepIsJudged, Invariance, PTL DEF Spec, JudgesOutcome
<1>2. JudgesOutcome => Outcome!Spec
  BY StepIsAbstract, PTL DEF JudgesOutcome, Outcome!Spec
<1>. QED
  BY <1>1, <1>2
=============================================================================
