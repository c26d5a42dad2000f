--------------------------- MODULE LifecycleProofs ---------------------------
(***************************************************************************)
(* Proofs about Lifecycle, for every set of servers, callers and Process   *)
(* records, every limit and every choice of jobs.                          *)
(*                                                                         *)
(* One inductive invariant, IInv, carries the type invariant and the       *)
(* safety properties about processes.  Most steps of the program move one  *)
(* goroutine and touch no Process: they are plain steps, and only the few  *)
(* others are looked at one by one.                                        *)
(***************************************************************************)
EXTENDS Lifecycle, FiniteSetTheorems, TLAPS

-----------------------------------------------------------------------------
(* The inductive invariant.                                                *)

\* A goroutine that is not idle works on a server, which is what makes its
\* accesses to the database and to Manager.processes well typed.
BusyHasServer == \A t \in Threads : pc[t] # "idle" => srv[t] \in Servers

Typed == TypeOK /\ BusyHasServer

\* Between StartProcess and the go statement that starts the monitor, exactly
\* one start has the new process in hand, and it is for the same server.
Handover ==
  /\ \A t \in Threads : pc[t] = "startStore" =>
       held[t] \in Procs /\ pc[held[t]] = "launched" /\ srv[held[t]] = srv[t]
  /\ \A t, u \in Threads :
       pc[t] = "startStore" /\ pc[u] = "startStore" /\ held[t] = held[u] => t = u
  /\ \A p \in Procs : pc[p] = "launched" =>
       \E t \in Threads : pc[t] = "startStore" /\ held[t] = p

\* A stop that polls has raised stopRequested on the process it polls.
Polling ==
  \A t \in Threads : pc[t] = "stopPoll" /\ held[t] \in Procs => stopRequested[held[t]]

\* A process that has not been reaped has its monitor still in front of Wait,
\* and whatever reached it raised stopRequested first.
Pending ==
  \A p \in Procs :
    /\ jvm[p] # "reaped" => pc[p] \in {"launched", "watch"}
    /\ signal[p] # "none" => stopRequested[p]

IInv == Typed /\ Handover /\ Polling /\ Pending /\ AskedIsNoCrash /\ NoStaleHandle

-----------------------------------------------------------------------------
(* Plain steps: only goroutine t moves, it neither launches, watches nor   *)
(* judges a process, and an entry of Manager.processes can only disappear. *)

PlainStep(t) ==
  /\ pc[t] \notin {"idle", "launched", "watch", "exitForget", "startStore"}
  /\ pc'[t] \notin {"launched", "watch", "startStore", "stopPoll"}
  /\ pc'[t] \in CrashSteps => pc[t] \in CrashSteps
  /\ pc'[t] # "idle" => srv'[t] = srv[t]
  /\ \A u \in Threads \ {t} : pc'[u] = pc[u] /\ srv'[u] = srv[u] /\ held'[u] = held[u]
  /\ \A s \in Servers : processes'[s] \in {processes[s], None}
  /\ UNCHANGED <<jvm, signal, stopRequested>>

\* The plain steps of the program, by component.
PlainStart(t) ==
  StartCount(t) \/ StartGet(t) \/ StartMark(t)
          \/ StartSpawnFails(t) \/ StartFail(t) \/ StartRefuse(t)
          \/ StartRecord(t) \/ StartRunning(t) \/ StartClear(t)
PlainStop(t) ==
  StopGet(t) \/ StopMark(t) \/ StopFind(t) \/ StopGone(t)
          \/ StopGrace(t) \/ StopForget(t) \/ StopRest(t)
          \/ SleepMark(t) \/ ForceGet(t) \/ ForceFind(t)
PlainMonitor(p) ==
  ExitRest(p) \/ ExitReset(p) \/ CrashGet(p) \/ CrashMark(p)
          \/ CrashRecord(p) \/ CrashNext(p) \/ CrashGiveUp(p)
          \/ Backoff(p)

\* StartServer, but for the launch and the handover of the new process.
LEMMA PlainStartIsPlain ==
  ASSUME Typed, NEW t \in Threads, PlainStart(t)
  PROVE  PlainStep(t)
<1>. USE DEF PlainStep, Typed, TypeOK, At, Goto, Finish, Threads,
       CrashSteps, memory, process, locals
<1>1. CASE StartCount(t)
  BY <1>1 DEF StartCount
<1>2. CASE StartGet(t)
  BY <1>2 DEF StartGet
<1>3. CASE StartMark(t)
  BY <1>3 DEF StartMark, UpdateServerStatus
<1>4. CASE StartSpawnFails(t)
  BY <1>4 DEF StartSpawnFails
<1>5. CASE StartFail(t)
  BY <1>5 DEF StartFail, UpdateServerStatus, RestingStatus
<1>6. CASE StartRefuse(t)
  BY <1>6 DEF StartRefuse, UpdateServerStatus, RestingStatus
<1>7. CASE StartRecord(t)
  BY <1>7 DEF StartRecord, SetError
<1>8. CASE StartRunning(t)
  BY <1>8 DEF StartRunning, UpdateServerStatus
<1>9. CASE StartClear(t)
  BY <1>9 DEF StartClear, SetError
<1>. QED
  BY <1>1, <1>2, <1>3, <1>4, <1>5, <1>6, <1>7, <1>8, <1>9 DEF PlainStart

\* StopServer and ForceStopServer, but for what they do to the process.
LEMMA PlainStopIsPlain ==
  ASSUME Typed, NEW t \in Threads, PlainStop(t)
  PROVE  PlainStep(t)
<1>. USE DEF PlainStep, Typed, TypeOK, At, Goto, Finish, Threads,
       CrashSteps, memory, process, locals
<1>1. CASE StopGet(t)
  BY <1>1 DEF StopGet
<1>2. CASE StopMark(t)
  BY <1>2 DEF StopMark, UpdateServerStatus
<1>3. CASE StopFind(t)
  BY <1>3 DEF StopFind, Find
<1>4. CASE StopGone(t)
  BY <1>4 DEF StopGone
<1>5. CASE StopGrace(t)
  BY <1>5 DEF StopGrace
<1>6. CASE StopForget(t)
  BY <1>6 DEF StopForget
<1>7. CASE StopRest(t)
  BY <1>7 DEF StopRest, UpdateServerStatus, RestingStatus
<1>8. CASE SleepMark(t)
  BY <1>8 DEF SleepMark, UpdateServerStatus
<1>9. CASE ForceGet(t)
  BY <1>9 DEF ForceGet
<1>10. CASE ForceFind(t)
  BY <1>10 DEF ForceFind, Find
<1>. QED
  BY <1>1, <1>2, <1>3, <1>4, <1>5, <1>6, <1>7, <1>8, <1>9, <1>10 DEF PlainStop

\* wake, WipeoutServer and SetAutoRestart.
LEMMA HousekeepingIsPlain ==
  ASSUME Typed, NEW t \in Threads, Housekeeping(t)
  PROVE  PlainStep(t)
<1>. USE DEF PlainStep, Typed, TypeOK, At, Goto, Finish, Threads,
       CrashSteps, memory, process, locals
<1>1. CASE WakeGet(t)
  BY <1>1 DEF WakeGet
<1>2. CASE WipeGet(t)
  BY <1>2 DEF WipeGet
<1>3. CASE WipeFiles(t)
  BY <1>3 DEF WipeFiles
<1>4. CASE WipeRow(t)
  BY <1>4 DEF WipeRow
<1>5. CASE AutoGet(t)
  BY <1>5 DEF AutoGet
<1>6. CASE AutoReset(t)
  BY <1>6 DEF AutoReset
<1>7. CASE AutoWrite(t)
  BY <1>7 DEF AutoWrite
<1>. QED
  BY <1>1, <1>2, <1>3, <1>4, <1>5, <1>6, <1>7 DEF Housekeeping

\* What follows the judgement of an exit.
LEMMA PlainMonitorIsPlain ==
  ASSUME Typed, NEW p \in Threads, PlainMonitor(p)
  PROVE  PlainStep(p)
<1>. USE DEF PlainStep, Typed, TypeOK, At, Goto, Finish, Threads,
       CrashSteps, memory, process, locals
<1>1. CASE ExitRest(p)
  BY <1>1 DEF ExitRest, UpdateServerStatus, RestingStatus
<1>2. CASE ExitReset(p)
  BY <1>2 DEF ExitReset
<1>3. CASE CrashGet(p)
  BY <1>3 DEF CrashGet
<1>4. CASE CrashMark(p)
  BY <1>4 DEF CrashMark, UpdateServerStatus
<1>5. CASE CrashRecord(p)
  BY <1>5 DEF CrashRecord, SetError
<1>6. CASE CrashNext(p)
  BY <1>6 DEF CrashNext
<1>7. CASE CrashGiveUp(p)
  BY <1>7 DEF CrashGiveUp, SetError
<1>8. CASE Backoff(p)
  BY <1>8 DEF Backoff
<1>. QED
  BY <1>1, <1>2, <1>3, <1>4, <1>5, <1>6, <1>7, <1>8 DEF PlainMonitor

-----------------------------------------------------------------------------
(* Types.                                                                  *)

LEMMA InitTyped == Init => Typed
  BY LimitsAssumption, JobsAssumption
  DEF Init, Typed, TypeOK, BusyHasServer, Threads, RestingStatus, Statuses, Labels, OtherSteps

\* The plain steps of StartServer keep the types.
LEMMA PlainStartTyped ==
  ASSUME Typed, NEW t \in Threads, PlainStart(t)
  PROVE  Typed'
<1>. USE DEF Typed, TypeOK, BusyHasServer, At, Goto, Finish, Threads,
       Labels, StartSteps, StopSteps, MonitorSteps, CrashSteps, OtherSteps, Statuses,
       database, memory, process, locals
<1>1. CASE StartCount(t)
  BY <1>1 DEF StartCount
<1>2. CASE StartGet(t)
  BY <1>2 DEF StartGet
<1>3. CASE StartMark(t)
  BY <1>3 DEF StartMark, UpdateServerStatus
<1>4. CASE StartSpawnFails(t)
  BY <1>4 DEF StartSpawnFails
<1>5. CASE StartFail(t)
  BY <1>5 DEF StartFail, UpdateServerStatus, RestingStatus
<1>6. CASE StartRefuse(t)
  BY <1>6 DEF StartRefuse, UpdateServerStatus, RestingStatus
<1>7. CASE StartRecord(t)
  BY <1>7 DEF StartRecord, SetError
<1>8. CASE StartRunning(t)
  BY <1>8 DEF StartRunning, UpdateServerStatus
<1>9. CASE StartClear(t)
  BY <1>9 DEF StartClear, SetError
<1>. QED
  BY <1>1, <1>2, <1>3, <1>4, <1>5, <1>6, <1>7, <1>8, <1>9 DEF PlainStart

\* So do those of StopServer, ForceStopServer and Sleep,
LEMMA PlainStopTyped ==
  ASSUME Typed, NEW t \in Threads, PlainStop(t)
  PROVE  Typed'
<1>. USE DEF Typed, TypeOK, BusyHasServer, At, Goto, Finish, Threads,
       Labels, StartSteps, StopSteps, MonitorSteps, CrashSteps, OtherSteps, Statuses,
       database, memory, process, locals
<1>1. CASE StopGet(t)
  BY <1>1 DEF StopGet
<1>2. CASE StopMark(t)
  BY <1>2 DEF StopMark, UpdateServerStatus
<1>3. CASE StopFind(t)
  BY <1>3 DEF StopFind, Find
<1>4. CASE StopGone(t)
  BY <1>4 DEF StopGone
<1>5. CASE StopGrace(t)
  BY <1>5 DEF StopGrace
<1>6. CASE StopForget(t)
  BY <1>6 DEF StopForget
<1>7. CASE StopRest(t)
  BY <1>7 DEF StopRest, UpdateServerStatus, RestingStatus
<1>8. CASE SleepMark(t)
  BY <1>8 DEF SleepMark, UpdateServerStatus
<1>9. CASE ForceGet(t)
  <2>1. TypeOK'
    BY <1>9 DEF ForceGet
  <2>2. BusyHasServer'
    BY <1>9 DEF ForceGet
  <2>. QED
    BY <2>1, <2>2
<1>10. CASE ForceFind(t)
  BY <1>10 DEF ForceFind, Find
<1>. QED
  BY <1>1, <1>2, <1>3, <1>4, <1>5, <1>6, <1>7, <1>8, <1>9, <1>10 DEF PlainStop

\* those of wake, WipeoutServer and SetAutoRestart,
LEMMA HousekeepingTyped ==
  ASSUME Typed, NEW t \in Threads, Housekeeping(t)
  PROVE  Typed'
<1>. USE DEF Typed, TypeOK, BusyHasServer, At, Goto, Finish, Threads,
       Labels, StartSteps, StopSteps, MonitorSteps, CrashSteps, OtherSteps, Statuses,
       database, memory, process, locals
<1>1. CASE WakeGet(t)
  BY <1>1 DEF WakeGet
<1>2. CASE WipeGet(t)
  BY <1>2 DEF WipeGet
<1>3. CASE WipeFiles(t)
  BY <1>3 DEF WipeFiles
<1>4. CASE WipeRow(t)
  BY <1>4 DEF WipeRow
<1>5. CASE AutoGet(t)
  <2>1. TypeOK'
    BY <1>5 DEF AutoGet
  <2>2. BusyHasServer'
    BY <1>5 DEF AutoGet
  <2>. QED
    BY <2>1, <2>2
<1>6. CASE AutoReset(t)
  BY <1>6, LimitsAssumption DEF AutoReset
<1>7. CASE AutoWrite(t)
  BY <1>7 DEF AutoWrite
<1>. QED
  BY <1>1, <1>2, <1>3, <1>4, <1>5, <1>6, <1>7 DEF Housekeeping

\* and those of the monitor and the crash handler.
LEMMA PlainMonitorTyped ==
  ASSUME Typed, NEW p \in Procs, PlainMonitor(p)
  PROVE  Typed'
<1>. USE DEF Typed, TypeOK, BusyHasServer, At, Goto, Finish, Threads,
       Labels, StartSteps, StopSteps, MonitorSteps, CrashSteps, OtherSteps, Statuses,
       database, memory, process, locals
<1>1. CASE ExitRest(p)
  BY <1>1 DEF ExitRest, UpdateServerStatus, RestingStatus
<1>2. CASE ExitReset(p)
  BY <1>2, LimitsAssumption DEF ExitReset
<1>3. CASE CrashGet(p)
  BY <1>3 DEF CrashGet
<1>4. CASE CrashMark(p)
  BY <1>4 DEF CrashMark, UpdateServerStatus
<1>5. CASE CrashRecord(p)
  BY <1>5 DEF CrashRecord, SetError
<1>6. CASE CrashNext(p)
  BY <1>6, LimitsAssumption DEF CrashNext
<1>7. CASE CrashGiveUp(p)
  BY <1>7 DEF CrashGiveUp, SetError
<1>8. CASE Backoff(p)
  BY <1>8 DEF Backoff
<1>. QED
  BY <1>1, <1>2, <1>3, <1>4, <1>5, <1>6, <1>7, <1>8 DEF PlainMonitor

\* The steps that are not plain keep the types too: the launch, exit and
\* judgement of a process,
LEMMA ProcessStepTyped ==
  ASSUME Typed, NEW t \in Threads, NEW p \in Procs,
         \/ StartSpawn(t, p)
         \/ JvmExit(p) \/ ExitWait(p) \/ ExitForget(p) \/ ExitJudge(p)
  PROVE  Typed'
<1>. USE DEF Typed, TypeOK, BusyHasServer, At, Goto, Finish, Threads,
       Labels, StartSteps, StopSteps, MonitorSteps, CrashSteps, OtherSteps, Statuses,
       database, memory, process, locals
<1>1. CASE StartSpawn(t, p)
  BY <1>1 DEF StartSpawn, Free
<1>2. CASE JvmExit(p)
  BY <1>2 DEF JvmExit
<1>3. CASE ExitWait(p)
  BY <1>3 DEF ExitWait
<1>4. CASE ExitForget(p)
  BY <1>4 DEF ExitForget
<1>5. CASE ExitJudge(p)
  BY <1>5, LimitsAssumption DEF ExitJudge
<1>. QED
  BY <1>1, <1>2, <1>3, <1>4, <1>5

\* and what a goroutine does to the process in its hand.  The handover needs to
\* know that this process has a server.
LEMMA HandleStepTyped ==
  ASSUME Typed, Handover, NEW t \in Threads,
         StartStore(t) \/ StopTimeout(t) \/ StopLock(t) \/ ForceKill(t)
  PROVE  Typed'
<1>. USE DEF Typed, TypeOK, BusyHasServer, At, Goto, Finish, Threads,
       Labels, StartSteps, StopSteps, MonitorSteps, CrashSteps, OtherSteps, Statuses,
       database, memory, process, locals
<1>1. CASE StartStore(t)
  BY <1>1 DEF StartStore, Handover
<1>2. CASE StopTimeout(t)
  BY <1>2 DEF StopTimeout, Signalled
<1>3. CASE StopLock(t)
  BY <1>3 DEF StopLock, Signalled
<1>4. CASE ForceKill(t)
  BY <1>4 DEF ForceKill, Signalled
<1>. QED
  BY <1>1, <1>2, <1>3, <1>4

\* A caller that picks up a job, and a reboot, keep the types.
LEMMA OutsideStepTyped ==
  ASSUME Typed, \/ \E c \in Callers, j \in Jobs, s \in Servers : Request(c, j, s)
                \/ Reboot
  PROVE  Typed'
<1>. USE DEF Typed, TypeOK, BusyHasServer, At, Goto, Finish, Threads,
       Labels, StartSteps, StopSteps, MonitorSteps, CrashSteps, OtherSteps, Statuses,
       database, memory, process, locals
<1>1. ASSUME NEW c \in Callers, NEW j \in Jobs, NEW s \in Servers, Request(c, j, s)
      PROVE  Typed'
  <2>1. j \in AllJobs
    BY JobsAssumption
  <2>2. Entry(j) \in Labels
    BY <2>1 DEF Entry, AllJobs
  <2>. QED
    BY <1>1, <2>1, <2>2 DEF Request
<1>2. CASE Reboot
  <2>1. status' \in [Servers -> Statuses]
    BY <1>2 DEF Reboot, CleanStatus
  <2>. QED
    BY <1>2, <2>1, LimitsAssumption DEF Reboot
<1>. QED
  BY <1>1, <1>2

-----------------------------------------------------------------------------
(* The other conjuncts of the invariant.                                   *)

Safe == Handover /\ Polling /\ Pending /\ AskedIsNoCrash /\ NoStaleHandle

LEMMA InitSafe == Init => Safe
  BY ThreadsAssumption
  DEF Init, Safe, Handover, Polling, Pending, AskedIsNoCrash, NoStaleHandle, Threads, CrashSteps

\* A plain step disturbs nothing: its goroutine neither holds a process in
\* StartStore nor watches one, and an entry that disappears names no process.
LEMMA PlainStepSafe ==
  ASSUME IInv, Typed', NEW t \in Threads, PlainStep(t) PROVE Safe'
<1>. USE DEF IInv, Typed, TypeOK, PlainStep, Threads
<1>1. Handover'
  <2>1. \A u \in Threads : pc'[u] = "startStore" =>
          held'[u] \in Procs /\ pc'[held'[u]] = "launched" /\ srv'[held'[u]] = srv'[u]
    BY DEF Handover
  <2>2. \A u, v \in Threads :
          pc'[u] = "startStore" /\ pc'[v] = "startStore" /\ held'[u] = held'[v] => u = v
    <3>. SUFFICES ASSUME NEW u \in Threads, NEW v \in Threads,
                         pc'[u] = "startStore", pc'[v] = "startStore", held'[u] = held'[v]
                  PROVE  u = v
      OBVIOUS
    <3>1. u # t /\ v # t
      OBVIOUS
    <3>2. pc[u] = "startStore" /\ pc[v] = "startStore" /\ held[u] = held[v]
      BY <3>1
    <3>. QED
      BY <3>2 DEF Handover
  <2>3. \A q \in Procs : pc'[q] = "launched" =>
          \E u \in Threads : pc'[u] = "startStore" /\ held'[u] = q
    <3>. SUFFICES ASSUME NEW q \in Procs, pc'[q] = "launched"
                  PROVE  \E u \in Threads : pc'[u] = "startStore" /\ held'[u] = q
      OBVIOUS
    <3>1. q # t /\ pc[q] = "launched"
      OBVIOUS
    <3>2. PICK u \in Threads : pc[u] = "startStore" /\ held[u] = q
      BY <3>1 DEF Handover
    <3>3. u # t
      BY <3>2
    <3>. QED
      BY <3>2, <3>3
  <2>. QED
    BY <2>1, <2>2, <2>3 DEF Handover
<1>2. Pending'
  BY DEF Pending
<1>3. Polling'
  BY DEF Polling
<1>4. AskedIsNoCrash'
  BY DEF AskedIsNoCrash
<1>5. NoStaleHandle'
  BY ThreadsAssumption DEF NoStaleHandle
<1>. QED
  BY <1>1, <1>2, <1>3, <1>4, <1>5 DEF Safe

\* A launched process was free: no goroutine holds it and no entry names it.
LEMMA StartSpawnSafe ==
  ASSUME IInv, Typed', NEW t \in Threads, NEW p \in Procs, StartSpawn(t, p)
  PROVE  Safe'
<1>. USE DEF IInv, Typed, TypeOK, StartSpawn, Free, At, Threads, memory
<1>1. t # p
  OBVIOUS
<1>2. Handover'
  <2>1. held'[t] = p /\ pc'[p] = "launched" /\ pc'[t] = "startStore" /\ srv'[p] = srv'[t]
    BY <1>1
  <2>2. \A u \in Threads \ {t, p} : pc'[u] = pc[u] /\ held'[u] = held[u] /\ srv'[u] = srv[u]
    OBVIOUS
  <2>3. \A u \in Threads \ {t, p} : pc[u] = "startStore" => held[u] # p /\ held[u] # t
    BY DEF Handover
  <2>4. \A u \in Threads : pc'[u] = "startStore" =>
          held'[u] \in Procs /\ pc'[held'[u]] = "launched" /\ srv'[held'[u]] = srv'[u]
    BY <1>1, <2>1, <2>2, <2>3 DEF Handover
  <2>5. \A u, v \in Threads :
          pc'[u] = "startStore" /\ pc'[v] = "startStore" /\ held'[u] = held'[v] => u = v
    BY <1>1, <2>1, <2>2, <2>3 DEF Handover
  <2>6. ASSUME NEW q \in Procs, pc'[q] = "launched"
        PROVE  \E u \in Threads : pc'[u] = "startStore" /\ held'[u] = q
    <3>1. CASE q = p
      BY <2>1, <3>1
    <3>2. CASE q # p
      <4>1. pc[q] = "launched"
        BY <2>6, <2>1, <2>2, <3>2
      <4>2. PICK u \in Threads : pc[u] = "startStore" /\ held[u] = q
        BY <4>1 DEF Handover
      <4>3. u # t /\ u # p
        BY <4>2
      <4>. QED
        BY <4>2, <4>3, <2>2
    <3>. QED
      BY <3>1, <3>2
  <2>. QED
    BY <2>4, <2>5, <2>6 DEF Handover
<1>3. Pending'
  BY <1>1 DEF Pending
<1>4. Polling'
  BY <1>1 DEF Polling
<1>5. AskedIsNoCrash'
  BY <1>1 DEF AskedIsNoCrash, CrashSteps
<1>6. NoStaleHandle'
  BY <1>1, ThreadsAssumption DEF NoStaleHandle
<1>. QED
  BY <1>2, <1>3, <1>4, <1>5, <1>6 DEF Safe

\* The process in hand is stored, and from now on its monitor watches it.
LEMMA StartStoreSafe ==
  ASSUME IInv, Typed', NEW t \in Threads, StartStore(t) PROVE Safe'
<1>. USE DEF IInv, Typed, TypeOK, BusyHasServer, StartStore, At, Threads, locals, process
<1>1. held[t] \in Procs /\ pc[held[t]] = "launched" /\ srv[held[t]] = srv[t] /\ held[t] # t
  BY DEF Handover
<1>2. pc'[held[t]] = "watch" /\ pc'[t] = "startRunning"
  BY <1>1
<1>3. \A u \in Threads \ {t, held[t]} : pc'[u] = pc[u]
  BY <1>1
<1>4. Handover'
  <2>1. \A u \in Threads : pc'[u] = "startStore" =>
          held'[u] \in Procs /\ pc'[held'[u]] = "launched" /\ srv'[held'[u]] = srv'[u]
    BY <1>1, <1>2, <1>3 DEF Handover
  <2>2. \A u, v \in Threads :
          pc'[u] = "startStore" /\ pc'[v] = "startStore" /\ held'[u] = held'[v] => u = v
    BY <1>1, <1>2, <1>3 DEF Handover
  <2>3. \A q \in Procs : pc'[q] = "launched" =>
          \E u \in Threads : pc'[u] = "startStore" /\ held'[u] = q
    <3>. SUFFICES ASSUME NEW q \in Procs, pc'[q] = "launched"
                  PROVE  \E u \in Threads : pc'[u] = "startStore" /\ held'[u] = q
      OBVIOUS
    <3>1. q # t /\ q # held[t]
      BY <1>2
    <3>2. pc[q] = "launched"
      BY <1>3, <3>1
    <3>3. PICK u \in Threads : pc[u] = "startStore" /\ held[u] = q
      BY <3>2 DEF Handover
    <3>4. u # t /\ u # held[t]
      BY <1>1, <3>1, <3>3
    <3>. QED
      BY <1>1, <1>3, <3>3, <3>4
  <2>. QED
    BY <2>1, <2>2, <2>3 DEF Handover
<1>5. Pending'
  BY <1>1, <1>2, <1>3 DEF Pending
<1>6. Polling'
  BY <1>1, <1>2, <1>3 DEF Polling
<1>7. AskedIsNoCrash'
  BY <1>1, <1>2, <1>3 DEF AskedIsNoCrash, CrashSteps
<1>8. NoStaleHandle'
  BY <1>1, <1>2, <1>3, ThreadsAssumption DEF NoStaleHandle
<1>. QED
  BY <1>4, <1>5, <1>6, <1>7, <1>8 DEF Safe

\* The JVM ends and its monitor returns from Wait.
LEMMA ExitSafe ==
  ASSUME IInv, Typed', NEW p \in Procs, JvmExit(p) \/ ExitWait(p) PROVE Safe'
<1>. USE DEF IInv, Typed, TypeOK, JvmExit, ExitWait, Goto, At, Threads, locals, memory
<1>1. Handover'
  <2>1. \A u \in Threads : pc'[u] = "startStore" =>
          held'[u] \in Procs /\ pc'[held'[u]] = "launched" /\ srv'[held'[u]] = srv'[u]
    BY DEF Handover
  <2>2. \A u, v \in Threads :
          pc'[u] = "startStore" /\ pc'[v] = "startStore" /\ held'[u] = held'[v] => u = v
    BY DEF Handover
  <2>3. \A q \in Procs : pc'[q] = "launched" =>
          \E u \in Threads : pc'[u] = "startStore" /\ held'[u] = q
    BY DEF Handover
  <2>. QED
    BY <2>1, <2>2, <2>3 DEF Handover
<1>2. Pending'
  BY DEF Pending
<1>3. Polling'
  BY DEF Polling
<1>4. AskedIsNoCrash'
  BY DEF AskedIsNoCrash, CrashSteps
<1>5. NoStaleHandle'
  BY ThreadsAssumption DEF NoStaleHandle
<1>. QED
  BY <1>1, <1>2, <1>3, <1>4, <1>5 DEF Safe

\* The monitor removes every entry that names its process: there is only the
\* one of its own server.
LEMMA ExitForgetSafe ==
  ASSUME IInv, Typed', NEW p \in Procs, ExitForget(p) PROVE Safe'
<1>. USE DEF IInv, Typed, TypeOK, BusyHasServer, ExitForget, Goto, At, Threads, locals, process
<1>1. Handover'
  <2>1. \A u \in Threads : pc'[u] = "startStore" =>
          held'[u] \in Procs /\ pc'[held'[u]] = "launched" /\ srv'[held'[u]] = srv'[u]
    BY DEF Handover
  <2>2. \A u, v \in Threads :
          pc'[u] = "startStore" /\ pc'[v] = "startStore" /\ held'[u] = held'[v] => u = v
    BY DEF Handover
  <2>3. \A q \in Procs : pc'[q] = "launched" =>
          \E u \in Threads : pc'[u] = "startStore" /\ held'[u] = q
    BY DEF Handover
  <2>. QED
    BY <2>1, <2>2, <2>3 DEF Handover
<1>2. Pending'
  BY DEF Pending
<1>3. Polling'
  BY DEF Polling
<1>4. AskedIsNoCrash'
  BY DEF AskedIsNoCrash, CrashSteps
<1>5. NoStaleHandle'
  BY ThreadsAssumption DEF NoStaleHandle
<1>. QED
  BY <1>1, <1>2, <1>3, <1>4, <1>5 DEF Safe

\* An exit is judged a crash only if stopRequested is down, so nothing reached
\* the process while it lived.
LEMMA ExitJudgeSafe ==
  ASSUME IInv, Typed', NEW p \in Procs, ExitJudge(p) PROVE Safe'
<1>. USE DEF IInv, Typed, TypeOK, ExitJudge, Goto, At, Threads, locals, process
<1>1. Handover'
  <2>1. \A u \in Threads : pc'[u] = "startStore" =>
          held'[u] \in Procs /\ pc'[held'[u]] = "launched" /\ srv'[held'[u]] = srv'[u]
    BY DEF Handover
  <2>2. \A u, v \in Threads :
          pc'[u] = "startStore" /\ pc'[v] = "startStore" /\ held'[u] = held'[v] => u = v
    BY DEF Handover
  <2>3. \A q \in Procs : pc'[q] = "launched" =>
          \E u \in Threads : pc'[u] = "startStore" /\ held'[u] = q
    BY DEF Handover
  <2>. QED
    BY <2>1, <2>2, <2>3 DEF Handover
<1>2. Pending'
  BY DEF Pending
<1>3. Polling'
  BY DEF Polling
<1>4. AskedIsNoCrash'
  BY DEF AskedIsNoCrash, Pending, CrashSteps
<1>5. NoStaleHandle'
  BY ThreadsAssumption DEF NoStaleHandle
<1>. QED
  BY <1>1, <1>2, <1>3, <1>4, <1>5 DEF Safe

\* A stop or a kill raises stopRequested with the signal, and the signal counts
\* only while the process lives, when its monitor is still waiting.
LEMMA SignalSafe ==
  ASSUME IInv, Typed', NEW t \in Threads, StopLock(t) \/ StopTimeout(t) \/ ForceKill(t)
  PROVE  Safe'
<1>. USE DEF IInv, Typed, TypeOK, StopLock, StopTimeout, ForceKill, Signalled,
             Goto, At, Threads, locals, memory
<1>1. Handover'
  <2>1. \A u \in Threads : pc'[u] = "startStore" =>
          held'[u] \in Procs /\ pc'[held'[u]] = "launched" /\ srv'[held'[u]] = srv'[u]
    BY DEF Handover
  <2>2. \A u, v \in Threads :
          pc'[u] = "startStore" /\ pc'[v] = "startStore" /\ held'[u] = held'[v] => u = v
    BY DEF Handover
  <2>3. \A q \in Procs : pc'[q] = "launched" =>
          \E u \in Threads : pc'[u] = "startStore" /\ held'[u] = q
    BY DEF Handover
  <2>. QED
    BY <2>1, <2>2, <2>3 DEF Handover
<1>2. Pending'
  BY DEF Pending, Polling
<1>3. Polling'
  BY DEF Polling
<1>4. AskedIsNoCrash'
  BY DEF AskedIsNoCrash, Pending, CrashSteps
<1>5. NoStaleHandle'
  BY ThreadsAssumption DEF NoStaleHandle
<1>. QED
  BY <1>1, <1>2, <1>3, <1>4, <1>5 DEF Safe

\* A caller that picks up a job was idle, and a reboot leaves nothing running.
LEMMA OutsideStepSafe ==
  ASSUME IInv, Typed', \/ \E c \in Callers, j \in Jobs, s \in Servers : Request(c, j, s)
                       \/ Reboot
  PROVE  Safe'
<1>. USE DEF IInv, Typed, TypeOK, Threads
<1>1. ASSUME NEW c \in Callers, NEW j \in Jobs, NEW s \in Servers, Request(c, j, s)
      PROVE  Safe'
  <2>. USE DEF Request, At, memory, process
  <2>1. pc'[c] \in {"startCount", "stopGet", "forceGet", "wakeGet", "wipeGet", "autoGet"}
    <3>1. j \in AllJobs
      BY JobsAssumption
    <3>2. Entry(j) \in {"startCount", "stopGet", "forceGet", "wakeGet", "wipeGet", "autoGet"}
      BY <3>1 DEF Entry, AllJobs
    <3>. QED
      BY <1>1, <3>2
  <2>2. \A u \in Threads \ {c} : pc'[u] = pc[u] /\ srv'[u] = srv[u] /\ held'[u] = held[u]
    BY <1>1
  <2>3. Handover'
    <3>1. \A u \in Threads : pc'[u] = "startStore" =>
            held'[u] \in Procs /\ pc'[held'[u]] = "launched" /\ srv'[held'[u]] = srv'[u]
      BY <1>1, <2>1, <2>2, ThreadsAssumption DEF Handover
    <3>2. \A u, v \in Threads :
            pc'[u] = "startStore" /\ pc'[v] = "startStore" /\ held'[u] = held'[v] => u = v
      BY <1>1, <2>1, <2>2 DEF Handover
    <3>3. \A q \in Procs : pc'[q] = "launched" =>
            \E u \in Threads : pc'[u] = "startStore" /\ held'[u] = q
      BY <1>1, <2>1, <2>2, ThreadsAssumption DEF Handover
    <3>. QED
      BY <3>1, <3>2, <3>3 DEF Handover
  <2>4. Pending' /\ Polling'
    BY <1>1, <2>1, <2>2, ThreadsAssumption DEF Pending, Polling
  <2>5. AskedIsNoCrash'
    BY <1>1, <2>2, ThreadsAssumption DEF AskedIsNoCrash
  <2>6. NoStaleHandle'
    BY <1>1, <2>2, ThreadsAssumption DEF NoStaleHandle
  <2>. QED
    BY <2>3, <2>4, <2>5, <2>6 DEF Safe
<1>2. CASE Reboot
  BY <1>2, ThreadsAssumption
  DEF Reboot, Safe, Handover, Polling, Pending, AskedIsNoCrash, NoStaleHandle, CrashSteps
<1>. QED
  BY <1>1, <1>2

-----------------------------------------------------------------------------
(* The theorems.                                                           *)

\* Every step preserves the invariant: it is a plain step of one goroutine, one
\* of the steps that touch a process, or a step from outside.
LEMMA StepInv == IInv /\ [Next]_vars => IInv'
<1>. SUFFICES ASSUME IInv, [Next]_vars PROVE IInv'
  OBVIOUS
<1>. USE DEF IInv, Safe, Threads
<1>1. ASSUME NEW t \in Threads, PlainStart(t) PROVE IInv'
  BY <1>1, PlainStartTyped, PlainStartIsPlain, PlainStepSafe
<1>2. ASSUME NEW t \in Threads, PlainStop(t) PROVE IInv'
  BY <1>2, PlainStopTyped, PlainStopIsPlain, PlainStepSafe
<1>3. ASSUME NEW t \in Threads, Housekeeping(t) PROVE IInv'
  BY <1>3, HousekeepingTyped, HousekeepingIsPlain, PlainStepSafe
<1>4. ASSUME NEW p \in Procs, PlainMonitor(p) PROVE IInv'
  BY <1>4, PlainMonitorTyped, PlainMonitorIsPlain, PlainStepSafe
<1>5. ASSUME NEW t \in Threads, NEW p \in Procs, StartSpawn(t, p) PROVE IInv'
  BY <1>5, ProcessStepTyped, StartSpawnSafe
<1>6. ASSUME NEW t \in Threads, StartStore(t) PROVE IInv'
  BY <1>6, HandleStepTyped, StartStoreSafe
<1>7. ASSUME NEW p \in Procs, JvmExit(p) \/ ExitWait(p) PROVE IInv'
  BY <1>7, ProcessStepTyped, ExitSafe
<1>8. ASSUME NEW p \in Procs, ExitForget(p) PROVE IInv'
  BY <1>8, ProcessStepTyped, ExitForgetSafe
<1>9. ASSUME NEW p \in Procs, ExitJudge(p) PROVE IInv'
  BY <1>9, ProcessStepTyped, ExitJudgeSafe
<1>10. ASSUME NEW t \in Threads, StopLock(t) \/ StopTimeout(t) \/ ForceKill(t) PROVE IInv'
  BY <1>10, HandleStepTyped, SignalSafe
<1>11. CASE \/ \E c \in Callers, j \in Jobs, s \in Servers : Request(c, j, s)
           \/ Reboot
  BY <1>11, OutsideStepTyped, OutsideStepSafe
<1>12. CASE UNCHANGED vars
  BY <1>12
  DEF vars, database, memory, process, locals, Typed, TypeOK, BusyHasServer,
      Handover, Polling, Pending, AskedIsNoCrash, NoStaleHandle, CrashSteps
<1>13. CASE \E t \in Threads : StartServer(t)
  BY <1>1, <1>5, <1>6, <1>13 DEF StartServer, PlainStart
<1>14. CASE \E c \in Callers : StopServer(c) \/ Locking(c) \/ Housekeeping(c)
  BY <1>2, <1>3, <1>10, <1>14 DEF StopServer, PlainStop, Locking
<1>15. CASE \E p \in Procs : MonitorProcess(p) \/ ExitJudge(p) \/ JvmExit(p)
  BY <1>4, <1>7, <1>8, <1>9, <1>15 DEF MonitorProcess, PlainMonitor
<1>. QED
  BY <1>11, <1>12, <1>13, <1>14, <1>15 DEF Next

\* The inductive invariant holds in every reachable state.
THEOREM Invariance == Spec => []IInv
<1>1. Init => IInv
  BY InitTyped, InitSafe DEF IInv, Safe
<1>. QED
  BY <1>1, StepInv, PTL DEF Spec

\* Every variable keeps its type; in particular no restart streak outgrows the
\* delays there are for it.
THEOREM TypeCorrect == Spec => []TypeOK
  BY Invariance, PTL DEF IInv, Typed

\* A JVM that RealmRunner stopped or killed is never treated as crashed.
THEOREM AskedIsNeverCrash == Spec => []AskedIsNoCrash
  BY Invariance, PTL DEF IInv

\* Manager.processes never names a process whose monitor has cleaned up.
THEOREM HandlesAreFresh == Spec => []NoStaleHandle
  BY Invariance, PTL DEF IInv

\* Every JVM is waited for, or about to be: RealmRunner leaves no zombies.
THEOREM JvmsAreWatched == Spec => []EveryJvmWatched
<1>1. IInv => EveryJvmWatched
  BY DEF IInv, Typed, TypeOK, Pending, Handover, EveryJvmWatched
<1>. QED
  BY <1>1, Invariance, PTL

-----------------------------------------------------------------------------
(* A transitional status is always owned by a handler at work.             *)

\* A step of goroutine t leaves the other owners alone; it makes a status
\* transitional only by becoming its owner, and gives ownership up only after it
\* has overwritten the status.
TailStep(t) ==
  /\ \A u \in Threads \ {t} :
       pc[u] \in StartTail \cup StopTail => pc'[u] = pc[u] /\ srv'[u] = srv[u]
  /\ pc'[t] \in StartTail \cup StopTail => srv'[t] = srv[t]
  /\ \A s \in Servers : /\ status'[s] = "starting" =>
                             status[s] = "starting" \/ (s = srv[t] /\ pc'[t] \in StartTail)
                        /\ status'[s] = "stopping" =>
                             status[s] = "stopping" \/ (s = srv[t] /\ pc'[t] \in StopTail)
  /\ pc[t] \in StartTail /\ pc'[t] \notin StartTail => status'[srv[t]] # "starting"
  /\ pc[t] \in StopTail /\ pc'[t] \notin StopTail => status'[srv[t]] # "stopping"

\* StartServer, on every path.
LEMMA StartTailStep ==
  ASSUME IInv, NEW t \in Threads, PlainStart(t)
  PROVE  TailStep(t)
<1>. USE DEF TailStep, IInv, Typed, TypeOK, BusyHasServer, At, Goto, Finish, Threads,
       StartTail, StopTail, database, memory, process, locals
<1>1. CASE StartCount(t)
  BY <1>1 DEF StartCount
<1>2. CASE StartGet(t)
  BY <1>2 DEF StartGet
<1>3. CASE StartMark(t)
  BY <1>3 DEF StartMark, UpdateServerStatus
<1>4. CASE StartSpawnFails(t)
  BY <1>4 DEF StartSpawnFails
<1>5. CASE StartFail(t)
  BY <1>5 DEF StartFail, UpdateServerStatus, RestingStatus, HasRow
<1>6. CASE StartRefuse(t)
  BY <1>6 DEF StartRefuse, UpdateServerStatus, RestingStatus, HasRow
<1>7. CASE StartRecord(t)
  BY <1>7 DEF StartRecord, SetError
<1>8. CASE StartRunning(t)
  BY <1>8 DEF StartRunning, UpdateServerStatus, HasRow
<1>9. CASE StartClear(t)
  BY <1>9 DEF StartClear, SetError
<1>. QED
  BY <1>1, <1>2, <1>3, <1>4, <1>5, <1>6, <1>7, <1>8, <1>9 DEF PlainStart

\* StopServer, ForceStopServer and Sleep, on every path.
LEMMA StopTailStep ==
  ASSUME IInv, NEW t \in Threads, PlainStop(t)
  PROVE  TailStep(t)
<1>. USE DEF TailStep, IInv, Typed, TypeOK, BusyHasServer, At, Goto, Finish, Threads,
       StartTail, StopTail, database, memory, process, locals
<1>1. CASE StopGet(t)
  BY <1>1 DEF StopGet
<1>2. CASE StopMark(t)
  BY <1>2 DEF StopMark, UpdateServerStatus
<1>3. CASE StopFind(t)
  BY <1>3 DEF StopFind, Find
<1>4. CASE StopGone(t)
  BY <1>4 DEF StopGone
<1>5. CASE StopGrace(t)
  BY <1>5 DEF StopGrace
<1>6. CASE StopForget(t)
  BY <1>6 DEF StopForget
<1>7. CASE StopRest(t)
  BY <1>7 DEF StopRest, UpdateServerStatus, RestingStatus, HasRow
<1>8. CASE SleepMark(t)
  BY <1>8 DEF SleepMark, UpdateServerStatus
<1>9. CASE ForceGet(t)
  BY <1>9 DEF ForceGet
<1>10. CASE ForceFind(t)
  BY <1>10 DEF ForceFind, Find
<1>. QED
  BY <1>1, <1>2, <1>3, <1>4, <1>5, <1>6, <1>7, <1>8, <1>9, <1>10 DEF PlainStop

\* wake, WipeoutServer and SetAutoRestart.
LEMMA HousekeepingTailStep ==
  ASSUME IInv, NEW t \in Threads, Housekeeping(t)
  PROVE  TailStep(t)
<1>. USE DEF TailStep, IInv, Typed, TypeOK, BusyHasServer, At, Goto, Finish, Threads,
       StartTail, StopTail, database, memory, process, locals
<1>1. CASE WakeGet(t)
  BY <1>1 DEF WakeGet
<1>2. CASE WipeGet(t)
  BY <1>2 DEF WipeGet
<1>3. CASE WipeFiles(t)
  BY <1>3 DEF WipeFiles
<1>4. CASE WipeRow(t)
  BY <1>4 DEF WipeRow
<1>5. CASE AutoGet(t)
  BY <1>5 DEF AutoGet
<1>6. CASE AutoReset(t)
  BY <1>6 DEF AutoReset
<1>7. CASE AutoWrite(t)
  BY <1>7 DEF AutoWrite
<1>. QED
  BY <1>1, <1>2, <1>3, <1>4, <1>5, <1>6, <1>7 DEF Housekeeping

\* The monitor and the crash handler.
LEMMA MonitorTailStep ==
  ASSUME IInv, NEW p \in Threads, PlainMonitor(p)
  PROVE  TailStep(p)
<1>. USE DEF TailStep, IInv, Typed, TypeOK, BusyHasServer, At, Goto, Finish, Threads,
       StartTail, StopTail, database, memory, process, locals
<1>1. CASE ExitRest(p)
  BY <1>1 DEF ExitRest, UpdateServerStatus, RestingStatus
<1>2. CASE ExitReset(p)
  BY <1>2 DEF ExitReset
<1>3. CASE CrashGet(p)
  BY <1>3 DEF CrashGet
<1>4. CASE CrashMark(p)
  BY <1>4 DEF CrashMark, UpdateServerStatus
<1>5. CASE CrashRecord(p)
  BY <1>5 DEF CrashRecord, SetError
<1>6. CASE CrashNext(p)
  BY <1>6 DEF CrashNext
<1>7. CASE CrashGiveUp(p)
  BY <1>7 DEF CrashGiveUp, SetError
<1>8. CASE Backoff(p)
  BY <1>8 DEF Backoff
<1>. QED
  BY <1>1, <1>2, <1>3, <1>4, <1>5, <1>6, <1>7, <1>8 DEF PlainMonitor

\* The steps that touch a process.
LEMMA ProcessTailStep ==
  ASSUME IInv, NEW t \in Threads, NEW p \in Procs,
         \/ StartSpawn(t, p) \/ StartStore(t) \/ StopTimeout(t) \/ StopLock(t) \/ ForceKill(t)
         \/ t = p /\ (JvmExit(p) \/ ExitWait(p) \/ ExitForget(p) \/ ExitJudge(p))
  PROVE  TailStep(t)
<1>. USE DEF TailStep, IInv, Typed, TypeOK, BusyHasServer, At, Goto, Finish, Threads,
       StartTail, StopTail, database, memory, process, locals
<1>1. CASE StartSpawn(t, p)
  BY <1>1 DEF StartSpawn, Free
<1>2. CASE StartStore(t)
  BY <1>2 DEF StartStore, Handover
<1>3. CASE StopTimeout(t) \/ StopLock(t) \/ ForceKill(t)
  BY <1>3 DEF StopTimeout, StopLock, ForceKill
<1>4. CASE t = p /\ (JvmExit(p) \/ ExitWait(p) \/ ExitForget(p) \/ ExitJudge(p))
  BY <1>4 DEF JvmExit, ExitWait, ExitForget, ExitJudge
<1>. QED
  BY <1>1, <1>2, <1>3, <1>4

\* A step of that kind preserves ownership.
LEMMA TailStepOwned ==
  ASSUME IInv, TransitionalOwned, NEW t \in Threads, TailStep(t)
  PROVE  TransitionalOwned'
<1>. USE DEF IInv, Typed, TypeOK, TailStep
<1>1. ASSUME NEW s \in Servers, status'[s] = "starting"
      PROVE  \E u \in Threads : srv'[u] = s /\ pc'[u] \in StartTail
  <2>1. CASE s = srv[t] /\ pc'[t] \in StartTail
    BY <2>1
  <2>2. CASE status[s] = "starting"
    <3>1. PICK u \in Threads : srv[u] = s /\ pc[u] \in StartTail
      BY <2>2 DEF TransitionalOwned
    <3>2. CASE u = t
      BY <1>1, <3>1, <3>2
    <3>3. CASE u # t
      BY <3>1, <3>3
    <3>. QED
      BY <3>2, <3>3
  <2>. QED
    BY <1>1, <2>1, <2>2
<1>2. ASSUME NEW s \in Servers, status'[s] = "stopping"
      PROVE  \E u \in Threads : srv'[u] = s /\ pc'[u] \in StopTail
  <2>1. CASE s = srv[t] /\ pc'[t] \in StopTail
    BY <2>1
  <2>2. CASE status[s] = "stopping"
    <3>1. PICK u \in Threads : srv[u] = s /\ pc[u] \in StopTail
      BY <2>2 DEF TransitionalOwned
    <3>2. CASE u = t
      BY <1>2, <3>1, <3>2
    <3>3. CASE u # t
      BY <3>1, <3>3
    <3>. QED
      BY <3>2, <3>3
  <2>. QED
    BY <1>2, <2>1, <2>2
<1>. QED
  BY <1>1, <1>2 DEF TransitionalOwned

\* A request takes an idle goroutine, which owned nothing; a reboot leaves no
\* transitional status behind.
LEMMA OutsideStepOwned ==
  ASSUME IInv, TransitionalOwned,
         \/ \E c \in Callers, j \in Jobs, s \in Servers : Request(c, j, s)
         \/ Reboot
  PROVE  TransitionalOwned'
<1>1. ASSUME NEW c \in Callers, NEW j \in Jobs, NEW s \in Servers, Request(c, j, s)
      PROVE  TransitionalOwned'
  <2>. USE DEF IInv, Typed, TypeOK, Request, At, Threads, StartTail, StopTail
  <2>1. status' = status
    BY <1>1 DEF database
  <2>2. \A u \in Threads : pc[u] \in StartTail \cup StopTail => pc'[u] = pc[u] /\ srv'[u] = srv[u]
    BY <1>1
  <2>. QED
    BY <2>1, <2>2 DEF TransitionalOwned
<1>2. CASE Reboot
  <2>1. \A s \in Servers : status'[s] \notin {"starting", "stopping"}
    BY <1>2 DEF Reboot, CleanStatus
  <2>. QED
    BY <2>1 DEF TransitionalOwned
<1>. QED
  BY <1>1, <1>2

\* "starting" and "stopping" never outlive the handler that has to resolve them,
\* on no error path, under no interleaving and across no reboot.
THEOREM TransitionalIsOwned == Spec => []TransitionalOwned
<1>1. Init => TransitionalOwned
  BY DEF Init, RestingStatus, TransitionalOwned
<1>2. IInv /\ TransitionalOwned /\ [Next]_vars => TransitionalOwned'
  <2>. SUFFICES ASSUME IInv, TransitionalOwned, [Next]_vars PROVE TransitionalOwned'
    OBVIOUS
  <2>. USE DEF Threads
  <2>1. CASE \E t \in Threads : StartServer(t)
    <3>1. PICK t \in Threads : StartServer(t)
      BY <2>1
    <3>2. CASE PlainStart(t)
      BY <3>2, StartTailStep, TailStepOwned
    <3>3. CASE StartStore(t)
      <4>1. held[t] \in Procs
        BY <3>3 DEF IInv, Handover, StartStore, At
      <4>. QED
        BY <3>3, <4>1, ProcessTailStep, TailStepOwned
    <3>4. ASSUME NEW p \in Procs, StartSpawn(t, p) PROVE TransitionalOwned'
      BY <3>4, ProcessTailStep, TailStepOwned
    <3>. QED
      BY <3>1, <3>2, <3>3, <3>4 DEF StartServer, PlainStart
  <2>2. CASE \E c \in Callers : StopServer(c) \/ Locking(c) \/ Housekeeping(c)
    <3>1. PICK c \in Callers : StopServer(c) \/ Locking(c) \/ Housekeeping(c)
      BY <2>2
    <3>2. CASE PlainStop(c)
      BY <3>2, StopTailStep, TailStepOwned
    <3>3. CASE Housekeeping(c)
      BY <3>3, HousekeepingTailStep, TailStepOwned
    <3>4. CASE StopTimeout(c) \/ Locking(c)
      <4>1. TailStep(c)
        BY <3>4 DEF Locking, StopTimeout, StopLock, ForceKill, TailStep, IInv, Typed, TypeOK,
                    At, Goto, StartTail, StopTail, database, locals
      <4>. QED
        BY <4>1, TailStepOwned
    <3>. QED
      BY <3>1, <3>2, <3>3, <3>4 DEF StopServer, PlainStop
  <2>3. CASE \E p \in Procs : MonitorProcess(p) \/ ExitJudge(p) \/ JvmExit(p)
    <3>1. PICK p \in Procs : MonitorProcess(p) \/ ExitJudge(p) \/ JvmExit(p)
      BY <2>3
    <3>2. CASE PlainMonitor(p)
      BY <3>2, MonitorTailStep, TailStepOwned
    <3>3. CASE JvmExit(p) \/ ExitWait(p) \/ ExitForget(p) \/ ExitJudge(p)
      BY <3>3, ProcessTailStep, TailStepOwned
    <3>. QED
      BY <3>1, <3>2, <3>3 DEF MonitorProcess, PlainMonitor
  <2>4. CASE UNCHANGED vars
    BY <2>4 DEF vars, database, locals, TransitionalOwned
  <2>. QED
    BY <2>1, <2>2, <2>3, <2>4, OutsideStepOwned DEF Next
<1>. QED
  BY <1>1, <1>2, Invariance, PTL DEF Spec

-----------------------------------------------------------------------------
(* The limit on running servers.                                           *)

\* A start between its count and its write of the status running.
Admitted == {"startGet", "startMark", "startSpawn", "startStore", "startRunning"}

\* What the limit asks of those who start servers: no two of them are between the
\* count and the write at once.  Nothing in StartServer makes them wait.
StartsDoNotOverlap ==
  \A t, u \in Threads : pc[t] \in Admitted /\ pc[u] \in Admitted => t = u

\* A start that has counted still finds room when it writes.
RoomKept == \A t \in Threads : pc[t] \in Admitted => CountRunningServers < MaxRunning

\* A step that lets no server become running, and admits a start only if there is
\* room.
CalmStep ==
  /\ \A s \in Servers : status'[s] = "running" => status[s] = "running"
  /\ \A u \in Threads : pc'[u] \in Admitted =>
       pc[u] \in Admitted \/ ~(CountRunningServers >= MaxRunning)

\* StartServer, but for its count and for the write of the status.
LEMMA StartCalm ==
  ASSUME Typed, NEW t \in Threads, PlainStart(t), ~StartRunning(t)
  PROVE  CalmStep
<1>. USE DEF CalmStep, Admitted, Typed, TypeOK, At, Goto, Finish, Threads,
       database, memory, process, locals
<1>1. CASE StartCount(t)
  BY <1>1 DEF StartCount
<1>2. CASE StartGet(t)
  BY <1>2 DEF StartGet
<1>3. CASE StartMark(t)
  BY <1>3 DEF StartMark, UpdateServerStatus
<1>4. CASE StartSpawnFails(t)
  BY <1>4 DEF StartSpawnFails
<1>5. CASE StartFail(t)
  BY <1>5 DEF StartFail, UpdateServerStatus, RestingStatus
<1>6. CASE StartRefuse(t)
  BY <1>6 DEF StartRefuse, UpdateServerStatus, RestingStatus
<1>7. CASE StartRecord(t)
  BY <1>7 DEF StartRecord, SetError
<1>8. CASE StartClear(t)
  BY <1>8 DEF StartClear, SetError
<1>. QED
  BY <1>1, <1>2, <1>3, <1>4, <1>5, <1>6, <1>7, <1>8 DEF PlainStart

\* StopServer, ForceStopServer and Sleep; a scheduled restart goes on to the count.
LEMMA StopCalm ==
  ASSUME Typed, NEW t \in Threads, PlainStop(t)
  PROVE  CalmStep
<1>. USE DEF CalmStep, Admitted, Typed, TypeOK, At, Goto, Finish, Threads,
       database, memory, process, locals
<1>1. CASE StopGet(t)
  BY <1>1 DEF StopGet
<1>2. CASE StopMark(t)
  BY <1>2 DEF StopMark, UpdateServerStatus
<1>3. CASE StopFind(t)
  BY <1>3 DEF StopFind, Find
<1>4. CASE StopGone(t)
  BY <1>4 DEF StopGone
<1>5. CASE StopGrace(t)
  BY <1>5 DEF StopGrace
<1>6. CASE StopForget(t)
  BY <1>6 DEF StopForget
<1>7. CASE StopRest(t)
  BY <1>7 DEF StopRest, UpdateServerStatus, RestingStatus
<1>8. CASE SleepMark(t)
  BY <1>8 DEF SleepMark, UpdateServerStatus
<1>9. CASE ForceGet(t)
  BY <1>9 DEF ForceGet
<1>10. CASE ForceFind(t)
  BY <1>10 DEF ForceFind, Find
<1>. QED
  BY <1>1, <1>2, <1>3, <1>4, <1>5, <1>6, <1>7, <1>8, <1>9, <1>10 DEF PlainStop

\* wake, WipeoutServer and SetAutoRestart.
LEMMA HousekeepingCalm ==
  ASSUME Typed, NEW t \in Threads, Housekeeping(t)
  PROVE  CalmStep
<1>. USE DEF CalmStep, Admitted, Typed, TypeOK, At, Goto, Finish, Threads,
       database, memory, process, locals
<1>1. CASE WakeGet(t)
  BY <1>1 DEF WakeGet
<1>2. CASE WipeGet(t)
  BY <1>2 DEF WipeGet
<1>3. CASE WipeFiles(t)
  BY <1>3 DEF WipeFiles
<1>4. CASE WipeRow(t)
  BY <1>4 DEF WipeRow
<1>5. CASE AutoGet(t)
  BY <1>5 DEF AutoGet
<1>6. CASE AutoReset(t)
  BY <1>6 DEF AutoReset
<1>7. CASE AutoWrite(t)
  BY <1>7 DEF AutoWrite
<1>. QED
  BY <1>1, <1>2, <1>3, <1>4, <1>5, <1>6, <1>7 DEF Housekeeping

\* The monitor and the crash handler.
LEMMA MonitorCalm ==
  ASSUME Typed, NEW p \in Threads, PlainMonitor(p)
  PROVE  CalmStep
<1>. USE DEF CalmStep, Admitted, Typed, TypeOK, At, Goto, Finish, Threads,
       database, memory, process, locals
<1>1. CASE ExitRest(p)
  BY <1>1 DEF ExitRest, UpdateServerStatus, RestingStatus
<1>2. CASE ExitReset(p)
  BY <1>2 DEF ExitReset
<1>3. CASE CrashGet(p)
  BY <1>3 DEF CrashGet
<1>4. CASE CrashMark(p)
  BY <1>4 DEF CrashMark, UpdateServerStatus
<1>5. CASE CrashRecord(p)
  BY <1>5 DEF CrashRecord, SetError
<1>6. CASE CrashNext(p)
  BY <1>6 DEF CrashNext
<1>7. CASE CrashGiveUp(p)
  BY <1>7 DEF CrashGiveUp, SetError
<1>8. CASE Backoff(p)
  BY <1>8 DEF Backoff
<1>. QED
  BY <1>1, <1>2, <1>3, <1>4, <1>5, <1>6, <1>7, <1>8 DEF PlainMonitor

\* The steps that touch a process.
LEMMA ProcessCalm ==
  ASSUME IInv, NEW t \in Threads, NEW p \in Procs,
         \/ StartSpawn(t, p) \/ StartStore(t) \/ StopTimeout(t) \/ StopLock(t) \/ ForceKill(t)
         \/ JvmExit(p) \/ ExitWait(p) \/ ExitForget(p) \/ ExitJudge(p)
  PROVE  CalmStep
<1>. USE DEF CalmStep, Admitted, IInv, Typed, TypeOK, At, Goto, Finish, Threads,
       database, memory, process, locals
<1>1. CASE StartSpawn(t, p)
  BY <1>1 DEF StartSpawn, Free
<1>2. CASE StartStore(t)
  BY <1>2 DEF StartStore, Handover
<1>3. CASE StopTimeout(t) \/ StopLock(t) \/ ForceKill(t)
  BY <1>3 DEF StopTimeout, StopLock, ForceKill
<1>4. CASE JvmExit(p) \/ ExitWait(p) \/ ExitForget(p) \/ ExitJudge(p)
  BY <1>4 DEF JvmExit, ExitWait, ExitForget, ExitJudge
<1>. QED
  BY <1>1, <1>2, <1>3, <1>4

\* A new request has not counted; after a reboot nothing runs.
LEMMA OutsideCalm ==
  ASSUME IInv,
         \/ \E c \in Callers, j \in Jobs, s \in Servers : Request(c, j, s)
         \/ Reboot
  PROVE  CalmStep
<1>. USE DEF CalmStep, Admitted, IInv, Typed, TypeOK, Threads, At
<1>1. ASSUME NEW c \in Callers, NEW j \in Jobs, NEW s \in Servers, Request(c, j, s)
      PROVE  CalmStep
  <2>1. j \in AllJobs
    BY JobsAssumption
  <2>2. pc' = [pc EXCEPT ![c] = Entry(j)] /\ Entry(j) \notin Admitted
    BY <1>1, <2>1 DEF Request, Entry, AllJobs
  <2>. QED
    BY <1>1, <2>2 DEF Request, database
<1>2. CASE Reboot
  BY <1>2 DEF Reboot, CleanStatus
<1>. QED
  BY <1>1, <1>2

\* Every step but the write of the status running is calm.
LEMMA OthersCalm ==
  ASSUME IInv, [Next]_vars, \A t \in Threads : ~StartRunning(t)
  PROVE  CalmStep
<1>. USE DEF IInv, Threads
<1>1. CASE \E t \in Threads : StartServer(t)
  <2>1. PICK t \in Threads : StartServer(t)
    BY <1>1
  <2>2. CASE PlainStart(t)
    BY <2>2, StartCalm
  <2>3. CASE StartStore(t)
    <3>1. held[t] \in Procs
      BY <2>3 DEF Handover, StartStore, At
    <3>. QED
      BY <2>3, <3>1, ProcessCalm
  <2>4. ASSUME NEW p \in Procs, StartSpawn(t, p) PROVE CalmStep
    BY <2>4, ProcessCalm
  <2>. QED
    BY <2>1, <2>2, <2>3, <2>4 DEF StartServer, PlainStart
<1>2. CASE \E c \in Callers : StopServer(c) \/ Locking(c) \/ Housekeeping(c)
  <2>1. PICK c \in Callers : StopServer(c) \/ Locking(c) \/ Housekeeping(c)
    BY <1>2
  <2>2. CASE PlainStop(c)
    BY <2>2, StopCalm
  <2>3. CASE Housekeeping(c)
    BY <2>3, HousekeepingCalm
  <2>4. CASE StopTimeout(c) \/ Locking(c)
    BY <2>4 DEF CalmStep, Admitted, Locking, StopTimeout, StopLock, ForceKill, Typed, TypeOK,
                At, Goto, database, locals
  <2>. QED
    BY <2>1, <2>2, <2>3, <2>4 DEF StopServer, PlainStop
<1>3. CASE \E p \in Procs : MonitorProcess(p) \/ ExitJudge(p) \/ JvmExit(p)
  <2>1. PICK p \in Procs : MonitorProcess(p) \/ ExitJudge(p) \/ JvmExit(p)
    BY <1>3
  <2>2. CASE PlainMonitor(p)
    BY <2>2, MonitorCalm
  <2>3. CASE JvmExit(p) \/ ExitWait(p) \/ ExitForget(p) \/ ExitJudge(p)
    BY <2>3, ProcessCalm
  <2>. QED
    BY <2>1, <2>2, <2>3 DEF MonitorProcess, PlainMonitor
<1>4. CASE UNCHANGED vars
  BY <1>4 DEF vars, database, CalmStep
<1>. QED
  BY <1>1, <1>2, <1>3, <1>4, OutsideCalm DEF Next

\* The number of running servers falls in a calm step, or stays.
LEMMA CalmCount ==
  ASSUME IsFiniteSet(Servers), CalmStep
  PROVE  /\ CountRunningServers \in Nat /\ CountRunningServers' \in Nat
         /\ CountRunningServers' <= CountRunningServers
<1> DEFINE now  == {s \in Servers : status[s] = "running"}
           then == {s \in Servers : status'[s] = "running"}
<1>1. then \subseteq now
  BY DEF CalmStep
<1>2. IsFiniteSet(now)
  BY FS_Subset
<1>3. IsFiniteSet(then) /\ Cardinality(then) <= Cardinality(now)
  BY <1>1, <1>2, FS_Subset
<1>4. Cardinality(now) \in Nat /\ Cardinality(then) \in Nat
  BY <1>2, <1>3, FS_CardinalityType
<1>. QED
  BY <1>3, <1>4 DEF CountRunningServers

\* The write of the status running adds one server at most.
LEMMA RunningCount ==
  ASSUME IsFiniteSet(Servers), Typed, NEW t \in Threads, StartRunning(t)
  PROVE  /\ CountRunningServers \in Nat /\ CountRunningServers' \in Nat
         /\ CountRunningServers' <= CountRunningServers + 1
<1> DEFINE now  == {s \in Servers : status[s] = "running"}
           then == {s \in Servers : status'[s] = "running"}
<1>1. then \subseteq now \cup {srv[t]}
  BY DEF StartRunning, UpdateServerStatus, Typed, TypeOK
<1>2. IsFiniteSet(now)
  BY FS_Subset
<1>3. Cardinality(now) \in Nat
  BY <1>2, FS_CardinalityType
<1>4. /\ IsFiniteSet(now \cup {srv[t]}) /\ Cardinality(now \cup {srv[t]}) \in Nat
      /\ Cardinality(now \cup {srv[t]}) <= Cardinality(now) + 1
  BY <1>2, <1>3, FS_AddElement
<1>5. IsFiniteSet(then) /\ Cardinality(then) <= Cardinality(now \cup {srv[t]})
  BY <1>1, <1>4, FS_Subset
<1>6. Cardinality(then) \in Nat
  BY <1>5, FS_CardinalityType
<1>. QED
  BY <1>3, <1>4, <1>5, <1>6 DEF CountRunningServers

LEMMA LimitStep ==
  ASSUME IsFiniteSet(Servers), IInv, StartsDoNotOverlap, RunningWithinLimit, RoomKept, [Next]_vars
  PROVE  RunningWithinLimit' /\ RoomKept'
<1>. USE LimitsAssumption
<1>1. CASE \A t \in Threads : ~StartRunning(t)
  <2>1. CalmStep
    BY <1>1, OthersCalm
  <2>2. /\ CountRunningServers \in Nat /\ CountRunningServers' \in Nat
        /\ CountRunningServers' <= CountRunningServers
    BY <2>1, CalmCount
  <2>3. RunningWithinLimit'
    BY <2>2 DEF RunningWithinLimit
  <2>4. ASSUME NEW u \in Threads, pc'[u] \in Admitted PROVE CountRunningServers' < MaxRunning
    <3>1. CountRunningServers < MaxRunning
      BY <2>1, <2>2, <2>4 DEF CalmStep, RoomKept
    <3>. QED
      BY <2>2, <3>1
  <2>. QED
    BY <2>3, <2>4 DEF RoomKept
<1>2. ASSUME NEW t \in Threads, StartRunning(t) PROVE RunningWithinLimit' /\ RoomKept'
  <2>1. /\ CountRunningServers \in Nat /\ CountRunningServers' \in Nat
        /\ CountRunningServers' <= CountRunningServers + 1
    BY <1>2, RunningCount DEF IInv
  <2>2. pc[t] \in Admitted /\ pc' = [pc EXCEPT ![t] = "startClear"]
    BY <1>2 DEF StartRunning, At, Goto, Admitted
  <2>3. CountRunningServers < MaxRunning
    BY <2>2 DEF RoomKept
  <2>4. \A u \in Threads : pc'[u] \notin Admitted
    BY <2>2 DEF StartsDoNotOverlap, Admitted, IInv, Typed, TypeOK
  <2>5. RunningWithinLimit'
    BY <2>1, <2>3 DEF RunningWithinLimit
  <2>. QED
    BY <2>4, <2>5 DEF RoomKept
<1>. QED
  BY <1>1, <1>2

\* The limit on running servers (config.MaxRunning) is kept for as long as no two
\* starts overlap, whatever else interleaves with them: stops, kills, crashes,
\* wipes and reboots never make room that a start has not counted.
THEOREM LimitIsKept ==
  ASSUME IsFiniteSet(Servers)
  PROVE  Spec /\ []StartsDoNotOverlap => []RunningWithinLimit
<1>1. Init => RunningWithinLimit /\ RoomKept
  <2>. SUFFICES ASSUME Init PROVE RunningWithinLimit /\ RoomKept
    OBVIOUS
  <2>1. {s \in Servers : status[s] = "running"} = {}
    BY DEF Init, RestingStatus
  <2>2. CountRunningServers = 0
    BY <2>1, FS_EmptySet DEF CountRunningServers
  <2>. QED
    BY <2>2, LimitsAssumption DEF Init, RunningWithinLimit, RoomKept, Admitted
<1>2. IInv /\ StartsDoNotOverlap /\ RunningWithinLimit /\ RoomKept /\ [Next]_vars
        => RunningWithinLimit' /\ RoomKept'
  BY LimitStep
<1>. QED
  BY <1>1, <1>2, Invariance, PTL DEF Spec

-----------------------------------------------------------------------------
(* One starter: the instance in which starts cannot overlap.               *)

\* One caller, and no server that its crash handler would start again.
OneStarter ==
  /\ \A c, d \in Callers : c = d
  /\ AutoRestart = {} /\ "autoOn" \notin Jobs

\* Where the goroutine of a JVM can be when it never restarts its server.
Settling == MonitorSteps \cup {"idle", "crashGet", "crashMark", "crashRecord"}

\* Automatic restarts are off and stay off, so that no monitor starts a server.
Settled ==
  /\ \A s \in Servers : ~autoRestart[s]
  /\ \A t \in Threads : job[t] \notin {"retry", "autoOn"}
  /\ \A p \in Procs : pc[p] \in Settling

\* StartServer, which only callers run.
LEMMA StartSettled ==
  ASSUME OneStarter, Typed, Settled, NEW t \in Callers, PlainStart(t)
  PROVE  Settled'
<1>. USE ThreadsAssumption DEF Settled, Settling, MonitorSteps, OneStarter, Typed, TypeOK, At, Goto,
       Finish, Threads, database, memory, process, locals
<1>1. CASE StartCount(t)
  BY <1>1 DEF StartCount
<1>2. CASE StartGet(t)
  BY <1>2 DEF StartGet
<1>3. CASE StartMark(t)
  BY <1>3 DEF StartMark, UpdateServerStatus
<1>4. CASE StartSpawnFails(t)
  BY <1>4 DEF StartSpawnFails
<1>5. CASE StartFail(t)
  BY <1>5 DEF StartFail, UpdateServerStatus, RestingStatus
<1>6. CASE StartRefuse(t)
  BY <1>6 DEF StartRefuse, UpdateServerStatus, RestingStatus
<1>7. CASE StartRecord(t)
  BY <1>7 DEF StartRecord, SetError
<1>8. CASE StartRunning(t)
  BY <1>8 DEF StartRunning, UpdateServerStatus
<1>9. CASE StartClear(t)
  BY <1>9 DEF StartClear, SetError
<1>. QED
  BY <1>1, <1>2, <1>3, <1>4, <1>5, <1>6, <1>7, <1>8, <1>9 DEF PlainStart

\* StopServer, ForceStopServer and Sleep.
LEMMA StopSettled ==
  ASSUME OneStarter, Typed, Settled, NEW t \in Callers, PlainStop(t)
  PROVE  Settled'
<1>. USE ThreadsAssumption DEF Settled, Settling, MonitorSteps, OneStarter, Typed, TypeOK, At, Goto,
       Finish, Threads, database, memory, process, locals
<1>1. CASE StopGet(t)
  BY <1>1 DEF StopGet
<1>2. CASE StopMark(t)
  BY <1>2 DEF StopMark
<1>3. CASE StopFind(t)
  BY <1>3 DEF StopFind, Find
<1>4. CASE StopGone(t)
  BY <1>4 DEF StopGone
<1>5. CASE StopGrace(t)
  BY <1>5 DEF StopGrace
<1>6. CASE StopForget(t)
  BY <1>6 DEF StopForget
<1>7. CASE StopRest(t)
  BY <1>7 DEF StopRest
<1>8. CASE SleepMark(t)
  BY <1>8 DEF SleepMark
<1>9. CASE ForceGet(t)
  BY <1>9 DEF ForceGet
<1>10. CASE ForceFind(t)
  BY <1>10 DEF ForceFind, Find
<1>. QED
  BY <1>1, <1>2, <1>3, <1>4, <1>5, <1>6, <1>7, <1>8, <1>9, <1>10 DEF PlainStop

\* wake, WipeoutServer and SetAutoRestart, which nobody asks to switch it on.
LEMMA HousekeepingSettled ==
  ASSUME OneStarter, Typed, Settled, NEW t \in Callers, Housekeeping(t)
  PROVE  Settled'
<1>. USE ThreadsAssumption DEF Settled, Settling, MonitorSteps, OneStarter, Typed, TypeOK, At, Goto,
       Finish, Threads, database, memory, process, locals
<1>1. CASE WakeGet(t)
  BY <1>1 DEF WakeGet
<1>2. CASE WipeGet(t)
  BY <1>2 DEF WipeGet
<1>3. CASE WipeFiles(t)
  BY <1>3 DEF WipeFiles
<1>4. CASE WipeRow(t)
  BY <1>4 DEF WipeRow
<1>5. CASE AutoGet(t)
  BY <1>5 DEF AutoGet
<1>6. CASE AutoReset(t)
  BY <1>6 DEF AutoReset
<1>7. CASE AutoWrite(t)
  BY <1>7 DEF AutoWrite
<1>. QED
  BY <1>1, <1>2, <1>3, <1>4, <1>5, <1>6, <1>7 DEF Housekeeping

\* The monitor and the crash handler, which ends with the recorded crash.
LEMMA MonitorSettled ==
  ASSUME OneStarter, Typed, Settled, NEW t \in Procs, PlainMonitor(t)
  PROVE  Settled'
<1>. USE ThreadsAssumption DEF Settled, Settling, MonitorSteps, OneStarter, Typed, TypeOK, At, Goto,
       Finish, Threads, database, memory, process, locals
<1>1. CASE ExitRest(t)
  BY <1>1 DEF ExitRest
<1>2. CASE ExitReset(t)
  BY <1>2 DEF ExitReset
<1>3. CASE CrashGet(t)
  <2>1. srv[t] \in Servers
    BY <1>3 DEF BusyHasServer, CrashGet
  <2>2. ~autoRestart[srv[t]]
    BY <2>1
  <2>. QED
    BY <1>3, <2>1, <2>2 DEF CrashGet
<1>4. CASE CrashMark(t)
  BY <1>4 DEF CrashMark
<1>5. CASE CrashRecord(t)
  BY <1>5 DEF CrashRecord, SetError
<1>6. CASE CrashNext(t)
  BY <1>6 DEF CrashNext
<1>7. CASE CrashGiveUp(t)
  BY <1>7 DEF CrashGiveUp
<1>8. CASE Backoff(t)
  BY <1>8 DEF Backoff
<1>. QED
  BY <1>1, <1>2, <1>3, <1>4, <1>5, <1>6, <1>7, <1>8 DEF PlainMonitor

\* The steps that touch a process.
LEMMA ProcessSettled ==
  ASSUME OneStarter, IInv, Settled, NEW p \in Procs,
         \/ \E t \in Callers : StartSpawn(t, p) \/ StartStore(t) \/ StopTimeout(t) \/ Locking(t)
         \/ JvmExit(p) \/ ExitWait(p) \/ ExitForget(p) \/ ExitJudge(p)
  PROVE  Settled'
<1>. USE ThreadsAssumption DEF Settled, Settling, MonitorSteps, OneStarter, IInv, Typed, TypeOK, At,
       Goto, Finish, Threads, database, memory, process, locals
<1>1. ASSUME NEW t \in Callers, StartSpawn(t, p) PROVE Settled'
  BY <1>1 DEF StartSpawn
<1>2. ASSUME NEW t \in Callers, StartStore(t) PROVE Settled'
  BY <1>2 DEF StartStore
<1>3. ASSUME NEW t \in Callers, StopTimeout(t) \/ Locking(t) PROVE Settled'
  BY <1>3 DEF StopTimeout, Locking, StopLock, ForceKill
<1>4. CASE JvmExit(p) \/ ExitWait(p) \/ ExitForget(p) \/ ExitJudge(p)
  BY <1>4 DEF JvmExit, ExitWait, ExitForget, ExitJudge
<1>. QED
  BY <1>1, <1>2, <1>3, <1>4

\* A request that is not to switch automatic restarts on, and a reboot.
LEMMA OutsideSettled ==
  ASSUME OneStarter, IInv, Settled,
         \/ \E c \in Callers, j \in Jobs, s \in Servers : Request(c, j, s)
         \/ Reboot
  PROVE  Settled'
<1>. USE ThreadsAssumption DEF Settled, Settling, OneStarter, IInv, Typed, TypeOK, Threads
<1>1. ASSUME NEW c \in Callers, NEW j \in Jobs, NEW s \in Servers, Request(c, j, s)
      PROVE  Settled'
  BY <1>1, JobsAssumption DEF Request, AllJobs, database
<1>2. CASE Reboot
  BY <1>2 DEF Reboot
<1>. QED
  BY <1>1, <1>2

LEMMA SettledStep ==
  ASSUME OneStarter, IInv, Settled, [Next]_vars
  PROVE  Settled'
<1>. USE DEF IInv
<1>1. CASE \E t \in Threads : StartServer(t)
  <2>1. PICK t \in Threads : StartServer(t)
    BY <1>1
  <2>2. t \in Callers
    BY <2>1 DEF StartServer, Threads, Settled, Settling, MonitorSteps, At, StartCount, StartGet,
                StartMark, StartSpawn, StartSpawnFails, StartFail, StartRefuse, StartRecord,
                StartStore, StartRunning, StartClear
  <2>3. CASE PlainStart(t)
    BY <2>2, <2>3, StartSettled
  <2>4. CASE StartStore(t)
    <3>1. held[t] \in Procs
      BY <2>4, <2>1 DEF Handover, StartStore, At
    <3>. QED
      BY <2>2, <2>4, <3>1, ProcessSettled
  <2>5. ASSUME NEW p \in Procs, StartSpawn(t, p) PROVE Settled'
    BY <2>2, <2>5, ProcessSettled
  <2>. QED
    BY <2>1, <2>3, <2>4, <2>5 DEF StartServer, PlainStart
<1>2. CASE \E c \in Callers : StopServer(c) \/ Locking(c) \/ Housekeeping(c)
  <2>1. PICK c \in Callers : StopServer(c) \/ Locking(c) \/ Housekeeping(c)
    BY <1>2
  <2>2. CASE PlainStop(c)
    BY <2>2, StopSettled
  <2>3. CASE Housekeeping(c)
    BY <2>3, HousekeepingSettled
  <2>4. CASE StopTimeout(c) \/ Locking(c)
    BY <2>4, ThreadsAssumption
       DEF Locking, StopTimeout, StopLock, ForceKill, Settled, Typed, TypeOK, At, Goto, Threads,
           database, locals
  <2>. QED
    BY <2>1, <2>2, <2>3, <2>4 DEF StopServer, PlainStop
<1>3. CASE \E p \in Procs : MonitorProcess(p) \/ ExitJudge(p) \/ JvmExit(p)
  <2>1. PICK p \in Procs : MonitorProcess(p) \/ ExitJudge(p) \/ JvmExit(p)
    BY <1>3
  <2>2. CASE PlainMonitor(p)
    BY <2>2, MonitorSettled
  <2>3. CASE JvmExit(p) \/ ExitWait(p) \/ ExitForget(p) \/ ExitJudge(p)
    BY <2>3, ProcessSettled
  <2>. QED
    BY <2>1, <2>2, <2>3 DEF MonitorProcess, PlainMonitor
<1>4. CASE UNCHANGED vars
  BY <1>4 DEF vars, database, locals, Settled
<1>. QED
  BY <1>1, <1>2, <1>3, <1>4, OutsideSettled DEF Next

\* With one caller and without automatic restarts, the limit on running servers is
\* kept outright, however monitors, crashes and reboots interleave with the caller.
THEOREM OneStarterKeepsLimit ==
  ASSUME IsFiniteSet(Servers), OneStarter
  PROVE  Spec => []RunningWithinLimit
<1>1. Init => Settled
  <2>. SUFFICES ASSUME Init PROVE Settled
    OBVIOUS
  <2>1. \A s \in Servers : ~autoRestart[s]
    BY DEF Init, OneStarter
  <2>2. \A t \in Threads : job[t] = "none" /\ pc[t] = "idle"
    BY DEF Init
  <2>. QED
    BY <2>1, <2>2 DEF Settled, Settling, Threads
<1>2. IInv /\ Settled /\ [Next]_vars => Settled'
  BY SettledStep
<1>3. Settled => StartsDoNotOverlap
  BY DEF Settled, Settling, MonitorSteps, OneStarter, StartsDoNotOverlap, Admitted, Threads
<1>. QED
  BY <1>1, <1>2, <1>3, Invariance, LimitIsKept, PTL DEF Spec

=============================================================================
