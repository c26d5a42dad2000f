------------------------------ MODULE Lifecycle ------------------------------
(***************************************************************************)
(* The server manager of RealmRunner: what starts, stops, watches, crashes *)
(* and restarts the JVM of each Minecraft server.                          *)
(*                                                                         *)
(* Every handler runs in a goroutine of its own and nothing serialises the *)
(* handlers of one server, so a handler is modelled as a thread with a     *)
(* program counter that takes one step per database call, per critical     *)
(* section and per wait.  There are two kinds of threads:                  *)
(*   - a caller runs one job at a time: a request of the API, a wake-up    *)
(*     from a sleep proxy, the idle watcher or a scheduled restart;        *)
(*   - each JVM brings its own goroutine: the monitor that waits for it,   *)
(*     judges its exit, and may sleep and start the server again.          *)
(* A thread of the second kind is named by the Process it belongs to.      *)
(***************************************************************************)
EXTENDS Naturals, FiniteSets

CONSTANTS
  Servers,      \* the rows of the servers table
  Callers,      \* the goroutines that run requests
  Procs,        \* the Process objects, reused once nothing refers to them
  None,         \* no process, no thread, no server
  MaxRunning,   \* REALMRUNNER_MAX_RUNNING
  MaxAttempts,  \* the number of restartDelays
  AutoSleep,    \* the servers whose port a sleep proxy holds
  AutoRestart,  \* the servers that begin with auto_restart set
  Jobs,         \* bound: the jobs callers may run in this instance
  LongUptime,   \* bound: whether a JVM may outlive stableUptime
  Reboots       \* bound: whether RealmRunner itself may die and come back

AllJobs == {"start", "stop", "force", "wake", "sleep", "restart", "wipe",
            "autoOn", "autoOff"}

ASSUME ThreadsAssumption ==
  /\ Callers \cap Procs = {}
  /\ None \notin Callers \cup Procs \cup Servers
ASSUME LimitsAssumption == MaxRunning \in Nat /\ MaxAttempts \in Nat
ASSUME JobsAssumption ==
  /\ Jobs \subseteq AllJobs
  /\ AutoSleep \subseteq Servers /\ AutoRestart \subseteq Servers
  /\ LongUptime \in BOOLEAN /\ Reboots \in BOOLEAN

Threads == Callers \cup Procs

VARIABLES
  \* the database and the disk
  status,        \* servers.status, or "gone" when the row is deleted
  autoRestart,   \* servers.auto_restart
  lastError,     \* servers.last_error, by kind
  jar,           \* whether the server's directory still holds server.jar
  \* the Manager
  processes,     \* Manager.processes
  attempts,      \* Manager.restarts.attempts
  \* one Process each
  jvm,           \* what became of the operating system's process
  signal,        \* the strongest request that reached it while it lived
  stopRequested, \* Process.stopRequested
  lock,          \* who holds Process.mu across a wait
  \* the goroutines
  pc, job, srv, held

database == <<status, autoRestart, lastError, jar>>
memory   == <<processes, attempts>>
process  == <<jvm, signal, stopRequested, lock>>
locals   == <<job, srv, held>>
vars     == <<database, memory, process, pc, locals>>

Statuses   == {"stopped", "starting", "running", "stopping", "crashed",
               "sleeping", "gone"}
StartSteps == {"startCount", "startGet", "startMark", "startSpawn",
               "startStore", "startRunning", "startClear", "startFail",
               "startRefuse", "startRecord"}
StopSteps  == {"stopGet", "stopMark", "stopFind", "stopLock", "stopPoll",
               "stopGrace", "stopForget", "stopRest", "forceGet",
               "forceFind", "forceKill", "sleepMark"}
MonitorSteps == {"launched", "watch", "exitForget", "exitJudge", "exitRest",
                 "exitReset"}
CrashSteps == {"crashGet", "crashMark", "crashRecord", "crashNext",
               "crashGiveUp", "backoff"}
OtherSteps == {"idle", "wakeGet", "wipeGet", "wipeFiles", "wipeRow",
               "autoGet", "autoReset", "autoWrite"}
Labels     == StartSteps \cup StopSteps \cup MonitorSteps \cup CrashSteps
                \cup OtherSteps

TypeOK ==
  /\ status \in [Servers -> Statuses]
  /\ autoRestart \in [Servers -> BOOLEAN]
  /\ lastError \in [Servers -> {"none", "exit", "gaveUp", "java"}]
  /\ jar \in [Servers -> BOOLEAN]
  /\ processes \in [Servers -> Procs \cup {None}]
  /\ attempts \in [Servers -> 0..MaxAttempts]
  /\ jvm \in [Procs -> {"alive", "exited", "reaped"}]
  /\ signal \in [Procs -> {"none", "stop", "kill"}]
  /\ stopRequested \in [Procs -> BOOLEAN]
  /\ lock \in [Procs -> Threads \cup {None}]
  /\ pc \in [Threads -> Labels]
  /\ job \in [Threads -> AllJobs \cup {"none", "monitor", "retry", "leave"}]
  /\ srv \in [Threads -> Servers \cup {None}]
  /\ held \in [Threads -> Procs \cup {None}]

-----------------------------------------------------------------------------
(* Moving a thread on, and the database calls that many handlers share.    *)

At(t, label)   == pc[t] = label
Goto(t, label) == pc' = [pc EXCEPT ![t] = label] /\ UNCHANGED locals

\* The goroutine's function returns; its locals are dropped.
Finish(t) ==
  /\ pc' = [pc EXCEPT ![t] = "idle"]
  /\ job' = [job EXCEPT ![t] = "none"]
  /\ srv' = [srv EXCEPT ![t] = None]
  /\ held' = [held EXCEPT ![t] = None]

HasRow(s) == status[s] # "gone"

\* An UPDATE of a row that was deleted changes nothing.
UpdateServerStatus(s, new) ==
  status' = IF HasRow(s) THEN [status EXCEPT ![s] = new] ELSE status
SetError(s, kind) ==
  lastError' = IF HasRow(s) THEN [lastError EXCEPT ![s] = kind] ELSE lastError

\* auto_sleep does not change here, so reading it and writing the status it
\* selects is one step.
RestingStatus(s) == IF s \in AutoSleep THEN "sleeping" ELSE "stopped"

CountRunningServers == Cardinality({s \in Servers : status[s] = "running"})

\* Nothing refers to the Process any more: its memory may be used again.
Free(p) ==
  /\ At(p, "idle") /\ jvm[p] = "reaped"
  /\ \A t \in Threads : held[t] # p
  /\ \A s \in Servers : processes[s] # p

-----------------------------------------------------------------------------
(* StartServer: an API start, a wake, a scheduled restart or the backoff.  *)

\* Mutated form: one server too many.
StartCountOffByOne(t) ==
  /\ At(t, "startCount")
  /\ IF CountRunningServers > MaxRunning THEN Finish(t) ELSE Goto(t, "startGet")
  /\ UNCHANGED <<database, memory, process>>

StartCount(t) ==
  /\ At(t, "startCount")
  /\ IF CountRunningServers >= MaxRunning THEN Finish(t) ELSE Goto(t, "startGet")
  /\ UNCHANGED <<database, memory, process>>

StartGet(t) ==
  /\ At(t, "startGet")
  /\ IF status[srv[t]] \in {"gone", "running"} THEN Finish(t) ELSE Goto(t, "startMark")
  /\ UNCHANGED <<database, memory, process>>

StartMark(t) ==
  /\ At(t, "startMark")
  /\ UpdateServerStatus(srv[t], "starting")
  /\ Goto(t, "startSpawn")
  /\ UNCHANGED <<autoRestart, lastError, jar, memory, process>>

\* StartProcess has launched the JVM as process p.
StartSpawn(t, p) ==
  /\ At(t, "startSpawn")
  /\ jar[srv[t]] /\ Free(p)
  /\ jvm' = [jvm EXCEPT ![p] = "alive"]
  /\ signal' = [signal EXCEPT ![p] = "none"]
  /\ stopRequested' = [stopRequested EXCEPT ![p] = FALSE]
  /\ pc' = [pc EXCEPT ![t] = "startStore", ![p] = "launched"]
  /\ srv' = [srv EXCEPT ![p] = srv[t]]
  /\ job' = [job EXCEPT ![p] = "monitor"]
  /\ held' = [held EXCEPT ![t] = p]
  /\ UNCHANGED <<database, memory, lock>>

\* No Java runtime is new enough, the control channel cannot be configured, the
\* jar is missing or the launch fails.
StartSpawnFails(t) ==
  /\ At(t, "startSpawn")
  /\ \E label \in {"startFail", "startRefuse"} : Goto(t, label)
  /\ UNCHANGED <<database, memory, process>>

StartFail(t) ==
  /\ At(t, "startFail")
  /\ UpdateServerStatus(srv[t], RestingStatus(srv[t]))
  /\ Finish(t)
  /\ UNCHANGED <<autoRestart, lastError, jar, memory, process>>

\* preflightJava refused: the reason is recorded after the status.
StartRefuse(t) ==
  /\ At(t, "startRefuse")
  /\ UpdateServerStatus(srv[t], RestingStatus(srv[t]))
  /\ Goto(t, "startRecord")
  /\ UNCHANGED <<autoRestart, lastError, jar, memory, process>>

StartRecord(t) ==
  /\ At(t, "startRecord")
  /\ SetError(srv[t], "java")
  /\ Finish(t)
  /\ UNCHANGED <<status, autoRestart, jar, memory, process>>

\* Mutated form: the monitor is never started.
StartStoreUnwatched(t) ==
  /\ At(t, "startStore")
  /\ processes' = [processes EXCEPT ![srv[t]] = held[t]]
  /\ Goto(t, "startRunning")
  /\ UNCHANGED <<database, attempts, process>>

\* The process is stored under Manager.mu, then its monitor is started.
StartStore(t) ==
  /\ At(t, "startStore")
  /\ processes' = [processes EXCEPT ![srv[t]] = held[t]]
  /\ pc' = [pc EXCEPT ![t] = "startRunning", ![held[t]] = "watch"]
  /\ UNCHANGED <<database, attempts, process, locals>>

StartRunning(t) ==
  /\ At(t, "startRunning")
  /\ UpdateServerStatus(srv[t], "running")
  /\ Goto(t, "startClear")
  /\ UNCHANGED <<autoRestart, lastError, jar, memory, process>>

StartClear(t) ==
  /\ At(t, "startClear")
  /\ SetError(srv[t], "none")
  /\ Finish(t)
  /\ UNCHANGED <<status, autoRestart, jar, memory, process>>

-----------------------------------------------------------------------------
(* The JVM, and the monitor that waits for it.                             *)

\* The JVM crashes, obeys "stop" or dies of SIGKILL.
JvmExit(p) ==
  /\ jvm[p] = "alive"
  /\ jvm' = [jvm EXCEPT ![p] = "exited"]
  /\ UNCHANGED <<database, memory, signal, stopRequested, lock, pc, locals>>

\* cmd.Wait returns; from here on signal 0 fails.
ExitWait(p) ==
  /\ At(p, "watch") /\ jvm[p] = "exited"
  /\ jvm' = [jvm EXCEPT ![p] = "reaped"]
  /\ Goto(p, "exitForget")
  /\ UNCHANGED <<database, memory, signal, stopRequested, lock>>

\* Mutated form: the entry is left for the stop that asked for the exit.
ExitForgetCrashesOnly(p) ==
  /\ At(p, "exitForget")
  /\ processes' = IF stopRequested[p] THEN processes
                  ELSE [processes EXCEPT ![srv[p]] = None]
  /\ Goto(p, "exitJudge")
  /\ UNCHANGED <<database, attempts, process>>

\* delete(m.processes, id), whichever process the entry names by now.
ExitForget(p) ==
  /\ At(p, "exitForget")
  /\ processes' = [processes EXCEPT ![srv[p]] = None]
  /\ Goto(p, "exitJudge")
  /\ UNCHANGED <<database, attempts, process>>

\* Mutated form: every exit earns a clean slate.
ExitJudgeForgiving(p) ==
  /\ At(p, "exitJudge") /\ lock[p] = None
  /\ Goto(p, IF stopRequested[p] THEN "exitRest" ELSE "crashGet")
  /\ attempts' = [attempts EXCEPT ![srv[p]] = 0]
  /\ UNCHANGED <<database, processes, process>>

\* StopRequested needs Process.mu, which Stop holds until the JVM is gone.
ExitJudge(p) ==
  /\ At(p, "exitJudge") /\ lock[p] = None
  /\ IF stopRequested[p]
     THEN Goto(p, "exitRest") /\ UNCHANGED attempts
     ELSE /\ Goto(p, "crashGet")
          /\ \/ UNCHANGED attempts
             \/ LongUptime /\ attempts' = [attempts EXCEPT ![srv[p]] = 0]
  /\ UNCHANGED <<database, processes, process>>

ExitRest(p) ==
  /\ At(p, "exitRest")
  /\ UpdateServerStatus(srv[p], RestingStatus(srv[p]))
  /\ Goto(p, "exitReset")
  /\ UNCHANGED <<autoRestart, lastError, jar, memory, process>>

ExitReset(p) ==
  /\ At(p, "exitReset")
  /\ attempts' = [attempts EXCEPT ![srv[p]] = 0]
  /\ Finish(p)
  /\ UNCHANGED <<database, processes, process>>

-----------------------------------------------------------------------------
(* handleCrash, in the monitor's goroutine, and the restart it schedules.  *)

\* The row is read once; its auto_restart decides later, whatever it is then.
CrashGet(p) ==
  /\ At(p, "crashGet")
  /\ IF HasRow(srv[p])
     THEN /\ pc' = [pc EXCEPT ![p] = "crashMark"]
          /\ job' = [job EXCEPT ![p] = IF autoRestart[srv[p]] THEN "retry" ELSE "leave"]
          /\ UNCHANGED <<srv, held>>
     ELSE Finish(p)
  /\ UNCHANGED <<database, memory, process>>

CrashMark(p) ==
  /\ At(p, "crashMark")
  /\ UpdateServerStatus(srv[p], "crashed")
  /\ Goto(p, "crashRecord")
  /\ UNCHANGED <<autoRestart, lastError, jar, memory, process>>

CrashRecord(p) ==
  /\ At(p, "crashRecord")
  /\ SetError(srv[p], "exit")
  /\ IF job[p] = "retry" THEN Goto(p, "crashNext") ELSE Finish(p)
  /\ UNCHANGED <<status, autoRestart, jar, memory, process>>

\* Mutated form: one restart too many.
CrashNextOffByOne(p) ==
  /\ At(p, "crashNext")
  /\ IF attempts[srv[p]] > MaxAttempts
     THEN Goto(p, "crashGiveUp") /\ UNCHANGED attempts
     ELSE /\ attempts' = [attempts EXCEPT ![srv[p]] = @ + 1]
          /\ Goto(p, "backoff")
  /\ UNCHANGED <<database, processes, process>>

\* restartTracker.next
CrashNext(p) ==
  /\ At(p, "crashNext")
  /\ IF attempts[srv[p]] >= MaxAttempts
     THEN Goto(p, "crashGiveUp") /\ UNCHANGED attempts
     ELSE /\ attempts' = [attempts EXCEPT ![srv[p]] = @ + 1]
          /\ Goto(p, "backoff")
  /\ UNCHANGED <<database, processes, process>>

CrashGiveUp(p) ==
  /\ At(p, "crashGiveUp")
  /\ SetError(srv[p], "gaveUp")
  /\ Finish(p)
  /\ UNCHANGED <<status, autoRestart, jar, memory, process>>

\* The delay is over: start the server if it is still crashed.
Backoff(p) ==
  /\ At(p, "backoff")
  /\ IF status[srv[p]] = "crashed" THEN Goto(p, "startCount") ELSE Finish(p)
  /\ UNCHANGED <<database, memory, process>>

-----------------------------------------------------------------------------
(* StopServer, ForceStopServer and Sleep.                                  *)

StopGet(t) ==
  /\ At(t, "stopGet")
  /\ IF status[srv[t]] \in {"running", "starting"} THEN Goto(t, "stopMark") ELSE Finish(t)
  /\ UNCHANGED <<database, memory, process>>

StopMark(t) ==
  /\ At(t, "stopMark")
  /\ UpdateServerStatus(srv[t], "stopping")
  /\ Goto(t, "stopFind")
  /\ UNCHANGED <<autoRestart, lastError, jar, memory, process>>

\* Look the process up; go straight to the status when there is none.
Find(t, found) ==
  /\ held' = [held EXCEPT ![t] = processes[srv[t]]]
  /\ pc' = [pc EXCEPT ![t] = IF processes[srv[t]] = None THEN "stopRest" ELSE found]
  /\ UNCHANGED <<database, memory, process, job, srv>>

StopFind(t) == At(t, "stopFind") /\ Find(t, "stopLock")

\* A request reaches the JVM only while it lives; a kill outranks a stop.
Signalled(p, request) ==
  IF jvm[p] = "alive" /\ signal[p] # "kill" THEN [signal EXCEPT ![p] = request] ELSE signal

\* Mutated form: the flag is not raised.
StopLockUnflagged(t) ==
  /\ At(t, "stopLock") /\ lock[held[t]] = None
  /\ lock' = [lock EXCEPT ![held[t]] = t]
  /\ signal' = Signalled(held[t], "stop")
  /\ Goto(t, "stopPoll")
  /\ UNCHANGED <<database, memory, jvm, stopRequested>>

\* Process.Stop takes the lock, raises the flag and writes "stop" to stdin.
StopLock(t) ==
  /\ At(t, "stopLock") /\ lock[held[t]] = None
  /\ lock' = [lock EXCEPT ![held[t]] = t]
  /\ stopRequested' = [stopRequested EXCEPT ![held[t]] = TRUE]
  /\ signal' = Signalled(held[t], "stop")
  /\ Goto(t, "stopPoll")
  /\ UNCHANGED <<database, memory, jvm>>

\* Signal 0 failed: the JVM has been reaped.
StopGone(t) ==
  /\ At(t, "stopPoll") /\ jvm[held[t]] = "reaped"
  /\ lock' = [lock EXCEPT ![held[t]] = None]
  /\ Goto(t, "stopForget")
  /\ UNCHANGED <<database, memory, jvm, signal, stopRequested>>

\* Mutated form: the poll has no limit.
StopPollsForever(t) == At(t, "stopPoll") /\ FALSE /\ UNCHANGED vars

\* 30 seconds of polling are over.
StopTimeout(t) ==
  /\ At(t, "stopPoll") /\ jvm[held[t]] # "reaped"
  /\ signal' = Signalled(held[t], "kill")
  /\ Goto(t, "stopGrace")
  /\ UNCHANGED <<database, memory, jvm, stopRequested, lock>>

\* Mutated form: the lock is released on the early return only.
StopGraceLocked(t) ==
  /\ At(t, "stopGrace")
  /\ Goto(t, "stopForget")
  /\ UNCHANGED <<database, memory, process>>

\* One more second, and Stop returns whether or not the JVM is gone.
StopGrace(t) ==
  /\ At(t, "stopGrace")
  /\ lock' = [lock EXCEPT ![held[t]] = None]
  /\ Goto(t, "stopForget")
  /\ UNCHANGED <<database, memory, jvm, signal, stopRequested>>

StopForget(t) ==
  /\ At(t, "stopForget")
  /\ processes' = [processes EXCEPT ![srv[t]] = None]
  /\ pc' = [pc EXCEPT ![t] = "stopRest"]
  /\ held' = [held EXCEPT ![t] = None]
  /\ UNCHANGED <<database, attempts, process, job, srv>>

\* The end of a stop: Sleep writes the status once more, a scheduled restart
\* goes on to StartServer.
StopRest(t) ==
  /\ At(t, "stopRest")
  /\ UpdateServerStatus(srv[t], RestingStatus(srv[t]))
  /\ \/ job[t] = "sleep" /\ Goto(t, "sleepMark")
     \/ job[t] = "restart" /\ Goto(t, "startCount")
     \/ job[t] \notin {"sleep", "restart"} /\ Finish(t)
  /\ UNCHANGED <<autoRestart, lastError, jar, memory, process>>

SleepMark(t) ==
  /\ At(t, "sleepMark")
  /\ UpdateServerStatus(srv[t], "sleeping")
  /\ Finish(t)
  /\ UNCHANGED <<autoRestart, lastError, jar, memory, process>>

ForceGet(t) ==
  /\ At(t, "forceGet")
  /\ IF status[srv[t]] \in {"running", "starting", "stopping"}
     THEN Goto(t, "forceFind") ELSE Finish(t)
  /\ UNCHANGED <<database, memory, process>>

ForceFind(t) == At(t, "forceFind") /\ Find(t, "forceKill")

\* Mutated form: the flag is not raised.
ForceKillUnflagged(t) ==
  /\ At(t, "forceKill") /\ lock[held[t]] = None
  /\ signal' = Signalled(held[t], "kill")
  /\ Goto(t, "stopForget")
  /\ UNCHANGED <<database, memory, jvm, stopRequested, lock>>

\* Process.ForceKill: the signal is sent, nothing waits for the exit.
ForceKill(t) ==
  /\ At(t, "forceKill") /\ lock[held[t]] = None
  /\ stopRequested' = [stopRequested EXCEPT ![held[t]] = TRUE]
  /\ signal' = Signalled(held[t], "kill")
  /\ Goto(t, "stopForget")
  /\ UNCHANGED <<database, memory, jvm, lock>>

-----------------------------------------------------------------------------
(* wake, WipeoutServer and SetAutoRestart.                                 *)

WakeGet(t) ==
  /\ At(t, "wakeGet")
  /\ IF status[srv[t]] \in {"gone", "running", "starting"}
     THEN Finish(t) ELSE Goto(t, "startCount")
  /\ UNCHANGED <<database, memory, process>>

WipeGet(t) ==
  /\ At(t, "wipeGet")
  /\ IF status[srv[t]] \in {"gone", "running"} THEN Finish(t) ELSE Goto(t, "wipeFiles")
  /\ UNCHANGED <<database, memory, process>>

WipeFiles(t) ==
  /\ At(t, "wipeFiles")
  /\ jar' = [jar EXCEPT ![srv[t]] = FALSE]
  /\ Goto(t, "wipeRow")
  /\ UNCHANGED <<status, autoRestart, lastError, memory, process>>

WipeRow(t) ==
  /\ At(t, "wipeRow")
  /\ status' = [status EXCEPT ![srv[t]] = "gone"]
  /\ Finish(t)
  /\ UNCHANGED <<autoRestart, lastError, jar, memory, process>>

AutoGet(t) ==
  /\ At(t, "autoGet")
  /\ IF HasRow(srv[t]) THEN Goto(t, "autoReset") ELSE Finish(t)
  /\ UNCHANGED <<database, memory, process>>

AutoReset(t) ==
  /\ At(t, "autoReset")
  /\ attempts' = [attempts EXCEPT ![srv[t]] = 0]
  /\ Goto(t, "autoWrite")
  /\ UNCHANGED <<database, processes, process>>

AutoWrite(t) ==
  /\ At(t, "autoWrite")
  /\ autoRestart' = IF HasRow(srv[t])
                    THEN [autoRestart EXCEPT ![srv[t]] = (job[t] = "autoOn")]
                    ELSE autoRestart
  /\ Finish(t)
  /\ UNCHANGED <<status, lastError, jar, memory, process>>

-----------------------------------------------------------------------------
(* Callers pick up jobs; RealmRunner dies and comes back.                  *)

Entry(j) ==
  CASE j = "start"                       -> "startCount"
    [] j \in {"stop", "sleep", "restart"} -> "stopGet"
    [] j = "force"                       -> "forceGet"
    [] j = "wake"                        -> "wakeGet"
    [] j = "wipe"                        -> "wipeGet"
    [] j \in {"autoOn", "autoOff"}        -> "autoGet"

\* Sleep returns at once unless auto-sleep is on.
Request(c, j, s) ==
  /\ At(c, "idle")
  /\ j = "sleep" => s \in AutoSleep
  /\ pc' = [pc EXCEPT ![c] = Entry(j)]
  /\ job' = [job EXCEPT ![c] = j]
  /\ srv' = [srv EXCEPT ![c] = s]
  /\ UNCHANGED <<database, memory, process, held>>

\* Mutated form: a stop the reboot cut short is overlooked.
CleanStatusPartly(s, bound) ==
  LET settled == IF status[s] \in {"running", "starting"} THEN "stopped" ELSE status[s]
  IN  IF settled = "stopped" /\ s \in bound THEN "sleeping" ELSE settled

\* The JVMs do not survive the container.  cleanupOrphanedStatuses settles the
\* rows, and StartSleepProxies puts a server whose port it could bind to sleep.
CleanStatus(s, bound) ==
  LET settled == IF status[s] \in {"running", "starting", "stopping"}
                 THEN "stopped" ELSE status[s]
  IN  IF settled = "stopped" /\ s \in bound THEN "sleeping" ELSE settled

Reboot ==
  /\ Reboots
  /\ \E bound \in SUBSET AutoSleep :
       status' = [s \in Servers |-> CleanStatus(s, bound)]
  /\ processes' = [s \in Servers |-> None]
  /\ attempts' = [s \in Servers |-> 0]
  /\ jvm' = [p \in Procs |-> "reaped"]
  /\ signal' = [p \in Procs |-> "none"]
  /\ stopRequested' = [p \in Procs |-> FALSE]
  /\ lock' = [p \in Procs |-> None]
  /\ pc' = [t \in Threads |-> "idle"]
  /\ job' = [t \in Threads |-> "none"]
  /\ srv' = [t \in Threads |-> None]
  /\ held' = [t \in Threads |-> None]
  /\ UNCHANGED <<autoRestart, lastError, jar>>

Init ==
  /\ status = [s \in Servers |-> RestingStatus(s)]
  /\ autoRestart = [s \in Servers |-> s \in AutoRestart]
  /\ lastError = [s \in Servers |-> "none"]
  /\ jar = [s \in Servers |-> TRUE]
  /\ processes = [s \in Servers |-> None]
  /\ attempts = [s \in Servers |-> 0]
  /\ jvm = [p \in Procs |-> "reaped"]
  /\ signal = [p \in Procs |-> "none"]
  /\ stopRequested = [p \in Procs |-> FALSE]
  /\ lock = [p \in Procs |-> None]
  /\ pc = [t \in Threads |-> "idle"]
  /\ job = [t \in Threads |-> "none"]
  /\ srv = [t \in Threads |-> None]
  /\ held = [t \in Threads |-> None]

StartServer(t) ==
  \/ StartCount(t) \/ StartGet(t) \/ StartMark(t)
  \/ \E p \in Procs : StartSpawn(t, p)
  \/ StartSpawnFails(t) \/ StartFail(t) \/ StartRefuse(t) \/ StartRecord(t)
  \/ StartStore(t) \/ StartRunning(t) \/ StartClear(t)

\* The steps that wait for Process.mu.
Locking(t) == StopLock(t) \/ ForceKill(t)

StopServer(t) ==
  \/ StopGet(t) \/ StopMark(t) \/ StopFind(t) \/ StopGone(t) \/ StopTimeout(t)
  \/ StopGrace(t) \/ StopForget(t) \/ StopRest(t) \/ SleepMark(t)
  \/ ForceGet(t) \/ ForceFind(t)

Housekeeping(t) ==
  \/ WakeGet(t) \/ WipeGet(t) \/ WipeFiles(t) \/ WipeRow(t)
  \/ AutoGet(t) \/ AutoReset(t) \/ AutoWrite(t)

MonitorProcess(p) ==
  \/ ExitWait(p) \/ ExitForget(p) \/ ExitRest(p) \/ ExitReset(p)
  \/ CrashGet(p) \/ CrashMark(p) \/ CrashRecord(p) \/ CrashNext(p)
  \/ CrashGiveUp(p) \/ Backoff(p)

Next ==
  \/ \E t \in Threads : StartServer(t)
  \/ \E c \in Callers : StopServer(c) \/ Locking(c) \/ Housekeeping(c)
  \/ \E p \in Procs : MonitorProcess(p) \/ ExitJudge(p) \/ JvmExit(p)
  \/ \E c \in Callers, j \in Jobs, s \in Servers : Request(c, j, s)
  \/ Reboot

Spec == Init /\ [][Next]_vars

-----------------------------------------------------------------------------
(* Fairness.  A goroutine that can take a step takes it: Go runs every     *)
(* runnable goroutine, sleeps and the 30 s poll end.  A mutex in starvation *)
(* mode is handed over in order, so a waiter that could often have it gets  *)
(* it.  SIGKILL ends a JVM; nothing else is assumed to.                    *)

Fairness ==
  /\ \A t \in Threads : WF_vars(StartServer(t))
  /\ \A c \in Callers : /\ WF_vars(StopServer(c))
                        /\ WF_vars(Housekeeping(c))
                        /\ SF_vars(Locking(c))
  /\ \A p \in Procs : /\ WF_vars(MonitorProcess(p))
                      /\ SF_vars(ExitJudge(p))
                      /\ WF_vars(signal[p] = "kill" /\ JvmExit(p))

FairSpec == Spec /\ Fairness

-----------------------------------------------------------------------------
(* Safety.                                                                 *)

StartTail == {"startSpawn", "startStore", "startRunning", "startFail",
              "startRefuse"}
StopTail  == {"stopFind", "stopLock", "stopPoll", "stopGrace", "stopForget",
              "stopRest"}

\* "starting" and "stopping" are never left behind: whatever early return or
\* failure a handler takes, and whatever interleaves with it, some handler that
\* will still overwrite the status is at work on that server.  A reboot, which
\* kills every handler, settles the status itself.
TransitionalOwned ==
  \A s \in Servers :
    /\ status[s] = "starting" => \E t \in Threads : srv[t] = s /\ pc[t] \in StartTail
    /\ status[s] = "stopping" => \E t \in Threads : srv[t] = s /\ pc[t] \in StopTail

\* A JVM that RealmRunner itself told to stop, or killed, is never treated as
\* crashed by its monitor, however stop, kill, exit and monitor interleave.
AskedIsNoCrash ==
  \A p \in Procs : pc[p] \in CrashSteps => signal[p] = "none"

\* Manager.processes never names a process whose monitor has already cleaned
\* up, so a stop never waits for, or talks to, a process nobody will ever reap.
NoStaleHandle ==
  \A s \in Servers : processes[s] # None =>
    /\ srv[processes[s]] = s
    /\ pc[processes[s]] \in {"watch", "exitForget"}

\* Every JVM that has not been reaped is waited for by its monitor, or is about
\* to get one from the start that launched it: no zombies.
EveryJvmWatched ==
  \A p \in Procs : jvm[p] # "reaped" =>
    \/ pc[p] = "watch"
    \/ \E t \in Threads : held[t] = p /\ pc[t] = "startStore"

\* At most MaxRunning servers have status running.
RunningWithinLimit == CountRunningServers <= MaxRunning

-----------------------------------------------------------------------------
(* Liveness.                                                               *)

\* Every stop, forced stop and sleep returns, even when the JVM ignores "stop"
\* and others hold Process.mu.
StopReturns ==
  \A c \in Callers : (pc[c] \in StopSteps) ~> (pc[c] \notin StopSteps)

\* The exit of a JVM is always dealt with to the end: its goroutine is not
\* stuck behind a stop that holds Process.mu, and any restart it owes is tried.
ExitIsHandled ==
  \A p \in Procs : (jvm[p] = "exited") ~> (pc[p] = "idle")

\* A server that keeps dying is left alone in the end: when no JVM reaches
\* stableUptime and the callers have nothing left to do, restarts stop.
LeftAlone ==
  (<>[](\A c \in Callers : pc[c] = "idle")) => <>[](\A p \in Procs : pc[p] \notin {"backoff", "launched"})

-----------------------------------------------------------------------------
(* Lifecycle implements ProcessOutcome: the judgement is the branch the    *)
(* monitor has taken.                                                      *)

Life(p) ==
  IF jvm[p] = "alive" THEN "up" ELSE IF pc[p] = "idle" THEN "none" ELSE "down"
Asked(p) == Life(p) # "none" /\ signal[p] # "none"
Verdict(p) ==
  IF pc[p] \in {"exitRest", "exitReset"} THEN "stopped"
  ELSE IF pc[p] \in CrashSteps \cup StartSteps THEN "crashed" ELSE "none"

Outcome == INSTANCE ProcessOutcome WITH
  life    <- [p \in Procs |-> Life(p)],
  asked   <- [p \in Procs |-> Asked(p)],
  verdict <- [p \in Procs |-> Verdict(p)]

\* Only a reboot may lose a JVM.
StepIsOutcome == IF Reboot THEN Outcome!Lose ELSE [Outcome!Promised]_(Outcome!vars)

\* Every JVM ends at most once, its end is judged at most once before its Process is
\* forgotten, and an end that RealmRunner asked for, by stop or by kill, is never
\* judged a crash.
JudgesOutcome == Outcome!Init /\ [][StepIsOutcome]_vars

-----------------------------------------------------------------------------
(* What the repository says of this code, and what it does not keep.       *)

\* proxy.go: a wake is safe while the server is already starting; so however
\* many players knock, a server has one JVM.
OneJvmPerServer ==
  \A s \in Servers : Cardinality({p \in Procs : jvm[p] = "alive" /\ srv[p] = s}) <= 1

\* manager.go: the resting status is the status of a server that is not
\* running.  So with no handler at work, a resting server has no live JVM.
RestingHasNoJvm ==
  \A s \in Servers :
    status[s] = RestingStatus(s) /\ (\A c \in Callers : srv[c] # s)
      => \A p \in Procs : srv[p] = s => jvm[p] # "alive" \/ signal[p] # "none"

=============================================================================
