------------------------------- MODULE AutoSleep -------------------------------
(***************************************************************************)
(* Auto-sleep of one server.  While it is on, a sleep proxy holds the      *)
(* server's public port and the JVM listens on an internal one: a login at *)
(* the sleeping server wakes it, the idle watcher puts it back to sleep.   *)
(*                                                                         *)
(* Threads: the operator (one request of the API at a time, and the boot), *)
(* the idle watcher, and one goroutine of the proxy per player's           *)
(* connection.  Each database call, critical section and socket call is a  *)
(* step.  Lifecycle has the steps of a process's end; here its monitor is  *)
(* one step, crash restarts are off, and Stop does not outlast its poll.   *)
(***************************************************************************)
EXTENDS Naturals

CONSTANTS
  Players,      \* the connections players may hold open at a time
  Proxies,      \* Proxy objects, reused once nothing refers to them
  Procs,        \* Process objects, likewise
  Operator, Watcher, None,
  Jobs,         \* bound: the requests the operator makes
  Reboots       \* bound: whether RealmRunner may die and come back

ASSUME ThreadsAssumption ==
  /\ Operator # Watcher
  /\ {Operator, Watcher, None} \cap (Players \cup Proxies \cup Procs) = {}
ASSUME JobsAssumption ==
  /\ Jobs \subseteq {"start", "wake", "stop", "on", "off"}
  /\ Reboots \in BOOLEAN

VARIABLES
  status, autoSleep,  \* the row of the servers table
  serverPort,         \* server-port in server.properties
  proxies,            \* the server's entry in Manager.proxies
  process,            \* its entry in Manager.processes
  emptySince,         \* whether the watcher has marked it empty
  open,               \* the Proxies whose listener accepts
  jvm,                \* what became of each Process, and the port it bound
  stopRequested,      \* Process.stopRequested
  pc, job,            \* the threads: where they are and what for,
  row,                \*   the row they read,
  px,                 \*   the Proxy they serve, bind or close,
  proc                \*   the Process they launch, stop or are piped to

server == <<status, autoSleep, serverPort, proxies, process, emptySince>>
world  == <<open, jvm, stopRequested>>
locals == <<job, row, px, proc>>
vars   == <<server, world, pc, locals>>

Threads  == Players \cup {Operator, Watcher}
Statuses == {"stopped", "starting", "running", "stopping", "crashed", "sleeping"}
Ports    == {"public", "internal"}
NoRow    == [status |-> "stopped", autoSleep |-> FALSE]
Dialling == {"wakeGet", "startGet", "startMark", "config", "startSpawn",
             "startStore", "startRunning", "startRest", "dialCheck", "dialTry"}
Counted  == {"hello", "dialOnce", "playing"} \cup Dialling
Steps    == {"idle", "accepted", "stopGet", "stopMark", "stopAsk", "stopWait",
             "stopRest", "sleepGet", "sleepMark", "idleAsk", "idleClear",
             "toggleGet", "toggleWrite", "toggleRest", "toggleUndo", "offTake",
             "offClose", "offWait", "proxyLook", "proxyBind", "proxyStore"}
              \cup Counted

ServerTypes ==
  /\ status \in Statuses /\ autoSleep \in BOOLEAN /\ serverPort \in Ports
  /\ proxies \in Proxies \cup {None} /\ process \in Procs \cup {None}
  /\ emptySince \in BOOLEAN
  /\ open \subseteq Proxies
  /\ jvm \in [Procs -> {"none", "boot", "dead"} \cup Ports]
  /\ stopRequested \in [Procs -> BOOLEAN]

\* A step that needs an object has one: no handler goes on without a proxy or a
\* process it must close, store or wait for (stopSleepProxy, StopServer).
ThreadTypes ==
  /\ pc \in [Threads -> Steps]
  /\ job \in [Threads -> Jobs \cup {"none", "boot", "sleep", "join"}]
  /\ row \in [Threads -> [status : Statuses, autoSleep : BOOLEAN]]
  /\ px \in [Threads -> Proxies \cup {None}]
  /\ proc \in [Threads -> Procs \cup {None}]
  /\ \A t \in Threads :
       /\ pc[t] \in {"accepted", "offClose", "offWait", "proxyStore"} => px[t] # None
       /\ pc[t] \in {"stopWait", "startStore", "playing"} => proc[t] # None

TypeOK == ServerTypes /\ ThreadTypes

-----------------------------------------------------------------------------

At(t, step)   == pc[t] = step
Goto(t, step) == pc' = [pc EXCEPT ![t] = step] /\ UNCHANGED locals

Finish(t) ==
  /\ pc' = [pc EXCEPT ![t] = "idle"]
  /\ job' = [job EXCEPT ![t] = "none"]
  /\ row' = [row EXCEPT ![t] = NoRow]
  /\ px' = [px EXCEPT ![t] = None]
  /\ proc' = [proc EXCEPT ![t] = None]

Write(new) ==
  status' = new /\ UNCHANGED <<autoSleep, serverPort, proxies, process, emptySince>>

RestingStatus == IF autoSleep THEN "sleeping" ELSE "stopped"
Alive(p)      == jvm[p] \in {"boot"} \cup Ports
Serving(port) == {p \in Procs : jvm[p] = port}
Idle(object)  == \A t \in Threads : object \notin {px[t], proc[t]}

-----------------------------------------------------------------------------
(* wake and StartServer, called by the operator and by a login.            *)

WakeGet(t) ==
  /\ At(t, "wakeGet")
  /\ IF status \notin {"running", "starting"} THEN Goto(t, "startGet")
     ELSE IF t \in Players THEN Goto(t, "dialCheck") ELSE Finish(t)
  /\ UNCHANGED <<server, world>>

\* The limit counts running servers, and the only server is refused for that
\* itself.  The row read here decides the port.
StartGet(t) ==
  /\ At(t, "startGet")
  /\ IF status = "running" THEN Finish(t)
     ELSE /\ pc' = [pc EXCEPT ![t] = "startMark"]
          /\ row' = [row EXCEPT ![t].autoSleep = autoSleep]
          /\ UNCHANGED <<job, px, proc>>
  /\ UNCHANGED <<server, world>>

StartMark(t) ==
  /\ At(t, "startMark") /\ Write("starting")
  /\ Goto(t, "config") /\ UNCHANGED world

\* ensureControlConfig, for the start and at the end of SetAutoSleep: the port
\* follows the row as the caller read it.
EnsureControlConfig(t) ==
  /\ At(t, "config")
  /\ serverPort' = IF row[t].autoSleep THEN "internal" ELSE "public"
  /\ IF job[t] \in {"on", "off"} THEN Finish(t)
     ELSE /\ pc' = [pc EXCEPT ![t] = "startSpawn"]
          /\ row' = [row EXCEPT ![t] = NoRow]
          /\ UNCHANGED <<job, px, proc>>
  /\ UNCHANGED <<status, autoSleep, proxies, process, emptySince, world>>

EnsureControlConfigFails(t) ==
  /\ At(t, "config")
  /\ IF job[t] \in {"on", "off"} THEN Finish(t) ELSE Goto(t, "startRest")
  /\ UNCHANGED <<server, world>>

StartSpawn(t, p) ==
  /\ At(t, "startSpawn")
  /\ jvm[p] = "none" /\ p # process /\ Idle(p)
  /\ jvm' = [jvm EXCEPT ![p] = "boot"]
  /\ proc' = [proc EXCEPT ![t] = p]
  /\ pc' = [pc EXCEPT ![t] = "startStore"]
  /\ UNCHANGED <<server, open, stopRequested, job, row, px>>

StartSpawnFails(t) ==
  /\ At(t, "startSpawn") /\ Goto(t, "startRest")
  /\ UNCHANGED <<server, world>>

StartRest(t) ==
  /\ At(t, "startRest") /\ Write(RestingStatus)
  /\ Finish(t) /\ UNCHANGED world

StartStore(t) ==
  /\ At(t, "startStore")
  /\ process' = proc[t]
  /\ pc' = [pc EXCEPT ![t] = "startRunning"]
  /\ proc' = [proc EXCEPT ![t] = None]
  /\ UNCHANGED <<status, autoSleep, serverPort, proxies, emptySince, world, job, row, px>>

StartRunning(t) ==
  /\ At(t, "startRunning") /\ Write("running")
  /\ IF t \in Players THEN Goto(t, "dialCheck") ELSE Finish(t)
  /\ UNCHANGED world

StartServer(t) ==
  \/ WakeGet(t) \/ StartGet(t) \/ StartMark(t)
  \/ EnsureControlConfig(t) \/ EnsureControlConfigFails(t)
  \/ StartSpawnFails(t) \/ StartRest(t) \/ StartStore(t) \/ StartRunning(t)
  \/ \E p \in Procs : StartSpawn(t, p)

-----------------------------------------------------------------------------
(* The JVM and its monitor.                                                *)

PublicTaken == open # {} \/ Serving("public") # {}

\* The JVM reads server.properties and binds its port, or exits when it is taken.
JvmBind(p) ==
  /\ jvm[p] = "boot"
  /\ LET taken == IF serverPort = "public" THEN PublicTaken ELSE Serving("internal") # {}
     IN  jvm' = [jvm EXCEPT ![p] = IF taken THEN "dead" ELSE serverPort]
  /\ UNCHANGED <<server, open, stopRequested, pc, locals>>

\* It crashes, or obeys "stop" or SIGKILL.
JvmExit(p) ==
  /\ Alive(p)
  /\ jvm' = [jvm EXCEPT ![p] = "dead"]
  /\ UNCHANGED <<server, open, stopRequested, pc, locals>>

\* monitorProcess runs once the process is stored, however late.
Monitor(p) ==
  /\ jvm[p] = "dead"
  /\ \A t \in Threads : At(t, "startStore") => proc[t] # p
  /\ jvm' = [jvm EXCEPT ![p] = "none"]
  /\ stopRequested' = [stopRequested EXCEPT ![p] = FALSE]
  /\ process' = None
  /\ status' = IF stopRequested[p] THEN RestingStatus ELSE "crashed"
  /\ UNCHANGED <<autoSleep, serverPort, proxies, emptySince, open, pc, locals>>

-----------------------------------------------------------------------------
(* StopServer, and Sleep around it.                                        *)

AfterStop(t, step) == IF job[t] = "sleep" THEN Goto(t, step) ELSE Finish(t)

StopGet(t) ==
  /\ At(t, "stopGet")
  /\ IF status \in {"running", "starting"} THEN Goto(t, "stopMark")
     ELSE AfterStop(t, "idleClear")
  /\ UNCHANGED <<server, world>>

StopMark(t) ==
  /\ At(t, "stopMark") /\ Write("stopping")
  /\ Goto(t, "stopAsk") /\ UNCHANGED world

StopAsk(t) ==
  /\ At(t, "stopAsk")
  /\ IF process = None THEN Goto(t, "stopRest") /\ UNCHANGED stopRequested
     ELSE /\ stopRequested' = [stopRequested EXCEPT ![process] = TRUE]
          /\ proc' = [proc EXCEPT ![t] = process]
          /\ pc' = [pc EXCEPT ![t] = "stopWait"]
          /\ UNCHANGED <<job, row, px>>
  /\ UNCHANGED <<server, open, jvm>>

StopWait(t) ==
  /\ At(t, "stopWait") /\ ~Alive(proc[t])
  /\ process' = None
  /\ proc' = [proc EXCEPT ![t] = None]
  /\ pc' = [pc EXCEPT ![t] = "stopRest"]
  /\ UNCHANGED <<status, autoSleep, serverPort, proxies, emptySince, world, job, row, px>>

StopRest(t) ==
  /\ At(t, "stopRest") /\ Write(RestingStatus)
  /\ AfterStop(t, "sleepMark") /\ UNCHANGED world

SleepGet(t) ==
  /\ At(t, "sleepGet")
  /\ Goto(t, IF autoSleep THEN "stopGet" ELSE "idleClear")
  /\ UNCHANGED <<server, world>>

SleepMark(t) ==
  /\ At(t, "sleepMark") /\ Write("sleeping")
  /\ Goto(t, "idleClear") /\ UNCHANGED world

StopServer(t) ==
  \/ StopGet(t) \/ StopMark(t) \/ StopAsk(t) \/ StopWait(t) \/ StopRest(t)
  \/ SleepGet(t) \/ SleepMark(t)

-----------------------------------------------------------------------------
(* SetAutoSleep, and ensureSleepProxy, which the boot calls as well.       *)

ToggleGet(t) ==
  /\ At(t, "toggleGet")
  /\ IF status \in {"running", "starting", "stopping"} THEN Finish(t)
     ELSE /\ pc' = [pc EXCEPT ![t] = "toggleWrite"]
          /\ row' = [row EXCEPT ![t] = [status |-> status, autoSleep |-> job[t] = "on"]]
          /\ UNCHANGED <<job, px, proc>>
  /\ UNCHANGED <<server, world>>

ToggleWrite(t) ==
  /\ At(t, "toggleWrite")
  /\ autoSleep' = row[t].autoSleep
  /\ Goto(t, IF row[t].autoSleep THEN "proxyLook" ELSE "offTake")
  /\ UNCHANGED <<status, serverPort, proxies, process, emptySince, world>>

\* Mutated form: the entry is used without asking whether it exists.
OffTakeUnchecked(t) ==
  /\ At(t, "offTake")
  /\ px' = [px EXCEPT ![t] = proxies]
  /\ proxies' = None
  /\ pc' = [pc EXCEPT ![t] = "offClose"]
  /\ UNCHANGED <<status, autoSleep, serverPort, process, emptySince, world, job, row, proc>>

\* stopSleepProxy takes the entry out of the map, then closes the proxy.
OffTake(t) ==
  /\ At(t, "offTake")
  /\ px' = [px EXCEPT ![t] = proxies]
  /\ proxies' = None
  /\ pc' = [pc EXCEPT ![t] = IF proxies = None THEN "toggleRest" ELSE "offClose"]
  /\ UNCHANGED <<status, autoSleep, serverPort, process, emptySince, world, job, row, proc>>

\* Mutated form: the proxy is only told that it is closed.
OffCloseKeepsPort(t) ==
  /\ At(t, "offClose")
  /\ Goto(t, "offWait") /\ UNCHANGED <<server, world>>

OffClose(t) ==
  /\ At(t, "offClose")
  /\ open' = open \ {px[t]}
  /\ Goto(t, "offWait")
  /\ UNCHANGED <<server, jvm, stopRequested>>

\* The connections that were counted in time are waited for.
OffWait(t) ==
  /\ At(t, "offWait")
  /\ \A pl \in Players : pc[pl] \in Counted => px[pl] # px[t]
  /\ pc' = [pc EXCEPT ![t] = "toggleRest"]
  /\ px' = [px EXCEPT ![t] = None]
  /\ UNCHANGED <<server, world, job, row, proc>>

ProxyLook(t) ==
  /\ At(t, "proxyLook")
  /\ Goto(t, IF proxies = None THEN "proxyBind" ELSE "toggleRest")
  /\ UNCHANGED <<server, world>>

\* Proxy.Start: bind the public port and accept.
ProxyBind(t, x) ==
  /\ At(t, "proxyBind") /\ ~PublicTaken
  /\ x # proxies /\ Idle(x)
  /\ open' = open \cup {x}
  /\ px' = [px EXCEPT ![t] = x]
  /\ pc' = [pc EXCEPT ![t] = "proxyStore"]
  /\ UNCHANGED <<server, jvm, stopRequested, job, row, proc>>

\* The boot leaves the row alone when the port is taken.
ProxyBindFails(t) ==
  /\ At(t, "proxyBind") /\ PublicTaken
  /\ IF job[t] = "boot" THEN Finish(t) ELSE Goto(t, "toggleUndo")
  /\ UNCHANGED <<server, world>>

\* Mutated form: the row keeps what was asked for.
ToggleUndoForgotten(t) ==
  /\ At(t, "toggleUndo") /\ Finish(t)
  /\ UNCHANGED <<server, world>>

ToggleUndo(t) ==
  /\ At(t, "toggleUndo")
  /\ autoSleep' = FALSE
  /\ Finish(t)
  /\ UNCHANGED <<status, serverPort, proxies, process, emptySince, world>>

ProxyStore(t) ==
  /\ At(t, "proxyStore")
  /\ proxies' = px[t]
  /\ px' = [px EXCEPT ![t] = None]
  /\ pc' = [pc EXCEPT ![t] = "toggleRest"]
  /\ UNCHANGED <<status, autoSleep, serverPort, process, emptySince, world, job, row, proc>>

\* The status follows the row as it was read.
ToggleRest(t) ==
  /\ At(t, "toggleRest")
  /\ Write(IF job[t] = "off" /\ row[t].status = "sleeping" THEN "stopped"
           ELSE IF job[t] # "off" /\ row[t].status = "stopped" THEN "sleeping"
           ELSE status)
  /\ IF job[t] = "boot" THEN Finish(t) ELSE Goto(t, "config")
  /\ UNCHANGED world

SetAutoSleep(t) ==
  \/ ToggleGet(t) \/ ToggleWrite(t) \/ ToggleRest(t) \/ ToggleUndo(t)
  \/ OffTake(t) \/ OffClose(t) \/ OffWait(t)
  \/ ProxyLook(t) \/ ProxyBindFails(t) \/ ProxyStore(t)
  \/ \E x \in Proxies : ProxyBind(t, x)

Begin(t) ==
  /\ At(t, "idle")
  /\ \E j \in Jobs :
       /\ job' = [job EXCEPT ![t] = j]
       /\ pc' = [pc EXCEPT ![t] = CASE j = "start" -> "startGet"
                                    [] j = "wake"  -> "wakeGet"
                                    [] j = "stop"  -> "stopGet"
                                    [] OTHER       -> "toggleGet"]
  /\ UNCHANGED <<server, world, row, px, proc>>

-----------------------------------------------------------------------------
(* checkIdleServers                                                        *)

\* The watcher starts after the boot has bound the proxies.
IdlePoll(t) ==
  /\ At(t, "idle") /\ job[Operator] # "boot"
  /\ IF autoSleep /\ status = "running"
     THEN /\ pc' = [pc EXCEPT ![t] = "idleAsk"]
          /\ job' = [job EXCEPT ![t] = "sleep"]
          /\ UNCHANGED <<emptySince, row, px, proc>>
     ELSE emptySince' = FALSE /\ UNCHANGED <<pc, locals>>
  /\ UNCHANGED <<status, autoSleep, serverPort, proxies, process, world>>

\* The server may not answer; then it is left alone.
IdleUnanswered(t) ==
  /\ At(t, "idleAsk") /\ Finish(t)
  /\ UNCHANGED <<server, world>>

\* An empty server is marked, and put to sleep once the mark is old enough.
IdleAsk(t) ==
  /\ At(t, "idleAsk") /\ status = "running"
  /\ \E p \in Serving("public") \cup Serving("internal") :
       IF \E pl \in Players : At(pl, "playing") /\ proc[pl] = p
       THEN Goto(t, "idleClear") /\ UNCHANGED emptySince
       ELSE \/ Finish(t) /\ emptySince' = TRUE
            \/ emptySince /\ Goto(t, "sleepGet") /\ UNCHANGED emptySince
  /\ UNCHANGED <<status, autoSleep, serverPort, proxies, process, world>>

IdleClear(t) ==
  /\ At(t, "idleClear")
  /\ emptySince' = FALSE
  /\ Finish(t)
  /\ UNCHANGED <<status, autoSleep, serverPort, proxies, process, world>>

-----------------------------------------------------------------------------
(* A player's connection and the proxy's goroutine that serves it.         *)

\* Accept returns; or the JVM itself has the port.
Connect(pl) ==
  /\ At(pl, "idle")
  /\ job' = [job EXCEPT ![pl] = "join"]
  /\ \/ \E x \in open : /\ px' = [px EXCEPT ![pl] = x]
                        /\ pc' = [pc EXCEPT ![pl] = "accepted"]
                        /\ UNCHANGED proc
     \/ \E p \in Serving("public") : /\ proc' = [proc EXCEPT ![pl] = p]
                                     /\ pc' = [pc EXCEPT ![pl] = "playing"]
                                     /\ UNCHANGED px
  /\ UNCHANGED <<server, world, row>>

\* conns.Add, a moment after Accept.
Count(pl) == At(pl, "accepted") /\ Goto(pl, "hello") /\ UNCHANGED <<server, world>>

\* No handshake within its deadline, or a status ping, which changes nothing.
Leave(pl) == At(pl, "hello") /\ Finish(pl) /\ UNCHANGED <<server, world>>

\* A login: Awake decides between passing it through and waking the server.
Login(pl) ==
  /\ At(pl, "hello")
  /\ Goto(pl, IF status = "running" /\ process # None THEN "dialOnce" ELSE "wakeGet")
  /\ UNCHANGED <<server, world>>

Piped(pl, p) ==
  /\ proc' = [proc EXCEPT ![pl] = p]
  /\ pc' = [pc EXCEPT ![pl] = "playing"]
  /\ UNCHANGED <<job, row, px>>

DialOnce(pl) ==
  /\ At(pl, "dialOnce")
  /\ \/ \E p \in Serving("internal") : Piped(pl, p)
     \/ Serving("internal") = {} /\ Finish(pl)
  /\ UNCHANGED <<server, world>>

\* serveWake's loop: the proxy was closed, or the attempt is made.
DialCheck(pl) ==
  /\ At(pl, "dialCheck")
  /\ IF px[pl] \notin open THEN Finish(pl) ELSE Goto(pl, "dialTry")
  /\ UNCHANGED <<server, world>>

\* Mutated form: the loop has no deadline.
DialDeadlineNever(pl) == At(pl, "dialCheck") /\ FALSE /\ UNCHANGED vars

DialDeadline(pl) ==
  /\ At(pl, "dialCheck") /\ Finish(pl)
  /\ UNCHANGED <<server, world>>

DialTry(pl) ==
  /\ At(pl, "dialTry")
  /\ \/ \E p \in Serving("internal") : Piped(pl, p)
     \/ Serving("internal") = {} /\ Goto(pl, "dialCheck")
  /\ UNCHANGED <<server, world>>

\* The player leaves.
Quit(pl) == At(pl, "playing") /\ Finish(pl) /\ UNCHANGED <<server, world>>

\* Mutated form: the copy from the player is waited for as well.
PipeEndsWaiting(pl) == At(pl, "playing") /\ FALSE /\ UNCHANGED vars

\* The JVM is gone: its side of the pipe ends, and with it the session.
PipeEnds(pl) ==
  /\ At(pl, "playing") /\ ~Alive(proc[pl])
  /\ Finish(pl) /\ UNCHANGED <<server, world>>

Serve(pl) ==
  \/ Count(pl) \/ Login(pl) \/ DialOnce(pl) \/ DialCheck(pl) \/ DialTry(pl)
  \/ PipeEnds(pl)

-----------------------------------------------------------------------------
(* RealmRunner ends, by signal or not, and with it every process and every *)
(* socket.  The rows are settled, then StartSleepProxies runs.             *)

Settled == IF status \in {"running", "starting", "stopping"} THEN "stopped" ELSE status
Nothing == [t \in Threads |-> None]

\* The boot runs in the operator's thread, before any request.
Reboot ==
  /\ Reboots
  /\ status' = Settled
  /\ proxies' = None /\ process' = None /\ emptySince' = FALSE
  /\ open' = {}
  /\ jvm' = [p \in Procs |-> "none"]
  /\ stopRequested' = [p \in Procs |-> FALSE]
  /\ LET boots(t) == autoSleep /\ t = Operator
     IN  /\ pc' = [t \in Threads |-> IF boots(t) THEN "proxyLook" ELSE "idle"]
         /\ job' = [t \in Threads |-> IF boots(t) THEN "boot" ELSE "none"]
         /\ row' = [t \in Threads |-> IF boots(t) THEN [status |-> Settled, autoSleep |-> TRUE]
                                      ELSE NoRow]
  /\ px' = Nothing /\ proc' = Nothing
  /\ UNCHANGED <<autoSleep, serverPort>>

Init ==
  /\ status = "stopped" /\ autoSleep = FALSE /\ serverPort = "public"
  /\ proxies = None /\ process = None /\ emptySince = FALSE
  /\ open = {}
  /\ jvm = [p \in Procs |-> "none"]
  /\ stopRequested = [p \in Procs |-> FALSE]
  /\ pc = [t \in Threads |-> "idle"]
  /\ job = [t \in Threads |-> "none"]
  /\ row = [t \in Threads |-> NoRow]
  /\ px = Nothing /\ proc = Nothing

Next ==
  \/ Begin(Operator) \/ SetAutoSleep(Operator)
  \/ \E t \in {Operator} \cup Players : StartServer(t)
  \/ \E t \in {Operator, Watcher} : StopServer(t)
  \/ IdlePoll(Watcher) \/ IdleUnanswered(Watcher) \/ IdleAsk(Watcher) \/ IdleClear(Watcher)
  \/ \E pl \in Players : \/ Connect(pl) \/ Leave(pl) \/ DialDeadline(pl) \/ Quit(pl)
                         \/ Serve(pl)
  \/ \E p \in Procs : JvmBind(p) \/ JvmExit(p) \/ Monitor(p)
  \/ Reboot

Spec == Init /\ [][Next]_vars

-----------------------------------------------------------------------------
(* Fairness.  Goroutines that can run do; the loop of serveWake ends after  *)
(* 90 seconds; a JVM asked to stop does, or is killed.  Nothing is assumed  *)
(* of the operator, of players, or of how long a JVM lives.                 *)

Fairness ==
  /\ WF_vars(SetAutoSleep(Operator)) /\ WF_vars(IdleClear(Watcher))
  /\ \A t \in {Operator} \cup Players :
       WF_vars(StartServer(t) /\ (t = Operator => job[t] \notin {"on", "off"}))
  /\ \A t \in {Operator, Watcher} : WF_vars(StopServer(t))
  /\ WF_vars(EnsureControlConfig(Operator))
  /\ \A pl \in Players : WF_vars(Serve(pl)) /\ SF_vars(DialDeadline(pl))
  /\ \A p \in Procs : /\ WF_vars(Monitor(p)) /\ WF_vars(JvmBind(p))
                      /\ WF_vars(stopRequested[p] /\ JvmExit(p))

FairSpec == Init /\ [][Next]_vars /\ Fairness

-----------------------------------------------------------------------------
(* What the program promises.                                              *)

Toggling == job[Operator] \in {"on", "off", "boot"}

\* "Players always connect to the same address whether the server is awake or
\* not" (sleepproxy/proxy.go): between two changes of the setting, a server with
\* auto-sleep on has its proxy in the map, accepting on the public port, and no
\* JVM of it holds that port.
OneAddress ==
  autoSleep /\ ~Toggling => /\ proxies # None /\ proxies \in open
                            /\ Serving("public") = {}

\* No listener outlives its entry: what is open is the map's proxy, or in the
\* hands of the request that is binding or closing it (sleep.go: ensureSleepProxy,
\* stopSleepProxy).
PortIsAccounted == \A x \in open : x = proxies \/ px[Operator] = x

\* A player whose connection was counted is answered: put through, or told to
\* reconnect, however starts, stops, changes of the setting and crashes interleave
\* (serveWake's deadline, and Wake returning).
LoginAnswered == \A pl \in Players : At(pl, "hello") ~> pc[pl] \in {"idle", "playing"}

\* Turning auto-sleep off waits for the proxy's connections, and ends unless one
\* of them is a session on a living JVM (Proxy.Close).
OffReturns ==
  At(Operator, "offWait") ~>
    \/ ~At(Operator, "offWait")
    \/ \E pl \in Players : At(pl, "playing") /\ Alive(proc[pl])

\* The JVM has moved to the port it is told to: while one listens on the internal
\* port, a proxy passes players on to it, since "the server must be stopped because
\* the Minecraft process has to move between the public and the internal port"
\* (sleep.go, SetAutoSleep).  A start in flight refutes it.
NoneStranded == Serving("internal") # {} /\ ~Toggling => open # {}
=============================================================================
