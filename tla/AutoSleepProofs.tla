--------------------------- MODULE AutoSleepProofs ---------------------------
(***************************************************************************)
(* Proofs about AutoSleep, for any number of players, proxies and          *)
(* processes: no listener is forgotten, and a server with auto-sleep on    *)
(* has one address.                                                        *)
(***************************************************************************)
EXTENDS AutoSleep, TLAPS

\* Only the operator's thread changes the setting, the map of proxies and what is
\* open; these are its steps that do, and what it does them for.
AtSteps(steps) == pc[Operator] \in steps
Purpose ==
  /\ AtSteps({"toggleGet", "toggleWrite"}) => job[Operator] \in {"on", "off"}
  /\ AtSteps({"toggleWrite"}) => row[Operator].autoSleep = (job[Operator] = "on")
  /\ AtSteps({"offTake"}) => ~autoSleep
  /\ AtSteps({"proxyLook", "proxyBind", "proxyStore"}) => job[Operator] \in {"on", "boot"}
  /\ AtSteps({"toggleUndo"}) => job[Operator] = "on"

\* The proxy in the operator's hands has no entry: it is open until it is closed,
\* and once it is bound.
InHand ==
  /\ px[Operator] # None => AtSteps({"offClose", "offWait", "proxyStore"})
  /\ AtSteps({"offClose", "offWait", "proxyBind", "proxyStore"}) => proxies = None
  /\ AtSteps({"offWait"})    => px[Operator] \notin open
  /\ AtSteps({"proxyStore"}) => px[Operator] \in open

\* An entry of the map accepts connections.
EntryIsOpen == proxies # None => proxies \in open

\* A proxy and a JVM never hold the public port together.
OneListener == open # {} => Serving("public") = {}

\* A row that says on has its proxy, or the operator is about to bind one.
OnHasProxy ==
  autoSleep => proxies # None \/ AtSteps({"proxyLook", "proxyBind", "proxyStore", "toggleUndo"})

\* Until the boot has bound the proxy nothing else moves.
BootIsAlone ==
  job[Operator] = "boot" /\ AtSteps({"proxyLook", "proxyBind"}) =>
    /\ open = {} /\ \A p \in Procs : jvm[p] = "none"
    /\ \A t \in Threads \ {Operator} : pc[t] = "idle"

AddressInv ==
  /\ TypeOK
  /\ Purpose
  /\ InHand
  /\ PortIsAccounted
  /\ EntryIsOpen
  /\ OneListener
  /\ OnHasProxy
  /\ BootIsAlone
-----------------------------------------------------------------------------
(* Where a thread goes: the types of what it keeps.                        *)

\* Most steps need no object.
FreeSteps == Steps \ {"accepted", "offClose", "offWait", "proxyStore",
                      "stopWait", "startStore", "playing"}

LEMMA GotoTypes ==
  ASSUME ThreadTypes, NEW t \in Threads, NEW step \in FreeSteps, Goto(t, step)
  PROVE  ThreadTypes'
BY DEF ThreadTypes, Goto, FreeSteps, locals

LEMMA FinishTypes ==
  ASSUME ThreadTypes, NEW t \in Threads, Finish(t)
  PROVE  ThreadTypes'
<1>1. NoRow \in [status : Statuses, autoSleep : BOOLEAN]
  BY DEF NoRow, Statuses
<1>2. "idle" \in Steps
  BY DEF Steps
<1>. QED
  BY <1>1, <1>2 DEF ThreadTypes, Finish

LEMMA SameTypes == ThreadTypes /\ UNCHANGED <<pc, locals>> => ThreadTypes'
  BY DEF ThreadTypes, locals

\* A login is handed to a JVM that listens on the internal port.
LEMMA PipedTypes ==
  ASSUME ThreadTypes, NEW pl \in Players, NEW p \in Procs, Piped(pl, p)
  PROVE  ThreadTypes'
BY ThreadsAssumption DEF ThreadTypes, Piped, Threads, Steps, Counted

-----------------------------------------------------------------------------
(* Every step keeps the invariant.                                         *)

\* wake and StartServer, by the operator or a login.
LEMMA StartServerInv ==
  ASSUME AddressInv, NEW t \in {Operator} \cup Players, StartServer(t)
  PROVE  AddressInv'
<1>. USE ThreadsAssumption, JobsAssumption DEF AddressInv, AtSteps, Threads, At, server, world
<1>0. ServerTypes /\ ThreadTypes
  BY DEF TypeOK
<1>1. CASE WakeGet(t)
  <2>1. ServerTypes'
    BY <1>0, <1>1 DEF ServerTypes, ThreadTypes, Statuses, Ports, WakeGet
  <2>2. ThreadTypes'
    BY <1>0, <1>1, GotoTypes, FinishTypes, SameTypes DEF FreeSteps, Steps, Counted, Dialling,
       WakeGet
  <2>3. Purpose' /\ InHand' /\ PortIsAccounted' /\ EntryIsOpen'
    BY <1>1 DEF TypeOK, ServerTypes, ThreadTypes, Purpose, InHand, PortIsAccounted,
       EntryIsOpen, locals, Goto, Finish, WakeGet
  <2>4. OneListener' /\ OnHasProxy' /\ BootIsAlone'
    BY <1>1 DEF TypeOK, ServerTypes, ThreadTypes, Purpose, PortIsAccounted, OneListener,
       OnHasProxy, BootIsAlone, Serving, Ports, locals, Goto, Finish, WakeGet
  <2>. QED
    BY <2>1, <2>2, <2>3, <2>4 DEF TypeOK
<1>2. CASE StartGet(t)
  <2>1. ServerTypes'
    BY <1>0, <1>2 DEF ServerTypes, ThreadTypes, Statuses, Ports, StartGet
  <2>2. ThreadTypes'
    <3>1. CASE status = "running"
      BY <1>0, <1>2, <3>1, FinishTypes DEF FreeSteps, StartGet
    <3>2. CASE ~(status = "running")
      BY <1>0, <1>2, <3>2 DEF ThreadTypes, ServerTypes, Goto, locals, NoRow, Statuses, Steps,
         Counted, Dialling, StartGet
    <3>. QED
      BY <3>1, <3>2
  <2>3. Purpose' /\ InHand' /\ PortIsAccounted' /\ EntryIsOpen'
    BY <1>2 DEF TypeOK, ServerTypes, ThreadTypes, Purpose, InHand, PortIsAccounted,
       EntryIsOpen, locals, Goto, Finish, StartGet
  <2>4. OneListener' /\ OnHasProxy' /\ BootIsAlone'
    BY <1>2 DEF TypeOK, ServerTypes, ThreadTypes, Purpose, PortIsAccounted, OneListener,
       OnHasProxy, BootIsAlone, Serving, Ports, locals, Goto, Finish, StartGet
  <2>. QED
    BY <2>1, <2>2, <2>3, <2>4 DEF TypeOK
<1>3. CASE StartMark(t)
  <2>1. ServerTypes'
    BY <1>0, <1>3 DEF ServerTypes, ThreadTypes, Statuses, Ports, StartMark, Write
  <2>2. ThreadTypes'
    BY <1>0, <1>3, GotoTypes, FinishTypes, SameTypes DEF FreeSteps, Steps, Counted, Dialling,
       StartMark, Write
  <2>3. Purpose' /\ InHand' /\ PortIsAccounted' /\ EntryIsOpen'
    BY <1>3 DEF TypeOK, ServerTypes, ThreadTypes, Purpose, InHand, PortIsAccounted,
       EntryIsOpen, locals, Goto, Finish, StartMark, Write
  <2>4. OneListener' /\ OnHasProxy' /\ BootIsAlone'
    BY <1>3 DEF TypeOK, ServerTypes, ThreadTypes, Purpose, PortIsAccounted, OneListener,
       OnHasProxy, BootIsAlone, Serving, Ports, locals, Goto, Finish, StartMark, Write
  <2>. QED
    BY <2>1, <2>2, <2>3, <2>4 DEF TypeOK
<1>4. CASE EnsureControlConfig(t)
  <2>1. ServerTypes'
    BY <1>0, <1>4 DEF ServerTypes, ThreadTypes, Statuses, Ports, EnsureControlConfig
  <2>2. ThreadTypes'
    <3>1. CASE job[t] \in {"on", "off"}
      BY <1>0, <1>4, <3>1, FinishTypes DEF FreeSteps, EnsureControlConfig
    <3>2. CASE ~(job[t] \in {"on", "off"})
      <4>1. NoRow \in [status : Statuses, autoSleep : BOOLEAN] /\ "startSpawn" \in Steps
        BY DEF NoRow, Statuses, Steps, Counted, Dialling
      <4>. QED
        BY <1>0, <1>4, <3>2, <4>1 DEF ThreadTypes, EnsureControlConfig
    <3>. QED
      BY <3>1, <3>2
  <2>3. Purpose' /\ InHand' /\ PortIsAccounted' /\ EntryIsOpen'
    BY <1>4 DEF TypeOK, ServerTypes, ThreadTypes, Purpose, InHand, PortIsAccounted,
       EntryIsOpen, locals, Goto, Finish, EnsureControlConfig
  <2>4. OneListener' /\ OnHasProxy' /\ BootIsAlone'
    BY <1>4 DEF TypeOK, ServerTypes, ThreadTypes, Purpose, PortIsAccounted, OneListener,
       OnHasProxy, BootIsAlone, Serving, Ports, locals, Goto, Finish, EnsureControlConfig
  <2>. QED
    BY <2>1, <2>2, <2>3, <2>4 DEF TypeOK
<1>5. CASE EnsureControlConfigFails(t)
  <2>1. ServerTypes'
    BY <1>0, <1>5 DEF ServerTypes, ThreadTypes, Statuses, Ports, EnsureControlConfigFails
  <2>2. ThreadTypes'
    BY <1>0, <1>5, GotoTypes, FinishTypes, SameTypes DEF FreeSteps, Steps, Counted, Dialling,
       EnsureControlConfigFails
  <2>3. Purpose' /\ InHand' /\ PortIsAccounted' /\ EntryIsOpen'
    BY <1>5 DEF TypeOK, ServerTypes, ThreadTypes, Purpose, InHand, PortIsAccounted,
       EntryIsOpen, locals, Goto, Finish, EnsureControlConfigFails
  <2>4. OneListener' /\ OnHasProxy' /\ BootIsAlone'
    BY <1>5 DEF TypeOK, ServerTypes, ThreadTypes, Purpose, PortIsAccounted, OneListener,
       OnHasProxy, BootIsAlone, Serving, Ports, locals, Goto, Finish, EnsureControlConfigFails
  <2>. QED
    BY <2>1, <2>2, <2>3, <2>4 DEF TypeOK
<1>6. CASE StartSpawnFails(t)
  <2>1. ServerTypes'
    BY <1>0, <1>6 DEF ServerTypes, ThreadTypes, Statuses, Ports, StartSpawnFails
  <2>2. ThreadTypes'
    BY <1>0, <1>6, GotoTypes, FinishTypes, SameTypes DEF FreeSteps, Steps, Counted, Dialling,
       StartSpawnFails
  <2>3. Purpose' /\ InHand' /\ PortIsAccounted' /\ EntryIsOpen'
    BY <1>6 DEF TypeOK, ServerTypes, ThreadTypes, Purpose, InHand, PortIsAccounted,
       EntryIsOpen, locals, Goto, Finish, StartSpawnFails
  <2>4. OneListener' /\ OnHasProxy' /\ BootIsAlone'
    BY <1>6 DEF TypeOK, ServerTypes, ThreadTypes, Purpose, PortIsAccounted, OneListener,
       OnHasProxy, BootIsAlone, Serving, Ports, locals, Goto, Finish, StartSpawnFails
  <2>. QED
    BY <2>1, <2>2, <2>3, <2>4 DEF TypeOK
<1>7. CASE StartRest(t)
  <2>1. ServerTypes'
    BY <1>0, <1>7 DEF ServerTypes, ThreadTypes, Statuses, Ports, StartRest, Write,
       RestingStatus
  <2>2. ThreadTypes'
    BY <1>0, <1>7, GotoTypes, FinishTypes, SameTypes DEF FreeSteps, Steps, Counted, Dialling,
       StartRest, Write, RestingStatus
  <2>3. Purpose' /\ InHand' /\ PortIsAccounted' /\ EntryIsOpen'
    BY <1>7 DEF TypeOK, ServerTypes, ThreadTypes, Purpose, InHand, PortIsAccounted,
       EntryIsOpen, locals, Goto, Finish, StartRest, Write, RestingStatus
  <2>4. OneListener' /\ OnHasProxy' /\ BootIsAlone'
    BY <1>7 DEF TypeOK, ServerTypes, ThreadTypes, Purpose, PortIsAccounted, OneListener,
       OnHasProxy, BootIsAlone, Serving, Ports, locals, Goto, Finish, StartRest, Write,
       RestingStatus
  <2>. QED
    BY <2>1, <2>2, <2>3, <2>4 DEF TypeOK
<1>8. CASE StartStore(t)
  <2>1. ServerTypes'
    BY <1>0, <1>8 DEF ServerTypes, ThreadTypes, Statuses, Ports, StartStore
  <2>2. ThreadTypes'
    BY <1>0, <1>8 DEF ThreadTypes, ServerTypes, Goto, locals, Steps, Counted, Dialling,
       StartStore
  <2>3. Purpose' /\ InHand' /\ PortIsAccounted' /\ EntryIsOpen'
    BY <1>8 DEF TypeOK, ServerTypes, ThreadTypes, Purpose, InHand, PortIsAccounted,
       EntryIsOpen, locals, Goto, Finish, StartStore
  <2>4. OneListener' /\ OnHasProxy' /\ BootIsAlone'
    BY <1>8 DEF TypeOK, ServerTypes, ThreadTypes, Purpose, PortIsAccounted, OneListener,
       OnHasProxy, BootIsAlone, Serving, Ports, locals, Goto, Finish, StartStore
  <2>. QED
    BY <2>1, <2>2, <2>3, <2>4 DEF TypeOK
<1>9. CASE StartRunning(t)
  <2>1. ServerTypes'
    BY <1>0, <1>9 DEF ServerTypes, ThreadTypes, Statuses, Ports, StartRunning, Write
  <2>2. ThreadTypes'
    BY <1>0, <1>9, GotoTypes, FinishTypes, SameTypes DEF FreeSteps, Steps, Counted, Dialling,
       StartRunning, Write
  <2>3. Purpose' /\ InHand' /\ PortIsAccounted' /\ EntryIsOpen'
    BY <1>9 DEF TypeOK, ServerTypes, ThreadTypes, Purpose, InHand, PortIsAccounted,
       EntryIsOpen, locals, Goto, Finish, StartRunning, Write
  <2>4. OneListener' /\ OnHasProxy' /\ BootIsAlone'
    BY <1>9 DEF TypeOK, ServerTypes, ThreadTypes, Purpose, PortIsAccounted, OneListener,
       OnHasProxy, BootIsAlone, Serving, Ports, locals, Goto, Finish, StartRunning, Write
  <2>. QED
    BY <2>1, <2>2, <2>3, <2>4 DEF TypeOK
<1>10. ASSUME NEW p \in Procs, StartSpawn(t, p) PROVE AddressInv'
  <2>1. ServerTypes'
    BY <1>0, <1>10 DEF ServerTypes, ThreadTypes, Statuses, Ports, StartSpawn, Idle
  <2>2. ThreadTypes'
    BY <1>0, <1>10 DEF ThreadTypes, ServerTypes, Goto, locals, Steps, Counted, Dialling,
       StartSpawn, Idle
  <2>3. Purpose' /\ InHand' /\ PortIsAccounted' /\ EntryIsOpen'
    BY <1>10 DEF TypeOK, ServerTypes, ThreadTypes, Purpose, InHand, PortIsAccounted,
       EntryIsOpen, locals, Goto, Finish, StartSpawn, Idle
  <2>4. OneListener' /\ OnHasProxy' /\ BootIsAlone'
    BY <1>10 DEF TypeOK, ServerTypes, ThreadTypes, Purpose, PortIsAccounted, OneListener,
       OnHasProxy, BootIsAlone, Serving, Ports, locals, Goto, Finish, StartSpawn, Idle
  <2>. QED
    BY <2>1, <2>2, <2>3, <2>4 DEF TypeOK
<1>. QED
  BY <1>1, <1>2, <1>3, <1>4, <1>5, <1>6, <1>7, <1>8, <1>9, <1>10 DEF StartServer

\* StopServer and Sleep, by the operator or the watcher.
LEMMA StopServerInv ==
  ASSUME AddressInv, NEW t \in {Operator, Watcher}, StopServer(t)
  PROVE  AddressInv'
<1>. USE ThreadsAssumption, JobsAssumption DEF AddressInv, AtSteps, Threads, At, server, world
<1>0. ServerTypes /\ ThreadTypes
  BY DEF TypeOK
<1>1. CASE StopGet(t)
  <2>1. ServerTypes'
    BY <1>0, <1>1 DEF ServerTypes, ThreadTypes, Statuses, Ports, StopGet, AfterStop
  <2>2. ThreadTypes'
    BY <1>0, <1>1, GotoTypes, FinishTypes, SameTypes DEF FreeSteps, Steps, Counted, Dialling,
       StopGet, AfterStop
  <2>3. Purpose' /\ InHand' /\ PortIsAccounted' /\ EntryIsOpen'
    BY <1>1 DEF TypeOK, ServerTypes, ThreadTypes, Purpose, InHand, PortIsAccounted,
       EntryIsOpen, locals, Goto, Finish, StopGet, AfterStop
  <2>4. OneListener' /\ OnHasProxy' /\ BootIsAlone'
    BY <1>1 DEF TypeOK, ServerTypes, ThreadTypes, Purpose, PortIsAccounted, OneListener,
       OnHasProxy, BootIsAlone, Serving, Ports, locals, Goto, Finish, StopGet, AfterStop
  <2>. QED
    BY <2>1, <2>2, <2>3, <2>4 DEF TypeOK
<1>2. CASE StopMark(t)
  <2>1. ServerTypes'
    BY <1>0, <1>2 DEF ServerTypes, ThreadTypes, Statuses, Ports, StopMark, Write
  <2>2. ThreadTypes'
    BY <1>0, <1>2, GotoTypes, FinishTypes, SameTypes DEF FreeSteps, Steps, Counted, Dialling,
       StopMark, Write
  <2>3. Purpose' /\ InHand' /\ PortIsAccounted' /\ EntryIsOpen'
    BY <1>2 DEF TypeOK, ServerTypes, ThreadTypes, Purpose, InHand, PortIsAccounted,
       EntryIsOpen, locals, Goto, Finish, StopMark, Write
  <2>4. OneListener' /\ OnHasProxy' /\ BootIsAlone'
    BY <1>2 DEF TypeOK, ServerTypes, ThreadTypes, Purpose, PortIsAccounted, OneListener,
       OnHasProxy, BootIsAlone, Serving, Ports, locals, Goto, Finish, StopMark, Write
  <2>. QED
    BY <2>1, <2>2, <2>3, <2>4 DEF TypeOK
<1>3. CASE StopAsk(t)
  <2>1. ServerTypes'
    BY <1>0, <1>3 DEF ServerTypes, ThreadTypes, Statuses, Ports, StopAsk
  <2>2. ThreadTypes'
    <3>1. CASE process = None
      BY <1>0, <1>3, <3>1, GotoTypes DEF FreeSteps, Steps, Counted, Dialling, StopAsk
    <3>2. CASE ~(process = None)
      BY <1>0, <1>3, <3>2 DEF ThreadTypes, ServerTypes, Goto, locals, NoRow, Statuses, Steps,
         Counted, Dialling, StopAsk
    <3>. QED
      BY <3>1, <3>2
  <2>3. Purpose' /\ InHand' /\ PortIsAccounted' /\ EntryIsOpen'
    BY <1>3 DEF TypeOK, ServerTypes, ThreadTypes, Purpose, InHand, PortIsAccounted,
       EntryIsOpen, locals, Goto, Finish, StopAsk
  <2>4. OneListener' /\ OnHasProxy' /\ BootIsAlone'
    BY <1>3 DEF TypeOK, ServerTypes, ThreadTypes, Purpose, PortIsAccounted, OneListener,
       OnHasProxy, BootIsAlone, Serving, Ports, locals, Goto, Finish, StopAsk
  <2>. QED
    BY <2>1, <2>2, <2>3, <2>4 DEF TypeOK
<1>4. CASE StopWait(t)
  <2>1. ServerTypes'
    BY <1>0, <1>4 DEF ServerTypes, ThreadTypes, Statuses, Ports, StopWait, Alive
  <2>2. ThreadTypes'
    BY <1>0, <1>4 DEF ThreadTypes, ServerTypes, Goto, locals, Steps, Counted, Dialling,
       StopWait, Alive
  <2>3. Purpose' /\ InHand' /\ PortIsAccounted' /\ EntryIsOpen'
    BY <1>4 DEF TypeOK, ServerTypes, ThreadTypes, Purpose, InHand, PortIsAccounted,
       EntryIsOpen, locals, Goto, Finish, StopWait, Alive
  <2>4. OneListener' /\ OnHasProxy' /\ BootIsAlone'
    BY <1>4 DEF TypeOK, ServerTypes, ThreadTypes, Purpose, PortIsAccounted, OneListener,
       OnHasProxy, BootIsAlone, Serving, Ports, locals, Goto, Finish, StopWait, Alive
  <2>. QED
    BY <2>1, <2>2, <2>3, <2>4 DEF TypeOK
<1>5. CASE StopRest(t)
  <2>1. ServerTypes'
    BY <1>0, <1>5 DEF ServerTypes, ThreadTypes, Statuses, Ports, StopRest, Write,
       RestingStatus, AfterStop
  <2>2. ThreadTypes'
    BY <1>0, <1>5, GotoTypes, FinishTypes, SameTypes DEF FreeSteps, Steps, Counted, Dialling,
       StopRest, Write, RestingStatus, AfterStop
  <2>3. Purpose' /\ InHand' /\ PortIsAccounted' /\ EntryIsOpen'
    BY <1>5 DEF TypeOK, ServerTypes, ThreadTypes, Purpose, InHand, PortIsAccounted,
       EntryIsOpen, locals, Goto, Finish, StopRest, Write, RestingStatus, AfterStop
  <2>4. OneListener' /\ OnHasProxy' /\ BootIsAlone'
    BY <1>5 DEF TypeOK, ServerTypes, ThreadTypes, Purpose, PortIsAccounted, OneListener,
       OnHasProxy, BootIsAlone, Serving, Ports, locals, Goto, Finish, StopRest, Write,
       RestingStatus, AfterStop
  <2>. QED
    BY <2>1, <2>2, <2>3, <2>4 DEF TypeOK
<1>6. CASE SleepGet(t)
  <2>1. ServerTypes'
    BY <1>0, <1>6 DEF ServerTypes, ThreadTypes, Statuses, Ports, SleepGet
  <2>2. ThreadTypes'
    BY <1>0, <1>6, GotoTypes, FinishTypes, SameTypes DEF FreeSteps, Steps, Counted, Dialling,
       SleepGet
  <2>3. Purpose' /\ InHand' /\ PortIsAccounted' /\ EntryIsOpen'
    BY <1>6 DEF TypeOK, ServerTypes, ThreadTypes, Purpose, InHand, PortIsAccounted,
       EntryIsOpen, locals, Goto, Finish, SleepGet
  <2>4. OneListener' /\ OnHasProxy' /\ BootIsAlone'
    BY <1>6 DEF TypeOK, ServerTypes, ThreadTypes, Purpose, PortIsAccounted, OneListener,
       OnHasProxy, BootIsAlone, Serving, Ports, locals, Goto, Finish, SleepGet
  <2>. QED
    BY <2>1, <2>2, <2>3, <2>4 DEF TypeOK
<1>7. CASE SleepMark(t)
  <2>1. ServerTypes'
    BY <1>0, <1>7 DEF ServerTypes, ThreadTypes, Statuses, Ports, SleepMark, Write
  <2>2. ThreadTypes'
    BY <1>0, <1>7, GotoTypes, FinishTypes, SameTypes DEF FreeSteps, Steps, Counted, Dialling,
       SleepMark, Write
  <2>3. Purpose' /\ InHand' /\ PortIsAccounted' /\ EntryIsOpen'
    BY <1>7 DEF TypeOK, ServerTypes, ThreadTypes, Purpose, InHand, PortIsAccounted,
       EntryIsOpen, locals, Goto, Finish, SleepMark, Write
  <2>4. OneListener' /\ OnHasProxy' /\ BootIsAlone'
    BY <1>7 DEF TypeOK, ServerTypes, ThreadTypes, Purpose, PortIsAccounted, OneListener,
       OnHasProxy, BootIsAlone, Serving, Ports, locals, Goto, Finish, SleepMark, Write
  <2>. QED
    BY <2>1, <2>2, <2>3, <2>4 DEF TypeOK
<1>. QED
  BY <1>1, <1>2, <1>3, <1>4, <1>5, <1>6, <1>7 DEF StopServer

\* SetAutoSleep and the boot: the steps that change the map and what is open.
LEMMA SetAutoSleepInv ==
  ASSUME AddressInv, SetAutoSleep(Operator)
  PROVE  AddressInv'
<1>. USE ThreadsAssumption, JobsAssumption DEF AddressInv, AtSteps, Threads, At, server, world
<1>0. ServerTypes /\ ThreadTypes
  BY DEF TypeOK
<1>1. CASE ToggleGet(Operator)
  <2>1. ServerTypes'
    BY <1>0, <1>1 DEF ServerTypes, ThreadTypes, Statuses, Ports, ToggleGet
  <2>2. ThreadTypes'
    <3>1. CASE status \in {"running", "starting", "stopping"}
      BY <1>0, <1>1, <3>1, FinishTypes DEF FreeSteps, ToggleGet
    <3>2. CASE ~(status \in {"running", "starting", "stopping"})
      <4>1. [status |-> status, autoSleep |-> job[Operator] = "on"]
              \in [status : Statuses, autoSleep : BOOLEAN]
        BY <1>0 DEF ServerTypes
      <4>2. PICK read \in [status : Statuses, autoSleep : BOOLEAN] :
              row' = [row EXCEPT ![Operator] = read]
        BY <1>1, <3>2, <4>1 DEF ToggleGet
      <4>3. pc' = [pc EXCEPT ![Operator] = "toggleWrite"] /\ UNCHANGED <<job, px, proc>>
        BY <1>1, <3>2 DEF ToggleGet
      <4>. QED
        BY <1>0, <4>2, <4>3 DEF ThreadTypes, Steps
    <3>. QED
      BY <3>1, <3>2
  <2>3. Purpose' /\ InHand' /\ PortIsAccounted' /\ EntryIsOpen'
    BY <1>1 DEF TypeOK, ServerTypes, ThreadTypes, Purpose, InHand, PortIsAccounted,
       EntryIsOpen, locals, Goto, Finish, ToggleGet
  <2>4. OneListener' /\ OnHasProxy' /\ BootIsAlone'
    BY <1>1 DEF TypeOK, ServerTypes, ThreadTypes, Purpose, PortIsAccounted, OneListener,
       OnHasProxy, BootIsAlone, Serving, Ports, locals, Goto, Finish, ToggleGet
  <2>. QED
    BY <2>1, <2>2, <2>3, <2>4 DEF TypeOK
<1>2. CASE ToggleWrite(Operator)
  <2>1. ServerTypes'
    BY <1>0, <1>2 DEF ServerTypes, ThreadTypes, Statuses, Ports, ToggleWrite
  <2>2. ThreadTypes'
    BY <1>0, <1>2, GotoTypes, FinishTypes, SameTypes DEF FreeSteps, Steps, Counted, Dialling,
       ToggleWrite
  <2>3. Purpose' /\ InHand' /\ PortIsAccounted' /\ EntryIsOpen'
    BY <1>2 DEF TypeOK, ServerTypes, ThreadTypes, Purpose, InHand, PortIsAccounted,
       EntryIsOpen, locals, Goto, Finish, ToggleWrite
  <2>4. OneListener' /\ OnHasProxy' /\ BootIsAlone'
    BY <1>2 DEF TypeOK, ServerTypes, ThreadTypes, Purpose, PortIsAccounted, OneListener,
       OnHasProxy, BootIsAlone, Serving, Ports, locals, Goto, Finish, ToggleWrite
  <2>. QED
    BY <2>1, <2>2, <2>3, <2>4 DEF TypeOK
<1>3. CASE ToggleRest(Operator)
  <2>1. ServerTypes'
    BY <1>0, <1>3 DEF ServerTypes, ThreadTypes, Statuses, Ports, ToggleRest, Write
  <2>2. ThreadTypes'
    BY <1>0, <1>3, GotoTypes, FinishTypes, SameTypes DEF FreeSteps, Steps, Counted, Dialling,
       ToggleRest, Write
  <2>3. Purpose' /\ InHand' /\ PortIsAccounted' /\ EntryIsOpen'
    BY <1>3 DEF TypeOK, ServerTypes, ThreadTypes, Purpose, InHand, PortIsAccounted,
       EntryIsOpen, locals, Goto, Finish, ToggleRest, Write
  <2>4. OneListener' /\ OnHasProxy' /\ BootIsAlone'
    BY <1>3 DEF TypeOK, ServerTypes, ThreadTypes, Purpose, PortIsAccounted, OneListener,
       OnHasProxy, BootIsAlone, Serving, Ports, locals, Goto, Finish, ToggleRest, Write
  <2>. QED
    BY <2>1, <2>2, <2>3, <2>4 DEF TypeOK
<1>4. CASE ToggleUndo(Operator)
  <2>1. ServerTypes'
    BY <1>0, <1>4 DEF ServerTypes, ThreadTypes, Statuses, Ports, ToggleUndo
  <2>2. ThreadTypes'
    BY <1>0, <1>4, GotoTypes, FinishTypes, SameTypes DEF FreeSteps, Steps, Counted, Dialling,
       ToggleUndo
  <2>3. Purpose' /\ InHand' /\ PortIsAccounted' /\ EntryIsOpen'
    BY <1>4 DEF TypeOK, ServerTypes, ThreadTypes, Purpose, InHand, PortIsAccounted,
       EntryIsOpen, locals, Goto, Finish, ToggleUndo
  <2>4. OneListener' /\ OnHasProxy' /\ BootIsAlone'
    BY <1>4 DEF TypeOK, ServerTypes, ThreadTypes, Purpose, PortIsAccounted, OneListener,
       OnHasProxy, BootIsAlone, Serving, Ports, locals, Goto, Finish, ToggleUndo
  <2>. QED
    BY <2>1, <2>2, <2>3, <2>4 DEF TypeOK
<1>5. CASE OffTake(Operator)
  <2>1. ServerTypes'
    BY <1>0, <1>5 DEF ServerTypes, ThreadTypes, Statuses, Ports, OffTake
  <2>2. ThreadTypes'
    BY <1>0, <1>5 DEF ThreadTypes, ServerTypes, Goto, locals, Steps, Counted, Dialling,
       OffTake
  <2>3. Purpose' /\ InHand' /\ PortIsAccounted' /\ EntryIsOpen'
    BY <1>5 DEF TypeOK, ServerTypes, ThreadTypes, Purpose, InHand, PortIsAccounted,
       EntryIsOpen, locals, Goto, Finish, OffTake
  <2>4. OneListener' /\ OnHasProxy' /\ BootIsAlone'
    BY <1>5 DEF TypeOK, ServerTypes, ThreadTypes, Purpose, PortIsAccounted, OneListener,
       OnHasProxy, BootIsAlone, Serving, Ports, locals, Goto, Finish, OffTake
  <2>. QED
    BY <2>1, <2>2, <2>3, <2>4 DEF TypeOK
<1>6. CASE OffClose(Operator)
  <2>1. ServerTypes'
    BY <1>0, <1>6 DEF ServerTypes, ThreadTypes, Statuses, Ports, OffClose
  <2>2. ThreadTypes'
    BY <1>0, <1>6 DEF ThreadTypes, ServerTypes, Goto, locals, Steps, Counted, Dialling,
       OffClose
  <2>3. Purpose' /\ InHand' /\ PortIsAccounted' /\ EntryIsOpen'
    BY <1>6 DEF TypeOK, ServerTypes, ThreadTypes, Purpose, InHand, PortIsAccounted,
       EntryIsOpen, locals, Goto, Finish, OffClose
  <2>4. OneListener' /\ OnHasProxy' /\ BootIsAlone'
    BY <1>6 DEF TypeOK, ServerTypes, ThreadTypes, Purpose, PortIsAccounted, OneListener,
       OnHasProxy, BootIsAlone, Serving, Ports, locals, Goto, Finish, OffClose
  <2>. QED
    BY <2>1, <2>2, <2>3, <2>4 DEF TypeOK
<1>7. CASE OffWait(Operator)
  <2>1. ServerTypes'
    BY <1>0, <1>7 DEF ServerTypes, ThreadTypes, Statuses, Ports, OffWait
  <2>2. ThreadTypes'
    BY <1>0, <1>7 DEF ThreadTypes, ServerTypes, Goto, locals, Steps, Counted, Dialling,
       OffWait
  <2>3. Purpose' /\ InHand' /\ PortIsAccounted' /\ EntryIsOpen'
    BY <1>7 DEF TypeOK, ServerTypes, ThreadTypes, Purpose, InHand, PortIsAccounted,
       EntryIsOpen, locals, Goto, Finish, OffWait
  <2>4. OneListener' /\ OnHasProxy' /\ BootIsAlone'
    BY <1>7 DEF TypeOK, ServerTypes, ThreadTypes, Purpose, PortIsAccounted, OneListener,
       OnHasProxy, BootIsAlone, Serving, Ports, locals, Goto, Finish, OffWait
  <2>. QED
    BY <2>1, <2>2, <2>3, <2>4 DEF TypeOK
<1>8. CASE ProxyLook(Operator)
  <2>1. ServerTypes'
    BY <1>0, <1>8 DEF ServerTypes, ThreadTypes, Statuses, Ports, ProxyLook
  <2>2. ThreadTypes'
    BY <1>0, <1>8, GotoTypes, FinishTypes, SameTypes DEF FreeSteps, Steps, Counted, Dialling,
       ProxyLook
  <2>3. Purpose' /\ InHand' /\ PortIsAccounted' /\ EntryIsOpen'
    BY <1>8 DEF TypeOK, ServerTypes, ThreadTypes, Purpose, InHand, PortIsAccounted,
       EntryIsOpen, locals, Goto, Finish, ProxyLook
  <2>4. OneListener' /\ OnHasProxy' /\ BootIsAlone'
    BY <1>8 DEF TypeOK, ServerTypes, ThreadTypes, Purpose, PortIsAccounted, OneListener,
       OnHasProxy, BootIsAlone, Serving, Ports, locals, Goto, Finish, ProxyLook
  <2>. QED
    BY <2>1, <2>2, <2>3, <2>4 DEF TypeOK
<1>9. CASE ProxyBindFails(Operator)
  <2>1. ServerTypes'
    BY <1>0, <1>9 DEF ServerTypes, ThreadTypes, Statuses, Ports, ProxyBindFails, PublicTaken,
       Serving
  <2>2. ThreadTypes'
    BY <1>0, <1>9, GotoTypes, FinishTypes, SameTypes DEF FreeSteps, Steps, Counted, Dialling,
       ProxyBindFails, PublicTaken, Serving
  <2>3. Purpose' /\ InHand' /\ PortIsAccounted' /\ EntryIsOpen'
    BY <1>9 DEF TypeOK, ServerTypes, ThreadTypes, Purpose, InHand, PortIsAccounted,
       EntryIsOpen, locals, Goto, Finish, ProxyBindFails, PublicTaken, Serving
  <2>4. OneListener' /\ OnHasProxy' /\ BootIsAlone'
    BY <1>9 DEF TypeOK, ServerTypes, ThreadTypes, Purpose, PortIsAccounted, OneListener,
       OnHasProxy, BootIsAlone, Serving, Ports, locals, Goto, Finish, ProxyBindFails,
       PublicTaken
  <2>. QED
    BY <2>1, <2>2, <2>3, <2>4 DEF TypeOK
<1>10. CASE ProxyStore(Operator)
  <2>1. ServerTypes'
    BY <1>0, <1>10 DEF ServerTypes, ThreadTypes, Statuses, Ports, ProxyStore
  <2>2. ThreadTypes'
    BY <1>0, <1>10 DEF ThreadTypes, ServerTypes, Goto, locals, Steps, Counted, Dialling,
       ProxyStore
  <2>3. Purpose' /\ InHand' /\ PortIsAccounted' /\ EntryIsOpen'
    BY <1>10 DEF TypeOK, ServerTypes, ThreadTypes, Purpose, InHand, PortIsAccounted,
       EntryIsOpen, locals, Goto, Finish, ProxyStore
  <2>4. OneListener' /\ OnHasProxy' /\ BootIsAlone'
    BY <1>10 DEF TypeOK, ServerTypes, ThreadTypes, Purpose, PortIsAccounted, OneListener,
       OnHasProxy, BootIsAlone, Serving, Ports, locals, Goto, Finish, ProxyStore
  <2>. QED
    BY <2>1, <2>2, <2>3, <2>4 DEF TypeOK
<1>11. ASSUME NEW x \in Proxies, ProxyBind(Operator, x) PROVE AddressInv'
  <2>1. ServerTypes'
    BY <1>0, <1>11 DEF ServerTypes, ThreadTypes, Statuses, Ports, ProxyBind, PublicTaken,
       Serving, Idle
  <2>2. ThreadTypes'
    BY <1>0, <1>11 DEF ThreadTypes, ServerTypes, Goto, locals, Steps, Counted, Dialling,
       ProxyBind, PublicTaken, Serving, Idle
  <2>3. Purpose' /\ InHand' /\ PortIsAccounted' /\ EntryIsOpen'
    BY <1>11 DEF TypeOK, ServerTypes, ThreadTypes, Purpose, InHand, PortIsAccounted,
       EntryIsOpen, locals, Goto, Finish, ProxyBind, PublicTaken, Serving, Idle
  <2>4. OneListener' /\ OnHasProxy' /\ BootIsAlone'
    BY <1>11 DEF TypeOK, ServerTypes, ThreadTypes, Purpose, PortIsAccounted, OneListener,
       OnHasProxy, BootIsAlone, Serving, Ports, locals, Goto, Finish, ProxyBind, PublicTaken,
       Idle
  <2>. QED
    BY <2>1, <2>2, <2>3, <2>4 DEF TypeOK
<1>. QED
  BY <1>1, <1>2, <1>3, <1>4, <1>5, <1>6, <1>7, <1>8, <1>9, <1>10, <1>11 DEF SetAutoSleep

\* checkIdleServers.
LEMMA WatcherInv ==
  ASSUME AddressInv,
         IdlePoll(Watcher) \/ IdleUnanswered(Watcher) \/ IdleAsk(Watcher) \/ IdleClear(Watcher)
  PROVE  AddressInv'
<1>. USE ThreadsAssumption, JobsAssumption DEF AddressInv, AtSteps, Threads, At, server, world
<1>0. ServerTypes /\ ThreadTypes
  BY DEF TypeOK
<1>1. CASE IdlePoll(Watcher)
  <2>1. ServerTypes'
    BY <1>0, <1>1 DEF ServerTypes, ThreadTypes, Statuses, Ports, IdlePoll
  <2>2. ThreadTypes'
    <3>1. CASE autoSleep /\ status = "running"
      BY <1>0, <1>1, <3>1 DEF ThreadTypes, ServerTypes, Goto, locals, NoRow, Statuses, Steps,
         Counted, Dialling, IdlePoll
    <3>2. CASE ~(autoSleep /\ status = "running")
      BY <1>0, <1>1, <3>2, SameTypes DEF locals, IdlePoll
    <3>. QED
      BY <3>1, <3>2
  <2>3. Purpose' /\ InHand' /\ PortIsAccounted' /\ EntryIsOpen'
    BY <1>1 DEF TypeOK, ServerTypes, ThreadTypes, Purpose, InHand, PortIsAccounted,
       EntryIsOpen, locals, Goto, Finish, IdlePoll
  <2>4. OneListener' /\ OnHasProxy' /\ BootIsAlone'
    BY <1>1 DEF TypeOK, ServerTypes, ThreadTypes, Purpose, PortIsAccounted, OneListener,
       OnHasProxy, BootIsAlone, Serving, Ports, locals, Goto, Finish, IdlePoll
  <2>. QED
    BY <2>1, <2>2, <2>3, <2>4 DEF TypeOK
<1>2. CASE IdleUnanswered(Watcher)
  <2>1. ServerTypes'
    BY <1>0, <1>2 DEF ServerTypes, ThreadTypes, Statuses, Ports, IdleUnanswered
  <2>2. ThreadTypes'
    BY <1>0, <1>2, GotoTypes, FinishTypes, SameTypes DEF FreeSteps, Steps, Counted, Dialling,
       IdleUnanswered
  <2>3. Purpose' /\ InHand' /\ PortIsAccounted' /\ EntryIsOpen'
    BY <1>2 DEF TypeOK, ServerTypes, ThreadTypes, Purpose, InHand, PortIsAccounted,
       EntryIsOpen, locals, Goto, Finish, IdleUnanswered
  <2>4. OneListener' /\ OnHasProxy' /\ BootIsAlone'
    BY <1>2 DEF TypeOK, ServerTypes, ThreadTypes, Purpose, PortIsAccounted, OneListener,
       OnHasProxy, BootIsAlone, Serving, Ports, locals, Goto, Finish, IdleUnanswered
  <2>. QED
    BY <2>1, <2>2, <2>3, <2>4 DEF TypeOK
<1>3. CASE IdleAsk(Watcher)
  <2>1. ServerTypes'
    BY <1>0, <1>3 DEF ServerTypes, ThreadTypes, Statuses, Ports, IdleAsk, Serving
  <2>2. ThreadTypes'
    BY <1>0, <1>3, GotoTypes, FinishTypes, SameTypes DEF FreeSteps, Steps, Counted, Dialling,
       IdleAsk, Serving
  <2>3. Purpose' /\ InHand' /\ PortIsAccounted' /\ EntryIsOpen'
    BY <1>3 DEF TypeOK, ServerTypes, ThreadTypes, Purpose, InHand, PortIsAccounted,
       EntryIsOpen, locals, Goto, Finish, IdleAsk, Serving
  <2>4. OneListener' /\ OnHasProxy' /\ BootIsAlone'
    BY <1>3 DEF TypeOK, ServerTypes, ThreadTypes, Purpose, PortIsAccounted, OneListener,
       OnHasProxy, BootIsAlone, Serving, Ports, locals, Goto, Finish, IdleAsk
  <2>. QED
    BY <2>1, <2>2, <2>3, <2>4 DEF TypeOK
<1>4. CASE IdleClear(Watcher)
  <2>1. ServerTypes'
    BY <1>0, <1>4 DEF ServerTypes, ThreadTypes, Statuses, Ports, IdleClear
  <2>2. ThreadTypes'
    BY <1>0, <1>4, GotoTypes, FinishTypes, SameTypes DEF FreeSteps, Steps, Counted, Dialling,
       IdleClear
  <2>3. Purpose' /\ InHand' /\ PortIsAccounted' /\ EntryIsOpen'
    BY <1>4 DEF TypeOK, ServerTypes, ThreadTypes, Purpose, InHand, PortIsAccounted,
       EntryIsOpen, locals, Goto, Finish, IdleClear
  <2>4. OneListener' /\ OnHasProxy' /\ BootIsAlone'
    BY <1>4 DEF TypeOK, ServerTypes, ThreadTypes, Purpose, PortIsAccounted, OneListener,
       OnHasProxy, BootIsAlone, Serving, Ports, locals, Goto, Finish, IdleClear
  <2>. QED
    BY <2>1, <2>2, <2>3, <2>4 DEF TypeOK
<1>. QED
  BY <1>1, <1>2, <1>3, <1>4

\* A player's connection.
LEMMA PlayerInv ==
  ASSUME AddressInv, NEW pl \in Players,
         Connect(pl) \/ Leave(pl) \/ DialDeadline(pl) \/ Quit(pl) \/ Count(pl) \/
         Login(pl) \/ DialOnce(pl) \/ DialCheck(pl) \/ DialTry(pl) \/ PipeEnds(pl)
  PROVE  AddressInv'
<1>. USE ThreadsAssumption, JobsAssumption DEF AddressInv, AtSteps, Threads, At, server, world
<1>0. ServerTypes /\ ThreadTypes
  BY DEF TypeOK
<1>1. CASE Connect(pl)
  <2>1. ServerTypes'
    BY <1>0, <1>1 DEF ServerTypes, ThreadTypes, Statuses, Ports, Connect, Serving
  <2>2. ThreadTypes'
    BY <1>0, <1>1 DEF ThreadTypes, ServerTypes, Goto, locals, Steps, Counted, Dialling,
       Connect, Serving
  <2>3. Purpose' /\ InHand' /\ PortIsAccounted' /\ EntryIsOpen'
    BY <1>1 DEF TypeOK, ServerTypes, ThreadTypes, Purpose, InHand, PortIsAccounted,
       EntryIsOpen, locals, Goto, Finish, Connect, Serving
  <2>4. OneListener' /\ OnHasProxy' /\ BootIsAlone'
    BY <1>1 DEF TypeOK, ServerTypes, ThreadTypes, Purpose, PortIsAccounted, OneListener,
       OnHasProxy, BootIsAlone, Serving, Ports, locals, Goto, Finish, Connect
  <2>. QED
    BY <2>1, <2>2, <2>3, <2>4 DEF TypeOK
<1>2. CASE Leave(pl)
  <2>1. ServerTypes'
    BY <1>0, <1>2 DEF ServerTypes, ThreadTypes, Statuses, Ports, Leave
  <2>2. ThreadTypes'
    BY <1>0, <1>2, GotoTypes, FinishTypes, SameTypes DEF FreeSteps, Steps, Counted, Dialling,
       Leave
  <2>3. Purpose' /\ InHand' /\ PortIsAccounted' /\ EntryIsOpen'
    BY <1>2 DEF TypeOK, ServerTypes, ThreadTypes, Purpose, InHand, PortIsAccounted,
       EntryIsOpen, locals, Goto, Finish, Leave
  <2>4. OneListener' /\ OnHasProxy' /\ BootIsAlone'
    BY <1>2 DEF TypeOK, ServerTypes, ThreadTypes, Purpose, PortIsAccounted, OneListener,
       OnHasProxy, BootIsAlone, Serving, Ports, locals, Goto, Finish, Leave
  <2>. QED
    BY <2>1, <2>2, <2>3, <2>4 DEF TypeOK
<1>3. CASE DialDeadline(pl)
  <2>1. ServerTypes'
    BY <1>0, <1>3 DEF ServerTypes, ThreadTypes, Statuses, Ports, DialDeadline
  <2>2. ThreadTypes'
    BY <1>0, <1>3, GotoTypes, FinishTypes, SameTypes DEF FreeSteps, Steps, Counted, Dialling,
       DialDeadline
  <2>3. Purpose' /\ InHand' /\ PortIsAccounted' /\ EntryIsOpen'
    BY <1>3 DEF TypeOK, ServerTypes, ThreadTypes, Purpose, InHand, PortIsAccounted,
       EntryIsOpen, locals, Goto, Finish, DialDeadline
  <2>4. OneListener' /\ OnHasProxy' /\ BootIsAlone'
    BY <1>3 DEF TypeOK, ServerTypes, ThreadTypes, Purpose, PortIsAccounted, OneListener,
       OnHasProxy, BootIsAlone, Serving, Ports, locals, Goto, Finish, DialDeadline
  <2>. QED
    BY <2>1, <2>2, <2>3, <2>4 DEF TypeOK
<1>4. CASE Quit(pl)
  <2>1. ServerTypes'
    BY <1>0, <1>4 DEF ServerTypes, ThreadTypes, Statuses, Ports, Quit
  <2>2. ThreadTypes'
    BY <1>0, <1>4, GotoTypes, FinishTypes, SameTypes DEF FreeSteps, Steps, Counted, Dialling,
       Quit
  <2>3. Purpose' /\ InHand' /\ PortIsAccounted' /\ EntryIsOpen'
    BY <1>4 DEF TypeOK, ServerTypes, ThreadTypes, Purpose, InHand, PortIsAccounted,
       EntryIsOpen, locals, Goto, Finish, Quit
  <2>4. OneListener' /\ OnHasProxy' /\ BootIsAlone'
    BY <1>4 DEF TypeOK, ServerTypes, ThreadTypes, Purpose, PortIsAccounted, OneListener,
       OnHasProxy, BootIsAlone, Serving, Ports, locals, Goto, Finish, Quit
  <2>. QED
    BY <2>1, <2>2, <2>3, <2>4 DEF TypeOK
<1>5. CASE Count(pl)
  <2>1. ServerTypes'
    BY <1>0, <1>5 DEF ServerTypes, ThreadTypes, Statuses, Ports, Count
  <2>2. ThreadTypes'
    BY <1>0, <1>5, GotoTypes, FinishTypes, SameTypes DEF FreeSteps, Steps, Counted, Dialling,
       Count
  <2>3. Purpose' /\ InHand' /\ PortIsAccounted' /\ EntryIsOpen'
    BY <1>5 DEF TypeOK, ServerTypes, ThreadTypes, Purpose, InHand, PortIsAccounted,
       EntryIsOpen, locals, Goto, Finish, Count
  <2>4. OneListener' /\ OnHasProxy' /\ BootIsAlone'
    BY <1>5 DEF TypeOK, ServerTypes, ThreadTypes, Purpose, PortIsAccounted, OneListener,
       OnHasProxy, BootIsAlone, Serving, Ports, locals, Goto, Finish, Count
  <2>. QED
    BY <2>1, <2>2, <2>3, <2>4 DEF TypeOK
<1>6. CASE Login(pl)
  <2>1. ServerTypes'
    BY <1>0, <1>6 DEF ServerTypes, ThreadTypes, Statuses, Ports, Login
  <2>2. ThreadTypes'
    BY <1>0, <1>6, GotoTypes, FinishTypes, SameTypes DEF FreeSteps, Steps, Counted, Dialling,
       Login
  <2>3. Purpose' /\ InHand' /\ PortIsAccounted' /\ EntryIsOpen'
    BY <1>6 DEF TypeOK, ServerTypes, ThreadTypes, Purpose, InHand, PortIsAccounted,
       EntryIsOpen, locals, Goto, Finish, Login
  <2>4. OneListener' /\ OnHasProxy' /\ BootIsAlone'
    BY <1>6 DEF TypeOK, ServerTypes, ThreadTypes, Purpose, PortIsAccounted, OneListener,
       OnHasProxy, BootIsAlone, Serving, Ports, locals, Goto, Finish, Login
  <2>. QED
    BY <2>1, <2>2, <2>3, <2>4 DEF TypeOK
<1>7. CASE DialOnce(pl)
  <2>1. ServerTypes'
    BY <1>0, <1>7 DEF ServerTypes, ThreadTypes, Statuses, Ports, DialOnce, Serving, Piped
  <2>2. ThreadTypes'
    BY <1>0, <1>7, PipedTypes, FinishTypes DEF FreeSteps, Steps, Counted, Dialling, DialOnce,
       Serving
  <2>3. Purpose' /\ InHand' /\ PortIsAccounted' /\ EntryIsOpen'
    BY <1>7 DEF TypeOK, ServerTypes, ThreadTypes, Purpose, InHand, PortIsAccounted,
       EntryIsOpen, locals, Goto, Finish, DialOnce, Serving, Piped
  <2>4. OneListener' /\ OnHasProxy' /\ BootIsAlone'
    BY <1>7 DEF TypeOK, ServerTypes, ThreadTypes, Purpose, PortIsAccounted, OneListener,
       OnHasProxy, BootIsAlone, Serving, Ports, locals, Goto, Finish, DialOnce, Piped
  <2>. QED
    BY <2>1, <2>2, <2>3, <2>4 DEF TypeOK
<1>8. CASE DialCheck(pl)
  <2>1. ServerTypes'
    BY <1>0, <1>8 DEF ServerTypes, ThreadTypes, Statuses, Ports, DialCheck
  <2>2. ThreadTypes'
    BY <1>0, <1>8, GotoTypes, FinishTypes, SameTypes DEF FreeSteps, Steps, Counted, Dialling,
       DialCheck
  <2>3. Purpose' /\ InHand' /\ PortIsAccounted' /\ EntryIsOpen'
    BY <1>8 DEF TypeOK, ServerTypes, ThreadTypes, Purpose, InHand, PortIsAccounted,
       EntryIsOpen, locals, Goto, Finish, DialCheck
  <2>4. OneListener' /\ OnHasProxy' /\ BootIsAlone'
    BY <1>8 DEF TypeOK, ServerTypes, ThreadTypes, Purpose, PortIsAccounted, OneListener,
       OnHasProxy, BootIsAlone, Serving, Ports, locals, Goto, Finish, DialCheck
  <2>. QED
    BY <2>1, <2>2, <2>3, <2>4 DEF TypeOK
<1>9. CASE DialTry(pl)
  <2>1. ServerTypes'
    BY <1>0, <1>9 DEF ServerTypes, ThreadTypes, Statuses, Ports, DialTry, Serving, Piped
  <2>2. ThreadTypes'
    BY <1>0, <1>9, PipedTypes, GotoTypes DEF FreeSteps, Steps, Counted, Dialling, DialTry,
       Serving
  <2>3. Purpose' /\ InHand' /\ PortIsAccounted' /\ EntryIsOpen'
    BY <1>9 DEF TypeOK, ServerTypes, ThreadTypes, Purpose, InHand, PortIsAccounted,
       EntryIsOpen, locals, Goto, Finish, DialTry, Serving, Piped
  <2>4. OneListener' /\ OnHasProxy' /\ BootIsAlone'
    BY <1>9 DEF TypeOK, ServerTypes, ThreadTypes, Purpose, PortIsAccounted, OneListener,
       OnHasProxy, BootIsAlone, Serving, Ports, locals, Goto, Finish, DialTry, Piped
  <2>. QED
    BY <2>1, <2>2, <2>3, <2>4 DEF TypeOK
<1>10. CASE PipeEnds(pl)
  <2>1. ServerTypes'
    BY <1>0, <1>10 DEF ServerTypes, ThreadTypes, Statuses, Ports, PipeEnds, Alive
  <2>2. ThreadTypes'
    BY <1>0, <1>10, GotoTypes, FinishTypes, SameTypes DEF FreeSteps, Steps, Counted, Dialling,
       PipeEnds, Alive
  <2>3. Purpose' /\ InHand' /\ PortIsAccounted' /\ EntryIsOpen'
    BY <1>10 DEF TypeOK, ServerTypes, ThreadTypes, Purpose, InHand, PortIsAccounted,
       EntryIsOpen, locals, Goto, Finish, PipeEnds, Alive
  <2>4. OneListener' /\ OnHasProxy' /\ BootIsAlone'
    BY <1>10 DEF TypeOK, ServerTypes, ThreadTypes, Purpose, PortIsAccounted, OneListener,
       OnHasProxy, BootIsAlone, Serving, Ports, locals, Goto, Finish, PipeEnds, Alive
  <2>. QED
    BY <2>1, <2>2, <2>3, <2>4 DEF TypeOK
<1>. QED
  BY <1>1, <1>2, <1>3, <1>4, <1>5, <1>6, <1>7, <1>8, <1>9, <1>10

\* The JVM and its monitor.
LEMMA JvmInv ==
  ASSUME AddressInv, NEW p \in Procs, JvmBind(p) \/ JvmExit(p) \/ Monitor(p)
  PROVE  AddressInv'
<1>. USE ThreadsAssumption, JobsAssumption DEF AddressInv, AtSteps, Threads, At, server, world
<1>0. ServerTypes /\ ThreadTypes
  BY DEF TypeOK
<1>1. CASE JvmBind(p)
  <2>1. ServerTypes'
    BY <1>0, <1>1 DEF ServerTypes, ThreadTypes, Statuses, Ports, JvmBind, PublicTaken, Serving
  <2>2. ThreadTypes'
    BY <1>0, <1>1, GotoTypes, FinishTypes, SameTypes DEF FreeSteps, Steps, Counted, Dialling,
       JvmBind, PublicTaken, Serving
  <2>3. Purpose' /\ InHand' /\ PortIsAccounted' /\ EntryIsOpen'
    BY <1>1 DEF TypeOK, ServerTypes, ThreadTypes, Purpose, InHand, PortIsAccounted,
       EntryIsOpen, locals, Goto, Finish, JvmBind, PublicTaken, Serving
  <2>4. OneListener' /\ OnHasProxy' /\ BootIsAlone'
    BY <1>1 DEF TypeOK, ServerTypes, ThreadTypes, Purpose, PortIsAccounted, OneListener,
       OnHasProxy, BootIsAlone, Serving, Ports, locals, Goto, Finish, JvmBind, PublicTaken
  <2>. QED
    BY <2>1, <2>2, <2>3, <2>4 DEF TypeOK
<1>2. CASE JvmExit(p)
  <2>1. ServerTypes'
    BY <1>0, <1>2 DEF ServerTypes, ThreadTypes, Statuses, Ports, JvmExit, Alive
  <2>2. ThreadTypes'
    BY <1>0, <1>2, GotoTypes, FinishTypes, SameTypes DEF FreeSteps, Steps, Counted, Dialling,
       JvmExit, Alive
  <2>3. Purpose' /\ InHand' /\ PortIsAccounted' /\ EntryIsOpen'
    BY <1>2 DEF TypeOK, ServerTypes, ThreadTypes, Purpose, InHand, PortIsAccounted,
       EntryIsOpen, locals, Goto, Finish, JvmExit, Alive
  <2>4. OneListener' /\ OnHasProxy' /\ BootIsAlone'
    BY <1>2 DEF TypeOK, ServerTypes, ThreadTypes, Purpose, PortIsAccounted, OneListener,
       OnHasProxy, BootIsAlone, Serving, Ports, locals, Goto, Finish, JvmExit, Alive
  <2>. QED
    BY <2>1, <2>2, <2>3, <2>4 DEF TypeOK
<1>3. CASE Monitor(p)
  <2>1. ServerTypes'
    BY <1>0, <1>3 DEF ServerTypes, ThreadTypes, Statuses, Ports, Monitor, RestingStatus
  <2>2. ThreadTypes'
    BY <1>0, <1>3, GotoTypes, FinishTypes, SameTypes DEF FreeSteps, Steps, Counted, Dialling,
       Monitor, RestingStatus
  <2>3. Purpose' /\ InHand' /\ PortIsAccounted' /\ EntryIsOpen'
    BY <1>3 DEF TypeOK, ServerTypes, ThreadTypes, Purpose, InHand, PortIsAccounted,
       EntryIsOpen, locals, Goto, Finish, Monitor, RestingStatus
  <2>4. OneListener' /\ OnHasProxy' /\ BootIsAlone'
    BY <1>3 DEF TypeOK, ServerTypes, ThreadTypes, Purpose, PortIsAccounted, OneListener,
       OnHasProxy, BootIsAlone, Serving, Ports, locals, Goto, Finish, Monitor, RestingStatus
  <2>. QED
    BY <2>1, <2>2, <2>3, <2>4 DEF TypeOK
<1>. QED
  BY <1>1, <1>2, <1>3

\* A request begins.
LEMMA BeginInv ==
  ASSUME AddressInv, Begin(Operator)
  PROVE  AddressInv'
<1>. USE ThreadsAssumption, JobsAssumption DEF AddressInv, AtSteps, Threads, At, server, world
<1>1. PICK j \in Jobs :
        /\ job' = [job EXCEPT ![Operator] = j]
        /\ \E step \in {"startGet", "wakeGet", "stopGet", "toggleGet"} :
             /\ pc' = [pc EXCEPT ![Operator] = step]
             /\ step = "toggleGet" => j \in {"on", "off"}
        /\ UNCHANGED <<server, world, row, px, proc>>
  BY DEF Begin
<1>2. j # "boot" /\ pc[Operator] = "idle"
  BY DEF Begin
<1>3. ServerTypes' /\ ThreadTypes'
  BY <1>1 DEF TypeOK, ServerTypes, ThreadTypes, Steps, Counted, Dialling
<1>4. Purpose' /\ InHand' /\ PortIsAccounted' /\ EntryIsOpen'
  BY <1>1, <1>2 DEF TypeOK, ThreadTypes, Purpose, InHand, PortIsAccounted, EntryIsOpen
<1>5. OneListener' /\ OnHasProxy' /\ BootIsAlone'
  BY <1>1, <1>2 DEF TypeOK, ThreadTypes, OneListener, OnHasProxy, BootIsAlone, Serving
<1>. QED
  BY <1>3, <1>4, <1>5 DEF TypeOK

\* A reboot closes every socket, and ends every process and every thread but one.
LEMMA RebootInv == AddressInv /\ Reboot => AddressInv'
<1>. SUFFICES ASSUME AddressInv, Reboot PROVE AddressInv'
  OBVIOUS
<1>. USE ThreadsAssumption DEF AddressInv, AtSteps, Threads, Reboot, Nothing
<1>0. ServerTypes /\ ThreadTypes
  BY DEF TypeOK
<1>1. ServerTypes'
  BY <1>0 DEF ServerTypes, Settled, Statuses
<1>2. ThreadTypes'
  <2>1. NoRow \in [status : Statuses, autoSleep : BOOLEAN]
    BY DEF NoRow, Statuses
  <2>2. [status |-> Settled, autoSleep |-> TRUE] \in [status : Statuses, autoSleep : BOOLEAN]
    BY <1>0 DEF ServerTypes, Settled, Statuses
  <2>3. \A t \in Threads : row'[t] \in [status : Statuses, autoSleep : BOOLEAN]
    BY <2>1, <2>2
  <2>4. row' \in [Threads -> [status : Statuses, autoSleep : BOOLEAN]]
    BY <2>3
  <2>. QED
    BY <2>4 DEF ThreadTypes, Steps
<1>3. Purpose' /\ InHand'
  BY DEF Purpose, InHand
<1>4. PortIsAccounted' /\ EntryIsOpen' /\ OneListener'
  BY DEF PortIsAccounted, EntryIsOpen, OneListener
<1>5. OnHasProxy' /\ BootIsAlone'
  BY DEF OnHasProxy, BootIsAlone
<1>. QED
  BY <1>1, <1>2, <1>3, <1>4, <1>5 DEF TypeOK

LEMMA InitInv == Init => AddressInv
<1>. SUFFICES ASSUME Init PROVE AddressInv
  OBVIOUS
<1>. USE ThreadsAssumption DEF Init, AtSteps, Threads, Nothing, NoRow
<1>1. ServerTypes
  BY DEF ServerTypes, Statuses, Ports
<1>2. ThreadTypes
  BY DEF ThreadTypes, Steps, Statuses
<1>3. Purpose /\ InHand /\ PortIsAccounted /\ EntryIsOpen
  BY DEF Purpose, InHand, PortIsAccounted, EntryIsOpen
<1>4. OneListener /\ OnHasProxy /\ BootIsAlone
  BY DEF OneListener, OnHasProxy, BootIsAlone
<1>. QED
  BY <1>1, <1>2, <1>3, <1>4 DEF AddressInv, TypeOK

LEMMA AddressInvNext == AddressInv /\ [Next]_vars => AddressInv'
<1>. SUFFICES ASSUME AddressInv, [Next]_vars PROVE AddressInv'
  OBVIOUS
<1>1. CASE UNCHANGED vars
  BY <1>1 DEF vars, server, world, locals, AddressInv, TypeOK, ServerTypes, ThreadTypes,
     AtSteps, Purpose, InHand, PortIsAccounted, EntryIsOpen, OneListener, OnHasProxy,
     BootIsAlone, Serving
<1>2. CASE Next
  BY <1>2, BeginInv, SetAutoSleepInv, StartServerInv, StopServerInv, WatcherInv, PlayerInv,
     JvmInv, RebootInv DEF Next, Serve
<1>. QED
  BY <1>1, <1>2

LEMMA AddressInvHolds == Spec => []AddressInv
  BY InitInv, AddressInvNext, PTL DEF Spec

\* Every value keeps to its set, and no handler goes on without the proxy or the
\* process it is about to close, store or wait for.
THEOREM AutoSleepTypesCorrect == Spec => []TypeOK
<1>1. AddressInv => TypeOK
  BY DEF AddressInv
<1>. QED
  BY AddressInvHolds, <1>1, PTL

\* However requests, logins, the idle watcher, crashes and reboots interleave, no
\* listener is forgotten (ensureSleepProxy, stopSleepProxy), and between two
\* changes of the setting a server with auto-sleep on has its proxy, and only its
\* proxy, on the public port ("Players always connect to the same address whether
\* the server is awake or not", sleepproxy/proxy.go).
THEOREM OneAddressAlways == Spec => [](PortIsAccounted /\ OneAddress)
<1>1. AddressInv => PortIsAccounted
  BY DEF AddressInv
<1>2. ASSUME AddressInv PROVE OneAddress
  <2>1. AtSteps({"proxyLook", "proxyBind", "proxyStore", "toggleUndo"}) => Toggling
    BY <1>2 DEF AddressInv, Purpose, AtSteps, Toggling
  <2>. QED
    BY <1>2, <2>1 DEF AddressInv, EntryIsOpen, OneListener, OnHasProxy, OneAddress
<1>. QED
  BY AddressInvHolds, <1>1, <1>2, PTL
=============================================================================
