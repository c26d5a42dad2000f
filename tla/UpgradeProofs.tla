---------------------------- MODULE UpgradeProofs ----------------------------
(* Proofs about module Upgrade: its types, for any number of callers; and, as*)
(* long as no two upgrades or restores overlap (nor deletions, for what the  *)
(* archives hold), that an upgrade which fails restores what it found, that  *)
(* one which succeeds has installed what it reports, that to its operator it *)
(* is one step, and that nothing that proved to run is ever lost.            *)
EXTENDS Upgrade, TLAPS

\* The steps during which a caller has a name of an archive.
OpenSteps   == BackupSteps \ {"backupOpen"}
ChangeSteps == SwapSteps \cup ProveSteps \cup RollSteps
NamedSteps  == OpenSteps \cup ChangeSteps \cup RestoreSteps \cup DeleteSteps

\* What a caller has remembered by the time it needs it.
Remembered(t) ==
  /\ pc[t] = "idle" => local[t].job = "none"
  /\ pc[t] \in ChangeSteps => local[t].job = "upgrade"
  /\ pc[t] \in RestoreSteps => local[t].job = "restore"
  /\ pc[t] \in DeleteSteps => local[t].job = "delete"
  /\ local[t].job = "upgrade" => local[t].was \in Versions /\ local[t].want \in Versions
  /\ pc[t] \in NamedSteps => local[t].name \in Names

\* A jar that is being written has a writer, and the writer is at it.
Written == \A x \in Files : file[x] \in Callers => pc[file[x]] = "write"

\* The archive a caller fills is nobody else's, and no row lists it yet.
NameIsOwn(t) ==
  ~SameSecond /\ pc[t] \in OpenSteps =>
    /\ rows[local[t].name] = 0
    /\ \A u \in Callers : local[u].name = local[t].name => u = t

TypeInv ==
  /\ TypeOK
  /\ Written
  /\ \A t \in Callers : Remembered(t)
  /\ \A t \in Callers : NameIsOwn(t)

\* No two requests of these kinds are under way; backups may be at any time.
AtMostOne(jobs) ==
  \A t, u \in Callers : local[t].job \in jobs /\ local[u].job \in jobs => t = u

SwapJobs   == {"upgrade", "restore"}
ChangeJobs == {"upgrade", "restore", "delete"}

\* Where the jar that was found is, and what stands in its place.
Placed(t) ==
  /\ pc[t] \in ProveSteps \cup RollSteps => local[t].had \in Jars
  /\ pc[t] = "setAside" => file["previous"] = None
  /\ pc[t] \in ProveSteps \cup {"rollRemove", "rollRename"} => file["previous"] = local[t].had
  /\ pc[t] \in {"download", "fetch", "rollRename"} => file["jar"] = None
  /\ pc[t] \in ProveSteps \ {"download", "fetch", "write"} => file["jar"] = local[t].want
  /\ pc[t] = "write" => file["jar"] = t
  /\ pc[t] = "rollRemove" => file["jar"] \in {None, local[t].want}
  /\ pc[t] \in {"rollVersion", "rollReady", "rollStatus"} => file["jar"] = local[t].had

\* The version and the readiness the row tells.
Told(t) ==
  /\ local[t].job = "upgrade" /\ pc[t] \in BackupSteps \cup SwapSteps => version = local[t].was
  /\ pc[t] \in {"download", "fetch", "write", "setVersion"} => version = local[t].was
  /\ pc[t] \in {"setReady", "start", "wait", "forceStop", "commit"} => version = local[t].want
  /\ pc[t] \in {"start", "wait", "forceStop", "commit"} => ready = TRUE
  /\ pc[t] \in {"rollRemove", "rollRename", "rollVersion"} =>
       version \in {local[t].was, local[t].want}
  /\ pc[t] \in {"rollReady", "rollStatus"} => version = local[t].was
  /\ pc[t] = "rollStatus" => ready = (local[t].had # None)

\* The invariant of the swap, while upgrades and restores come one at a time.
SwapInv == TypeInv /\ \A t \in Callers : Placed(t) /\ Told(t)

\* The archive of an upgrade as it is filled, and from then on the copy it holds.
Filled(t) ==
  LET a == archive[local[t].name]
  IN  local[t].job = "upgrade" =>
      /\ pc[t] \in OpenSteps => a # None
      /\ pc[t] \in {"backupWalk", "backupRead", "backupClose"} => a.state = "open"
      /\ pc[t] = "backupInsert" => a.state = "whole"
      /\ pc[t] = "backupWalk" => a.jar = None /\ a.previous = None
      /\ pc[t] = "backupRead" => \A x \in Files \ local[t].walk : a[x] = file[x]
      /\ pc[t] \in {"backupClose", "backupInsert", "clearPrevious"} =>
           a.jar = file["jar"] /\ a.previous = file["previous"]

\* From the insert on, the archive is listed; its jar is the one found.
Secured(t) ==
  LET n == local[t].name
  IN  pc[t] \in ChangeSteps =>
        /\ rows[n] > 0 /\ archive[n] # None /\ archive[n].state = "whole"
        /\ archive[n].jar = IF pc[t] \in SwapSteps THEN file["jar"] ELSE local[t].had

\* A restore begins from an empty directory, a row outlives its archive.
Emptied(t) ==
  /\ pc[t] = "restoreExtract" => \A x \in Files : file[x] = None
  /\ pc[t] \in DeleteSteps => rows[local[t].name] > 0
  /\ pc[t] = "deleteRow" => archive[local[t].name] = None

\* The jar g is in a whole archive that a row lists.
Listed(g) ==
  \E n \in Names :
    /\ rows[n] > 0 /\ archive[n] # None /\ archive[n].state = "whole"
    /\ archive[n].jar = g \/ archive[n].previous = g

\* While an upgrade changes files, it is an archive that keeps the good jar.
Safe(t) == pc[t] \in ChangeSteps /\ good # None => Listed(good)

\* What a request knows of the archives.
Knows(t) == Filled(t) /\ Secured(t) /\ Emptied(t) /\ Safe(t)

\* The invariant of the archives, when there is one name for each.
UpgradeInv ==
  /\ SwapInv
  /\ NothingLost
  /\ \A t \in Callers : Knows(t)

-----------------------------------------------------------------------------
(* Types, for any number of callers.                                       *)

LEMMA InitTypes == Init => TypeInv
<1>. SUFFICES ASSUME Init PROVE TypeInv
  OBVIOUS
<1>. USE NamesAssumption DEF Init, Files, Jars
<1>1. /\ status \in Statuses /\ ready \in BOOLEAN /\ autoSleep \in BOOLEAN
      /\ rows \in [Names -> 0..1] /\ rows \in [Names -> Nat]
  BY DEF Statuses, Resting
<1>2. file \in [Files -> Jars \cup Callers] /\ jvm \in [Procs -> Jars]
  OBVIOUS
<1>3. NoLocal \in Locals
  BY DEF NoLocal, Locals
<1>4. TypeOK
  BY <1>1, <1>2, <1>3 DEF TypeOK
<1>5. Written /\ \A t \in Callers : Remembered(t) /\ NameIsOwn(t)
  BY DEF Written, Remembered, NameIsOwn, NoLocal, OpenSteps, ChangeSteps,
         NamedSteps, BackupSteps, SwapSteps, ProveSteps, RollSteps, RestoreSteps, DeleteSteps
<1>. QED
  BY <1>4, <1>5 DEF TypeInv

\* What the server does around the requests: neither a file nor a caller moves.
LEMMA AroundTypes ==
  ASSUME TypeInv, Start \/ Stop \/ (\E p \in Procs : Crash(p)) \/ Retry
  PROVE  TypeInv'
<1>. USE NamesAssumption DEF Untouched, disk
<1>1. status' \in Statuses /\ backoff' \in BOOLEAN
  BY DEF TypeInv, TypeOK, Start, Stop, Crash, Retry, Launch, Refuse, Reject, Halt, Resting,
     Statuses
<1>2. jvm' \in [Procs -> Jars] /\ process' \in Procs \cup {None}
  BY DEF TypeInv, TypeOK, Start, Stop, Crash, Retry, Launch, Refuse, Reject, Halt, Copied,
     Files, Jars
<1>3. Untouched
  BY DEF Start, Stop, Crash, Retry
<1>. QED
  BY <1>1, <1>2, <1>3 DEF TypeInv, TypeOK, Written, Remembered, NameIsOwn

LEMMA RebootTypes == TypeInv /\ Reboot => TypeInv'
<1>. SUFFICES ASSUME TypeInv, Reboot PROVE TypeInv'
  OBVIOUS
<1>. USE NamesAssumption DEF TypeInv, TypeOK, Reboot, Files, Jars
<1>1. status' \in Statuses /\ ready' \in BOOLEAN /\ jvm' \in [Procs -> Jars]
  BY DEF Statuses
<1>2. \A x \in Files : file'[x] \in Jars
  BY DEF Copied
<1>3. archive' \in [Names -> {None} \cup Archives] /\ file' \in [Files -> Jars]
  BY <1>2
<1>4. NoLocal \in Locals
  BY DEF NoLocal, Locals
<1>5. TypeOK'
  BY <1>1, <1>3, <1>4
<1>6. Written' /\ \A t \in Callers : Remembered(t)' /\ NameIsOwn(t)'
  BY <1>2 DEF Written, Remembered, NameIsOwn, NoLocal, OpenSteps, ChangeSteps,
         NamedSteps, BackupSteps, SwapSteps, ProveSteps, RollSteps, RestoreSteps, DeleteSteps
<1>. QED
  BY <1>5, <1>6

LEMMA RequestTypes ==
  ASSUME TypeInv, NEW t \in Callers, Request(t)
  PROVE  TypeInv'
<1>. USE NamesAssumption, BoundsAssumption
       DEF TypeInv, TypeOK, Written, Remembered, NameIsOwn, OpenSteps, ChangeSteps,
           NamedSteps, BackupSteps, SwapSteps, ProveSteps, RollSteps, RestoreSteps,
           DeleteSteps, Files, Jars, Archives, Statuses, Locals, Step, At, Goto, Finish,
           NoLocal, database, disk, runtime
<1>0. local[t] \in Locals
  OBVIOUS
<1>1. CASE Backup(t)
  BY <1>1 DEF Backup
<1>2. ASSUME NEW v \in Versions, Upgrade(t, v) PROVE TypeInv'
  <2>1. [local[t] EXCEPT !.job = "upgrade", !.was = version, !.want = v] \in Locals
    BY <1>0, <1>2 DEF Upgrade
  <2>2. TypeOK'
    BY <1>2, <2>1 DEF Upgrade
  <2>3. Written' /\ \A u \in Callers : Remembered(u)' /\ NameIsOwn(u)'
    BY <1>2 DEF Upgrade
  <2>. QED
    BY <2>2, <2>3
<1>3. ASSUME NEW n \in Names, Restore(t, n) PROVE TypeInv'
  <2>1. [local[t] EXCEPT !.job = "restore", !.name = n] \in Locals
    BY <1>0, <1>3 DEF Restore
  <2>2. TypeOK'
    BY <1>3, <2>1 DEF Restore
  <2>3. Written' /\ \A u \in Callers : Remembered(u)' /\ NameIsOwn(u)'
    BY <1>3 DEF Restore
  <2>. QED
    BY <2>2, <2>3
<1>4. ASSUME NEW n \in Names, Delete(t, n) PROVE TypeInv'
  <2>1. [local[t] EXCEPT !.job = "delete", !.name = n] \in Locals
    BY <1>0, <1>4 DEF Delete
  <2>2. TypeOK'
    BY <1>4, <2>1 DEF Delete
  <2>3. Written' /\ \A u \in Callers : Remembered(u)' /\ NameIsOwn(u)'
    BY <1>4 DEF Delete
  <2>. QED
    BY <2>2, <2>3
<1>. QED
  BY <1>1, <1>2, <1>3, <1>4 DEF Request

LEMMA CreateBackupTypes ==
  ASSUME TypeInv, NEW t \in Callers, CreateBackup(t)
  PROVE  TypeInv'
<1>. USE NamesAssumption, BoundsAssumption
       DEF TypeInv, TypeOK, Written, Remembered, NameIsOwn, OpenSteps, ChangeSteps,
           NamedSteps, BackupSteps, SwapSteps, ProveSteps, RollSteps, RestoreSteps,
           DeleteSteps, Files, Jars, Archives, Statuses, Locals, Step, At, Goto, Finish,
           NoLocal, database, disk, runtime
<1>0. local[t] \in Locals
  OBVIOUS
<1>1. CASE BackupOpen(t)
  <2>1. TypeOK'
    <3>0. \A s \in {"torn", "open"} : [state |-> s, jar |-> None, previous |-> None] \in Archives
      OBVIOUS
    <3>1. PICK n \in Names, a \in Archives :
            /\ local' = [local EXCEPT ![t].name = n]
            /\ archive' = [archive EXCEPT ![n] = a]
            /\ latest' \in Names \cup {None}
      <4>. HIDE DEF Archives, Locals, TypeOK, Written, Remembered, NameIsOwn
      <4>. QED
        BY <1>1, <3>0 DEF BackupOpen
    <3>2. [local[t] EXCEPT !.name = n] \in Locals
      BY <1>0
    <3>3. local' \in [Callers -> Locals] /\ archive' \in [Names -> {None} \cup Archives]
      BY <3>1, <3>2
    <3>. QED
      BY <1>1, <3>1, <3>3 DEF BackupOpen
  <2>2. Written' /\ \A u \in Callers : Remembered(u)'
    BY <1>1 DEF BackupOpen
  <2>3. \A u \in Callers : NameIsOwn(u)'
    BY <1>1 DEF BackupOpen
  <2>. QED
    BY <2>1, <2>2, <2>3
<1>2. CASE BackupWalk(t)
  BY <1>2 DEF BackupWalk
<1>3. CASE BackupRead(t)
  <2>1. TypeOK'
    <3>1. \A x \in Files : Copied(file[x]) \in Jars
      BY DEF Copied
    <3>2. archive' \in [Names -> {None} \cup Archives]
      BY <1>3, <3>1 DEF BackupRead, Archived
    <3>3. pc' = pc \/ pc' = [pc EXCEPT ![t] = "backupClose"]
      BY <1>3 DEF BackupRead
    <3>4. local' = local \/ \E x \in Files : local' = [local EXCEPT ![t].walk = @ \ {x}]
      BY <1>3 DEF BackupRead
    <3>5. local' \in [Callers -> Locals]
      BY <1>0, <3>4
    <3>. QED
      BY <1>3, <3>2, <3>3, <3>5 DEF BackupRead
  <2>2. Written' /\ \A u \in Callers : Remembered(u)'
    BY <1>3 DEF BackupRead
  <2>3. \A u \in Callers : NameIsOwn(u)'
    BY <1>3 DEF BackupRead
  <2>. QED
    BY <2>1, <2>2, <2>3
<1>4. CASE BackupFails(t)
  BY <1>4 DEF BackupFails
<1>5. CASE BackupClose(t)
  BY <1>5 DEF BackupClose
<1>6. CASE BackupInsert(t)
  <2>1. TypeOK'
    <3>1. /\ pc[t] = "backupInsert" /\ local[t].name \in Names
          /\ ~SameSecond => rows[local[t].name] = 0
      BY <1>6 DEF BackupInsert
    <3>2. rows' = rows \/ rows' = [rows EXCEPT ![local[t].name] = @ + 1]
      BY <1>6 DEF BackupInsert
    <3>3. IF SameSecond THEN rows' \in [Names -> Nat] ELSE rows' \in [Names -> 0..1]
      BY <3>1, <3>2
    <3>4. pc' = [pc EXCEPT ![t] = "idle"] \/ pc' = [pc EXCEPT ![t] = "clearPrevious"]
      BY <1>6 DEF BackupInsert
    <3>5. local' = local \/ local' = [local EXCEPT ![t] = NoLocal]
      BY <1>6 DEF BackupInsert
    <3>. QED
      BY <1>6, <3>3, <3>4, <3>5 DEF BackupInsert
  <2>2. Written' /\ \A u \in Callers : Remembered(u)'
    BY <1>6 DEF BackupInsert
  <2>3. \A u \in Callers : NameIsOwn(u)'
    BY <1>6 DEF BackupInsert
  <2>. QED
    BY <2>1, <2>2, <2>3
<1>. QED
  BY <1>1, <1>2, <1>3, <1>4, <1>5, <1>6 DEF CreateBackup

LEMMA UpgradeServerTypes ==
  ASSUME TypeInv, NEW t \in Callers, UpgradeServer(t)
  PROVE  TypeInv'
<1>. USE NamesAssumption, BoundsAssumption
       DEF TypeInv, TypeOK, Written, Remembered, NameIsOwn, OpenSteps, ChangeSteps,
           NamedSteps, BackupSteps, SwapSteps, ProveSteps, RollSteps, RestoreSteps,
           DeleteSteps, Files, Jars, Archives, Statuses, Locals, Step, At, Goto, Finish,
           NoLocal, database, disk, runtime
<1>1. CASE ClearPrevious(t)
  BY <1>1 DEF ClearPrevious
<1>2. CASE SetAside(t)
  BY <1>2 DEF SetAside
<1>3. CASE Download(t)
  BY <1>3 DEF Download
<1>4. CASE Fetch(t)
  BY <1>4 DEF Fetch
<1>5. CASE Write(t)
  BY <1>5 DEF Write
<1>6. CASE WriteFails(t)
  BY <1>6 DEF WriteFails
<1>7. CASE SetVersion(t)
  BY <1>7 DEF SetVersion
<1>8. CASE SetReady(t)
  BY <1>8 DEF SetReady
<1>9. CASE TrialStart(t)
  BY <1>9 DEF TrialStart, Launch, Refuse, Reject, Copied, Resting
<1>10. CASE Answered(t)
  <2>1. TypeOK'
    BY <1>10 DEF Answered
  <2>2. Written' /\ \A u \in Callers : Remembered(u)'
    BY <1>10 DEF Answered
  <2>3. \A u \in Callers : NameIsOwn(u)'
    BY <1>10 DEF Answered
  <2>. QED
    BY <2>1, <2>2, <2>3
<1>11. CASE Unanswered(t)
  BY <1>11 DEF Unanswered
<1>12. CASE ForceStop(t)
  BY <1>12 DEF ForceStop, Halt, Reject, Resting
<1>13. CASE Commit(t)
  BY <1>13 DEF Commit
<1>. QED
  BY <1>1, <1>2, <1>3, <1>4, <1>5, <1>6, <1>7, <1>8, <1>9, <1>10, <1>11, <1>12, <1>13 DEF
     UpgradeServer

LEMMA RollbackTypes ==
  ASSUME TypeInv, NEW t \in Callers, Rollback(t)
  PROVE  TypeInv'
<1>. USE NamesAssumption, BoundsAssumption
       DEF TypeInv, TypeOK, Written, Remembered, NameIsOwn, OpenSteps, ChangeSteps,
           NamedSteps, BackupSteps, SwapSteps, ProveSteps, RollSteps, RestoreSteps,
           DeleteSteps, Files, Jars, Archives, Statuses, Locals, Step, At, Goto, Finish,
           NoLocal, database, disk, runtime
<1>1. CASE RollRemove(t)
  BY <1>1 DEF RollRemove
<1>2. CASE RollRename(t)
  BY <1>2 DEF RollRename
<1>3. CASE RollVersion(t)
  BY <1>3 DEF RollVersion
<1>4. CASE RollReady(t)
  BY <1>4 DEF RollReady
<1>5. CASE RollStatus(t)
  BY <1>5 DEF RollStatus, Resting
<1>. QED
  BY <1>1, <1>2, <1>3, <1>4, <1>5 DEF Rollback

LEMMA RestoreBackupTypes ==
  ASSUME TypeInv, NEW t \in Callers, RestoreBackup(t)
  PROVE  TypeInv'
<1>. USE NamesAssumption, BoundsAssumption
       DEF TypeInv, TypeOK, Written, Remembered, NameIsOwn, OpenSteps, ChangeSteps,
           NamedSteps, BackupSteps, SwapSteps, ProveSteps, RollSteps, RestoreSteps,
           DeleteSteps, Files, Jars, Archives, Statuses, Locals, Step, At, Goto, Finish,
           NoLocal, database, disk, runtime
<1>1. CASE RestoreClear(t)
  BY <1>1 DEF RestoreClear, Rehold
<1>2. CASE RestoreExtract(t)
  BY <1>2 DEF RestoreExtract
<1>. QED
  BY <1>1, <1>2 DEF RestoreBackup

LEMMA DeleteBackupTypes ==
  ASSUME TypeInv, NEW t \in Callers, DeleteBackup(t)
  PROVE  TypeInv'
<1>. USE NamesAssumption, BoundsAssumption
       DEF TypeInv, TypeOK, Written, Remembered, NameIsOwn, OpenSteps, ChangeSteps,
           NamedSteps, BackupSteps, SwapSteps, ProveSteps, RollSteps, RestoreSteps,
           DeleteSteps, Files, Jars, Archives, Statuses, Locals, Step, At, Goto, Finish,
           NoLocal, database, disk, runtime
<1>1. CASE DeleteFile(t)
  BY <1>1 DEF DeleteFile, Rehold
<1>2. CASE DeleteRow(t)
  BY <1>2 DEF DeleteRow
<1>. QED
  BY <1>1, <1>2 DEF DeleteBackup

\* Every value keeps to its set, however many requests run together; while no two
\* backups are of one second, no archive is listed twice (rows, of CreateBackup).
THEOREM UpgradeTypesCorrect == Spec => []TypeOK
<1>1. TypeInv /\ [Next]_vars => TypeInv'
  <2>. SUFFICES ASSUME TypeInv, [Next]_vars PROVE TypeInv'
    OBVIOUS
  <2>1. CASE UNCHANGED vars
    BY <2>1 DEF vars, database, disk, runtime, TypeInv, TypeOK, Written, Remembered, NameIsOwn
  <2>2. CASE Next
    BY <2>2, AroundTypes, RebootTypes, RequestTypes, CreateBackupTypes, UpgradeServerTypes,
       RollbackTypes, RestoreBackupTypes, DeleteBackupTypes DEF Next
  <2>. QED
    BY <2>1, <2>2
<1>2. TypeInv => TypeOK
  BY DEF TypeInv
<1>. QED
  BY InitTypes, <1>1, <1>2, PTL DEF Spec

-----------------------------------------------------------------------------
(* The jar, the version and the readiness, while upgrades and restores     *)
(* come one at a time.                                                     *)

\* A step of one caller leaves the others where they are.
OnlyMoves(t) ==
  \A u \in Callers \ {t} : pc'[u] = pc[u] /\ local'[u] = local[u]

LEMMA CreateBackupMoves ==
  ASSUME TypeInv, NEW t \in Callers, CreateBackup(t)
  PROVE  OnlyMoves(t) /\ UNCHANGED <<file, version, ready, good>>
<1>1. UNCHANGED <<file, version, ready, good>>
  <2>1. CASE BackupOpen(t) \/ BackupWalk(t) \/ BackupRead(t)
    BY <2>1 DEF BackupOpen, BackupWalk, BackupRead, database, disk
  <2>2. CASE BackupFails(t) \/ BackupClose(t) \/ BackupInsert(t)
    BY <2>2 DEF BackupFails, BackupClose, BackupInsert, database, disk
  <2>. QED
    BY <2>1, <2>2 DEF CreateBackup
<1>2. OnlyMoves(t)
  <2>. USE DEF TypeInv, TypeOK, OnlyMoves, Step, At, Goto, Finish
  <2>1. CASE BackupOpen(t) \/ BackupWalk(t)
    BY <2>1 DEF BackupOpen, BackupWalk
  <2>2. CASE BackupRead(t)
    BY <2>2 DEF BackupRead
  <2>3. CASE BackupFails(t) \/ BackupClose(t)
    BY <2>3 DEF BackupFails, BackupClose
  <2>4. CASE BackupInsert(t)
    BY <2>4 DEF BackupInsert
  <2>. QED
    BY <2>1, <2>2, <2>3, <2>4 DEF CreateBackup
<1>. QED
  BY <1>1, <1>2

LEMMA RequestMoves ==
  ASSUME TypeInv, NEW t \in Callers, Request(t)
  PROVE  OnlyMoves(t) /\ UNCHANGED <<file, version, ready, archive, rows, good>>
  BY DEF Request, Backup, Upgrade, Restore, Delete, TypeInv, TypeOK, OnlyMoves, Step, At,
         Goto, database, disk

LEMMA UpgradeServerMoves ==
  ASSUME TypeInv, NEW t \in Callers, UpgradeServer(t)
  PROVE  OnlyMoves(t) /\ local[t].job = "upgrade" /\ UNCHANGED <<archive, rows>>
<1>1. pc[t] \in ChangeSteps
  BY DEF UpgradeServer, ClearPrevious, SetAside, Download, Fetch, Write, WriteFails,
         SetVersion, SetReady, TrialStart, Answered, Unanswered, ForceStop, Commit, Step, At,
         ChangeSteps, SwapSteps, ProveSteps
<1>2. OnlyMoves(t) /\ UNCHANGED <<archive, rows>>
  BY DEF UpgradeServer, ClearPrevious, SetAside, Download, Fetch, Write, WriteFails,
         SetVersion, SetReady, TrialStart, Answered, Unanswered, ForceStop, Commit, TypeInv,
         TypeOK, OnlyMoves, Step, At, Goto, Finish, database, disk
<1>. QED
  BY <1>1, <1>2 DEF TypeInv, Remembered

LEMMA RollbackMoves ==
  ASSUME TypeInv, NEW t \in Callers, Rollback(t)
  PROVE  OnlyMoves(t) /\ local[t].job = "upgrade" /\ UNCHANGED <<archive, rows>>
<1>1. pc[t] \in ChangeSteps
  BY DEF Rollback, RollRemove, RollRename, RollVersion, RollReady, RollStatus, Step, At,
         ChangeSteps, RollSteps
<1>2. OnlyMoves(t) /\ UNCHANGED <<archive, rows>>
  BY DEF Rollback, RollRemove, RollRename, RollVersion, RollReady, RollStatus, TypeInv,
         TypeOK, OnlyMoves, Step, At, Goto, Finish, database, disk
<1>. QED
  BY <1>1, <1>2 DEF TypeInv, Remembered

LEMMA RestoreBackupMoves ==
  ASSUME TypeInv, NEW t \in Callers, RestoreBackup(t)
  PROVE  OnlyMoves(t) /\ local[t].job = "restore" /\ UNCHANGED <<archive, rows>>
  BY DEF RestoreBackup, RestoreClear, RestoreExtract, RestoreSteps, TypeInv, TypeOK,
         Remembered, OnlyMoves, Step, At, Goto, Finish, database

LEMMA DeleteBackupMoves ==
  ASSUME TypeInv, NEW t \in Callers, DeleteBackup(t)
  PROVE  OnlyMoves(t) /\ local[t].job = "delete" /\ UNCHANGED <<file, version, ready>>
  BY DEF DeleteBackup, DeleteFile, DeleteRow, DeleteSteps, TypeInv, TypeOK,
         Remembered, OnlyMoves, Step, At, Goto, Finish, database, disk

\* What a caller does, it does alone, or it touches nothing of the swap.
LEMMA OthersSwap ==
  ASSUME SwapInv, AtMostOne(SwapJobs), NEW t \in Callers, OnlyMoves(t),
         local[t].job \in SwapJobs \/ UNCHANGED <<file, version, ready>>,
         NEW u \in Callers \ {t}
  PROVE  (Placed(u) /\ Told(u))'
<1>1. pc'[u] = pc[u] /\ local'[u] = local[u] /\ Placed(u) /\ Told(u)
  BY DEF OnlyMoves, SwapInv
<1>2. CASE UNCHANGED <<file, version, ready>>
  BY <1>1, <1>2 DEF Placed, Told
<1>3. CASE local[t].job \in SwapJobs
  <2>1. local[u].job # "upgrade"
    BY <1>3 DEF AtMostOne, SwapJobs
  <2>2. pc[u] \notin SwapSteps \cup ProveSteps \cup RollSteps
    BY <2>1 DEF SwapInv, TypeInv, Remembered, ChangeSteps
  <2>. QED
    BY <1>1, <2>1, <2>2 DEF Placed, Told, SwapSteps, ProveSteps, RollSteps
<1>. QED
  BY <1>2, <1>3

LEMMA InitSwap == Init => SwapInv
  BY InitTypes DEF Init, SwapInv, NoLocal, Placed, Told, BackupSteps, SwapSteps, ProveSteps,
                   RollSteps

\* A start, a stop or a crash touches neither the files nor what the row tells.
LEMMA AroundSwap ==
  ASSUME SwapInv, Start \/ Stop \/ (\E p \in Procs : Crash(p)) \/ Retry
  PROVE  SwapInv'
<1>1. TypeInv'
  BY AroundTypes DEF SwapInv
<1>2. Untouched
  BY DEF Start, Stop, Crash, Retry
<1>. QED
  BY <1>1, <1>2 DEF SwapInv, Untouched, disk, Placed, Told

LEMMA RebootSwap == SwapInv /\ Reboot => SwapInv'
  BY RebootTypes DEF Reboot, SwapInv, NoLocal, Placed, Told, BackupSteps, SwapSteps, ProveSteps,
                     RollSteps

LEMMA RequestSwap ==
  ASSUME SwapInv, AtMostOne(SwapJobs), NEW t \in Callers, Request(t)
  PROVE  SwapInv'
<1>0. /\ TypeInv'
      /\ \A u \in Callers \ {t} : (Placed(u) /\ Told(u))'
  BY RequestTypes, RequestMoves, OthersSwap DEF SwapInv, SwapJobs
<1>. SUFFICES Placed(t)' /\ Told(t)'
  BY <1>0 DEF SwapInv
<1>. USE NamesAssumption, BoundsAssumption
       DEF SwapInv, TypeInv, TypeOK, Written, Remembered, OpenSteps,
           ChangeSteps, NamedSteps, BackupSteps, SwapSteps, ProveSteps, RollSteps,
           RestoreSteps, DeleteSteps, Files, Jars, Archives, Locals, Step, At, Goto,
           Finish, NoLocal, database, disk, runtime
<1>1. CASE Backup(t)
  BY <1>1 DEF Backup, Placed, Told
<1>2. ASSUME NEW v \in Versions, Upgrade(t, v) PROVE Placed(t)' /\ Told(t)'
  BY <1>2 DEF Upgrade, Placed, Told
<1>3. ASSUME NEW n \in Names, Restore(t, n) PROVE Placed(t)' /\ Told(t)'
  BY <1>3 DEF Restore, Placed, Told
<1>4. ASSUME NEW n \in Names, Delete(t, n) PROVE Placed(t)' /\ Told(t)'
  BY <1>4 DEF Delete, Placed, Told
<1>. QED
  BY <1>1, <1>2, <1>3, <1>4 DEF Request

LEMMA CreateBackupSwap ==
  ASSUME SwapInv, AtMostOne(SwapJobs), NEW t \in Callers, CreateBackup(t)
  PROVE  SwapInv'
<1>0. /\ TypeInv'
      /\ \A u \in Callers \ {t} : (Placed(u) /\ Told(u))'
  BY CreateBackupTypes, CreateBackupMoves, OthersSwap DEF SwapInv, SwapJobs
<1>. SUFFICES Placed(t)' /\ Told(t)'
  BY <1>0 DEF SwapInv
<1>. USE NamesAssumption, BoundsAssumption
       DEF SwapInv, TypeInv, TypeOK, Written, Remembered, OpenSteps,
           ChangeSteps, NamedSteps, BackupSteps, SwapSteps, ProveSteps, RollSteps,
           RestoreSteps, DeleteSteps, Files, Jars, Archives, Locals, Step, At, Goto,
           Finish, NoLocal, database, disk, runtime
<1>1. CASE BackupOpen(t)
  BY <1>1 DEF BackupOpen, Placed, Told
<1>2. CASE BackupWalk(t)
  BY <1>2 DEF BackupWalk, Placed, Told
<1>3. CASE BackupRead(t)
  BY <1>3 DEF BackupRead, Placed, Told
<1>4. CASE BackupFails(t)
  BY <1>4 DEF BackupFails, Placed, Told
<1>5. CASE BackupClose(t)
  BY <1>5 DEF BackupClose, Placed, Told
<1>6. CASE BackupInsert(t)
  BY <1>6 DEF BackupInsert, Placed, Told
<1>. QED
  BY <1>1, <1>2, <1>3, <1>4, <1>5, <1>6 DEF CreateBackup

LEMMA UpgradeServerSwap ==
  ASSUME SwapInv, AtMostOne(SwapJobs), NEW t \in Callers, UpgradeServer(t)
  PROVE  SwapInv'
<1>0. /\ TypeInv'
      /\ \A u \in Callers \ {t} : (Placed(u) /\ Told(u))'
  BY UpgradeServerTypes, UpgradeServerMoves, OthersSwap DEF SwapInv, SwapJobs
<1>. SUFFICES Placed(t)' /\ Told(t)'
  BY <1>0 DEF SwapInv
<1>. USE NamesAssumption, BoundsAssumption
       DEF SwapInv, TypeInv, TypeOK, Written, Remembered, OpenSteps,
           ChangeSteps, NamedSteps, BackupSteps, SwapSteps, ProveSteps, RollSteps,
           RestoreSteps, DeleteSteps, Files, Jars, Archives, Locals, Step, At, Goto,
           Finish, NoLocal, database, disk, runtime
<1>1. CASE ClearPrevious(t)
  BY <1>1 DEF ClearPrevious, Placed, Told
<1>2. CASE SetAside(t)
  <2>1. /\ pc[t] = "setAside" /\ pc'[t] = "download"
        /\ local'[t] = [local[t] EXCEPT !.had = file["jar"]] /\ local[t] \in Locals
        /\ file["previous"] = None /\ version' = version /\ version = local[t].was
        /\ file'["jar"] = None /\ file'["previous"] = file["jar"]
    BY <1>2 DEF SetAside, Placed, Told
  <2>2. file["jar"] \in Jars
    <3>1. ASSUME file["jar"] \in Callers PROVE FALSE
      <4>1. pc[file["jar"]] = "write"
        BY <3>1
      <4>2. local[file["jar"]].job = "upgrade" /\ local[t].job = "upgrade"
        BY <2>1, <3>1, <4>1
      <4>. QED
        BY <2>1, <3>1, <4>1, <4>2 DEF AtMostOne, SwapJobs
    <3>. QED
      BY <3>1
  <2>3. local'[t].had = file["jar"] /\ local'[t].was = local[t].was
    BY <2>1
  <2>. QED
    BY <2>1, <2>2, <2>3 DEF Placed, Told
<1>3. CASE Download(t)
  BY <1>3 DEF Download, Placed, Told
<1>4. CASE Fetch(t)
  BY <1>4 DEF Fetch, Placed, Told
<1>5. CASE Write(t)
  BY <1>5 DEF Write, Placed, Told
<1>6. CASE WriteFails(t)
  BY <1>6 DEF WriteFails, Placed, Told
<1>7. CASE SetVersion(t)
  BY <1>7 DEF SetVersion, Placed, Told
<1>8. CASE SetReady(t)
  <2>1. Placed(t)'
    BY <1>8 DEF SetReady, Placed
  <2>2. Told(t)'
    BY <1>8 DEF SetReady, Told
  <2>. QED
    BY <2>1, <2>2
<1>9. CASE TrialStart(t)
  BY <1>9 DEF TrialStart, Launch, Refuse, Reject, Resting, Placed, Told
<1>10. CASE Answered(t)
  BY <1>10 DEF Answered, Placed, Told
<1>11. CASE Unanswered(t)
  BY <1>11 DEF Unanswered, Placed, Told
<1>12. CASE ForceStop(t)
  BY <1>12 DEF ForceStop, Halt, Reject, Resting, Placed, Told
<1>13. CASE Commit(t)
  BY <1>13 DEF Commit, Placed, Told
<1>. QED
  BY <1>1, <1>2, <1>3, <1>4, <1>5, <1>6, <1>7, <1>8, <1>9, <1>10, <1>11, <1>12, <1>13 DEF
     UpgradeServer

LEMMA RollbackSwap ==
  ASSUME SwapInv, AtMostOne(SwapJobs), NEW t \in Callers, Rollback(t)
  PROVE  SwapInv'
<1>0. /\ TypeInv'
      /\ \A u \in Callers \ {t} : (Placed(u) /\ Told(u))'
  BY RollbackTypes, RollbackMoves, OthersSwap DEF SwapInv, SwapJobs
<1>. SUFFICES Placed(t)' /\ Told(t)'
  BY <1>0 DEF SwapInv
<1>. USE NamesAssumption, BoundsAssumption
       DEF SwapInv, TypeInv, TypeOK, Written, Remembered, OpenSteps,
           ChangeSteps, NamedSteps, BackupSteps, SwapSteps, ProveSteps, RollSteps,
           RestoreSteps, DeleteSteps, Files, Jars, Archives, Locals, Step, At, Goto,
           Finish, NoLocal, database, disk, runtime
<1>1. CASE RollRemove(t)
  BY <1>1 DEF RollRemove, Placed, Told
<1>2. CASE RollRename(t)
  BY <1>2 DEF RollRename, Placed, Told
<1>3. CASE RollVersion(t)
  BY <1>3 DEF RollVersion, Placed, Told
<1>4. CASE RollReady(t)
  BY <1>4 DEF RollReady, Placed, Told
<1>5. CASE RollStatus(t)
  BY <1>5 DEF RollStatus, Resting, Placed, Told
<1>. QED
  BY <1>1, <1>2, <1>3, <1>4, <1>5 DEF Rollback

LEMMA RestoreBackupSwap ==
  ASSUME SwapInv, AtMostOne(SwapJobs), NEW t \in Callers, RestoreBackup(t)
  PROVE  SwapInv'
<1>0. /\ TypeInv'
      /\ \A u \in Callers \ {t} : (Placed(u) /\ Told(u))'
  BY RestoreBackupTypes, RestoreBackupMoves, OthersSwap DEF SwapInv, SwapJobs
<1>. SUFFICES Placed(t)' /\ Told(t)'
  BY <1>0 DEF SwapInv
<1>. USE NamesAssumption, BoundsAssumption
       DEF SwapInv, TypeInv, TypeOK, Written, Remembered, OpenSteps,
           ChangeSteps, NamedSteps, BackupSteps, SwapSteps, ProveSteps, RollSteps,
           RestoreSteps, DeleteSteps, Files, Jars, Archives, Locals, Step, At, Goto,
           Finish, NoLocal, database, disk, runtime
<1>1. CASE RestoreClear(t)
  BY <1>1 DEF RestoreClear, Placed, Told
<1>2. CASE RestoreExtract(t)
  <2>1. pc'[t] = "idle" /\ local'[t] = NoLocal
    BY <1>2 DEF RestoreExtract
  <2>. QED
    BY <2>1 DEF Placed, Told
<1>. QED
  BY <1>1, <1>2 DEF RestoreBackup

LEMMA DeleteBackupSwap ==
  ASSUME SwapInv, AtMostOne(SwapJobs), NEW t \in Callers, DeleteBackup(t)
  PROVE  SwapInv'
<1>0. /\ TypeInv'
      /\ \A u \in Callers \ {t} : (Placed(u) /\ Told(u))'
  BY DeleteBackupTypes, DeleteBackupMoves, OthersSwap DEF SwapInv, SwapJobs
<1>. SUFFICES Placed(t)' /\ Told(t)'
  BY <1>0 DEF SwapInv
<1>. USE NamesAssumption, BoundsAssumption
       DEF SwapInv, TypeInv, TypeOK, Written, Remembered, OpenSteps,
           ChangeSteps, NamedSteps, BackupSteps, SwapSteps, ProveSteps, RollSteps,
           RestoreSteps, DeleteSteps, Files, Jars, Archives, Locals, Step, At, Goto,
           Finish, NoLocal, database, disk, runtime
<1>1. CASE DeleteFile(t)
  BY <1>1 DEF DeleteFile, Placed, Told
<1>2. CASE DeleteRow(t)
  BY <1>2 DEF DeleteRow, Placed, Told
<1>. QED
  BY <1>1, <1>2 DEF DeleteBackup

LEMMA SwapInvHolds ==
  Spec /\ []AtMostOne(SwapJobs) => []SwapInv
<1>1. SwapInv /\ AtMostOne(SwapJobs) /\ [Next]_vars => SwapInv'
  <2>. SUFFICES ASSUME SwapInv, AtMostOne(SwapJobs), [Next]_vars PROVE SwapInv'
    OBVIOUS
  <2>1. CASE UNCHANGED vars
    BY <2>1 DEF vars, database, disk, runtime, SwapInv, TypeInv, TypeOK, Written, Remembered,
                NameIsOwn, Placed, Told
  <2>2. CASE Next
    BY <2>2, AroundSwap, RebootSwap, RequestSwap, CreateBackupSwap, UpgradeServerSwap,
       RollbackSwap, RestoreBackupSwap, DeleteBackupSwap DEF Next
  <2>. QED
    BY <2>1, <2>2
<1>. QED
  BY InitSwap, <1>1, PTL DEF Spec

\* While upgrades and restores come one at a time, with any number of backups and
\* deletions beside them, an upgrade that fails, at whatever step and whatever the
\* monitor, starts, stops, crashes and reboots do meanwhile, has restored the jar,
\* the version and the readiness it found ("Any failure restores the previous jar
\* and version", UpgradeServer), and one that succeeds has installed what it reports.
THEOREM UpgradeIsAllOrNothing ==
  Spec /\ []AtMostOne(SwapJobs) => [](FailureRestores /\ SuccessIsInstalled)
<1>1. ASSUME SwapInv PROVE FailureRestores
  BY <1>1 DEF SwapInv, Placed, Told, FailureRestores
<1>2. ASSUME SwapInv PROVE SuccessIsInstalled
  BY <1>2 DEF SwapInv, Placed, Told, SuccessIsInstalled, ProveSteps
<1>. QED
  BY SwapInvHolds, <1>1, <1>2, PTL

-----------------------------------------------------------------------------
(* To its operator, an upgrade is one step.                                *)

AbstractStep == [Promise!Promised]_(Promise!vars)

\* What the server counts as, said of the caller that may still undo its upgrade.
Counted ==
  /\ \A t \in Callers : pc[t] \in ProveSteps \cup RollSteps =>
       /\ CountsJar = local[t].had
       /\ CountsVersion = local[t].was
       /\ CountsReady = (local[t].had # None)
  /\ (\A t \in Callers : pc[t] \notin ProveSteps \cup RollSteps) =>
       CountsJar = file["jar"] /\ CountsVersion = version /\ CountsReady = ready
  /\ \A t \in Callers : local[t].job = "upgrade" => Wanted = local[t].want
  /\ (\A t \in Callers : local[t].job # "upgrade") => Wanted = None

LEMMA Counting ==
  ASSUME TypeInv, AtMostOne(SwapJobs)
  PROVE  Counted
<1>1. \A t \in Swappers : local[t].job = "upgrade"
  BY DEF TypeInv, Remembered, Swappers, ChangeSteps
<1>2. \A t, u \in Upgraders : t = u
  BY DEF AtMostOne, SwapJobs, Upgraders
<1>3. \A t, u \in Swappers : t = u
  BY <1>1, <1>2 DEF Upgraders, Swappers
<1>4. ASSUME NEW t \in Swappers PROVE Swapped = local[t]
  BY <1>3 DEF Swapped
<1>5. ASSUME NEW t \in Upgraders PROVE Wanted = local[t].want
  BY <1>2 DEF Wanted
<1>. QED
  BY <1>4, <1>5 DEF Counted, CountsJar, CountsVersion, CountsReady, Wanted, Swappers, Upgraders

LEMMA CountingNext ==
  ASSUME TypeInv', AtMostOne(SwapJobs)'
  PROVE  Counted'
<1>1. \A t \in Swappers' : local'[t].job = "upgrade"
  BY DEF TypeInv, Remembered, Swappers, ChangeSteps
<1>2. \A t, u \in Upgraders' : t = u
  BY DEF AtMostOne, SwapJobs, Upgraders
<1>3. \A t, u \in Swappers' : t = u
  BY <1>1, <1>2 DEF Upgraders, Swappers
<1>4. ASSUME NEW t \in Swappers' PROVE Swapped' = local'[t]
  BY <1>3 DEF Swapped
<1>5. ASSUME NEW t \in Upgraders' PROVE Wanted' = local'[t].want
  BY <1>2 DEF Wanted
<1>. QED
  BY <1>4, <1>5 DEF Counted, CountsJar, CountsVersion, CountsReady, Wanted, Swappers, Upgraders

\* A step during which nothing the mapping looks at changes is a stuttering step.
LEMMA Unseen ==
  ASSUME UNCHANGED <<CountsJar, CountsVersion, CountsReady, Wanted>>
  PROVE  AbstractStep
  BY DEF AbstractStep, Promise!vars

\* A caller that is neither upgrading before nor after its step, and touches nothing
\* of the server, shows nothing.
LEMMA AsideIsUnseen ==
  ASSUME TypeInv, TypeInv', NEW t \in Callers, OnlyMoves(t),
         local[t].job # "upgrade", local'[t].job # "upgrade",
         UNCHANGED <<file, version, ready>>
  PROVE  AbstractStep
<1>1. pc[t] \notin ProveSteps \cup RollSteps /\ pc'[t] \notin ProveSteps \cup RollSteps
  BY DEF TypeInv, Remembered, ChangeSteps
<1>2. Swappers' = Swappers /\ \A u \in Swappers : u # t
  BY <1>1 DEF Swappers, OnlyMoves
<1>3. Upgraders' = Upgraders /\ \A u \in Upgraders : u # t
  BY DEF Upgraders, OnlyMoves
<1>4. Swappers # {} => Swapped' = Swapped
  BY <1>2 DEF Swapped, OnlyMoves, Swappers
<1>5. Wanted' = Wanted
  <2>1. \A u \in Upgraders : local'[u] = local[u]
    BY <1>3 DEF OnlyMoves, Upgraders
  <2>. QED
    BY <1>3, <2>1 DEF Wanted
<1>. QED
  BY <1>2, <1>4, <1>5, Unseen DEF CountsJar, CountsVersion, CountsReady

LEMMA AroundCounts ==
  ASSUME Start \/ Stop \/ (\E p \in Procs : Crash(p)) \/ Retry
  PROVE  AbstractStep
<1>1. Untouched
  BY DEF Start, Stop, Crash, Retry
<1>. QED
  BY <1>1, Unseen DEF Untouched, disk, CountsJar, CountsVersion, CountsReady, Wanted, Swapped,
     Swappers, Upgraders

LEMMA RebootCounts ==
  ASSUME SwapInv, AtMostOne(SwapJobs), Reboot
  PROVE  Promise!Died
<1>. USE NamesAssumption DEF SwapInv, TypeInv, TypeOK
<1>1. /\ Wanted' = None /\ CountsJar' = Copied(file["jar"])
      /\ CountsVersion' = version /\ CountsReady' = (ready \/ file["jar"] # None)
  BY DEF Reboot, NoLocal, Wanted, CountsJar, CountsVersion, CountsReady, Upgraders, Swappers,
         ProveSteps, RollSteps, Files
<1>2. Counted
  BY Counting
<1>3. \A t \in Callers : file["jar"] = t => pc[t] = "write" /\ local[t].job = "upgrade"
  BY DEF Written, Remembered, ChangeSteps, ProveSteps, Files
<1>4. CASE \A t \in Callers : local[t].job # "upgrade"
  <2>1. \A t \in Callers : pc[t] \notin ProveSteps \cup RollSteps
    BY <1>4 DEF Remembered, ChangeSteps
  <2>2. /\ Wanted = None /\ CountsJar = file["jar"]
        /\ CountsVersion = version /\ CountsReady = ready
    BY <1>2, <1>4, <2>1 DEF Counted
  <2>3. Copied(file["jar"]) = file["jar"]
    BY <1>3, <1>4 DEF Copied
  <2>. QED
    BY <1>1, <2>2, <2>3 DEF Promise!Died, Promise!Restart
<1>5. ASSUME NEW t \in Callers, local[t].job = "upgrade" PROVE Promise!Died
  <2>1. Wanted = local[t].want /\ local[t].want \in Versions
    BY <1>2, <1>5 DEF Counted, Remembered
  <2>2. \A u \in Callers : local[u].job = "upgrade" => u = t
    BY <1>5 DEF AtMostOne, SwapJobs
  <2>3. CASE pc[t] \notin ProveSteps \cup RollSteps
    <3>1. \A u \in Callers : pc[u] \notin ProveSteps \cup RollSteps
      BY <2>2, <2>3 DEF Remembered, ChangeSteps
    <3>2. CountsJar = file["jar"] /\ CountsVersion = version
      BY <1>2, <3>1 DEF Counted
    <3>3. Copied(file["jar"]) = file["jar"]
      BY <1>3, <3>1 DEF Copied, ProveSteps
    <3>. QED
      BY <1>1, <2>1, <3>2, <3>3 DEF Promise!Died, Promise!CutShort
  <2>4. CASE pc[t] \in ProveSteps \cup RollSteps
    <3>1. CountsJar = local[t].had /\ CountsVersion = local[t].was
      BY <1>2, <2>4 DEF Counted
    <3>2. \/ file["jar"] \in {None, local[t].had, local[t].want}
          \/ file["jar"] = t /\ version = local[t].was
      BY <2>4 DEF Placed, Told, ProveSteps, RollSteps, Files
    <3>3. version \in {local[t].was, local[t].want}
      BY <2>4 DEF Told, ProveSteps, RollSteps
    <3>4. local[t].had \in Jars
      BY <2>4 DEF Placed
    <3>5. \/ CountsJar' \in {None, local[t].had, local[t].want}
          \/ CountsJar' = Partial /\ version = local[t].was
      BY <1>1, <2>1, <3>2, <3>4 DEF Copied, Jars
    <3>6. CountsReady' \in BOOLEAN /\ (CountsJar' # None => CountsReady')
      BY <1>1 DEF Copied
    <3>. QED
      BY <1>1, <2>1, <3>1, <3>3, <3>5, <3>6 DEF Promise!Died, Promise!CutShort
  <2>. QED
    BY <2>3, <2>4
<1>. QED
  BY <1>4, <1>5

LEMMA RequestCounts ==
  ASSUME SwapInv, TypeInv', AtMostOne(SwapJobs), AtMostOne(SwapJobs)',
         NEW t \in Callers, Request(t)
  PROVE  AbstractStep
<1>1. OnlyMoves(t) /\ UNCHANGED <<file, version, ready>>
  BY RequestMoves DEF SwapInv
<1>2. pc[t] = "idle" /\ local[t].job = "none" /\ local[t] \in Locals
  BY DEF Request, Backup, Upgrade, Restore, Delete, Step, At, SwapInv, TypeInv, TypeOK,
         Remembered
<1>3. CASE Backup(t) \/ \E n \in Names : Restore(t, n) \/ Delete(t, n)
  <2>1. local'[t].job # "upgrade"
    BY <1>2, <1>3 DEF Backup, Restore, Delete, SwapInv, TypeInv, TypeOK, Locals
  <2>. QED
    BY <1>1, <1>2, <2>1, AsideIsUnseen DEF SwapInv
<1>4. ASSUME NEW v \in Versions, Upgrade(t, v) PROVE AbstractStep
  <2>1. /\ local' = [local EXCEPT ![t].job = "upgrade", ![t].was = version, ![t].want = v]
        /\ pc'[t] = "backupOpen"
    BY <1>4 DEF Upgrade, Step, Goto, SwapInv, TypeInv, TypeOK
  <2>2. local'[t].job = "upgrade" /\ local'[t].want = v
    BY <1>2, <2>1 DEF SwapInv, TypeInv, TypeOK, Locals
  <2>3. \A u \in Callers \ {t} : local[u].job # "upgrade"
    BY <1>1, <2>2 DEF AtMostOne, SwapJobs, OnlyMoves
  <2>4. \A u \in Callers :
          pc[u] \notin ProveSteps \cup RollSteps /\ pc'[u] \notin ProveSteps \cup RollSteps
    BY <1>1, <1>2, <2>1, <2>3 DEF SwapInv, TypeInv, Remembered, OnlyMoves, ChangeSteps,
       ProveSteps, RollSteps
  <2>5. Counted /\ Counted'
    BY Counting, CountingNext DEF SwapInv
  <2>6. /\ Wanted = None /\ Wanted' = v
        /\ UNCHANGED <<CountsJar, CountsVersion, CountsReady>>
    BY <1>1, <1>2, <2>2, <2>3, <2>4, <2>5 DEF Counted
  <2>. QED
    BY <2>6 DEF AbstractStep, Promise!Promised, Promise!Request
<1>. QED
  BY <1>3, <1>4 DEF Request

\* What the mapping shows while the caller t is the one that upgrades.
LEMMA CountsOfUpgrader ==
  ASSUME SwapInv, AtMostOne(SwapJobs), NEW t \in Callers, local[t].job = "upgrade"
  PROVE  /\ Wanted = local[t].want /\ Wanted \in Versions /\ Wanted # None
         /\ pc[t] \in ProveSteps \cup RollSteps =>
              /\ CountsJar = local[t].had
              /\ CountsVersion = local[t].was
              /\ CountsReady = (local[t].had # None)
         /\ pc[t] \notin ProveSteps \cup RollSteps =>
              CountsJar = file["jar"] /\ CountsVersion = version /\ CountsReady = ready
<1>1. Counted
  BY Counting DEF SwapInv
<1>2. \A u \in Callers \ {t} : pc[u] \notin ProveSteps \cup RollSteps
  BY DEF AtMostOne, SwapJobs, SwapInv, TypeInv, Remembered, ChangeSteps
<1>3. local[t].want \in Versions
  BY DEF SwapInv, TypeInv, Remembered
<1>. QED
  BY <1>1, <1>2, <1>3, NamesAssumption DEF Counted

\* And after its step, whether it goes on or is done.
LEMMA CountsAfter ==
  ASSUME SwapInv', AtMostOne(SwapJobs)', AtMostOne(SwapJobs), NEW t \in Callers,
         local[t].job = "upgrade", OnlyMoves(t)
  PROVE  /\ local'[t].job = "upgrade" => Wanted' = local'[t].want
         /\ local'[t].job # "upgrade" => Wanted' = None
         /\ pc'[t] \in ProveSteps \cup RollSteps =>
              /\ CountsJar' = local'[t].had
              /\ CountsVersion' = local'[t].was
              /\ CountsReady' = (local'[t].had # None)
         /\ pc'[t] \notin ProveSteps \cup RollSteps =>
              CountsJar' = file'["jar"] /\ CountsVersion' = version' /\ CountsReady' = ready'
<1>1. Counted'
  BY CountingNext DEF SwapInv
<1>2. \A u \in Callers \ {t} : local'[u].job # "upgrade"
  BY DEF AtMostOne, SwapJobs, OnlyMoves
<1>3. \A u \in Callers \ {t} : pc'[u] \notin ProveSteps \cup RollSteps
  BY <1>2 DEF SwapInv, TypeInv, Remembered, ChangeSteps
<1>. QED
  BY <1>1, <1>2, <1>3 DEF Counted

LEMMA CreateBackupCounts ==
  ASSUME SwapInv, SwapInv', AtMostOne(SwapJobs), AtMostOne(SwapJobs)',
         NEW t \in Callers, CreateBackup(t)
  PROVE  AbstractStep
<1>1. OnlyMoves(t) /\ UNCHANGED <<file, version, ready>>
  BY CreateBackupMoves DEF SwapInv
<1>2. /\ pc[t] \notin ProveSteps \cup RollSteps
      /\ pc'[t] \notin ProveSteps \cup RollSteps
      /\ local'[t].job \in {local[t].job, "none"}
      /\ local'[t].job = "upgrade" => local'[t].want = local[t].want
  <2>. USE DEF ProveSteps, RollSteps, Step, At, Goto, Finish, NoLocal, SwapInv, TypeInv, TypeOK,
               Locals
  <2>1. CASE BackupOpen(t)
    BY <2>1 DEF BackupOpen
  <2>2. CASE BackupWalk(t)
    BY <2>2 DEF BackupWalk
  <2>3. CASE BackupRead(t)
    BY <2>3 DEF BackupRead
  <2>4. CASE BackupFails(t)
    BY <2>4 DEF BackupFails
  <2>5. CASE BackupClose(t)
    BY <2>5 DEF BackupClose
  <2>6. CASE BackupInsert(t)
    BY <2>6 DEF BackupInsert
  <2>. QED
    BY <2>1, <2>2, <2>3, <2>4, <2>5, <2>6 DEF CreateBackup
<1>3. CASE local[t].job # "upgrade"
  BY <1>1, <1>2, <1>3, AsideIsUnseen DEF SwapInv
<1>4. CASE local[t].job = "upgrade"
  <2>1. /\ Wanted = local[t].want /\ Wanted # None
        /\ UNCHANGED <<CountsJar, CountsVersion, CountsReady>>
        /\ local'[t].job = "upgrade" => Wanted' = local'[t].want
        /\ local'[t].job # "upgrade" => Wanted' = None
    BY <1>1, <1>2, <1>4, CountsOfUpgrader, CountsAfter
  <2>2. CASE local'[t].job = "upgrade"
    BY <1>2, <2>1, <2>2, Unseen
  <2>3. CASE local'[t].job # "upgrade"
    BY <2>1, <2>3 DEF AbstractStep, Promise!Promised, Promise!Fail
  <2>. QED
    BY <2>2, <2>3
<1>. QED
  BY <1>3, <1>4

\* An upgrade that is reported to have succeeded is what was asked for,
LEMMA CommitSucceeds ==
  ASSUME SwapInv, SwapInv', AtMostOne(SwapJobs), AtMostOne(SwapJobs)',
         NEW t \in Callers, Commit(t)
  PROVE  Promise!Succeed
<1>. USE DEF SwapInv, TypeInv, TypeOK, Step, At, Goto
<1>1. OnlyMoves(t) /\ local[t].job = "upgrade"
  BY UpgradeServerMoves DEF UpgradeServer
<1>2. /\ pc[t] \in ProveSteps \cup RollSteps /\ pc'[t] \notin ProveSteps \cup RollSteps
      /\ local'[t].job = "none" /\ file'["jar"] = file["jar"] /\ UNCHANGED <<version, ready>>
      /\ file["jar"] = local[t].want /\ version = local[t].want /\ ready = TRUE
  BY DEF Commit, Finish, NoLocal, ProveSteps, RollSteps, Placed, Told, database, Files
<1>3. Wanted = local[t].want /\ Wanted # None
  BY <1>1, CountsOfUpgrader
<1>4. /\ Wanted' = None
      /\ CountsJar' = file'["jar"] /\ CountsVersion' = version' /\ CountsReady' = ready'
  BY <1>1, <1>2, CountsAfter
<1>. QED
  BY <1>2, <1>3, <1>4 DEF Promise!Succeed

\* and one that is reported to have failed is what it was.
LEMMA RollStatusFails ==
  ASSUME SwapInv, SwapInv', AtMostOne(SwapJobs), AtMostOne(SwapJobs)',
         NEW t \in Callers, RollStatus(t)
  PROVE  Promise!Fail
<1>. USE DEF SwapInv, TypeInv, TypeOK, Step, At, Goto
<1>1. OnlyMoves(t) /\ local[t].job = "upgrade"
  BY RollbackMoves DEF Rollback
<1>2. /\ pc[t] \in RollSteps /\ pc'[t] \notin ProveSteps \cup RollSteps
      /\ local'[t].job = "none" /\ UNCHANGED <<file, version, ready>>
      /\ file["jar"] = local[t].had /\ version = local[t].was /\ ready = (local[t].had # None)
  BY DEF RollStatus, Finish, NoLocal, ProveSteps, RollSteps, Placed, Told, disk
<1>3. /\ Wanted # None /\ CountsJar = local[t].had
      /\ CountsVersion = local[t].was /\ CountsReady = (local[t].had # None)
  BY <1>1, <1>2, CountsOfUpgrader
<1>4. /\ Wanted' = None
      /\ CountsJar' = file'["jar"] /\ CountsVersion' = version' /\ CountsReady' = ready'
  BY <1>1, <1>2, CountsAfter
<1>. QED
  BY <1>2, <1>3, <1>4 DEF Promise!Fail

LEMMA UpgradeServerCounts ==
  ASSUME SwapInv, SwapInv', AtMostOne(SwapJobs), AtMostOne(SwapJobs)',
         NEW t \in Callers, UpgradeServer(t)
  PROVE  AbstractStep
<1>0. OnlyMoves(t) /\ local[t].job = "upgrade" /\ local[t] \in Locals
  BY UpgradeServerMoves DEF SwapInv, TypeInv, TypeOK
<1>. DEFINE Undone(label) == label \in ProveSteps \cup RollSteps
<1>1. /\ Wanted = local[t].want /\ Wanted # None
      /\ Undone(pc[t]) =>
           /\ CountsJar = local[t].had
           /\ CountsVersion = local[t].was
           /\ CountsReady = (local[t].had # None)
      /\ ~Undone(pc[t]) =>
           CountsJar = file["jar"] /\ CountsVersion = version /\ CountsReady = ready
  BY <1>0, CountsOfUpgrader
<1>2. /\ local'[t].job = "upgrade" => Wanted' = local'[t].want
      /\ local'[t].job # "upgrade" => Wanted' = None
      /\ Undone(pc'[t]) =>
           /\ CountsJar' = local'[t].had
           /\ CountsVersion' = local'[t].was
           /\ CountsReady' = (local'[t].had # None)
      /\ ~Undone(pc'[t]) =>
           CountsJar' = file'["jar"] /\ CountsVersion' = version' /\ CountsReady' = ready'
  BY <1>0, CountsAfter
<1>. USE DEF SwapInv, TypeInv, TypeOK, Step, At, Goto
<1>3. CASE ClearPrevious(t)
  <2>1. /\ ~Undone(pc[t]) /\ ~Undone(pc'[t]) /\ local' = local
        /\ file'["jar"] = file["jar"] /\ UNCHANGED <<version, ready>>
    BY <1>3 DEF ClearPrevious, ProveSteps, RollSteps, database, Files
  <2>. QED
    BY <1>0, <1>1, <1>2, <2>1, Unseen
<1>4. CASE SetAside(t)
  <2>1. /\ ~Undone(pc[t]) /\ Undone(pc'[t])
        /\ local'[t] = [local[t] EXCEPT !.had = file["jar"]]
        /\ version = local[t].was
    BY <1>0, <1>4 DEF SetAside, ProveSteps, RollSteps, SwapSteps, Told
  <2>2. /\ local'[t].had = file["jar"] /\ local'[t].was = local[t].was
        /\ local'[t].job = "upgrade" /\ local'[t].want = local[t].want
    BY <1>0, <2>1 DEF Locals
  <2>. QED
    BY <1>1, <1>2, <2>1, <2>2 DEF AbstractStep, Promise!Promised, Promise!Look
<1>5. CASE Commit(t)
  BY <1>5, CommitSucceeds DEF AbstractStep, Promise!Promised
<1>6. CASE UpgradeServer(t) /\ ~ClearPrevious(t) /\ ~SetAside(t) /\ ~Commit(t)
  <2>1. Undone(pc[t]) /\ Undone(pc'[t])
    BY <1>6 DEF UpgradeServer, Download, Fetch, Write, WriteFails, SetVersion, SetReady,
       TrialStart, Answered, Unanswered, ForceStop, ProveSteps, RollSteps
  <2>2. /\ local'[t].had = local[t].had /\ local'[t].was = local[t].was
        /\ local'[t].job = local[t].job /\ local'[t].want = local[t].want
    <3>1. local' = local \/ \E v : local' = [local EXCEPT ![t].heard = v]
      BY <1>6 DEF UpgradeServer, Download, Fetch, Write, WriteFails, SetVersion, SetReady,
         TrialStart, Answered, Unanswered, ForceStop
    <3>. QED
      BY <1>0, <3>1 DEF Locals
  <2>. QED
    BY <1>0, <1>1, <1>2, <2>1, <2>2, Unseen
<1>. QED
  BY <1>3, <1>4, <1>5, <1>6

LEMMA RollbackCounts ==
  ASSUME SwapInv, SwapInv', AtMostOne(SwapJobs), AtMostOne(SwapJobs)',
         NEW t \in Callers, Rollback(t)
  PROVE  AbstractStep
<1>0. OnlyMoves(t) /\ local[t].job = "upgrade" /\ local[t] \in Locals
  BY RollbackMoves DEF SwapInv, TypeInv, TypeOK
<1>. USE DEF SwapInv, TypeInv, TypeOK, Step, At, Goto
<1>1. pc[t] \in RollSteps
  BY DEF Rollback, RollRemove, RollRename, RollVersion, RollReady, RollStatus, RollSteps
<1>2. /\ Wanted = local[t].want /\ Wanted # None /\ CountsJar = local[t].had
      /\ CountsVersion = local[t].was /\ CountsReady = (local[t].had # None)
  BY <1>0, <1>1, CountsOfUpgrader
<1>3. CASE RollStatus(t)
  BY <1>3, RollStatusFails DEF AbstractStep, Promise!Promised
<1>4. CASE Rollback(t) /\ ~RollStatus(t)
  <2>1. pc'[t] \in ProveSteps \cup RollSteps /\ local' = local
    BY <1>4 DEF Rollback, RollRemove, RollRename, RollVersion, RollReady, RollSteps
  <2>2. /\ Wanted' = local[t].want /\ CountsJar' = local[t].had
        /\ CountsVersion' = local[t].was /\ CountsReady' = (local[t].had # None)
    BY <1>0, <2>1, CountsAfter
  <2>. QED
    BY <1>2, <2>2, Unseen
<1>. QED
  BY <1>3, <1>4

LEMMA RestoreBackupCounts ==
  ASSUME SwapInv, SwapInv', AtMostOne(SwapJobs), AtMostOne(SwapJobs)',
         NEW t \in Callers, RestoreBackup(t)
  PROVE  AbstractStep
<1>. USE DEF SwapInv, TypeInv, TypeOK, Step, At, Goto, Finish
<1>1. OnlyMoves(t) /\ local[t].job = "restore"
  BY RestoreBackupMoves
<1>2. local'[t].job # "upgrade" /\ UNCHANGED <<version, ready>>
  BY <1>1 DEF RestoreBackup, RestoreClear, RestoreExtract, NoLocal, database
<1>3. \A u \in Callers : local[u].job # "upgrade" /\ local'[u].job # "upgrade"
  BY <1>1, <1>2 DEF OnlyMoves, AtMostOne, SwapJobs
<1>4. \A u \in Callers :
        pc[u] \notin ProveSteps \cup RollSteps /\ pc'[u] \notin ProveSteps \cup RollSteps
  BY <1>3 DEF Remembered, ChangeSteps
<1>5. Counted /\ Counted'
  BY Counting, CountingNext
<1>6. /\ Wanted = None /\ Wanted' = None /\ CountsJar = file["jar"] /\ CountsJar' = file'["jar"]
      /\ UNCHANGED <<CountsVersion, CountsReady>>
  BY <1>2, <1>3, <1>4, <1>5 DEF Counted
<1>7. \A u \in Callers : file["jar"] # u /\ file'["jar"] # u
  BY <1>4 DEF Written, Files, ProveSteps
<1>8. file'["jar"] \in Jars
  BY <1>7 DEF Files
<1>. QED
  BY <1>6, <1>8 DEF AbstractStep, Promise!Promised, Promise!Restore, Jars

LEMMA DeleteBackupCounts ==
  ASSUME SwapInv, SwapInv', NEW t \in Callers, DeleteBackup(t)
  PROVE  AbstractStep
<1>1. OnlyMoves(t) /\ local[t].job = "delete" /\ UNCHANGED <<file, version, ready>>
  BY DeleteBackupMoves DEF SwapInv
<1>2. local'[t].job # "upgrade"
  BY <1>1 DEF DeleteBackup, DeleteFile, DeleteRow, Step, At, Goto, Finish, NoLocal, SwapInv,
     TypeInv, TypeOK
<1>. QED
  BY <1>1, <1>2, AsideIsUnseen DEF SwapInv

\* Upgrade implements UpgradeOutcome while upgrades and restores come one at a time,
\* with any number of backups and deletions beside them: whatever fails and whatever
\* is started, stopped or crashes meanwhile, from its request to its answer an upgrade
\* (UpgradeServer) is one step, to what was asked for when it is reported to have
\* succeeded, and none when it is reported to have failed; only a reboot can leave
\* anything in between.
THEOREM UpgradeImplementsOutcome ==
  Spec /\ []AtMostOne(SwapJobs) => UpgradeIsOneStep /\ Promise!Spec
<1>. DEFINE Undisturbed == SwapInv /\ AtMostOne(SwapJobs)
<1>1. Init => Promise!Init
  BY DEF Init, Promise!Init, CountsJar, CountsVersion, CountsReady, Wanted, Swappers,
         Upgraders, NoLocal, ProveSteps, RollSteps
<1>2. ASSUME Undisturbed, Undisturbed', [Next]_vars
      PROVE  StepIsPromised
  <2>1. CASE Reboot
    BY <1>2, <2>1, RebootCounts DEF StepIsPromised
  <2>2. CASE UNCHANGED vars /\ ~Reboot
    BY <2>2, Unseen DEF StepIsPromised, AbstractStep, vars, database, disk, CountsJar,
       CountsVersion, CountsReady, Wanted, Swapped, Swappers, Upgraders
  <2>3. CASE Next /\ ~Reboot
    BY <1>2, <2>3, AroundCounts, RequestCounts, CreateBackupCounts, UpgradeServerCounts,
       RollbackCounts, RestoreBackupCounts, DeleteBackupCounts
       DEF Next, SwapInv, StepIsPromised, AbstractStep
  <2>. QED
    BY <1>2, <2>1, <2>2, <2>3
<1>3. ASSUME Undisturbed, Undisturbed'
      PROVE  AnswerIsTrue
  BY <1>3, CommitSucceeds, RollStatusFails DEF AnswerIsTrue
<1>4. StepIsPromised => [Promise!Next]_(Promise!vars)
  BY DEF StepIsPromised, Promise!Next
<1>. QED
  BY SwapInvHolds, <1>1, <1>2, <1>3, <1>4, PTL
     DEF Spec, UpgradeIsOneStep, Promise!Spec

-----------------------------------------------------------------------------
(* What the archives keep, when no two are of one second.                  *)

LEMMA InitInv == Init => UpgradeInv
<1>. SUFFICES ASSUME Init PROVE UpgradeInv
  OBVIOUS
<1>1. NothingLost
  BY DEF Init, NothingLost, Kept, Files
<1>2. ASSUME NEW t \in Callers
      PROVE  Knows(t)
  BY DEF Init, NoLocal, Knows, DeleteSteps, Filled, Secured, Emptied, Safe, OpenSteps, ChangeSteps,
         BackupSteps, SwapSteps, ProveSteps, RollSteps
<1>. QED
  BY InitSwap, <1>1, <1>2 DEF UpgradeInv

\* A start, a stop or a crash touches neither the files nor the archives.
LEMMA AroundInv ==
  ASSUME UpgradeInv, Start \/ Stop \/ (\E p \in Procs : Crash(p)) \/ Retry
  PROVE  UpgradeInv'
<1>1. SwapInv'
  BY AroundSwap DEF UpgradeInv
<1>2. Untouched
  BY DEF Start, Stop, Crash, Retry
<1>. QED
  BY <1>1, <1>2 DEF UpgradeInv, Untouched, disk, NothingLost, Kept, Listed,
                    Knows, Filled, Secured, Emptied, Safe

\* A reboot keeps every whole jar and every archive that a row lists.
LEMMA RebootInv == UpgradeInv /\ Reboot => UpgradeInv'
<1>. SUFFICES ASSUME UpgradeInv, Reboot PROVE UpgradeInv'
  OBVIOUS
<1>1. SwapInv'
  BY RebootSwap DEF UpgradeInv
<1>2. NothingLost'
  <2>1. SUFFICES ASSUME good # None PROVE good \in Kept(file', archive', rows)
    BY DEF NothingLost, Reboot
  <2>2. CASE Listed(good)
    <3>1. PICK n \in Names :
            /\ rows[n] > 0 /\ archive[n] # None /\ archive[n].state = "whole"
            /\ good \in {archive[n].jar, archive[n].previous}
      BY <2>2 DEF Listed
    <3>2. archive'[n] = archive[n]
      BY <3>1 DEF Reboot
    <3>. QED
      BY <3>1, <3>2 DEF Kept
  <2>3. CASE \E x \in Files : file[x] = good
    BY <2>1, <2>3, NamesAssumption DEF Reboot, Copied, Kept, UpgradeInv, SwapInv, TypeInv,
       TypeOK
  <2>. QED
    BY <2>1, <2>2, <2>3 DEF UpgradeInv, NothingLost, Kept, Listed
<1>3. ASSUME NEW t \in Callers
      PROVE  Knows(t)'
  BY DEF Reboot, NoLocal, Knows, DeleteSteps, Filled, Secured, Emptied, Safe, OpenSteps, ChangeSteps,
         BackupSteps, SwapSteps, ProveSteps, RollSteps
<1>. QED
  BY <1>1, <1>2, <1>3 DEF UpgradeInv

\* While a backup is taken, the archives that rows list stay as they are, and so
\* do those of the other callers.
FillsOne(t) ==
  \E m \in Names :
    /\ rows[m] = 0
    /\ \A u \in Callers \ {t} : local[u].name # m
    /\ \A n \in Names \ {m} : archive'[n] = archive[n] /\ rows'[n] = rows[n]

LEMMA CreateBackupFills ==
  ASSUME TypeInv, ~SameSecond, NEW t \in Callers, CreateBackup(t)
  PROVE  FillsOne(t)
<1>1. CASE BackupOpen(t)
  <2>1. PICK n \in Names :
          /\ rows[n] = 0 /\ \A u \in Callers : local[u].name # n
          /\ \E a : archive' = [archive EXCEPT ![n] = a]
    BY <1>1 DEF BackupOpen
  <2>2. \A m \in Names \ {n} : archive'[m] = archive[m] /\ rows'[m] = rows[m]
    BY <1>1, <2>1 DEF BackupOpen, database, TypeInv, TypeOK
  <2>. QED
    BY <2>1, <2>2 DEF FillsOne
<1>2. CASE ~BackupOpen(t)
  <2>1. pc[t] \in OpenSteps
    BY <1>2 DEF CreateBackup, BackupWalk, BackupRead, BackupFails, BackupClose, BackupInsert,
                Step, At, OpenSteps, BackupSteps
  <2>2. local[t].name \in Names /\ rows[local[t].name] = 0
        /\ \A u \in Callers \ {t} : local[u].name # local[t].name
    BY <2>1 DEF TypeInv, Remembered, NamedSteps, NameIsOwn
  <2>3. \A n \in Names \ {local[t].name} : archive'[n] = archive[n] /\ rows'[n] = rows[n]
    <3>. USE DEF TypeInv, TypeOK, database, disk
    <3>1. CASE BackupWalk(t) \/ BackupRead(t)
      BY <3>1 DEF BackupWalk, BackupRead, Archived
    <3>2. CASE BackupFails(t) \/ BackupClose(t)
      BY <3>2 DEF BackupFails, BackupClose
    <3>3. CASE BackupInsert(t)
      BY <3>3 DEF BackupInsert
    <3>. QED
      BY <1>2, <3>1, <3>2, <3>3 DEF CreateBackup
  <2>. QED
    BY <2>2, <2>3 DEF FillsOne
<1>. QED
  BY <1>1, <1>2

\* The step of one caller takes nothing from what another knows.
LEMMA OthersKnow ==
  ASSUME UpgradeInv, ~SameSecond, AtMostOne(ChangeJobs),
         NEW t \in Callers, OnlyMoves(t),
         \/ local[t].job \in ChangeJobs
         \/ UNCHANGED <<file, good>> /\ (FillsOne(t) \/ UNCHANGED <<archive, rows>>),
         NEW u \in Callers \ {t}
  PROVE  Knows(u)'
<1>1. /\ pc'[u] = pc[u] /\ local'[u] = local[u]
      /\ Remembered(u) /\ NameIsOwn(u) /\ Knows(u)
  BY DEF OnlyMoves, UpgradeInv, SwapInv, TypeInv
<1>2. CASE local[u].job \notin ChangeJobs
  BY <1>1, <1>2 DEF Knows, Filled, Secured, Emptied, Safe, Remembered, ChangeJobs,
     RestoreSteps, DeleteSteps
<1>3. CASE UNCHANGED <<file, good, archive, rows>>
  BY <1>1, <1>3 DEF Knows, Filled, Secured, Emptied, Safe, Listed
<1>4. CASE local[u].job \in ChangeJobs /\ UNCHANGED <<file, good>> /\ FillsOne(t)
  <2>1. PICK m \in Names :
          /\ rows[m] = 0 /\ local[u].name # m
          /\ \A n \in Names \ {m} : archive'[n] = archive[n] /\ rows'[n] = rows[n]
    BY <1>4 DEF FillsOne
  <2>2. pc[u] \in NamedSteps =>
          archive'[local[u].name] = archive[local[u].name] /\ rows'[local[u].name] = rows[local[u].name]
    BY <1>1, <2>1 DEF Remembered
  <2>3. Filled(u)'
    BY <1>1, <1>4, <2>2 DEF Knows, Filled, NamedSteps, OpenSteps, BackupSteps, ChangeSteps,
       SwapSteps
  <2>4. Secured(u)' /\ Emptied(u)'
    BY <1>1, <1>4, <2>2 DEF Knows, Secured, Emptied, NamedSteps, DeleteSteps
  <2>5. Safe(u)'
    <3>1. SUFFICES ASSUME pc[u] \in ChangeSteps, good # None PROVE Listed(good)'
      BY <1>1, <1>4 DEF Safe
    <3>2. PICK n \in Names :
            /\ rows[n] > 0 /\ archive[n] # None /\ archive[n].state = "whole"
            /\ archive[n].jar = good \/ archive[n].previous = good
      BY <1>1, <3>1 DEF Knows, Safe, Listed
    <3>3. archive'[n] = archive[n] /\ rows'[n] = rows[n]
      BY <2>1, <3>2
    <3>. QED
      BY <1>4, <3>2, <3>3 DEF Listed
  <2>. QED
    BY <2>3, <2>4, <2>5 DEF Knows
<1>5. local[t].job \in ChangeJobs => local[u].job \notin ChangeJobs
  BY DEF AtMostOne
<1>. QED
  BY <1>2, <1>3, <1>4, <1>5

LEMMA RequestInv ==
  ASSUME UpgradeInv, ~SameSecond, AtMostOne(ChangeJobs), NEW t \in Callers, Request(t)
  PROVE  UpgradeInv'
<1>0. /\ SwapInv'
      /\ \A u \in Callers \ {t} : Knows(u)'
  <2>1. AtMostOne(SwapJobs)
    BY DEF AtMostOne, SwapJobs, ChangeJobs
  <2>2. SwapInv'
    BY <2>1, RequestSwap DEF UpgradeInv
  <2>. QED
    BY <2>2, RequestMoves, OthersKnow DEF UpgradeInv, SwapInv, ChangeJobs
<1>. SUFFICES Knows(t)' /\ NothingLost'
  BY <1>0 DEF UpgradeInv
<1>. USE NamesAssumption, BoundsAssumption
       DEF Knows, UpgradeInv, SwapInv, TypeInv, TypeOK, Written,
           Remembered, NameIsOwn, OpenSteps, ChangeSteps, NamedSteps, BackupSteps,
           SwapSteps, ProveSteps, RollSteps, RestoreSteps, DeleteSteps, Files, Jars,
           Archives, Statuses, Locals, Step, At, Goto, Finish, NoLocal, database, disk,
           runtime
<1>1. CASE Backup(t)
  <2>1. Filled(t)' /\ Secured(t)' /\ Emptied(t)'
    BY <1>1 DEF Backup, Filled, Secured, Placed, Emptied
  <2>2. Safe(t)' /\ NothingLost'
    BY <1>1 DEF Backup, Safe, NothingLost, Kept, Listed, Filled, Secured, Placed, Emptied
  <2>. QED
    BY <2>1, <2>2
<1>2. ASSUME NEW v \in Versions, Upgrade(t, v) PROVE Knows(t)' /\ NothingLost'
  <2>1. Filled(t)' /\ Secured(t)' /\ Emptied(t)'
    BY <1>2 DEF Upgrade, Filled, Secured, Placed, Emptied
  <2>2. Safe(t)' /\ NothingLost'
    BY <1>2 DEF Upgrade, Safe, NothingLost, Kept, Listed, Filled, Secured, Placed, Emptied
  <2>. QED
    BY <2>1, <2>2
<1>3. ASSUME NEW n \in Names, Restore(t, n) PROVE Knows(t)' /\ NothingLost'
  <2>1. Filled(t)' /\ Secured(t)' /\ Emptied(t)'
    BY <1>3 DEF Restore, Filled, Secured, Placed, Emptied
  <2>2. Safe(t)' /\ NothingLost'
    BY <1>3 DEF Restore, Safe, NothingLost, Kept, Listed, Filled, Secured, Placed, Emptied
  <2>. QED
    BY <2>1, <2>2
<1>4. ASSUME NEW n \in Names, Delete(t, n) PROVE Knows(t)' /\ NothingLost'
  <2>1. Filled(t)' /\ Secured(t)' /\ Emptied(t)'
    BY <1>4 DEF Delete, Filled, Secured, Placed, Emptied
  <2>2. Safe(t)' /\ NothingLost'
    BY <1>4 DEF Delete, Safe, NothingLost, Kept, Listed, Filled, Secured, Placed, Emptied
  <2>. QED
    BY <2>1, <2>2
<1>. QED
  BY <1>1, <1>2, <1>3, <1>4 DEF Request

LEMMA CreateBackupInv ==
  ASSUME UpgradeInv, ~SameSecond, AtMostOne(ChangeJobs), NEW t \in Callers, CreateBackup(t)
  PROVE  UpgradeInv'
<1>0. /\ SwapInv'
      /\ \A u \in Callers \ {t} : Knows(u)'
  <2>1. AtMostOne(SwapJobs)
    BY DEF AtMostOne, SwapJobs, ChangeJobs
  <2>2. SwapInv'
    BY <2>1, CreateBackupSwap DEF UpgradeInv
  <2>. QED
    BY <2>2, CreateBackupMoves, CreateBackupFills, OthersKnow DEF UpgradeInv, SwapInv, ChangeJobs
<1>. SUFFICES Knows(t)' /\ NothingLost'
  BY <1>0 DEF UpgradeInv
<1>. USE NamesAssumption, BoundsAssumption
       DEF Knows, UpgradeInv, SwapInv, TypeInv, TypeOK, Written,
           Remembered, NameIsOwn, OpenSteps, ChangeSteps, NamedSteps, BackupSteps,
           SwapSteps, ProveSteps, RollSteps, RestoreSteps, DeleteSteps, Files, Jars,
           Archives, Statuses, Locals, Step, At, Goto, Finish, NoLocal, database, disk,
           runtime
<1>1. CASE BackupOpen(t)
  <2>1. Filled(t)'
    <3>1. PICK n \in Names :
            /\ \A u \in Callers : local[u].name # n
            /\ local' = [local EXCEPT ![t].name = n]
            /\ archive' = [archive EXCEPT ![n] =
                             [state |-> "open", jar |-> None, previous |-> None]]
      BY <1>1 DEF BackupOpen
    <3>2. local'[t].name = n /\ archive'[n] = [state |-> "open", jar |-> None, previous |-> None]
      BY <3>1
    <3>3. pc'[t] = "backupWalk"
      BY <1>1 DEF BackupOpen
    <3>4. archive'[n] # None
      BY <3>2, NoArchiveAssumption DEF Archives
    <3>. QED
      BY <3>2, <3>3, <3>4 DEF Filled
  <2>3. Secured(t)' /\ Emptied(t)'
    BY <1>1 DEF BackupOpen, Secured, Placed, Emptied
  <2>2. Safe(t)' /\ NothingLost'
    BY <1>1 DEF BackupOpen, Safe, NothingLost, Kept, Listed, Filled, Secured, Placed, Emptied
  <2>. QED
    BY <2>1, <2>2, <2>3
<1>2. CASE BackupWalk(t)
  <2>1. Filled(t)' /\ Secured(t)' /\ Emptied(t)'
    BY <1>2 DEF BackupWalk, Filled, Secured, Placed, Emptied
  <2>2. Safe(t)' /\ NothingLost'
    BY <1>2 DEF BackupWalk, Safe, NothingLost, Kept, Listed, Filled, Secured, Placed, Emptied
  <2>. QED
    BY <2>1, <2>2
<1>3. CASE BackupRead(t)
  <2>1. Filled(t)'
    <3> SUFFICES ASSUME local[t].job = "upgrade" PROVE Filled(t)'
      BY <1>3 DEF BackupRead, Filled
    <3> DEFINE n == local[t].name
    <3>1. /\ pc[t] = "backupRead" /\ n \in Names
          /\ archive[n] # None /\ archive[n].state = "open" /\ local[t].walk \subseteq Files
          /\ \A x \in Files \ local[t].walk : archive[n][x] = file[x]
      BY <1>3 DEF BackupRead, Filled
    <3>2. \A x \in Files : file[x] \in Jars /\ Copied(file[x]) = file[x]
      <4>1. ASSUME NEW x \in Files, file[x] \in Callers PROVE FALSE
        <5>1. pc[file[x]] = "write" /\ local[file[x]].job = "upgrade"
          BY <4>1
        <5>. QED
          BY <3>1, <4>1, <5>1 DEF AtMostOne, ChangeJobs
      <4>. QED
        BY <4>1 DEF Copied
    <3>3. CASE local[t].walk = {}
      BY <1>3, <3>1, <3>3 DEF BackupRead, Filled
    <3>4. CASE local[t].walk # {}
      <4> DEFINE x == IF "jar" \in local[t].walk THEN "jar" ELSE "previous"
      <4>1. /\ x \in Files /\ UNCHANGED <<pc, file>>
            /\ archive' = [archive EXCEPT ![n][x] = file[x]]
            /\ local' = [local EXCEPT ![t].walk = @ \ {x}]
        BY <1>3, <3>1, <3>2, <3>4 DEF BackupRead, Archived
      <4>2. archive'[n] = [archive[n] EXCEPT ![x] = file[x]]
        BY <3>1, <4>1
      <4>3. local'[t].walk = local[t].walk \ {x} /\ local'[t].name = n
        BY <4>1
      <4>4. archive[n] \in Archives
        BY <3>1
      <4>5. archive'[n] \in Archives
        <5>1. CASE x = "jar"
          BY <3>1, <3>2, <4>2, <4>4, <5>1 DEF Archives
        <5>2. CASE x = "previous"
          BY <3>1, <3>2, <4>2, <4>4, <5>2 DEF Archives
        <5>. QED
          BY <5>1, <5>2
      <4>6. /\ archive'[n] # None /\ archive'[n].state = "open"
            /\ \A y \in Files : archive'[n][y] = IF y = x THEN file[y] ELSE archive[n][y]
        <5>1. CASE x = "jar"
          BY <3>1, <4>2, <4>4, <4>5, <5>1, NoArchiveAssumption DEF Archives
        <5>2. CASE x = "previous"
          BY <3>1, <4>2, <4>4, <4>5, <5>2, NoArchiveAssumption DEF Archives
        <5>. QED
          BY <5>1, <5>2
      <4>. QED
        BY <3>1, <4>1, <4>3, <4>6 DEF Filled
    <3>. QED
      BY <3>3, <3>4
  <2>3. Secured(t)' /\ Emptied(t)'
    BY <1>3 DEF BackupRead, Secured, Placed, Emptied
  <2>2. Safe(t)' /\ NothingLost'
    BY <1>3 DEF BackupRead, Archived, Copied, Safe, NothingLost, Kept, Listed, Filled,
       Secured, Placed, Emptied
  <2>. QED
    BY <2>1, <2>2, <2>3
<1>4. CASE BackupFails(t)
  <2>1. Filled(t)' /\ Secured(t)' /\ Emptied(t)'
    BY <1>4 DEF BackupFails, Filled, Secured, Placed, Emptied
  <2>2. Safe(t)' /\ NothingLost'
    BY <1>4 DEF BackupFails, Safe, NothingLost, Kept, Listed, Filled, Secured, Placed, Emptied
  <2>. QED
    BY <2>1, <2>2
<1>5. CASE BackupClose(t)
  <2>1. Filled(t)'
    <3> SUFFICES ASSUME local[t].job = "upgrade" PROVE Filled(t)'
      BY <1>5 DEF BackupClose, Filled
    <3> DEFINE n == local[t].name
    <3>1. /\ pc[t] = "backupClose" /\ n \in Names
          /\ archive[n] # None /\ archive[n].state = "open"
          /\ archive[n].jar = file["jar"] /\ archive[n].previous = file["previous"]
      BY <1>5 DEF BackupClose, Filled
    <3>2. /\ UNCHANGED <<local, file>> /\ pc'[t] = "backupInsert"
          /\ archive'[n] = [archive[n] EXCEPT !.state = "whole"]
      BY <1>5, <3>1 DEF BackupClose
    <3>3. archive[n] \in Archives
      BY <3>1
    <3>4. /\ archive'[n] # None /\ archive'[n].state = "whole"
          /\ archive'[n].jar = file["jar"] /\ archive'[n].previous = file["previous"]
      BY <3>1, <3>2, <3>3, NoArchiveAssumption DEF Archives
    <3>. QED
      BY <3>2, <3>4 DEF Filled
  <2>3. Secured(t)' /\ Emptied(t)'
    BY <1>5 DEF BackupClose, Secured, Placed, Emptied
  <2>2. Safe(t)' /\ NothingLost'
    BY <1>5 DEF BackupClose, Safe, NothingLost, Kept, Listed, Filled, Secured, Placed, Emptied
  <2>. QED
    BY <2>1, <2>2, <2>3
<1>6. CASE BackupInsert(t)
  <2>1. Filled(t)' /\ Secured(t)' /\ Emptied(t)'
    BY <1>6 DEF BackupInsert, Filled, Secured, Placed, Emptied
  <2>2. Safe(t)' /\ NothingLost'
    BY <1>6 DEF BackupInsert, Safe, NothingLost, Kept, Listed, Filled, Secured, Placed, Emptied
  <2>. QED
    BY <2>1, <2>2
<1>. QED
  BY <1>1, <1>2, <1>3, <1>4, <1>5, <1>6 DEF CreateBackup

LEMMA UpgradeServerInv ==
  ASSUME UpgradeInv, ~SameSecond, AtMostOne(ChangeJobs), NEW t \in Callers, UpgradeServer(t)
  PROVE  UpgradeInv'
<1>0. /\ SwapInv'
      /\ \A u \in Callers \ {t} : Knows(u)'
  <2>1. AtMostOne(SwapJobs)
    BY DEF AtMostOne, SwapJobs, ChangeJobs
  <2>2. SwapInv'
    BY <2>1, UpgradeServerSwap DEF UpgradeInv
  <2>. QED
    BY <2>2, UpgradeServerMoves, OthersKnow DEF UpgradeInv, SwapInv, ChangeJobs
<1>. SUFFICES Knows(t)' /\ NothingLost'
  BY <1>0 DEF UpgradeInv
<1>. USE NamesAssumption, BoundsAssumption
       DEF Knows, UpgradeInv, SwapInv, TypeInv, TypeOK, Written,
           Remembered, NameIsOwn, OpenSteps, ChangeSteps, NamedSteps, BackupSteps,
           SwapSteps, ProveSteps, RollSteps, RestoreSteps, DeleteSteps, Files, Jars,
           Archives, Statuses, Locals, Step, At, Goto, Finish, NoLocal, database, disk,
           runtime
<1>1. CASE ClearPrevious(t)
  <2>1. Filled(t)' /\ Secured(t)' /\ Emptied(t)'
    BY <1>1 DEF ClearPrevious, Filled, Secured, Placed, Emptied
  <2>2. Safe(t)' /\ NothingLost'
    BY <1>1 DEF ClearPrevious, Safe, NothingLost, Kept, Listed, Filled, Secured, Placed, Emptied
  <2>. QED
    BY <2>1, <2>2
<1>2. CASE SetAside(t)
  <2>1. Filled(t)' /\ Secured(t)' /\ Emptied(t)'
    BY <1>2 DEF SetAside, Filled, Secured, Placed, Emptied
  <2>2. Safe(t)' /\ NothingLost'
    BY <1>2 DEF SetAside, Safe, NothingLost, Kept, Listed, Filled, Secured, Placed, Emptied
  <2>. QED
    BY <2>1, <2>2
<1>3. CASE Download(t)
  <2>1. Filled(t)' /\ Secured(t)' /\ Emptied(t)'
    BY <1>3 DEF Download, Filled, Secured, Placed, Emptied
  <2>2. Safe(t)' /\ NothingLost'
    BY <1>3 DEF Download, Safe, NothingLost, Kept, Listed, Filled, Secured, Placed, Emptied
  <2>. QED
    BY <2>1, <2>2
<1>4. CASE Fetch(t)
  <2>1. Filled(t)' /\ Secured(t)' /\ Emptied(t)'
    BY <1>4 DEF Fetch, Filled, Secured, Placed, Emptied
  <2>2. Safe(t)' /\ NothingLost'
    BY <1>4 DEF Fetch, Safe, NothingLost, Kept, Listed, Filled, Secured, Placed, Emptied
  <2>. QED
    BY <2>1, <2>2
<1>5. CASE Write(t)
  <2>1. Filled(t)' /\ Secured(t)' /\ Emptied(t)'
    BY <1>5 DEF Write, Filled, Secured, Placed, Emptied
  <2>2. Safe(t)' /\ NothingLost'
    BY <1>5 DEF Write, Safe, NothingLost, Kept, Listed, Filled, Secured, Placed, Emptied
  <2>. QED
    BY <2>1, <2>2
<1>6. CASE WriteFails(t)
  <2>1. Filled(t)' /\ Secured(t)' /\ Emptied(t)'
    BY <1>6 DEF WriteFails, Filled, Secured, Placed, Emptied
  <2>2. Safe(t)' /\ NothingLost'
    BY <1>6 DEF WriteFails, Safe, NothingLost, Kept, Listed, Filled, Secured, Placed, Emptied
  <2>. QED
    BY <2>1, <2>2
<1>7. CASE SetVersion(t)
  <2>1. Filled(t)' /\ Secured(t)' /\ Emptied(t)'
    BY <1>7 DEF SetVersion, Filled, Secured, Placed, Emptied
  <2>2. Safe(t)' /\ NothingLost'
    BY <1>7 DEF SetVersion, Safe, NothingLost, Kept, Listed, Filled, Secured, Placed, Emptied
  <2>. QED
    BY <2>1, <2>2
<1>8. CASE SetReady(t)
  <2>1. Filled(t)' /\ Secured(t)' /\ Emptied(t)'
    BY <1>8 DEF SetReady, Filled, Secured, Placed, Emptied
  <2>2. Safe(t)' /\ NothingLost'
    BY <1>8 DEF SetReady, Safe, NothingLost, Kept, Listed, Filled, Secured, Placed, Emptied
  <2>. QED
    BY <2>1, <2>2
<1>9. CASE TrialStart(t)
  <2>1. Filled(t)' /\ Secured(t)' /\ Emptied(t)'
    BY <1>9 DEF TrialStart, Launch, Refuse, Reject, Copied, Resting, Filled, Secured,
       Placed, Emptied
  <2>2. Safe(t)' /\ NothingLost'
    BY <1>9 DEF TrialStart, Launch, Refuse, Reject, Copied, Resting, Safe, NothingLost,
       Kept, Listed, Filled, Secured, Placed, Emptied
  <2>. QED
    BY <2>1, <2>2
<1>10. CASE Answered(t)
  <2>1. Filled(t)' /\ Secured(t)' /\ Emptied(t)'
    BY <1>10 DEF Answered, Filled, Secured, Placed, Emptied
  <2>2. Safe(t)' /\ NothingLost'
    BY <1>10 DEF Answered, Safe, NothingLost, Kept, Listed, Filled, Secured, Placed, Emptied
  <2>. QED
    BY <2>1, <2>2
<1>11. CASE Unanswered(t)
  <2>1. Filled(t)' /\ Secured(t)' /\ Emptied(t)'
    BY <1>11 DEF Unanswered, Filled, Secured, Placed, Emptied
  <2>2. Safe(t)' /\ NothingLost'
    BY <1>11 DEF Unanswered, Safe, NothingLost, Kept, Listed, Filled, Secured, Placed, Emptied
  <2>. QED
    BY <2>1, <2>2
<1>12. CASE ForceStop(t)
  <2>1. Filled(t)' /\ Secured(t)' /\ Emptied(t)'
    BY <1>12 DEF ForceStop, Halt, Reject, Resting, Filled, Secured, Placed, Emptied
  <2>2. Safe(t)' /\ NothingLost'
    BY <1>12 DEF ForceStop, Halt, Reject, Resting, Safe, NothingLost, Kept, Listed, Filled,
       Secured, Placed, Emptied
  <2>. QED
    BY <2>1, <2>2
<1>13. CASE Commit(t)
  <2>1. Filled(t)' /\ Secured(t)' /\ Emptied(t)'
    BY <1>13 DEF Commit, Filled, Secured, Placed, Emptied
  <2>2. Safe(t)' /\ NothingLost'
    BY <1>13 DEF Commit, Safe, NothingLost, Kept, Listed, Filled, Secured, Placed, Emptied
  <2>. QED
    BY <2>1, <2>2
<1>. QED
  BY <1>1, <1>2, <1>3, <1>4, <1>5, <1>6, <1>7, <1>8, <1>9, <1>10, <1>11, <1>12, <1>13 DEF
     UpgradeServer

LEMMA RollbackInv ==
  ASSUME UpgradeInv, ~SameSecond, AtMostOne(ChangeJobs), NEW t \in Callers, Rollback(t)
  PROVE  UpgradeInv'
<1>0. /\ SwapInv'
      /\ \A u \in Callers \ {t} : Knows(u)'
  <2>1. AtMostOne(SwapJobs)
    BY DEF AtMostOne, SwapJobs, ChangeJobs
  <2>2. SwapInv'
    BY <2>1, RollbackSwap DEF UpgradeInv
  <2>. QED
    BY <2>2, RollbackMoves, OthersKnow DEF UpgradeInv, SwapInv, ChangeJobs
<1>. SUFFICES Knows(t)' /\ NothingLost'
  BY <1>0 DEF UpgradeInv
<1>. USE NamesAssumption, BoundsAssumption
       DEF Knows, UpgradeInv, SwapInv, TypeInv, TypeOK, Written,
           Remembered, NameIsOwn, OpenSteps, ChangeSteps, NamedSteps, BackupSteps,
           SwapSteps, ProveSteps, RollSteps, RestoreSteps, DeleteSteps, Files, Jars,
           Archives, Statuses, Locals, Step, At, Goto, Finish, NoLocal, database, disk,
           runtime
<1>1. CASE RollRemove(t)
  <2>1. Filled(t)' /\ Secured(t)' /\ Emptied(t)'
    BY <1>1 DEF RollRemove, Filled, Secured, Placed, Emptied
  <2>2. Safe(t)' /\ NothingLost'
    BY <1>1 DEF RollRemove, Safe, NothingLost, Kept, Listed, Filled, Secured, Placed, Emptied
  <2>. QED
    BY <2>1, <2>2
<1>2. CASE RollRename(t)
  <2>1. Filled(t)' /\ Secured(t)' /\ Emptied(t)'
    BY <1>2 DEF RollRename, Filled, Secured, Placed, Emptied
  <2>2. Safe(t)' /\ NothingLost'
    BY <1>2 DEF RollRename, Safe, NothingLost, Kept, Listed, Filled, Secured, Placed, Emptied
  <2>. QED
    BY <2>1, <2>2
<1>3. CASE RollVersion(t)
  <2>1. Filled(t)' /\ Secured(t)' /\ Emptied(t)'
    BY <1>3 DEF RollVersion, Filled, Secured, Placed, Emptied
  <2>2. Safe(t)' /\ NothingLost'
    BY <1>3 DEF RollVersion, Safe, NothingLost, Kept, Listed, Filled, Secured, Placed, Emptied
  <2>. QED
    BY <2>1, <2>2
<1>4. CASE RollReady(t)
  <2>1. Filled(t)' /\ Secured(t)' /\ Emptied(t)'
    BY <1>4 DEF RollReady, Filled, Secured, Placed, Emptied
  <2>2. Safe(t)' /\ NothingLost'
    BY <1>4 DEF RollReady, Safe, NothingLost, Kept, Listed, Filled, Secured, Placed, Emptied
  <2>. QED
    BY <2>1, <2>2
<1>5. CASE RollStatus(t)
  <2>1. Filled(t)' /\ Secured(t)' /\ Emptied(t)'
    BY <1>5 DEF RollStatus, Resting, Filled, Secured, Placed, Emptied
  <2>2. Safe(t)' /\ NothingLost'
    BY <1>5 DEF RollStatus, Resting, Safe, NothingLost, Kept, Listed, Filled, Secured,
       Placed, Emptied
  <2>. QED
    BY <2>1, <2>2
<1>. QED
  BY <1>1, <1>2, <1>3, <1>4, <1>5 DEF Rollback

LEMMA RestoreBackupInv ==
  ASSUME UpgradeInv, ~SameSecond, AtMostOne(ChangeJobs), NEW t \in Callers, RestoreBackup(t)
  PROVE  UpgradeInv'
<1>0. /\ SwapInv'
      /\ \A u \in Callers \ {t} : Knows(u)'
  <2>1. AtMostOne(SwapJobs)
    BY DEF AtMostOne, SwapJobs, ChangeJobs
  <2>2. SwapInv'
    BY <2>1, RestoreBackupSwap DEF UpgradeInv
  <2>. QED
    BY <2>2, RestoreBackupMoves, OthersKnow DEF UpgradeInv, SwapInv, ChangeJobs
<1>. SUFFICES Knows(t)' /\ NothingLost'
  BY <1>0 DEF UpgradeInv
<1>. USE NamesAssumption, BoundsAssumption
       DEF Knows, UpgradeInv, SwapInv, TypeInv, TypeOK, Written,
           Remembered, NameIsOwn, OpenSteps, ChangeSteps, NamedSteps, BackupSteps,
           SwapSteps, ProveSteps, RollSteps, RestoreSteps, DeleteSteps, Files, Jars,
           Archives, Statuses, Locals, Step, At, Goto, Finish, NoLocal, database, disk,
           runtime
<1>1. CASE RestoreClear(t)
  <2>1. Filled(t)' /\ Secured(t)' /\ Emptied(t)'
    BY <1>1 DEF RestoreClear, Rehold, Filled, Secured, Placed, Emptied
  <2>2. Safe(t)' /\ NothingLost'
    BY <1>1 DEF RestoreClear, Rehold, Safe, NothingLost, Kept, Listed, Filled, Secured,
       Placed, Emptied
  <2>. QED
    BY <2>1, <2>2
<1>2. CASE RestoreExtract(t)
  <2>1. Filled(t)' /\ Secured(t)' /\ Emptied(t)'
    BY <1>2 DEF RestoreExtract, Filled, Secured, Placed, Emptied
  <2>2. Safe(t)' /\ NothingLost'
    BY <1>2 DEF RestoreExtract, Safe, NothingLost, Kept, Listed, Filled, Secured, Placed,
       Emptied
  <2>. QED
    BY <2>1, <2>2
<1>. QED
  BY <1>1, <1>2 DEF RestoreBackup

LEMMA DeleteBackupInv ==
  ASSUME UpgradeInv, ~SameSecond, AtMostOne(ChangeJobs), NEW t \in Callers, DeleteBackup(t)
  PROVE  UpgradeInv'
<1>0. /\ SwapInv'
      /\ \A u \in Callers \ {t} : Knows(u)'
  <2>1. AtMostOne(SwapJobs)
    BY DEF AtMostOne, SwapJobs, ChangeJobs
  <2>2. SwapInv'
    BY <2>1, DeleteBackupSwap DEF UpgradeInv
  <2>. QED
    BY <2>2, DeleteBackupMoves, OthersKnow DEF UpgradeInv, SwapInv, ChangeJobs
<1>. SUFFICES Knows(t)' /\ NothingLost'
  BY <1>0 DEF UpgradeInv
<1>. USE NamesAssumption, BoundsAssumption
       DEF Knows, UpgradeInv, SwapInv, TypeInv, TypeOK, Written,
           Remembered, NameIsOwn, OpenSteps, ChangeSteps, NamedSteps, BackupSteps,
           SwapSteps, ProveSteps, RollSteps, RestoreSteps, DeleteSteps, Files, Jars,
           Archives, Statuses, Locals, Step, At, Goto, Finish, NoLocal, database, disk,
           runtime
<1>1. CASE DeleteFile(t)
  <2>1. Filled(t)' /\ Secured(t)' /\ Emptied(t)'
    BY <1>1 DEF DeleteFile, Rehold, Filled, Secured, Placed, Emptied
  <2>2. Safe(t)' /\ NothingLost'
    BY <1>1 DEF DeleteFile, Rehold, Safe, NothingLost, Kept, Listed, Filled, Secured,
       Placed, Emptied
  <2>. QED
    BY <2>1, <2>2
<1>2. CASE DeleteRow(t)
  <2>1. Filled(t)' /\ Secured(t)' /\ Emptied(t)'
    BY <1>2 DEF DeleteRow, Filled, Secured, Placed, Emptied
  <2>2. Safe(t)' /\ NothingLost'
    BY <1>2 DEF DeleteRow, Safe, NothingLost, Kept, Listed, Filled, Secured, Placed, Emptied
  <2>. QED
    BY <2>1, <2>2
<1>. QED
  BY <1>1, <1>2 DEF DeleteBackup

LEMMA UpgradeInvNext ==
  ASSUME ~SameSecond, AtMostOne(ChangeJobs), UpgradeInv, SwapInv', [Next]_vars
  PROVE  UpgradeInv'
<1>1. CASE UNCHANGED vars
  BY <1>1 DEF vars, database, disk, runtime, UpgradeInv,
              NothingLost, Kept, Listed, Knows, Filled, Secured, Emptied, Safe
<1>2. CASE Next
  BY <1>2, AroundInv, RebootInv, RequestInv, CreateBackupInv, UpgradeServerInv, RollbackInv,
     RestoreBackupInv, DeleteBackupInv DEF Next
<1>. QED
  BY <1>1, <1>2

LEMMA UpgradeInvHolds ==
  ASSUME ~SameSecond
  PROVE  Spec /\ []AtMostOne(ChangeJobs) => []UpgradeInv
<1>1. SwapInv' /\ UpgradeInv /\ AtMostOne(ChangeJobs) /\ [Next]_vars => UpgradeInv'
  BY UpgradeInvNext
<1>2. AtMostOne(ChangeJobs) => AtMostOne(SwapJobs)
  BY DEF AtMostOne, SwapJobs, ChangeJobs
<1>. QED
  BY InitInv, SwapInvHolds, <1>1, <1>2, PTL DEF Spec

\* If, besides, no archive is deleted meanwhile and no two backups are of one
\* second: before an upgrade touches the jar it finds, a whole archive that the
\* table lists has it ("Back up the world before changing anything",
\* UpgradeServer), and the last jar that proved to run survives every failed upgrade
\* and every reboot, at whatever step, unless the operator discards it.  Other
\* backups may be taken at any time.
THEOREM NothingProvenIsLost ==
  ASSUME ~SameSecond
  PROVE  Spec /\ []AtMostOne(ChangeJobs) => [](SwapIsBackedUp /\ NothingLost)
<1>1. ASSUME UpgradeInv PROVE SwapIsBackedUp
  BY <1>1 DEF UpgradeInv, Knows, Secured, SwapIsBackedUp, ChangeSteps, SwapSteps, ProveSteps,
              RollSteps
<1>2. ASSUME UpgradeInv PROVE NothingLost
  BY <1>2 DEF UpgradeInv
<1>. QED
  BY UpgradeInvHolds, <1>1, <1>2, PTL
=============================================================================
