------------------------------- MODULE Upgrade -------------------------------
(***************************************************************************)
(* UpgradeServer of one server, with the backups it relies on, while the   *)
(* server is started, stopped, crashes and is restarted around it.         *)
(*                                                                         *)
(* A caller is the goroutine of one request: an upgrade, or the creation,  *)
(* restoring or deletion of a backup.  It takes one step per file          *)
(* operation, database call and wait.  What module Lifecycle models step   *)
(* by step is one step here: a start, a stop, the end of a JVM with what   *)
(* its monitor does about it.  A jar is named by the version it is of; a   *)
(* jar that is still being written is named by the caller that writes it.  *)
(***************************************************************************)
EXTENDS Naturals, FiniteSets

CONSTANTS
  Callers,     \* the goroutines that run requests
  Procs,       \* the Process objects, reused once their JVM is gone
  Names,       \* the file names of archives, reused once no row lists them
  Versions,    \* the versions (with their flavors) a server may have
  Original,    \* the version the server was created with
  Partial,     \* a jar that is not whole
  None,        \* no jar, no process, no version
  Jobs,        \* bound: the jobs callers may run in this instance
  SameSecond,  \* bound: whether two backups may be taken in one second
  Reboots      \* bound: whether RealmRunner itself may die and come back

ASSUME NamesAssumption ==
  /\ Original \in Versions
  /\ Callers \cap Versions = {}
  /\ {Partial, None} \cap (Versions \cup Callers \cup Procs \cup Names) = {}
  /\ Partial # None
ASSUME BoundsAssumption ==
  /\ Jobs \subseteq {"upgrade", "backup", "restore", "delete"}
  /\ SameSecond \in BOOLEAN /\ Reboots \in BOOLEAN

VARIABLES
  \* the database
  status,    \* servers.status
  version,   \* servers.version and servers.flavor
  ready,     \* servers.ready
  autoSleep, \* servers.auto_sleep, which no step changes
  rows,      \* how many rows of the table backups name each archive
  \* the disk
  file,      \* server.jar ("jar") and server.jar.previous ("previous")
  archive,   \* the archives, by file name
  latest,    \* the name given out last, kept only if SameSecond
  \* the processes
  jvm,       \* the jar each live JVM was launched from
  process,   \* Manager.processes of this server
  backoff,   \* whether a crash restart is waiting for its delay
  \* the callers
  pc, local,
  \* history
  good       \* the version whose jar last proved to run

database == <<status, version, ready, autoSleep, rows>>
disk     == <<file, archive, latest>>
runtime  == <<jvm, process, backoff>>
vars     == <<database, disk, runtime, pc, local, good>>

Files    == {"jar", "previous"}
Jars     == Versions \cup {Partial, None}     \* what a file holds at rest
Archives == [state : {"open", "torn", "whole"}, jar : Jars, previous : Jars]
Statuses == {"stopped", "sleeping", "crashed", "running"}
Resting  == IF autoSleep THEN "sleeping" ELSE "stopped"

BackupSteps  == {"backupOpen", "backupWalk", "backupRead", "backupClose", "backupInsert"}
SwapSteps    == {"clearPrevious", "setAside"}
ProveSteps   == {"download", "fetch", "write", "setVersion", "setReady", "start", "wait",
                 "forceStop", "commit"}
RollSteps    == {"rollRemove", "rollRename", "rollVersion", "rollReady", "rollStatus"}
RestoreSteps == {"restoreClear", "restoreExtract"}
DeleteSteps  == {"deleteFile", "deleteRow"}

ASSUME NoArchiveAssumption == None \notin Archives

\* The locals of a request.
Locals  == [job : Jobs \cup {"none"}, was : Versions \cup {None},
            want : Versions \cup {None}, had : Jars \cup Callers,
            heard : Versions \cup {None}, name : Names \cup {None}, walk : SUBSET Files]
NoLocal == [job |-> "none", was |-> None, want |-> None, had |-> None,
            heard |-> None, name |-> None, walk |-> {}]

TypeOK ==
  /\ status \in Statuses
  /\ version \in Versions
  /\ ready \in BOOLEAN
  /\ autoSleep \in BOOLEAN
  /\ IF SameSecond THEN rows \in [Names -> Nat] ELSE rows \in [Names -> 0..1]
  /\ file \in [Files -> Jars \cup Callers]
  /\ archive \in [Names -> {None} \cup Archives]
  /\ latest \in Names \cup {None}
  /\ jvm \in [Procs -> Jars]
  /\ process \in Procs \cup {None}
  /\ backoff \in BOOLEAN
  /\ pc \in [Callers -> {"idle"} \cup BackupSteps \cup SwapSteps \cup ProveSteps
                          \cup RollSteps \cup RestoreSteps \cup DeleteSteps]
  /\ local \in [Callers -> Locals]
  /\ good \in Versions \cup {None}

-----------------------------------------------------------------------------
(* Moving a caller on, and what is kept of a jar.                          *)

At(t, label)   == pc[t] = label
Goto(t, label) == pc' = [pc EXCEPT ![t] = label]
Step(t, from, to) == At(t, from) /\ Goto(t, to)
Finish(t) ==
  /\ pc' = [pc EXCEPT ![t] = "idle"]
  /\ local' = [local EXCEPT ![t] = NoLocal]

\* A copy of a jar that is being written, or is left by a dead writer, is not
\* whole.
Copied(content) == IF content \in Callers THEN Partial ELSE content

\* The jars that are on the disk, or in an archive a row lists.
Kept(f, a, r) ==
  {f[x] : x \in Files}
    \cup UNION {{a[n].jar, a[n].previous} :
                  n \in {m \in Names : r[m] > 0 /\ a[m] # None /\ a[m].state = "whole"}}

\* The operator may throw away the last copy of the good jar; an upgrade may not.
Rehold == good' = IF good \in Kept(file', archive', rows) THEN good ELSE None

-----------------------------------------------------------------------------
(* The server around the request: StartServer, StopServer, the monitor and *)
(* the crash handler, each in one step.                                    *)

Launch(p) ==
  /\ status # "running" /\ file["jar"] # None /\ jvm[p] = None
  /\ jvm' = [jvm EXCEPT ![p] = Copied(file["jar"])]
  /\ process' = p
  /\ status' = "running"

\* No Java runtime, no jar, or the launch fails.
Refuse ==
  /\ status # "running"
  /\ status' = Resting
  /\ UNCHANGED <<jvm, process>>

\* Already running, or too many servers are.
Reject == UNCHANGED <<status, jvm, process>>

\* StopServer and ForceStopServer.
Halt ==
  /\ status = "running"
  /\ status' = Resting
  /\ jvm' = IF process = None THEN jvm ELSE [jvm EXCEPT ![process] = None]
  /\ process' = None

Untouched == UNCHANGED <<version, ready, autoSleep, rows, disk, pc, local, good>>

\* A request, a player who joins, or the scheduler.
Start == ((\E p \in Procs : Launch(p)) \/ Refuse) /\ UNCHANGED backoff /\ Untouched
Stop  == Halt /\ UNCHANGED backoff /\ Untouched

\* A JVM ends by itself.  Its monitor clears the table, whoever is in it.
Crash(p) ==
  /\ jvm[p] # None
  /\ jvm' = [jvm EXCEPT ![p] = None]
  /\ process' = None
  /\ status' = "crashed"
  /\ backoff' \in {backoff, TRUE}
  /\ Untouched

Retry ==
  /\ backoff /\ backoff' = FALSE
  /\ IF status = "crashed" THEN (\E p \in Procs : Launch(p)) \/ Refuse \/ Reject
     ELSE Reject
  /\ Untouched

-----------------------------------------------------------------------------
(* CreateBackup, on its own or as the first part of an upgrade.            *)

Backup(t) ==
  /\ "backup" \in Jobs
  /\ Step(t, "idle", "backupOpen")
  /\ local' = [local EXCEPT ![t].job = "backup"]
  /\ UNCHANGED <<database, disk, runtime, good>>

\* The name says the second; os.Create truncates an archive of that name.
BackupOpen(t) ==
  /\ Step(t, "backupOpen", "backupWalk")
  /\ \E n \in Names :
       /\ \/ rows[n] = 0 /\ \A u \in Callers : local[u].name # n
          \/ SameSecond /\ n = latest
       /\ local' = [local EXCEPT ![t].name = n]
       /\ archive' = [archive EXCEPT ![n] =
            [state |-> IF \E u \in Callers : local[u].name = n /\ pc[u] \in BackupSteps
                       THEN "torn" ELSE "open",
             jar |-> None, previous |-> None]]
       /\ latest' = IF SameSecond THEN n ELSE None
  /\ UNCHANGED <<database, file, runtime, good>>

\* filepath.Walk lists the directory once.
BackupWalk(t) ==
  /\ Step(t, "backupWalk", "backupRead")
  /\ local' = [local EXCEPT ![t].walk = {x \in Files : file[x] # None}]
  /\ UNCHANGED <<database, disk, runtime, good>>

\* An open file keeps its data even if its name is removed; what is written to
\* it then is lost.
Archived(n, x, content) ==
  IF archive[n] = None THEN archive ELSE [archive EXCEPT ![n][x] = content]

\* Mutated form: the jar set aside is left out to save space.
BackupReadJarOnly(t) ==
  /\ At(t, "backupRead")
  /\ IF "jar" \in local[t].walk
     THEN /\ archive' = Archived(local[t].name, "jar", Copied(file["jar"]))
          /\ local' = [local EXCEPT ![t].walk = {}]
          /\ UNCHANGED pc
     ELSE Goto(t, "backupClose") /\ UNCHANGED <<archive, local>>
  /\ UNCHANGED <<database, file, latest, runtime, good>>

\* server.jar comes before server.jar.previous; a file that is gone when its
\* turn comes is skipped.
BackupRead(t) ==
  /\ At(t, "backupRead")
  /\ IF local[t].walk = {}
     THEN Goto(t, "backupClose") /\ UNCHANGED <<archive, local>>
     ELSE LET x == IF "jar" \in local[t].walk THEN "jar" ELSE "previous"
          IN  /\ archive' = Archived(local[t].name, x, Copied(file[x]))
              /\ local' = [local EXCEPT ![t].walk = @ \ {x}]
              /\ UNCHANGED pc
  /\ UNCHANGED <<database, file, latest, runtime, good>>

\* Mutated form: a failed backup is logged and the upgrade goes on.
BackupFailsQuietly(t) ==
  /\ At(t, "backupRead")
  /\ archive' = [archive EXCEPT ![local[t].name] = None]
  /\ IF local[t].job = "upgrade" THEN Goto(t, "clearPrevious") /\ UNCHANGED local ELSE Finish(t)
  /\ UNCHANGED <<database, file, latest, runtime, good>>

\* A file cannot be read or the disk is full: the archive is removed again and
\* the request, upgrade or not, returns the error.
BackupFails(t) ==
  /\ At(t, "backupRead")
  /\ archive' = [archive EXCEPT ![local[t].name] = None]
  /\ Finish(t)
  /\ UNCHANGED <<database, file, latest, runtime, good>>

BackupClose(t) ==
  /\ Step(t, "backupClose", "backupInsert")
  /\ archive' = IF archive[local[t].name] # None /\ archive[local[t].name].state = "open"
                THEN [archive EXCEPT ![local[t].name].state = "whole"] ELSE archive
  /\ UNCHANGED <<database, file, latest, runtime, local, good>>

\* Mutated form: the insert is tried twice.
BackupInsertTwice(t) ==
  /\ At(t, "backupInsert")
  /\ rows' = [rows EXCEPT ![local[t].name] = @ + 2]
  /\ IF local[t].job = "upgrade" THEN Goto(t, "clearPrevious") /\ UNCHANGED local ELSE Finish(t)
  /\ UNCHANGED <<status, version, ready, autoSleep, disk, runtime, good>>

\* If the file is gone its size cannot be read: the request panics before the
\* row is written.
BackupInsert(t) ==
  /\ At(t, "backupInsert")
  /\ IF archive[local[t].name] = None
     THEN Finish(t) /\ UNCHANGED rows
     ELSE /\ rows' = [rows EXCEPT ![local[t].name] = @ + 1]
          /\ IF local[t].job = "upgrade" THEN Goto(t, "clearPrevious") /\ UNCHANGED local
             ELSE Finish(t)
  /\ UNCHANGED <<status, version, ready, autoSleep, disk, runtime, good>>

-----------------------------------------------------------------------------
(* UpgradeServer.                                                          *)

\* The row is read once.  A version no Java runtime can run, or no provider
\* has, is refused here; then nothing happens.
Upgrade(t, v) ==
  /\ "upgrade" \in Jobs
  /\ status \in {"stopped", "crashed", "sleeping"}
  /\ Step(t, "idle", "backupOpen")
  /\ local' = [local EXCEPT ![t].job = "upgrade", ![t].was = version, ![t].want = v]
  /\ UNCHANGED <<database, disk, runtime, good>>

ClearPrevious(t) ==
  /\ Step(t, "clearPrevious", "setAside")
  /\ file' = [file EXCEPT !["previous"] = None]
  /\ UNCHANGED <<database, archive, latest, runtime, local, good>>

\* Mutated form: the jar is copied and stays in place.
SetAsideCopied(t) ==
  /\ Step(t, "setAside", "download")
  /\ local' = [local EXCEPT ![t].had = file["jar"]]
  /\ file' = [file EXCEPT !["previous"] = file["jar"]]
  /\ UNCHANGED <<database, archive, latest, runtime, good>>

SetAside(t) ==
  /\ Step(t, "setAside", "download")
  /\ local' = [local EXCEPT ![t].had = file["jar"]]
  /\ file' = IF file["jar"] = None THEN file
             ELSE [jar |-> None, previous |-> file["jar"]]
  /\ UNCHANGED <<database, archive, latest, runtime, good>>

\* The provider skips the download when a server.jar is there.
Download(t) ==
  /\ At(t, "download")
  /\ Goto(t, IF file["jar"] # None THEN "setVersion" ELSE "fetch")
  /\ UNCHANGED <<database, disk, runtime, local, good>>

\* The version does not exist or the service does not answer; or the jar begins
\* to arrive.  Two writers of one file spoil it.
Fetch(t) ==
  /\ \/ Step(t, "fetch", "rollRemove") /\ UNCHANGED file
     \/ /\ Step(t, "fetch", "write")
        /\ file' = [file EXCEPT !["jar"] = IF @ \in Callers THEN Partial ELSE t]
  /\ UNCHANGED <<database, archive, latest, runtime, local, good>>

\* The rest of the jar arrives, under whatever name the file has by now.
Write(t) ==
  /\ Step(t, "write", "setVersion")
  /\ file' = [x \in Files |-> IF file[x] = t THEN local[t].want ELSE file[x]]
  /\ UNCHANGED <<database, archive, latest, runtime, local, good>>

WriteFails(t) ==
  /\ Step(t, "write", "rollRemove")
  /\ file' = [jar |-> None, previous |-> IF file["previous"] = t THEN Partial ELSE file["previous"]]
  /\ UNCHANGED <<database, archive, latest, runtime, local, good>>

SetVersion(t) ==
  /\ Step(t, "setVersion", "setReady")
  /\ version' = local[t].want
  /\ UNCHANGED <<status, ready, autoSleep, rows, disk, runtime, local, good>>

SetReady(t) ==
  /\ Step(t, "setReady", "start")
  /\ ready' = TRUE
  /\ UNCHANGED <<status, version, autoSleep, rows, disk, runtime, local, good>>

TrialStart(t) ==
  /\ \/ Step(t, "start", "wait") /\ \E p \in Procs : Launch(p)
     \/ Step(t, "start", "rollRemove") /\ (Refuse \/ Reject)
  /\ UNCHANGED <<version, ready, autoSleep, rows, disk, backoff, local, good>>

\* waitUntilReady: something accepts the password on the control port.  The
\* port and the password belong to the server, not to one JVM of it.
Answered(t) ==
  /\ Step(t, "wait", "commit")
  /\ \E p \in Procs :
       /\ jvm[p] \in Versions
       /\ local' = [local EXCEPT ![t].heard = jvm[p]]
  /\ UNCHANGED <<database, disk, runtime, good>>

\* waitUntilReady sees "crashed" or "stopped", or gives up after 5 minutes.
Unanswered(t) ==
  /\ Step(t, "wait", "forceStop")
  /\ UNCHANGED <<database, disk, runtime, local, good>>

ForceStop(t) ==
  /\ Step(t, "forceStop", "rollRemove")
  /\ IF status = "running" THEN Halt ELSE Reject
  /\ UNCHANGED <<version, ready, autoSleep, rows, disk, backoff, local, good>>

Commit(t) ==
  /\ At(t, "commit")
  /\ file' = [file EXCEPT !["previous"] = None]
  /\ good' = IF local[t].heard = local[t].want THEN local[t].want ELSE good
  /\ Finish(t)
  /\ UNCHANGED <<database, archive, latest, runtime>>

RollRemove(t) ==
  /\ Step(t, "rollRemove", "rollRename")
  /\ file' = [file EXCEPT !["jar"] = None]
  /\ UNCHANGED <<database, archive, latest, runtime, local, good>>

\* Mutated form: a jar that was not whole is not put back.
RollRenameWhole(t) ==
  /\ Step(t, "rollRename", "rollVersion")
  /\ file' = IF local[t].had \in {None, Partial} \/ file["previous"] = None THEN file
             ELSE [jar |-> file["previous"], previous |-> None]
  /\ UNCHANGED <<database, archive, latest, runtime, local, good>>

RollRename(t) ==
  /\ Step(t, "rollRename", "rollVersion")
  /\ file' = IF local[t].had = None \/ file["previous"] = None THEN file
             ELSE [jar |-> file["previous"], previous |-> None]
  /\ UNCHANGED <<database, archive, latest, runtime, local, good>>

RollVersion(t) ==
  /\ Step(t, "rollVersion", "rollReady")
  /\ version' = local[t].was
  /\ UNCHANGED <<status, ready, autoSleep, rows, disk, runtime, local, good>>

RollReady(t) ==
  /\ Step(t, "rollReady", "rollStatus")
  /\ ready' = (local[t].had # None)
  /\ UNCHANGED <<status, version, autoSleep, rows, disk, runtime, local, good>>

RollStatus(t) ==
  /\ At(t, "rollStatus")
  /\ status' = Resting
  /\ Finish(t)
  /\ UNCHANGED <<version, ready, autoSleep, rows, disk, runtime, good>>

-----------------------------------------------------------------------------
(* RestoreBackup and DeleteBackup.                                         *)

Restore(t, n) ==
  /\ "restore" \in Jobs
  /\ status = "stopped" /\ rows[n] > 0
  /\ Step(t, "idle", "restoreClear")
  /\ local' = [local EXCEPT ![t].job = "restore", ![t].name = n]
  /\ UNCHANGED <<database, disk, runtime, good>>

RestoreClear(t) ==
  /\ Step(t, "restoreClear", "restoreExtract")
  /\ file' = [x \in Files |-> None]
  /\ UNCHANGED <<database, archive, latest, runtime, local>>
  /\ Rehold

\* An archive that is missing or damaged is noticed only now.  Once open it is
\* read to the end, even if it is deleted; files it does not hold stay.
RestoreExtract(t) ==
  /\ At(t, "restoreExtract")
  /\ LET a == archive[local[t].name]
     IN  file' = IF a # None /\ a.state = "whole"
                 THEN [x \in Files |-> IF a[x] = None THEN file[x] ELSE a[x]]
                 ELSE file
  /\ Finish(t)
  /\ UNCHANGED <<database, archive, latest, runtime, good>>

Delete(t, n) ==
  /\ "delete" \in Jobs
  /\ rows[n] > 0
  /\ Step(t, "idle", "deleteFile")
  /\ local' = [local EXCEPT ![t].job = "delete", ![t].name = n]
  /\ UNCHANGED <<database, disk, runtime, good>>

DeleteFile(t) ==
  /\ Step(t, "deleteFile", "deleteRow")
  /\ archive' = [archive EXCEPT ![local[t].name] = None]
  /\ UNCHANGED <<database, file, latest, runtime, local>>
  /\ Rehold

DeleteRow(t) ==
  /\ At(t, "deleteRow")
  /\ rows' = [rows EXCEPT ![local[t].name] = IF @ > 0 THEN @ - 1 ELSE 0]
  /\ Finish(t)
  /\ UNCHANGED <<status, version, ready, autoSleep, disk, runtime, good>>

-----------------------------------------------------------------------------

\* RealmRunner and its JVMs die.  At boot the status is settled (a stopped
\* server sleeps if its proxy could bind the port), and a server that has a jar
\* is marked ready.  An archive without a row stays on the disk, but nothing will
\* read it again, so it is dropped here.
Reboot ==
  /\ Reboots
  /\ \/ status' = IF status = "running" THEN "stopped" ELSE status
     \/ autoSleep /\ status \in {"running", "stopped"} /\ status' = "sleeping"
  /\ ready' = (ready \/ file["jar"] # None)
  /\ file' = [x \in Files |-> Copied(file[x])]
  /\ jvm' = [p \in Procs |-> None]
  /\ process' = None /\ backoff' = FALSE
  /\ pc' = [t \in Callers |-> "idle"]
  /\ local' = [t \in Callers |-> NoLocal]
  /\ archive' = [n \in Names |-> IF rows[n] = 0 THEN None ELSE archive[n]]
  /\ UNCHANGED <<version, autoSleep, rows, latest, good>>

Init ==
  /\ autoSleep \in BOOLEAN
  /\ status = Resting /\ version = Original /\ ready = TRUE
  /\ rows = [n \in Names |-> 0]
  /\ file = [jar |-> Original, previous |-> None]
  /\ archive = [n \in Names |-> None] /\ latest = None
  /\ jvm = [p \in Procs |-> None] /\ process = None /\ backoff = FALSE
  /\ pc = [t \in Callers |-> "idle"]
  /\ local = [t \in Callers |-> NoLocal]
  /\ good = Original

Request(t) ==
  \/ Backup(t)
  \/ \E v \in Versions : Upgrade(t, v)
  \/ \E n \in Names : Restore(t, n) \/ Delete(t, n)

CreateBackup(t) ==
  \/ BackupOpen(t) \/ BackupWalk(t) \/ BackupRead(t) \/ BackupFails(t)
  \/ BackupClose(t) \/ BackupInsert(t)

UpgradeServer(t) ==
  \/ ClearPrevious(t) \/ SetAside(t) \/ Download(t) \/ Fetch(t)
  \/ Write(t) \/ WriteFails(t) \/ SetVersion(t) \/ SetReady(t)
  \/ TrialStart(t) \/ Answered(t) \/ Unanswered(t) \/ ForceStop(t) \/ Commit(t)

Rollback(t) ==
  \/ RollRemove(t) \/ RollRename(t) \/ RollVersion(t) \/ RollReady(t) \/ RollStatus(t)

RestoreBackup(t) == RestoreClear(t) \/ RestoreExtract(t)
DeleteBackup(t)  == DeleteFile(t) \/ DeleteRow(t)

Next ==
  \/ Start \/ Stop \/ (\E p \in Procs : Crash(p)) \/ Retry \/ Reboot
  \/ \E t \in Callers :
       Request(t) \/ CreateBackup(t) \/ UpgradeServer(t) \/ Rollback(t)
         \/ RestoreBackup(t) \/ DeleteBackup(t)

Spec == Init /\ [][Next]_vars

-----------------------------------------------------------------------------
(* Properties.                                                             *)

\* An upgrade that fails after it began to change things has put back the jar it
\* found, the version that goes with it, and whether the server is ready,
\* whichever step failed and whatever was started, stopped or crashed meanwhile.
FailureRestores ==
  \A t \in Callers : pc[t] = "rollStatus" =>
    file["jar"] = local[t].had /\ version = local[t].was /\ ready = (local[t].had # None)

\* An upgrade that reports success has installed the jar it reports, and the row
\* says so.
SuccessIsInstalled ==
  \A t \in Callers : pc[t] = "commit" =>
    file["jar"] = local[t].want /\ version = local[t].want /\ ready

\* From the moment an upgrade sets the jar aside, the jar it found is in a whole
\* archive that the table lists.
SwapIsBackedUp ==
  \A t \in Callers : pc[t] \in ProveSteps \cup RollSteps =>
    LET n == local[t].name
    IN  /\ rows[n] > 0 /\ archive[n] # None
        /\ archive[n].state = "whole" /\ archive[n].jar = local[t].had

\* However many upgrades fail or are cut short by a reboot, at whatever step, the
\* last jar that proved to run is still there, in place, set aside or in a listed
\* archive, unless the operator discarded it.
NothingLost == good # None => good \in Kept(file, archive, rows)

\* What the repository says and the code does not keep.  upgrade.go: "Verify the
\* new version actually runs"; so when an upgrade succeeds, it is a JVM of the
\* new version that has answered.
SuccessIsVerified ==
  \A t \in Callers : pc[t] = "commit" => local[t].heard = local[t].want

-----------------------------------------------------------------------------
(* Upgrade implements UpgradeOutcome: as long as an upgrade may still be   *)
(* undone, the server counts as what it was when the jar was set aside.    *)

Upgraders == {t \in Callers : local[t].job = "upgrade"}
Swappers  == {t \in Callers : pc[t] \in ProveSteps \cup RollSteps}
Swapped   == local[CHOOSE t \in Swappers : TRUE]

CountsJar     == IF Swappers = {} THEN file["jar"] ELSE Swapped.had
CountsVersion == IF Swappers = {} THEN version ELSE Swapped.was
CountsReady   == IF Swappers = {} THEN ready ELSE Swapped.had # None
Wanted        == IF Upgraders = {} THEN None ELSE local[CHOOSE t \in Upgraders : TRUE].want

Promise == INSTANCE UpgradeOutcome WITH
  jar <- CountsJar, version <- CountsVersion, ready <- CountsReady, request <- Wanted

\* Only a reboot may do what the death of RealmRunner does,
StepIsPromised == IF Reboot THEN Promise!Died ELSE [Promise!Promised]_(Promise!vars)

\* and an answer tells what has become of the request.
AnswerIsTrue ==
  \A t \in Callers : (Commit(t) => Promise!Succeed) /\ (RollStatus(t) => Promise!Fail)

\* To its operator an upgrade is one step: whatever fails, and whatever is started,
\* stopped, crashes or is restored around it, from the request to the answer the
\* server counts as what it was; when the answer is that it succeeded, it is what was
\* asked for, jar, version and flag, and when it is that it failed, what it was.  Only
\* a reboot can leave anything in between.
UpgradeIsOneStep ==
  Promise!Init /\ [][StepIsPromised]_vars /\ [][AnswerIsTrue]_vars

=====================
