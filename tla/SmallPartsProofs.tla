---------------------------- MODULE SmallPartsProofs ----------------------------
(***************************************************************************)
(* Proofs about SmallParts, for any number of users, realms, servers,      *)
(* players, runs, lines and commands.  PlayerFilesProofs and RulesProofs   *)
(* have the player lists and the pure functions; the accounts, the console *)
(* log and the RCON client follow here, and at the end all together: a     *)
(* step of SmallParts is a step of one of them.                            *)
(***************************************************************************)
EXTENDS SmallParts, PlayerFilesProofs, RulesProofs

-----------------------------------------------------------------------------
(* Accounts and realms: the inductive invariant.                            *)

\* Handlers work only while the program is up.
NoneAtBoot == phase # "up" => \A c \in Callers : delete[c].at = "none"

\* Between the check of DeleteRealm and its last statement no server comes into
\* the realm: none is put in a realm except by a boot.
DeletedIsEmpty ==
  \A c \in Callers : delete[c].at \in {"admins", "row"} =>
    \A s \in Servers : realmOf[s] # delete[c].realm

\* What the first boot has done by each of its steps.
Someone == \E u \in Users : roles[u] # "none"

FirstBoot ==
  undisturbed =>
    /\ phase \in {"down", "realms"} =>
         realms = {} /\ \A s \in Old : realmOf[s] = NoRealm
    /\ phase = "assign" => realms # {} /\ \A s \in Old : realmOf[s] = NoRealm
    /\ phase \in {"promote", "remaining", "cursor", "users", "booted"} =>
         \A s \in Old : realmOf[s] \in realms
    /\ phase \in {"down", "realms", "assign", "promote"} /\ Someone => Having("admin") # {}
    /\ phase \in {"remaining", "cursor", "users"} /\ Someone => Owners # {}
    /\ phase = "booted" => Owners # {}

AccountsInv ==
  /\ AccountsTypeOK
  /\ RealmsExist
  /\ NoneAtBoot
  /\ DeletedIsEmpty
  /\ FirstBoot

LEMMA AccountsInitInv == AccountsInit => AccountsInv
  BY AccountsAssumption
  DEF AccountsInit, AccountsInv, AccountsTypeOK, RealmsExist, NoneAtBoot, DeletedIsEmpty, FirstBoot,
      Someone, Servers, Roles, Boots, Delete, Having

-----------------------------------------------------------------------------
(* The steps of a boot.                                                    *)

LEMMA BootNextInv == AccountsInv /\ BootNext => AccountsInv'
<1>. SUFFICES ASSUME AccountsInv, BootNext PROVE AccountsInv'
  OBVIOUS
<1>. USE AccountsAssumption
     DEF AccountsInv, AccountsTypeOK, RealmsExist, NoneAtBoot, DeletedIsEmpty, FirstBoot, Someone,
         Servers, Roles, Boots, Having, Owners, BootStep, tables
<1>1. CASE Boot
  BY <1>1 DEF Boot
<1>2. CASE CreateDefault
  BY <1>2 DEF CreateDefault
<1>3. CASE AssignServers
  BY <1>3 DEF AssignServers
<1>4. CASE PromoteAdmin
  BY <1>4 DEF PromoteAdmin
<1>5. CASE OpenCursor
  BY <1>5 DEF OpenCursor
<1>6. CASE InsertAdmin
  BY <1>6 DEF InsertAdmin
<1>7. CASE CloseCursor
  BY <1>7 DEF CloseCursor
<1>8. CASE MigrateFromSinglePassword
  BY <1>8 DEF MigrateFromSinglePassword
<1>9. CASE Serve
  BY <1>9 DEF Serve
<1>10. CASE Halt
  BY <1>10 DEF Halt, Delete
<1>. QED
  BY <1>1, <1>2, <1>3, <1>4, <1>5, <1>6, <1>7, <1>8, <1>9, <1>10 DEF BootNext

-----------------------------------------------------------------------------
(* The handlers, all of which find the program up: nothing of FirstBoot is *)
(* about them.                                                             *)

LEMMA UserNextInv ==
  ASSUME AccountsInv, NEW u \in Users, UserNext(u) PROVE AccountsInv'
<1>. USE AccountsAssumption
     DEF AccountsInv, AccountsTypeOK, RealmsExist, NoneAtBoot, DeletedIsEmpty, FirstBoot, Someone,
         Servers, Roles, Boots, Having, Owners, OwnerCalls, tables
<1>1. CASE Login(u)
  BY <1>1 DEF Login
<1>2. CASE Expire(u)
  BY <1>2 DEF Expire
<1>3. ASSUME NEW role \in Roles, CreateUser(u, role) PROVE AccountsInv'
  BY <1>3 DEF CreateUser
<1>4. ASSUME NEW role \in Roles, UpdateUser(u, role) PROVE AccountsInv'
  BY <1>4 DEF UpdateUser
<1>5. ASSUME NEW r \in Realms, AddRealmAdmin(r, u) PROVE AccountsInv'
  BY <1>5 DEF AddRealmAdmin
<1>6. ASSUME NEW r \in Realms, RemoveRealmAdmin(r, u) PROVE AccountsInv'
  BY <1>6 DEF RemoveRealmAdmin
<1>. QED
  BY <1>1, <1>2, <1>3, <1>4, <1>5, <1>6 DEF UserNext

LEMMA RealmAndServerInv ==
  ASSUME AccountsInv,
         \/ \E r \in Realms : CreateRealm(r)
         \/ \E s \in Servers : CreateServer(s) \/ WipeoutServer(s)
  PROVE  AccountsInv'
<1>. USE AccountsAssumption
     DEF AccountsInv, AccountsTypeOK, RealmsExist, NoneAtBoot, DeletedIsEmpty, FirstBoot, Someone,
         Servers, Roles, Boots, Having, Owners, OwnerCalls, tables
<1>1. ASSUME NEW r \in Realms, CreateRealm(r) PROVE AccountsInv'
  BY <1>1 DEF CreateRealm
<1>2. ASSUME NEW s \in Servers, CreateServer(s) PROVE AccountsInv'
  BY <1>2 DEF CreateServer, Delete
<1>3. ASSUME NEW s \in Servers, WipeoutServer(s) PROVE AccountsInv'
  BY <1>3 DEF WipeoutServer, Delete
<1>. QED
  BY <1>1, <1>2, <1>3

\* The deletes: a user's touches no realm, a realm's begins when it has no server.
LEMMA DeleteNextInv ==
  ASSUME AccountsInv, NEW c \in Callers, DeleteNext(c) PROVE AccountsInv'
<1>. USE AccountsAssumption
     DEF AccountsInv, AccountsTypeOK, RealmsExist, NoneAtBoot, DeletedIsEmpty, FirstBoot, Someone,
         Servers, Roles, Boots, Having, Owners, OwnerCalls, tables, Deleting, Goes, Done, Rest, Delete
<1>1. ASSUME NEW u \in Users, DeleteUserCount(c, u) PROVE AccountsInv'
  BY <1>1 DEF DeleteUserCount
<1>2. ASSUME NEW r \in Realms, DeleteRealm(c, r) PROVE AccountsInv'
  BY <1>2 DEF DeleteRealm
<1>3. CASE DeleteUserRole(c)
  BY <1>3 DEF DeleteUserRole
<1>4. CASE DeleteUserRow(c)
  BY <1>4 DEF DeleteUserRow
<1>5. CASE DeleteRealmAdmins(c)
  BY <1>5 DEF DeleteRealmAdmins
<1>6. CASE DeleteRealmRow(c)
  BY <1>6 DEF DeleteRealmRow
<1>. QED
  BY <1>1, <1>2, <1>3, <1>4, <1>5, <1>6 DEF DeleteNext

-----------------------------------------------------------------------------

LEMMA AccountsNextInv == AccountsInv /\ [AccountsNext]_accounts => AccountsInv'
<1>. SUFFICES ASSUME AccountsInv, [AccountsNext]_accounts PROVE AccountsInv'
  OBVIOUS
<1>1. CASE AccountsNext
  BY <1>1, BootNextInv, UserNextInv, RealmAndServerInv, DeleteNextInv DEF AccountsNext
<1>2. CASE UNCHANGED accounts
  BY <1>2 DEF accounts, tables, AccountsInv, AccountsTypeOK, RealmsExist, NoneAtBoot, DeletedIsEmpty,
              FirstBoot, Someone, Having, Owners
<1>. QED
  BY <1>1, <1>2

\* For any users, realms, servers and number of deletes at once: no server's realm
\* is deleted under it (realms.go: DeleteRealm), and a first boot that is not cut
\* short leaves an owner and every old server in a realm (main.go).
THEOREM RealmsAreKept == AccountsSpec => [](AccountsTypeOK /\ RealmsExist /\ Migrated)
<1>1. AccountsSpec => []AccountsInv
  BY AccountsInitInv, AccountsNextInv, PTL DEF AccountsSpec
<1>2. AccountsInv => AccountsTypeOK /\ RealmsExist /\ Migrated
  BY DEF AccountsInv, FirstBoot, Migrated
<1>. QED
  BY <1>1, <1>2, PTL

-----------------------------------------------------------------------------
(* Sequences.                                                              *)

LEMMA Appended ==
  ASSUME NEW S, NEW s \in Seq(S), NEW x \in S
  PROVE  /\ Append(s, x) \in Seq(S) /\ Append(s, x) # <<>>
         /\ Len(s) \in Nat /\ Len(Append(s, x)) = Len(s) + 1
         /\ \A i \in 1..Len(s) : Append(s, x)[i] = s[i]
         /\ Append(s, x)[Len(s) + 1] = x
         /\ ToSet(Append(s, x)) = ToSet(s) \cup {x}
<1>1. /\ Append(s, x) \in Seq(S) /\ Append(s, x) # <<>>
      /\ Len(s) \in Nat /\ Len(Append(s, x)) = Len(s) + 1
      /\ \A i \in 1..Len(s) : Append(s, x)[i] = s[i]
      /\ Append(s, x)[Len(s) + 1] = x
  BY AppendProperties, LenProperties
<1>2. DOMAIN s = 1..Len(s) /\ DOMAIN Append(s, x) = 1..(Len(s) + 1)
  BY <1>1, LenProperties
<1>3. ToSet(Append(s, x)) = ToSet(s) \cup {x}
  <2>1. \A i \in 1..(Len(s) + 1) : i \in 1..Len(s) \/ i = Len(s) + 1
    BY <1>1
  <2>2. \A i \in 1..Len(s) : i \in 1..(Len(s) + 1)
    BY <1>1
  <2>3. Len(s) + 1 \in 1..(Len(s) + 1)
    BY <1>1
  <2>. QED
    BY <1>1, <1>2, <2>1, <2>2, <2>3 DEF ToSet
<1>. QED
  BY <1>1, <1>3

LEMMA Beheaded ==
  ASSUME NEW S, NEW s \in Seq(S), s # <<>>
  PROVE  /\ Head(s) \in S /\ Head(s) = s[1] /\ Tail(s) \in Seq(S)
         /\ Len(s) \in Nat /\ Len(s) >= 1 /\ Len(Tail(s)) = Len(s) - 1
         /\ \A i \in 1..(Len(s) - 1) : Tail(s)[i] = s[i + 1]
         /\ Head(s) \in ToSet(s) /\ ToSet(Tail(s)) \subseteq ToSet(s)
<1>1. /\ Head(s) \in S /\ Head(s) = s[1] /\ Tail(s) \in Seq(S)
      /\ Len(s) \in Nat /\ Len(s) >= 1 /\ Len(Tail(s)) = Len(s) - 1
      /\ \A i \in 1..(Len(s) - 1) : Tail(s)[i] = s[i + 1]
  BY HeadTailProperties, EmptySeq, ElementOfSeq, LenProperties
<1>2. DOMAIN s = 1..Len(s) /\ DOMAIN Tail(s) = 1..(Len(s) - 1)
  BY <1>1, LenProperties
<1>3. 1 \in 1..Len(s) /\ \A i \in 1..(Len(s) - 1) : i + 1 \in 1..Len(s)
  BY <1>1
<1>. QED
  BY <1>1, <1>2, <1>3 DEF ToSet

LEMMA InSet ==
  ASSUME NEW S, NEW s \in Seq(S)
  PROVE  /\ ToSet(s) = {s[i] : i \in 1..Len(s)}
         /\ ToSet(s) \subseteq S
  BY LenProperties, ElementOfSeq DEF ToSet

-----------------------------------------------------------------------------
(* The console log: its inductive invariant.                               *)

Written(f) == log[f] # <<>>
\* The run whose lines a file has.
Writer(f)  == log[f][1][1]
\* How many lines of the run that is on, or was the last, have left the pipe.
Copied     == printed - Len(pipe)

\* The pipe has the last lines printed; while the JVM runs, the others are in the log.
Piped ==
  /\ Len(pipe) <= printed
  /\ jvm # "down" => run >= 1
  /\ \A i \in 1..Len(pipe) : pipe[i] = <<run, Copied + i>>
  /\ jvm = "down" => pipe = <<>>
  /\ jvm \in {"launched", "rotated"} => Copied = 0
  /\ jvm = "up" => names.console # 0 /\ Copied = Len(log[names.console])

\* A file has the first lines of one run, a later file those of a later run.
OneRunEach ==
  \A f \in 1..Runs : Written(f) =>
    /\ Writer(f) \in 1..run
    /\ \A i \in 1..Len(log[f]) : log[f][i] = <<Writer(f), i>>
    /\ \A g \in 1..(f - 1) : Written(g) => Writer(g) < Writer(f)
    /\ Writer(f) = run => Len(log[f]) <= Copied
    /\ jvm \in {"launched", "rotated"} => Writer(f) < run
    /\ jvm = "up" => IF f = names.console THEN Writer(f) = run ELSE Writer(f) < run

\* console.log is the newest file.
Newest ==
  /\ names.console <= run
  /\ jvm = "launched" => names.console < run
  /\ \A f \in 1..Runs : Written(f) => IF names.console = 0 THEN f < run ELSE f <= names.console
  /\ jvm = "rotated" /\ names.console # 0 => ~Written(names.console)

\* console.log.1 is the newest of the others that has lines.
SecondNewest ==
  /\ names.previous # 0 => Written(names.previous) /\ names.previous # names.console
  /\ \A f \in 1..Runs :
       Written(f) /\ f # names.console => names.previous # 0 /\ f <= names.previous

Shown == ToSet(view.sent) \cup ToSet(view.ch)

\* A viewer has been shown lines that are in the log, and at most as many as it read.
Behind ==
  /\ view.file <= run
  /\ view.at = "tail" => view.file # 0 /\ (names.console # 0 => view.file <= names.console)
  /\ Len(view.sent) + Len(view.ch) <= view.pos
  /\ \A l \in Shown : l[1] < run \/ (l[1] = run /\ l[2] <= Copied)

\* They are in order, and come before all that the viewer may read yet.
Ordered ==
  /\ \A i, j \in 1..Len(view.sent) : i < j => Before(view.sent[i], view.sent[j])
  /\ \A i, j \in 1..Len(view.ch) : i < j => Before(view.ch[i], view.ch[j])
  /\ \A i \in 1..Len(view.sent), j \in 1..Len(view.ch) : Before(view.sent[i], view.ch[j])
  /\ view.at = "tail" =>
       \A l \in Shown, f \in 1..Runs : \A i \in 1..Len(log[f]) :
         f > view.file \/ (f = view.file /\ i > view.pos) => Before(l, log[f][i])

\* Nothing is left out of what a viewer is shown as long as it is "whole".
Complete ==
  view.at = "tail" /\ view.whole =>
    /\ view.pos <= Len(log[view.file])
    /\ Len(view.sent) + Len(view.ch) = view.pos
    /\ \A i \in 1..Len(view.sent) : view.sent[i] = log[view.file][i]
    /\ \A i \in 1..Len(view.ch) : view.ch[i] = log[view.file][Len(view.sent) + i]

LogInv ==
  /\ LogTypeOK
  /\ Piped
  /\ OneRunEach
  /\ Newest
  /\ SecondNewest
  /\ Behind
  /\ Ordered
  /\ Complete

-----------------------------------------------------------------------------

LEMMA LogFacts ==
  ASSUME LogTypeOK
  PROVE  /\ Runs \in Nat \ {0} /\ Lines \in Nat \ {0} /\ HistoryCap \in Nat \ {0} /\ TailCap \in Nat \ {0}
         /\ run \in Nat /\ run <= Runs /\ printed \in Nat /\ printed <= Lines
         /\ names.console \in 0..Runs /\ names.previous \in 0..Runs
         /\ pipe \in Seq(Line) /\ Len(pipe) \in Nat
         /\ log \in [1..Runs -> Seq(Line)]
         /\ \A f \in 1..Runs : log[f] \in Seq(Line) /\ Len(log[f]) \in Nat
         /\ view.file \in 0..Runs /\ view.pos \in Nat /\ view.pos <= Lines /\ view.whole \in BOOLEAN
         /\ view.sent \in Seq(Line) /\ Len(view.sent) \in Nat
         /\ view.ch \in Seq(Line) /\ Len(view.ch) \in Nat
<1>1. /\ Runs \in Nat \ {0} /\ Lines \in Nat \ {0} /\ HistoryCap \in Nat \ {0} /\ TailCap \in Nat \ {0}
  BY LogBounds
<1>2. /\ pipe \in Seq(Line) /\ log \in [1..Runs -> Seq(Line)]
      /\ view.sent \in Seq(Line) /\ view.ch \in Seq(Line)
      /\ view.file \in 0..Runs /\ view.pos \in 0..Lines /\ view.whole \in BOOLEAN
      /\ names.console \in 0..Runs /\ names.previous \in 0..Runs
  BY DEF LogTypeOK
<1>3. run \in 0..Runs /\ printed \in 0..Lines
  BY DEF LogTypeOK
<1>4. \A f \in 1..Runs : log[f] \in Seq(Line)
  BY <1>2
<1>5. \A q \in Seq(Line) : Len(q) \in Nat
  BY LenProperties
<1>. QED
  BY <1>1, <1>2, <1>3, <1>4, <1>5

LEMMA LineFacts ==
  \A l \in Line : l[1] \in Nat /\ l[2] \in Nat /\ l[1] \in 1..Runs /\ l[2] \in 1..Lines
  BY LogBounds DEF Line

\* No file has more lines than a run prints.
LEMMA FileFits ==
  ASSUME LogTypeOK, OneRunEach, NEW f \in 1..Runs
  PROVE  Len(log[f]) <= Lines
<1>1. log[f] \in Seq(Line) /\ Len(log[f]) \in Nat /\ Lines \in Nat
  BY LogFacts
<1>2. CASE log[f] = <<>>
  BY <1>1, <1>2
<1>3. CASE log[f] # <<>>
  <2>1. Len(log[f]) \in 1..Len(log[f])
    BY <1>1, <1>3, EmptySeq
  <2>2. log[f][Len(log[f])] = <<Writer(f), Len(log[f])>>
    BY <1>3, <2>1 DEF OneRunEach, Written
  <2>3. log[f][Len(log[f])] \in Line
    BY <1>1, <2>1, ElementOfSeq
  <2>. QED
    BY <2>2, <2>3, LineFacts, <1>1
<1>. QED
  BY <1>2, <1>3

LEMMA ShownLines == LogTypeOK => Shown \subseteq Line
  BY LogFacts, InSet DEF Shown

-----------------------------------------------------------------------------

LEMMA LogInitInv == LogInit => LogInv
<1>. SUFFICES ASSUME LogInit PROVE LogInv
  OBVIOUS
<1>1. /\ run = 0 /\ jvm = "down" /\ printed = 0 /\ pipe = <<>>
      /\ log = [r \in 1..Runs |-> <<>>]
      /\ names = [console |-> 0, previous |-> 0]
      /\ view = [at |-> "idle", file |-> 0, pos |-> 0, ch |-> <<>>, sent |-> <<>>, whole |-> TRUE]
  BY DEF LogInit, Blank
<1>2. Runs \in Nat \ {0} /\ Lines \in Nat \ {0}
  BY LogBounds
<1>3. <<>> \in Seq(Line) /\ Len(<<>>) = 0 /\ ToSet(<<>>) = {}
  BY EmptySeq DEF ToSet
<1>4. \A f \in 1..Runs : ~Written(f)
  BY <1>1 DEF Written
<1>5. Shown = {}
  BY <1>1, <1>3 DEF Shown
<1>6. LogTypeOK
  <2>1. run \in 0..Runs /\ printed \in 0..Lines /\ jvm \in {"down", "launched", "rotated", "up"}
    BY <1>1, <1>2
  <2>2. pipe \in Seq(Line) /\ log \in [1..Runs -> Seq(Line)]
    BY <1>1, <1>3
  <2>3. names \in [console : 0..Runs, previous : 0..Runs]
    BY <1>1, <1>2
  <2>4. view \in [at : {"idle", "tail", "last"}, file : 0..Runs, pos : 0..Lines,
                  ch : Seq(Line), sent : Seq(Line), whole : BOOLEAN]
    BY <1>1, <1>2, <1>3
  <2>5. Len(view.ch) <= IF view.at = "tail" THEN TailCap ELSE Lines
    BY <1>1, <1>2, <1>3
  <2>. QED
    BY <2>1, <2>2, <2>3, <2>4, <2>5 DEF LogTypeOK
<1>7. Piped /\ OneRunEach /\ Newest /\ SecondNewest
  BY <1>1, <1>3, <1>4 DEF Piped, OneRunEach, Newest, SecondNewest
<1>8. Behind /\ Ordered /\ Complete
  BY <1>1, <1>3, <1>5 DEF Behind, Ordered, Complete
<1>. QED
  BY <1>6, <1>7, <1>8 DEF LogInv

-----------------------------------------------------------------------------
(* captureOutput                                                           *)

\* What is shown, and the order it is in, depend on the viewer and the files alone.
LEMMA ViewerRests ==
  ASSUME Ordered, view' = view, log' = log
  PROVE  Ordered' /\ Shown' = Shown
  BY DEF Ordered, Shown

LEMMA LaunchInv == LogInv /\ Launch => LogInv'
<1>. SUFFICES ASSUME LogInv, Launch PROVE LogInv'
  OBVIOUS
<1>1. /\ jvm = "down" /\ run < Runs /\ run' = run + 1 /\ printed' = 0 /\ pipe' = <<>> /\ jvm' = "launched"
      /\ log' = log /\ names' = names /\ view' = view
  BY DEF Launch
<1>2. LogTypeOK /\ Piped /\ OneRunEach /\ Newest /\ SecondNewest /\ Behind /\ Ordered /\ Complete
  BY DEF LogInv
<1>3. <<>> \in Seq(Line) /\ Len(<<>>) = 0
  BY EmptySeq
<1>4. Copied' = 0 /\ run \in Nat /\ printed \in Nat
  <2>1. run \in Nat /\ printed \in Nat
    BY <1>2, LogFacts
  <2>2. printed' = 0 /\ Len(pipe') = 0
    BY <1>1
  <2>3. Copied' = 0
    BY <2>2 DEF Copied
  <2>. QED
    BY <2>1, <2>3
<1>5. LogTypeOK'
  BY <1>1, <1>2, <1>3, <1>4, LogFacts DEF LogTypeOK
<1>6. Piped'
  BY <1>1, <1>3, <1>4 DEF Piped
<1>7. OneRunEach'
  BY <1>1, <1>2, <1>4 DEF OneRunEach, Written, Writer
<1>8. Newest' /\ SecondNewest'
  BY <1>1, <1>2, <1>4, LogFacts DEF Newest, SecondNewest, Written, Writer
<1>9. Shown' = Shown /\ Ordered'
  BY <1>1, <1>2, ViewerRests
<1>10. Behind'
  <2>1. ASSUME NEW l \in Shown PROVE l[1] < run + 1
    <3>1. l[1] \in Nat /\ (l[1] < run \/ l[1] = run)
      BY <1>2, ShownLines, LineFacts DEF Behind
    <3>. QED
      BY <1>4, <3>1
  <2>2. view.file <= run + 1
    BY <1>2, <1>4, LogFacts DEF Behind
  <2>. QED
    BY <1>1, <1>2, <1>9, <2>1, <2>2 DEF Behind
<1>11. Complete'
  BY <1>1, <1>2 DEF Complete
<1>. QED
  BY <1>5, <1>6, <1>7, <1>8, <1>9, <1>10, <1>11 DEF LogInv

LEMMA PrintLineInv == LogInv /\ PrintLine => LogInv'
<1>. SUFFICES ASSUME LogInv, PrintLine PROVE LogInv'
  OBVIOUS
<1>1. /\ jvm # "down" /\ printed < Lines /\ printed' = printed + 1
      /\ pipe' = Append(pipe, <<run, printed + 1>>)
      /\ run' = run /\ jvm' = jvm /\ log' = log /\ names' = names /\ view' = view
  BY DEF PrintLine
<1>2. LogTypeOK /\ Piped /\ OneRunEach /\ Newest /\ SecondNewest /\ Behind /\ Ordered /\ Complete
  BY DEF LogInv
<1>3. /\ run \in Nat /\ run <= Runs /\ run >= 1 /\ printed \in Nat /\ Len(pipe) \in Nat /\ pipe \in Seq(Line)
      /\ Runs \in Nat /\ Lines \in Nat
  BY <1>1, <1>2, LogFacts DEF Piped
<1>4. <<run, printed + 1>> \in Line
  BY <1>1, <1>3 DEF Line
<1>5. /\ pipe' \in Seq(Line) /\ Len(pipe') = Len(pipe) + 1
      /\ \A i \in 1..Len(pipe) : pipe'[i] = pipe[i]
      /\ pipe'[Len(pipe) + 1] = <<run, printed + 1>>
  BY <1>1, <1>3, <1>4, Appended
<1>6. Copied' = Copied /\ Copied \in Int
  BY <1>1, <1>3, <1>5 DEF Copied
<1>7. LogTypeOK'
  BY <1>1, <1>2, <1>3, <1>5 DEF LogTypeOK
<1>8. Piped'
  <2>1. Len(pipe') <= printed'
    BY <1>1, <1>2, <1>3, <1>5 DEF Piped
  <2>2. ASSUME NEW i \in 1..Len(pipe') PROVE pipe'[i] = <<run, Copied + i>>
    <3>1. CASE i \in 1..Len(pipe)
      BY <3>1, <1>2, <1>5 DEF Piped
    <3>2. CASE i = Len(pipe) + 1
      BY <3>2, <1>3, <1>5 DEF Copied
    <3>. QED
      BY <1>3, <1>5, <3>1, <3>2
  <2>. QED
    BY <1>1, <1>2, <1>6, <2>1, <2>2 DEF Piped
<1>9. OneRunEach' /\ Newest' /\ SecondNewest'
  BY <1>1, <1>2, <1>6 DEF OneRunEach, Newest, SecondNewest, Written, Writer
<1>10. Shown' = Shown /\ Ordered'
  BY <1>1, <1>2, ViewerRests
<1>11. Behind' /\ Complete'
  BY <1>1, <1>2, <1>6, <1>10 DEF Behind, Complete
<1>. QED
  BY <1>7, <1>8, <1>9, <1>10, <1>11 DEF LogInv

LEMMA RotateInv == LogInv /\ RotateConsoleLog => LogInv'
<1>. SUFFICES ASSUME LogInv, RotateConsoleLog PROVE LogInv'
  OBVIOUS
<1>1. /\ jvm = "launched" /\ jvm' = "rotated" /\ run' = run /\ printed' = printed /\ pipe' = pipe
      /\ log' = log /\ view' = view
      /\ names' = IF names.console # 0 /\ Written(names.console)
                  THEN [console |-> 0, previous |-> names.console] ELSE names
  BY DEF RotateConsoleLog, Written
<1>2. LogTypeOK /\ Piped /\ OneRunEach /\ Newest /\ SecondNewest /\ Behind /\ Ordered /\ Complete
  BY DEF LogInv
<1>3. names.console \in 0..Runs /\ names.console < run /\ run \in Nat /\ Runs \in Nat
  BY <1>1, <1>2, LogFacts DEF Newest
<1>4. Copied' = Copied
  BY <1>1 DEF Copied
<1>5. LogTypeOK' /\ Piped' /\ OneRunEach'
  <2>1. LogTypeOK'
    BY <1>1, <1>2, <1>3 DEF LogTypeOK
  <2>2. Piped'
    BY <1>1, <1>2, <1>4 DEF Piped
  <2>3. OneRunEach'
    BY <1>1, <1>2, <1>4 DEF OneRunEach, Written, Writer
  <2>. QED
    BY <2>1, <2>2, <2>3
<1>6. Newest' /\ SecondNewest'
  <2>1. CASE names.console # 0 /\ Written(names.console)
    <3>1. names'.console = 0 /\ names'.previous = names.console /\ names.console \in 1..Runs
      BY <1>1, <1>3, <2>1
    <3>. QED
      BY <1>1, <1>2, <1>3, <2>1, <3>1 DEF Newest, SecondNewest, Written, Writer
  <2>2. CASE ~(names.console # 0 /\ Written(names.console))
    <3>1. names' = names
      BY <1>1, <2>2
    <3>2. SecondNewest'
      BY <1>1, <1>2, <2>2, <3>1, LogFacts DEF SecondNewest, Written, Writer
    <3>3. names.console # 0 => names.console \in 1..Runs
      BY <1>3
    <3>. QED
      BY <1>1, <1>2, <2>2, <3>1, <3>2, <3>3 DEF Newest, Written, Writer
  <2>. QED
    BY <2>1, <2>2
<1>7. Shown' = Shown /\ Ordered'
  BY <1>1, <1>2, ViewerRests
<1>8. Behind' /\ Complete'
  BY <1>1, <1>2, <1>4, <1>7 DEF Behind, Complete
<1>. QED
  BY <1>5, <1>6, <1>7, <1>8 DEF LogInv

LEMMA OpenLogInv == LogInv /\ OpenLog => LogInv'
<1>. SUFFICES ASSUME LogInv, OpenLog PROVE LogInv'
  OBVIOUS
<1>1. /\ jvm = "rotated" /\ jvm' = "up" /\ run' = run /\ printed' = printed /\ pipe' = pipe
      /\ log' = log /\ view' = view
      /\ names' = [names EXCEPT !.console = IF @ = 0 THEN run ELSE @]
  BY DEF OpenLog
<1>2. LogTypeOK /\ Piped /\ OneRunEach /\ Newest /\ SecondNewest /\ Behind /\ Ordered /\ Complete
  BY DEF LogInv
<1>3. names.console \in 0..Runs /\ names.previous \in 0..Runs /\ run \in Nat /\ run >= 1 /\ run <= Runs /\ Runs \in Nat
  BY <1>1, <1>2, LogFacts DEF Piped
<1>4. Copied' = Copied /\ Copied = 0
  BY <1>1, <1>2 DEF Copied, Piped
<1>5. /\ names'.console = IF names.console = 0 THEN run ELSE names.console
      /\ names'.previous = names.previous
  BY <1>1, <1>2 DEF LogTypeOK
<1>6. names'.console \in 1..Runs /\ ~Written(names'.console) /\ names'.console <= run
  <2>1. CASE names.console = 0
    BY <1>2, <1>3, <1>5, <2>1 DEF Newest
  <2>2. CASE names.console # 0
    BY <1>1, <1>2, <1>3, <1>5, <2>2 DEF Newest
  <2>. QED
    BY <2>1, <2>2
<1>7. LogTypeOK'
  BY <1>1, <1>2, <1>3 DEF LogTypeOK
<1>8. Piped'
  <2>1. Len(log[names'.console]) = 0
    BY <1>6, EmptySeq DEF Written
  <2>. QED
    BY <1>1, <1>2, <1>4, <1>6, <2>1 DEF Piped
<1>9. OneRunEach'
  BY <1>1, <1>2, <1>4, <1>6 DEF OneRunEach, Written, Writer
<1>10. Newest' /\ SecondNewest'
  BY <1>1, <1>2, <1>3, <1>5, <1>6 DEF Newest, SecondNewest, Written, Writer
<1>11. Shown' = Shown /\ Ordered'
  BY <1>1, <1>2, ViewerRests
<1>12. Behind' /\ Complete'
  BY <1>1, <1>2, <1>3, <1>4, <1>5, <1>11 DEF Behind, Complete
<1>. QED
  BY <1>7, <1>8, <1>9, <1>10, <1>11, <1>12 DEF LogInv

LEMMA ExitInv == LogInv /\ Exit => LogInv'
<1>. SUFFICES ASSUME LogInv, Exit PROVE LogInv'
  OBVIOUS
<1>1. /\ jvm = "up" /\ jvm' = "down" /\ pipe' = <<>> /\ run' = run /\ printed' = printed
      /\ log' = log /\ names' = names /\ view' = view
  BY DEF Exit
<1>2. LogTypeOK /\ Piped /\ OneRunEach /\ Newest /\ SecondNewest /\ Behind /\ Ordered /\ Complete
  BY DEF LogInv
<1>3. <<>> \in Seq(Line) /\ Len(<<>>) = 0 /\ printed \in Nat /\ Len(pipe) \in Nat /\ run \in Nat
  BY <1>2, EmptySeq, LogFacts
<1>4. Copied <= Copied' /\ Copied \in Int /\ Copied' \in Nat
  BY <1>1, <1>2, <1>3 DEF Copied
<1>5. LogTypeOK' /\ Piped'
  BY <1>1, <1>2, <1>3 DEF LogTypeOK, Piped
<1>6. OneRunEach'
  <2>. SUFFICES ASSUME NEW f \in 1..Runs, Written(f)
                PROVE  /\ Writer(f) \in 1..run
                       /\ \A i \in 1..Len(log[f]) : log[f][i] = <<Writer(f), i>>
                       /\ \A g \in 1..(f - 1) : Written(g) => Writer(g) < Writer(f)
                       /\ Writer(f) = run => Len(log[f]) <= Copied'
    BY <1>1 DEF OneRunEach, Written, Writer
  <2>1. /\ Writer(f) \in 1..run
        /\ \A i \in 1..Len(log[f]) : log[f][i] = <<Writer(f), i>>
        /\ \A g \in 1..(f - 1) : Written(g) => Writer(g) < Writer(f)
        /\ Writer(f) = run => Len(log[f]) <= Copied
    BY <1>2 DEF OneRunEach
  <2>2. Len(log[f]) \in Nat
    BY <1>2, LogFacts
  <2>. QED
    BY <1>4, <2>1, <2>2
<1>7. Newest' /\ SecondNewest'
  BY <1>1, <1>2 DEF Newest, SecondNewest, Written, Writer
<1>8. Shown' = Shown /\ Ordered'
  BY <1>1, <1>2, ViewerRests
<1>9. Behind'
  <2>1. ASSUME NEW l \in Shown PROVE l[1] < run \/ (l[1] = run /\ l[2] <= Copied')
    <3>1. l[2] \in Nat /\ (l[1] < run \/ (l[1] = run /\ l[2] <= Copied))
      BY <1>2, ShownLines, LineFacts DEF Behind
    <3>. QED
      BY <1>4, <3>1
  <2>. QED
    BY <1>1, <1>2, <1>8, <2>1 DEF Behind
<1>10. Complete'
  BY <1>1, <1>2 DEF Complete
<1>. QED
  BY <1>5, <1>6, <1>7, <1>8, <1>9, <1>10 DEF LogInv

\* The line that is copied is the next of the run, and console.log its file.
LEMMA CopyLineInv == LogInv /\ CopyLine => LogInv'
<1>. SUFFICES ASSUME LogInv, CopyLine PROVE LogInv'
  OBVIOUS
<1>1. /\ jvm = "up" /\ pipe # <<>> /\ pipe' = Tail(pipe)
      /\ log' = [log EXCEPT ![names.console] = Append(@, Head(pipe))]
      /\ run' = run /\ jvm' = jvm /\ printed' = printed /\ names' = names /\ view' = view
  BY DEF CopyLine
<1>2. LogTypeOK /\ Piped /\ OneRunEach /\ Newest /\ SecondNewest /\ Behind /\ Ordered /\ Complete
  BY DEF LogInv
<1>b. names.console \in 1..Runs /\ Len(log[names.console]) \in Nat
  <2>1. names.console # 0 /\ names.console \in 0..Runs /\ Runs \in Nat
    BY <1>1, <1>2, LogFacts DEF Piped
  <2>2. names.console \in 1..Runs
    BY <2>1
  <2>. QED
    BY <1>2, <2>2, LogFacts
<1>c. PICK c \in 1..Runs, n \in Nat : c = names.console /\ n = Len(log[c])
  BY <1>b
<1>0. c = names.console /\ n = Len(log[c])
  BY <1>c
<1>3. /\ c \in 1..Runs /\ log \in [1..Runs -> Seq(Line)] /\ log[c] \in Seq(Line) /\ n \in Nat
      /\ pipe \in Seq(Line) /\ run \in Nat /\ printed \in Nat /\ Runs \in Nat /\ run >= 1
  BY <1>c, <1>1, <1>2, LogFacts DEF Piped
<1>4. /\ Head(pipe) \in Line /\ Head(pipe) = pipe[1] /\ pipe' \in Seq(Line)
      /\ Len(pipe) \in Nat /\ Len(pipe) >= 1 /\ Len(pipe') = Len(pipe) - 1
      /\ \A i \in 1..(Len(pipe) - 1) : pipe'[i] = pipe[i + 1]
  BY <1>1, <1>3, Beheaded
<1>5. Copied = n /\ Copied' = n + 1
  <2>1. Copied = n
    BY <1>0, <1>1, <1>2 DEF Piped
  <2>2. printed - Len(pipe) = n /\ Copied' = printed - Len(pipe')
    BY <1>1, <2>1 DEF Copied
  <2>. QED
    BY <1>3, <1>4, <2>1, <2>2
<1>6. Head(pipe) = <<run, n + 1>>
  BY <1>2, <1>4, <1>5 DEF Piped
<1>7. /\ log' \in [1..Runs -> Seq(Line)] /\ log'[c] = Append(log[c], <<run, n + 1>>)
      /\ \A f \in 1..Runs : f # c => log'[f] = log[f]
  BY <1>0, <1>1, <1>3, <1>4, <1>6, Appended
<1>a. <<run, n + 1>> \in Line
  BY <1>4, <1>6
<1>8. /\ log'[c] # <<>> /\ Len(log'[c]) = n + 1
      /\ \A i \in 1..n : log'[c][i] = log[c][i]
      /\ log'[c][n + 1] = <<run, n + 1>>
  <2>1. PICK x \in Line : x = <<run, n + 1>>
    BY <1>a
  <2>2. /\ Append(log[c], x) # <<>>
        /\ Len(Append(log[c], x)) = Len(log[c]) + 1
        /\ \A i \in 1..Len(log[c]) : Append(log[c], x)[i] = log[c][i]
        /\ Append(log[c], x)[Len(log[c]) + 1] = x
    BY <1>3, Appended
  <2>3. log'[c] = Append(log[c], x)
    BY <1>7, <2>1
  <2>. QED
    BY <1>0, <2>1, <2>2, <2>3
<1>9. n > 0 <=> Written(c)
  BY <1>0, <1>3, EmptySeq DEF Written
<1>10. /\ \A f \in 1..Runs : Written(f)' <=> f = c \/ Written(f)
       /\ Writer(c)' = run
       /\ \A f \in 1..Runs : f # c => Writer(f)' = Writer(f)
  <2>1. log'[c][1] = <<run, 1>>
    <3>1. CASE n = 0
      BY <1>8, <3>1
    <3>2. CASE n > 0
      <4>1. 1 \in 1..n
        BY <1>3, <3>2
      <4>2. log[c][1] = <<Writer(c), 1>> /\ Writer(c) = run
        BY <1>0, <1>1, <1>2, <1>3, <1>9, <3>2, <4>1 DEF OneRunEach
      <4>. QED
        BY <1>8, <4>1, <4>2
    <3>. QED
      BY <1>3, <3>1, <3>2
  <2>2. Writer(c)' = run
    BY <2>1 DEF Writer
  <2>3. \A f \in 1..Runs : f # c => Writer(f)' = Writer(f) /\ (Written(f)' <=> Written(f))
    BY <1>7 DEF Writer, Written
  <2>4. Written(c)'
    BY <1>8 DEF Written
  <2>. QED
    BY <1>3, <2>2, <2>3, <2>4
<1>11. LogTypeOK'
  BY <1>1, <1>2, <1>4, <1>7 DEF LogTypeOK
<1>12. Piped'
  <2>1. \A i \in 1..Len(pipe') : pipe'[i] = <<run, (n + 1) + i>>
    <3>. TAKE i \in 1..Len(pipe')
    <3>1. i + 1 \in 1..Len(pipe) /\ i \in 1..(Len(pipe) - 1)
      BY <1>4
    <3>2. pipe[i + 1] = <<run, n + (i + 1)>>
      BY <1>2, <1>5, <3>1 DEF Piped
    <3>3. n + (i + 1) = (n + 1) + i
      BY <1>3, <1>4
    <3>. QED
      BY <1>4, <3>1, <3>2, <3>3
  <2>2. Len(pipe') <= printed
    BY <1>2, <1>3, <1>4 DEF Piped
  <2>. QED
    BY <1>0, <1>1, <1>3, <1>5, <1>8, <2>1, <2>2 DEF Piped
<1>13. OneRunEach'
  <2>. SUFFICES ASSUME NEW f \in 1..Runs, f = c \/ Written(f)
                PROVE  /\ Writer(f)' \in 1..run
                       /\ \A i \in 1..Len(log'[f]) : log'[f][i] = <<Writer(f)', i>>
                       /\ \A g \in 1..(f - 1) : Written(g)' => Writer(g)' < Writer(f)'
                       /\ Writer(f)' = run => Len(log'[f]) <= n + 1
                       /\ IF f = c THEN Writer(f)' = run ELSE Writer(f)' < run
    BY <1>0, <1>1, <1>5, <1>10 DEF OneRunEach
  <2>1. CASE f = c
    <3>1. \A i \in 1..(n + 1) : log'[c][i] = <<run, i>>
      <4>. TAKE i \in 1..(n + 1)
      <4>1. CASE i = n + 1
        BY <1>8, <4>1
      <4>2. CASE i \in 1..n
        <5>0. n > 0
          BY <1>3, <4>2
        <5>1. log[c][i] = <<Writer(c), i>> /\ Writer(c) = run
          BY <5>0, <1>0, <1>1, <1>2, <1>3, <1>9, <4>2 DEF OneRunEach
        <5>. QED
          BY <1>8, <4>2, <5>1
      <4>. QED
        BY <1>3, <4>1, <4>2
    <3>2. \A g \in 1..(f - 1) : g \in 1..Runs /\ g # c
      BY <1>3, <2>1
    <3>3. \A g \in 1..(f - 1) : Written(g) => Writer(g) < run
      BY <1>0, <1>1, <1>2, <3>2 DEF OneRunEach
    <3>4. \A g \in 1..(f - 1) : Written(g)' => Writer(g)' < run
      BY <1>10, <3>2, <3>3
    <3>5. Writer(f)' = run /\ Len(log'[f]) = n + 1 /\ run \in 1..run
      BY <1>3, <1>8, <1>10, <2>1
    <3>. QED
      BY <2>1, <3>1, <3>4, <3>5, <1>3
  <2>2. CASE f # c /\ Written(f)
    <3>1. /\ Writer(f) \in 1..run /\ Writer(f) < run
          /\ \A i \in 1..Len(log[f]) : log[f][i] = <<Writer(f), i>>
          /\ \A g \in 1..(f - 1) : Written(g) => Writer(g) < Writer(f)
      BY <1>0, <1>1, <1>2, <2>2 DEF OneRunEach
    <3>2. f < c
      BY <1>0, <1>2, <1>3, <2>2 DEF Newest
    <3>3. \A g \in 1..(f - 1) : g \in 1..Runs /\ g # c
      BY <1>3, <3>2
    <3>4. \A g \in 1..(f - 1) : Written(g)' => Writer(g)' < Writer(f)
      BY <1>10, <3>1, <3>3
    <3>5. Writer(f)' = Writer(f) /\ log'[f] = log[f] /\ Writer(f) # run
      BY <1>3, <1>7, <1>10, <2>2, <3>1
    <3>. QED
      BY <2>2, <3>1, <3>4, <3>5
  <2>. QED
    BY <2>1, <2>2
<1>14. Newest'
  BY <1>0, <1>1, <1>2, <1>3, <1>10 DEF Newest
<1>15. SecondNewest'
  <2>1. names.previous # 0 => names.previous \in 1..Runs
    BY <1>2, LogFacts
  <2>2. names.previous # 0 => log'[names.previous] # <<>> /\ names.previous # c
    BY <1>0, <1>2, <1>7, <2>1 DEF SecondNewest, Written
  <2>3. \A f \in 1..Runs : Written(f)' /\ f # c => names.previous # 0 /\ f <= names.previous
    BY <1>0, <1>2, <1>10 DEF SecondNewest
  <2>. QED
    BY <1>0, <1>1, <1>10, <2>1, <2>2, <2>3 DEF SecondNewest, Written
<1>16. Shown' = Shown
  BY <1>1 DEF Shown
<1>17. Behind'
  <2>1. ASSUME NEW l \in Shown PROVE l[1] < run \/ (l[1] = run /\ l[2] <= n + 1)
    <3>1. l[2] \in Nat /\ (l[1] < run \/ (l[1] = run /\ l[2] <= n))
      BY <1>2, <1>5, ShownLines, LineFacts DEF Behind
    <3>. QED
      BY <1>3, <3>1
  <2>. QED
    BY <1>1, <1>2, <1>5, <1>16, <2>1 DEF Behind
<1>18. Ordered'
  <2>. SUFFICES ASSUME view.at = "tail", NEW l \in Shown, NEW f \in 1..Runs, NEW i \in 1..Len(log'[f]),
                       f > view.file \/ (f = view.file /\ i > view.pos)
                PROVE  Before(l, log'[f][i])
    BY <1>1, <1>2, <1>16 DEF Ordered
  <2>1. CASE f = c /\ i = n + 1
    <3>1. l[1] < run \/ (l[1] = run /\ l[2] <= n)
      BY <1>2, <1>5 DEF Behind
    <3>2. l[2] \in Nat
      BY <1>2, ShownLines, LineFacts
    <3>. QED
      BY <1>3, <1>8, <2>1, <3>1, <3>2 DEF Before
  <2>2. CASE ~(f = c /\ i = n + 1)
    <3>1. i \in 1..Len(log[f]) /\ log'[f][i] = log[f][i]
      <4>1. CASE f # c
        BY <1>7, <4>1
      <4>2. CASE f = c
        <5>1. i \in 1..(n + 1) /\ i # n + 1
          BY <1>8, <2>2, <4>2
        <5>2. i \in 1..n
          BY <1>3, <5>1
        <5>. QED
          BY <1>0, <1>8, <4>2, <5>2
      <4>. QED
        BY <4>1, <4>2
    <3>. QED
      BY <1>2, <3>1 DEF Ordered
  <2>. QED
    BY <2>1, <2>2
<1>19. Complete'
  <2>. SUFFICES ASSUME view.at = "tail", view.whole
                PROVE  /\ view.pos <= Len(log'[view.file])
                       /\ Len(view.sent) + Len(view.ch) = view.pos
                       /\ \A i \in 1..Len(view.sent) : view.sent[i] = log'[view.file][i]
                       /\ \A i \in 1..Len(view.ch) : view.ch[i] = log'[view.file][Len(view.sent) + i]
    BY <1>1 DEF Complete
  <2>1. /\ view.pos <= Len(log[view.file])
        /\ Len(view.sent) + Len(view.ch) = view.pos
        /\ \A i \in 1..Len(view.sent) : view.sent[i] = log[view.file][i]
        /\ \A i \in 1..Len(view.ch) : view.ch[i] = log[view.file][Len(view.sent) + i]
    BY <1>2 DEF Complete
  <2>2. /\ view.file \in 1..Runs /\ view.pos \in Nat
        /\ Len(view.sent) \in Nat /\ Len(view.ch) \in Nat /\ Len(log[view.file]) \in Nat
    <3>1. /\ view.file # 0 /\ view.file \in 0..Runs /\ view.pos \in Nat /\ Runs \in Nat
          /\ Len(view.sent) \in Nat /\ Len(view.ch) \in Nat
      BY <1>2, LogFacts DEF Behind
    <3>2. view.file \in 1..Runs
      BY <3>1
    <3>. QED
      BY <1>2, <3>1, <3>2, LogFacts
  <2>. DEFINE p == view.pos
              a == Len(view.sent)
              b == Len(view.ch)
  <2>0. a + b = p /\ a \in Nat /\ b \in Nat /\ p \in Nat /\ p <= Len(log[view.file])
    BY <2>1, <2>2
  <2>3. CASE view.file # c
    BY <1>7, <2>1, <2>2, <2>3
  <2>4. CASE view.file = c
    <3>1. \A i \in 1..view.pos : log'[view.file][i] = log[view.file][i]
      BY <1>0, <1>3, <1>8, <2>1, <2>2, <2>4
    <3>2. (\A i \in 1..a : i \in 1..p) /\ \A i \in 1..b : a + i \in 1..p
      <4>. HIDE DEF a, b, p
      <4>. QED
        BY <2>0
    <3>4. view.pos <= Len(log'[view.file])
      BY <1>0, <1>3, <1>8, <2>1, <2>2, <2>4
    <3>. QED
      BY <2>1, <3>1, <3>2, <3>4
  <2>. QED
    BY <2>3, <2>4
<1>. QED
  BY <1>11, <1>12, <1>13, <1>14, <1>15, <1>17, <1>18, <1>19 DEF LogInv

-----------------------------------------------------------------------------
(* TailLogs, ReadHistoricalLogs and the feeder of client.go                *)

\* What a viewer's steps leave alone.
LEMMA ServerRests ==
  ASSUME LogInv, UNCHANGED server
  PROVE  /\ Piped' /\ OneRunEach' /\ Newest' /\ SecondNewest'
         /\ Copied' = Copied
         /\ run' = run /\ jvm' = jvm /\ printed' = printed /\ pipe' = pipe /\ log' = log /\ names' = names
<1>1. /\ run' = run /\ jvm' = jvm /\ printed' = printed /\ pipe' = pipe /\ log' = log /\ names' = names
  BY DEF server
<1>2. Piped' /\ Copied' = Copied
  BY <1>1 DEF LogInv, Piped, Copied
<1>3. OneRunEach' /\ Newest' /\ SecondNewest'
  BY <1>1, <1>2 DEF LogInv, OneRunEach, Newest, SecondNewest, Written, Writer
<1>. QED
  BY <1>1, <1>2, <1>3

\* A line of a file is in place, and has left the pipe.
LEMMA LineOfFile ==
  ASSUME LogInv, NEW f \in 1..Runs, NEW i \in 1..Len(log[f])
  PROVE  /\ log[f][i] \in Line /\ log[f][i] = <<Writer(f), i>> /\ Writer(f) \in 1..run /\ Written(f)
         /\ log[f][i][1] < run \/ (log[f][i][1] = run /\ log[f][i][2] <= Copied)
         /\ \A g \in 1..Runs, k \in Nat :
              k \in 1..Len(log[g]) /\ (g > f \/ (g = f /\ k > i)) => Before(log[f][i], log[g][k])
<1>1. LogTypeOK /\ OneRunEach
  BY DEF LogInv
<1>2. /\ \A g \in 1..Runs : log[g] \in Seq(Line) /\ Len(log[g]) \in Nat
      /\ run \in Nat /\ Runs \in Nat /\ printed \in Nat /\ Len(pipe) \in Nat
  BY <1>1, LogFacts
<1>3. \A g \in 1..Runs, k \in Nat : k \in 1..Len(log[g]) => Written(g)
  BY <1>2, EmptySeq DEF Written
<1>4. /\ log[f][i] \in Line /\ log[f][i] = <<Writer(f), i>> /\ Writer(f) \in 1..run
      /\ Writer(f) = run => Len(log[f]) <= Copied
  BY <1>1, <1>2, <1>3, ElementOfSeq DEF OneRunEach
<1>5. log[f][i][1] < run \/ (log[f][i][1] = run /\ log[f][i][2] <= Copied)
  <2>1. Copied \in Int
    BY <1>2 DEF Copied
  <2>. QED
    BY <1>2, <1>4, <2>1
<1>6. ASSUME NEW g \in 1..Runs, NEW k \in Nat, k \in 1..Len(log[g]), g > f \/ (g = f /\ k > i)
      PROVE  Before(log[f][i], log[g][k])
  <2>1. log[g][k] = <<Writer(g), k>>
    BY <1>1, <1>3, <1>6 DEF OneRunEach
  <2>2. g > f => Writer(f) < Writer(g)
    <3>1. g > f => f \in 1..(g - 1)
      BY <1>2
    <3>. QED
      BY <1>1, <1>3, <1>2, <1>6, <3>1 DEF OneRunEach
  <2>. QED
    BY <1>4, <1>6, <2>1, <2>2 DEF Before
<1>7. Written(f)
  BY <1>2, <1>3
<1>. QED
  BY <1>4, <1>5, <1>6, <1>7

LEMMA BlankInv ==
  ASSUME LogInv, UNCHANGED server, NEW f \in 0..Runs, f <= run, NEW at \in {"idle", "tail"},
         at = "tail" => f # 0 /\ (names.console # 0 => f <= names.console),
         view' = [at |-> at, file |-> f, pos |-> 0, ch |-> <<>>, sent |-> <<>>, whole |-> TRUE]
  PROVE  LogInv'
<1>1. view' = [at |-> at, file |-> f, pos |-> 0, ch |-> <<>>, sent |-> <<>>, whole |-> TRUE]
  OBVIOUS
<1>2. /\ view'.at = at /\ view'.file = f /\ view'.pos = 0 /\ view'.ch = <<>> /\ view'.sent = <<>>
  BY <1>1
<1>3. <<>> \in Seq(Line) /\ Len(<<>>) = 0 /\ ToSet(<<>>) = {} /\ Lines \in Nat /\ TailCap \in Nat
  BY EmptySeq, LogBounds DEF ToSet
<1>4. Shown' = {}
  BY <1>2, <1>3 DEF Shown
<1>5. LogTypeOK'
  <2>1. view' \in [at : {"idle", "tail", "last"}, file : 0..Runs, pos : 0..Lines,
                   ch : Seq(Line), sent : Seq(Line), whole : BOOLEAN]
    BY <1>1, <1>3
  <2>. QED
    BY <1>2, <1>3, <2>1, ServerRests DEF LogInv, LogTypeOK
<1>6. Behind'
  BY <1>2, <1>3, <1>4, ServerRests DEF Behind
<1>7. Ordered'
  BY <1>2, <1>3, <1>4, ServerRests DEF Ordered
<1>8. Complete'
  <2>1. at = "tail" => 0 <= Len(log[f])
    BY LogFacts DEF LogInv
  <2>. QED
    BY <1>2, <1>3, <2>1, ServerRests DEF Complete
<1>. QED
  BY <1>5, <1>6, <1>7, <1>8, ServerRests DEF LogInv

LEMMA TailStartInv == LogInv /\ TailStart => LogInv'
<1>. SUFFICES ASSUME LogInv, TailStart PROVE LogInv'
  OBVIOUS
<1>1. names.console \in 0..Runs /\ names.console # 0 /\ names.console <= run
  BY LogFacts DEF LogInv, Newest, TailStart, HasConsoleLog
<1>2. /\ view' = [at |-> "tail", file |-> names.console, pos |-> 0, ch |-> <<>>, sent |-> <<>>, whole |-> TRUE]
      /\ UNCHANGED server
  BY DEF TailStart, Blank
<1>3. PICK f \in 0..Runs : f = names.console
  BY <1>1
<1>4. /\ view' = [at |-> "tail", file |-> f, pos |-> 0, ch |-> <<>>, sent |-> <<>>, whole |-> TRUE]
      /\ f <= run /\ f # 0 /\ (names.console # 0 => f <= names.console)
  BY <1>1, <1>2, <1>3, LogFacts DEF LogInv
<1>5. "tail" \in {"idle", "tail"}
  OBVIOUS
<1>. QED
  BY <1>2, <1>4, <1>5, BlankInv

LEMMA DisconnectInv == LogInv /\ Disconnect => LogInv'
<1>. SUFFICES ASSUME LogInv, Disconnect PROVE LogInv'
  OBVIOUS
<1>1. 0 \in 0..Runs /\ 0 <= run
  BY LogFacts DEF LogInv
<1>2. /\ view' = [at |-> "idle", file |-> 0, pos |-> 0, ch |-> <<>>, sent |-> <<>>, whole |-> TRUE]
      /\ UNCHANGED server
  BY DEF Disconnect, Blank
<1>. QED
  BY <1>1, <1>2, BlankInv

LEMMA TailReadInv == LogInv /\ TailRead => LogInv'
<1>. SUFFICES ASSUME LogInv, TailRead PROVE LogInv'
  OBVIOUS
<1>1. /\ view.at = "tail" /\ view.pos < Len(log[view.file]) /\ Len(view.ch) < TailCap
      /\ view' = [view EXCEPT !.pos = @ + 1, !.ch = Append(@, log[view.file][view.pos + 1])]
      /\ UNCHANGED server
  BY DEF TailRead
<1>2. LogTypeOK /\ Piped /\ OneRunEach /\ Newest /\ SecondNewest /\ Behind /\ Ordered /\ Complete
  BY DEF LogInv
<1>3. /\ view.file \in 1..Runs /\ view.pos \in Nat /\ TailCap \in Nat /\ Lines \in Nat
      /\ view.ch \in Seq(Line) /\ Len(view.ch) \in Nat /\ view.sent \in Seq(Line) /\ Len(view.sent) \in Nat
      /\ Len(log[view.file]) \in Nat /\ view.whole \in BOOLEAN
  BY <1>1, <1>2, LogFacts DEF Behind
<1>4. PICK f \in 1..Runs, n \in Nat, x \in Line :
        /\ f = view.file /\ n = view.pos + 1 /\ x = log[f][n] /\ n \in 1..Len(log[f])
        /\ x = <<Writer(f), n>>
        /\ x[1] < run \/ (x[1] = run /\ x[2] <= Copied)
        /\ \A g \in 1..Runs, k \in Nat :
             k \in 1..Len(log[g]) /\ (g > f \/ (g = f /\ k > n)) => Before(x, log[g][k])
  <2>1. view.pos + 1 \in 1..Len(log[view.file]) /\ view.pos + 1 \in Nat
    BY <1>1, <1>3
  <2>2. PICK f \in 1..Runs, n \in Nat : f = view.file /\ n = view.pos + 1
    BY <1>3, <2>1
  <2>3. n \in 1..Len(log[f])
    BY <2>1, <2>2
  <2>4. PICK x \in Line : x = log[f][n]
    BY <2>3, LineOfFile
  <2>5. /\ log[f][n] = <<Writer(f), n>>
        /\ log[f][n][1] < run \/ (log[f][n][1] = run /\ log[f][n][2] <= Copied)
        /\ \A g \in 1..Runs, k \in Nat :
             k \in 1..Len(log[g]) /\ (g > f \/ (g = f /\ k > n)) => Before(log[f][n], log[g][k])
    BY <2>3, LineOfFile
  <2>. QED
    BY <2>2, <2>3, <2>4, <2>5
<1>5. view' = [view EXCEPT !.pos = n, !.ch = Append(view.ch, x)]
  BY <1>1, <1>4
<1>6. /\ view'.at = "tail" /\ view'.file = f /\ view'.pos = n /\ view'.sent = view.sent
      /\ view'.ch = Append(view.ch, x) /\ view'.whole = view.whole
  BY <1>1, <1>2, <1>4, <1>5 DEF LogTypeOK
<1>7. /\ view'.ch \in Seq(Line) /\ Len(view'.ch) = Len(view.ch) + 1
      /\ \A i \in 1..Len(view.ch) : view'.ch[i] = view.ch[i]
      /\ view'.ch[Len(view.ch) + 1] = x
      /\ ToSet(view'.ch) = ToSet(view.ch) \cup {x}
  <2>1. /\ Append(view.ch, x) \in Seq(Line) /\ Len(Append(view.ch, x)) = Len(view.ch) + 1
        /\ \A i \in 1..Len(view.ch) : Append(view.ch, x)[i] = view.ch[i]
        /\ Append(view.ch, x)[Len(view.ch) + 1] = x
        /\ ToSet(Append(view.ch, x)) = ToSet(view.ch) \cup {x}
    BY <1>3, Appended
  <2>. QED
    BY <1>6, <2>1
<1>8. Shown' = Shown \cup {x}
  BY <1>6, <1>7 DEF Shown
<1>9. n <= Lines
  BY <1>2, <1>3, <1>4, FileFits
<1>10. LogTypeOK'
  <2>1. view' \in [at : {"idle", "tail", "last"}, file : 0..Runs, pos : 0..Lines,
                   ch : Seq(Line), sent : Seq(Line), whole : BOOLEAN]
    <3>1. n \in 0..Lines /\ Append(view.ch, x) \in Seq(Line)
      BY <1>3, <1>4, <1>6, <1>7, <1>9
    <3>. QED
      BY <1>2, <1>5, <3>1 DEF LogTypeOK
  <2>2. Len(view'.ch) <= TailCap
    BY <1>1, <1>3, <1>7
  <2>. QED
    BY <1>1, <1>2, <1>6, <2>1, <2>2, ServerRests DEF LogTypeOK
<1>11. Behind'
  <2>1. Len(view'.sent) + Len(view'.ch) <= view'.pos
    <3>1. Len(view.sent) + Len(view.ch) <= view.pos
      BY <1>2 DEF Behind
    <3>2. \A a, b, q \in Nat : a + b <= q => a + (b + 1) <= q + 1
      OBVIOUS
    <3>3. Len(view.sent) + (Len(view.ch) + 1) <= view.pos + 1
      BY <1>3, <3>1, <3>2
    <3>. QED
      BY <1>4, <1>6, <1>7, <3>3
  <2>. QED
    BY <1>1, <1>2, <1>4, <1>6, <1>8, <2>1, ServerRests DEF Behind
<1>12. \A l \in Shown : Before(l, x)
  <2>. TAKE l \in Shown
  <2>1. n > view.pos
    BY <1>3, <1>4
  <2>. QED
    BY <1>1, <1>2, <1>4, <2>1 DEF Ordered
<1>13. Ordered'
  <2>1. \A i \in 1..Len(view.sent) : view.sent[i] \in Shown
    BY <1>3, InSet DEF Shown
  <2>2. \A i \in 1..Len(view.ch) : view.ch[i] \in Shown
    BY <1>3, InSet DEF Shown
  <2>3. \A i \in 1..Len(view'.ch) : i \in 1..Len(view.ch) \/ i = Len(view.ch) + 1
    BY <1>3, <1>7
  <2>4. ASSUME NEW i \in 1..Len(view'.ch), NEW j \in 1..Len(view'.ch), i < j
        PROVE  Before(view'.ch[i], view'.ch[j])
    <3>1. i \in 1..Len(view.ch)
      BY <1>3, <1>7, <2>4
    <3>2. CASE j \in 1..Len(view.ch)
      BY <1>2, <1>7, <2>4, <3>1, <3>2 DEF Ordered
    <3>3. CASE j = Len(view.ch) + 1
      BY <1>7, <1>12, <2>2, <3>1, <3>3
    <3>. QED
      BY <2>3, <3>2, <3>3
  <2>5. ASSUME NEW i \in 1..Len(view.sent), NEW j \in 1..Len(view'.ch)
        PROVE  Before(view.sent[i], view'.ch[j])
    BY <1>2, <1>7, <1>12, <2>1, <2>3 DEF Ordered
  <2>6. ASSUME NEW l \in Shown', NEW g \in 1..Runs, NEW k \in 1..Len(log[g]), g > f \/ (g = f /\ k > n)
        PROVE  Before(l, log[g][k])
    <3>0. k \in Nat
      BY <1>2, LogFacts
    <3>1. CASE l = x
      BY <1>4, <2>6, <3>0, <3>1
    <3>2. CASE l \in Shown
      <4>1. g > view.file \/ (g = view.file /\ k > view.pos)
        BY <1>3, <1>4, <2>6, <3>0
      <4>. QED
        BY <1>1, <1>2, <3>2, <4>1 DEF Ordered
    <3>. QED
      BY <1>8, <3>1, <3>2
  <2>7. log' = log
    BY <1>1, ServerRests
  <2>. QED
    BY <1>2, <1>6, <2>4, <2>5, <2>6, <2>7 DEF Ordered
<1>14. Complete'
  <2>0. log' = log
    BY <1>1, ServerRests
  <2>. SUFFICES ASSUME view.whole
                PROVE  /\ n <= Len(log[f])
                       /\ Len(view.sent) + Len(view'.ch) = n
                       /\ \A i \in 1..Len(view.sent) : view.sent[i] = log[f][i]
                       /\ \A i \in 1..Len(view'.ch) : view'.ch[i] = log[f][Len(view.sent) + i]
    BY <1>6, <2>0 DEF Complete
  <2>1. /\ Len(view.sent) + Len(view.ch) = view.pos
        /\ \A i \in 1..Len(view.sent) : view.sent[i] = log[f][i]
        /\ \A i \in 1..Len(view.ch) : view.ch[i] = log[f][Len(view.sent) + i]
    BY <1>1, <1>2, <1>4 DEF Complete
  <2>2. Len(view.sent) + Len(view'.ch) = n /\ Len(view.sent) + (Len(view.ch) + 1) = n
    <3>. DEFINE a == Len(view.sent)
                b == Len(view.ch)
                d == Len(view'.ch)
                q == view.pos
    <3>1. a \in Nat /\ b \in Nat /\ q \in Nat /\ a + b = q /\ d = b + 1 /\ n = q + 1
      BY <1>3, <1>4, <1>7, <2>1
    <3>. HIDE DEF a, b, d, q
    <3>2. a + d = n /\ a + (b + 1) = n
      BY <3>1
    <3>. QED
      BY <3>2 DEF a, b, d
  <2>3. ASSUME NEW i \in 1..Len(view'.ch) PROVE view'.ch[i] = log[f][Len(view.sent) + i]
    <3>1. CASE i \in 1..Len(view.ch)
      BY <1>7, <2>1, <3>1
    <3>2. CASE i = Len(view.ch) + 1
      BY <1>4, <1>7, <2>2, <3>2
    <3>. QED
      BY <1>3, <1>7, <3>1, <3>2
  <2>4. n <= Len(log[f])
    BY <1>3, <1>4
  <2>. QED
    BY <2>1, <2>2, <2>3, <2>4
<1>. QED
  BY <1>1, <1>10, <1>11, <1>13, <1>14, ServerRests DEF LogInv

\* A tail goes on at its position in the file that is console.log now, no older one.
LEMMA TailReopenInv == LogInv /\ TailReopen => LogInv'
<1>. SUFFICES ASSUME LogInv, TailReopen PROVE LogInv'
  OBVIOUS
<1>1. /\ view.at = "tail" /\ UNCHANGED server
      /\ view' = IF names.console = 0 THEN [view EXCEPT !.at = "last"]
                 ELSE [view EXCEPT !.file = names.console, !.whole = view.whole /\ view.file = names.console]
  BY DEF TailReopen
<1>2. LogTypeOK /\ Piped /\ OneRunEach /\ Newest /\ SecondNewest /\ Behind /\ Ordered /\ Complete
  BY DEF LogInv
<1>3. /\ view.file \in 1..Runs /\ view.pos \in Nat /\ view.pos <= Lines /\ TailCap \in Nat /\ Lines \in Nat
      /\ Len(view.ch) \in Nat /\ Len(view.sent) \in Nat /\ view.whole \in BOOLEAN
      /\ names.console \in 0..Runs /\ Runs \in Nat
  BY <1>1, <1>2, LogFacts DEF Behind
<1>4. CASE names.console = 0
  <2>1. view' = [view EXCEPT !.at = "last"]
    BY <1>1, <1>4
  <2>2. /\ view'.at = "last" /\ view'.file = view.file /\ view'.pos = view.pos /\ view'.sent = view.sent
        /\ view'.ch = view.ch
    BY <1>2, <2>1 DEF LogTypeOK
  <2>3. Len(view.ch) <= Lines
    <3>1. Len(view.sent) + Len(view.ch) <= view.pos
      BY <1>2 DEF Behind
    <3>2. \A a, b, p, m \in Nat : a + b <= p /\ p <= m => b <= m
      OBVIOUS
    <3>. QED
      BY <1>3, <3>1, <3>2
  <2>4. LogTypeOK'
    BY <1>1, <1>2, <2>1, <2>2, <2>3, ServerRests DEF LogTypeOK
  <2>5. Shown' = Shown
    BY <2>2 DEF Shown
  <2>6. Behind' /\ Ordered' /\ Complete'
    BY <1>1, <1>2, <2>2, <2>5, ServerRests DEF Behind, Ordered, Complete
  <2>. QED
    BY <1>1, <2>4, <2>6, ServerRests DEF LogInv
<1>5. CASE names.console # 0
  <2>1. view' = [view EXCEPT !.file = names.console, !.whole = view.whole /\ view.file = names.console]
    BY <1>1, <1>5
  <2>2. /\ view'.at = "tail" /\ view'.file = names.console /\ view'.pos = view.pos /\ view'.sent = view.sent
        /\ view'.ch = view.ch
    BY <1>1, <1>2, <2>1 DEF LogTypeOK
  <2>9. view'.whole => view.whole /\ view.file = names.console
    BY <1>2, <2>1 DEF LogTypeOK
  <2>3. LogTypeOK'
    BY <1>1, <1>2, <1>3, <2>1, <2>2, ServerRests DEF LogTypeOK
  <2>4. Shown' = Shown
    BY <2>2 DEF Shown
  <2>5. view.file <= names.console /\ names.console <= run
    BY <1>1, <1>2, <1>5 DEF Behind, Newest
  <2>6. Behind'
    <3>1. /\ Len(view.sent) + Len(view.ch) <= view.pos
          /\ \A l \in Shown : l[1] < run \/ (l[1] = run /\ l[2] <= Copied)
      BY <1>2 DEF Behind
    <3>2. names.console <= names.console
      BY <1>3
    <3>. QED
      BY <1>1, <1>5, <2>2, <2>4, <2>5, <3>1, <3>2, ServerRests DEF Behind
  <2>7. Ordered'
    <3>1. ASSUME NEW f \in 1..Runs, NEW i \in 1..Len(log[f]),
                 f > names.console \/ (f = names.console /\ i > view.pos)
          PROVE  f > view.file \/ (f = view.file /\ i > view.pos)
      BY <1>3, <2>5, <3>1
    <3>. QED
      BY <1>1, <1>2, <2>2, <2>4, <3>1, ServerRests DEF Ordered
  <2>8. Complete'
    <3>1. log' = log
      BY <1>1, ServerRests
    <3>2. CASE view.whole /\ view.file = names.console
      <4>1. /\ view'.file = view.file /\ view'.pos = view.pos
            /\ view'.sent = view.sent /\ view'.ch = view.ch
        BY <2>2, <3>2
      <4>2. /\ view.pos <= Len(log[view.file])
            /\ Len(view.sent) + Len(view.ch) = view.pos
            /\ \A i \in 1..Len(view.sent) : view.sent[i] = log[view.file][i]
            /\ \A i \in 1..Len(view.ch) : view.ch[i] = log[view.file][Len(view.sent) + i]
        BY <1>1, <1>2, <3>2 DEF Complete
      <4>3. /\ view'.pos <= Len(log'[view'.file])
            /\ Len(view'.sent) + Len(view'.ch) = view'.pos
            /\ \A i \in 1..Len(view'.sent) : view'.sent[i] = log'[view'.file][i]
            /\ \A i \in 1..Len(view'.ch) : view'.ch[i] = log'[view'.file][Len(view'.sent) + i]
        BY <3>1, <4>1, <4>2
      <4>. QED
        BY <4>3 DEF Complete
    <3>3. CASE ~view'.whole
      BY <3>3 DEF Complete
    <3>. QED
      BY <2>9, <3>2, <3>3
  <2>. QED
    BY <1>1, <2>3, <2>6, <2>7, <2>8, ServerRests DEF LogInv
<1>. QED
  BY <1>4, <1>5

LEMMA ReplayInv == LogInv /\ Replay => LogInv'
<1>. SUFFICES ASSUME LogInv, Replay PROVE LogInv'
  OBVIOUS
<1>1. LogTypeOK /\ OneRunEach /\ Newest /\ names.console # 0 /\ UNCHANGED server
  BY DEF LogInv, Replay, HasConsoleLog
<1>2. PICK f \in 1..Runs, n \in Nat : f = names.console /\ n = Len(log[f]) /\ n <= Lines
  <2>1. names.console \in 1..Runs
    BY <1>1, LogFacts
  <2>. QED
    BY <1>1, <2>1, LogFacts, FileFits
<1>3. PICK from \in 1..(n + 1) : from = IF n > HistoryCap THEN n - HistoryCap + 1 ELSE 1
  BY LogBounds
<1>4. PICK ch \in Seq(Line) :
        /\ ch = SubSeq(log[f], from, n) /\ Len(ch) = n + 1 - from
        /\ \A i \in 1..Len(ch) : ch[i] = log[f][from + i - 1]
  <2>1. log[f] \in Seq(Line)
    BY <1>1, LogFacts
  <2>2. from \in 1..(Len(log[f]) + 1) /\ n \in (from - 1)..Len(log[f])
    BY <1>2, <1>3
  <2>. QED
    <3>1. /\ SubSeq(log[f], from, n) \in Seq(Line)
          /\ Len(SubSeq(log[f], from, n)) = (IF from <= n THEN n - from + 1 ELSE 0)
          /\ \A i \in 1..(n - from + 1) : SubSeq(log[f], from, n)[i] = log[f][from + i - 1]
      BY <2>1, <2>2, SubSeqProperties
    <3>2. (IF from <= n THEN n - from + 1 ELSE 0) = n + 1 - from /\ n - from + 1 = n + 1 - from
      BY <1>3
    <3>. QED
      BY <3>1, <3>2
<1>5. view' = [at |-> "last", file |-> f, pos |-> n, ch |-> ch, sent |-> <<>>, whole |-> TRUE]
  BY <1>2, <1>3, <1>4 DEF Replay, Blank
<1>6. /\ view'.at = "last" /\ view'.file = f /\ view'.pos = n /\ view'.ch = ch /\ view'.sent = <<>>
  BY <1>5
<1>7. <<>> \in Seq(Line) /\ Len(<<>>) = 0 /\ ToSet(<<>>) = {} /\ Lines \in Nat /\ Len(ch) <= n /\ Len(ch) \in Nat
  <2>1. <<>> \in Seq(Line) /\ Len(<<>>) = 0 /\ ToSet(<<>>) = {} /\ Lines \in Nat
    BY EmptySeq, LogBounds DEF ToSet
  <2>2. Len(ch) = n + 1 - from /\ from \in 1..(n + 1) /\ n \in Nat
    BY <1>3, <1>4
  <2>3. n + 1 - from \in Nat /\ n + 1 - from <= n
    BY <2>2
  <2>. QED
    BY <2>1, <2>2, <2>3
<1>8. \A i \in 1..Len(ch) : from + i - 1 \in 1..Len(log[f])
  <2>1. Len(ch) = n + 1 - from /\ from \in 1..(n + 1) /\ n \in Nat /\ Len(log[f]) = n
    BY <1>2, <1>3, <1>4
  <2>2. \A i \in 1..(n + 1 - from) : from + i - 1 \in 1..n
    BY <2>1
  <2>. QED
    BY <2>1, <2>2
<1>9. LogTypeOK'
  <2>1. view' \in [at : {"idle", "tail", "last"}, file : 0..Runs, pos : 0..Lines,
                   ch : Seq(Line), sent : Seq(Line), whole : BOOLEAN]
    BY <1>2, <1>5, <1>7
  <2>. QED
    BY <1>1, <1>2, <1>6, <1>7, <2>1, ServerRests DEF LogTypeOK
<1>10. Behind'
  <2>1. ASSUME NEW l \in Shown' PROVE l[1] < run \/ (l[1] = run /\ l[2] <= Copied)
    <3>1. PICK i \in 1..Len(ch) : l = log[f][from + i - 1]
      <4>1. l \in ToSet(ch)
        BY <1>6, <1>7 DEF Shown
      <4>2. PICK i \in 1..Len(ch) : l = ch[i]
        BY <4>1, InSet
      <4>. QED
        BY <1>4, <4>2
    <3>. QED
      BY <1>8, <3>1, LineOfFile
  <2>2. f <= run
    BY <1>1, <1>2 DEF Newest
  <2>. QED
    BY <1>1, <1>6, <1>7, <2>1, <2>2, ServerRests DEF Behind
<1>11. Ordered'
  <2>1. ASSUME NEW i \in 1..Len(ch), NEW j \in 1..Len(ch), i < j PROVE Before(ch[i], ch[j])
    <3>1. /\ from + i - 1 \in 1..Len(log[f]) /\ from + j - 1 \in 1..Len(log[f])
          /\ from + j - 1 > from + i - 1 /\ from + j - 1 \in Nat
      BY <1>3, <1>8, <2>1
    <3>. QED
      BY <1>4, <3>1, LineOfFile
  <2>. QED
    BY <1>6, <1>7, <2>1 DEF Ordered
<1>12. Complete'
  BY <1>6 DEF Complete
<1>. QED
  BY <1>1, <1>9, <1>10, <1>11, <1>12, ServerRests DEF LogInv

\* The next line is sent or skipped.
LEMMA SendLineInv == LogInv /\ SendLine => LogInv'
<1>. SUFFICES ASSUME LogInv, SendLine PROVE LogInv'
  OBVIOUS
<1>1. PICK skip \in BOOLEAN :
        view' = [view EXCEPT !.ch    = Tail(@),
                             !.sent  = IF skip THEN @ ELSE Append(@, Head(view.ch)),
                             !.whole = @ /\ ~skip]
  BY DEF SendLine
<1>2. view.ch # <<>> /\ UNCHANGED server
  BY DEF SendLine
<1>3. LogTypeOK /\ Piped /\ OneRunEach /\ Newest /\ SecondNewest /\ Behind /\ Ordered /\ Complete
  BY DEF LogInv
<1>4. /\ view.pos \in Nat /\ TailCap \in Nat /\ Lines \in Nat /\ view.whole \in BOOLEAN
      /\ view.ch \in Seq(Line) /\ Len(view.ch) \in Nat /\ view.sent \in Seq(Line) /\ Len(view.sent) \in Nat
  BY <1>3, LogFacts
<1>5. PICK x \in Line, tail \in Seq(Line) :
        /\ x = Head(view.ch) /\ tail = Tail(view.ch) /\ x = view.ch[1]
        /\ Len(view.ch) >= 1 /\ Len(tail) = Len(view.ch) - 1
        /\ \A i \in 1..(Len(view.ch) - 1) : tail[i] = view.ch[i + 1]
        /\ x \in ToSet(view.ch) /\ ToSet(tail) \subseteq ToSet(view.ch)
  BY <1>2, <1>4, Beheaded
<1>6. PICK sent \in Seq(Line) :
        /\ sent = IF skip THEN view.sent ELSE Append(view.sent, x)
        /\ Len(sent) = IF skip THEN Len(view.sent) ELSE Len(view.sent) + 1
        /\ \A i \in 1..Len(view.sent) : sent[i] = view.sent[i]
        /\ skip \/ sent[Len(view.sent) + 1] = x
        /\ ToSet(sent) \subseteq ToSet(view.sent) \cup {x}
  <2>1. CASE skip
    BY <1>4, <2>1
  <2>2. CASE ~skip
    <3>1. /\ Append(view.sent, x) \in Seq(Line) /\ Len(Append(view.sent, x)) = Len(view.sent) + 1
          /\ \A i \in 1..Len(view.sent) : Append(view.sent, x)[i] = view.sent[i]
          /\ Append(view.sent, x)[Len(view.sent) + 1] = x
          /\ ToSet(Append(view.sent, x)) = ToSet(view.sent) \cup {x}
      BY <1>4, Appended
    <3>. QED
      BY <2>2, <3>1
  <2>. QED
    BY <2>1, <2>2
<1>7. view' = [view EXCEPT !.ch = tail, !.sent = sent, !.whole = view.whole /\ ~skip]
  BY <1>1, <1>5, <1>6
<1>8. /\ view'.at = view.at /\ view'.file = view.file /\ view'.pos = view.pos
      /\ view'.ch = tail /\ view'.sent = sent
  BY <1>3, <1>7 DEF LogTypeOK
<1>9. view'.whole => view.whole /\ ~skip
  BY <1>3, <1>7 DEF LogTypeOK
<1>10. Shown' \subseteq Shown
  BY <1>5, <1>6, <1>8 DEF Shown
<1>11. LogTypeOK'
  <2>1. view' \in [at : {"idle", "tail", "last"}, file : 0..Runs, pos : 0..Lines,
                   ch : Seq(Line), sent : Seq(Line), whole : BOOLEAN]
    BY <1>3, <1>7 DEF LogTypeOK
  <2>2. Len(tail) <= IF view.at = "tail" THEN TailCap ELSE Lines
    BY <1>3, <1>4, <1>5 DEF LogTypeOK
  <2>. QED
    BY <1>2, <1>3, <1>8, <2>1, <2>2, ServerRests DEF LogTypeOK
<1>. DEFINE a == Len(view.sent)
            b == Len(view.ch)
<1>a. /\ a \in Nat /\ b \in Nat /\ b >= 1 /\ Len(tail) = b - 1
      /\ Len(sent) = IF skip THEN a ELSE a + 1
      /\ a = Len(view.sent) /\ b = Len(view.ch)
  BY <1>4, <1>5, <1>6
<1>. HIDE DEF a, b
<1>b. (\A i \in 1..Len(tail) : i + 1 \in 1..b) /\ (\A i \in 1..Len(sent) : i \in 1..a \/ (i = a + 1 /\ ~skip))
  BY <1>a
<1>d. /\ \A q \in Nat : a + b <= q => Len(sent) + Len(tail) <= q
      /\ ~skip => Len(sent) + Len(tail) = a + b
      /\ ~skip => \A i \in Nat : a + (i + 1) = Len(sent) + i
  <2>. DEFINE k == Len(sent)
              m == Len(tail)
  <2>1. k = (IF skip THEN a ELSE a + 1) /\ m = b - 1 /\ a \in Nat /\ b \in Nat /\ b >= 1
    BY <1>a
  <2>. HIDE DEF k, m
  <2>2. /\ \A q \in Nat : a + b <= q => k + m <= q
        /\ ~skip => k + m = a + b
        /\ ~skip => \A i \in Nat : a + (i + 1) = k + i
    BY <2>1
  <2>. QED
    BY <2>2 DEF k, m
<1>12. Behind'
  <2>1. a + b <= view.pos
    BY <1>3, <1>a DEF Behind
  <2>2. Len(sent) + Len(tail) <= view.pos
    BY <1>4, <1>d, <2>1
  <2>. QED
    BY <1>2, <1>3, <1>8, <1>10, <2>2, ServerRests DEF Behind
<1>13. Ordered'
  <2>0. 1 \in 1..b
    BY <1>a
  <2>1. \A i \in 1..a : Before(view.sent[i], x)
    BY <1>3, <1>5, <1>a, <2>0 DEF Ordered
  <2>2. ASSUME NEW i \in 1..Len(tail) PROVE Before(x, tail[i]) /\ tail[i] = view.ch[i + 1]
    <3>1. 1 < i + 1 /\ i + 1 \in 1..b /\ i \in 1..(b - 1)
      BY <1>a
    <3>. QED
      BY <1>3, <1>5, <1>a, <2>0, <3>1 DEF Ordered
  <2>3. ASSUME NEW i \in 1..Len(sent), NEW j \in 1..Len(sent), i < j PROVE Before(sent[i], sent[j])
    <3>1. i \in 1..a
      BY <1>a, <1>b, <2>3
    <3>2. CASE j \in 1..a
      BY <1>3, <1>6, <1>a, <2>3, <3>1, <3>2 DEF Ordered
    <3>3. CASE j = a + 1 /\ ~skip
      BY <1>6, <1>a, <2>1, <3>1, <3>3
    <3>. QED
      BY <1>b, <3>2, <3>3
  <2>4. ASSUME NEW i \in 1..Len(tail), NEW j \in 1..Len(tail), i < j PROVE Before(tail[i], tail[j])
    <3>1. i + 1 \in 1..b /\ j + 1 \in 1..b /\ i + 1 < j + 1
      BY <1>a, <2>4
    <3>2. tail[i] = view.ch[i + 1] /\ tail[j] = view.ch[j + 1]
      BY <2>2
    <3>. QED
      BY <1>3, <1>a, <3>1, <3>2 DEF Ordered
  <2>5. ASSUME NEW i \in 1..Len(sent), NEW j \in 1..Len(tail) PROVE Before(sent[i], tail[j])
    <3>1. CASE i \in 1..a
      BY <1>3, <1>6, <1>a, <1>b, <2>2, <3>1 DEF Ordered
    <3>2. CASE i = a + 1 /\ ~skip
      BY <1>6, <1>a, <2>2, <3>2
    <3>. QED
      BY <1>b, <3>1, <3>2
  <2>6. view.at = "tail" =>
          \A l \in Shown', f \in 1..Runs : \A i \in 1..Len(log[f]) :
            f > view.file \/ (f = view.file /\ i > view.pos) => Before(l, log[f][i])
    BY <1>3, <1>10 DEF Ordered
  <2>7. log' = log
    BY <1>2, ServerRests
  <2>. QED
    BY <1>8, <2>3, <2>4, <2>5, <2>6, <2>7 DEF Ordered
<1>14. Complete'
  <2>. SUFFICES ASSUME view.at = "tail", view.whole, ~skip
                PROVE  /\ view.pos <= Len(log[view.file])
                       /\ Len(sent) + Len(tail) = view.pos
                       /\ \A i \in 1..Len(sent) : sent[i] = log[view.file][i]
                       /\ \A i \in 1..Len(tail) : tail[i] = log[view.file][Len(sent) + i]
    BY <1>2, <1>8, <1>9, ServerRests DEF Complete
  <2>1. /\ view.pos <= Len(log[view.file]) /\ a + b = view.pos
        /\ \A i \in 1..a : view.sent[i] = log[view.file][i]
        /\ \A i \in 1..b : view.ch[i] = log[view.file][a + i]
    BY <1>3, <1>a DEF Complete
  <2>2. Len(sent) + Len(tail) = view.pos /\ 1 \in 1..b
    <3>1. Len(sent) + Len(tail) = a + b
      BY <1>d
    <3>2. 1 \in 1..b
      BY <1>a
    <3>. QED
      BY <2>1, <3>1, <3>2
  <2>3. \A i \in 1..Len(sent) : sent[i] = log[view.file][i]
    BY <1>5, <1>6, <1>a, <1>b, <2>1, <2>2
  <2>4. ASSUME NEW i \in 1..Len(tail) PROVE tail[i] = log[view.file][Len(sent) + i]
    <3>1. i + 1 \in 1..b /\ i \in 1..(b - 1) /\ a + (i + 1) = Len(sent) + i
      <4>1. i \in Nat /\ i \in 1..(b - 1)
        BY <1>a
      <4>2. i + 1 \in 1..b
        BY <1>a, <4>1
      <4>. QED
        BY <1>d, <4>1, <4>2
    <3>. QED
      BY <1>5, <1>a, <2>1, <3>1
  <2>. QED
    BY <2>1, <2>2, <2>3, <2>4
<1>. QED
  BY <1>2, <1>11, <1>12, <1>13, <1>14, ServerRests DEF LogInv

-----------------------------------------------------------------------------

LEMMA LogNextInv == LogInv /\ [LogNext]_logVars => LogInv'
<1>. SUFFICES ASSUME LogInv, [LogNext]_logVars PROVE LogInv'
  OBVIOUS
<1>1. CASE UNCHANGED logVars
  <2>1. UNCHANGED server /\ view' = view
    BY <1>1 DEF logVars
  <2>2. Shown' = Shown
    BY <2>1 DEF Shown
  <2>3. LogTypeOK' /\ Behind' /\ Ordered' /\ Complete'
    <3>1. LogTypeOK'
      BY <2>1 DEF LogInv, LogTypeOK, server
    <3>2. Behind'
      BY <2>1, <2>2, ServerRests DEF LogInv, Behind
    <3>3. Ordered'
      BY <2>1, <2>2, ServerRests DEF LogInv, Ordered
    <3>4. Complete'
      BY <2>1, ServerRests DEF LogInv, Complete
    <3>. QED
      BY <3>1, <3>2, <3>3, <3>4
  <2>. QED
    BY <2>1, <2>3, ServerRests DEF LogInv
<1>. QED
  BY <1>1, LaunchInv, PrintLineInv, RotateInv, OpenLogInv, CopyLineInv, ExitInv, TailStartInv,
     TailReadInv, TailReopenInv, ReplayInv, SendLineInv, DisconnectInv DEF LogNext

LEMMA CrashLog == LogInv => CrashLogKept
<1>. DEFINE RunsIn(f) == {l[1] : l \in ToSet(log[f])}
            earlier   == {r \in 1..(run - 1) : \E f \in 1..Runs : r \in RunsIn(f)}
            c == names.console
            p == names.previous
<1>. SUFFICES ASSUME LogInv, jvm = "up"
              PROVE  /\ RunsIn(c) \subseteq {run}
                     /\ earlier # {} =>
                          /\ p # 0
                          /\ RunsIn(p) = {CHOOSE r \in earlier : \A q \in earlier : q <= r}
  BY DEF CrashLogKept
<1>1. LogTypeOK /\ OneRunEach /\ SecondNewest /\ c \in 1..Runs /\ p \in 0..Runs /\ run \in Nat /\ Runs \in Nat
  BY LogFacts DEF LogInv, Piped
<1>2. ASSUME NEW f \in 1..Runs
      PROVE  /\ \A r \in RunsIn(f) : Written(f) /\ r = Writer(f)
             /\ Written(f) => Writer(f) \in RunsIn(f)
  <2>1. log[f] \in Seq(Line) /\ ToSet(log[f]) = {log[f][i] : i \in 1..Len(log[f])}
    BY <1>1, LogFacts, InSet
  <2>2. \A i \in 1..Len(log[f]) : log[f][i][1] = Writer(f) /\ Written(f)
    BY LineOfFile
  <2>3. Written(f) => 1 \in 1..Len(log[f])
    BY <2>1, EmptySeq, LenProperties DEF Written
  <2>. QED
    BY <2>1, <2>2, <2>3
<1>3. RunsIn(c) \subseteq {run}
  BY <1>1, <1>2 DEF OneRunEach
<1>4. ASSUME earlier # {}
      PROVE  p # 0 /\ RunsIn(p) = {CHOOSE r \in earlier : \A q \in earlier : q <= r}
  <2>1. ASSUME NEW r \in earlier
        PROVE  \E f \in 1..Runs : Written(f) /\ r = Writer(f) /\ f # c /\ p # 0 /\ f <= p
    <3>1. PICK f \in 1..Runs : r \in RunsIn(f)
      OBVIOUS
    <3>2. Written(f) /\ r = Writer(f)
      BY <1>2, <3>1
    <3>3. f # c
      BY <1>1, <3>2 DEF OneRunEach
    <3>. QED
      BY <1>1, <3>2, <3>3 DEF SecondNewest
  <2>2. p \in 1..Runs /\ Written(p) /\ p # c
    BY <1>1, <1>4, <2>1 DEF SecondNewest
  <2>3. Writer(p) \in 1..(run - 1)
    BY <1>1, <2>2 DEF OneRunEach
  <2>4. Writer(p) \in earlier /\ RunsIn(p) = {Writer(p)}
    BY <1>2, <2>2, <2>3
  <2>5. \A r \in earlier : r <= Writer(p)
    <3>. TAKE r \in earlier
    <3>1. PICK f \in 1..Runs : Written(f) /\ r = Writer(f) /\ f <= p
      BY <2>1
    <3>2. f # p => f \in 1..(p - 1)
      BY <1>1, <2>2, <3>1
    <3>. QED
      BY <1>1, <2>2, <2>3, <3>1, <3>2 DEF OneRunEach
  <2>6. \A r \in earlier : r \in Int
    BY <1>1
  <2>. HIDE DEF earlier
  <2>7. (CHOOSE r \in earlier : \A q \in earlier : q <= r) = Writer(p)
    <3>1. \A r \in earlier : (\A q \in earlier : q <= r) => r = Writer(p)
      BY <2>4, <2>5, <2>6
    <3>. QED
      BY <2>4, <2>5, <3>1
  <2>8. p # 0
    BY <2>2
  <2>. HIDE DEF RunsIn, p
  <2>. QED
    BY <2>4, <2>7, <2>8
<1>. QED
  BY <1>3, <1>4

LEMMA FromTheBeginning == LogInv => ShownFromTheBeginning
<1>. SUFFICES ASSUME LogInv, view.at = "tail", view.whole
              PROVE  view.sent \o view.ch = SubSeq(log[view.file], 1, view.pos)
  BY DEF ShownFromTheBeginning
<1>0. view.file \in 1..Runs /\ view.pos \in Nat
  BY LogFacts DEF LogInv, Behind
<1>1. PICK f \in 1..Runs, n \in Nat : f = view.file /\ n = view.pos
  BY <1>0
<1>2. PICK s \in Seq(Line), t \in Seq(Line), w \in Seq(Line) : s = view.sent /\ t = view.ch /\ w = log[f]
  BY <1>1, LogFacts DEF LogInv
<1>3. /\ n <= Len(w) /\ Len(s) + Len(t) = n
      /\ \A i \in 1..Len(s) : s[i] = w[i]
      /\ \A i \in 1..Len(t) : t[i] = w[Len(s) + i]
  BY <1>1, <1>2 DEF LogInv, Complete
<1>4. Len(s) \in Nat /\ Len(t) \in Nat /\ Len(w) \in Nat
  BY LenProperties
<1>5. /\ s \o t \in Seq(Line) /\ Len(s \o t) = n
      /\ \A i \in 1..n : (s \o t)[i] = IF i <= Len(s) THEN s[i] ELSE t[i - Len(s)]
  BY <1>3, ConcatProperties
<1>6. \A i \in 1..n : (s \o t)[i] = w[i]
  <2>. TAKE i \in 1..n
  <2>1. CASE i <= Len(s)
    BY <1>3, <1>4, <1>5, <2>1
  <2>2. CASE i > Len(s)
    <3>1. i - Len(s) \in 1..Len(t) /\ Len(s) + (i - Len(s)) = i
      BY <1>3, <1>4, <2>2
    <3>. QED
      BY <1>3, <1>4, <1>5, <2>2, <3>1
  <2>3. i <= Len(s) \/ i > Len(s)
    BY <1>4
  <2>. QED
    BY <2>1, <2>2, <2>3
<1>7. /\ SubSeq(w, 1, n) \in Seq(Line) /\ Len(SubSeq(w, 1, n)) = n
      /\ \A i \in 1..n : SubSeq(w, 1, n)[i] = w[i]
  <2>1. \A i \in 1..n : w[i] \in Line
    BY <1>3, <1>4, ElementOfSeq
  <2>2. /\ SubSeq(w, 1, n) \in Seq(Line)
        /\ Len(SubSeq(w, 1, n)) = (IF 1 <= n THEN n - 1 + 1 ELSE 0)
        /\ \A i \in 1..(n - 1 + 1) : SubSeq(w, 1, n)[i] = w[1 + i - 1]
    BY <2>1, SubSeqProperties
  <2>. QED
    BY <2>2
<1>8. s \o t = SubSeq(w, 1, n)
  <2>1. PICK a \in Seq(Line), b \in Seq(Line) : a = s \o t /\ b = SubSeq(w, 1, n)
    BY <1>5, <1>7
  <2>2. Len(a) = n /\ Len(b) = n /\ \A i \in 1..n : a[i] = b[i]
    BY <1>5, <1>6, <1>7, <2>1
  <2>3. a = b
    BY <2>2, SeqEqual
  <2>. QED
    BY <2>1, <2>3
<1>. QED
  BY <1>1, <1>2, <1>8

\* For any number of runs, lines and places in a tail's channel: console.log and
\* console.log.1 are the logs of this run and of the last before it that left any
\* (process.go: rotateConsoleLog); and a viewer is shown lines in their order, none
\* twice, and as long as it is not cut short the whole file from its first line
\* (process.go: TailLogs).
THEOREM LogsAreKeptAndShown ==
  LogSpec => [](LogTypeOK /\ CrashLogKept /\ InOrder /\ ShownFromTheBeginning)
<1>1. LogSpec => []LogInv
  BY LogInitInv, LogNextInv, PTL DEF LogSpec
<1>2. LogInv => LogTypeOK /\ CrashLogKept /\ InOrder /\ ShownFromTheBeginning
  BY CrashLog, FromTheBeginning DEF LogInv, Ordered, InOrder
<1>. QED
  BY <1>1, <1>2, PTL

-----------------------------------------------------------------------------
(* The RCON client: its inductive invariant.                               *)

\* The wire of an authentication ends with the verdict.
AuthWire ==
  client = "auth" =>
    /\ id = 1
    /\ \/ wire = <<AuthAnswer(IF right THEN 1 ELSE -1)>>
       \/ wire = <<Empty(1), AuthAnswer(IF right THEN 1 ELSE -1)>>

\* Unless a packet was torn, what is on the wire belongs to commands before the
\* next; while the first packet of a reply is awaited, to those before it and then
\* to it, from its first packet; and from then on it is the rest of the reply.
NoNewer   == client = "ready" /\ ~torn => \A i \in 1..Len(wire) : wire[i].id <= id
OldThenNew ==
  client = "first" /\ ~torn =>
    \E m \in 0..Len(wire) :
      /\ \A i \in 1..m : wire[i].id < id
      /\ \A i \in (m + 1)..Len(wire) : wire[i] = Part(id, i - m)
RestOfReply ==
  client = "more" =>
    /\ ~torn
    /\ \A i \in 1..Len(wire) : wire[i] = Part(id, Len(reply) + i)

\* The reply is a beginning, of the command sent last while it is being read.
Beginning ==
  /\ client = "first" => reply = <<>>
  /\ reply # <<>> =>
       \E command \in 1..LastId :
         /\ client = "more" => command = id
         /\ \A k \in 1..Len(reply) : reply[k] = <<command, k>>
  /\ client = "more" => reply # <<>>

RconInv ==
  /\ RconTypeOK
  /\ AuthVerdict
  /\ AuthWire
  /\ NoNewer
  /\ OldThenNew
  /\ RestOfReply
  /\ Beginning
  /\ client \in {"idle", "auth"} => reply = <<>>
  /\ client # "idle" => id >= 1

-----------------------------------------------------------------------------

LEMMA AppendToOne == ASSUME NEW e, NEW a PROVE Append(<<e>>, a) = <<e, a>>
<1>. DEFINE S == {e, a}
<1>1. <<e>> \in Seq(S) /\ a \in S /\ <<e, a>> \in Seq(S) /\ Len(<<e>>) = 1 /\ <<e>>[1] = e
  OBVIOUS
<1>2. /\ Append(<<e>>, a) \in Seq(S) /\ Len(Append(<<e>>, a)) = 2
      /\ Append(<<e>>, a)[1] = e /\ Append(<<e>>, a)[2] = a
  BY <1>1
<1>3. Len(<<e, a>>) = 2 /\ <<e, a>>[1] = e /\ <<e, a>>[2] = a
  OBVIOUS
<1>. HIDE DEF S
<1>4. \A i \in 1..Len(<<e, a>>) : Append(<<e>>, a)[i] = <<e, a>>[i]
  BY <1>2, <1>3
<1>. QED
  BY <1>1, <1>2, <1>3, <1>4, SeqEqual

\* The packets on the wire are packets, and numbers those of the model.
LEMMA OnTheWire ==
  ASSUME RconTypeOK
  PROVE  /\ wire \in Seq(Packet) /\ Len(wire) \in Nat /\ id \in 0..LastId /\ id \in Int
         /\ \A i \in 1..Len(wire) :
              /\ wire[i] \in Packet
              /\ wire[i].id \in Int /\ wire[i].body \in 0..Parts
<1>1. wire \in Seq(Packet) /\ id \in 0..LastId
  BY DEF RconTypeOK
<1>2. \A i \in 1..Len(wire) : wire[i] \in Packet
  BY <1>1, ElementOfSeq
<1>3. \A p \in Packet : p.id \in Int /\ p.body \in 0..Parts
  BY RconBounds DEF Packet
<1>. QED
  BY <1>1, <1>2, <1>3, LenProperties, RconBounds

LEMMA RconInitInv == RconInit => RconInv
<1>. SUFFICES ASSUME RconInit PROVE RconInv
  OBVIOUS
<1>. USE DEF RconInit
<1>1. RconTypeOK
  <2>1. reply \in Seq((1..LastId) \X (0..Parts)) /\ wire \in Seq(Packet)
    BY EmptySeq
  <2>2. id \in 0..LastId
    BY RconBounds
  <2>. QED
    BY <2>1, <2>2 DEF RconTypeOK
<1>. QED
  BY <1>1 DEF RconInv, AuthVerdict, AuthWire, NoNewer, OldThenNew, RestOfReply, Beginning

LEMMA DialInv == RconInv /\ Dial => RconInv'
<1>. SUFFICES ASSUME RconInv, Dial PROVE RconInv'
  OBVIOUS
<1>. DEFINE answer == AuthAnswer(IF right THEN 1 ELSE -1)
<1>1. wire' = <<answer>> \/ wire' = <<Empty(1), answer>>
  <2>1. PICK first \in {<<>>, <<Empty(1)>>} : wire' = Append(first, answer)
    BY DEF Dial
  <2>. HIDE DEF answer
  <2>2. Append(<<>>, answer) = <<answer>> /\ Append(<<Empty(1)>>, answer) = <<Empty(1), answer>>
    BY AppendToOne
  <2>. QED
    BY <2>1, <2>2
<1>2. RconTypeOK'
  <2>1. answer \in Packet /\ Empty(1) \in Packet
    BY RconBounds DEF Packet, AuthAnswer, Empty
  <2>2. wire' \in Seq(Packet)
    <3>. HIDE DEF answer
    <3>1. <<answer>> \in Seq(Packet) /\ <<Empty(1), answer>> \in Seq(Packet)
      BY <2>1
    <3>. QED
      BY <1>1, <3>1
  <2>3. id' \in 0..LastId
    BY RconBounds DEF Dial
  <2>. QED
    BY <2>2, <2>3 DEF RconInv, RconTypeOK, Dial
<1>. QED
  BY <1>1, <1>2 DEF RconInv, Dial, AuthVerdict, AuthWire, NoNewer, OldThenNew, RestOfReply, Beginning

LEMMA AuthReadInv == RconInv /\ AuthRead => RconInv'
<1>. SUFFICES ASSUME RconInv, AuthRead PROVE RconInv'
  OBVIOUS
<1>. DEFINE verdict == IF right THEN 1 ELSE -1
            answer  == AuthAnswer(verdict)
<1>1. client = "auth" /\ id = 1 /\ wire # <<>> /\ wire \in Seq(Packet) /\ reply = <<>> /\ right \in BOOLEAN
  BY DEF RconInv, RconTypeOK, AuthRead, AuthWire
<1>2. wire' \in Seq(Packet)
  BY <1>1, Beheaded DEF AuthRead
<1>3. CASE wire = <<answer>>
  <2>1. Head(wire).type = "auth" /\ Head(wire).id = verdict /\ wire' = <<>>
    BY <1>3 DEF AuthAnswer, AuthRead
  <2>2. client' = IF right THEN "ready" ELSE "rejected"
    BY <1>1, <2>1 DEF AuthRead
  <2>3. right' = right /\ id' = 1 /\ reply' = <<>> /\ torn' = torn
    BY <1>1 DEF AuthRead
  <2>4. RconTypeOK'
    BY <1>1, <1>2, <2>2, <2>3 DEF RconInv, RconTypeOK
  <2>. QED
    BY <1>1, <2>1, <2>2, <2>3, <2>4
    DEF RconInv, AuthVerdict, AuthWire, NoNewer, OldThenNew, RestOfReply, Beginning
<1>4. CASE wire = <<Empty(1), answer>>
  <2>1. Head(wire).type = "response" /\ wire' = <<answer>>
    BY <1>4 DEF Empty, AuthRead
  <2>2. client' = "auth"
    BY <2>1 DEF AuthRead
  <2>3. RconTypeOK'
    BY <1>1, <1>2, <2>2 DEF RconInv, RconTypeOK, AuthRead
  <2>4. AuthWire'
    BY <1>1, <2>1 DEF AuthWire, AuthRead
  <2>. QED
    BY <1>1, <2>2, <2>3, <2>4
    DEF RconInv, AuthRead, AuthVerdict, NoNewer, OldThenNew, RestOfReply, Beginning
<1>. QED
  BY <1>1, <1>3, <1>4 DEF RconInv, AuthWire

LEMMA AuthLateInv == RconInv /\ AuthLate => RconInv'
<1>. SUFFICES ASSUME RconInv, AuthLate PROVE RconInv'
  OBVIOUS
<1>1. wire' \in Seq(Packet)
  BY EmptySeq DEF AuthLate
<1>. QED
  BY <1>1 DEF RconInv, RconTypeOK, AuthLate, AuthVerdict, AuthWire, NoNewer, OldThenNew, RestOfReply, Beginning

LEMMA ExecuteInv == RconInv /\ Execute => RconInv'
<1>. SUFFICES ASSUME RconInv, Execute PROVE RconInv'
  OBVIOUS
<1>1. PICK n \in 1..Parts : wire' = wire \o [k \in 1..n |-> Part(id + 1, k)]
  BY DEF Execute
<1>. DEFINE new == [k \in 1..n |-> Part(id + 1, k)]
<1>2. id \in 0..LastId /\ id' = id + 1 /\ id' \in 0..LastId /\ wire \in Seq(Packet)
  BY RconBounds DEF Execute, RconInv, RconTypeOK
<1>3. new \in Seq(Packet) /\ Len(new) = n /\ \A k \in 1..n : new[k] = Part(id', k)
  <2>1. \A k \in 1..n : Part(id + 1, k) \in Packet
    BY <1>2, RconBounds DEF Packet, Part
  <2>. QED
    BY <1>2, <2>1, RconBounds, IsASeq
<1>. HIDE DEF new
<1>4. /\ wire' \in Seq(Packet) /\ Len(wire') = Len(wire) + n
      /\ \A i \in 1..Len(wire) : wire'[i] = wire[i]
      /\ \A i \in (Len(wire) + 1)..Len(wire') : wire'[i] = Part(id', i - Len(wire))
  BY <1>1, <1>2, <1>3 DEF new
<1>5. RconTypeOK'
  <2>1. reply' \in Seq((1..LastId) \X (0..Parts))
    BY EmptySeq DEF Execute
  <2>. QED
    BY <1>2, <1>4, <2>1 DEF RconInv, RconTypeOK, Execute
<1>6. OldThenNew'
  <2>. SUFFICES ASSUME ~torn PROVE OldThenNew'
    BY DEF OldThenNew, Execute
  <2>1. \A i \in 1..Len(wire) : wire[i].id <= id
    BY DEF RconInv, NoNewer, Execute
  <2>2. \A i \in 1..Len(wire) : wire'[i].id < id'
    <3>. TAKE i \in 1..Len(wire)
    <3>1. wire[i].id <= id /\ wire[i].id \in Int
      BY <2>1, OnTheWire DEF RconInv
    <3>. QED
      BY <1>2, <1>4, <3>1, RconBounds
  <2>3. Len(wire) \in 0..Len(wire')
    BY <1>2, <1>4
  <2>. QED
    BY <1>4, <2>2, <2>3 DEF OldThenNew
<1>7. client' = "first" /\ reply' = <<>> /\ right' = right /\ right /\ id' >= 1
  BY <1>2 DEF Execute, RconInv, AuthVerdict
<1>. QED
  BY <1>5, <1>6, <1>7 DEF RconInv, AuthVerdict, AuthWire, NoNewer, RestOfReply, Beginning

LEMMA ReadFirstInv == RconInv /\ ReadFirst => RconInv'
<1>. SUFFICES ASSUME RconInv, ReadFirst PROVE RconInv'
  OBVIOUS
<1>1. /\ client = "first" /\ wire # <<>> /\ wire \in Seq(Packet) /\ wire' = Tail(wire)
      /\ reply = <<>> /\ id \in 0..LastId /\ right' = right /\ id' = id /\ torn' = torn /\ right
  BY DEF RconInv, RconTypeOK, ReadFirst, Beginning, AuthVerdict
<1>2. /\ Head(wire) = wire[1] /\ Head(wire) \in Packet /\ wire' \in Seq(Packet)
      /\ Len(wire) \in Nat /\ Len(wire) >= 1 /\ Len(wire') = Len(wire) - 1
      /\ \A i \in 1..Len(wire') : wire'[i] = wire[i + 1]
  BY <1>1, Beheaded
<1>3. ~torn => \E m \in 0..Len(wire) :
          /\ \A i \in 1..m : wire[i].id < id
          /\ \A i \in (m + 1)..Len(wire) : wire[i] = Part(id, i - m)
  BY <1>1 DEF RconInv, OldThenNew
<1>4. CASE ~torn /\ Head(wire).id = id
  <2>1. \A i \in 1..Len(wire) : wire[i] = Part(id, i)
    <3>1. PICK m \in 0..Len(wire) :
            /\ \A i \in 1..m : wire[i].id < id
            /\ \A i \in (m + 1)..Len(wire) : wire[i] = Part(id, i - m)
      BY <1>3, <1>4
    <3>2. m = 0
      <4>1. CASE m >= 1
        BY <1>1, <1>2, <1>4, <3>1, <4>1
      <4>. QED
        BY <4>1
    <3>. QED
      BY <1>1, <1>2, <3>1, <3>2
  <2>2. Head(wire).body = 1
    BY <1>1, <1>2, <2>1 DEF Part
  <2>3. client' = "more" /\ reply' = <<<<id, 1>>>>
    BY <1>1, <1>4, <2>2 DEF ReadFirst, Take
  <2>4. id \in 1..LastId /\ 1 \in 0..Parts
    BY <1>1, RconBounds DEF RconInv
  <2>5. reply' \in Seq((1..LastId) \X (0..Parts)) /\ reply' # <<>> /\ Len(reply') = 1 /\ reply'[1] = <<id, 1>>
    BY <2>3, <2>4
  <2>6. RestOfReply'
    BY <1>1, <1>2, <1>4, <2>1, <2>5 DEF RestOfReply
  <2>7. Beginning'
    BY <1>1, <2>3, <2>4, <2>5 DEF Beginning
  <2>8. RconTypeOK'
    BY <1>1, <1>2, <2>3, <2>5 DEF RconInv, RconTypeOK
  <2>. QED
    BY <1>1, <2>3, <2>6, <2>7, <2>8 DEF RconInv, AuthVerdict, AuthWire, NoNewer, OldThenNew
<1>5. CASE ~(~torn /\ Head(wire).id = id)
  <2>1. client' = "ready" /\ reply' = <<>>
    BY <1>1, <1>5 DEF ReadFirst
  <2>2. NoNewer'
    <3>. SUFFICES ASSUME ~torn, NEW i \in 1..Len(wire') PROVE wire'[i].id <= id
      BY <1>1 DEF NoNewer
    <3>1. wire'[i] = wire[i + 1] /\ i + 1 \in 1..Len(wire)
      BY <1>2
    <3>. QED
      <4>1. PICK m \in 0..Len(wire) :
              /\ \A j \in 1..m : wire[j].id < id
              /\ \A j \in (m + 1)..Len(wire) : wire[j] = Part(id, j - m)
        BY <1>3
      <4>2. CASE i + 1 <= m
        BY <1>1, <1>2, <3>1, <4>1, <4>2, OnTheWire DEF RconInv
      <4>3. CASE i + 1 > m
        <5>1. wire[i + 1] = Part(id, i + 1 - m)
          BY <1>2, <3>1, <4>1, <4>3
        <5>. QED
          BY <1>1, <3>1, <5>1, RconBounds DEF Part
      <4>. QED
        BY <1>2, <4>2, <4>3
  <2>. QED
    BY <1>1, <1>2, <2>1, <2>2
    DEF RconInv, RconTypeOK, AuthVerdict, AuthWire, OldThenNew, RestOfReply, Beginning
<1>. QED
  BY <1>4, <1>5

LEMMA ReadMoreInv == RconInv /\ ReadMore => RconInv'
<1>. SUFFICES ASSUME RconInv, ReadMore PROVE RconInv'
  OBVIOUS
<1>1. /\ client = "more" /\ wire # <<>> /\ wire \in Seq(Packet) /\ wire' = Tail(wire)
      /\ id \in 0..LastId /\ right' = right /\ id' = id /\ torn' = torn /\ client' = client /\ ~torn
      /\ reply \in Seq((1..LastId) \X (0..Parts)) /\ reply # <<>>
      /\ reply' = Append(reply, <<Head(wire).id, Head(wire).body>>)
  BY DEF RconInv, RconTypeOK, ReadMore, Beginning, AuthVerdict, Take
<1>2. /\ Head(wire) = wire[1] /\ Head(wire) \in Packet /\ wire' \in Seq(Packet)
      /\ Len(wire) \in Nat /\ Len(wire) >= 1 /\ Len(wire') = Len(wire) - 1
      /\ \A i \in 1..Len(wire') : wire'[i] = wire[i + 1]
  BY <1>1, Beheaded
<1>3. \A i \in 1..Len(wire) : wire[i] = Part(id, Len(reply) + i)
  BY <1>1 DEF RconInv, RestOfReply
<1>4. Head(wire) = Part(id, Len(reply) + 1)
  BY <1>2, <1>3
<1>5. Len(reply) + 1 \in 0..Parts
  BY <1>2, <1>4 DEF Part, Packet
<1>6. /\ \A k \in 1..Len(reply) : reply[k] = <<id, k>>
      /\ id \in 1..LastId
  BY <1>1 DEF RconInv, Beginning
<1>7. /\ reply' = Append(reply, <<id, Len(reply) + 1>>)
      /\ reply' \in Seq((1..LastId) \X (0..Parts))
      /\ Len(reply) \in Nat /\ Len(reply') = Len(reply) + 1
      /\ \A k \in 1..Len(reply') : reply'[k] = <<id, k>>
  <2>1. reply' = Append(reply, <<id, Len(reply) + 1>>)
    BY <1>1, <1>4 DEF Part
  <2>2. <<id, Len(reply) + 1>> \in (1..LastId) \X (0..Parts)
    BY <1>5, <1>6
  <2>3. /\ reply' \in Seq((1..LastId) \X (0..Parts)) /\ Len(reply') = Len(reply) + 1 /\ Len(reply) \in Nat
        /\ \A k \in 1..Len(reply) : reply'[k] = reply[k]
        /\ reply'[Len(reply) + 1] = <<id, Len(reply) + 1>>
    BY <1>1, <2>1, <2>2, AppendProperties, LenProperties
  <2>. QED
    BY <1>6, <2>1, <2>3
<1>8. RestOfReply'
  <2>. SUFFICES ASSUME NEW i \in 1..Len(wire') PROVE wire'[i] = Part(id, Len(reply') + i)
    BY <1>1 DEF RestOfReply
  <2>1. i + 1 \in 1..Len(wire) /\ Len(reply) + (i + 1) = Len(reply') + i
    BY <1>2, <1>7
  <2>. QED
    BY <1>2, <1>3, <2>1
<1>9. reply' # <<>>
  BY <1>7, EmptySeq
<1>. QED
  BY <1>1, <1>2, <1>6, <1>7, <1>8, <1>9
  DEF RconInv, RconTypeOK, AuthVerdict, AuthWire, NoNewer, OldThenNew, Beginning

LEMMA ReadLateInv == RconInv /\ ReadLate => RconInv'
<1>. SUFFICES ASSUME RconInv, ReadLate PROVE RconInv'
  OBVIOUS
<1>1. /\ client \in {"first", "more"} /\ client' = "ready" /\ torn' \in BOOLEAN /\ (~torn' => ~torn)
      /\ right' = right /\ id' = id /\ reply' = reply /\ wire' = wire
  BY DEF RconInv, RconTypeOK, ReadLate
<1>2. id \in 0..LastId /\ wire \in Seq(Packet)
  BY DEF RconInv, RconTypeOK
<1>3. NoNewer'
  <2>. SUFFICES ASSUME ~torn, NEW i \in 1..Len(wire) PROVE wire[i].id <= id
    BY <1>1, Zenon DEF NoNewer
  <2>1. CASE client = "first"
    <3>1. PICK m \in 0..Len(wire) :
            /\ \A j \in 1..m : wire[j].id < id
            /\ \A j \in (m + 1)..Len(wire) : wire[j] = Part(id, j - m)
      BY <2>1 DEF RconInv, OldThenNew
    <3>2. CASE i <= m
      BY <3>1, <3>2, OnTheWire DEF RconInv
    <3>3. CASE i > m
      <4>1. wire[i] = Part(id, i - m)
        BY <1>2, <3>1, <3>3, OnTheWire DEF RconInv
      <4>. QED
        BY <1>2, <4>1, RconBounds DEF Part
    <3>. QED
      BY <1>2, <3>1, <3>2, <3>3, OnTheWire DEF RconInv
  <2>2. CASE client = "more"
    <3>1. wire[i] = Part(id, Len(reply) + i)
      BY <2>2 DEF RconInv, RestOfReply
    <3>. QED
      BY <1>2, <3>1, RconBounds DEF Part
  <2>. QED
    BY <1>1, <2>1, <2>2
<1>. QED
  BY <1>1, <1>3 DEF RconInv, RconTypeOK, AuthVerdict, AuthWire, OldThenNew, RestOfReply, Beginning

LEMMA RconNextInv == RconInv /\ [RconNext]_rconVars => RconInv'
<1>1. RconInv /\ UNCHANGED rconVars => RconInv'
  <2>. SUFFICES ASSUME RconInv, UNCHANGED rconVars PROVE RconInv'
    OBVIOUS
  <2>. USE DEF RconInv, rconVars
  <2>1. RconTypeOK' /\ AuthVerdict' /\ AuthWire' /\ NoNewer'
    BY DEF RconTypeOK, AuthVerdict, AuthWire, NoNewer
  <2>2. OldThenNew' /\ RestOfReply' /\ Beginning'
    BY DEF OldThenNew, RestOfReply, Beginning
  <2>. QED
    BY <2>1, <2>2
<1>. QED
  BY <1>1, DialInv, AuthReadInv, AuthLateInv, ExecuteInv, ReadFirstInv, ReadMoreInv, ReadLateInv DEF RconNext

LEMMA ReplyBegins == RconInv => ReplyIsPrefix
<1>. SUFFICES ASSUME RconInv, reply # <<>>
              PROVE  /\ client = "more" => reply[1][1] = id
                     /\ reply = [k \in 1..Len(reply) |-> <<reply[1][1], k>>]
  BY DEF ReplyIsPrefix
<1>1. reply \in Seq((1..LastId) \X (0..Parts)) /\ Len(reply) \in Nat /\ Len(reply) >= 1
  BY EmptySeq, LenProperties DEF RconInv, RconTypeOK
<1>2. PICK command \in 1..LastId :
        /\ client = "more" => command = id
        /\ \A k \in 1..Len(reply) : reply[k] = <<command, k>>
  BY DEF RconInv, Beginning
<1>3. reply[1][1] = command
  BY <1>1, <1>2
<1>4. DOMAIN reply = 1..Len(reply) /\ reply = [k \in 1..Len(reply) |-> reply[k]]
  BY <1>1
<1>. QED
  BY <1>2, <1>3, <1>4

\* For any number of commands and of packets in a reply: a password is accepted or
\* rejected as the server has it, and what Execute collects is a beginning of the
\* reply to its own command (client.go: authenticate, Execute).
THEOREM RepliesAreTheirOwn == RconSpec => [](RconTypeOK /\ AuthVerdict /\ ReplyIsPrefix)
<1>1. RconSpec => []RconInv
  BY RconInitInv, RconNextInv, PTL DEF RconSpec
<1>2. RconInv => RconTypeOK /\ AuthVerdict /\ ReplyIsPrefix
  BY ReplyBegins DEF RconInv
<1>. QED
  BY <1>1, <1>2, PTL

-----------------------------------------------------------------------------
(* The parts together.                                                     *)

\* A behaviour of SmallParts is one of each part.
LEMMA PartsAreRun == Spec => AccountsSpec /\ FilesSpec /\ LogSpec /\ RconSpec
<1>1. Init => AccountsInit /\ FilesInit /\ LogInit /\ RconInit
  BY DEF Init
<1>2. [Next]_all =>
        [AccountsNext]_accounts /\ [FilesNext]_fileVars /\ [LogNext]_logVars /\ [RconNext]_rconVars
  BY DEF Next, Manage, List, Log, Control, Ask, all
<1>. QED
  BY <1>1, <1>2, PTL DEF Spec, AccountsSpec, FilesSpec, LogSpec, RconSpec

\* The type invariants of all four parts hold.
THEOREM SmallPartsTypesCorrect == Spec => []TypeOK
<1>1. AccountsTypeOK /\ FilesTypeOK /\ LogTypeOK /\ RconTypeOK => TypeOK
  BY DEF TypeOK
<1>. QED
  BY <1>1, PartsAreRun, RealmsAreKept, ListsAgreeAndHold, LogsAreKeptAndShown, RepliesAreTheirOwn, PTL

\* What the parts promise, of the composition: realms exist and the first boot
\* migrates (main.go), player lists agree and answers hold (whitelist.go), logs are
\* kept and shown in order (process.go), RCON replies are their own (client.go).
THEOREM PartsKeepTheirPromises ==
  Spec => [](/\ RealmsExist /\ Migrated
             /\ ListsAgree /\ AnswersHold
             /\ CrashLogKept /\ InOrder /\ ShownFromTheBeginning
             /\ AuthVerdict /\ ReplyIsPrefix)
  BY PartsAreRun, RealmsAreKept, ListsAgreeAndHold, LogsAreKeptAndShown, RepliesAreTheirOwn, PTL

\* The probe is a question, and so WellAsked.
LEMMA ProbeIsAsked == Spec => [](probe = <<>> \/ WellAsked(probe))
<1>. DEFINE Answerable == probe = <<>> \/ WellAsked(probe)
<1>1. Init => Answerable
  BY DEF Init
<1>2. Answerable /\ [Next]_all => Answerable'
  <2>. SUFFICES ASSUME Answerable, [Next]_all PROVE Answerable'
    OBVIOUS
  <2>1. CASE Ask
    BY <2>1, QuestionsAssumption DEF Ask
  <2>2. CASE UNCHANGED probe
    BY <2>2 DEF WellAsked
  <2>. QED
    BY <2>1, <2>2 DEF Next, Manage, List, Log, Control, all
<1>. QED
  BY <1>1, <1>2, PTL DEF Spec

\* For every file and update, every release and snapshot, every set of runtimes,
\* every log of collections and every schedule: an update is read back and leaves
\* the rest alone (properties.go), the Java that is chosen is the oldest that will
\* do (java.go), the heap that is advised would have been enough (memory.go), and
\* restarts recur as they are set (scheduler.go).
THEOREM AnswersAreRight ==
  Spec => [](UpdateIsRead /\ JavaSuits /\ HeapAdviceHelps /\ RestartsRecur)
<1>. DEFINE Right == UpdateIsRead /\ JavaSuits /\ HeapAdviceHelps /\ RestartsRecur
<1>1. probe = <<>> => Right
  BY DEF UpdateIsRead, JavaSuits, HeapAdviceHelps, RestartsRecur, Asked
<1>2. probe = <<>> \/ WellAsked(probe) => Right
  BY <1>1, UpdateIsAlwaysRead, JavaAlwaysSuits, AdviceHelps, RestartsAlwaysRecur
<1>. QED
  BY <1>2, ProbeIsAsked, PTL
=============================================================================
