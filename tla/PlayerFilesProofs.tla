--------------------------- MODULE PlayerFilesProofs ---------------------------
(***************************************************************************)
(* Proofs about PlayerFiles, for any players and any number of starts: the *)
(* lists in the JVM's memory, those on disk and those that the answered    *)
(* calls asked for agree whenever nothing is under way.                    *)
(***************************************************************************)
EXTENDS PlayerFiles, SequenceTheorems, TLAPS

\* The list a request makes of a list.
Applied(req, list) == IF req.do = "add" THEN list \cup {req.player} ELSE list \ {req.player}

-----------------------------------------------------------------------------
(* The inductive invariant: what holds while a call or a command is under  *)
(* way.                                                                    *)

Changes(l)   == Seen("command") /\ call.req.list = l
Told(what,l) == stdin # <<>> /\ stdin[1].do = what /\ stdin[1].list = l

\* One thing at a time: no command waits while a handler works or the JVM is down.
OneAtATime == call # NoCall \/ ~alive => stdin = <<>>

\* Who saw the server stopped and finds it running has been overtaken by a start,
\* and only who saw it stopped writes a new operator to the file.
Overtaken ==
  call # NoCall =>
    /\ alive /\ ~call.seen => "start" \in missed
    /\ call.at # "lookup" /\ call.req.do = "add" /\ call.req.list = "ops" => ~call.seen

\* A new operator is the only addition the JVM is told of; a whitelist it loads.
OnlyOps == \A c \in ToSet(stdin) : c.do = "add" => c.list = "ops"

\* A player whom the JVM is told to take off a list is off the one on disk.
Removed == \A l \in Lists : Told("remove", l) => stdin[1].player \notin file[l]

\* Between its reading and its writing a handler has the list as it is on disk.
ReadIsCurrent ==
  /\ Seen("write")   => call.read = file[call.req.list]
  /\ Seen("command") => file[call.req.list] = Applied(call.req, call.read)

\* Where memory and disk differ, what will make them agree is still to be sent, or
\* has been sent and not handled.
MemoryFollows ==
  alive /\ "start" \notin missed =>
    \A l \in Lists :
      \/ memory[l] = file[l]
      \/ Changes(l) /\ (call.req.do = "add" \/ memory[l] = call.read)
      \/ Told("reload", l)
      \/ Told("remove", l) /\ memory[l] \ {stdin[1].player} = file[l]

\* Where disk and answers differ, a call is about to be answered or the JVM is
\* about to write.
AnswersFollow ==
  missed = {} =>
    \A l \in Lists :
      IF Changes(l) THEN file[l] = Applied(call.req, asked[l])
      ELSE IF Told("add", l) THEN asked[l] = file[l] \cup {stdin[1].player}
      ELSE asked[l] = file[l]

FilesInv ==
  /\ FilesTypeOK
  /\ OneAtATime
  /\ Overtaken
  /\ OnlyOps
  /\ Removed
  /\ ReadIsCurrent
  /\ MemoryFollows
  /\ AnswersFollow

-----------------------------------------------------------------------------
(* What stdin holds.                                                       *)

LEMMA OneCommand ==
  ASSUME FilesTypeOK, stdin # <<>>
  PROVE  /\ stdin[1] \in Commands
         /\ stdin = <<stdin[1]>> /\ ToSet(stdin) = {stdin[1]}
<1>. stdin \in Seq(Commands) /\ Len(stdin) <= 1
  BY DEF FilesTypeOK
<1>1. Len(stdin) = 1
  BY EmptySeq
<1>2. stdin[1] \in Commands /\ stdin = <<stdin[1]>>
  BY <1>1
<1>3. DOMAIN stdin = {1}
  BY <1>1
<1>. QED
  BY <1>2, <1>3 DEF ToSet

LEMMA NoCommand == stdin = <<>> => ToSet(stdin) = {}
  BY DEF ToSet

\* Sending appends to an empty stdin.
LEMMA Sent ==
  ASSUME NEW command \in Commands, stdin = <<>>, Send(command)
  PROVE  /\ stdin' = IF alive THEN <<command>> ELSE <<>>
         /\ stdin' \in Seq(Commands) /\ Len(stdin') <= 1
         /\ ToSet(stdin') = IF alive THEN {command} ELSE {}
<1>1. stdin' = IF alive THEN <<command>> ELSE <<>>
  BY DEF Send
<1>2. <<command>> \in Seq(Commands) /\ Len(<<command>>) = 1
  OBVIOUS
<1>3. ToSet(<<command>>) = {command} /\ ToSet(<<>>) = {}
  BY DEF ToSet
<1>4. CASE alive
  BY <1>1, <1>2, <1>3, <1>4
<1>5. CASE ~alive
  BY <1>1, <1>3, <1>5
<1>. QED
  BY <1>4, <1>5

-----------------------------------------------------------------------------

LEMMA FilesInitInv == FilesInit => FilesInv
<1>. SUFFICES ASSUME FilesInit PROVE FilesInv
  OBVIOUS
<1>. USE DEF FilesInit, NoCall
<1>1. FilesTypeOK
  <2>0. starts \in 0..Starts
    BY StartsAssumption
  <2>3. alive \in BOOLEAN /\ missed \subseteq {"start", "op"}
    OBVIOUS
  <2>1. file \in [Lists -> SUBSET Players] /\ memory = file /\ asked = file
    OBVIOUS
  <2>2. stdin \in Seq(Commands) /\ Len(stdin) <= 1
    BY EmptySeq
  <2>. QED
    BY <2>0, <2>1, <2>2, <2>3 DEF FilesTypeOK
<1>2. OneAtATime /\ Overtaken /\ OnlyOps /\ ReadIsCurrent
  BY NoCommand DEF OneAtATime, Overtaken, OnlyOps, ReadIsCurrent, Seen
<1>3. Removed /\ MemoryFollows /\ AnswersFollow
  BY DEF Removed, MemoryFollows, AnswersFollow, Seen, Changes, Told
<1>. QED
  BY <1>1, <1>2, <1>3 DEF FilesInv

LEMMA CallInv ==
  ASSUME FilesInv, NEW req \in Requests, Call(req) PROVE FilesInv'
<1>. USE DEF FilesInv, Call, jvmVars, NoCall
<1>1. FilesTypeOK'
  BY DEF FilesTypeOK
<1>2. OneAtATime' /\ Overtaken' /\ OnlyOps' /\ ReadIsCurrent'
  BY NoCommand DEF OneAtATime, Overtaken, OnlyOps, ReadIsCurrent, Seen
<1>5. Removed'
  BY DEF Removed, OneAtATime, Told, jvmVars
<1>3. MemoryFollows'
  BY DEF MemoryFollows, Seen, Changes, Told
<1>4. AnswersFollow'
  BY DEF AnswersFollow, Seen, Changes, Told
<1>. QED
  BY <1>1, <1>2, <1>3, <1>4, <1>5

LEMMA LookupFailsInv == FilesInv /\ LookupFails => FilesInv'
<1>. SUFFICES ASSUME FilesInv, LookupFails PROVE FilesInv'
  OBVIOUS
<1>. USE DEF FilesInv, LookupFails, jvmVars, NoCall
<1>1. FilesTypeOK'
  BY DEF FilesTypeOK
<1>2. OneAtATime' /\ Overtaken' /\ OnlyOps' /\ ReadIsCurrent'
  BY NoCommand DEF OneAtATime, Overtaken, OnlyOps, ReadIsCurrent, Seen
<1>5. Removed'
  BY DEF Removed, OneAtATime, Told, jvmVars
<1>3. MemoryFollows'
  BY DEF MemoryFollows, Seen, Changes, Told
<1>4. AnswersFollow'
  BY DEF AnswersFollow, Seen, Changes, Told
<1>. QED
  BY <1>1, <1>2, <1>3, <1>4, <1>5

\* An answered call is asked for from then on.
LEMMA Answered ==
  ASSUME NEW req \in Requests, asked \in [Lists -> SUBSET Players], Answer(req)
  PROVE  /\ call' = NoCall
         /\ asked' \in [Lists -> SUBSET Players]
         /\ asked' = [asked EXCEPT ![req.list] = Applied(req, @)]
  BY DEF Answer, Applied, Requests

LEMMA AddOpRunningInv == FilesInv /\ AddOpRunning => FilesInv'
<1>. SUFFICES ASSUME FilesInv, AddOpRunning PROVE FilesInv'
  OBVIOUS
<1>. USE DEF FilesInv, AddOpRunning, Seen, NoCall
<1>0. call.req \in Requests /\ call.req \in Commands /\ stdin = <<>>
  BY DEF FilesTypeOK, OneAtATime, Commands
<1>1. FilesTypeOK'
  <2>1. stdin' \in Seq(Commands) /\ Len(stdin') <= 1
    BY <1>0, Sent
  <2>2. call' = NoCall /\ asked' \in [Lists -> SUBSET Players]
    BY <1>0, Answered DEF FilesTypeOK
  <2>. QED
    BY <2>1, <2>2 DEF FilesTypeOK
<1>2. OneAtATime' /\ Overtaken' /\ OnlyOps' /\ ReadIsCurrent'
  BY Sent DEF FilesTypeOK, OneAtATime, Overtaken, OnlyOps, ReadIsCurrent, Applied, OpsRunning, Answer, Requests, Commands
<1>5. Removed'
  <2>1. stdin' = <<>> \/ (stdin' = <<call.req>> /\ call.req.do = "add")
    BY <1>0 DEF Send, OpsRunning
  <2>. QED
    BY <2>1 DEF Removed, Told
<1>3. MemoryFollows'
  BY Sent DEF FilesTypeOK, OneAtATime, Overtaken, ReadIsCurrent, MemoryFollows, Changes, Told, Applied, OpsRunning, Requests, Commands
<1>4. AnswersFollow'
  BY Sent DEF FilesTypeOK, OneAtATime, Overtaken, OnlyOps, ReadIsCurrent, MemoryFollows, AnswersFollow, Changes, Told, Applied, OpsRunning, Answer, Requests, Commands
<1>. QED
  BY <1>1, <1>2, <1>3, <1>4, <1>5

LEMMA ReadListInv == FilesInv /\ ReadList => FilesInv'
<1>. SUFFICES ASSUME FilesInv, ReadList PROVE FilesInv'
  OBVIOUS
<1>. USE DEF FilesInv, ReadList, Seen, NoCall
<1>0. call.req \in Requests
  BY DEF FilesTypeOK
<1>1. FilesTypeOK'
  <2>1. CASE call.req.do = "add" /\ call.req.player \in file[call.req.list]
    <3>1. call' = NoCall /\ asked' \in [Lists -> SUBSET Players]
      BY <1>0, <2>1, Answered DEF FilesTypeOK
    <3>. QED
      BY <2>1, <3>1 DEF FilesTypeOK, jvmVars
  <2>2. CASE ~(call.req.do = "add" /\ call.req.player \in file[call.req.list])
    <3>1. /\ call \in [at : {"lookup", "write", "command"}, seen : BOOLEAN, req : Requests,
                      read : SUBSET Players]
          /\ file[call.req.list] \in SUBSET Players
      BY <1>0 DEF FilesTypeOK, Requests
    <3>2. call' = [call EXCEPT !.at = "write", !.read = file[call.req.list]] /\ asked' = asked
      BY <2>2
    <3>3. call' \in [at : {"lookup", "write", "command"}, seen : BOOLEAN, req : Requests,
                     read : SUBSET Players]
      BY <3>1, <3>2
    <3>. QED
      BY <3>2, <3>3 DEF FilesTypeOK, jvmVars
  <2>. QED
    BY <2>1, <2>2
<1>2. OneAtATime' /\ Overtaken' /\ OnlyOps' /\ ReadIsCurrent'
  <2>1. OneAtATime' /\ OnlyOps'
    BY NoCommand DEF OneAtATime, OnlyOps, jvmVars
  <2>2. \/ call' = NoCall
        \/ call' = [call EXCEPT !.at = "write", !.read = file[call.req.list]]
    BY DEF Answer
  <2>3. CASE call' = NoCall
    <3>1. ~(call' # NoCall)
      BY <2>3
    <3>. QED
      BY <2>1, <3>1 DEF Overtaken, ReadIsCurrent
  <2>4. CASE call' = [call EXCEPT !.at = "write", !.read = file[call.req.list]]
    <3>1. /\ call'.at = "write" /\ call'.seen = call.seen /\ call'.req = call.req
          /\ call'.read = file[call.req.list]
      BY <2>4 DEF FilesTypeOK
    <3>2. call.req.do = "add" /\ call.req.list = "ops" => ~call.seen
      BY DEF OpsRunning, FilesTypeOK
    <3>3. missed' = missed /\ file' = file /\ alive' = alive
      BY DEF jvmVars
    <3>4. Overtaken'
      BY <3>1, <3>2, <3>3 DEF Overtaken
    <3>5. ReadIsCurrent'
      BY <3>1, <3>3 DEF ReadIsCurrent
    <3>. QED
      BY <2>1, <3>4, <3>5
  <2>. QED
    BY <2>1, <2>2, <2>3, <2>4
<1>5. Removed'
  BY DEF Removed, OneAtATime, Told, jvmVars
<1>3. MemoryFollows'
  BY DEF FilesTypeOK, OneAtATime, Overtaken, ReadIsCurrent, MemoryFollows, Changes, Told, Applied, jvmVars
<1>4. AnswersFollow'
  <2>1. CASE call.req.do = "add" /\ call.req.player \in file[call.req.list]
    <3>1. asked' = [asked EXCEPT ![call.req.list] = @ \cup {call.req.player}]
      BY <2>1 DEF Answer
    <3>. QED
      BY <2>1, <3>1 DEF FilesTypeOK, OneAtATime, AnswersFollow, Changes, Told, jvmVars, Answer
  <2>2. CASE ~(call.req.do = "add" /\ call.req.player \in file[call.req.list])
    BY <2>2 DEF FilesTypeOK, OneAtATime, AnswersFollow, Changes, Told, jvmVars, Applied
  <2>. QED
    BY <2>1, <2>2
<1>. QED
  BY <1>1, <1>2, <1>3, <1>4, <1>5

LEMMA WriteListInv == FilesInv /\ WriteList => FilesInv'
<1>. SUFFICES ASSUME FilesInv, WriteList PROVE FilesInv'
  OBVIOUS
<1>. USE DEF FilesInv, WriteList, Seen, NoCall
<1>1. FilesTypeOK'
  BY DEF FilesTypeOK, Requests
<1>2. OneAtATime' /\ Overtaken' /\ OnlyOps' /\ ReadIsCurrent'
  BY NoCommand DEF FilesTypeOK, OneAtATime, Overtaken, OnlyOps, ReadIsCurrent, Applied, Requests
<1>5. Removed'
  BY DEF Removed, OneAtATime, Told, jvmVars
<1>3. MemoryFollows'
  BY DEF FilesTypeOK, OneAtATime, Overtaken, ReadIsCurrent, MemoryFollows, Changes, Told, Applied
<1>4. AnswersFollow'
  <2>1. /\ stdin = <<>> /\ stdin' = <<>> /\ asked' = asked /\ missed' = missed
        /\ call'.at = "command" /\ call'.req = call.req
    BY DEF OneAtATime, FilesTypeOK
  <2>2. /\ call.req.list \in Lists
        /\ file' = [file EXCEPT ![call.req.list] = Applied(call.req, file[call.req.list])]
    BY DEF FilesTypeOK, ReadIsCurrent, Applied, Requests
  <2>3. missed = {} => \A l \in Lists : asked[l] = file[l]
    BY <2>1 DEF AnswersFollow, Changes, Told
  <2>4. ASSUME missed = {}, NEW l \in Lists
        PROVE  IF call.req.list = l THEN file'[l] = Applied(call.req, asked[l])
                                    ELSE asked[l] = file'[l]
    <3>1. CASE call.req.list = l
      <4>1. file'[l] = Applied(call.req, file[l]) /\ file[l] = asked[l]
        BY <2>2, <2>3, <2>4, <3>1 DEF FilesTypeOK
      <4>. QED
        BY <3>1, <4>1
    <3>2. CASE call.req.list # l
      BY <2>2, <2>3, <2>4, <3>2 DEF FilesTypeOK
    <3>. QED
      BY <3>1, <3>2
  <2>5. \A l \in Lists : (Changes(l)' <=> call.req.list = l) /\ ~Told("add", l)'
    BY <2>1 DEF Changes, Told
  <2>6. \A l \in Lists : Applied(call'.req, asked[l]) = Applied(call.req, asked[l])
    BY <2>1
  <2>. QED
    BY <2>1, <2>4, <2>5, <2>6 DEF AnswersFollow, Applied
<1>. QED
  BY <1>1, <1>2, <1>3, <1>4, <1>5

LEMMA CommandInv == FilesInv /\ Command => FilesInv'
<1>. SUFFICES ASSUME FilesInv, Command PROVE FilesInv'
  OBVIOUS
<1>. USE DEF FilesInv, Command, Seen, NoCall
<1>0. call.req \in Requests /\ call.req \in Commands /\ Reload \in Commands /\ stdin = <<>>
  BY DEF FilesTypeOK, OneAtATime, Commands
<1>1. FilesTypeOK'
  <2>1. stdin' \in Seq(Commands) /\ Len(stdin') <= 1
    BY <1>0, Sent DEF FilesTypeOK
  <2>2. call' = NoCall /\ asked' \in [Lists -> SUBSET Players]
    BY <1>0, Answered DEF FilesTypeOK
  <2>. QED
    BY <2>1, <2>2 DEF FilesTypeOK
<1>2. call' = NoCall /\ alive' = alive /\ file' = file /\ memory' = memory /\ missed' = missed
  BY DEF Answer
<1>3. OneAtATime'
  <2>1. CASE alive
    BY <1>2, <2>1 DEF OneAtATime
  <2>2. CASE ~alive
    BY <1>0, <1>2, <2>2 DEF OneAtATime, Send
  <2>. QED
    BY <2>1, <2>2
<1>4. OnlyOps'
  <2>1. \/ stdin' = stdin
        \/ Send(Reload)
        \/ call.req.do = "remove" /\ Send(call.req)
    BY <1>0 DEF Requests
  <2>2. ToSet(stdin') \subseteq {Reload} \cup {r \in Requests : r.do = "remove"}
    <3>1. CASE stdin' = stdin
      BY <1>0, <3>1, NoCommand
    <3>2. CASE Send(Reload)
      BY <1>0, <3>2, Sent
    <3>3. CASE call.req.do = "remove" /\ Send(call.req)
      BY <1>0, <3>3, Sent
    <3>. QED
      BY <2>1, <3>1, <3>2, <3>3
  <2>. QED
    BY <2>2 DEF OnlyOps, Reload
<1>5. Overtaken' /\ ReadIsCurrent'
  BY <1>2 DEF Overtaken, ReadIsCurrent
<1>6. MemoryFollows'
  <2>. SUFFICES ASSUME alive, "start" \notin missed, NEW l \in Lists
                PROVE  \/ memory[l] = file[l]
                       \/ Told("reload", l)'
                       \/ Told("remove", l)' /\ memory[l] \ {stdin'[1].player} = file[l]
    BY <1>2 DEF MemoryFollows
  <2>1. call.seen
    BY DEF Overtaken, FilesTypeOK
  <2>2. \/ memory[l] = file[l]
        \/ call.req.list = l /\ (call.req.do = "add" \/ memory[l] = call.read)
    BY <1>0 DEF MemoryFollows, Changes, Told
  <2>3. CASE call.req.list = l /\ call.req.do = "add"
    <3>1. call.req.list = "whitelist"
      BY <2>1, <2>3 DEF Overtaken, Requests, Lists
    <3>2. stdin' = <<Reload>>
      BY <1>0, <2>1, <2>3, Sent
    <3>. QED
      BY <2>3, <3>1, <3>2 DEF Told, Reload
  <2>4. CASE call.req.list = l /\ call.req.do = "remove" /\ memory[l] = call.read
    <3>1. file[l] = call.read \ {call.req.player}
      BY <2>4 DEF ReadIsCurrent, Applied
    <3>2. CASE call.req.player \in call.read
      <4>1. stdin' = <<call.req>>
        BY <1>0, <2>1, <2>4, <3>2, Sent
      <4>. QED
        BY <2>4, <3>1, <4>1 DEF Told
    <3>3. CASE call.req.player \notin call.read
      BY <2>4, <3>1, <3>3
    <3>. QED
      BY <3>2, <3>3
  <2>. QED
    BY <1>0, <2>2, <2>3, <2>4 DEF Requests
<1>7. AnswersFollow'
  <2>1. asked' = [asked EXCEPT ![call.req.list] = Applied(call.req, @)]
    BY <1>0, Answered DEF FilesTypeOK
  <2>2. \A l \in Lists : ~Told("add", l)'
    <3>1. \/ stdin' = <<>>
          \/ Send(Reload) /\ stdin' = <<Reload>>
          \/ call.req.do # "add" /\ Send(call.req) /\ stdin' = <<call.req>>
      BY <1>0 DEF Send
    <3>2. Reload.do # "add"
      BY DEF Reload
    <3>. QED
      BY <3>1, <3>2 DEF Told
  <2>3. missed = {} => \A l \in Lists : asked'[l] = file[l]
    BY <1>0, <2>1 DEF AnswersFollow, Changes, Told, FilesTypeOK
  <2>. QED
    BY <1>2, <2>2, <2>3 DEF AnswersFollow, Changes
<1>8. Removed'
  <2>1. \/ stdin' = <<>>
        \/ Send(Reload) /\ stdin' = <<Reload>>
        \/ call.req.do = "remove" /\ stdin' = <<call.req>>
    BY <1>0 DEF Send, Requests
  <2>2. Reload.do # "remove"
    BY DEF Reload
  <2>3. call.req.do = "remove" => call.req.player \notin file[call.req.list]
    BY DEF ReadIsCurrent, Applied
  <2>. QED
    BY <1>2, <2>1, <2>2, <2>3 DEF Removed, Told
<1>. QED
  BY <1>1, <1>3, <1>4, <1>5, <1>6, <1>7, <1>8

LEMMA StartInv == FilesInv /\ Start => FilesInv'
<1>. SUFFICES ASSUME FilesInv, Start PROVE FilesInv'
  OBVIOUS
<1>. USE DEF FilesInv, Start, Seen, NoCall
<1>1. FilesTypeOK'
  BY StartsAssumption DEF FilesTypeOK
<1>2. OneAtATime' /\ Overtaken' /\ OnlyOps' /\ ReadIsCurrent'
  BY NoCommand DEF FilesTypeOK, OneAtATime, Overtaken, OnlyOps, ReadIsCurrent, Applied
<1>5. Removed'
  BY DEF Removed, OneAtATime, Told, jvmVars
<1>3. MemoryFollows'
  BY DEF FilesTypeOK, OneAtATime, Overtaken, ReadIsCurrent, MemoryFollows, Changes, Told, Applied
<1>4. AnswersFollow'
  BY DEF FilesTypeOK, OneAtATime, Overtaken, OnlyOps, ReadIsCurrent, MemoryFollows, AnswersFollow, Changes, Told, Applied
<1>. QED
  BY <1>1, <1>2, <1>3, <1>4, <1>5

LEMMA StopInv == FilesInv /\ Stop => FilesInv'
<1>. SUFFICES ASSUME FilesInv, Stop PROVE FilesInv'
  OBVIOUS
<1>. USE DEF FilesInv, Stop, Seen, NoCall
<1>1. FilesTypeOK'
  <2>1. stdin' \in Seq(Commands) /\ Len(stdin') <= 1
    BY EmptySeq
  <2>. QED
    BY <2>1 DEF FilesTypeOK
<1>2. OneAtATime' /\ Overtaken' /\ OnlyOps' /\ ReadIsCurrent'
  <2>1. ToSet(stdin') = {}
    BY DEF ToSet
  <2>. QED
    BY <2>1 DEF OneAtATime, Overtaken, OnlyOps, ReadIsCurrent
<1>5. Removed'
  BY DEF Removed, OneAtATime, Told, jvmVars
<1>3. MemoryFollows'
  BY DEF FilesTypeOK, OneAtATime, Overtaken, ReadIsCurrent, MemoryFollows, Changes, Told, Applied
<1>4. AnswersFollow'
  BY OneCommand DEF FilesTypeOK, OneAtATime, Overtaken, OnlyOps, ReadIsCurrent, MemoryFollows, AnswersFollow, Changes, Told, Applied
<1>. QED
  BY <1>1, <1>2, <1>3, <1>4, <1>5

LEMMA HandleInv == FilesInv /\ Handle => FilesInv'
<1>. SUFFICES ASSUME FilesInv, Handle PROVE FilesInv'
  OBVIOUS
<1>. USE DEF FilesInv, Handle, Seen, NoCall
<1>0. stdin[1] \in Commands /\ stdin = <<stdin[1]>> /\ call = NoCall
  BY OneCommand DEF OneAtATime
<1>1. FilesTypeOK'
  <2>1. stdin' \in Seq(Commands) /\ Len(stdin') <= 1
    BY EmptySeq
  <2>2. file' \in [Lists -> SUBSET Players] /\ memory' \in [Lists -> SUBSET Players]
    BY <1>0 DEF FilesTypeOK, Commands, Requests, Reload, Lists
  <2>. QED
    BY <2>1, <2>2 DEF FilesTypeOK
<1>2. OneAtATime' /\ Overtaken' /\ OnlyOps' /\ ReadIsCurrent'
  <2>1. ToSet(stdin') = {}
    BY DEF ToSet
  <2>. QED
    BY <1>0, <2>1 DEF OneAtATime, Overtaken, OnlyOps, ReadIsCurrent
<1>3. \A l \in Lists : ~Changes(l) /\ ~Changes(l)' /\ \A what \in {"add", "remove", "reload"} : ~Told(what, l)'
  BY <1>0 DEF Changes, Told
<1>4. MemoryFollows' /\ AnswersFollow'
  <2>. SUFFICES ASSUME NEW l \in Lists
                PROVE  /\ alive /\ "start" \notin missed => memory'[l] = file'[l]
                       /\ missed = {} => asked[l] = file'[l]
    BY <1>3 DEF MemoryFollows, AnswersFollow
  <2>a. alive /\ "start" \notin missed =>
          \/ memory[l] = file[l]
          \/ Told("reload", l)
          \/ Told("remove", l) /\ memory[l] \ {stdin[1].player} = file[l]
    BY <1>3 DEF MemoryFollows
  <2>b. missed = {} =>
          IF Told("add", l) THEN asked[l] = file[l] \cup {stdin[1].player} ELSE asked[l] = file[l]
    BY <1>3 DEF AnswersFollow
  <2>c. file \in [Lists -> SUBSET Players] /\ memory \in [Lists -> SUBSET Players]
    BY DEF FilesTypeOK
  <2>d. Told("remove", l) => stdin[1].player \notin file[l]
    BY DEF Removed
  <2>1. CASE stdin[1] = Reload
    BY <2>1, <2>a, <2>b, <2>c DEF Told, Reload, Lists
  <2>2. CASE stdin[1] \in Requests /\ stdin[1].do = "add"
    <3>1. stdin[1].list = "ops"
      BY <2>2, OneCommand DEF OnlyOps
    <3>2. ~Told("reload", l) /\ ~Told("remove", l) /\ (Told("add", l) <=> l = "ops") /\ stdin[1] # Reload
      BY <2>2, <3>1 DEF Told, Reload
    <3>3. memory' = [memory EXCEPT !["ops"] = memory["ops"] \cup {stdin[1].player}]
      BY <2>2, <3>1
    <3>4. file' = IF memory["ops"] \cup {stdin[1].player} = memory["ops"] THEN file
                  ELSE [file EXCEPT !["ops"] = memory["ops"] \cup {stdin[1].player}]
      BY <2>2, <3>1, <3>2
    <3>5. alive
      OBVIOUS
    <3>. HIDE DEF FilesInv, Handle, Seen
    <3>6. CASE l = "ops"
      <4>1. file'[l] = IF memory[l] \cup {stdin[1].player} = memory[l] THEN file[l]
                       ELSE memory[l] \cup {stdin[1].player}
        BY <3>4, <3>6, <2>c
      <4>2. memory'[l] = memory[l] \cup {stdin[1].player}
        BY <3>3, <3>6, <2>c
      <4>. QED
        BY <3>2, <3>5, <3>6, <4>1, <4>2, <2>a, <2>b
    <3>7. CASE l # "ops"
      BY <3>2, <3>3, <3>4, <3>7, <2>a, <2>b, <2>c
    <3>. QED
      BY <3>6, <3>7
  <2>3. CASE stdin[1] \in Requests /\ stdin[1].do = "remove"
    <3>. DEFINE k == stdin[1].list
                has == memory[k]
                new == has \ {stdin[1].player}
    <3>1. k \in Lists /\ stdin[1] # Reload /\ ~Told("reload", l) /\ ~Told("add", l) /\ (Told("remove", l) <=> l = k)
      BY <2>3 DEF Told, Reload, Requests
    <3>2. memory' = [memory EXCEPT ![k] = new]
      BY <2>3
    <3>3. file' = IF new = has THEN file ELSE [file EXCEPT ![k] = new]
      BY <2>3, <3>1
    <3>4. alive
      OBVIOUS
    <3>. HIDE DEF FilesInv, Handle, Seen
    <3>5. CASE l = k
      <4>1. file'[l] = IF new = has THEN file[l] ELSE new
        BY <3>1, <3>3, <3>5, <2>c
      <4>2. memory'[l] = memory[l] \ {stdin[1].player} /\ new = memory[l] \ {stdin[1].player} /\ has = memory[l]
        BY <3>1, <3>2, <3>5, <2>c
      <4>. HIDE DEF k, has, new
      <4>. QED
        BY <3>1, <3>4, <3>5, <4>1, <4>2, <2>a, <2>b, <2>d
    <3>6. CASE l # k
      BY <3>1, <3>2, <3>3, <3>6, <2>a, <2>b, <2>c
    <3>. QED
      BY <3>5, <3>6
  <2>. QED
    BY <1>0, <2>1, <2>2, <2>3 DEF Commands, Requests
<1>5. Removed'
  BY <1>3 DEF Removed
<1>. QED
  BY <1>1, <1>2, <1>4, <1>5

LEMMA FilesNextInv == FilesInv /\ [FilesNext]_fileVars => FilesInv'
<1>. SUFFICES ASSUME FilesInv, [FilesNext]_fileVars PROVE FilesInv'
  OBVIOUS
<1>1. CASE UNCHANGED fileVars
  BY <1>1 DEF FilesInv, FilesTypeOK, OneAtATime, Overtaken, OnlyOps, Removed, ReadIsCurrent, MemoryFollows,
              AnswersFollow, Seen, Changes, Told, Applied, fileVars, jvmVars
<1>2. CASE FilesNext
  BY <1>2, CallInv, LookupFailsInv, AddOpRunningInv, ReadListInv, WriteListInv, CommandInv,
     StartInv, StopInv, HandleInv DEF FilesNext
<1>. QED
  BY <1>1, <1>2

-----------------------------------------------------------------------------

\* What FilesInv says of a quiet moment.
LEMMA QuietFiles == FilesInv => ListsAgree /\ AnswersHold
<1>. SUFFICES ASSUME FilesInv, Quiet
              PROVE  /\ alive /\ "start" \notin missed => memory = file
                     /\ missed = {} => file = asked
  BY DEF ListsAgree, AnswersHold
<1>1. \A l \in Lists : ~Changes(l) /\ \A what \in {"add", "remove", "reload"} : ~Told(what, l)
  BY DEF Quiet, Changes, Seen, Told
<1>2. /\ alive /\ "start" \notin missed => \A l \in Lists : memory[l] = file[l]
      /\ missed = {} => \A l \in Lists : file[l] = asked[l]
  BY <1>1 DEF FilesInv, MemoryFollows, AnswersFollow
<1>3. /\ file \in [Lists -> SUBSET Players] /\ memory \in [Lists -> SUBSET Players]
      /\ asked \in [Lists -> SUBSET Players]
  BY DEF FilesInv, FilesTypeOK
<1>. QED
  BY <1>2, <1>3

\* For any players and any number of starts, the JVM's lists, those on disk and
\* those that the answered calls asked for are the same ones in a quiet moment
\* (whitelist.go: AddToWhitelist, RemoveFromWhitelist, AddOp, RemoveOp).
THEOREM ListsAgreeAndHold == FilesSpec => [](FilesTypeOK /\ ListsAgree /\ AnswersHold)
<1>1. FilesSpec => []FilesInv
  BY FilesInitInv, FilesNextInv, PTL DEF FilesSpec
<1>2. FilesInv => FilesTypeOK /\ ListsAgree /\ AnswersHold
  BY QuietFiles DEF FilesInv
<1>. QED
  BY <1>1, <1>2, PTL
=============================================================================
