------------------------------ MODULE PlayerFiles ------------------------------
(***************************************************************************)
(* whitelist.json and ops.json of one server: the handlers that read them, *)
(* change them and write them back, and the JVM, which loads both at its   *)
(* start, keeps them in memory, and writes a list when a command changes   *)
(* it.  Handlers reach it by commands on its stdin.                        *)
(***************************************************************************)
EXTENDS Naturals, Sequences, SequencesExt

CONSTANTS
  Players,
  Starts    \* bound: how often the JVM is started

Lists    == {"whitelist", "ops"}
Requests == [do : {"add", "remove"}, list : Lists, player : Players]
NoCall   == [at |-> "none"]
Reload   == [do |-> "reload", list |-> "whitelist"]
Commands == {Reload} \cup Requests

ASSUME StartsAssumption == Starts \in Nat

VARIABLES
  starts,  \* how often the JVM was started
  alive,   \* whether it runs, which is also what the status column says
  file,    \* whitelist.json and ops.json
  memory,  \* the lists of the JVM
  stdin,   \* the commands it has not handled
  call,    \* the handler at work: its request, and the status and list it read
  asked,   \* history: what the calls that were answered would have the lists be
  missed   \* history: "start", the server was started in the middle of a call that
           \* saw it stopped; "op", a new operator was sent to a JVM that ended

jvmVars  == <<starts, alive, file, memory, stdin>>
fileVars == <<jvmVars, call, asked, missed>>

FilesTypeOK ==
  /\ starts \in 0..Starts /\ alive \in BOOLEAN /\ missed \subseteq {"start", "op"}
  /\ file \in [Lists -> SUBSET Players] /\ memory \in [Lists -> SUBSET Players]
  /\ asked \in [Lists -> SUBSET Players]
  /\ stdin \in Seq(Commands) /\ Len(stdin) <= 1
  /\ call = NoCall
     \/ call \in [at : {"lookup", "write", "command"}, seen : BOOLEAN, req : Requests,
                  read : SUBSET Players]

-----------------------------------------------------------------------------
(* AddToWhitelist, RemoveFromWhitelist, AddOp, RemoveOp                    *)

\* What the JVM is told: it loads a changed whitelist, and takes a player off a
\* list by name.  With a stopped server, or on a dead one's stdin, nothing.
Send(command) == stdin' = IF alive THEN Append(stdin, command) ELSE stdin

Answer(req) ==
  /\ call' = NoCall
  /\ asked' = [asked EXCEPT ![req.list] = IF req.do = "add" THEN @ \cup {req.player}
                                          ELSE @ \ {req.player}]

\* The operator's next call comes after the JVM has handled the command of the
\* one before, at most a tick later.
Call(req) ==
  /\ call = NoCall /\ stdin = <<>>
  /\ call' = [at |-> "lookup", seen |-> alive, req |-> req, read |-> {}]
  /\ UNCHANGED <<jvmVars, asked, missed>>

Seen(at) == call # NoCall /\ call.at = at
OpsRunning == call.req.list = "ops" /\ call.req.do = "add" /\ call.seen

\* Adding asks Mojang for the player's UUID first, which may fail.
LookupFails ==
  /\ Seen("lookup") /\ call.req.do = "add" /\ ~OpsRunning
  /\ call' = NoCall
  /\ UNCHANGED <<jvmVars, asked, missed>>

\* A running server is only told of a new operator, and writes ops.json itself.
AddOpRunning ==
  /\ Seen("lookup") /\ OpsRunning
  /\ Send(call.req) /\ Answer(call.req)
  /\ missed' = IF alive THEN missed ELSE missed \cup {"op"}
  /\ UNCHANGED <<starts, alive, file, memory>>

\* A player who is listed already is not written again.
ReadList ==
  /\ Seen("lookup") /\ ~OpsRunning
  /\ LET entries == file[call.req.list]
     IN  IF call.req.do = "add" /\ call.req.player \in entries
         THEN Answer(call.req)
         ELSE /\ call' = [call EXCEPT !.at = "write", !.read = entries]
              /\ UNCHANGED asked
  /\ UNCHANGED <<jvmVars, missed>>

\* Mutated form: what was read is written back.
WriteListUnchanged ==
  /\ Seen("write")
  /\ file' = [file EXCEPT ![call.req.list] = call.read]
  /\ call' = [call EXCEPT !.at = "command"]
  /\ UNCHANGED <<starts, alive, memory, stdin, asked, missed>>

WriteList ==
  /\ Seen("write")
  /\ file' = [file EXCEPT ![call.req.list] =
                IF call.req.do = "add" THEN call.read \cup {call.req.player}
                                       ELSE call.read \ {call.req.player}]
  /\ call' = [call EXCEPT !.at = "command"]
  /\ UNCHANGED <<starts, alive, memory, stdin, asked, missed>>

\* Mutated form: a removal is only written.
CommandForAdds ==
  /\ Seen("command")
  /\ IF call.seen /\ call.req.do = "add" THEN Send(Reload) ELSE UNCHANGED stdin
  /\ Answer(call.req)
  /\ UNCHANGED <<starts, alive, file, memory, missed>>

\* The status is the one read when the call began, before the lookup.
Command ==
  /\ Seen("command")
  /\ IF call.seen /\ (call.req.do = "add" \/ call.req.player \in call.read)
     THEN Send(IF call.req.do = "add" THEN Reload ELSE call.req)
     ELSE UNCHANGED stdin
  /\ Answer(call.req)
  /\ UNCHANGED <<starts, alive, file, memory, missed>>

-----------------------------------------------------------------------------
(* The JVM                                                                 *)

Start ==
  /\ ~alive /\ alive' = TRUE
  /\ starts < Starts /\ starts' = starts + 1
  /\ memory' = file
  /\ missed' = IF call # NoCall /\ ~call.seen THEN missed \cup {"start"} ELSE missed
  /\ UNCHANGED <<file, stdin, call, asked>>

Stop ==
  /\ alive /\ alive' = FALSE
  /\ stdin' = <<>>
  /\ missed' = IF \E c \in ToSet(stdin) : c.do = "add"
               THEN missed \cup {"op"} ELSE missed
  /\ UNCHANGED <<starts, file, memory, call, asked>>

\* A list that a command changes is written as the JVM has it in memory.
Handle ==
  /\ alive /\ stdin # <<>> /\ stdin' = <<>>
  /\ LET req == stdin[1]
         has == memory[req.list]
         new == CASE req.do = "reload" -> file["whitelist"]
                  [] req.do = "add"    -> has \cup {req.player}
                  [] req.do = "remove" -> has \ {req.player}
     IN  /\ memory' = [memory EXCEPT ![req.list] = new]
         /\ file' = IF req = Reload \/ new = has THEN file ELSE [file EXCEPT ![req.list] = new]
  /\ UNCHANGED <<starts, alive, call, asked, missed>>

-----------------------------------------------------------------------------

FilesInit ==
  /\ starts = 0 /\ alive = FALSE /\ stdin = <<>>
  /\ file = [l \in Lists |-> {}] /\ memory = file /\ asked = file
  /\ call = NoCall /\ missed = {}

FilesNext ==
  \/ \E req \in Requests : Call(req)
  \/ LookupFails \/ AddOpRunning \/ ReadList \/ WriteList \/ Command
  \/ Start \/ Stop \/ Handle

FilesSpec == FilesInit /\ [][FilesNext]_fileVars

-----------------------------------------------------------------------------

Quiet == call = NoCall /\ stdin = <<>>

\* Once every call is answered and the JVM has handled its commands, it plays by
\* the lists on disk: neither a call's write nor the JVM's undoes the other.  Only
\* a start in the middle of a call that saw the server stopped may part them
\* (whitelist.go: the status is read before the lookup and the file).
ListsAgree == Quiet /\ alive /\ "start" \notin missed => memory = file

\* And the lists on disk are what the answered calls asked for, whatever starts
\* and stops came between; except after such a start, and for a new operator the
\* JVM never came to write down.
AnswersHold == Quiet /\ missed = {} => file = asked
=============================================================================
