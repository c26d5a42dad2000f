------------------------------ MODULE ConsoleLog ------------------------------
(***************************************************************************)
(* What a server prints, from its pipe to its console.log, one file a run, *)
(* and from there to a viewer that follows the running server or replays   *)
(* the log of a stopped one.                                               *)
(*                                                                         *)
(* A line is <<run, n>>, the n-th of its run, and all lines are of one     *)
(* length: a position in a file is a number of lines.                      *)
(***************************************************************************)
EXTENDS Naturals, Sequences, SequencesExt

CONSTANTS
  Runs,        \* bound: how often the server is started
  Lines,       \* bound: how many lines it prints in a run
  HistoryCap,  \* how many lines a replay keeps (10,000 in the code)
  TailCap      \* the capacity of the channel of TailLogs (100 in the code)

ASSUME LogBounds == {Runs, Lines, HistoryCap, TailCap} \subseteq Nat \ {0}

VARIABLES
  run,      \* the run that is on, or was the last
  jvm,      \* "down"; "launched" and "rotated" while captureOutput begins; "up"
  printed,  \* how many lines it has printed
  pipe,     \* those captureOutput has not written yet
  log,      \* per run, the file that its captureOutput made
  names,    \* the runs whose files console.log and console.log.1 are, 0 for none
  view      \* the viewer: what it does, the file it has open, how far it has read
            \* that, what it has not sent yet and has sent, and whether a line was
            \* skipped or the log rotated under it

server  == <<run, jvm, printed, pipe, log, names>>
logVars == <<server, view>>

Line  == (1..Runs) \X (1..Lines)
Blank == [at |-> "idle", file |-> 0, pos |-> 0, ch |-> <<>>, sent |-> <<>>, whole |-> TRUE]

LogTypeOK ==
  /\ run \in 0..Runs /\ printed \in 0..Lines
  /\ jvm \in {"down", "launched", "rotated", "up"}
  /\ pipe \in Seq(Line) /\ log \in [1..Runs -> Seq(Line)]
  /\ names \in [console : 0..Runs, previous : 0..Runs]
  /\ view \in [at : {"idle", "tail", "last"}, file : 0..Runs, pos : 0..Lines,
               ch : Seq(Line), sent : Seq(Line), whole : BOOLEAN]
  /\ Len(view.ch) <= IF view.at = "tail" THEN TailCap ELSE Lines

-----------------------------------------------------------------------------
(* captureOutput                                                           *)

\* Seconds lie between an exit and the next start: the capture before has ended.
Launch ==
  /\ jvm = "down" /\ run < Runs
  /\ run' = run + 1 /\ printed' = 0 /\ pipe' = <<>> /\ jvm' = "launched"
  /\ UNCHANGED <<log, names, view>>

PrintLine ==
  /\ jvm # "down" /\ printed < Lines
  /\ printed' = printed + 1
  /\ pipe' = Append(pipe, <<run, printed'>>)
  /\ UNCHANGED <<run, jvm, log, names, view>>

\* Mutated form: the log of the run before is not put aside.
RotateNever ==
  /\ jvm = "launched" /\ jvm' = "rotated"
  /\ UNCHANGED <<run, printed, pipe, log, names, view>>

\* Until the new file is made there is no console.log.  An empty one stays, and
\* the new run goes on in it.
RotateConsoleLog ==
  /\ jvm = "launched" /\ jvm' = "rotated"
  /\ names' = IF names.console # 0 /\ log[names.console] # <<>>
              THEN [console |-> 0, previous |-> names.console] ELSE names
  /\ UNCHANGED <<run, printed, pipe, log, view>>

OpenLog ==
  /\ jvm = "rotated" /\ jvm' = "up"
  /\ names' = [names EXCEPT !.console = IF @ = 0 THEN run ELSE @]
  /\ UNCHANGED <<run, printed, pipe, log, view>>

CopyLine ==
  /\ jvm = "up" /\ pipe # <<>>
  /\ log' = [log EXCEPT ![names.console] = Append(@, Head(pipe))]
  /\ pipe' = Tail(pipe)
  /\ UNCHANGED <<run, jvm, printed, names, view>>

\* The JVM exits and the monitor's Wait closes the pipes: what was not read is
\* lost.  No JVM is as fast as captureOutput is to open its file.
Exit ==
  /\ jvm = "up" /\ pipe' = <<>> /\ jvm' = "down"
  /\ UNCHANGED <<run, printed, log, names, view>>

-----------------------------------------------------------------------------
(* TailLogs, ReadHistoricalLogs and the feeder of client.go                *)

\* consoleLogPath: without a line in console.log the viewer is given Minecraft's
\* own latest.log, which is not modelled.
HasConsoleLog == names.console # 0 /\ log[names.console] # <<>>

\* Mutated form: the tail begins with what is printed next.
TailFromEnd ==
  /\ view.at = "idle" /\ jvm # "down" /\ HasConsoleLog
  /\ view' = [Blank EXCEPT !.at = "tail", !.file = names.console,
                           !.pos = Len(log[names.console])]
  /\ UNCHANGED server

TailStart ==
  /\ view.at = "idle" /\ jvm # "down" /\ HasConsoleLog
  /\ view' = [Blank EXCEPT !.at = "tail", !.file = names.console]
  /\ UNCHANGED server

\* Mutated form: the channel has no bound.
TailReadUnbounded ==
  /\ view.at = "tail" /\ view.pos < Len(log[view.file])
  /\ view' = [view EXCEPT !.pos = @ + 1, !.ch = Append(@, log[view.file][view.pos + 1])]
  /\ UNCHANGED server

TailRead ==
  /\ view.at = "tail" /\ view.pos < Len(log[view.file]) /\ Len(view.ch) < TailCap
  /\ view' = [view EXCEPT !.pos = @ + 1, !.ch = Append(@, log[view.file][view.pos + 1])]
  /\ UNCHANGED server

\* Mutated form: the file is read again from its beginning.
TailReopenFromStart ==
  /\ view.at = "tail" /\ view.pos >= Len(log[view.file])
  /\ names.console # 0
  /\ view' = [view EXCEPT !.file = names.console, !.pos = 0,
                          !.whole = @ /\ view.file = names.console]
  /\ UNCHANGED server

\* At the end of what it has open the tail opens console.log again, at the same
\* position, even when it is the log of the next run; or finds none and ends.
TailReopen ==
  /\ view.at = "tail" /\ view.pos >= Len(log[view.file])
  /\ view' = IF names.console = 0 THEN [view EXCEPT !.at = "last"]
             ELSE [view EXCEPT !.file = names.console,
                               !.whole = @ /\ view.file = names.console]
  /\ UNCHANGED server

\* A stopped server's log is read as a whole, and its last lines are kept.
Replay ==
  /\ view.at = "idle" /\ jvm = "down" /\ HasConsoleLog
  /\ LET lines == log[names.console]
         n     == Len(lines)
     IN  view' = [Blank EXCEPT !.at = "last", !.file = names.console, !.pos = n,
                    !.ch = SubSeq(lines, IF n > HistoryCap THEN n - HistoryCap + 1 ELSE 1, n)]
  /\ UNCHANGED server

\* sendMessage skips a line when the client's buffer is full.
SendLine ==
  /\ view.ch # <<>>
  /\ \E skip \in BOOLEAN :
       view' = [view EXCEPT !.ch    = Tail(@),
                            !.sent  = IF skip THEN @ ELSE Append(@, Head(view.ch)),
                            !.whole = @ /\ ~skip]
  /\ UNCHANGED server

Disconnect == view.at # "idle" /\ view' = Blank /\ UNCHANGED server

-----------------------------------------------------------------------------

LogInit ==
  /\ run = 0 /\ jvm = "down" /\ printed = 0 /\ pipe = <<>>
  /\ log = [r \in 1..Runs |-> <<>>]
  /\ names = [console |-> 0, previous |-> 0]
  /\ view = Blank

LogNext ==
  \/ Launch \/ PrintLine \/ RotateConsoleLog \/ OpenLog \/ CopyLine \/ Exit
  \/ TailStart \/ TailRead \/ TailReopen \/ Replay \/ SendLine \/ Disconnect

LogSpec == LogInit /\ [][LogNext]_logVars

-----------------------------------------------------------------------------

Before(a, b) == a[1] < b[1] \/ (a[1] = b[1] /\ a[2] < b[2])

\* A viewer sees lines in the order they were printed and none twice, however the
\* log is rotated and opened again while it watches (process.go: TailLogs).
InOrder ==
  \A i \in 1..Len(view.sent), j \in 1..Len(view.sent) :
    i < j => Before(view.sent[i], view.sent[j])

\* A viewer whose buffer never filled, on a log nobody rotated, has been shown the
\* file from its first line to where it reads now; of a replay, the file's end.
ShownFromTheBeginning ==
  view.at = "tail" /\ view.whole => view.sent \o view.ch = SubSeq(log[view.file], 1, view.pos)

\* While a run is captured, console.log has lines of that run alone, and if a run
\* before it left any, console.log.1 is what the last of them printed, so that a
\* crash can be investigated after the restart (process.go: rotateConsoleLog).
CrashLogKept ==
  LET RunsIn(f) == {l[1] : l \in ToSet(log[f])}
      earlier   == {r \in 1..(run - 1) : \E f \in 1..Runs : r \in RunsIn(f)}
  IN  jvm = "up" =>
        /\ RunsIn(names.console) \subseteq {run}
        /\ earlier # {} =>
             /\ names.previous # 0
             /\ RunsIn(names.previous) = {CHOOSE r \in earlier : \A q \in earlier : q <= r}
=============================================================================
