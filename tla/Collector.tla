------------------------------- MODULE Collector -------------------------------
(***************************************************************************)
(* The metrics collector of one server: a loop per start, cancelled by the *)
(* next start or by a stop, that samples the JVM and hands the sample to   *)
(* the websocket hub.                                                      *)
(***************************************************************************)
EXTENDS Naturals

CONSTANTS
  Loops,     \* the goroutines of collectLoop, reused once they have returned
  QueueCap,  \* the capacity of Hub.broadcast
  None

VARIABLES
  up,         \* whether the JVM runs
  queue,      \* Hub.broadcast
  cancels,    \* the loop that Collector.cancels can cancel
  cancelled,  \* the loops whose context is cancelled
  loop,       \* where each loop is
  owed        \* the calls its server's start and end still owe the collector

vars == <<up, queue, cancels, cancelled, loop, owed>>

TypeOK ==
  /\ queue \in 0..QueueCap
  /\ cancels \in Loops \cup {None}
  /\ cancelled \subseteq Loops
  /\ loop \in [Loops -> {"none", "sample", "broadcast", "wait"}]
  /\ owed \subseteq {"start", "stop"}

\* StartServer launches the JVM and owes StartCollecting; the monitor owes
\* StopCollecting once it has waited for the exit.  Neither waits for the other.
Owe(call) ==
  /\ call \notin owed /\ owed' = owed \cup {call}
  /\ UNCHANGED <<cancels, cancelled, loop>>
Launched == Owe("start")
Exited   == Owe("stop")

\* Mutated form: the loop of the start before is left alone.
StartCollectingTwice(l) ==
  /\ "start" \in owed /\ loop[l] = "none"
  /\ cancelled' = cancelled \ {l}
  /\ cancels' = l
  /\ loop' = [loop EXCEPT ![l] = "sample"]
  /\ owed' = owed \ {"start"}
  /\ UNCHANGED <<up, queue>>

StartCollecting(l) ==
  /\ "start" \in owed /\ loop[l] = "none"
  /\ cancelled' = (cancelled \cup {cancels}) \ {None, l}
  /\ cancels' = l
  /\ loop' = [loop EXCEPT ![l] = "sample"]
  /\ owed' = owed \ {"start"}
  /\ UNCHANGED <<up, queue>>

\* The monitor's call after the exit, and that of a StopServer before it.
StopCollecting(caller) ==
  /\ IF caller = "monitor" THEN "stop" \in owed ELSE up
  /\ cancelled' = (cancelled \cup {cancels}) \ {None}
  /\ cancels' = None
  /\ owed' = IF caller = "monitor" THEN owed \ {"stop"} ELSE owed
  /\ UNCHANGED <<up, queue, loop>>

-----------------------------------------------------------------------------
(* collectLoop and collect                                                 *)

Step(l, next) == loop' = [loop EXCEPT ![l] = next]

\* A sample is kept, inserted and, whether or not that succeeds, broadcast; when
\* the loop's own process is gone there is nothing to sample.
Sample(l) ==
  /\ loop[l] = "sample"
  /\ Step(l, "wait") \/ (up /\ Step(l, "broadcast"))
  /\ UNCHANGED <<up, queue, cancels, cancelled, owed>>

\* Hub.Broadcast waits for room in the hub's channel.
Broadcast(l) ==
  /\ loop[l] = "broadcast" /\ queue < QueueCap
  /\ queue' = queue + 1
  /\ Step(l, "wait")
  /\ UNCHANGED <<up, cancels, cancelled, owed>>

\* The ticker fires; select may prefer it to a context that is done.
Tick(l) ==
  /\ loop[l] = "wait" /\ Step(l, "sample")
  /\ UNCHANGED <<up, queue, cancels, cancelled, owed>>

Return(l) ==
  /\ loop[l] = "wait" /\ l \in cancelled
  /\ Step(l, "none")
  /\ UNCHANGED <<up, queue, cancels, cancelled, owed>>

Calls ==
  \/ \E l \in Loops : StartCollecting(l)
  \/ \E caller \in {"monitor", "StopServer"} : StopCollecting(caller)

Init ==
  /\ cancels = None /\ cancelled = {}
  /\ loop = [l \in Loops |-> "none"] /\ owed = {}

Next == Calls \/ \E l \in Loops : Sample(l) \/ Broadcast(l) \/ Tick(l) \/ Return(l)

\* Those that wait for room in a channel get it in turn; the ticker of a cancelled
\* loop loses against its context in the end.
Fairness ==
  \A l \in Loops : WF_vars(Sample(l)) /\ SF_vars(Broadcast(l)) /\ SF_vars(Return(l))

-----------------------------------------------------------------------------

\* At most one loop is not cancelled, and it is the one that the next start or
\* stop will cancel: starts and the stops of late monitors leave no loop behind
\* that nothing can end (collector.go: StartCollecting, StopCollecting).
NoLoopLost == \A l \in Loops : loop[l] # "none" /\ l \notin cancelled => cancels = l

\* A cancelled loop returns, even in the middle of a collection whose message
\* has to wait for the hub and the hub for its clients.
CancelledReturns == \A l \in Loops : (l \in cancelled) ~> (loop[l] = "none" \/ l \notin cancelled)
=============================================================================
