----------------------------- MODULE Observability -----------------------------
(***************************************************************************)
(* The console and the collector of one server together: the loops put     *)
(* their messages into the channel the hub takes them from, and both follow *)
(* the server's JVM.                                                       *)
(***************************************************************************)
EXTENDS Console

CONSTANTS Loops, None

ASSUME LoopsAssumption == None \notin Loops

VARIABLES up, cancels, cancelled, loop, owed

collector == <<cancels, cancelled, loop, owed>>
C == INSTANCE Collector

all == <<vars, up, collector>>

\* A start does not wait for the monitor of the process before it, nor a monitor
\* for the start: their calls to the collector come in any order.
Launch == ~up /\ up' = TRUE /\ C!Launched /\ UNCHANGED vars
Exit   == up /\ up' = FALSE /\ C!Exited /\ UNCHANGED vars

Watch ==
  /\ HubRun \/ \E c \in Clients : ClientStep(c)
  /\ UNCHANGED <<up, collector>>

Gather ==
  /\ C!Next
  /\ UNCHANGED <<registered, fan, send, open, done, conn, pumps>>

AllInit == Init /\ C!Init /\ up = FALSE
AllNext == Launch \/ Exit \/ Watch \/ Gather
Spec    == AllInit /\ [][AllNext]_all /\ Fairness /\ C!Fairness

AllTypeOK        == TypeOK /\ C!TypeOK
NoLoopLost       == C!NoLoopLost
CancelledReturns == C!CancelledReturns
=============================================================================
