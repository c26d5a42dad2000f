-------------------------------- MODULE Console --------------------------------
(***************************************************************************)
(* The websocket hub and the clients that watch one server's console.      *)
(*                                                                         *)
(* The hub is one goroutine over three channels.  A client has a handler   *)
(* that becomes its read pump, a write pump, and a feeder, tailLogs, that  *)
(* sends it the log; ConsoleLog has the lines, here they are only counted. *)
(***************************************************************************)
EXTENDS Naturals

CONSTANTS
  Clients,   \* the websocket connections
  SendCap,   \* the capacity of Client.send
  QueueCap   \* the capacity of Hub.broadcast

ASSUME CapacitiesAssumption == {SendCap, QueueCap} \subseteq Nat \ {0}

VARIABLES
  queue,       \* Hub.broadcast: how many messages it holds
  registered,  \* Hub.clients of this server
  fan,         \* the clients the message being sent has not reached
  send,        \* Client.send: how many messages it holds
  open,        \*   and the clients whose send is not closed
  done,        \* the clients whose done is closed
  conn,        \* the clients whose connection is open
  reader, writer, feeder  \* a client's goroutines

hub   == <<queue, registered, fan>>
pumps == <<reader, writer, feeder>>
vars  == <<hub, send, open, done, conn, pumps>>

\* The hub's table holds only clients whose send is open, and the message being
\* sent goes only to clients in the table: so the hub neither sends on nor closes
\* a closed channel, which would end the whole program (hub.go: Run).
TypeOK ==
  /\ queue \in 0..QueueCap
  /\ fan \subseteq registered /\ registered \subseteq open /\ open \subseteq Clients
  /\ done \subseteq Clients /\ conn \subseteq Clients
  /\ send \in [Clients -> 0..SendCap]
  /\ reader \in [Clients -> {"none", "register", "read", "unregister", "end"}]
  /\ writer \in [Clients -> {"none", "write", "end"}]
  /\ feeder \in [Clients -> {"none", "feed", "end"}]

-----------------------------------------------------------------------------
(* Hub.Run                                                                 *)

Connect(c) ==
  /\ reader[c] = "none"
  /\ reader' = [reader EXCEPT ![c] = "register"]
  /\ conn' = conn \cup {c}
  /\ open' = open \cup {c}
  /\ UNCHANGED <<hub, send, done, writer, feeder>>

\* The handler meets the hub at the register channel, then starts the pumps.
Register(c) ==
  /\ reader[c] = "register" /\ fan = {}
  /\ registered' = registered \cup {c}
  /\ reader' = [reader EXCEPT ![c] = "read"]
  /\ writer' = [writer EXCEPT ![c] = "write"]
  /\ feeder' = [feeder EXCEPT ![c] = "feed"]
  /\ UNCHANGED <<queue, fan, send, open, done, conn>>

\* Mutated form: the channel is closed whether or not the hub has dropped it.
UnregisterTwice(c) ==
  /\ reader[c] = "unregister" /\ fan = {}
  /\ open' = open \ {c}
  /\ reader' = [reader EXCEPT ![c] = "end"]
  /\ conn' = conn \ {c}
  /\ UNCHANGED <<hub, send, done, writer, feeder>>

\* A client the hub has dropped before is not in the table any more.
Unregister(c) ==
  /\ reader[c] = "unregister" /\ fan = {}
  /\ IF c \in registered
     THEN registered' = registered \ {c} /\ open' = open \ {c}
     ELSE UNCHANGED <<registered, open>>
  /\ reader' = [reader EXCEPT ![c] = "end"]
  /\ conn' = conn \ {c}
  /\ UNCHANGED <<queue, fan, send, done, writer, feeder>>

TakeMessage ==
  /\ fan = {} /\ queue > 0
  /\ queue' = queue - 1
  /\ fan' = registered
  /\ UNCHANGED <<registered, send, open, done, conn, pumps>>

\* Mutated form: the send waits for room.
FanOutWaiting(c) ==
  /\ c \in fan /\ fan' = fan \ {c}
  /\ send[c] < SendCap
  /\ send' = [send EXCEPT ![c] = @ + 1]
  /\ UNCHANGED <<queue, registered, open, done, conn, pumps>>

\* One client of the range: a full buffer costs it its place.
FanOut(c) ==
  /\ c \in fan /\ fan' = fan \ {c}
  /\ IF send[c] < SendCap
     THEN /\ send' = [send EXCEPT ![c] = @ + 1]
          /\ UNCHANGED <<registered, open>>
     ELSE /\ registered' = registered \ {c} /\ open' = open \ {c}
          /\ UNCHANGED send
  /\ UNCHANGED <<queue, done, conn, pumps>>

HubRun ==
  \/ TakeMessage
  \/ \E c \in Clients : Register(c) \/ Unregister(c) \/ FanOut(c)

-----------------------------------------------------------------------------
(* The pumps.                                                              *)

\* The browser closes, or answers no ping in time.
Hangup(c) ==
  /\ reader[c] = "read" /\ c \in conn
  /\ conn' = conn \ {c}
  /\ UNCHANGED <<hub, send, open, done, pumps>>

\* Mutated form: done is not closed.
ReadFailsQuietly(c) ==
  /\ reader[c] = "read" /\ c \notin conn
  /\ reader' = [reader EXCEPT ![c] = "unregister"]
  /\ UNCHANGED <<hub, send, open, done, conn, writer, feeder>>

ReadFails(c) ==
  /\ reader[c] = "read" /\ c \notin conn
  /\ done' = done \cup {c}
  /\ reader' = [reader EXCEPT ![c] = "unregister"]
  /\ UNCHANGED <<hub, send, open, conn, writer, feeder>>

\* The next message goes out; or the connection is gone and the pump ends.
Write(c) ==
  /\ writer[c] = "write" /\ send[c] > 0
  /\ send' = [send EXCEPT ![c] = @ - 1]
  /\ writer' = IF c \in conn THEN writer ELSE [writer EXCEPT ![c] = "end"]
  /\ UNCHANGED <<hub, open, done, conn, reader, feeder>>

\* send is closed and drained, or a ping fails: the connection is closed too.
WriteEnds(c) ==
  /\ writer[c] = "write"
  /\ (c \notin open /\ send[c] = 0) \/ c \notin conn
  /\ writer' = [writer EXCEPT ![c] = "end"]
  /\ conn' = conn \ {c}
  /\ UNCHANGED <<hub, send, open, done, reader, feeder>>

\* sendMessage, the status or a line: a full buffer skips it, and on a closed one
\* the send panics, which is recovered from.
Feed(c) ==
  /\ feeder[c] = "feed"
  /\ c \in open /\ send[c] < SendCap
  /\ send' = [send EXCEPT ![c] = @ + 1]
  /\ UNCHANGED <<hub, open, done, conn, pumps>>

\* There is nothing more to send, or the client is gone.
FeedEnds(c) ==
  /\ feeder[c] = "feed"
  /\ feeder' = [feeder EXCEPT ![c] = "end"]
  /\ UNCHANGED <<hub, send, open, done, conn, reader, writer>>

-----------------------------------------------------------------------------

Init ==
  /\ queue = 0 /\ registered = {} /\ fan = {}
  /\ open = {} /\ done = {} /\ conn = {}
  /\ send = [c \in Clients |-> 0]
  /\ reader = [c \in Clients |-> "none"]
  /\ writer = [c \in Clients |-> "none"]
  /\ feeder = [c \in Clients |-> "none"]

ClientStep(c) ==
  \/ Connect(c) \/ Hangup(c) \/ ReadFails(c) \/ Write(c) \/ WriteEnds(c)
  \/ Feed(c) \/ FeedEnds(c)

\* Goroutines run; select chooses at random among what is ready, so nothing that
\* is ready again and again is passed over for ever.
Fairness ==
  /\ WF_vars(TakeMessage)
  /\ \A c \in Clients :
       /\ WF_vars(FanOut(c)) /\ SF_vars(Register(c)) /\ SF_vars(Unregister(c))
       /\ WF_vars(ReadFails(c)) /\ WF_vars(Write(c)) /\ WF_vars(WriteEnds(c))
       /\ WF_vars(c \in done /\ FeedEnds(c))

-----------------------------------------------------------------------------

\* Once a client hangs up, or the hub drops it for its full buffer, its pumps
\* and its feeder end and the hub forgets it, whichever of them finds out first.
GoneIsForgotten ==
  \A c \in Clients :
    (reader[c] \notin {"none", "register"} /\ (c \notin conn \/ c \notin open))
      ~> /\ c \notin registered
         /\ <<reader[c], writer[c], feeder[c]>> = <<"end", "end", "end">>
=============================================================================
