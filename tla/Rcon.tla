--------------------------------- MODULE Rcon ---------------------------------
(***************************************************************************)
(* The RCON client on one connection: it authenticates, then executes one  *)
(* command after the other, each reply one or more packets with no end     *)
(* marker, which it collects until none follows for a while.               *)
(*                                                                         *)
(* The server answers in order and at once; how long its packets take is   *)
(* the choice between reading one and a deadline that passes before it.    *)
(***************************************************************************)
EXTENDS Integers, Sequences

CONSTANTS
  LastId,  \* bound: the id of the last command; 1 is that of the authentication
  Parts    \* bound: into how many packets a reply is split

ASSUME RconBounds == LastId \in Nat \ {0, 1} /\ Parts \in Nat \ {0}

VARIABLES
  right,   \* whether the password is the server's
  client,  \* "idle", "auth", "ready", "first" and "more" of a reply, "rejected", "failed"
  id,      \* the id of the request it sent last
  reply,   \* what it has of the reply
  wire,    \* the packets that have not reached it
  torn     \* a deadline passed in the middle of a packet: what follows is noise

rconVars == <<right, client, id, reply, wire, torn>>

Empty(n)       == [id |-> n, type |-> "response", body |-> 0]
AuthAnswer(n)  == [id |-> n, type |-> "auth", body |-> 0]
Part(n, k)     == [id |-> n, type |-> "response", body |-> k]
Packet         == [id : -1..LastId, type : {"response", "auth"}, body : 0..Parts]

RconTypeOK ==
  /\ {right, torn} \subseteq BOOLEAN
  /\ client \in {"idle", "auth", "ready", "first", "more", "rejected", "failed"}
  /\ id \in 0..LastId
  /\ reply \in Seq((1..LastId) \X (0..Parts))
  /\ wire \in Seq(Packet)

-----------------------------------------------------------------------------

\* A rejected password is answered with the id -1; a server may send an empty
\* response first.
Dial ==
  /\ client = "idle" /\ client' = "auth" /\ id' = 1
  /\ \E first \in {<<>>, <<Empty(1)>>} :
       wire' = Append(first, AuthAnswer(IF right THEN 1 ELSE -1))
  /\ UNCHANGED <<right, reply, torn>>

\* Mutated form: the first packet is taken for the answer.
AuthReadFirst ==
  /\ client = "auth" /\ wire # <<>> /\ wire' = Tail(wire)
  /\ client' = IF Head(wire).type # "auth" THEN "failed"
               ELSE IF Head(wire).id = id THEN "ready" ELSE "rejected"
  /\ UNCHANGED <<right, id, reply, torn>>

AuthRead ==
  /\ client = "auth" /\ wire # <<>> /\ wire' = Tail(wire)
  /\ client' = IF Head(wire).type = "response" THEN "auth"
               ELSE IF Head(wire).id = id THEN "ready" ELSE "rejected"
  /\ UNCHANGED <<right, id, reply, torn>>

\* The deadline of a dial leaves no client.
AuthLate ==
  /\ client = "auth" /\ client' = "idle" /\ wire' = <<>>
  /\ UNCHANGED <<right, id, reply, torn>>

Execute ==
  /\ client = "ready" /\ id < LastId
  /\ client' = "first" /\ id' = id + 1 /\ reply' = <<>>
  /\ \E n \in 1..Parts : wire' = wire \o [k \in 1..n |-> Part(id + 1, k)]
  /\ UNCHANGED <<right, torn>>

Take(packet) == reply' = Append(reply, <<packet.id, packet.body>>)

\* Mutated form: the id of the first packet is not looked at.
ReadFirstUnchecked ==
  /\ client = "first" /\ wire # <<>> /\ wire' = Tail(wire) /\ ~torn
  /\ client' = "more" /\ Take(Head(wire))
  /\ UNCHANGED <<right, id, torn>>

\* A packet of an earlier command, or noise, ends the command with an error.
ReadFirst ==
  /\ client = "first" /\ wire # <<>> /\ wire' = Tail(wire)
  /\ IF ~torn /\ Head(wire).id = id
     THEN client' = "more" /\ Take(Head(wire))
     ELSE client' = "ready" /\ UNCHANGED reply
  /\ UNCHANGED <<right, id, torn>>

\* The ids of the packets that follow are not looked at.
ReadMore ==
  /\ client = "more" /\ wire # <<>> /\ wire' = Tail(wire) /\ ~torn
  /\ Take(Head(wire))
  /\ UNCHANGED <<right, client, id, torn>>

\* The deadline of the first packet is an error, that of the others the end of the
\* reply; either may pass in the middle of a packet.
ReadLate ==
  /\ client \in {"first", "more"}
  /\ client' = "ready"
  /\ torn' \in {torn, torn \/ wire # <<>>}
  /\ UNCHANGED <<right, id, reply, wire>>

-----------------------------------------------------------------------------

RconInit ==
  /\ right \in BOOLEAN /\ client = "idle" /\ id = 0
  /\ reply = <<>> /\ wire = <<>> /\ torn = FALSE

RconNext == Dial \/ AuthRead \/ AuthLate \/ Execute \/ ReadFirst \/ ReadMore \/ ReadLate

RconSpec == RconInit /\ [][RconNext]_rconVars

-----------------------------------------------------------------------------

\* A password is accepted or rejected as the server has it, whatever it sends
\* before its answer (client.go: authenticate).
AuthVerdict ==
  /\ client \in {"ready", "first", "more"} => right
  /\ client \in {"rejected", "failed"} => ~right

\* What Execute collects is a beginning of the reply to its own command, though
\* only the first packet's id is looked at and packets of the commands before it
\* may still be on the wire (client.go: Execute).
ReplyIsPrefix ==
  reply # <<>> =>
    LET command == reply[1][1]
    IN  /\ client = "more" => command = id
        /\ reply = [k \in 1..Len(reply) |-> <<command, k>>]
=============================================================================
