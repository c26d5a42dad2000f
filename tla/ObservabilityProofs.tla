-------------------------- MODULE ObservabilityProofs --------------------------
(***************************************************************************)
(* Proofs about Observability, for any number of clients and loops and all *)
(* capacities of the channels: the hub uses no closed channel, and no      *)
(* collection loop is lost.                                                *)
(***************************************************************************)
EXTENDS Observability, TLAPS

USE LoopsAssumption, CapacitiesAssumption DEF all, vars, hub, pumps, collector

-----------------------------------------------------------------------------
(* The hub and its clients.                                                *)

\* What makes TypeOK inductive: the channel of a client that is about to register
\* is open, and only clients whose handler has registered and not yet unregistered
\* are in the table, so that no client registers twice.
HubInv ==
  /\ TypeOK
  /\ \A c \in Clients : /\ reader[c] = "register" => c \in open
                        /\ c \in registered => reader[c] \in {"read", "unregister"}

\* A step of the hub keeps its table within the open channels, and the range it
\* sends a message to within its table.
LEMMA HubRunInv == HubInv /\ HubRun => HubInv'
<1>. SUFFICES ASSUME HubInv, HubRun PROVE HubInv'
  OBVIOUS
<1>. USE DEF HubInv, TypeOK
<1>1. CASE TakeMessage
  BY <1>1 DEF TakeMessage
<1>2. ASSUME NEW c \in Clients, Register(c) PROVE HubInv'
  BY <1>2 DEF Register
<1>3. ASSUME NEW c \in Clients, Unregister(c) PROVE HubInv'
  BY <1>3 DEF Unregister
<1>4. ASSUME NEW c \in Clients, FanOut(c) PROVE HubInv'
  BY <1>4 DEF FanOut
<1>. QED
  BY <1>1, <1>2, <1>3, <1>4 DEF HubRun

\* A client's goroutines close nothing the hub has in its table.
LEMMA ClientStepInv ==
  ASSUME HubInv, NEW c \in Clients, ClientStep(c) PROVE HubInv'
<1>. USE DEF HubInv, TypeOK
<1>1. CASE Connect(c)
  BY <1>1 DEF Connect
<1>2. CASE Hangup(c)
  BY <1>2 DEF Hangup
<1>3. CASE ReadFails(c)
  BY <1>3 DEF ReadFails
<1>4. CASE Write(c)
  BY <1>4 DEF Write
<1>5. CASE WriteEnds(c)
  BY <1>5 DEF WriteEnds
<1>6. CASE Feed(c)
  BY <1>6 DEF Feed
<1>7. CASE FeedEnds(c)
  BY <1>7 DEF FeedEnds
<1>. QED
  BY <1>1, <1>2, <1>3, <1>4, <1>5, <1>6, <1>7 DEF ClientStep

-----------------------------------------------------------------------------
(* The collector.                                                          *)

LoopInv == C!TypeOK /\ C!NoLoopLost

\* A call of the collector leaves every loop but the one it starts cancelled; a
\* loop's own steps cancel nothing and start nothing.
LEMMA GatherInv == LoopInv /\ C!Next => LoopInv'
<1>. SUFFICES ASSUME LoopInv, C!Next PROVE LoopInv'
  OBVIOUS
<1>. USE DEF LoopInv, C!TypeOK, C!NoLoopLost, C!Step
<1>1. ASSUME NEW l \in Loops, C!StartCollecting(l) PROVE LoopInv'
  BY <1>1 DEF C!StartCollecting
<1>2. ASSUME NEW caller \in {"monitor", "StopServer"}, C!StopCollecting(caller) PROVE LoopInv'
  BY <1>2 DEF C!StopCollecting
<1>3. ASSUME NEW l \in Loops, C!Sample(l) PROVE LoopInv'
  BY <1>3 DEF C!Sample
<1>4. ASSUME NEW l \in Loops, C!Broadcast(l) PROVE LoopInv'
  BY <1>4 DEF C!Broadcast
<1>5. ASSUME NEW l \in Loops, C!Tick(l) PROVE LoopInv'
  BY <1>5 DEF C!Tick
<1>6. ASSUME NEW l \in Loops, C!Return(l) PROVE LoopInv'
  BY <1>6 DEF C!Return
<1>. QED
  BY <1>1, <1>2, <1>3, <1>4, <1>5, <1>6 DEF C!Next, C!Calls

-----------------------------------------------------------------------------
(* Both together: they share the queue, which each only fills or empties   *)
(* within its capacity.                                                    *)

BothInv == HubInv /\ LoopInv

LEMMA InitInv == AllInit => BothInv
  BY DEF AllInit, Init, C!Init, BothInv, HubInv, LoopInv, TypeOK, C!TypeOK, C!NoLoopLost

LEMMA NextInv == BothInv /\ [AllNext]_all => BothInv'
<1>. SUFFICES ASSUME BothInv, [AllNext]_all PROVE BothInv'
  OBVIOUS
<1>1. CASE Launch \/ Exit
  BY <1>1 DEF Launch, Exit, C!Launched, C!Exited, C!Owe,
              BothInv, HubInv, LoopInv, TypeOK, C!TypeOK, C!NoLoopLost
<1>2. CASE Watch
  <2>1. HubInv'
    BY <1>2, HubRunInv, ClientStepInv DEF Watch, BothInv
  <2>2. LoopInv'
    BY <1>2, <2>1 DEF Watch, BothInv, LoopInv, HubInv, TypeOK, C!TypeOK, C!NoLoopLost
  <2>. QED
    BY <2>1, <2>2 DEF BothInv
<1>3. CASE Gather
  <2>1. LoopInv'
    BY <1>3, GatherInv DEF Gather, BothInv
  <2>2. HubInv'
    BY <1>3, <2>1 DEF Gather, BothInv, LoopInv, HubInv, TypeOK, C!TypeOK
  <2>. QED
    BY <2>1, <2>2 DEF BothInv
<1>4. CASE UNCHANGED all
  BY <1>4 DEF BothInv, HubInv, LoopInv, TypeOK, C!TypeOK, C!NoLoopLost
<1>. QED
  BY <1>1, <1>2, <1>3, <1>4 DEF AllNext

THEOREM BothInvariant == Spec => []BothInv
  BY InitInv, NextInv, PTL DEF Spec

\* The types, and in them that the hub neither sends on nor closes a channel that
\* is closed, whatever clients do (hub.go: Run).
THEOREM AllTypesCorrect == Spec => []AllTypeOK
<1>1. BothInv => AllTypeOK
  BY DEF BothInv, HubInv, LoopInv, AllTypeOK
<1>. QED
  BY <1>1, BothInvariant, PTL

\* However the collector's calls from starts, stops and late monitors are ordered,
\* every loop that goes on is the one the next call will end (collector.go:
\* StartCollecting, StopCollecting).
THEOREM LoopsAreKept == Spec => []NoLoopLost
<1>1. BothInv => NoLoopLost
  BY DEF BothInv, LoopInv, NoLoopLost
<1>. QED
  BY <1>1, BothInvariant, PTL
=============================================================================
