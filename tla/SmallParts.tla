------------------------------- MODULE SmallParts -------------------------------
(***************************************************************************)
(* The parts of the panel that share no state with one another or with the *)
(* lifecycle of a server: accounts and realms, the player lists, the       *)
(* console log, the RCON client and the pure functions.  Because they share *)
(* none, a behaviour is one of one part, the others resting as they begin. *)
(***************************************************************************)
EXTENDS Accounts, PlayerFiles, ConsoleLog, Rcon, Rules

CONSTANT Questions  \* the inputs of the pure functions

ASSUME QuestionsAssumption == \A q \in Questions : WellAsked(q)

VARIABLE part

all == <<part, accounts, fileVars, logVars, rconVars, probe>>

Init ==
  /\ part \in {"accounts", "lists", "log", "rcon", "rules"}
  /\ AccountsInit /\ (part # "accounts" => \A u \in Users : roles[u] = "none")
  /\ FilesInit /\ LogInit
  /\ RconInit /\ (part # "rcon" => right)
  /\ probe = <<>>

Is(name) == part = name /\ UNCHANGED part

Manage  == Is("accounts") /\ AccountsNext /\ UNCHANGED <<fileVars, logVars, rconVars, probe>>
List    == Is("lists") /\ FilesNext /\ UNCHANGED <<accounts, logVars, rconVars, probe>>
Log     == Is("log") /\ LogNext /\ UNCHANGED <<accounts, fileVars, rconVars, probe>>
Control == Is("rcon") /\ RconNext /\ UNCHANGED <<accounts, fileVars, logVars, probe>>
Ask     == /\ Is("rules") /\ probe = <<>> /\ probe' \in Questions
           /\ UNCHANGED <<accounts, fileVars, logVars, rconVars>>

Next == Manage \/ List \/ Log \/ Control \/ Ask
Spec == Init /\ [][Next]_all

\* The parts' type invariants; among them, that the channel of a tail holds no more
\* than it has room for and the JVM's stdin one command.
TypeOK == AccountsTypeOK /\ FilesTypeOK /\ LogTypeOK /\ RconTypeOK
=============================================================================
