---------------------------- MODULE ProcessOutcome ----------------------------
(***************************************************************************)
(* What RealmRunner promises about the end of one JVM, whoever asks for it *)
(* and whenever it comes: the JVM lives, it may be asked to stop, it ends, *)
(* and its end is judged exactly once, as a stop or as a crash.  An end    *)
(* that was asked for is never judged a crash.  Lifecycle implements this. *)
(***************************************************************************)
CONSTANT Procs

VARIABLES
  life,     \* "none", "up" or "down"
  asked,    \* whether a stop or a kill reached it while it was up
  verdict   \* "none", "stopped" or "crashed"

vars == <<life, asked, verdict>>

Init ==
  /\ life = [p \in Procs |-> "none"]
  /\ asked = [p \in Procs |-> FALSE]
  /\ verdict = [p \in Procs |-> "none"]

Launch(p) ==
  /\ life[p] = "none"
  /\ life' = [life EXCEPT ![p] = "up"]
  /\ UNCHANGED <<asked, verdict>>

Ask(p) ==
  /\ life[p] = "up"
  /\ asked' = [asked EXCEPT ![p] = TRUE]
  /\ UNCHANGED <<life, verdict>>

Exit(p) ==
  /\ life[p] = "up"
  /\ life' = [life EXCEPT ![p] = "down"]
  /\ UNCHANGED <<asked, verdict>>

Judge(p, outcome) ==
  /\ life[p] = "down" /\ verdict[p] = "none"
  /\ outcome = "crashed" => ~asked[p]
  /\ verdict' = [verdict EXCEPT ![p] = outcome]
  /\ UNCHANGED <<life, asked>>

\* The Process is forgotten once its end has been judged and dealt with.
Forget(p) ==
  /\ verdict[p] # "none"
  /\ life' = [life EXCEPT ![p] = "none"]
  /\ asked' = [asked EXCEPT ![p] = FALSE]
  /\ verdict' = [verdict EXCEPT ![p] = "none"]

\* RealmRunner itself dies, and every JVM with it.
Lose ==
  /\ life' = [p \in Procs |-> "none"]
  /\ asked' = [p \in Procs |-> FALSE]
  /\ verdict' = [p \in Procs |-> "none"]

\* What RealmRunner owes every JVM as long as it lives itself.
Promised ==
  \E p \in Procs :
    \/ Launch(p) \/ Ask(p) \/ Exit(p) \/ Forget(p)
    \/ \E outcome \in {"stopped", "crashed"} : Judge(p, outcome)

Next == Promised \/ Lose

Spec == Init /\ [][Next]_vars
=============================================================================
