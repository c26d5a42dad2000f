---------------------------- MODULE UpgradeOutcome ----------------------------
(***************************************************************************)
(* What UpgradeServer promises the operator: while an upgrade is under way *)
(* the server counts as what it was; then, in one step, it is what was     *)
(* asked for, or still what it was.  Only the death of RealmRunner may     *)
(* leave it in between.  Upgrade implements this.                          *)
(***************************************************************************)
CONSTANTS
  Versions,    \* the versions (with their flavors) a server may have
  Original,    \* the version the server was created with
  Partial,     \* a jar that is not whole
  None         \* no jar, no upgrade

VARIABLES
  jar,         \* the jar the server has
  version,     \* the version it is said to have
  ready,       \* whether it is said to be able to run
  request      \* the version an upgrade is to bring

vars == <<jar, version, ready, request>>

Init ==
  /\ jar = Original /\ version = Original /\ ready = TRUE
  /\ request = None

Request(v) ==
  /\ request = None
  /\ request' = v
  /\ UNCHANGED <<jar, version, ready>>

\* An upgrade looks whether there is a jar; that is what a failure will tell.
Look ==
  /\ request # None
  /\ ready' = (jar # None)
  /\ UNCHANGED <<jar, version, request>>

Succeed ==
  /\ request # None
  /\ jar' = request /\ version' = request /\ ready' = TRUE
  /\ request' = None

Fail ==
  /\ request # None
  /\ request' = None
  /\ UNCHANGED <<jar, version, ready>>

\* A backup is restored: the jar goes, and the one of the archive comes.
Restore ==
  /\ request = None
  /\ jar' \in Versions \cup {Partial, None}
  /\ UNCHANGED <<version, ready, request>>

\* RealmRunner dies and comes back; a jar is then taken to be a server that can
\* run.
Restart ==
  /\ request = None
  /\ ready' = (ready \/ jar # None)
  /\ UNCHANGED <<jar, version, request>>

\* It dies during an upgrade.  The old jar may be set aside, the new one be there
\* in part, or be there before or after the row says so.
CutShort ==
  /\ request # None /\ request' = None
  /\ version' \in {version, request}
  /\ \/ jar' \in {jar, None, request}
     \/ jar' = Partial /\ version' = version
  /\ ready' \in BOOLEAN
  /\ jar' # None => ready'

\* What RealmRunner does while it lives, and what its death may do.
Promised == (\E v \in Versions : Request(v)) \/ Look \/ Succeed \/ Fail \/ Restore
Died     == Restart \/ CutShort

Next == Promised \/ Died

Spec == Init /\ [][Next]_vars
=============================================================================
