------------------------------ MODULE MCUpgrade ------------------------------
(* Instances of Upgrade for TLC.                                           *)
EXTENDS Upgrade, TLC

\* Archive names are interchangeable, and so are Process records.
Interchangeable == Permutations(Names) \cup Permutations(Procs)
=============================================================================
