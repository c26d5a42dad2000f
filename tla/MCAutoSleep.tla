----------------------------- MODULE MCAutoSleep -----------------------------
(* Instances of AutoSleep for TLC.                                         *)
EXTENDS AutoSleep, TLC

Interchangeable == Permutations(Players) \cup Permutations(Proxies) \cup Permutations(Procs)
=============================================================================
