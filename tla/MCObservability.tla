---------------------------- MODULE MCObservability ----------------------------
(* Instances of Observability for TLC.                                     *)
EXTENDS Observability, TLC

Interchangeable == Permutations(Clients) \cup Permutations(Loops)
=============================================================================
