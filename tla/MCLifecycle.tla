----------------------------- MODULE MCLifecycle -----------------------------
(* Instances of Lifecycle for TLC.                                         *)
EXTENDS Lifecycle, TLC

\* Callers are interchangeable, and so are Process records.
Interchangeable == Permutations(Callers) \cup Permutations(Procs)
=============================================================================
