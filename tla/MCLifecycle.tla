---------------------------- MODULE MCLifecycle ----------------------------
(* Small instances of Lifecycle for TLC. *)
EXTENDS Lifecycle, TLC

\* Goroutines and mutex objects are interchangeable in the safety runs.
Symmetric == Permutations(Requests) \cup Permutations(Locks)
=============================================================================
