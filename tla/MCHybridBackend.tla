--------------------------- MODULE MCHybridBackend ---------------------------
(* HybridBackend for TLC. *)
EXTENDS HybridBackend, TLC

\* Goroutines of one kind are interchangeable (safety runs only).
Symmetry == Permutations(Writers) \cup Permutations(Agents)
=============================================================================
