---------------------------- MODULE MCA2ARevoker ----------------------------
(* A2ARevoker for TLC: all tokens belong to one agent. *)
EXTENDS A2ARevoker, TLC

OneAgent == [j \in Tokens |-> CHOOSE a \in Agents : TRUE]

\* Tokens of one agent and concurrent revocations are interchangeable.
Symmetry == Permutations(Tokens) \cup Permutations(Revokers)
=============================================================================
