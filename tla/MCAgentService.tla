--------------------------- MODULE MCAgentService ---------------------------
(* AgentService for TLC. *)
EXTENDS AgentService, TLC

\* Request handlers are interchangeable (safety runs only).
Symmetry == Permutations(Clients)
=============================================================================
