------------------------------ MODULE MCService ------------------------------
(***************************************************************************)
(* The identity workflows and the storage code under them for TLC.  They   *)
(* share no state here, so a behaviour exercises the one its scene names.  *)
(***************************************************************************)
EXTENDS AgentService, EntStore, EntQuery, SlowQuery

VARIABLE scene

serviceVars == <<scene, vars, entVars, queryVars, sqVars>>

MCBounds == <<1, 2>>

\* Request handlers are interchangeable, and so are observers, which have the
\* same names in the instance (safety runs only).
Symmetry == Permutations(Clients)

ServiceInit ==
  /\ scene \in {"service", "ent", "query", "slow"}
  /\ Init /\ (scene # "service" => useChain)
  /\ EntInit /\ SQInit
  /\ QueryInit /\ (scene # "query" => tables.agents = {} /\ ~queries[1].eager)

ServiceNext ==
  \/ scene = "service" /\ Next /\ UNCHANGED <<scene, entVars, queryVars, sqVars>>
  \/ scene = "ent" /\ EntNext /\ UNCHANGED <<scene, vars, queryVars, sqVars>>
  \/ scene = "query" /\ QueryNext /\ UNCHANGED <<scene, vars, entVars, sqVars>>
  \/ scene = "slow" /\ SQNext /\ UNCHANGED <<scene, vars, entVars, queryVars>>

ServiceSpec == ServiceInit /\ [][ServiceNext]_serviceVars
=============================================================================
