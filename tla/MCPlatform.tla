----------------------------- MODULE MCPlatform -----------------------------
(***************************************************************************)
(* The backend, the chain driver and the front ends for TLC.  They share   *)
(* no state here, so a behaviour exercises the one its scene names; the    *)
(* others stay in one initial state.                                       *)
(***************************************************************************)
EXTENDS LocalBackend, HTTPChain, CLICommands, Gateway, MCPServer

VARIABLE scene

localOnly == <<local, logs, mu, call>>
chainOnly == <<chain, sent, wire, answers, waiting, closed, applied, abandoned, cut, restarted,
               outcome>>
base == <<clock, faults>>

platformVars == <<scene, base, localOnly, chainOnly, cliVars, gwVars, mcpVars>>

MCRowLists == {<<"good", "good", "good">>, <<"good", "bad", "good">>, <<"good", "good">>}

MCChains == {<<"recover", "request_id", "logging", "metrics", "cors", "ua", "api_key", "aap">>,
             <<"metrics", "recover", "security", "tls", "api_key">>}

From(m, p, u, k, a, t) ==
  [method |-> m, path |-> p, body |-> "reason", ua |-> u, key |-> k, proof |-> a, tls |-> t]

Check == <<"api", "v2", "agents", "b", "check">>

MCInbound ==
  {From("POST", Check, "go", "good", "forged", TRUE),
   From("GET", <<"debug", "pprof", "">>, "go", "bad", "signed", TRUE),
   From("POST", Check, "scanner", "good", "none", FALSE),
   From("OPTIONS", Check, "scanner", "none", "none", TRUE),
   From("GET", <<"readyz">>, "empty", "none", "none", FALSE)}

\* Goroutines are interchangeable, and so are the processes of the CLI and the
\* gateway's slots, which have the same names in the instance (safety runs only).
Symmetry == Permutations(Writers)

Init ==
  /\ scene \in {"local", "chain", "batch", "config", "gateway", "mcp"}
  /\ LocalInit /\ HCInit
  /\ CLIInit /\ (scene # "batch" => batch.rows = <<"good", "good">>)
             /\ (scene # "config" => cfgFile = NoFile)
  /\ GwInit /\ (scene # "gateway" => mw = CHOOSE c \in Chains : TRUE)
  /\ MCPInit /\ (scene # "mcp" => authKey = "")

Next ==
  \/ scene = "local" /\ LocalNext
     /\ UNCHANGED <<scene, chainOnly, cliVars, gwVars, mcpVars>>
  \/ scene = "chain" /\ HCNext
     /\ UNCHANGED <<scene, localOnly, cliVars, gwVars, mcpVars>>
  \/ scene = "batch" /\ BatchNext
     /\ UNCHANGED <<scene, base, localOnly, chainOnly, cfgVars, gwVars, mcpVars>>
  \/ scene = "config" /\ CfgNext
     /\ UNCHANGED <<scene, base, localOnly, chainOnly, batch, gwVars, mcpVars>>
  \/ scene = "gateway" /\ GwNext
     /\ UNCHANGED <<scene, base, localOnly, chainOnly, cliVars, mcpVars>>
  \/ scene = "mcp" /\ MCPNext
     /\ UNCHANGED <<scene, base, localOnly, chainOnly, cliVars, gwVars>>

Spec == Init /\ [][Next]_platformVars
=============================================================================
