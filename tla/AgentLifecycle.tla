--------------------------- MODULE AgentLifecycle ---------------------------
(***************************************************************************)
(* What every store of agent identities promises about an agent's status.  *)
(* The table is domain.StateTransition; an agent that no store knows yet   *)
(* is "absent".  The chain adapter and LocalBackend are shown to implement *)
(* this specification.                                                     *)
(***************************************************************************)
CONSTANT Agents

VARIABLE status   \* status[u]: the lifecycle state of agent u

States == {"registered", "active", "banned", "unregistered"}

\* domain.StateTransition: the allowed targets of every state.
StateTransition ==
  [registered   |-> {"active", "banned", "unregistered"},
   active       |-> {"banned", "unregistered"},
   banned       |-> {"active", "unregistered"},
   unregistered |-> {}]

\* domain.CanTransition.
CanTransition(from, to) == from \in States /\ to \in StateTransition[from]

Init == status = [u \in Agents |-> "absent"]

\* A store creates the record: "registered" off chain, "active" on chain.
Register(u) ==
  /\ status[u] = "absent"
  /\ \E s \in {"registered", "active"} : status' = [status EXCEPT ![u] = s]

\* A store moves a record it already holds.
Transition(u) ==
  \E to \in States :
    /\ CanTransition(status[u], to)
    /\ status' = [status EXCEPT ![u] = to]

Next == \E u \in Agents : Register(u) \/ Transition(u)

Spec == Init /\ [][Next]_status
=============================================================================
