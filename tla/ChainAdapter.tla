---------------------------- MODULE ChainAdapter ----------------------------
(***************************************************************************)
(* The chain as mock.MockAdapter implements it.  Every operation runs      *)
(* under m.mu and is one atomic step, stamped inside the lock.  Block      *)
(* numbers, nonces and tx hashes are produced but never read back by any   *)
(* backend and are left out.  An operation that fails, in preflight or on  *)
(* a guard, changes nothing: it is the negation of the guards here.        *)
(***************************************************************************)
EXTENDS AgentBase

VARIABLE chain   \* m.agents

ChainStates == {"active", "banned", "revoked"}

ChainRecord == [state : ChainStates, level : Levels, at : Nat]

ChainInit == chain = [u \in Agents |-> Absent]

OnChain(u) == chain[u].state # "absent"

Confirm_KeepsStamp(u, s, l) ==
  /\ clock' = clock + 1
  /\ chain' = [chain EXCEPT ![u] = Info(s, l, IF OnChain(u) THEN chain[u].at ELSE clock + 1)]

\* A confirmed transaction: the record is replaced and stamped under m.mu.
Confirm(u, s, l) ==
  /\ clock' = clock + 1
  /\ chain' = [chain EXCEPT ![u] = Info(s, l, clock + 1)]

Noop == UNCHANGED <<clock, chain>>

\* RegisterAgent: the uuid must be new; the agent starts active.
ChainRegister(u, l) == ~OnChain(u) /\ Confirm(u, "active", l)

\* UpdateLevel: any level is accepted, also for a banned agent.
ChainUpdateLevel(u, l) ==
  /\ chain[u].state \in {"active", "banned"}
  /\ Confirm(u, chain[u].state, l)

\* BanAgent: refused once revoked, a no-op receipt when already banned.
ChainBan(u) ==
  \/ chain[u].state = "active" /\ Confirm(u, "banned", chain[u].level)
  \/ chain[u].state = "banned" /\ Noop

ChainUnban_Revoked(u) ==
  \/ chain[u].state \in {"banned", "revoked"} /\ Confirm(u, "active", chain[u].level)
  \/ chain[u].state = "active" /\ Noop

\* UnbanAgent: a no-op receipt whenever the agent is not banned, revoked
\* agents included.
ChainUnban(u) ==
  \/ chain[u].state = "banned" /\ Confirm(u, "active", chain[u].level)
  \/ chain[u].state \in {"active", "revoked"} /\ Noop

\* RevokeAgent: idempotent and terminal.
ChainRevoke(u) ==
  \/ chain[u].state \in {"active", "banned"} /\ Confirm(u, "revoked", chain[u].level)
  \/ chain[u].state = "revoked" /\ Noop

\* mapChainState: the chain's state names as the backends know them.
mapChainState(s) ==
  CASE s = "active"  -> "active"
    [] s = "banned"  -> "banned"
    [] s = "revoked" -> "unregistered"
    [] OTHER         -> "registered"

\* OnchainBackend.GetAgentInfo over GetAgentState, for an agent on the chain.
AsInfo(rec) == Info(mapChainState(rec.state), rec.level, rec.at)

ChainInfo(u) == AsInfo(chain[u])

\* The lifecycle state the chain shows for an agent.
ChainStatus(u) == IF OnChain(u) THEN mapChainState(chain[u].state) ELSE "absent"
=============================================================================
