---------------------------- MODULE TrustLevel ----------------------------
(***************************************************************************)
(* internal/authz/a2a/trust.go: the trust between two agents, computed     *)
(* from snapshots of their state, level and permissions by a chain of      *)
(* rules in which the first that applies decides.  The two agents change   *)
(* by the transitions the services make, one at a time.                    *)
(***************************************************************************)
EXTENDS Integers

CONSTANT TrustLevels       \* levels the agents may have, from LevelTest up

ASSUME TrustLevelsAssumption == TrustLevels \subseteq 0..7

Sides == {"a", "b"}

VARIABLE peers             \* the two snapshots

trustVars == <<peers>>

\* HasA2AInterop is bit 8 of the permissions.
AgentSnapshot == [state : {"registered", "active", "banned", "unregistered"},
                  level : TrustLevels, interop : BOOLEAN]

TrustInit == peers = [s \in Sides |-> [state |-> "registered", level |-> 0, interop |-> FALSE]]

Apart(a, b) == a.level - b.level > 2 \/ b.level - a.level > 2

Full_Exactly(a, b) == a.interop /\ b.interop /\ a.level = 2 /\ b.level = 2

Full(a, b) == a.interop /\ b.interop /\ a.level >= 2 /\ b.level >= 2

\* ComputeTrustLevel and Score.
ComputeTrustLevel(a, b) ==
  CASE ~(a.state = "active" /\ b.state = "active") -> "none"
    [] a.state = "active" /\ b.state = "active" ->
         IF a.level # 0 /\ b.level # 0 /\ ~Apart(a, b) /\ Full(a, b) THEN "full" ELSE "basic"

Score(t) == CASE t = "none" -> 0 [] t = "basic" -> 50 [] t = "full" -> 100

Other(s) == IF s = "a" THEN "b" ELSE "a"

\* The transitions of the domain's table.
ChangeState(s) ==
  \E t \in {"active", "banned", "unregistered"} :
    /\ peers[s].state # "unregistered" /\ t # peers[s].state
    /\ peers' = [peers EXCEPT ![s].state = t]

\* HandleUpgrade: one level up, and the default permissions of the new level,
\* which have bit 8 at every level; that this call fails is ignored.
UpgradePeer(s) ==
  /\ peers[s].state \in {"registered", "active"} /\ peers[s].level + 1 \in TrustLevels
  /\ \E interop \in {peers[s].interop, TRUE} :
       peers' = [peers EXCEPT ![s].level = @ + 1, ![s].interop = interop]

\* Agent.Grant and Agent.Revoke of bit 8, which no level's maximum leaves out.
ToggleInterop(s) == peers' = [peers EXCEPT ![s].interop = ~@]

TrustNext == \E s \in Sides : ChangeState(s) \/ UpgradePeer(s) \/ ToggleInterop(s)

TrustSpec == TrustInit /\ [][TrustNext]_trustVars

-----------------------------------------------------------------------------

TrustNow == Score(ComputeTrustLevel(peers["a"], peers["b"]))

\* An upgrade of the agent that is not ahead never costs trust; one of the
\* agent that is ahead may, when it comes to be more than two levels apart.
CatchingUpKeepsTrust ==
  [][\A s \in Sides :
       /\ peers'[s].level > peers[s].level
       /\ peers[s].level <= peers[Other(s)].level
       => Score(ComputeTrustLevel(peers'["a"], peers'["b"])) >= TrustNow]_trustVars

TrustTypeOK ==
  peers \in [Sides -> [state : {"registered", "active", "banned", "unregistered"},
                       level : 0..7, interop : BOOLEAN]]
=============================================================================
