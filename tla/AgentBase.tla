------------------------------ MODULE AgentBase ------------------------------
(***************************************************************************)
(* What the identity backends of core/backend share: the agents, their     *)
(* levels, the shape of an AgentInfo record and the clock that stamps it.  *)
(* Of AgentInfo only state, level and UpdatedAt ("at") are kept: owner,    *)
(* permission, keys and tx hash never influence a backend's control flow.  *)
(***************************************************************************)
EXTENDS Naturals, FiniteSets

CONSTANTS Agents,    \* the UUIDs generateUUIDv7 hands out
          Levels,    \* the levels requests carry (uint8, 0 is refused)
          Writers,   \* goroutines inside a write call
          MaxFaults, \* bound on persistence and chain failures in a behaviour
          MaxClock   \* bound: no write call starts after this many stamps

ASSUME LevelsAssumption == Levels \subseteq 1..255
ASSUME MaxFaultsAssumption == MaxFaults \in Nat
ASSUME MaxClockAssumption == MaxClock \in Nat

VARIABLES clock,     \* time.Now(); every stamp is distinct
          faults     \* failures that have happened so far

InfoStates == {"registered", "active", "banned", "unregistered"}

Absent == [state |-> "absent", level |-> 0, at |-> 0]

AgentInfo == [state : InfoStates, level : Levels, at : Nat]

Info(s, l, t) == [state |-> s, level |-> l, at |-> t]

\* One more call to the persistence or to the chain fails.
Fault == faults < MaxFaults /\ faults' = faults + 1
=============================================================================
