---------------------------- MODULE AgentService ----------------------------
(***************************************************************************)
(* The L4 workflows of internal/service: HandleRegister, HandleUpgrade,    *)
(* HandleBan, HandleUnban and HandleRevoke over storage.Client and an      *)
(* optional chain, and the readers HandleGetInfo and                       *)
(* HandleCheckPermission.  No workflow holds a lock or opens a             *)
(* transaction: each reads the record, decides, writes the whole record    *)
(* back, then the permissions, then the chain.  Each of these calls is one *)
(* step.                                                                   *)
(*                                                                         *)
(* A permission mask is its number of 16-bit blocks (0..4).  The agents a  *)
(* workflow rebuilds with domain.NewAgent are always "registered",         *)
(* whatever the stored record says.  PurgeExpired only drops expired       *)
(* revocation entries and has no effect on this state.                     *)
(***************************************************************************)
EXTENDS Naturals, FiniteSets

CONSTANTS Agents,      \* UUIDs requests carry
          Levels,      \* levels requests carry
          Masks,       \* RegisterAgentRequest.Permissions: 0 asks for the default
          Clients,     \* goroutines handling requests, a batch's workers included
          MaxFaults,   \* bound on failed calls and abandoned requests
          MaxCalls     \* bound on requests

MaxLevel == 7

ASSUME LevelsAssumption == Levels \subseteq 0..MaxLevel
ASSUME MasksAssumption == Masks \subseteq 0..4
ASSUME BoundsAssumption == MaxFaults \in Nat /\ MaxCalls \in Nat

VARIABLES agents,   \* IdentityStore: the record of each UUID
          perms,    \* PermissionStore
          chain,    \* what the chain knows of each UUID
          call,     \* call[c]: the request c is handling
          won,      \* history: successful registrations of each UUID
          overlap,  \* history: a write began while another was under way
          masked,   \* history: a registration asked for an explicit mask
          barred,   \* history: UUIDs whose ban or revocation was reported done
          leaked,   \* history: UUIDs a check begun after that still allowed
          useChain, \* a ChainAdapter is configured; fixed at start-up
          faults, calls

history == <<overlap, masked, barred, leaked>>

vars == <<agents, perms, chain, call, won, history, useChain, faults, calls>>

States == {"registered", "active", "banned", "unregistered"}

None == [state |-> "none", level |-> 0]

Agent(s, l) == [state |-> s, level |-> l]

Writes == {"register", "upgrade", "ban", "unban", "revoke"}

Reads == {"check", "info"}

Idle == [pc |-> "idle", op |-> "none", u |-> "none", lvl |-> 0, mask |-> 0, rec |-> None,
         after |-> FALSE]

Init ==
  /\ agents = [u \in Agents |-> None]
  /\ perms = [u \in Agents |-> 0]
  /\ chain = [u \in Agents |-> None]
  /\ call = [c \in Clients |-> Idle]
  /\ won = [u \in Agents |-> 0]
  /\ overlap = FALSE
  /\ masked = FALSE
  /\ barred = {}
  /\ leaked = {}
  /\ useChain \in BOOLEAN
  /\ faults = 0
  /\ calls = 0

Fault == faults < MaxFaults /\ faults' = faults + 1

-----------------------------------------------------------------------------
(* The domain entity. *)

\* 16 bits per level, all 64 from level 3 on: the shift overflows to 0 - 1.
DefaultMaxPermissions(l) == IF l >= 3 THEN 4 ELSE l + 1

\* domain.NewAgent, which is also how a stored record is rebuilt.
NewAgent(l) == Agent("registered", l)

\* Agent.Upgrade: exactly one level up.
Upgrade(a, l) == l <= MaxLevel /\ l = a.level + 1

\* Agent.Ban.
Ban(a) == a.state \notin {"banned", "unregistered"}

\* Agent.Unban.
Unban(a) == a.state = "banned"

isUpgradable(s) == s \in {"active", "registered"}

\* The checks between GetAgent and PutAgent, on the record and on the entity
\* rebuilt from it.
Accepts(op, rec, l) ==
  \/ op = "upgrade" /\ isUpgradable(rec.state) /\ Upgrade(NewAgent(rec.level), l)
  \/ op = "ban"     /\ Ban(NewAgent(rec.level))
  \/ op = "unban"   /\ Unban(NewAgent(rec.level))
  \/ op = "revoke"  /\ rec.state # "unregistered"

Updated_ForgetsLevel(op, rec, l) ==
  CASE op = "upgrade" -> rec
    [] op = "ban"     -> [rec EXCEPT !.state = "banned"]
    [] op = "unban"   -> [rec EXCEPT !.state = "active"]
    [] op = "revoke"  -> [rec EXCEPT !.state = "unregistered"]

\* The record PutAgent writes: the one that was read, one field replaced.
Updated(op, rec, l) ==
  CASE op = "upgrade" -> [rec EXCEPT !.level = l]
    [] op = "ban"     -> [rec EXCEPT !.state = "banned"]
    [] op = "unban"   -> [rec EXCEPT !.state = "active"]
    [] op = "revoke"  -> [rec EXCEPT !.state = "unregistered"]

-----------------------------------------------------------------------------
(* The chain behind service.ChainAdapter (external). *)

ChainAccepts(op, u) ==
  IF op = "register" THEN chain[u] = None ELSE chain[u] # None

ChainEffect(op, u, l) ==
  CASE op = "register" -> Agent("active", l)
    [] op = "upgrade"  -> [chain[u] EXCEPT !.level = l]
    [] op = "ban"      -> [chain[u] EXCEPT !.state = "banned"]
    [] op \in {"unban", "revoke"} -> [chain[u] EXCEPT !.state = "active"]

-----------------------------------------------------------------------------
(* The steps of a request. *)

Return(c) == call' = [call EXCEPT ![c] = Idle]

Goto(c, pc) == call' = [call EXCEPT ![c].pc = pc]

\* A request that passed validateRequest.  A check asks for a bit of the block
\* its mask names.
Begin(c, op, u, l, m) ==
  /\ call[c] = Idle
  /\ calls < MaxCalls
  /\ calls' = calls + 1
  /\ call' = [call EXCEPT ![c] = [pc |-> "load", op |-> op, u |-> u, lvl |-> l,
                                  mask |-> m, rec |-> None, after |-> u \in barred]]
  /\ overlap' = (overlap \/ (op \in Writes /\ \E d \in Clients : call[d].op \in Writes))
  /\ masked' = (masked \/ (op = "register" /\ m # 0))
  /\ UNCHANGED <<useChain, agents, perms, chain, won, barred, leaked, faults>>

\* HandleRegister: the uuid is free; the entity is built and its permissions
\* are the requested ones, unchecked, or the default of the level.
Exists(c) ==
  LET q == call[c]
      p == IF q.mask = 0 THEN DefaultMaxPermissions(q.lvl) ELSE q.mask IN
  /\ q.pc = "load" /\ q.op = "register"
  /\ agents[q.u] = None
  /\ call' = [call EXCEPT ![c].pc = "put", ![c].mask = p, ![c].rec = NewAgent(q.lvl)]
  /\ UNCHANGED <<history, useChain, agents, perms, chain, won, faults, calls>>

\* The other workflows: GetAgent and the checks.
GetAgent(c) ==
  LET q == call[c] IN
  /\ q.pc = "load" /\ q.op \in Writes \ {"register"}
  /\ agents[q.u] # None
  /\ Accepts(q.op, agents[q.u], q.lvl)
  /\ call' = [call EXCEPT ![c].pc = "put", ![c].rec = Updated(q.op, agents[q.u], q.lvl)]
  /\ UNCHANGED <<history, useChain, agents, perms, chain, won, faults, calls>>

\* The request is refused on what is stored, or the store cannot be read.
Refuse(c) ==
  LET q == call[c] IN
  /\ q.pc = "load"
  /\ \/ q.op = "register" /\ agents[q.u] # None /\ UNCHANGED faults
     \/ /\ q.op # "register"
        /\ agents[q.u] = None \/ (q.op \in Writes /\ ~Accepts(q.op, agents[q.u], q.lvl))
        /\ UNCHANGED faults
     \/ Fault
  /\ Return(c)
  /\ UNCHANGED <<history, useChain, agents, perms, chain, won, calls>>

\* PutAgent of the whole record, whatever is stored by now.
PutAgent(c) ==
  LET q == call[c] IN
  /\ q.pc = "put"
  /\ agents' = [agents EXCEPT ![q.u] = q.rec]
  /\ Goto(c, IF q.op \in {"register", "upgrade"} THEN "perms" ELSE "chain")
  /\ UNCHANGED <<history, useChain, perms, chain, won, faults, calls>>

\* SetPermissions overwrites the mask.
SetPermissions(c) ==
  LET q == call[c] IN
  /\ q.pc = "perms"
  /\ perms' = [perms EXCEPT ![q.u] =
       IF q.op = "register" THEN q.mask ELSE DefaultMaxPermissions(q.lvl)]
  /\ Goto(c, "chain")
  /\ UNCHANGED <<history, useChain, agents, chain, won, faults, calls>>

\* It fails: HandleRegister gives up, HandleUpgrade goes on.
SetPermissionsFails(c) ==
  /\ call[c].pc = "perms"
  /\ Fault
  /\ \/ call[c].op = "register" /\ Return(c)
     \/ call[c].op = "upgrade" /\ Goto(c, "chain")
  /\ UNCHANGED <<history, useChain, agents, perms, chain, won, calls>>

\* The workflow reports success; the audit notification is best effort.
Succeed(c) ==
  /\ won' = IF call[c].op = "register" THEN [won EXCEPT ![call[c].u] = @ + 1] ELSE won
  /\ barred' = IF call[c].op \in {"ban", "revoke"} THEN barred \cup {call[c].u} ELSE barred
  /\ Return(c)

\* The chain confirms, or there is none.
Chain(c) ==
  LET q == call[c] IN
  /\ q.pc = "chain"
  /\ \/ /\ useChain /\ ChainAccepts(q.op, q.u)
        /\ chain' = [chain EXCEPT ![q.u] = ChainEffect(q.op, q.u, q.lvl)]
     \/ ~useChain /\ UNCHANGED chain
  /\ Succeed(c)
  /\ UNCHANGED <<overlap, masked, leaked, useChain, agents, perms, faults, calls>>

ChainFails_Swallowed(c) ==
  /\ call[c].pc = "chain"
  /\ useChain
  /\ \/ ~ChainAccepts(call[c].op, call[c].u) /\ UNCHANGED faults
     \/ Fault
  /\ Succeed(c)
  /\ UNCHANGED <<overlap, masked, leaked, useChain, agents, perms, chain, calls>>

\* The chain refuses or cannot be reached: an error, and nothing is undone.
ChainFails(c) ==
  /\ call[c].pc = "chain"
  /\ useChain
  /\ \/ ~ChainAccepts(call[c].op, call[c].u) /\ UNCHANGED faults
     \/ Fault
  /\ Return(c)
  /\ UNCHANGED <<history, useChain, agents, perms, chain, won, calls>>

Abandon_PutErrorIgnored(c) ==
  /\ call[c].pc = "put"
  /\ Fault
  /\ Goto(c, "perms")
  /\ UNCHANGED <<history, useChain, agents, perms, chain, won, calls>>

\* PutAgent fails, or the request is cancelled or its process dies: what is
\* stored so far stays.
Abandon(c) ==
  /\ call[c].pc \in {"put", "perms", "chain"}
  /\ Fault
  /\ Return(c)
  /\ UNCHANGED <<history, useChain, agents, perms, chain, won, calls>>

-----------------------------------------------------------------------------
(* The readers. *)

ReadAgent_NoGate(c) ==
  LET q == call[c] IN
  /\ q.pc = "load" /\ q.op \in Reads
  /\ agents[q.u] # None
  /\ call' = [call EXCEPT ![c].pc = "read", ![c].rec = agents[q.u]]
  /\ UNCHANGED <<history, useChain, agents, perms, chain, won, faults, calls>>

\* HandleCheckPermission denies a banned or unregistered agent at once;
\* otherwise the permissions are read next.
ReadAgent(c) ==
  LET q == call[c] IN
  /\ q.pc = "load" /\ q.op \in Reads
  /\ agents[q.u] # None
  /\ IF q.op = "check" /\ agents[q.u].state \in {"unregistered", "banned"} THEN Return(c)
     ELSE call' = [call EXCEPT ![c].pc = "read", ![c].rec = agents[q.u]]
  /\ UNCHANGED <<history, useChain, agents, perms, chain, won, faults, calls>>

\* GetPermissions: a check is answered, HandleGetInfo goes on to the chain
\* when there is one.  A failed call is an error of either.
ReadPermissions(c) ==
  LET q == call[c] IN
  /\ q.pc = "read"
  /\ \/ /\ q.op = "check"
        /\ leaked' = IF perms[q.u] >= q.mask /\ q.after THEN leaked \cup {q.u} ELSE leaked
        /\ Return(c)
        /\ UNCHANGED faults
     \/ /\ q.op = "info"
        /\ IF useChain THEN Goto(c, "state") ELSE Return(c)
        /\ UNCHANGED <<leaked, faults>>
     \/ Fault /\ Return(c) /\ UNCHANGED leaked
  /\ UNCHANGED <<overlap, masked, barred, useChain, agents, perms, chain, won, calls>>

\* GetAgentState of HandleGetInfo; an error leaves ChainState out of the view.
ReadChain(c) ==
  /\ call[c].pc = "state"
  /\ Return(c)
  /\ UNCHANGED <<history, useChain, agents, perms, chain, won, faults, calls>>

-----------------------------------------------------------------------------

Request(c) ==
  \E u \in Agents :
    \/ \E l \in Levels, m \in Masks : Begin(c, "register", u, l, m)
    \/ \E l \in Levels : Begin(c, "upgrade", u, l, 0)
    \/ \E op \in {"ban", "unban", "revoke", "info"} : Begin(c, op, u, 0, 0)
    \/ \E m \in 1..4 : Begin(c, "check", u, 0, m)

Step(c) ==
  \/ Exists(c) \/ GetAgent(c) \/ Refuse(c) \/ PutAgent(c) \/ SetPermissions(c)
  \/ SetPermissionsFails(c) \/ Chain(c) \/ ChainFails(c) \/ Abandon(c)
  \/ ReadAgent(c) \/ ReadPermissions(c) \/ ReadChain(c)

Next == \E c \in Clients : Request(c) \/ Step(c)

Spec == Init /\ [][Next]_vars

-----------------------------------------------------------------------------

AgentRecord == [state : States, level : 0..MaxLevel]

OnChain == [state : {"active", "banned"}, level : 0..MaxLevel]

CallRecord ==
  [pc : {"load", "put", "perms", "chain", "read", "state"}, op : Writes \cup Reads,
   u : Agents, lvl : 0..MaxLevel, mask : 0..4, after : BOOLEAN, rec : AgentRecord \cup {None}]

TypeOK ==
  /\ agents \in [Agents -> AgentRecord \cup {None}]
  /\ perms \in [Agents -> 0..4]
  /\ chain \in [Agents -> OnChain \cup {None}]
  /\ won \in [Agents -> Nat]
  /\ useChain \in BOOLEAN
  /\ faults \in 0..MaxFaults
  /\ calls \in 0..MaxCalls
  /\ call \in [Clients -> CallRecord \cup {Idle}]
  /\ overlap \in BOOLEAN /\ masked \in BOOLEAN
  /\ barred \subseteq Agents /\ leaked \subseteq Agents

\* The store is written before the chain and nothing is ever deleted: the
\* chain knows no agent the store has lost, whatever fails half way.
ChainKnowsOnlyStored == \A u \in Agents : chain[u] # None => agents[u] # None

\* Racing registrations of one UUID all pass the Exists check; with a chain at
\* most one of them reports success.
OneRegistrationWins == useChain => \A u \in Agents : won[u] <= 1

\* PermissionWithinLevelInvariant of domain/invariants.go, for the stored
\* level and the stored mask: it holds as long as requests come one after the
\* other and registrations leave the mask to the level (HandleRegister stores
\* an explicit mask unchecked).
PermsWithinLevel ==
  ~overlap /\ ~masked => \A u \in Agents : agents[u] # None => perms[u] <= DefaultMaxPermissions(agents[u].level)

\* The chain's level is never ahead of the stored one: an upgrade is stored
\* first, and no failure takes the stored level back.  Writes that overlap
\* can, with the whole record they read before.
ChainNeverAhead ==
  ~overlap => \A u \in Agents : chain[u] # None => chain[u].level <= agents[u].level

\* Revoke is permanent (revoke.go): a revoked agent stays unregistered.
RevokeIsPermanent ==
  [][\A u \in Agents : agents[u].state = "unregistered" =>
       agents'[u].state = "unregistered"]_agents

\* A permission check that begins after a ban or a revocation was reported done
\* is denied, however its two reads interleave with failing, refused or half
\* done writes; only writes that overlap can bring the agent back.
BarredStaysDenied == ~overlap => leaked = {}

\* The store leads the chain: what the chain knows is stored, and at no lower
\* level, whatever fails between the calls of a workflow.
StoreLeadsChain == ChainKnowsOnlyStored /\ ChainNeverAhead

-----------------------------------------------------------------------------
(* The inductive invariant.  Some facts hold of every interleaving; the     *)
(* others only while no two writes have overlapped: then the record a       *)
(* workflow read is still the stored one when it writes it back.            *)

\* What is known of a request q at any time, given the stored record a of its
\* agent and whether that agent is barred.
Shape(q, a, bar) ==
  /\ q.pc \in {"put", "perms", "chain"} => q.op \in Writes
  /\ q.pc \in {"read", "state"} => q.op \in Reads
  /\ q.pc = "perms" => q.op \in {"register", "upgrade"}
  /\ q.pc = "put" => q.rec # None
  /\ q.pc \in {"perms", "chain"} => a # None
  /\ q.after => bar

ShapeInv == \A c \in Clients : Shape(call[c], agents[call[c].u], call[c].u \in barred)

\* An unknown agent has no permissions, and each registration the chain
\* confirms is the one success of its UUID.
StoreInv ==
  /\ ChainKnowsOnlyStored
  /\ \A u \in Agents :
       /\ agents[u] = None => perms[u] = 0
       /\ useChain => won[u] <= (IF chain[u] = None THEN 0 ELSE 1)

\* A registration that names no mask gets the one of its level.
MaskInv ==
  ~masked => \A c \in Clients : call[c].op = "register" =>
    call[c].mask = IF call[c].pc = "load" THEN 0 ELSE DefaultMaxPermissions(call[c].lvl)

Barring == {"banned", "unregistered"}

\* What else is known of q while no writes have overlapped: the stored record
\* is still the one q has read, or the one it has written.
Solo(q, a) ==
  /\ q.pc = "put" =>
       IF q.op = "register" THEN a = None /\ q.rec = NewAgent(q.lvl)
       ELSE a # None /\ Accepts(q.op, a, q.lvl) /\ q.rec = Updated(q.op, a, q.lvl)
  /\ q.pc \in {"perms", "chain"} =>
       /\ q.op \in {"register", "upgrade"} => a.level = q.lvl
       /\ q.op \in {"ban", "revoke"} => a.state \in Barring
  /\ q.pc = "read" /\ q.op = "check" => ~q.after

SoloInv ==
  ~overlap => /\ \A c, d \in Clients : call[c].op \in Writes /\ call[d].op \in Writes => c = d
              /\ \A c \in Clients : Solo(call[c], agents[call[c].u])
              /\ \A u \in barred : agents[u].state \in Barring

ServiceInv ==
  /\ TypeOK /\ ShapeInv /\ StoreInv /\ MaskInv /\ SoloInv
  /\ ChainNeverAhead /\ PermsWithinLevel /\ BarredStaysDenied
=============================================================================
