---------------------------- MODULE HybridBackend ----------------------------
(***************************************************************************)
(* HybridBackend: write to the chain first, then mirror the write to the   *)
(* local store (best effort); read locally and fall back to the chain,     *)
(* backfilling the local store; a background syncer copies newer chain     *)
(* records over older local ones.                                          *)
(*                                                                         *)
(* Nothing orders these: HybridBackend.mu is never taken, the mirror step  *)
(* of a write holds LocalBackend.mu, and every backfill calls              *)
(* pers.PutAgent directly, without that lock.  Each persistence call and   *)
(* each chain call is one step.                                            *)
(***************************************************************************)
EXTENDS ChainAdapter, LocalBackend

CONSTANTS Readers,   \* goroutines inside GetAgentInfo / BatchGetAgentInfo
          Syncers    \* invocations of runOnce: the ticker's loop, SyncNow

VARIABLES read,      \* read[r]: what reader r still has to fetch and to backfill
          sync,      \* sync[s]: the pass syncer s is in
          held       \* history: every state and level the chain has ever shown

vars == <<clock, faults, chain, local, logs, mu, call, read, sync, held>>

NoRead == [us |-> {}, got |-> [u \in Agents |-> Absent]]

NoPass == [pc |-> "idle", list |-> [u \in Agents |-> 0], u |-> "none", rec |-> Absent]

Init ==
  /\ ChainInit
  /\ LocalInit
  /\ read = [r \in Readers |-> NoRead]
  /\ sync = [s \in Syncers |-> NoPass]
  /\ held = [u \in Agents |-> [states |-> {}, levels |-> {}]]

\* A uuid is random and known to callers only once RegisterAgent returned it.
Known(u) == OnChain(u) /\ ~Registering(u)

-----------------------------------------------------------------------------
(* Writes: the chain call, then the mirror. *)

\* RegisterAgent up to the chain call: a fresh uuid, and the stamp the
\* credential carries, taken before the chain confirms.
BeginRegister(w, u, l) ==
  /\ call[w] = Idle
  /\ clock < MaxClock
  /\ ~OnChain(u) /\ ~Registering(u)
  /\ clock' = clock + 1
  /\ call' = [call EXCEPT ![w] = [pc |-> "chain", op |-> "register", u |-> u, lvl |-> l,
                                  rec |-> Info("active", l, clock + 1), at |-> 0]]
  /\ UNCHANGED <<faults, chain, local, logs, mu, read, sync, held>>

\* UpdateAgentLevel, BanAgent, UnbanAgent or UnregisterAgent is called.
BeginWrite(w, op, u, l) ==
  /\ call[w] = Idle
  /\ clock < MaxClock
  /\ Known(u)
  /\ call' = [call EXCEPT ![w] = [pc |-> "chain", op |-> op, u |-> u, lvl |-> l,
                                  rec |-> Absent, at |-> 0]]
  /\ UNCHANGED <<clock, faults, chain, local, logs, mu, read, sync, held>>

\* The transaction each operation sends.
Transact(op, u, l) ==
  \/ op = "register"   /\ ChainRegister(u, l)
  \/ op = "upgrade"    /\ ChainUpdateLevel(u, l)
  \/ op = "ban"        /\ ChainBan(u)
  \/ op = "unban"      /\ ChainUnban(u)
  \/ op = "unregister" /\ ChainRevoke(u)

Record(u) ==
  held' = [held EXCEPT ![u] = [states |-> @.states \cup {mapChainState(chain'[u].state)},
                               levels |-> @.levels \cup {chain'[u].level}]]

ChainCall_MirrorFirst(w) ==
  LET c == call[w] IN
  /\ c.pc = "chain"
  /\ UNCHANGED <<clock, chain, held>>
  /\ call' = [call EXCEPT ![w].pc = IF c.op = "register" THEN "mirror" ELSE "local"]
  /\ UNCHANGED <<faults, local, logs, mu, read, sync>>

\* The chain confirms: go on to the local store.
ChainCall(w) ==
  LET c == call[w] IN
  /\ c.pc = "chain"
  /\ Transact(c.op, c.u, c.lvl)
  /\ Record(c.u)
  /\ call' = [call EXCEPT ![w].pc = IF c.op = "register" THEN "mirror" ELSE "local"]
  /\ UNCHANGED <<faults, local, logs, mu, read, sync>>

\* A revoked agent takes no upgrade and no ban.
Refused(c) == c.op \in {"upgrade", "ban"} /\ chain[c.u].state = "revoked"

ChainFails_StillMirrors(w) ==
  LET c == call[w] IN
  /\ c.pc = "chain"
  /\ \/ Refused(c) /\ UNCHANGED faults
     \/ Fault
  /\ call' = [call EXCEPT ![w].pc = IF c.op = "register" THEN "mirror" ELSE "local"]
  /\ UNCHANGED <<clock, chain, local, logs, mu, read, sync, held>>

\* The chain refuses or cannot be reached: the error is returned and the
\* local store is not touched.
ChainFails(w) ==
  /\ call[w].pc = "chain"
  /\ \/ Refused(call[w]) /\ UNCHANGED faults
     \/ Fault
  /\ Return(w)
  /\ UNCHANGED <<clock, chain, local, logs, mu, read, sync, held>>

\* mirrorToLocal: PutAgent of the credential; its "register" entry follows as
\* in LocalBackend.RegisterAgent (LogRegistration).
Mirror(w) ==
  LET c == call[w] IN
  /\ c.pc = "mirror"
  /\ local' = [local EXCEPT ![c.u] = c.rec]
  /\ call' = [call EXCEPT ![w].pc = "registered"]
  /\ UNCHANGED <<clock, faults, chain, logs, mu, read, sync, held>>

\* mirrorToLocal fails on PutAgent; RegisterAgent succeeds all the same.
MirrorFails(w) ==
  /\ call[w].pc = "mirror"
  /\ Fault
  /\ Return(w)
  /\ UNCHANGED <<clock, chain, local, logs, mu, read, sync, held>>

\* The local operation of a confirmed write, its result ignored, and the log
\* entry of a mirrored registration.
LocalCall(w) == LocalStep(w) /\ UNCHANGED <<chain, read, sync, held>>

-----------------------------------------------------------------------------
(* Reads: GetAgentInfo is the case of one uuid, BatchGetAgentInfo of several. *)

\* The local lookup; what it misses is asked of the chain.  A full hit
\* returns at once and changes nothing.
ReadLocal(r, us) ==
  LET missing == {u \in us : local[u] = Absent} IN
  /\ read[r] = NoRead
  /\ missing # {}
  /\ read' = [read EXCEPT ![r].us = missing]
  /\ UNCHANGED <<clock, faults, chain, local, logs, mu, call, sync, held>>

\* GetAgentInfo when the local store is down: not found, like a miss.
ReadLocalFails(r, u) ==
  /\ read[r] = NoRead
  /\ Fault
  /\ read' = [read EXCEPT ![r].us = {u}]
  /\ UNCHANGED <<clock, chain, local, logs, mu, call, sync, held>>

\* BatchGetAgentInfo drops the error of the local BatchGet and is left with a
\* nil map.  If the chain finds any of the uuids, the first assignment to the
\* map panics before its backfill; the caller's goroutine ends there.
BatchPanics(r) ==
  /\ read[r] = NoRead
  /\ \E u \in Agents : Known(u)
  /\ Fault
  /\ UNCHANGED <<clock, chain, local, logs, mu, call, read, sync, held>>

\* One of the concurrent chain queries answers.
ReadChain(r, u) ==
  /\ u \in read[r].us
  /\ read' = [read EXCEPT ![r].us = @ \ {u}, ![r].got[u] = ChainInfo(u)]
  /\ UNCHANGED <<clock, faults, chain, local, logs, mu, call, sync, held>>

\* One of the chain queries fails and its uuid is left out of the result.
ReadChainFails(r, u) ==
  /\ u \in read[r].us
  /\ Fault
  /\ read' = [read EXCEPT ![r].us = @ \ {u}]
  /\ UNCHANGED <<clock, chain, local, logs, mu, call, sync, held>>

\* The backfill of one fetched record, after all queries have answered:
\* PutAgent without LocalBackend.mu, whatever the store holds by now.
Backfill(r, u) ==
  /\ read[r].us = {}
  /\ read[r].got[u] # Absent
  /\ \/ local' = [local EXCEPT ![u] = read[r].got[u]] /\ UNCHANGED faults
     \/ Fault /\ UNCHANGED local
  /\ read' = [read EXCEPT ![r].got[u] = Absent]
  /\ UNCHANGED <<clock, chain, logs, mu, call, sync, held>>

-----------------------------------------------------------------------------
(* The syncer's runOnce. *)

\* ListAll: a snapshot of the stamps of every agent on the chain.
SyncList(s) ==
  /\ sync[s] = NoPass
  /\ \E u \in Agents : OnChain(u)
  /\ sync' = [sync EXCEPT ![s].pc = "loop", ![s].list = [u \in Agents |-> chain[u].at]]
  /\ UNCHANGED <<clock, faults, chain, local, logs, mu, call, read, held>>

\* The pass as it stands once the entry of u is done with.
Advance(p) ==
  IF \A u \in Agents : p.list[u] = 0 THEN NoPass
  ELSE [p EXCEPT !.pc = "loop", !.u = "none", !.rec = Absent]

Behind_MissingOnly(u, t) == local[u] = Absent

\* The local record is missing or older than the listed chain record.
Behind(u, t) == local[u] = Absent \/ local[u].at < t

\* The next listed agent: GetAgent and the comparison of the stamps.  A
\* failing GetAgent counts as a missing record.
SyncCompare(s, u) ==
  LET p == [sync[s] EXCEPT !.list[u] = 0]
      fetch == [p EXCEPT !.pc = "fetch", !.u = u] IN
  /\ sync[s].pc = "loop"
  /\ sync[s].list[u] # 0
  /\ \/ ~Behind(u, sync[s].list[u]) /\ sync' = [sync EXCEPT ![s] = Advance(p)] /\ UNCHANGED faults
     \/ Behind(u, sync[s].list[u]) /\ sync' = [sync EXCEPT ![s] = fetch] /\ UNCHANGED faults
     \/ Fault /\ sync' = [sync EXCEPT ![s] = fetch]
  /\ UNCHANGED <<clock, chain, local, logs, mu, call, read, held>>

\* The chain's current record; on an error the agent is passed over.
SyncFetch(s) ==
  LET u == sync[s].u IN
  /\ sync[s].pc = "fetch"
  /\ \/ sync' = [sync EXCEPT ![s].pc = "put", ![s].rec = ChainInfo(u)] /\ UNCHANGED faults
     \/ Fault /\ sync' = [sync EXCEPT ![s] = Advance(@)]
  /\ UNCHANGED <<clock, chain, local, logs, mu, call, read, held>>

\* PutAgent of the fetched record, again without LocalBackend.mu.
SyncPut(s) ==
  /\ sync[s].pc = "put"
  /\ \/ local' = [local EXCEPT ![sync[s].u] = sync[s].rec] /\ UNCHANGED faults
     \/ Fault /\ UNCHANGED local
  /\ sync' = [sync EXCEPT ![s] = Advance(@)]
  /\ UNCHANGED <<clock, chain, logs, mu, call, read, held>>

-----------------------------------------------------------------------------

WriterStep(w) ==
  ChainCall(w) \/ ChainFails(w) \/ Mirror(w) \/ MirrorFails(w) \/ LocalCall(w)

Begin(w) ==
  \E u \in Agents :
    \/ \E l \in Levels : BeginRegister(w, u, l) \/ BeginWrite(w, "upgrade", u, l)
    \/ \E op \in LocalOps \ {"upgrade"} : BeginWrite(w, op, u, 0)

BeginRead(r) ==
  \/ \E us \in SUBSET {u \in Agents : Known(u)} : ReadLocal(r, us)
  \/ \E u \in Agents : Known(u) /\ ReadLocalFails(r, u)
  \/ BatchPanics(r)

ReaderStep(r) ==
  \E u \in Agents : ReadChain(r, u) \/ ReadChainFails(r, u) \/ Backfill(r, u)

SyncStep(s) ==
  SyncList(s) \/ SyncFetch(s) \/ SyncPut(s) \/ \E u \in Agents : SyncCompare(s, u)

Next ==
  \/ \E w \in Writers : Begin(w) \/ WriterStep(w)
  \/ \E r \in Readers : BeginRead(r) \/ ReaderStep(r)
  \/ \E s \in Syncers : SyncStep(s)

\* Goroutines inside a call run on, the lock is handed to every waiter, and
\* the ticker keeps starting passes.  Nobody has to make a call.
Fairness ==
  /\ \A w \in Writers : SF_vars(WriterStep(w))
  /\ \A r \in Readers : WF_vars(ReaderStep(r))
  /\ \A s \in Syncers : WF_vars(SyncStep(s))

Spec == Init /\ [][Next]_vars /\ Fairness

-----------------------------------------------------------------------------

WriteCall ==
  [pc : {"chain", "mirror", "registered", "local", "put", "log"}, op : LocalOps \cup {"register"},
   u : Agents, lvl : Levels \cup {0}, rec : AgentInfo \cup {Absent}, at : Nat]

TypeOK ==
  /\ clock \in Nat
  /\ faults \in 0..MaxFaults
  /\ chain \in [Agents -> ChainRecord \cup {Absent}]
  /\ local \in [Agents -> AgentInfo \cup {Absent}]
  /\ logs \in [Agents -> SUBSET LogEntry]
  /\ mu \in Writers \cup {Free}
  /\ call \in [Writers -> WriteCall \cup {Idle}]
  /\ read \in [Readers -> [us : SUBSET Agents, got : [Agents -> AgentInfo \cup {Absent}]]]
  /\ sync \in [Syncers -> [pc : {"idle", "loop", "fetch", "put"}, list : [Agents -> Nat],
                           u : Agents \cup {"none"}, rec : AgentInfo \cup {Absent}]]
  /\ held \in [Agents -> [states : SUBSET InfoStates, levels : SUBSET Levels]]

\* A mirrored record shows, field by field, only what the chain has shown:
\* no interleaving of mirrors, backfills and passes invents a state or a level.
MirrorShowsOnlyChainHistory ==
  \A u \in Agents : local[u] # Absent =>
    local[u].state \in held[u].states /\ local[u].level \in held[u].levels

\* The local store never reports an agent as unregistered that the chain has
\* not revoked: revocation is final on the chain, so the report stays true.
NoFalseRevocation ==
  \A u \in Agents : local[u].state = "unregistered" => chain[u].state = "revoked"

\* runOnce skips a record whose stamp equals the chain's: such a record is the
\* chain's record, so skipping it hides no difference.
EqualStampsAgree ==
  \A u \in Agents : OnChain(u) /\ local[u].at = chain[u].at => local[u] = ChainInfo(u)

\* Every entry of the local audit log records a change that the chain has
\* confirmed: the log is never ahead of the chain.
AuditNeverAheadOfChain ==
  \A u \in Agents : \A e \in logs[u] :
    IF e.action = "upgrade" THEN e.newLevel \in held[u].levels
    ELSE e.new \in held[u].states

ChainLifecycle == INSTANCE AgentLifecycle WITH status <- [u \in Agents |-> ChainStatus(u)]

\* The chain follows the lifecycle table of domain/state.go, whatever mix of
\* writers, backfills and passes runs above it.
ChainFollowsLifecycle == ChainLifecycle!Spec

\* Loss and lag are repaired: a known agent that is missing from the local
\* store, or there with a stamp older than the chain's, gets a record sooner
\* or later that is not older than the chain's.
LagRepaired ==
  \A u \in Agents : (Known(u) /\ local[u].at < chain[u].at) ~> local[u].at >= chain[u].at

\* What the package comment claims of the syncer (it prevents drift): once
\* calls have stopped, local store and chain agree for good.
DriftRepaired ==
  <>[](\A u \in Agents : OnChain(u) =>
         /\ local[u].state = ChainInfo(u).state
         /\ local[u].level = ChainInfo(u).level)

-----------------------------------------------------------------------------
(* The inductive invariant.  Every copy of a chain record, wherever it is   *)
(* in flight (a reader's result, a syncer's record, a pending mirror), is   *)
(* as faithful as the local store is required to be, and every local        *)
(* operation under way has been confirmed by the chain.                     *)

\* rec is a copy of agent data the chain's history h accounts for; cr is the
\* chain's record now, t the current time.
Faithful(h, cr, t, rec) ==
  rec # Absent => /\ rec.state \in h.states
                  /\ rec.level \in h.levels
                  /\ rec.at <= t
                  /\ rec.at = cr.at => rec = AsInfo(cr)

\* The chain's own record is in its history, and "unregistered" enters that
\* history only by the final revocation.
ChainInv ==
  \A u \in Agents :
    /\ OnChain(u) => /\ mapChainState(chain[u].state) \in held[u].states
                     /\ "active" \in held[u].states
                     /\ chain[u].level \in held[u].levels
                     /\ chain[u].at \in 1..clock
    /\ "unregistered" \in held[u].states => chain[u].state = "revoked"

LocalInv == \A u \in Agents : Faithful(held[u], chain[u], clock, local[u])

ReadInv ==
  \A r \in Readers : \A u \in Agents :
    /\ Faithful(held[u], chain[u], clock, read[r].got[u])
    /\ u \in read[r].us => OnChain(u)

SyncInv ==
  \A s \in Syncers :
    /\ \A u \in Agents : sync[s].list[u] # 0 => OnChain(u)
    /\ sync[s].pc \in {"fetch", "put"} => sync[s].u \in Agents /\ OnChain(sync[s].u)
    /\ sync[s].pc = "put" =>
         /\ sync[s].rec \in AgentInfo
         /\ Faithful(held[sync[s].u], chain[sync[s].u], clock, sync[s].rec)

\* The chain has confirmed what a local operation is about to apply.
Confirmed(op, l, h) ==
  /\ op = "upgrade"    => l \in h.levels
  /\ op = "ban"        => "banned" \in h.states
  /\ op = "unban"      => "active" \in h.states
  /\ op = "unregister" => "unregistered" \in h.states

\* What is known of a call c under way, given the history h and the record cr
\* of its agent and the time t.
CallOK(c, h, cr, t) ==
  /\ c.pc = "chain" =>
       IF c.op = "register"
       THEN c.rec = Info("active", c.lvl, c.rec.at) /\ c.rec \in AgentInfo /\ c.rec.at <= t
       ELSE cr.state # "absent" /\ (c.op = "upgrade" => c.lvl \in Levels)
  /\ c.pc \in {"mirror", "registered"} => c.rec \in AgentInfo /\ Faithful(h, cr, t, c.rec)
  /\ c.pc \in {"local", "put", "log"} => c.op \in LocalOps /\ Confirmed(c.op, c.lvl, h)
  /\ c.pc \in {"put", "log"} =>
       c.rec \in AgentInfo /\ c.rec.state \in h.states /\ c.rec.level \in h.levels

CallInv ==
  \A w \in Writers : call[w] # Idle =>
    CallOK(call[w], held[call[w].u], chain[call[w].u], clock)

IInv ==
  /\ TypeOK
  /\ ChainInv
  /\ LocalInv
  /\ ReadInv
  /\ SyncInv
  /\ CallInv
  /\ AuditNeverAheadOfChain
=============================================================================
