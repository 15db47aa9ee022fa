------------------------- MODULE HybridBackendProofs -------------------------
(***************************************************************************)
(* Proofs about HybridBackend for every number of agents, levels,          *)
(* goroutines, syncers and failures.  IInv is inductive: a copy of a chain *)
(* record stays faithful while it is in flight because the chain's history *)
(* only grows and a new confirmation has a stamp no copy carries yet.  The *)
(* last part is about SyncerLifecycle, the other model of hybrid.go.       *)
(***************************************************************************)
EXTENDS HybridBackend, SyncerLifecycle, TLAPS

USE LevelsAssumption, MaxFaultsAssumption, MaxClockAssumption

\* Levels are numbers.
LEMMA LevelsNat == \A l \in Levels \cup {0} : l \in Nat
  OBVIOUS

\* A copy stays faithful when the history grows, time passes and the chain's
\* record either stays or gets a stamp in the copy's future.
LEMMA FaithfulGrows ==
  ASSUME NEW h, NEW g, NEW cr, NEW dr, NEW t \in Nat, NEW s \in Nat,
         NEW rec \in AgentInfo \cup {Absent},
         h.states \subseteq g.states, h.levels \subseteq g.levels, t <= s,
         dr = cr \/ dr.at > t,
         Faithful(h, cr, t, rec)
  PROVE  Faithful(g, dr, s, rec)
  BY DEF Faithful, AgentInfo

\* Absence has the stamp 0 that no record on the chain has.
LEMMA FaithfulAbsent ==
  ASSUME NEW h, NEW cr, NEW t
  PROVE  Faithful(h, cr, t, Absent)
  BY DEF Faithful

\* mapChainState on the three states a chain record can have.
LEMMA MapCases ==
  /\ mapChainState("active") = "active"
  /\ mapChainState("banned") = "banned"
  /\ mapChainState("revoked") = "unregistered"
  BY DEF mapChainState

\* Only a record that exists is ever written by a local operation.
LEMMA AcceptsPresent ==
  ASSUME NEW op, NEW rec, NEW l, Accepts(op, rec, l)
  PROVE  rec # Absent
  BY DEF Accepts, Absent

\* What each local operation writes.
LEMMA AppliedCases ==
  ASSUME NEW rec, NEW l, NEW t
  PROVE  /\ Applied("upgrade", rec, l, t) = Info(rec.state, l, t)
         /\ Applied("ban", rec, l, t) = Info("banned", rec.level, t)
         /\ Applied("unban", rec, l, t) = Info("active", rec.level, t)
         /\ Applied("unregister", rec, l, t) = Info("unregistered", rec.level, t)
  BY DEF Applied

\* The chain's record, read as an AgentInfo, is a faithful copy of itself.
LEMMA ChainInfoFaithful ==
  ASSUME IInv, NEW u \in Agents, OnChain(u)
  PROVE  /\ ChainInfo(u) \in AgentInfo
         /\ Faithful(held[u], chain[u], clock, ChainInfo(u))
<1>1. chain[u] \in ChainRecord
  BY DEF IInv, TypeOK, OnChain, Absent
<1>2. ChainInfo(u) \in AgentInfo
  BY <1>1, MapCases DEF ChainInfo, AsInfo, Info, AgentInfo, ChainRecord, ChainStates, InfoStates
<1>3. Faithful(held[u], chain[u], clock, ChainInfo(u))
  BY <1>1 DEF IInv, ChainInv, TypeOK, Faithful, ChainInfo, AsInfo, Info, ChainRecord
<1>. QED BY <1>2, <1>3

\* Init establishes the invariant.
LEMMA InitIInv == Init => IInv
<1>. SUFFICES ASSUME Init PROVE IInv
  OBVIOUS
<1>. USE DEF Init, ChainInit, LocalInit
<1>1. TypeOK
  BY DEF TypeOK, NoRead, NoPass
<1>2. ChainInv
  BY DEF ChainInv, OnChain, Absent
<1>3. LocalInv
  BY FaithfulAbsent DEF LocalInv
<1>4. ReadInv
  BY FaithfulAbsent DEF ReadInv, NoRead
<1>5. SyncInv
  BY DEF SyncInv, NoPass
<1>6. CallInv /\ AuditNeverAheadOfChain
  BY DEF CallInv, AuditNeverAheadOfChain
<1>. QED BY <1>1, <1>2, <1>3, <1>4, <1>5, <1>6 DEF IInv

\* A local operation confirmed by the chain writes a record its history
\* accounts for.
LEMMA AppliedFaithful ==
  ASSUME NEW op \in LocalOps, NEW rec \in AgentInfo, NEW l \in Levels \cup {0}, NEW t \in Nat,
         NEW h \in [states : SUBSET InfoStates, levels : SUBSET Levels],
         Confirmed(op, l, h), rec.state \in h.states, rec.level \in h.levels
  PROVE  /\ Applied(op, rec, l, t) \in AgentInfo
         /\ Applied(op, rec, l, t).state \in h.states
         /\ Applied(op, rec, l, t).level \in h.levels
         /\ Applied(op, rec, l, t).at = t
<1>. USE DEF Confirmed, Info, AgentInfo, InfoStates
<1>1. CASE op = "upgrade"
  BY <1>1, AppliedCases
<1>2. CASE op = "ban"
  BY <1>2, AppliedCases
<1>3. CASE op = "unban"
  BY <1>3, AppliedCases
<1>4. CASE op = "unregister"
  BY <1>4, AppliedCases
<1>. QED BY <1>1, <1>2, <1>3, <1>4 DEF LocalOps

-----------------------------------------------------------------------------
(* Every step lets the chain's history grow: a record on the chain stays as *)
(* it is or is replaced by one with a stamp in everybody's future.  Under   *)
(* such a step all copies in flight stay faithful, so each action only has  *)
(* to account for the copies it moves.                                      *)

Grows ==
  /\ clock' \in Nat /\ clock' >= clock
  /\ \A u \in Agents :
       /\ held[u].states \subseteq held'[u].states
       /\ held[u].levels \subseteq held'[u].levels
       /\ \/ chain'[u] = chain[u]
          \/ chain'[u].at > clock /\ chain'[u].state # "absent"

Still == chain' = chain /\ held' = held /\ clock' \in Nat /\ clock' >= clock

\* A step that leaves the chain alone is a case of a growing history.
LEMMA StillGrows == Still => Grows
  BY DEF Still, Grows

\* The chain's own invariant survives a step that leaves the chain alone.
LEMMA StillChain == IInv /\ Still => ChainInv'
  BY DEF IInv, TypeOK, ChainInv, Still, OnChain

\* A record on the chain stays there.
LEMMA GrowsOnChain ==
  ASSUME Grows, NEW u \in Agents, OnChain(u)
  PROVE  OnChain(u)'
  BY DEF Grows, OnChain

\* Any faithful copy is faithful after the step.
LEMMA GrowsFaithful ==
  ASSUME IInv, Grows, NEW u \in Agents, NEW rec \in AgentInfo \cup {Absent},
         Faithful(held[u], chain[u], clock, rec)
  PROVE  Faithful(held'[u], chain'[u], clock', rec)
  BY FaithfulGrows DEF Grows, IInv, TypeOK

\* The local store stays faithful while it is not written.
LEMMA GrowsLocal == IInv /\ Grows /\ local' = local => LocalInv'
<1>. SUFFICES ASSUME IInv, Grows, local' = local, NEW u \in Agents
              PROVE  Faithful(held'[u], chain'[u], clock', local[u])
  BY DEF LocalInv
<1>. QED BY GrowsFaithful DEF IInv, TypeOK, LocalInv

\* The store is still faithful when one faithful record is put into it.
LEMMA PutLocal ==
  ASSUME IInv, Grows, NEW v \in Agents, NEW rec,
         local' = [local EXCEPT ![v] = rec],
         Faithful(held'[v], chain'[v], clock', rec)
  PROVE  LocalInv'
<1>. SUFFICES ASSUME NEW u \in Agents
              PROVE  Faithful(held'[u], chain'[u], clock', local'[u])
  BY DEF LocalInv
<1>1. CASE u = v
  BY <1>1 DEF IInv, TypeOK
<1>2. CASE u # v
  BY <1>2, GrowsFaithful DEF IInv, TypeOK, LocalInv
<1>. QED BY <1>1, <1>2

\* What the readers hold stays faithful while they do not move.
LEMMA GrowsRead == IInv /\ Grows /\ read' = read => ReadInv'
<1>. SUFFICES ASSUME IInv, Grows, read' = read, NEW r \in Readers, NEW u \in Agents
              PROVE  /\ Faithful(held'[u], chain'[u], clock', read[r].got[u])
                     /\ u \in read[r].us => OnChain(u)'
  BY DEF ReadInv
<1>1. read[r].got[u] \in AgentInfo \cup {Absent}
  BY DEF IInv, TypeOK
<1>2. Faithful(held'[u], chain'[u], clock', read[r].got[u])
  BY <1>1, GrowsFaithful DEF IInv, ReadInv
<1>3. u \in read[r].us => OnChain(u)'
  BY GrowsOnChain DEF IInv, ReadInv
<1>. QED BY <1>2, <1>3

\* What the syncers hold stays faithful while they do not move.
LEMMA GrowsSync == IInv /\ Grows /\ sync' = sync => SyncInv'
<1>. SUFFICES ASSUME IInv, Grows, sync' = sync, NEW s \in Syncers
              PROVE  /\ \A u \in Agents : sync[s].list[u] # 0 => OnChain(u)'
                     /\ sync[s].pc \in {"fetch", "put"} =>
                          sync[s].u \in Agents /\ chain'[sync[s].u].state # "absent"
                     /\ sync[s].pc = "put" =>
                          /\ sync[s].rec \in AgentInfo
                          /\ Faithful(held'[sync[s].u], chain'[sync[s].u], clock', sync[s].rec)
  BY DEF SyncInv, OnChain
<1>1. \A u \in Agents : sync[s].list[u] # 0 => OnChain(u)'
  BY GrowsOnChain DEF IInv, SyncInv
<1>2. sync[s].pc \in {"fetch", "put"} =>
        sync[s].u \in Agents /\ chain'[sync[s].u].state # "absent"
  BY DEF IInv, SyncInv, Grows, OnChain
<1>3. sync[s].pc = "put" =>
        /\ sync[s].rec \in AgentInfo
        /\ Faithful(held'[sync[s].u], chain'[sync[s].u], clock', sync[s].rec)
  BY GrowsFaithful DEF IInv, SyncInv
<1>. QED BY <1>1, <1>2, <1>3

\* A call that does not move stays consistent with a growing chain.
LEMMA GrowsCallOK ==
  ASSUME IInv, Grows, NEW w \in Writers, call[w] # Idle
  PROVE  CallOK(call[w], held'[call[w].u], chain'[call[w].u], clock')
<1>. DEFINE c == call[w]
<1>1. c.u \in Agents /\ CallOK(c, held[c.u], chain[c.u], clock)
  BY DEF IInv, TypeOK, CallInv, WriteCall
<1>2. c.pc = "chain" =>
        IF c.op = "register"
        THEN c.rec = Info("active", c.lvl, c.rec.at) /\ c.rec \in AgentInfo /\ c.rec.at <= clock'
        ELSE chain'[c.u].state # "absent" /\ (c.op = "upgrade" => c.lvl \in Levels)
  BY <1>1 DEF IInv, TypeOK, CallOK, Grows, AgentInfo
<1>3. c.pc \in {"mirror", "registered"} =>
        c.rec \in AgentInfo /\ Faithful(held'[c.u], chain'[c.u], clock', c.rec)
  BY <1>1, GrowsFaithful DEF CallOK
<1>4. c.pc \in {"local", "put", "log"} => c.op \in LocalOps /\ Confirmed(c.op, c.lvl, held'[c.u])
  BY <1>1 DEF CallOK, Confirmed, Grows
<1>5. c.pc \in {"put", "log"} =>
        c.rec \in AgentInfo /\ c.rec.state \in held'[c.u].states /\ c.rec.level \in held'[c.u].levels
  BY <1>1 DEF CallOK, Grows
<1>. QED BY <1>2, <1>3, <1>4, <1>5 DEF CallOK

\* Every write call stays consistent while none moves.
LEMMA GrowsCall == IInv /\ Grows /\ call' = call => CallInv'
  BY GrowsCallOK DEF CallInv

\* One call moves, to Idle or to a state that is consistent again.
LEMMA MoveCall ==
  ASSUME IInv, Grows, NEW w \in Writers, NEW c,
         call' = [call EXCEPT ![w] = c],
         c # Idle => CallOK(c, held'[c.u], chain'[c.u], clock')
  PROVE  CallInv'
<1>. SUFFICES ASSUME NEW x \in Writers, call'[x] # Idle
              PROVE  CallOK(call'[x], held'[call'[x].u], chain'[call'[x].u], clock')
  BY DEF CallInv
<1>1. CASE x = w
  BY <1>1 DEF IInv, TypeOK
<1>2. CASE x # w
  <2>1. call'[x] = call[x]
    BY <1>2 DEF IInv, TypeOK
  <2>. QED BY <2>1, GrowsCallOK
<1>. QED BY <1>1, <1>2

\* The audit log stays behind a growing chain.
LEMMA GrowsAudit == IInv /\ Grows /\ logs' = logs => AuditNeverAheadOfChain'
  BY DEF IInv, AuditNeverAheadOfChain, Grows

\* An entry the chain's history accounts for may be appended, or get lost.
LEMMA AppendAudit ==
  ASSUME IInv, Grows, NEW v \in Agents, NEW e, AppendLog(v, e),
         IF e.action = "upgrade" THEN e.newLevel \in held'[v].levels
         ELSE e.new \in held'[v].states
  PROVE  AuditNeverAheadOfChain'
<1>1. CASE logs' = logs
  BY <1>1, GrowsAudit
<1>2. CASE logs' = [logs EXCEPT ![v] = @ \cup {e}]
  BY <1>2 DEF IInv, TypeOK, AuditNeverAheadOfChain, Grows
<1>. QED BY <1>1, <1>2 DEF AppendLog

-----------------------------------------------------------------------------
(* Writer steps. *)

\* HybridBackend.RegisterAgent is entered.
LEMMA BeginRegisterStep ==
  ASSUME IInv, NEW w \in Writers, NEW v \in Agents, NEW l \in Levels, BeginRegister(w, v, l)
  PROVE  IInv'
<1>. DEFINE c == [pc |-> "chain", op |-> "register", u |-> v, lvl |-> l,
                  rec |-> Info("active", l, clock + 1), at |-> 0]
<1>1. Still /\ Grows
  BY StillGrows DEF BeginRegister, IInv, TypeOK, Still
<1>2. Info("active", l, clock + 1) \in AgentInfo
  BY DEF IInv, TypeOK, Info, AgentInfo, InfoStates
<1>3. TypeOK'
  BY <1>2 DEF BeginRegister, IInv, TypeOK, WriteCall
<1>4. CallOK(c, held'[c.u], chain'[c.u], clock')
  BY <1>2 DEF BeginRegister, CallOK, Info, IInv, TypeOK
<1>5. CallInv'
  BY <1>1, <1>4, MoveCall DEF BeginRegister
<1>. QED BY <1>1, <1>3, <1>5, StillChain, GrowsLocal, GrowsRead, GrowsSync, GrowsAudit
         DEF IInv, BeginRegister

\* Any other write of HybridBackend is entered.
LEMMA BeginWriteStep ==
  ASSUME IInv, NEW w \in Writers, NEW v \in Agents, NEW op \in LocalOps,
         NEW l \in Levels \cup {0}, op = "upgrade" => l \in Levels, BeginWrite(w, op, v, l)
  PROVE  IInv'
<1>. DEFINE c == [pc |-> "chain", op |-> op, u |-> v, lvl |-> l, rec |-> Absent,
                  at |-> 0]
<1>1. Still /\ Grows
  BY StillGrows DEF BeginWrite, IInv, TypeOK, Still
<1>2. TypeOK'
  BY DEF BeginWrite, IInv, TypeOK, WriteCall
<1>3. CallOK(c, held'[c.u], chain'[c.u], clock')
  BY DEF BeginWrite, CallOK, Known, OnChain, LocalOps
<1>4. CallInv'
  BY <1>1, <1>3, MoveCall DEF BeginWrite
<1>. QED BY <1>1, <1>2, <1>4, StillChain, GrowsLocal, GrowsRead, GrowsSync, GrowsAudit
         DEF IInv, BeginWrite

\* What a transaction of an operation under way does to the chain: nothing, or
\* a newly stamped record in a state the operation asks for.
LEMMA TransactCases ==
  ASSUME IInv, NEW op, NEW u \in Agents, NEW l \in Levels \cup {0}, Transact(op, u, l),
         op \in {"register", "upgrade"} => l \in Levels
  PROVE  \/ /\ chain' = chain /\ clock' = clock /\ op \in {"ban", "unban", "unregister"}
            /\ OnChain(u)
            /\ op = "ban" => chain[u].state = "banned"
            /\ op = "unregister" => chain[u].state = "revoked"
         \/ \E st \in ChainStates, lv \in Levels :
              /\ Confirm(u, st, lv)
              /\ chain[u].state # "revoked"
              /\ op = "register"   => st = "active" /\ lv = l
              /\ op # "register"   => OnChain(u)
              /\ op = "upgrade"    => lv = l
              /\ op = "ban"        => st = "banned"
              /\ op = "unban"      => st = "active"
              /\ op = "unregister" => st = "revoked"
<1>. USE DEF Noop, ChainStates, OnChain, Transact
<1>0. OnChain(u) => chain[u] \in ChainRecord
  BY DEF IInv, TypeOK, Absent
<1>1. CASE op = "register"
  BY <1>1, <1>0 DEF ChainRegister
<1>2. CASE op = "upgrade"
  BY <1>2, <1>0 DEF ChainUpdateLevel
<1>3. CASE op = "ban"
  BY <1>3, <1>0 DEF ChainBan, ChainRecord
<1>4. CASE op = "unban"
  BY <1>4, <1>0 DEF ChainUnban, ChainRecord
<1>5. CASE op = "unregister"
  BY <1>5, <1>0 DEF ChainRevoke, ChainRecord
<1>. QED BY <1>1, <1>2, <1>3, <1>4, <1>5

\* The chain answers a write: the one step that changes the chain.
LEMMA ChainCallStep ==
  ASSUME IInv, NEW w \in Writers, ChainCall(w)
  PROVE  IInv'
<1>. DEFINE c == call[w]
            d == [c EXCEPT !.pc = IF c.op = "register" THEN "mirror" ELSE "local"]
<1>0. c # Idle /\ c \in WriteCall
  BY DEF ChainCall, IInv, TypeOK, Idle
<1>1. c # Idle /\ c.u \in Agents /\ c.op \in LocalOps \cup {"register"} /\ c.lvl \in Levels \cup {0}
      /\ c.rec \in AgentInfo \cup {Absent} /\ d \in WriteCall
  BY <1>0 DEF WriteCall
<1>2. CallOK(c, held[c.u], chain[c.u], clock)
  BY <1>1 DEF IInv, CallInv
<1>3. c.op \in {"register", "upgrade"} => c.lvl \in Levels
  BY <1>1, <1>2 DEF ChainCall, CallOK, Info, AgentInfo
<1>4. call' = [call EXCEPT ![w] = d]
  BY DEF ChainCall
<1>5. CASE /\ chain' = chain /\ clock' = clock /\ c.op \in {"ban", "unban", "unregister"}
           /\ OnChain(c.u)
           /\ c.op = "ban" => chain[c.u].state = "banned"
           /\ c.op = "unregister" => chain[c.u].state = "revoked"
  <2>1. chain[c.u] \in ChainRecord
    BY <1>1, <1>5 DEF IInv, TypeOK, OnChain, Absent
  <2>2. held' = held
    <3>1. held[c.u] \in [states : SUBSET InfoStates, levels : SUBSET Levels]
      BY <1>1 DEF IInv, TypeOK
    <3>2. /\ mapChainState(chain[c.u].state) \in held[c.u].states
          /\ chain[c.u].level \in held[c.u].levels
      BY <1>1, <1>5 DEF IInv, ChainInv
    <3>3. held[c.u] = [states |-> held[c.u].states \cup {mapChainState(chain[c.u].state)},
                       levels |-> held[c.u].levels \cup {chain[c.u].level}]
      BY <3>1, <3>2
    <3>4. held' = [held EXCEPT ![c.u] = held[c.u]]
      BY <1>5, <3>3 DEF ChainCall, Record
    <3>. QED BY <3>4, <1>1 DEF IInv, TypeOK
  <2>3. Still /\ Grows
    BY <1>5, <2>2, StillGrows DEF Still, IInv, TypeOK
  <2>4. TypeOK'
    BY <1>1, <1>5, <2>2 DEF ChainCall, IInv, TypeOK
  <2>5. Confirmed(c.op, c.lvl, held[c.u])
    BY <1>1, <1>5, MapCases DEF Confirmed, IInv, ChainInv
  <2>6. CallOK(d, held'[d.u], chain'[d.u], clock')
    BY <1>1, <1>5, <2>2, <2>5 DEF CallOK
  <2>7. CallInv'
    BY <1>4, <2>3, <2>6, MoveCall
  <2>. QED BY <2>3, <2>4, <2>7, StillChain, GrowsLocal, GrowsRead, GrowsSync, GrowsAudit
           DEF IInv, ChainCall
<1>6. ASSUME NEW st \in ChainStates, NEW lv \in Levels,
             Confirm(c.u, st, lv),
             chain[c.u].state # "revoked",
             c.op = "register"   => st = "active" /\ lv = c.lvl,
             c.op # "register"   => OnChain(c.u),
             c.op = "upgrade"    => lv = c.lvl,
             c.op = "ban"        => st = "banned",
             c.op = "unban"      => st = "active",
             c.op = "unregister" => st = "revoked"
      PROVE  IInv'
  <2>1. Info(st, lv, clock + 1) \in ChainRecord /\ clock' = clock + 1
    BY <1>6 DEF Confirm, IInv, TypeOK, Info, ChainRecord
  <2>2. /\ chain' = [chain EXCEPT ![c.u] = Info(st, lv, clock + 1)]
        /\ chain'[c.u].state = st /\ chain'[c.u].level = lv /\ chain'[c.u].at = clock + 1
    BY <1>1, <1>6 DEF Confirm, IInv, TypeOK, Info
  <2>3. held' = [held EXCEPT ![c.u] = [states |-> @.states \cup {mapChainState(st)},
                                       levels |-> @.levels \cup {lv}]]
    BY <2>2 DEF ChainCall, Record
  <2>4. mapChainState(st) \in InfoStates /\ st # "absent"
    BY MapCases DEF ChainStates, InfoStates
  <2>5. Grows
    BY <1>1, <2>1, <2>2, <2>3, <2>4 DEF Grows, IInv, TypeOK
  <2>6. TypeOK'
    <3>1. held' \in [Agents -> [states : SUBSET InfoStates, levels : SUBSET Levels]]
      BY <1>1, <2>3, <2>4 DEF IInv, TypeOK
    <3>2. chain' \in [Agents -> ChainRecord \cup {Absent}]
      BY <1>1, <2>1, <2>2 DEF IInv, TypeOK
    <3>. QED BY <2>1, <1>1, <1>4, <3>1, <3>2 DEF ChainCall, IInv, TypeOK
  <2>7. ChainInv'
    <3>. SUFFICES ASSUME NEW u \in Agents
                  PROVE  /\ chain'[u].state # "absent" =>
                              /\ mapChainState(chain'[u].state) \in held'[u].states
                              /\ "active" \in held'[u].states
                              /\ chain'[u].level \in held'[u].levels
                              /\ chain'[u].at \in 1..clock'
                         /\ "unregistered" \in held'[u].states => chain'[u].state = "revoked"
      BY DEF ChainInv, OnChain
    <3>1. CASE u # c.u
      BY <3>1, <2>1, <2>2, <2>3 DEF IInv, TypeOK, ChainInv, OnChain
    <3>2. CASE u = c.u
      <4>1. held'[u].states = held[u].states \cup {mapChainState(st)}
            /\ held'[u].levels = held[u].levels \cup {lv}
        BY <3>2, <2>3 DEF IInv, TypeOK
      <4>2. "active" \in held'[u].states
        BY <3>2, <4>1, <1>6, MapCases DEF IInv, ChainInv
      <4>3. "unregistered" \in held'[u].states => st = "revoked"
        <5>1. ~("unregistered" \in held[u].states)
          BY <3>2, <1>6 DEF IInv, ChainInv
        <5>2. mapChainState(st) = "unregistered" => st = "revoked"
          BY MapCases DEF ChainStates
        <5>. QED BY <4>1, <5>1, <5>2
      <4>. QED BY <3>2, <2>1, <2>2, <4>1, <4>2, <4>3 DEF IInv, TypeOK
    <3>. QED BY <3>1, <3>2
  <2>8. CallOK(d, held'[d.u], chain'[d.u], clock')
    <3>1. held'[c.u].states = held[c.u].states \cup {mapChainState(st)}
          /\ held'[c.u].levels = held[c.u].levels \cup {lv}
      BY <1>1, <2>3 DEF IInv, TypeOK
    <3>2. CASE c.op = "register"
      <4>1. c.rec \in AgentInfo /\ c.rec.state = "active" /\ c.rec.level = lv /\ c.rec.at <= clock
        BY <1>2, <1>6, <3>2 DEF ChainCall, CallOK, Info
      <4>2. Faithful(held'[c.u], chain'[c.u], clock', c.rec)
        BY <4>1, <3>1, <3>2, <1>6, <2>1, <2>2, MapCases DEF Faithful, AgentInfo, IInv, TypeOK
      <4>. QED BY <1>1, <4>1, <4>2, <3>2 DEF CallOK
    <3>3. CASE c.op # "register"
      <4>1. c.op \in LocalOps /\ Confirmed(c.op, c.lvl, held'[c.u])
        BY <1>1, <1>6, <3>1, <3>3, MapCases DEF Confirmed
      <4>. QED BY <1>1, <4>1, <3>3 DEF CallOK
    <3>. QED BY <3>2, <3>3
  <2>9. CallInv'
    BY <1>4, <2>5, <2>8, MoveCall
  <2>. QED BY <2>5, <2>6, <2>7, <2>9, GrowsLocal, GrowsRead, GrowsSync, GrowsAudit
           DEF IInv, ChainCall
<1>. QED BY <1>1, <1>3, <1>5, <1>6, TransactCases DEF ChainCall

\* The chain refuses or fails: the write returns before the local store.
LEMMA ChainFailsStep ==
  ASSUME IInv, NEW w \in Writers, ChainFails(w)
  PROVE  IInv'
<1>1. Still /\ Grows
  BY StillGrows DEF ChainFails, IInv, TypeOK, Still
<1>2. TypeOK'
  BY DEF ChainFails, Return, Fault, IInv, TypeOK
<1>3. CallInv'
  BY <1>1, MoveCall DEF ChainFails, Return
<1>. QED BY <1>1, <1>2, <1>3, StillChain, GrowsLocal, GrowsRead, GrowsSync, GrowsAudit
         DEF IInv, ChainFails

\* What is known of a call that is not idle.
LEMMA CallFacts ==
  ASSUME IInv, NEW w \in Writers, call[w].pc # "idle"
  PROVE  /\ call[w] # Idle /\ call[w] \in WriteCall /\ call[w].u \in Agents
         /\ CallOK(call[w], held[call[w].u], chain[call[w].u], clock)
  BY DEF IInv, TypeOK, CallInv, Idle, WriteCall

\* mirrorToLocal puts the record of a registration.
LEMMA MirrorStep ==
  ASSUME IInv, NEW w \in Writers, Mirror(w)
  PROVE  IInv'
<1>. DEFINE c == call[w]
            d == [c EXCEPT !.pc = "registered"]
<1>1. c \in WriteCall /\ c.u \in Agents /\ c.rec \in AgentInfo
      /\ Faithful(held[c.u], chain[c.u], clock, c.rec)
  BY CallFacts DEF Mirror, CallOK
<1>2. Still /\ Grows
  <2>1. chain' = chain /\ held' = held /\ clock' = clock
    BY DEF Mirror
  <2>. QED BY <2>1, StillGrows DEF IInv, TypeOK, Still
<1>3. call' = [call EXCEPT ![w] = d]
  BY DEF Mirror
<1>4. d \in WriteCall /\ d.pc = "registered" /\ d.u = c.u /\ d.rec = c.rec
  BY <1>1 DEF WriteCall
<1>. HIDE DEF d
<1>5. TypeOK'
  <2>1. local' \in [Agents -> AgentInfo \cup {Absent}]
    BY <1>1 DEF Mirror, IInv, TypeOK
  <2>2. call' \in [Writers -> WriteCall \cup {Idle}]
    BY <1>3, <1>4 DEF IInv, TypeOK
  <2>. QED BY <2>1, <2>2 DEF Mirror, IInv, TypeOK
<1>6. LocalInv'
  BY <1>1, <1>2, PutLocal DEF Mirror, Still
<1>7. CallOK(d, held'[d.u], chain'[d.u], clock')
  BY <1>1, <1>2, <1>4 DEF CallOK, Still, Mirror
<1>8. CallInv'
  BY <1>2, <1>3, <1>7, MoveCall
<1>. QED BY <1>2, <1>5, <1>6, <1>8, StillChain, GrowsRead, GrowsSync, GrowsAudit DEF IInv, Mirror

\* The "register" entry of a mirrored registration.
LEMMA LogRegistrationStep ==
  ASSUME IInv, NEW w \in Writers, LogRegistration(w), UNCHANGED <<chain, read, sync, held>>
  PROVE  IInv'
<1>. DEFINE c == call[w]
            e == StateEntry("register", Unset, c.rec.state, c.rec.at)
<1>1. c \in WriteCall /\ c.u \in Agents /\ c.rec \in AgentInfo
      /\ Faithful(held[c.u], chain[c.u], clock, c.rec)
  BY CallFacts DEF LogRegistration, CallOK
<1>2. Still /\ Grows
  BY StillGrows DEF LogRegistration, IInv, TypeOK, Still
<1>3. c.rec.state \in held[c.u].states
  BY <1>1 DEF Faithful, AgentInfo, Absent, InfoStates
<1>4. e \in LogEntry
  BY <1>1 DEF StateEntry, LogEntry, AgentInfo
<1>5. TypeOK'
  <2>1. logs' \in [Agents -> SUBSET LogEntry] /\ faults' \in 0..MaxFaults
    <3>. HIDE DEF e
    <3>1. AppendLog(c.u, e)
      BY DEF LogRegistration, e
    <3>. QED BY <1>1, <1>4, <3>1 DEF AppendLog, Fault, IInv, TypeOK
  <2>2. call' \in [Writers -> WriteCall \cup {Idle}]
    BY DEF LogRegistration, Return, IInv, TypeOK
  <2>. QED BY <2>1, <2>2 DEF LogRegistration, IInv, TypeOK
<1>6. CallInv'
  BY <1>2, MoveCall DEF LogRegistration, Return
<1>7. e.action = "register" /\ e.new = c.rec.state
  BY DEF StateEntry
<1>8. AuditNeverAheadOfChain'
  BY <1>1, <1>2, <1>3, <1>7, AppendAudit DEF LogRegistration, Still
<1>. QED BY <1>2, <1>5, <1>6, <1>8, StillChain, GrowsLocal, GrowsRead, GrowsSync
         DEF IInv, LogRegistration

\* mirrorToLocal fails and its error is dropped.
LEMMA MirrorFailsStep ==
  ASSUME IInv, NEW w \in Writers, MirrorFails(w)
  PROVE  IInv'
<1>1. Still /\ Grows
  BY StillGrows DEF MirrorFails, IInv, TypeOK, Still
<1>2. TypeOK'
  BY DEF MirrorFails, Return, Fault, IInv, TypeOK
<1>3. CallInv'
  BY <1>1, MoveCall DEF MirrorFails, Return
<1>. QED BY <1>1, <1>2, <1>3, StillChain, GrowsLocal, GrowsRead, GrowsSync, GrowsAudit
         DEF IInv, MirrorFails

\* LocalBackend refuses an operation that the chain confirmed.
LEMMA LocalSkipStep ==
  ASSUME IInv, NEW w \in Writers, LocalSkip(w) \/ LocalPutFails(w),
         UNCHANGED <<chain, read, sync, held>>
  PROVE  IInv'
<1>. USE DEF LocalSkip, LocalPutFails
<1>1. Still /\ Grows
  BY StillGrows DEF IInv, TypeOK, Still
<1>2. TypeOK'
  BY DEF Return, Fault, IInv, TypeOK
<1>3. CallInv'
  BY <1>1, MoveCall DEF Return
<1>. QED BY <1>1, <1>2, <1>3, StillChain, GrowsLocal, GrowsRead, GrowsSync, GrowsAudit
         DEF IInv

\* LocalBackend locks and reads the record.
LEMMA LocalGetStep ==
  ASSUME IInv, NEW w \in Writers, LocalGet(w), UNCHANGED <<chain, read, sync, held>>
  PROVE  IInv'
<1>. DEFINE c == call[w]
            d == [c EXCEPT !.pc = "put", !.rec = local[c.u]]
<1>1. c \in WriteCall /\ c.u \in Agents /\ CallOK(c, held[c.u], chain[c.u], clock)
  BY CallFacts DEF LocalGet
<1>2. Still /\ Grows
  BY StillGrows DEF LocalGet, IInv, TypeOK, Still
<1>3. local[c.u] \in AgentInfo
  BY <1>1, AcceptsPresent DEF LocalGet, IInv, TypeOK
<1>4. local[c.u].state \in held[c.u].states /\ local[c.u].level \in held[c.u].levels
  BY <1>1, AcceptsPresent DEF LocalGet, IInv, LocalInv, Faithful
<1>5. call' = [call EXCEPT ![w] = d] /\ d \in WriteCall
  BY <1>1, <1>3 DEF LocalGet, WriteCall
<1>6. TypeOK'
  BY <1>5 DEF LocalGet, IInv, TypeOK
<1>7. d.u = c.u /\ d.op = c.op /\ d.lvl = c.lvl /\ d.pc = "put" /\ d.rec = local[c.u]
  BY <1>1 DEF WriteCall
<1>8. CallOK(d, held'[d.u], chain'[d.u], clock')
  BY <1>1, <1>2, <1>3, <1>4, <1>7 DEF CallOK, Still, LocalGet
<1>9. CallInv'
  BY <1>2, <1>5, <1>8, MoveCall
<1>. QED BY <1>2, <1>6, <1>9, StillChain, GrowsLocal, GrowsRead, GrowsSync, GrowsAudit
         DEF IInv, LocalGet

\* LocalBackend puts the record.
LEMMA LocalPutStep ==
  ASSUME IInv, NEW w \in Writers, LocalPut(w), UNCHANGED <<chain, read, sync, held>>
  PROVE  IInv'
<1>. DEFINE c == call[w]
            a == Applied(c.op, c.rec, c.lvl, clock + 1)
            d == [c EXCEPT !.pc = "log", !.at = clock + 1]
<1>1. c \in WriteCall /\ c.u \in Agents /\ c.op \in LocalOps /\ c.rec \in AgentInfo
      /\ Confirmed(c.op, c.lvl, held[c.u])
      /\ c.rec.state \in held[c.u].states /\ c.rec.level \in held[c.u].levels
  BY CallFacts DEF LocalPut, CallOK
<1>2. Still /\ Grows
  BY StillGrows DEF LocalPut, IInv, TypeOK, Still
<1>3. c.lvl \in Levels \cup {0} /\ clock + 1 \in Nat
  BY <1>1 DEF WriteCall, IInv, TypeOK
<1>4. a \in AgentInfo /\ a.state \in held[c.u].states /\ a.level \in held[c.u].levels
      /\ a.at = clock + 1
  <2>. DEFINE op == c.op
              rec == c.rec
              l == c.lvl
              t == clock + 1
              h == held[c.u]
  <2>1. op \in LocalOps /\ rec \in AgentInfo /\ l \in Levels \cup {0} /\ t \in Nat
    BY <1>1, <1>3
  <2>2. h \in [states : SUBSET InfoStates, levels : SUBSET Levels]
    BY <1>1 DEF IInv, TypeOK
  <2>3. Confirmed(op, l, h) /\ rec.state \in h.states /\ rec.level \in h.levels
    BY <1>1
  <2>. HIDE DEF op, rec, l, t, h
  <2>4. /\ Applied(op, rec, l, t) \in AgentInfo
        /\ Applied(op, rec, l, t).state \in h.states
        /\ Applied(op, rec, l, t).level \in h.levels
        /\ Applied(op, rec, l, t).at = t
    BY <2>1, <2>2, <2>3, AppliedFaithful
  <2>. QED BY <2>4 DEF op, rec, l, t, h
<1>5. chain[c.u].at <= clock /\ chain[c.u].at \in Nat
  <2>1. CASE chain[c.u] = Absent
    BY <2>1 DEF Absent, IInv, TypeOK
  <2>2. CASE chain[c.u] # Absent
    <3>1. chain[c.u] \in ChainRecord
      BY <1>1, <2>2 DEF IInv, TypeOK
    <3>2. OnChain(c.u)
      BY <3>1 DEF OnChain, ChainRecord, ChainStates
    <3>. QED BY <1>1, <3>2 DEF IInv, TypeOK, ChainInv
  <2>. QED BY <2>1, <2>2
<1>6. Faithful(held'[c.u], chain'[c.u], clock', a)
  BY <1>2, <1>4, <1>5, <1>3 DEF Faithful, LocalPut, Still, IInv, TypeOK
<1>7. call' = [call EXCEPT ![w] = d] /\ d \in WriteCall
  BY <1>1, <1>3 DEF LocalPut, WriteCall
<1>8. d.pc = "log" /\ d.u = c.u /\ d.op = c.op /\ d.lvl = c.lvl /\ d.rec = c.rec
  BY <1>1 DEF WriteCall
<1>. HIDE DEF d
<1>9. TypeOK'
  BY <1>1, <1>3, <1>4, <1>7 DEF LocalPut, IInv, TypeOK
<1>10. LocalInv'
  BY <1>1, <1>2, <1>6, PutLocal DEF LocalPut
<1>11. CallOK(d, held'[d.u], chain'[d.u], clock')
  BY <1>1, <1>2, <1>8 DEF CallOK, Still
<1>12. CallInv'
  BY <1>2, <1>7, <1>11, MoveCall
<1>. QED BY <1>2, <1>9, <1>10, <1>12, StillChain, GrowsRead, GrowsSync, GrowsAudit DEF IInv, LocalPut

\* LocalBackend appends to the log and unlocks.
LEMMA LocalAppendStep ==
  ASSUME IInv, NEW w \in Writers, LocalAppend(w), UNCHANGED <<chain, read, sync, held>>
  PROVE  IInv'
<1>. DEFINE c == call[w]
            t == c.at
            a == Applied(c.op, c.rec, c.lvl, t)
            e == Entry(c.op, c.rec, c.lvl, t)
<1>1. c \in WriteCall /\ c.u \in Agents /\ c.op \in LocalOps /\ c.rec \in AgentInfo
      /\ Confirmed(c.op, c.lvl, held[c.u])
      /\ c.rec.state \in held[c.u].states /\ c.rec.level \in held[c.u].levels
  BY CallFacts DEF LocalAppend, CallOK
<1>2. Still /\ Grows
  BY StillGrows DEF LocalAppend, IInv, TypeOK, Still
<1>3. c.lvl \in Levels \cup {0} /\ t \in Nat
  BY <1>1 DEF WriteCall
<1>. HIDE DEF t
<1>4. a \in AgentInfo /\ a.state \in held[c.u].states /\ a.level \in held[c.u].levels
      /\ a.at = t
  <2>. DEFINE op == c.op
              rec == c.rec
              l == c.lvl
              h == held[c.u]
  <2>1. op \in LocalOps /\ rec \in AgentInfo /\ l \in Levels \cup {0} /\ t \in Nat
    BY <1>1, <1>3
  <2>2. h \in [states : SUBSET InfoStates, levels : SUBSET Levels]
    BY <1>1 DEF IInv, TypeOK
  <2>3. Confirmed(op, l, h) /\ rec.state \in h.states /\ rec.level \in h.levels
    BY <1>1
  <2>. HIDE DEF op, rec, l, h
  <2>4. /\ Applied(op, rec, l, t) \in AgentInfo
        /\ Applied(op, rec, l, t).state \in h.states
        /\ Applied(op, rec, l, t).level \in h.levels
        /\ Applied(op, rec, l, t).at = t
    BY <2>1, <2>2, <2>3, AppliedFaithful
  <2>. QED BY <2>4 DEF op, rec, l, h
<1>7. e \in LogEntry
      /\ IF e.action = "upgrade" THEN e.newLevel \in held[c.u].levels
         ELSE e.new \in held[c.u].states
  <2>1. c.rec.state \in InfoStates /\ c.rec.level \in Nat /\ c.lvl \in Nat /\ a.state \in InfoStates
    <3>1. c.rec.state \in InfoStates /\ c.rec.level \in Levels
      BY <1>1 DEF AgentInfo
    <3>2. c.rec.level \in Nat /\ c.lvl \in Nat
      BY <3>1, <1>3, LevelsNat
    <3>3. a.state \in InfoStates
      BY <1>4 DEF AgentInfo
    <3>. QED BY <3>1, <3>2, <3>3
  <2>2. CASE c.op = "upgrade"
    BY <1>1, <1>3, <2>1, <2>2 DEF Entry, LevelEntry, LogEntry, Confirmed, LocalOps
  <2>3. CASE c.op # "upgrade"
    <3>1. e = StateEntry(c.op, c.rec.state, a.state, t)
      BY <2>3 DEF Entry
    <3>2. a.state \in held[c.u].states /\ t \in Nat
      BY <1>3, <1>4
    <3>. DEFINE st == a.state
                old == c.rec.state
                op == c.op
    <3>3. e = StateEntry(op, old, st, t) /\ st \in held[c.u].states /\ t \in Nat
          /\ old \in InfoStates /\ st \in InfoStates /\ op \in LocalOps /\ op # "upgrade"
      BY <1>1, <2>1, <2>3, <3>1, <3>2
    <3>. HIDE DEF e, st, old, op
    <3>4. e \in LogEntry /\ e.action = op /\ e.new = st
      BY <3>3 DEF StateEntry, LogEntry
    <3>. QED BY <3>3, <3>4
  <2>. QED BY <2>2, <2>3
<1>8. TypeOK'
  <2>. HIDE DEF e
  <2>1. AppendLog(c.u, e) /\ call' = [call EXCEPT ![w] = Idle] /\ mu' = Free
    BY DEF LocalAppend, Return, e, t
  <2>. QED BY <1>1, <1>7, <2>1 DEF LocalAppend, AppendLog, Fault, IInv, TypeOK
<1>9. CallInv'
  BY <1>2, MoveCall DEF LocalAppend, Return
<1>10. AuditNeverAheadOfChain'
  BY <1>1, <1>2, <1>7, AppendAudit DEF LocalAppend, Still, t
<1>. QED BY <1>2, <1>8, <1>9, <1>10, StillChain, GrowsLocal, GrowsRead, GrowsSync
         DEF IInv, LocalAppend

\* Every step of a write call keeps the invariant.
LEMMA WriterSteps ==
  ASSUME IInv, NEW w \in Writers, Begin(w) \/ WriterStep(w)
  PROVE  IInv'
<1>1. CASE Begin(w)
  <2>1. \A u \in Agents, l \in Levels : BeginRegister(w, u, l) => IInv'
    BY BeginRegisterStep
  <2>2. \A u \in Agents, l \in Levels : BeginWrite(w, "upgrade", u, l) => IInv'
    BY BeginWriteStep DEF LocalOps
  <2>3. \A u \in Agents, op \in LocalOps \ {"upgrade"} : BeginWrite(w, op, u, 0) => IInv'
    BY BeginWriteStep
  <2>. QED BY <1>1, <2>1, <2>2, <2>3 DEF Begin
<1>2. CASE LocalCall(w)
  <2>1. LocalStep(w) /\ UNCHANGED <<chain, read, sync, held>>
    BY <1>2 DEF LocalCall
  <2>2. CASE LocalSkip(w)
    BY <2>1, <2>2, LocalSkipStep
  <2>3. CASE LocalPutFails(w)
    BY <2>1, <2>3, LocalSkipStep
  <2>4. CASE LocalGet(w)
    BY <2>1, <2>4, LocalGetStep
  <2>5. CASE LocalPut(w)
    BY <2>1, <2>5, LocalPutStep
  <2>6. CASE LocalAppend(w)
    BY <2>1, <2>6, LocalAppendStep
  <2>7. CASE LogRegistration(w)
    BY <2>1, <2>7, LogRegistrationStep
  <2>. QED BY <2>1, <2>2, <2>3, <2>4, <2>5, <2>6, <2>7 DEF LocalStep
<1>. QED BY <1>1, <1>2, ChainCallStep, ChainFailsStep, MirrorStep, MirrorFailsStep DEF WriterStep

-----------------------------------------------------------------------------
(* Reader steps: only the reader's own copies and the local store move. *)

\* Reader r is left with a consistent state and the store gets at most a
\* faithful copy.
LEMMA MoveRead ==
  ASSUME IInv, Still, NEW r \in Readers, NEW d,
         read' = [read EXCEPT ![r] = d],
         d \in [us : SUBSET Agents, got : [Agents -> AgentInfo \cup {Absent}]],
         \A u \in Agents : /\ Faithful(held[u], chain[u], clock, d.got[u])
                           /\ u \in d.us => OnChain(u),
         clock' = clock
  PROVE  ReadInv' /\ read' \in [Readers -> [us : SUBSET Agents,
                                            got : [Agents -> AgentInfo \cup {Absent}]]]
<1>1. read' \in [Readers -> [us : SUBSET Agents, got : [Agents -> AgentInfo \cup {Absent}]]]
  BY DEF IInv, TypeOK
<1>2. ASSUME NEW x \in Readers, NEW u \in Agents
      PROVE  /\ Faithful(held'[u], chain'[u], clock', read'[x].got[u])
             /\ u \in read'[x].us => chain'[u].state # "absent"
  <2>1. CASE x = r
    BY <2>1 DEF Still, OnChain, IInv, TypeOK
  <2>2. CASE x # r
    <3>1. read'[x] = read[x]
      BY <2>2 DEF IInv, TypeOK
    <3>. QED BY <3>1 DEF Still, OnChain, IInv, ReadInv
  <2>. QED BY <2>1, <2>2
<1>. QED BY <1>1, <1>2 DEF ReadInv, OnChain

\* Every step of a read call keeps the invariant.
LEMMA ReaderSteps ==
  ASSUME IInv, NEW r \in Readers, BeginRead(r) \/ ReaderStep(r)
  PROVE  IInv'
<1>0. /\ read[r] \in [us : SUBSET Agents, got : [Agents -> AgentInfo \cup {Absent}]]
      /\ \A u \in Agents : /\ Faithful(held[u], chain[u], clock, read[r].got[u])
                           /\ u \in read[r].us => OnChain(u)
  BY DEF IInv, TypeOK, ReadInv
\* A step of the reader that leaves the store alone.
<1>1. ASSUME NEW d,
             read' = [read EXCEPT ![r] = d],
             d \in [us : SUBSET Agents, got : [Agents -> AgentInfo \cup {Absent}]],
             \A u \in Agents : /\ Faithful(held[u], chain[u], clock, d.got[u])
                               /\ u \in d.us => OnChain(u),
             faults' = faults \/ Fault,
             UNCHANGED <<clock, chain, local, logs, mu, call, sync, held>>
      PROVE  IInv'
  <2>1. Still /\ Grows
    BY <1>1, StillGrows DEF Still, IInv, TypeOK
  <2>2. ReadInv' /\ read' \in [Readers -> [us : SUBSET Agents,
                                           got : [Agents -> AgentInfo \cup {Absent}]]]
    BY <1>1, <2>1, MoveRead
  <2>3. TypeOK'
    BY <1>1, <2>2 DEF Fault, IInv, TypeOK
  <2>. QED BY <1>1, <2>1, <2>2, <2>3, StillChain, GrowsLocal, GrowsSync, GrowsCall, GrowsAudit DEF IInv
<1>2. ASSUME NEW us \in SUBSET {u \in Agents : Known(u)}, ReadLocal(r, us)
      PROVE  IInv'
  <2>. DEFINE d == [read[r] EXCEPT !.us = {u \in us : local[u] = Absent}]
  <2>1. read' = [read EXCEPT ![r] = d]
    BY <1>2 DEF ReadLocal
  <2>2. d \in [us : SUBSET Agents, got : [Agents -> AgentInfo \cup {Absent}]]
    BY <1>0
  <2>3. d.got = read[r].got /\ \A u \in d.us : OnChain(u)
    BY <1>0 DEF Known
  <2>. HIDE DEF d
  <2>. QED BY <1>0, <1>1, <1>2, <2>1, <2>2, <2>3 DEF ReadLocal
<1>3. ASSUME NEW v \in Agents, Known(v), ReadLocalFails(r, v)
      PROVE  IInv'
  <2>. DEFINE d == [read[r] EXCEPT !.us = {v}]
  <2>1. read' = [read EXCEPT ![r] = d]
    BY <1>3 DEF ReadLocalFails
  <2>2. d \in [us : SUBSET Agents, got : [Agents -> AgentInfo \cup {Absent}]]
    BY <1>0
  <2>3. d.got = read[r].got /\ \A u \in d.us : OnChain(u)
    BY <1>0, <1>3 DEF Known
  <2>. HIDE DEF d
  <2>. QED BY <1>0, <1>1, <1>3, <2>1, <2>2, <2>3 DEF ReadLocalFails
<1>4. ASSUME NEW v \in Agents, ReadChain(r, v)
      PROVE  IInv'
  <2>. DEFINE d == [read[r] EXCEPT !.us = @ \ {v}, !.got[v] = ChainInfo(v)]
  <2>1. read' = [read EXCEPT ![r] = d]
    BY <1>4 DEF ReadChain
  <2>2. OnChain(v)
    BY <1>0, <1>4 DEF ReadChain
  <2>3. ChainInfo(v) \in AgentInfo /\ Faithful(held[v], chain[v], clock, ChainInfo(v))
    BY <2>2, ChainInfoFaithful
  <2>4. d \in [us : SUBSET Agents, got : [Agents -> AgentInfo \cup {Absent}]]
    BY <1>0, <2>3
  <2>5. d.us = read[r].us \ {v} /\ d.got = [read[r].got EXCEPT ![v] = ChainInfo(v)]
    BY <1>0
  <2>6. \A u \in Agents : /\ Faithful(held[u], chain[u], clock, d.got[u])
                          /\ u \in d.us => OnChain(u)
    <3>. HIDE DEF d
    <3>. QED BY <1>0, <2>3, <2>5
  <2>. HIDE DEF d
  <2>. QED BY <1>1, <1>4, <2>1, <2>4, <2>6 DEF ReadChain
<1>5. ASSUME NEW v \in Agents, ReadChainFails(r, v)
      PROVE  IInv'
  <2>. DEFINE d == [read[r] EXCEPT !.us = @ \ {v}]
  <2>1. read' = [read EXCEPT ![r] = d]
    BY <1>5 DEF ReadChainFails
  <2>2. d \in [us : SUBSET Agents, got : [Agents -> AgentInfo \cup {Absent}]]
    BY <1>0
  <2>3. d.got = read[r].got /\ \A u \in d.us : u \in read[r].us
    BY <1>0
  <2>. HIDE DEF d
  <2>. QED BY <1>0, <1>1, <1>5, <2>1, <2>2, <2>3 DEF ReadChainFails
<1>6. ASSUME NEW v \in Agents, Backfill(r, v)
      PROVE  IInv'
  <2>. DEFINE d == [read[r] EXCEPT !.got[v] = Absent]
  <2>1. Still /\ Grows
    BY <1>6, StillGrows DEF Backfill, Still, IInv, TypeOK
  <2>2. read' = [read EXCEPT ![r] = d]
    BY <1>6 DEF Backfill
  <2>3. d \in [us : SUBSET Agents, got : [Agents -> AgentInfo \cup {Absent}]]
    BY <1>0
  <2>4. d.us = read[r].us /\ d.got = [read[r].got EXCEPT ![v] = Absent]
    BY <1>0
  <2>5. \A u \in Agents : /\ Faithful(held[u], chain[u], clock, d.got[u])
                          /\ u \in d.us => OnChain(u)
    <3>. HIDE DEF d
    <3>. QED BY <1>0, <2>4, FaithfulAbsent
  <2>6. ReadInv' /\ read' \in [Readers -> [us : SUBSET Agents,
                                           got : [Agents -> AgentInfo \cup {Absent}]]]
    <3>. HIDE DEF d
    <3>. QED BY <1>6, <2>1, <2>2, <2>3, <2>5, MoveRead DEF Backfill
  <2>7. local' = local \/ local' = [local EXCEPT ![v] = read[r].got[v]]
    BY <1>6 DEF Backfill
  <2>8. LocalInv'
    BY <1>0, <1>6, <2>1, <2>7, GrowsLocal, PutLocal DEF Still, Backfill
  <2>9. TypeOK'
    <3>1. local' \in [Agents -> AgentInfo \cup {Absent}]
      BY <1>0, <2>7 DEF IInv, TypeOK
    <3>2. faults' \in 0..MaxFaults
      BY <1>6 DEF Backfill, Fault, IInv, TypeOK
    <3>. QED BY <1>6, <2>6, <3>1, <3>2 DEF Backfill, IInv, TypeOK
  <2>. QED BY <1>6, <2>1, <2>6, <2>8, <2>9, StillChain, GrowsSync, GrowsCall, GrowsAudit
           DEF IInv, Backfill
<1>7. ASSUME BatchPanics(r) PROVE IInv'
  <2>1. read' = [read EXCEPT ![r] = read[r]]
    BY <1>7 DEF BatchPanics, IInv, TypeOK
  <2>. QED BY <1>0, <1>1, <1>7, <2>1 DEF BatchPanics
<1>. QED BY <1>2, <1>3, <1>4, <1>5, <1>6, <1>7 DEF BeginRead, ReaderStep

-----------------------------------------------------------------------------
(* Syncer steps. *)

\* What is known of a pass p.
PassOK(p) ==
  /\ p \in [pc : {"idle", "loop", "fetch", "put"}, list : [Agents -> Nat],
            u : Agents \cup {"none"}, rec : AgentInfo \cup {Absent}]
  /\ \A u \in Agents : p.list[u] # 0 => OnChain(u)
  /\ p.pc \in {"fetch", "put"} => p.u \in Agents /\ OnChain(p.u)
  /\ p.pc = "put" => p.rec \in AgentInfo /\ Faithful(held[p.u], chain[p.u], clock, p.rec)

\* The passes of a state that satisfies the invariant are consistent.
LEMMA SyncPassOK ==
  ASSUME IInv, NEW s \in Syncers
  PROVE  PassOK(sync[s])
  BY DEF IInv, TypeOK, SyncInv, PassOK

\* Syncer s moves its own pass and leaves the store alone.
LEMMA MovePass ==
  ASSUME IInv, NEW s \in Syncers, NEW d, sync' = [sync EXCEPT ![s] = d], PassOK(d),
         UNCHANGED <<clock, chain, held>>
  PROVE  SyncInv' /\ sync' \in [Syncers -> [pc : {"idle", "loop", "fetch", "put"},
                                 list : [Agents -> Nat], u : Agents \cup {"none"},
                                 rec : AgentInfo \cup {Absent}]]
<1>1. ASSUME NEW x \in Syncers
      PROVE  PassOK(sync'[x])
  <2>1. CASE x = s
    BY <2>1 DEF IInv, TypeOK
  <2>2. CASE x # s
    <3>1. sync'[x] = sync[x]
      BY <2>2 DEF IInv, TypeOK
    <3>. QED BY <3>1, SyncPassOK
  <2>. QED BY <2>1, <2>2
<1>2. DOMAIN sync' = Syncers /\ sync' = [x \in Syncers |-> sync'[x]]
  BY DEF IInv, TypeOK
<1>3. SyncInv'
  BY <1>1 DEF SyncInv, PassOK, OnChain
<1>4. sync' \in [Syncers -> [pc : {"idle", "loop", "fetch", "put"}, list : [Agents -> Nat],
                             u : Agents \cup {"none"}, rec : AgentInfo \cup {Absent}]]
  BY <1>1, <1>2 DEF PassOK
<1>. QED BY <1>3, <1>4

\* Going on to the next agent keeps a pass consistent.
LEMMA AdvanceOK ==
  ASSUME IInv, NEW p, PassOK(p)
  PROVE  PassOK(Advance(p))
<1>1. CASE \A u \in Agents : p.list[u] = 0
  BY <1>1 DEF Advance, NoPass, PassOK
<1>2. CASE ~(\A u \in Agents : p.list[u] = 0)
  <2>. DEFINE d == [p EXCEPT !.pc = "loop", !.u = "none", !.rec = Absent]
  <2>1. Advance(p) = d
    BY <1>2 DEF Advance
  <2>2. d.pc = "loop" /\ d.list = p.list
        /\ d \in [pc : {"idle", "loop", "fetch", "put"}, list : [Agents -> Nat],
                  u : Agents \cup {"none"}, rec : AgentInfo \cup {Absent}]
    BY DEF PassOK
  <2>. HIDE DEF d
  <2>. QED BY <2>1, <2>2 DEF PassOK
<1>. QED BY <1>1, <1>2

\* A step of syncer s that leaves the store alone keeps the invariant.
LEMMA PassStep ==
  ASSUME IInv, NEW s \in Syncers, NEW d, sync' = [sync EXCEPT ![s] = d], PassOK(d),
         faults' = faults \/ Fault,
         UNCHANGED <<clock, chain, local, logs, mu, call, read, held>>
  PROVE  IInv'
<1>1. Still /\ Grows
  BY StillGrows DEF Still, IInv, TypeOK
<1>2. SyncInv' /\ sync' \in [Syncers -> [pc : {"idle", "loop", "fetch", "put"},
                              list : [Agents -> Nat], u : Agents \cup {"none"},
                              rec : AgentInfo \cup {Absent}]]
  BY MovePass
<1>3. TypeOK'
  BY <1>2 DEF Fault, IInv, TypeOK
<1>. QED BY <1>1, <1>2, <1>3, StillChain, GrowsLocal, GrowsRead, GrowsCall, GrowsAudit DEF IInv

\* Every step of runOnce keeps the invariant.
LEMMA SyncSteps ==
  ASSUME IInv, NEW s \in Syncers, SyncStep(s)
  PROVE  IInv'
<1>0. PassOK(sync[s])
  BY SyncPassOK
<1>1. CASE SyncList(s)
  <2>. DEFINE d == [sync[s] EXCEPT !.pc = "loop", !.list = [u \in Agents |-> chain[u].at]]
  <2>1. sync' = [sync EXCEPT ![s] = d]
    BY <1>1 DEF SyncList
  <2>2. \A u \in Agents : chain[u].at \in Nat /\ (chain[u].at # 0 => OnChain(u))
    <3>. SUFFICES ASSUME NEW u \in Agents
                  PROVE  chain[u].at \in Nat /\ (chain[u].at # 0 => OnChain(u))
      OBVIOUS
    <3>1. CASE chain[u] = Absent
      BY <3>1 DEF Absent
    <3>2. CASE chain[u] # Absent
      <4>1. chain[u] \in ChainRecord
        BY <3>2 DEF IInv, TypeOK
      <4>. QED BY <4>1 DEF ChainRecord, ChainStates, OnChain
    <3>. QED BY <3>1, <3>2
  <2>3. /\ d \in [pc : {"idle", "loop", "fetch", "put"}, list : [Agents -> Nat],
                  u : Agents \cup {"none"}, rec : AgentInfo \cup {Absent}]
        /\ d.pc = "loop" /\ d.list = [u \in Agents |-> chain[u].at]
    BY <1>0, <2>2 DEF PassOK
  <2>. HIDE DEF d
  <2>4. PassOK(d)
    BY <2>2, <2>3 DEF PassOK
  <2>. QED BY <1>1, <2>1, <2>4, PassStep DEF SyncList
<1>2. ASSUME NEW v \in Agents, SyncCompare(s, v)
      PROVE  IInv'
  <2>. DEFINE p == [sync[s] EXCEPT !.list[v] = 0]
              f == [p EXCEPT !.pc = "fetch", !.u = v]
  <2>1. OnChain(v)
    BY <1>0, <1>2 DEF PassOK, SyncCompare
  <2>2. /\ p \in [pc : {"idle", "loop", "fetch", "put"}, list : [Agents -> Nat],
                  u : Agents \cup {"none"}, rec : AgentInfo \cup {Absent}]
        /\ p.pc = "loop" /\ p.list = [sync[s].list EXCEPT ![v] = 0]
    BY <1>0, <1>2 DEF PassOK, SyncCompare
  <2>3. sync' = [sync EXCEPT ![s] = Advance(p)] \/ sync' = [sync EXCEPT ![s] = f]
    BY <1>2 DEF SyncCompare
  <2>. HIDE DEF p
  <2>4. PassOK(p)
    BY <1>0, <2>2 DEF PassOK
  <2>5. f.list = p.list /\ f.pc = "fetch" /\ f.u = v
        /\ f \in [pc : {"idle", "loop", "fetch", "put"}, list : [Agents -> Nat],
                  u : Agents \cup {"none"}, rec : AgentInfo \cup {Absent}]
    BY <2>2
  <2>. HIDE DEF f
  <2>6. PassOK(f)
    BY <2>1, <2>4, <2>5 DEF PassOK
  <2>7. faults' = faults \/ Fault
    BY <1>2 DEF SyncCompare
  <2>8. UNCHANGED <<clock, chain, local, logs, mu, call, read, held>>
    BY <1>2 DEF SyncCompare
  <2>. QED BY <2>3, <2>4, <2>6, <2>7, <2>8, AdvanceOK, PassStep
<1>3. CASE SyncFetch(s)
  <2>. DEFINE d == [sync[s] EXCEPT !.pc = "put", !.rec = ChainInfo(sync[s].u)]
  <2>1. sync[s].u \in Agents /\ OnChain(sync[s].u)
    BY <1>0, <1>3 DEF PassOK, SyncFetch
  <2>2. ChainInfo(sync[s].u) \in AgentInfo
        /\ Faithful(held[sync[s].u], chain[sync[s].u], clock, ChainInfo(sync[s].u))
    BY <2>1, ChainInfoFaithful
  <2>3. /\ d \in [pc : {"idle", "loop", "fetch", "put"}, list : [Agents -> Nat],
                  u : Agents \cup {"none"}, rec : AgentInfo \cup {Absent}]
        /\ d.pc = "put" /\ d.list = sync[s].list /\ d.u = sync[s].u
        /\ d.rec = ChainInfo(sync[s].u)
    BY <1>0, <2>2 DEF PassOK
  <2>4. sync' = [sync EXCEPT ![s] = d] \/ sync' = [sync EXCEPT ![s] = Advance(sync[s])]
    BY <1>3 DEF SyncFetch
  <2>. HIDE DEF d
  <2>5. PassOK(d)
    BY <1>0, <2>1, <2>2, <2>3 DEF PassOK
  <2>6. (faults' = faults \/ Fault) /\ UNCHANGED <<clock, chain, local, logs, mu, call, read, held>>
    BY <1>3 DEF SyncFetch
  <2>. QED BY <1>0, <2>4, <2>5, <2>6, AdvanceOK, PassStep
<1>4. CASE SyncPut(s)
  <2>1. Still /\ Grows
    BY <1>4, StillGrows DEF SyncPut, Still, IInv, TypeOK
  <2>2. sync[s].u \in Agents /\ sync[s].rec \in AgentInfo
        /\ Faithful(held[sync[s].u], chain[sync[s].u], clock, sync[s].rec)
    BY <1>0, <1>4 DEF PassOK, SyncPut
  <2>3. SyncInv' /\ sync' \in [Syncers -> [pc : {"idle", "loop", "fetch", "put"},
                                list : [Agents -> Nat], u : Agents \cup {"none"},
                                rec : AgentInfo \cup {Absent}]]
    BY <1>0, <1>4, AdvanceOK, MovePass DEF SyncPut
  <2>4. local' = local \/ local' = [local EXCEPT ![sync[s].u] = sync[s].rec]
    BY <1>4 DEF SyncPut
  <2>5. Faithful(held'[sync[s].u], chain'[sync[s].u], clock', sync[s].rec)
    BY <1>4, <2>2 DEF SyncPut
  <2>6. LocalInv'
    BY <2>1, <2>2, <2>4, <2>5, GrowsLocal, PutLocal
  <2>7. TypeOK'
    <3>1. local' \in [Agents -> AgentInfo \cup {Absent}]
      BY <2>2, <2>4 DEF IInv, TypeOK
    <3>2. faults' \in 0..MaxFaults
      BY <1>4 DEF SyncPut, Fault, IInv, TypeOK
    <3>. QED BY <1>4, <2>3, <3>1, <3>2 DEF SyncPut, IInv, TypeOK
  <2>. QED BY <1>4, <2>1, <2>3, <2>6, <2>7, StillChain, GrowsRead, GrowsCall, GrowsAudit
           DEF IInv, SyncPut
<1>. QED BY <1>1, <1>2, <1>3, <1>4 DEF SyncStep

-----------------------------------------------------------------------------
(* The theorems. *)

\* Stuttering keeps the invariant.
LEMMA StutterIInv ==
  ASSUME IInv, UNCHANGED vars
  PROVE  IInv'
<1>. USE DEF vars
<1>1. Still /\ Grows
  BY StillGrows DEF Still, IInv, TypeOK
<1>2. TypeOK'
  BY DEF IInv, TypeOK
<1>. QED BY <1>1, <1>2, StillChain, GrowsLocal, GrowsRead, GrowsSync, GrowsCall, GrowsAudit DEF IInv

\* IInv is an invariant of HybridBackend, for all parameters: type
\* correctness, faithfulness of every copy of a chain record wherever a reader,
\* the syncer or a pending mirror holds it, and confirmation by the chain of
\* every local operation under way.
THEOREM InductiveInvariant == Spec => []IInv
<1>1. Init => IInv
  BY InitIInv
<1>2. IInv /\ [Next]_vars => IInv'
  <2>. SUFFICES ASSUME IInv, [Next]_vars PROVE IInv'
    OBVIOUS
  <2>. QED BY WriterSteps, ReaderSteps, SyncSteps, StutterIInv DEF Next
<1>. QED BY <1>1, <1>2, PTL DEF Spec

\* The variables of HybridBackend keep their types, for all parameters.
THEOREM TypeTheorem == Spec => []TypeOK
<1>1. IInv => TypeOK
  BY DEF IInv
<1>. QED BY <1>1, InductiveInvariant, PTL

\* The local mirror shows, field by field, only what the chain has shown.
THEOREM MirrorTheorem == Spec => []MirrorShowsOnlyChainHistory
<1>1. IInv => MirrorShowsOnlyChainHistory
  BY DEF IInv, LocalInv, Faithful, MirrorShowsOnlyChainHistory
<1>. QED BY <1>1, InductiveInvariant, PTL

\* The local store never reports an agent unregistered that the chain has not
\* revoked.
THEOREM RevocationTheorem == Spec => []NoFalseRevocation
<1>1. IInv => NoFalseRevocation
  <2>. SUFFICES ASSUME IInv, NEW u \in Agents, local[u].state = "unregistered"
                PROVE  chain[u].state = "revoked"
    BY DEF NoFalseRevocation
  <2>1. local[u] # Absent
    BY DEF Absent
  <2>2. "unregistered" \in held[u].states
    BY <2>1 DEF IInv, LocalInv, Faithful
  <2>. QED BY <2>2 DEF IInv, ChainInv
<1>. QED BY <1>1, InductiveInvariant, PTL

\* Skipping a record whose stamp equals the chain's hides no difference.
THEOREM StampTheorem == Spec => []EqualStampsAgree
<1>1. IInv => EqualStampsAgree
  <2>. SUFFICES ASSUME IInv, NEW u \in Agents, OnChain(u), local[u].at = chain[u].at
                PROVE  local[u] = ChainInfo(u)
    BY DEF EqualStampsAgree
  <2>1. chain[u].at \in 1..clock /\ clock \in Nat
    BY DEF IInv, TypeOK, ChainInv
  <2>2. local[u] # Absent
    BY <2>1 DEF Absent
  <2>. QED BY <2>2 DEF IInv, LocalInv, Faithful, ChainInfo
<1>. QED BY <1>1, InductiveInvariant, PTL

\* The local audit log is never ahead of the chain.
THEOREM AuditTheorem == Spec => []AuditNeverAheadOfChain
<1>1. IInv => AuditNeverAheadOfChain
  BY DEF IInv
<1>. QED BY <1>1, InductiveInvariant, PTL
-----------------------------------------------------------------------------
(* The chain implements the lifecycle of domain/state.go. *)

\* The status of every agent, as the refinement mapping reads it.
statusMap == [u \in Agents |-> ChainStatus(u)]

\* A confirmation for u changes the status of u alone.
LEMMA ConfirmStatus ==
  ASSUME IInv, NEW u \in Agents, NEW st \in ChainStates, NEW lv, Confirm(u, st, lv)
  PROVE  statusMap' = [statusMap EXCEPT ![u] = mapChainState(st)]
<1>1. chain' = [chain EXCEPT ![u] = Info(st, lv, clock + 1)]
  BY DEF Confirm
<1>2. chain \in [Agents -> ChainRecord \cup {Absent}]
  BY DEF IInv, TypeOK
<1>3. chain'[u].state = st /\ st # "absent"
  BY <1>1, <1>2 DEF Info, ChainStates
<1>4. ChainStatus(u)' = mapChainState(st)
  BY <1>3 DEF ChainStatus, OnChain
<1>5. ASSUME NEW v \in Agents, v # u PROVE ChainStatus(v)' = ChainStatus(v)
  BY <1>1, <1>2, <1>5 DEF ChainStatus, OnChain
<1>6. \A v \in Agents : statusMap'[v] = IF v = u THEN mapChainState(st) ELSE statusMap[v]
  BY <1>4, <1>5 DEF statusMap
<1>. HIDE DEF ChainStatus
<1>. QED BY <1>6 DEF statusMap

\* Transact is a transition of the table, a registration, or no change of
\* status.
LEMMA TransactLifecycle ==
  ASSUME IInv, NEW op, NEW u \in Agents, NEW l, Transact(op, u, l)
  PROVE  [ChainLifecycle!Next]_statusMap
<1>. DEFINE now == statusMap[u]
<1>0. chain[u] \in ChainRecord \cup {Absent} /\ statusMap[u] = ChainStatus(u)
  BY DEF IInv, TypeOK, statusMap
<1>1. ASSUME NEW st \in ChainStates, NEW lv, Confirm(u, st, lv),
             \/ now = "absent" /\ st = "active"
             \/ now = "active" /\ st \in {"banned", "revoked"}
             \/ now = "banned" /\ st \in {"active", "revoked"}
             \/ now = mapChainState(st)
      PROVE  [ChainLifecycle!Next]_statusMap
  <2>1. statusMap' = [statusMap EXCEPT ![u] = mapChainState(st)]
    BY <1>1, ConfirmStatus
  <2>2. CASE now = "absent" /\ st = "active"
    <3>1. ChainLifecycle!Register(u)
      BY <2>1, <2>2, MapCases DEF ChainLifecycle!Register, statusMap
    <3>. QED BY <3>1 DEF ChainLifecycle!Next
  <2>3. CASE now = "active" /\ st \in {"banned", "revoked"}
    <3>1. mapChainState(st) \in ChainLifecycle!States /\ ChainLifecycle!CanTransition(now, mapChainState(st))
      BY <2>3, MapCases DEF ChainLifecycle!States, ChainLifecycle!CanTransition,
                            ChainLifecycle!StateTransition
    <3>2. ChainLifecycle!Transition(u)
      BY <2>1, <3>1 DEF ChainLifecycle!Transition, statusMap
    <3>. QED BY <3>2 DEF ChainLifecycle!Next
  <2>4. CASE now = "banned" /\ st \in {"active", "revoked"}
    <3>1. mapChainState(st) \in ChainLifecycle!States /\ ChainLifecycle!CanTransition(now, mapChainState(st))
      BY <2>4, MapCases DEF ChainLifecycle!States, ChainLifecycle!CanTransition,
                            ChainLifecycle!StateTransition
    <3>2. ChainLifecycle!Transition(u)
      BY <2>1, <3>1 DEF ChainLifecycle!Transition, statusMap
    <3>. QED BY <3>2 DEF ChainLifecycle!Next
  <2>5. CASE now = mapChainState(st)
    BY <2>1, <2>5 DEF statusMap
  <2>. QED BY <1>1, <2>2, <2>3, <2>4, <2>5
<1>2. ASSUME Noop PROVE statusMap' = statusMap
  BY <1>2 DEF Noop, statusMap, ChainStatus, OnChain
<1>3. /\ chain[u].state = "active" => now = "active"
      /\ chain[u].state = "banned" => now = "banned"
      /\ ~OnChain(u) => now = "absent"
  BY <1>0, MapCases DEF ChainStatus, OnChain
<1>. HIDE DEF now
<1>4. CASE op = "register"
  BY <1>1, <1>3, <1>4 DEF Transact, ChainRegister, ChainStates
<1>5. CASE op = "upgrade"
  BY <1>1, <1>3, <1>5, MapCases DEF Transact, ChainUpdateLevel, ChainStates
<1>6. CASE op = "ban"
  BY <1>1, <1>2, <1>3, <1>6 DEF Transact, ChainBan, ChainStates
<1>7. CASE op = "unban"
  BY <1>1, <1>2, <1>3, <1>7 DEF Transact, ChainUnban, ChainStates
<1>8. CASE op = "unregister"
  BY <1>1, <1>2, <1>3, <1>8 DEF Transact, ChainRevoke, ChainStates
<1>. QED BY <1>4, <1>5, <1>6, <1>7, <1>8 DEF Transact

\* Only a chain call touches the chain; every other step is a stutter of the
\* lifecycle.
LEMMA StepLifecycle ==
  ASSUME IInv, [Next]_vars
  PROVE  [ChainLifecycle!Next]_statusMap
<1>1. ASSUME NEW w \in Writers, ChainCall(w)
      PROVE  [ChainLifecycle!Next]_statusMap
  <2>1. call[w] \in WriteCall
    BY <1>1 DEF ChainCall, IInv, TypeOK, Idle
  <2>2. call[w].u \in Agents
    BY <2>1 DEF WriteCall
  <2>. QED BY <1>1, <2>2, TransactLifecycle DEF ChainCall
<1>2. ASSUME UNCHANGED chain PROVE statusMap' = statusMap
  BY <1>2 DEF statusMap, ChainStatus, OnChain
<1>3. ASSUME NEW w \in Writers, Begin(w) PROVE UNCHANGED chain
  BY <1>3 DEF Begin, BeginRegister, BeginWrite
<1>4. ASSUME NEW w \in Writers, WriterStep(w), ~ChainCall(w) PROVE UNCHANGED chain
  BY <1>4 DEF WriterStep, ChainFails, Mirror, MirrorFails, LocalCall
<1>5. ASSUME NEW r \in Readers, BeginRead(r) \/ ReaderStep(r) PROVE UNCHANGED chain
  BY <1>5 DEF BeginRead, ReadLocal, ReadLocalFails, BatchPanics, ReaderStep, ReadChain, ReadChainFails, Backfill
<1>6. ASSUME NEW s \in Syncers, SyncStep(s) PROVE UNCHANGED chain
  BY <1>6 DEF SyncStep, SyncList, SyncFetch, SyncPut, SyncCompare
<1>. QED BY <1>1, <1>2, <1>3, <1>4, <1>5, <1>6 DEF Next, vars

\* Whatever mix of writers, readers and syncers runs above it, the chain's
\* records follow domain.StateTransition: the hybrid backend implements the
\* agent lifecycle.
THEOREM LifecycleTheorem == Spec => ChainFollowsLifecycle
<1>1. Init => ChainLifecycle!Init
  BY DEF Init, ChainInit, ChainLifecycle!Init, ChainStatus, OnChain, Absent
<1>2. IInv /\ [Next]_vars => [ChainLifecycle!Next]_statusMap
  BY StepLifecycle
<1>. QED BY <1>1, <1>2, InductiveInvariant, PTL
         DEF Spec, ChainFollowsLifecycle, ChainLifecycle!Spec, statusMap

-----------------------------------------------------------------------------
(* The syncer's life cycle. *)

\* Start keeps the invariant: a Start that goes on after a Close has begun is
\* a race.
LEMMA StartStep ==
  ASSUME SLInv, NEW g \in Callers, Start(g)
  PROVE  SLInv'
<1>. DEFINE pc == IF ~started /\ interval > 0 THEN "syncer" ELSE "idle"
<1>1. /\ doing' = [doing EXCEPT ![g] = pc] /\ doing[g] = "idle"
      /\ raced' = (raced \/ (~started /\ interval > 0 /\ closes # "none"))
      /\ UNCHANGED <<stopOnce, stopped, loop, closes>>
  BY DEF Start, Go, Is
<1>2. pc \in {"idle", "syncer"} /\ (closes # "none" /\ ~raced' => pc = "idle" /\ ~raced)
  BY <1>1
<1>3. (~raced' => ~raced) /\ raced' \in BOOLEAN
  BY <1>1
<1>. HIDE DEF pc
<1>4. SLTypeOK'
  BY <1>1, <1>2, <1>3 DEF SLInv, SLTypeOK, Starting
<1>5. \A h \in Callers : doing'[h] = IF h = g THEN pc ELSE doing[h]
  BY <1>1 DEF SLInv, SLTypeOK
<1>6. pc \notin Stopping /\ (pc = "idle" => pc \notin Starting)
  BY <1>2 DEF Stopping, Starting
<1>7. \A h \in Callers : doing'[h] \in Stopping => doing[h] \in Stopping
  BY <1>5, <1>6
<1>8. \A h \in Callers : doing'[h] = "close" => doing[h] = "close"
  BY <1>2, <1>5
<1>9. closes' # "none" /\ ~raced' => \A h \in Callers : doing'[h] \notin Starting
  BY <1>1, <1>2, <1>5, <1>6 DEF SLInv
<1>. QED BY <1>1, <1>3, <1>4, <1>7, <1>8, <1>9 DEF SLInv

\* Close keeps the invariant: it has raced if it begins before a Start is over.
LEMMA CloseStep ==
  ASSUME SLInv, NEW g \in Callers, Close(g)
  PROVE  SLInv'
<1>. DEFINE pc == IF stopOnce = "new" THEN "stop_cancel" ELSE "once"
<1>1. /\ doing' = [doing EXCEPT ![g] = pc] /\ doing[g] = "idle"
      /\ raced' = (raced \/ \E h \in Callers : doing[h] \in Starting)
      /\ stopOnce' = IF stopOnce = "new" THEN "running" ELSE stopOnce
      /\ closes' = IF closes = "none" THEN "begun" ELSE closes
      /\ UNCHANGED <<stopped, loop>>
  BY DEF Close, Go, Is
<1>2. pc \in {"stop_cancel", "once"}
  OBVIOUS
<1>3. (~raced' => ~raced /\ \A h \in Callers : doing[h] \notin Starting) /\ raced' \in BOOLEAN
  BY <1>1
<1>. HIDE DEF pc
<1>4. SLTypeOK'
  BY <1>1, <1>2, <1>3 DEF SLInv, SLTypeOK, Stopping
<1>5. \A h \in Callers : doing'[h] = IF h = g THEN pc ELSE doing[h]
  BY <1>1 DEF SLInv, SLTypeOK
<1>6. closes' # "none" /\ (closes' = "closed" => closes = "closed") /\ (stopOnce' = "done" => stopOnce = "done")
  BY <1>1
<1>7. \A h \in Callers : doing'[h] = "close" => doing[h] = "close"
  BY <1>2, <1>5
<1>8. pc \notin Starting
  BY <1>2 DEF Starting
<1>. QED BY <1>1, <1>3, <1>4, <1>5, <1>6, <1>7, <1>8 DEF SLInv

\* The steps of backgroundSyncer.Start: under way only before a Close, or in a
\* race.
LEMMA StartingStep ==
  ASSUME SLInv, NEW g \in Callers, SyncerStart(g) \/ SetCancel(g) \/ SetStopped(g)
  PROVE  SLInv'
<1>1. doing[g] \in Starting /\ UNCHANGED <<stopOnce, closes, raced>>
  BY DEF SyncerStart, SetCancel, SetStopped, Is, Starting
<1>2. PICK pc \in {"idle", "set_cancel", "set_stopped"} : doing' = [doing EXCEPT ![g] = pc]
  BY DEF SyncerStart, SetCancel, SetStopped, Go
<1>3. UNCHANGED <<stopped, loop>> \/ (stopped' = "open" /\ loop' = "select")
  BY DEF SyncerStart, SetCancel, SetStopped
<1>4. SLTypeOK'
  BY <1>1, <1>2, <1>3 DEF SLInv, SLTypeOK, Starting
<1>5. closes = "none" \/ raced
  BY <1>1 DEF SLInv
<1>6. \A h \in Callers : doing'[h] = IF h = g THEN pc ELSE doing[h]
  BY <1>2 DEF SLInv, SLTypeOK
<1>7. pc \notin Stopping /\ pc # "close"
  BY DEF Stopping
<1>8. \A h \in Callers : doing'[h] \in Stopping => doing[h] \in Stopping
  BY <1>6, <1>7
<1>9. "close" \in Stopping
  BY DEF Stopping
<1>10. closes' = "none" /\ ~raced' => stopOnce' = "new" /\ \A h \in Callers : doing'[h] # "close"
  BY <1>1, <1>8, <1>9 DEF SLInv, SLTypeOK
<1>11. (stopped' = "nil" <=> loop' = "none") /\ (stopped' = "closed" <=> loop' = "ended")
  BY <1>3 DEF SLInv
<1>12. stopOnce' # "new" \/ (\E h \in Callers : doing'[h] \in Stopping) => closes' # "none"
  BY <1>1, <1>8 DEF SLInv
<1>. QED BY <1>1, <1>4, <1>5, <1>10, <1>11, <1>12 DEF SLInv

\* The steps of Stop and of the sub-backends' Close: Stop goes on only when it
\* finds no loop, or one that has ended.
LEMMA StoppingStep ==
  ASSUME SLInv, NEW g \in Callers,
         OnceDone(g) \/ StopCancel(g) \/ StopWait(g) \/ StopWoken(g) \/ CloseBackends(g)
  PROVE  SLInv'
<1>1. doing[g] \in Stopping /\ closes # "none" /\ UNCHANGED <<stopped, loop, raced>>
  BY DEF OnceDone, StopCancel, StopWait, StopWoken, CloseBackends, Is, Stopping, SLInv
<1>2. PICK pc \in {"idle", "stop_wait", "stop_waits", "close"} : doing' = [doing EXCEPT ![g] = pc]
  BY DEF OnceDone, StopCancel, StopWait, StopWoken, CloseBackends, Go
<1>3. /\ closes' \in {closes, "closed"} /\ stopOnce' \in {stopOnce, "done"}
      /\ closes' = "closed" => closes = "closed" \/ doing[g] = "close"
  BY DEF OnceDone, StopCancel, StopWait, StopWoken, CloseBackends, Is
<1>4. \A h \in Callers : doing'[h] = IF h = g THEN pc ELSE doing[h]
  BY <1>2 DEF SLInv, SLTypeOK
<1>5. /\ stopOnce' = "done" => stopOnce = "done" \/ stopped \in {"nil", "closed"}
      /\ doing'[g] = "close" => stopOnce = "done" \/ stopped \in {"nil", "closed"}
  <2>1. CASE OnceDone(g)
    BY <2>1 DEF OnceDone
  <2>2. CASE StopCancel(g)
    BY <1>4, <2>2 DEF StopCancel, Go, SLInv, SLTypeOK
  <2>3. CASE StopWait(g)
    BY <2>3 DEF StopWait, Go, SLInv, SLTypeOK
  <2>4. CASE StopWoken(g)
    BY <2>4 DEF StopWoken
  <2>5. CASE CloseBackends(g)
    BY <2>5 DEF CloseBackends, Go, SLInv, SLTypeOK
  <2>. QED BY <2>1, <2>2, <2>3, <2>4, <2>5
<1>6. SLTypeOK'
  BY <1>1, <1>2, <1>3 DEF SLInv, SLTypeOK, Stopping
<1>7. pc \notin Starting
  BY DEF Starting
<1>8. closes' # "none" /\ ~raced' => \A h \in Callers : doing'[h] \notin Starting
  BY <1>1, <1>4, <1>7 DEF SLInv
<1>9. (stopOnce' = "done" \/ (\E h \in Callers : doing'[h] = "close") \/ closes' = "closed") /\ ~raced'
        => loop' \in {"none", "ended"}
  BY <1>1, <1>3, <1>4, <1>5 DEF SLInv
<1>. QED BY <1>1, <1>3, <1>6, <1>8, <1>9 DEF SLInv

\* The loop's own steps begin in select or in a pass, which SLInv excludes
\* once Stop has returned.
LEMMA LoopStep ==
  ASSUME SLInv, Tick \/ PassEnds \/ LoopEnds \/ ParentCancelled
  PROVE  SLInv'
<1>1. UNCHANGED <<doing, stopOnce, closes, raced>>
  BY DEF Tick, PassEnds, LoopEnds, ParentCancelled
<1>2. \/ UNCHANGED <<loop, stopped>>
      \/ loop \in {"select", "pass"} /\ loop' \in {"select", "pass"} /\ UNCHANGED stopped
      \/ loop' = "ended" /\ stopped' = "closed"
  BY DEF Tick, PassEnds, LoopEnds, ParentCancelled
<1>3. SLTypeOK'
  BY <1>1, <1>2 DEF SLInv, SLTypeOK
<1>. QED BY <1>1, <1>2, <1>3 DEF SLInv

\* When the sub-backends have been closed no pass runs and none will, for any
\* number of goroutines calling Start and Close, unless a Start was not over
\* when a Close began.
THEOREM StopTheorem == SLSpec => []StoppedBeforeClosed
<1>1. SLInit => SLInv
  BY DEF SLInit, SLInv, SLTypeOK, Starting, Stopping
<1>2. SLInv /\ [SLNext]_slVars => SLInv'
  <2>. SUFFICES ASSUME SLInv, [SLNext]_slVars PROVE SLInv'
    OBVIOUS
  <2>1. CASE UNCHANGED slVars
    BY <2>1 DEF slVars, SLInv, SLTypeOK
  <2>. QED BY <2>1, StartStep, CloseStep, StartingStep, StoppingStep, LoopStep DEF SLNext, CallStep
<1>3. SLInv => StoppedBeforeClosed
  BY DEF SLInv, StoppedBeforeClosed
<1>. QED BY <1>1, <1>2, <1>3, PTL DEF SLSpec
=============================================================================
