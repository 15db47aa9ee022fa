-------------------------- MODULE AgentServiceProofs --------------------------
(***************************************************************************)
(* Proofs about AgentService for every number of agents, requests and      *)
(* failures.  ServiceInv separates what holds of every interleaving (the   *)
(* store is written first and never emptied) from what holds while no two  *)
(* writes have overlapped (a workflow writes back the record that is still *)
(* stored, one field replaced).                                            *)
(***************************************************************************)
EXTENDS AgentService, TLAPS

USE LevelsAssumption, MasksAssumption, BoundsAssumption

-----------------------------------------------------------------------------
(* The operators. *)

\* A stored or on-chain record is never the zero record.
LEMMA RecordsAreNotNone ==
  /\ \A a \in AgentRecord : a # None /\ a.level \in 0..MaxLevel
  /\ \A a \in OnChain : a # None /\ a.level \in 0..MaxLevel
  BY DEF AgentRecord, OnChain, None, States

\* The mask of a level is a number of blocks and grows with the level.
LEMMA MaskGrows ==
  ASSUME NEW l \in 0..MaxLevel, NEW k \in 0..MaxLevel, l <= k
  PROVE  /\ DefaultMaxPermissions(l) \in 1..4
         /\ DefaultMaxPermissions(l) <= DefaultMaxPermissions(k)
  BY DEF DefaultMaxPermissions, MaxLevel

\* What an accepted workflow writes: a record of no lower level.  An unban is
\* never accepted, because NewAgent rebuilds a registered entity; an agent
\* that is barred is only barred again.
LEMMA AcceptedWrite ==
  ASSUME NEW a \in AgentRecord, NEW op \in Writes \ {"register"}, NEW l \in 0..MaxLevel,
         Accepts(op, a, l)
  PROVE  /\ Updated(op, a, l) \in AgentRecord
         /\ a.level <= Updated(op, a, l).level
         /\ op = "upgrade" => Updated(op, a, l).level = l
         /\ op \in {"ban", "revoke"} => Updated(op, a, l).state \in Barring
         /\ op # "unban"
         /\ a.state \in Barring => Updated(op, a, l).state \in Barring
<1>0. a.level \in 0..MaxLevel /\ a.state \in States
  BY DEF AgentRecord
<1>1. CASE op = "upgrade"
  <2>1. Updated("upgrade", a, l) = [a EXCEPT !.level = l]
    BY DEF Updated
  <2>2. l = a.level + 1 /\ a.state \in {"active", "registered"}
    BY <1>1 DEF Accepts, isUpgradable, Upgrade, NewAgent, Agent
  <2>. QED BY <1>0, <1>1, <2>1, <2>2 DEF AgentRecord, Barring, MaxLevel
<1>2. CASE op = "ban"
  <2>1. Updated("ban", a, l) = [a EXCEPT !.state = "banned"]
    BY DEF Updated
  <2>. QED BY <1>0, <1>2, <2>1 DEF AgentRecord, Barring, MaxLevel, States
<1>3. CASE op = "revoke"
  <2>1. Updated("revoke", a, l) = [a EXCEPT !.state = "unregistered"]
    BY DEF Updated
  <2>. QED BY <1>0, <1>3, <2>1 DEF AgentRecord, Barring, MaxLevel, States
<1>4. CASE op = "unban"
  BY <1>4 DEF Accepts, Unban, NewAgent, Agent
<1>. QED BY <1>1, <1>2, <1>3, <1>4 DEF Writes

\* What the chain records for an operation it accepts.
LEMMA ChainWrite ==
  ASSUME TypeOK, NEW op \in Writes, NEW u \in Agents, NEW l \in 0..MaxLevel,
         ChainAccepts(op, u)
  PROVE  /\ ChainEffect(op, u, l) \in OnChain
         /\ op \in {"register", "upgrade"} => ChainEffect(op, u, l).level = l
         /\ op \notin {"register", "upgrade"} => ChainEffect(op, u, l).level = chain[u].level
<1>1. op # "register" => chain[u] \in OnChain
  BY DEF ChainAccepts, TypeOK
<1>2. CASE op = "register"
  <2>1. ChainEffect("register", u, l) = Agent("active", l)
    BY DEF ChainEffect
  <2>. QED BY <1>2, <2>1 DEF Agent, OnChain
<1>3. CASE op = "upgrade"
  <2>1. ChainEffect("upgrade", u, l) = [chain[u] EXCEPT !.level = l]
    BY DEF ChainEffect
  <2>. QED BY <1>1, <1>3, <2>1 DEF OnChain
<1>4. CASE op = "ban"
  <2>1. ChainEffect("ban", u, l) = [chain[u] EXCEPT !.state = "banned"]
    BY DEF ChainEffect
  <2>. QED BY <1>1, <1>4, <2>1 DEF OnChain
<1>5. CASE op \in {"unban", "revoke"}
  <2>1. /\ ChainEffect("unban", u, l) = [chain[u] EXCEPT !.state = "active"]
        /\ ChainEffect("revoke", u, l) = [chain[u] EXCEPT !.state = "active"]
    BY DEF ChainEffect
  <2>. QED BY <1>1, <1>5, <2>1 DEF OnChain
<1>. QED BY <1>2, <1>3, <1>4, <1>5 DEF Writes

-----------------------------------------------------------------------------
(* What a step that moves one request leaves alone. *)

\* No request is under way on an idle client.
LEMMA IdleShape ==
  /\ Idle.op \notin Writes /\ Idle.op # "register"
  /\ \A a, bar : Shape(Idle, a, bar)
  /\ \A a : Solo(Idle, a)
<1>1. /\ Idle.pc = "idle" /\ Idle.op = "none" /\ Idle.after = FALSE
  BY DEF Idle
<1>2. "none" \notin Writes
  BY DEF Writes
<1>. HIDE DEF Idle
<1>. QED BY <1>1, <1>2 DEF Shape, Solo

\* Shapes survive a step that loses no stored agent and unbars nobody.
LEMMA MoveShape ==
  ASSUME ServiceInv, NEW c \in Clients, NEW d \in CallRecord \cup {Idle},
         call' = [call EXCEPT ![c] = d],
         \A u \in Agents : agents[u] # None => agents'[u] # None,
         barred \subseteq barred',
         Shape(d, agents'[d.u], d.u \in barred')
  PROVE  ShapeInv'
<1>. SUFFICES ASSUME NEW x \in Clients
              PROVE  Shape(call'[x], agents'[call'[x].u], call'[x].u \in barred')
  BY DEF ShapeInv
<1>0. call \in [Clients -> CallRecord \cup {Idle}]
  BY DEF ServiceInv, TypeOK
<1>1. CASE x = c
  BY <1>0, <1>1
<1>2. CASE x # c
  <2>1. call'[x] = call[x] /\ Shape(call[x], agents[call[x].u], call[x].u \in barred)
    BY <1>0, <1>2 DEF ServiceInv, ShapeInv
  <2>2. CASE call[x] = Idle
    BY <2>1, <2>2, IdleShape
  <2>3. CASE call[x] \in CallRecord
    <3>1. call[x].u \in Agents
      BY <2>3 DEF CallRecord
    <3>. QED BY <2>1, <3>1 DEF Shape
  <2>. QED BY <1>0, <2>2, <2>3
<1>. QED BY <1>1, <1>2

\* The facts about runs without overlapping writes survive a step of the one
\* writer, or of a reader that leaves the store alone.
LEMMA MoveSolo ==
  ASSUME ServiceInv, NEW c \in Clients, NEW d \in CallRecord \cup {Idle},
         call' = [call EXCEPT ![c] = d], overlap' = overlap,
         agents' = agents \/ call[c].op \in Writes,
         d = Idle \/ d.op = call[c].op,
         ~overlap => Solo(d, agents'[d.u]),
         ~overlap => \A u \in barred' : agents'[u].state \in Barring
  PROVE  SoloInv'
<1>. SUFFICES ASSUME ~overlap
              PROVE  /\ \A x, y \in Clients : call'[x].op \in Writes /\ call'[y].op \in Writes => x = y
                     /\ \A x \in Clients : Solo(call'[x], agents'[call'[x].u])
  BY DEF SoloInv
<1>0. call \in [Clients -> CallRecord \cup {Idle}]
  BY DEF ServiceInv, TypeOK
<1>1. \A x, y \in Clients : call[x].op \in Writes /\ call[y].op \in Writes => x = y
  BY DEF ServiceInv, SoloInv
<1>2. \A x \in Clients : call'[x].op \in Writes => call[x].op \in Writes
  BY <1>0, IdleShape
<1>3. ASSUME NEW x \in Clients PROVE Solo(call'[x], agents'[call'[x].u])
  <2>1. CASE x = c
    BY <1>0, <2>1
  <2>2. CASE x # c
    <3>1. /\ call'[x] = call[x] /\ Solo(call[x], agents[call[x].u])
          /\ Shape(call[x], agents[call[x].u], call[x].u \in barred)
      BY <1>0, <2>2 DEF ServiceInv, ShapeInv, SoloInv
    <3>2. CASE agents' = agents
      BY <3>1, <3>2
    <3>3. CASE call[c].op \in Writes
      <4>1. call[x].op \notin Writes
        BY <1>1, <2>2, <3>3
      <4>2. call[x].pc \notin {"put", "perms", "chain"}
        BY <3>1, <4>1 DEF Shape
      <4>. QED BY <3>1, <4>2 DEF Solo
    <3>. QED BY <3>2, <3>3
  <2>. QED BY <2>1, <2>2
<1>. QED BY <1>1, <1>2, <1>3

\* The mask of a registration under way stays what it was asked for.
LEMMA MoveMask ==
  ASSUME ServiceInv, NEW c \in Clients, NEW d \in CallRecord \cup {Idle},
         call' = [call EXCEPT ![c] = d], masked' = masked,
         ~masked /\ d.op = "register" =>
           d.mask = IF d.pc = "load" THEN 0 ELSE DefaultMaxPermissions(d.lvl)
  PROVE  MaskInv'
  BY DEF ServiceInv, MaskInv, TypeOK

\* The facts about the stores survive a step that touches none of them.
LEMMA QuietStores ==
  ASSUME ServiceInv, UNCHANGED <<agents, perms, chain, won, useChain, leaked>>,
         overlap => overlap', masked => masked'
  PROVE  StoreInv' /\ ChainNeverAhead' /\ PermsWithinLevel' /\ BarredStaysDenied'
<1>1. StoreInv'
  BY DEF ServiceInv, StoreInv, ChainKnowsOnlyStored
<1>2. ChainNeverAhead'
  BY DEF ServiceInv, ChainNeverAhead
<1>3. PermsWithinLevel'
  BY DEF ServiceInv, PermsWithinLevel
<1>4. BarredStaysDenied'
  BY DEF ServiceInv, BarredStaysDenied
<1>. QED BY <1>1, <1>2, <1>3, <1>4

\* A step that moves only a request, and perhaps counts a failure.
LEMMA QuietStep ==
  ASSUME ServiceInv, NEW c \in Clients, NEW d \in CallRecord \cup {Idle},
         call' = [call EXCEPT ![c] = d],
         UNCHANGED <<history, useChain, agents, perms, chain, won, calls>>,
         UNCHANGED faults \/ Fault,
         d = Idle \/ /\ d.op = call[c].op
                     /\ Shape(d, agents[d.u], d.u \in barred)
                     /\ ~overlap => Solo(d, agents[d.u])
                     /\ ~masked /\ d.op = "register" =>
                          d.mask = IF d.pc = "load" THEN 0 ELSE DefaultMaxPermissions(d.lvl)
  PROVE  ServiceInv'
<1>0. UNCHANGED <<overlap, masked, barred, leaked>>
  BY DEF history
<1>1. TypeOK'
  <2>1. faults' \in 0..MaxFaults
    BY DEF ServiceInv, TypeOK, Fault
  <2>. QED BY <1>0, <2>1 DEF ServiceInv, TypeOK
<1>2. ShapeInv'
  BY <1>0, MoveShape, IdleShape
<1>3. SoloInv'
  <2>1. ~overlap => Solo(d, agents'[d.u])
    BY IdleShape
  <2>2. ~overlap => \A u \in barred' : agents'[u].state \in Barring
    BY <1>0 DEF ServiceInv, SoloInv
  <2>. QED BY <1>0, <2>1, <2>2, MoveSolo
<1>4. MaskInv'
  BY <1>0, MoveMask, IdleShape
<1>5. StoreInv' /\ ChainNeverAhead' /\ PermsWithinLevel' /\ BarredStaysDenied'
  BY <1>0, QuietStores
<1>. QED BY <1>1, <1>2, <1>3, <1>4, <1>5 DEF ServiceInv

-----------------------------------------------------------------------------
(* The steps. *)

\* A request under way has typed fields and the facts of the invariant.
LEMMA UnderWay ==
  ASSUME ServiceInv, NEW c \in Clients, call[c].pc # "idle"
  PROVE  LET q == call[c] IN
         /\ q \in CallRecord /\ q.u \in Agents /\ q.op \in Writes \cup Reads
         /\ q.lvl \in 0..MaxLevel /\ q.mask \in 0..4 /\ q.rec \in AgentRecord \cup {None}
         /\ agents[q.u] \in AgentRecord \cup {None}
         /\ Shape(q, agents[q.u], q.u \in barred)
         /\ ~overlap => Solo(q, agents[q.u])
<1>1. call[c] \in CallRecord
  BY DEF ServiceInv, TypeOK, Idle
<1>. QED BY <1>1 DEF CallRecord, ServiceInv, TypeOK, ShapeInv, SoloInv

LEMMA InitService == Init => ServiceInv
<1>. SUFFICES ASSUME Init PROVE ServiceInv
  OBVIOUS
<1>1. TypeOK
  <2>1. 0 \in 0..MaxFaults /\ 0 \in 0..MaxCalls /\ 0 \in 0..4
    OBVIOUS
  <2>. QED BY <2>1 DEF Init, TypeOK
<1>2. ShapeInv
  BY IdleShape DEF Init, ShapeInv
<1>3. StoreInv
  BY DEF Init, StoreInv, ChainKnowsOnlyStored
<1>4. MaskInv
  BY IdleShape DEF Init, MaskInv
<1>5. SoloInv
  BY IdleShape DEF Init, SoloInv
<1>6. ChainNeverAhead /\ PermsWithinLevel /\ BarredStaysDenied
  BY DEF Init, ChainNeverAhead, PermsWithinLevel, BarredStaysDenied
<1>. QED BY <1>1, <1>2, <1>3, <1>4, <1>5, <1>6 DEF ServiceInv

\* A new request: if it overlaps another write, overlap is set.
LEMMA BeginStep ==
  ASSUME ServiceInv, NEW c \in Clients, NEW op \in Writes \cup Reads, NEW u \in Agents,
         NEW l \in 0..MaxLevel, NEW m \in 0..4, Begin(c, op, u, l, m)
  PROVE  ServiceInv'
<1>. DEFINE d == [pc |-> "load", op |-> op, u |-> u, lvl |-> l, mask |-> m, rec |-> None,
                  after |-> u \in barred]
<1>1. /\ call[c] = Idle /\ call' = [call EXCEPT ![c] = d]
      /\ calls < MaxCalls /\ calls' = calls + 1
      /\ UNCHANGED <<useChain, agents, perms, chain, won, barred, leaked, faults>>
      /\ overlap' = (overlap \/ (op \in Writes /\ \E x \in Clients : call[x].op \in Writes))
      /\ masked' = (masked \/ (op = "register" /\ m # 0))
  BY DEF Begin
<1>2. d \in CallRecord
  BY DEF CallRecord
<1>3. /\ d.pc = "load" /\ d.op = op /\ d.u = u /\ d.lvl = l /\ d.mask = m
      /\ (d.after => u \in barred)
  OBVIOUS
<1>. HIDE DEF d
<1>4. call \in [Clients -> CallRecord \cup {Idle}]
  BY DEF ServiceInv, TypeOK
<1>5. TypeOK'
  <2>1. calls' \in 0..MaxCalls
    BY <1>1 DEF ServiceInv, TypeOK
  <2>2. overlap' \in BOOLEAN /\ masked' \in BOOLEAN
    BY <1>1
  <2>. QED BY <1>1, <1>2, <2>1, <2>2 DEF ServiceInv, TypeOK
<1>6. ShapeInv'
  <2>1. Shape(d, agents'[d.u], d.u \in barred')
    BY <1>1, <1>3 DEF Shape
  <2>. QED BY <1>1, <1>2, <2>1, MoveShape
<1>7. SoloInv'
  <2>. SUFFICES ASSUME ~overlap'
                PROVE  /\ \A x, y \in Clients : call'[x].op \in Writes /\ call'[y].op \in Writes => x = y
                       /\ \A x \in Clients : Solo(call'[x], agents'[call'[x].u])
                       /\ \A v \in barred' : agents'[v].state \in Barring
    BY DEF SoloInv
  <2>1. ~overlap /\ (op \in Writes => \A x \in Clients : call[x].op \notin Writes)
    BY <1>1
  <2>2. /\ \A x, y \in Clients : call[x].op \in Writes /\ call[y].op \in Writes => x = y
        /\ \A x \in Clients : Solo(call[x], agents[call[x].u])
        /\ \A v \in barred : agents[v].state \in Barring
    BY <2>1 DEF ServiceInv, SoloInv
  <2>3. \A x \in Clients : call'[x] = IF x = c THEN d ELSE call[x]
    BY <1>1, <1>4
  <2>4. \A a : Solo(d, a)
    BY <1>3 DEF Solo
  <2>. QED BY <1>1, <1>3, <2>1, <2>2, <2>3, <2>4
<1>8. MaskInv'
  <2>. SUFFICES ASSUME ~masked', NEW x \in Clients, call'[x].op = "register"
                PROVE  call'[x].mask = IF call'[x].pc = "load" THEN 0
                                       ELSE DefaultMaxPermissions(call'[x].lvl)
    BY DEF MaskInv
  <2>1. ~masked /\ ~(op = "register" /\ m # 0)
    BY <1>1
  <2>2. CASE x = c
    BY <1>1, <1>3, <1>4, <2>1, <2>2
  <2>3. CASE x # c
    BY <1>1, <1>4, <2>1, <2>3 DEF ServiceInv, MaskInv
  <2>. QED BY <2>2, <2>3
<1>9. StoreInv' /\ ChainNeverAhead' /\ PermsWithinLevel' /\ BarredStaysDenied'
  BY <1>1, QuietStores
<1>. QED BY <1>5, <1>6, <1>7, <1>8, <1>9 DEF ServiceInv

\* HandleRegister finds the uuid free.
LEMMA ExistsStep ==
  ASSUME ServiceInv, NEW c \in Clients, Exists(c)
  PROVE  ServiceInv'
<1>. DEFINE q == call[c]
            p == IF q.mask = 0 THEN DefaultMaxPermissions(q.lvl) ELSE q.mask
            d == [q EXCEPT !.pc = "put", !.mask = p, !.rec = NewAgent(q.lvl)]
<1>1. /\ q.pc = "load" /\ q.op = "register" /\ agents[q.u] = None
      /\ call' = [call EXCEPT ![c].pc = "put", ![c].mask = p, ![c].rec = NewAgent(q.lvl)]
      /\ UNCHANGED <<history, useChain, agents, perms, chain, won, faults, calls>>
  BY DEF Exists
<1>2. /\ q \in CallRecord /\ q.u \in Agents /\ q.lvl \in 0..MaxLevel /\ q.mask \in 0..4
      /\ Shape(q, agents[q.u], q.u \in barred)
  BY <1>1, UnderWay
<1>3. p \in 0..4 /\ NewAgent(q.lvl) \in AgentRecord
  BY <1>2, MaskGrows DEF NewAgent, Agent, AgentRecord, States, MaxLevel
<1>4. /\ d \in CallRecord /\ d.pc = "put" /\ d.mask = p /\ d.rec = NewAgent(q.lvl)
      /\ d.op = q.op /\ d.u = q.u /\ d.lvl = q.lvl /\ d.after = q.after
  BY <1>2, <1>3 DEF CallRecord
<1>5. call' = [call EXCEPT ![c] = d]
  BY <1>1, <1>2 DEF ServiceInv, TypeOK, CallRecord
<1>6. ~masked => p = DefaultMaxPermissions(q.lvl)
  BY <1>1 DEF ServiceInv, MaskInv
<1>. HIDE DEF p, d, q
<1>7. Shape(d, agents[d.u], d.u \in barred)
  BY <1>1, <1>2, <1>3, <1>4, RecordsAreNotNone DEF Shape, Writes
<1>8. Solo(d, agents[d.u])
  BY <1>1, <1>4 DEF Solo
<1>9. d.op = call[c].op
  BY <1>4 DEF q
<1>. QED BY <1>1, <1>4, <1>5, <1>6, <1>7, <1>8, <1>9, QuietStep

\* The other workflows have read the record and accept it.
LEMMA GetAgentStep ==
  ASSUME ServiceInv, NEW c \in Clients, GetAgent(c)
  PROVE  ServiceInv'
<1>. DEFINE q == call[c]
            r == Updated(q.op, agents[q.u], q.lvl)
            d == [q EXCEPT !.pc = "put", !.rec = r]
<1>1. /\ q.pc = "load" /\ q.op \in Writes \ {"register"} /\ agents[q.u] # None
      /\ Accepts(q.op, agents[q.u], q.lvl)
      /\ call' = [call EXCEPT ![c].pc = "put", ![c].rec = r]
      /\ UNCHANGED <<history, useChain, agents, perms, chain, won, faults, calls>>
  BY DEF GetAgent
<1>2. /\ q \in CallRecord /\ q.u \in Agents /\ q.lvl \in 0..MaxLevel
      /\ agents[q.u] \in AgentRecord
      /\ Shape(q, agents[q.u], q.u \in barred)
  BY <1>1, UnderWay
<1>3. r \in AgentRecord
  BY <1>1, <1>2, AcceptedWrite
<1>4. /\ d \in CallRecord /\ d.pc = "put" /\ d.rec = r
      /\ d.op = q.op /\ d.u = q.u /\ d.lvl = q.lvl /\ d.after = q.after
  BY <1>2, <1>3 DEF CallRecord
<1>5. call' = [call EXCEPT ![c] = d]
  BY <1>1, <1>2 DEF ServiceInv, TypeOK, CallRecord
<1>6. Solo(d, agents[d.u])
  <2>. HIDE DEF d, q
  <2>. QED BY <1>1, <1>4 DEF Solo
<1>. HIDE DEF d, q, r
<1>7. Shape(d, agents[d.u], d.u \in barred)
  BY <1>1, <1>2, <1>3, <1>4, RecordsAreNotNone DEF Shape, Writes
<1>9. d.op = call[c].op /\ d.op # "register"
  BY <1>1, <1>4 DEF q
<1>. QED BY <1>1, <1>4, <1>5, <1>6, <1>7, <1>9, QuietStep

\* A request ends without having written anything more.
LEMMA EndStep ==
  ASSUME ServiceInv, NEW c \in Clients, Return(c),
         UNCHANGED <<history, useChain, agents, perms, chain, won, calls>>,
         UNCHANGED faults \/ Fault
  PROVE  ServiceInv'
<1>1. call' = [call EXCEPT ![c] = Idle] /\ Idle \in CallRecord \cup {Idle}
  BY DEF Return
<1>. QED BY <1>1, QuietStep

\* A request goes on to its next call.
LEMMA GotoStep ==
  ASSUME ServiceInv, NEW c \in Clients, NEW pc,
         Goto(c, pc),
         UNCHANGED <<history, useChain, agents, perms, chain, won, calls>>,
         UNCHANGED faults \/ Fault,
         \/ call[c].pc = "perms" /\ pc = "chain"
         \/ call[c].pc = "read" /\ pc = "state"
  PROVE  ServiceInv'
<1>. DEFINE q == call[c]
            d == [q EXCEPT !.pc = pc]
<1>1. /\ q \in CallRecord /\ Shape(q, agents[q.u], q.u \in barred)
      /\ ~overlap => Solo(q, agents[q.u])
  BY UnderWay
<1>2. d \in CallRecord /\ d.pc = pc
      /\ d.op = q.op /\ d.u = q.u /\ d.lvl = q.lvl /\ d.after = q.after /\ d.mask = q.mask
  BY <1>1 DEF CallRecord
<1>3. call' = [call EXCEPT ![c] = d]
  BY <1>1 DEF Goto, ServiceInv, TypeOK, CallRecord
<1>4. ~masked /\ q.op = "register" => q.mask = DefaultMaxPermissions(q.lvl)
  BY DEF ServiceInv, MaskInv
<1>5. q.pc \in {"perms", "read"} /\ pc \in {"chain", "state"}
      /\ (q.pc = "perms" => pc = "chain") /\ (q.pc = "read" => pc = "state")
  OBVIOUS
<1>. HIDE DEF d, q
<1>6. Shape(d, agents[d.u], d.u \in barred)
  BY <1>1, <1>2, <1>5 DEF Shape
<1>7. ~overlap => Solo(d, agents[d.u])
  BY <1>1, <1>2, <1>5 DEF Solo
<1>8. d.op = call[c].op
  BY <1>2 DEF q
<1>. QED BY <1>2, <1>3, <1>4, <1>5, <1>6, <1>7, <1>8, QuietStep

\* The record replaces the stored one.  Alone, it is the stored record one
\* field ahead; overlapping, it is any record, and only what holds of every
\* interleaving survives.
LEMMA PutAgentStep ==
  ASSUME ServiceInv, NEW c \in Clients, PutAgent(c)
  PROVE  ServiceInv'
<1>. DEFINE q == call[c]
            pc == IF q.op \in {"register", "upgrade"} THEN "perms" ELSE "chain"
            d == [q EXCEPT !.pc = pc]
            u == q.u
<1>1. /\ q.pc = "put" /\ agents' = [agents EXCEPT ![u] = q.rec] /\ Goto(c, pc)
      /\ UNCHANGED <<overlap, masked, barred, leaked>>
      /\ UNCHANGED <<useChain, perms, chain, won, faults, calls>>
  BY DEF PutAgent, history
<1>2. /\ q \in CallRecord /\ u \in Agents /\ q.lvl \in 0..MaxLevel
      /\ agents[u] \in AgentRecord \cup {None}
      /\ q.rec \in AgentRecord \cup {None}
      /\ Shape(q, agents[u], u \in barred)
      /\ ~overlap => Solo(q, agents[u])
  BY <1>1, UnderWay
<1>3. /\ d \in CallRecord /\ d.pc = pc
      /\ d.op = q.op /\ d.u = u /\ d.lvl = q.lvl /\ d.after = q.after /\ d.mask = q.mask
  BY <1>2 DEF CallRecord
<1>4. call' = [call EXCEPT ![c] = d]
  BY <1>1, <1>2 DEF Goto, ServiceInv, TypeOK, CallRecord
<1>5. ~masked /\ q.op = "register" => q.mask = DefaultMaxPermissions(q.lvl)
  BY <1>1 DEF ServiceInv, MaskInv
<1>6. q.rec \in AgentRecord /\ q.rec # None /\ q.op \in Writes
  BY <1>1, <1>2 DEF Shape
<1>7. agents'[u] = q.rec /\ \A v \in Agents : v # u => agents'[v] = agents[v]
  BY <1>1, <1>2 DEF ServiceInv, TypeOK
<1>8. pc \in {"perms", "chain"} /\ (pc = "perms" => q.op \in {"register", "upgrade"})
  OBVIOUS
<1>9. ~overlap =>
        /\ q.op \in {"register", "upgrade"} => q.rec.level = q.lvl
        /\ q.op \in {"ban", "revoke"} => q.rec.state \in Barring
        /\ agents[u] # None =>
             agents[u].level <= q.rec.level /\ (agents[u].state \in Barring => q.rec.state \in Barring)
  <2>. SUFFICES ASSUME ~overlap
                PROVE  /\ q.op \in {"register", "upgrade"} => q.rec.level = q.lvl
                       /\ q.op \in {"ban", "revoke"} => q.rec.state \in Barring
                       /\ agents[u] # None => /\ agents[u].level <= q.rec.level
                                              /\ agents[u].state \in Barring => q.rec.state \in Barring
    OBVIOUS
  <2>. HIDE DEF q
  <2>1. CASE q.op = "register"
    BY <1>1, <1>2, <2>1 DEF Solo, NewAgent, Agent
  <2>2. CASE q.op # "register"
    <3>1. agents[u] \in AgentRecord /\ Accepts(q.op, agents[u], q.lvl)
          /\ q.rec = Updated(q.op, agents[u], q.lvl)
      BY <1>1, <1>2, <2>2 DEF Solo
    <3>. QED BY <1>2, <1>6, <2>2, <3>1, AcceptedWrite
  <2>. QED BY <2>1, <2>2
<1>. HIDE DEF d, pc
<1>10. TypeOK'
  BY <1>1, <1>2, <1>3, <1>4 DEF ServiceInv, TypeOK
<1>11. ShapeInv'
  <2>1. \A v \in Agents : agents[v] # None => agents'[v] # None
    BY <1>6, <1>7
  <2>2. Shape(d, agents'[d.u], d.u \in barred')
    <3>. HIDE DEF q, u
    <3>. QED BY <1>1, <1>2, <1>3, <1>6, <1>7, <1>8 DEF Shape
  <2>. QED BY <1>1, <1>3, <1>4, <2>1, <2>2, MoveShape
<1>12. SoloInv'
  <2>1. ~overlap => Solo(d, agents'[d.u])
    <3>. HIDE DEF q, u
    <3>. QED BY <1>3, <1>7, <1>8, <1>9 DEF Solo
  <2>2. ~overlap => \A v \in barred' : agents'[v].state \in Barring
    <3>. SUFFICES ASSUME ~overlap, NEW v \in barred PROVE agents'[v].state \in Barring
      BY <1>1
    <3>1. v \in Agents /\ agents[v].state \in Barring
      BY DEF ServiceInv, SoloInv, TypeOK
    <3>2. agents[v] # None
      BY <3>1 DEF Barring, None
    <3>. HIDE DEF q, u
    <3>. QED BY <1>7, <1>9, <3>1, <3>2
  <2>3. call[c].op \in Writes /\ d.op = call[c].op
    BY <1>3, <1>6
  <2>. QED BY <1>1, <1>3, <1>4, <2>1, <2>2, <2>3, MoveSolo
<1>13. MaskInv'
  BY <1>1, <1>3, <1>4, <1>5, <1>8, MoveMask
<1>. HIDE DEF q, u
<1>14. StoreInv'
  <2>1. ChainKnowsOnlyStored'
    BY <1>1, <1>6, <1>7 DEF ServiceInv, StoreInv, ChainKnowsOnlyStored
  <2>. QED BY <1>1, <1>6, <1>7, <2>1 DEF ServiceInv, StoreInv
<1>15. ChainNeverAhead'
  <2>. SUFFICES ASSUME ~overlap, NEW v \in Agents, chain[v] # None
                PROVE  chain[v].level <= agents'[v].level
    BY <1>1 DEF ChainNeverAhead
  <2>1. chain[v].level <= agents[v].level /\ agents[v] # None
    BY DEF ServiceInv, ChainNeverAhead, StoreInv, ChainKnowsOnlyStored
  <2>2. chain[v].level \in Nat /\ agents[v].level \in Nat /\ q.rec.level \in Nat
    BY <1>6, <2>1, RecordsAreNotNone DEF ServiceInv, TypeOK
  <2>. QED BY <1>7, <1>9, <2>1, <2>2
<1>16. PermsWithinLevel'
  <2>. SUFFICES ASSUME ~overlap, ~masked, NEW v \in Agents, agents'[v] # None
                PROVE  perms[v] <= DefaultMaxPermissions(agents'[v].level)
    BY <1>1 DEF PermsWithinLevel
  <2>1. CASE v # u
    BY <1>7, <2>1 DEF ServiceInv, PermsWithinLevel
  <2>2. CASE v = u /\ agents[u] = None
    <3>1. perms[u] = 0
      BY <1>2, <2>2 DEF ServiceInv, StoreInv
    <3>2. DefaultMaxPermissions(q.rec.level) \in 1..4
      BY <1>6, RecordsAreNotNone, MaskGrows
    <3>. QED BY <1>7, <2>2, <3>1, <3>2
  <2>3. CASE v = u /\ agents[u] # None
    <3>1. perms[u] <= DefaultMaxPermissions(agents[u].level) /\ perms[u] \in 0..4
      BY <1>2, <2>3 DEF ServiceInv, PermsWithinLevel, TypeOK
    <3>2. agents[u].level \in 0..MaxLevel /\ q.rec.level \in 0..MaxLevel
      BY <1>2, <1>6, <2>3, RecordsAreNotNone
    <3>3. /\ DefaultMaxPermissions(agents[u].level) <= DefaultMaxPermissions(q.rec.level)
          /\ DefaultMaxPermissions(agents[u].level) \in 1..4
          /\ DefaultMaxPermissions(q.rec.level) \in 1..4
      BY <1>9, <2>3, <3>2, MaskGrows DEF MaxLevel
    <3>. QED BY <1>7, <2>3, <3>1, <3>3
  <2>. QED BY <2>1, <2>2, <2>3
<1>17. BarredStaysDenied'
  BY <1>1 DEF ServiceInv, BarredStaysDenied
<1>. QED BY <1>10, <1>11, <1>12, <1>13, <1>14, <1>15, <1>16, <1>17 DEF ServiceInv

\* The mask is overwritten with the one of the level just stored.
LEMMA SetPermissionsStep ==
  ASSUME ServiceInv, NEW c \in Clients, SetPermissions(c)
  PROVE  ServiceInv'
<1>. DEFINE q == call[c]
            d == [q EXCEPT !.pc = "chain"]
            p == IF q.op = "register" THEN q.mask ELSE DefaultMaxPermissions(q.lvl)
<1>1. /\ q.pc = "perms" /\ perms' = [perms EXCEPT ![q.u] = p] /\ Goto(c, "chain")
      /\ UNCHANGED <<overlap, masked, barred, leaked>>
      /\ UNCHANGED <<useChain, agents, chain, won, faults, calls>>
  BY DEF SetPermissions, history
<1>2. /\ q \in CallRecord /\ q.u \in Agents /\ q.lvl \in 0..MaxLevel /\ q.mask \in 0..4
      /\ Shape(q, agents[q.u], q.u \in barred)
      /\ ~overlap => Solo(q, agents[q.u])
  BY <1>1, UnderWay
<1>3. /\ d \in CallRecord /\ d.pc = "chain"
      /\ d.op = q.op /\ d.u = q.u /\ d.lvl = q.lvl /\ d.after = q.after /\ d.mask = q.mask
  BY <1>2 DEF CallRecord
<1>4. call' = [call EXCEPT ![c] = d]
  BY <1>1, <1>2 DEF Goto, ServiceInv, TypeOK, CallRecord
<1>5. ~masked /\ q.op = "register" => q.mask = DefaultMaxPermissions(q.lvl)
  BY <1>1 DEF ServiceInv, MaskInv
<1>6. p \in 0..4
  BY <1>2, MaskGrows DEF MaxLevel
<1>7. q.op \in {"register", "upgrade"} /\ q.op \in Writes /\ agents[q.u] # None
  BY <1>1, <1>2 DEF Shape
<1>8. ~masked => p = DefaultMaxPermissions(q.lvl)
  BY <1>5, <1>7
<1>9. d.op = call[c].op
  BY <1>3
<1>. HIDE DEF q, d, p
<1>10. TypeOK'
  BY <1>1, <1>2, <1>3, <1>4, <1>6 DEF ServiceInv, TypeOK
<1>11. ShapeInv'
  <2>1. Shape(d, agents[d.u], d.u \in barred)
    BY <1>1, <1>2, <1>3, <1>7 DEF Shape
  <2>. QED BY <1>1, <1>3, <1>4, <2>1, MoveShape
<1>12. SoloInv'
  <2>1. ~overlap => Solo(d, agents[d.u])
    BY <1>1, <1>2, <1>3 DEF Solo
  <2>2. ~overlap => \A v \in barred' : agents'[v].state \in Barring
    BY <1>1 DEF ServiceInv, SoloInv
  <2>. QED BY <1>1, <1>3, <1>4, <1>9, <2>1, <2>2, MoveSolo
<1>13. MaskInv'
  BY <1>1, <1>3, <1>4, <1>5, MoveMask
<1>14. /\ perms'[q.u] = p /\ \A v \in Agents : v # q.u => perms'[v] = perms[v]
  BY <1>1, <1>2 DEF ServiceInv, TypeOK
<1>15. StoreInv'
  <2>1. ChainKnowsOnlyStored'
    BY <1>1 DEF ServiceInv, StoreInv, ChainKnowsOnlyStored
  <2>. QED BY <1>1, <1>7, <1>14, <2>1 DEF ServiceInv, StoreInv
<1>16. ChainNeverAhead' /\ BarredStaysDenied'
  BY <1>1 DEF ServiceInv, ChainNeverAhead, BarredStaysDenied
<1>17. PermsWithinLevel'
  <2>. SUFFICES ASSUME ~overlap, ~masked, NEW v \in Agents, agents[v] # None
                PROVE  perms'[v] <= DefaultMaxPermissions(agents[v].level)
    BY <1>1 DEF PermsWithinLevel
  <2>1. CASE v # q.u
    BY <1>14, <2>1 DEF ServiceInv, PermsWithinLevel
  <2>2. CASE v = q.u
    <3>1. agents[q.u].level = q.lvl
      BY <1>1, <1>2, <1>7 DEF Solo
    <3>. QED BY <1>6, <1>8, <1>14, <2>2, <3>1
  <2>. QED BY <2>1, <2>2
<1>. QED BY <1>10, <1>11, <1>12, <1>13, <1>15, <1>16, <1>17 DEF ServiceInv

\* The chain confirms and the workflow reports success.  The chain takes a
\* registration only of a UUID it does not know, and then knows it.
LEMMA ChainStep ==
  ASSUME ServiceInv, NEW c \in Clients, Chain(c)
  PROVE  ServiceInv'
<1>. DEFINE q == call[c]
            u == q.u
<1>1. /\ q.pc = "chain"
      /\ \/ /\ useChain /\ ChainAccepts(q.op, u)
            /\ chain' = [chain EXCEPT ![u] = ChainEffect(q.op, u, q.lvl)]
         \/ ~useChain /\ UNCHANGED chain
      /\ won' = IF q.op = "register" THEN [won EXCEPT ![u] = @ + 1] ELSE won
      /\ barred' = IF q.op \in {"ban", "revoke"} THEN barred \cup {u} ELSE barred
      /\ call' = [call EXCEPT ![c] = Idle]
      /\ UNCHANGED <<overlap, masked, leaked, useChain, agents, perms, faults, calls>>
  BY DEF Chain, Succeed, Return
<1>2. /\ u \in Agents /\ q.lvl \in 0..MaxLevel
      /\ Shape(q, agents[u], u \in barred)
      /\ ~overlap => Solo(q, agents[u])
  BY <1>1, UnderWay
<1>3. q.op \in Writes /\ agents[u] # None
  BY <1>1, <1>2 DEF Shape
<1>4. useChain =>
        LET r == ChainEffect(q.op, u, q.lvl) IN
        /\ r \in OnChain /\ r # None
        /\ q.op \in {"register", "upgrade"} => r.level = q.lvl
        /\ q.op \notin {"register", "upgrade"} => r.level = chain[u].level /\ chain[u] # None
        /\ q.op = "register" => chain[u] = None
  BY <1>1, <1>2, <1>3, ChainWrite, RecordsAreNotNone DEF ServiceInv, ChainAccepts
<1>. HIDE DEF q, u
<1>5. TypeOK'
  <2>1. chain' \in [Agents -> OnChain \cup {None}]
    BY <1>1, <1>4 DEF ServiceInv, TypeOK
  <2>2. won' \in [Agents -> Nat]
    BY <1>1, <1>2 DEF ServiceInv, TypeOK
  <2>3. barred' \subseteq Agents
    BY <1>1, <1>2 DEF ServiceInv, TypeOK
  <2>4. call' \in [Clients -> CallRecord \cup {Idle}]
    BY <1>1 DEF ServiceInv, TypeOK
  <2>. QED BY <1>1, <2>1, <2>2, <2>3, <2>4 DEF ServiceInv, TypeOK
<1>6. ShapeInv'
  BY <1>1, IdleShape, MoveShape
<1>7. SoloInv'
  <2>1. ~overlap => \A v \in barred' : agents'[v].state \in Barring
    <3>. SUFFICES ASSUME ~overlap, NEW v \in barred' PROVE agents[v].state \in Barring
      BY <1>1
    <3>1. CASE v \in barred
      BY <3>1 DEF ServiceInv, SoloInv
    <3>2. CASE v = u /\ q.op \in {"ban", "revoke"}
      BY <1>1, <1>2, <3>2 DEF Solo
    <3>. QED BY <1>1, <3>1, <3>2
  <2>. QED BY <1>1, <2>1, IdleShape, MoveSolo
<1>8. MaskInv'
  BY <1>1, IdleShape, MoveMask
<1>9. useChain => /\ chain'[u] = ChainEffect(q.op, u, q.lvl)
                  /\ \A v \in Agents : v # u => chain'[v] = chain[v]
  BY <1>1, <1>2 DEF ServiceInv, TypeOK
<1>10. StoreInv'
  <2>1. ChainKnowsOnlyStored'
    BY <1>1, <1>3, <1>9 DEF ServiceInv, StoreInv, ChainKnowsOnlyStored
  <2>2. ASSUME useChain, NEW v \in Agents PROVE won'[v] <= (IF chain'[v] = None THEN 0 ELSE 1)
    <3>0. /\ won[v] <= (IF chain[v] = None THEN 0 ELSE 1) /\ won[v] \in Nat
          /\ won \in [Agents -> Nat]
      BY <2>2 DEF ServiceInv, StoreInv, TypeOK
    <3>1. CASE v # u
      <4>1. won'[v] = won[v]
        BY <1>1, <1>2, <3>0, <3>1
      <4>. QED BY <1>9, <2>2, <3>0, <3>1, <4>1
    <3>2. CASE v = u /\ q.op = "register"
      <4>1. won[u] = 0
        BY <1>4, <2>2, <3>0, <3>2
      <4>2. won'[u] = 1
        BY <1>1, <1>2, <3>0, <3>2, <4>1
      <4>. QED BY <1>4, <1>9, <2>2, <3>2, <4>2
    <3>3. CASE v = u /\ q.op # "register"
      <4>1. won'[u] = won[u]
        BY <1>1, <3>3
      <4>2. won[v] <= 1
        BY <3>0
      <4>. QED BY <1>4, <1>9, <2>2, <3>3, <4>1, <4>2
    <3>. QED BY <3>1, <3>2, <3>3
  <2>. QED BY <1>1, <2>1, <2>2 DEF ServiceInv, StoreInv
<1>11. ChainNeverAhead'
  <2>. SUFFICES ASSUME ~overlap, NEW v \in Agents, chain'[v] # None
                PROVE  chain'[v].level <= agents[v].level
    BY <1>1 DEF ChainNeverAhead
  <2>0. \A x \in Agents : chain[x] # None => chain[x].level <= agents[x].level
    BY DEF ServiceInv, ChainNeverAhead
  <2>1. CASE useChain /\ v = u /\ q.op \in {"register", "upgrade"}
    <3>1. agents[u].level = q.lvl
      BY <1>1, <1>2, <2>1 DEF Solo
    <3>. QED BY <1>2, <1>4, <1>9, <2>1, <3>1 DEF MaxLevel
  <2>2. CASE useChain /\ v = u /\ q.op \notin {"register", "upgrade"}
    BY <1>4, <1>9, <2>0, <2>2
  <2>3. CASE ~useChain \/ v # u
    BY <1>1, <1>9, <2>0, <2>3
  <2>. QED BY <2>1, <2>2, <2>3
<1>12. PermsWithinLevel' /\ BarredStaysDenied'
  BY <1>1 DEF ServiceInv, PermsWithinLevel, BarredStaysDenied
<1>. QED BY <1>5, <1>6, <1>7, <1>8, <1>10, <1>11, <1>12 DEF ServiceInv

\* A check of a barred agent stops at the record: under writes that do not
\* overlap none gets as far as the permissions.
LEMMA ReadAgentStep ==
  ASSUME ServiceInv, NEW c \in Clients, ReadAgent(c)
  PROVE  ServiceInv'
<1>. DEFINE q == call[c]
            d == [q EXCEPT !.pc = "read", !.rec = agents[q.u]]
<1>1. /\ q.pc = "load" /\ q.op \in Reads /\ agents[q.u] # None
      /\ UNCHANGED <<history, useChain, agents, perms, chain, won, faults, calls>>
      /\ \/ Return(c)
         \/ /\ call' = [call EXCEPT ![c].pc = "read", ![c].rec = agents[q.u]]
            /\ q.op = "check" => agents[q.u].state \notin Barring
  BY DEF ReadAgent, Barring
<1>2. CASE Return(c)
  BY <1>1, <1>2, EndStep
<1>3. CASE /\ call' = [call EXCEPT ![c].pc = "read", ![c].rec = agents[q.u]]
           /\ q.op = "check" => agents[q.u].state \notin Barring
  <2>1. /\ q \in CallRecord /\ q.u \in Agents /\ agents[q.u] \in AgentRecord \cup {None}
        /\ Shape(q, agents[q.u], q.u \in barred)
    BY <1>1, UnderWay
  <2>2. /\ d \in CallRecord /\ d.pc = "read"
        /\ d.op = q.op /\ d.u = q.u /\ d.after = q.after
    BY <2>1 DEF CallRecord
  <2>3. call' = [call EXCEPT ![c] = d]
    BY <1>3, <2>1 DEF ServiceInv, TypeOK, CallRecord
  <2>4. d.op = call[c].op /\ d.op # "register"
    BY <1>1, <2>2 DEF Reads
  <2>. HIDE DEF d, q
  <2>5. Shape(d, agents[d.u], d.u \in barred)
    BY <1>1, <2>1, <2>2 DEF Shape
  <2>6. ~overlap => Solo(d, agents[d.u])
    BY <1>3, <2>1, <2>2 DEF Solo, Shape, ServiceInv, SoloInv
  <2>. QED BY <1>1, <2>2, <2>3, <2>4, <2>5, <2>6, QuietStep
<1>. QED BY <1>1, <1>2, <1>3

\* A check reads the permissions and answers.
LEMMA ReadPermissionsStep ==
  ASSUME ServiceInv, NEW c \in Clients, ReadPermissions(c)
  PROVE  ServiceInv'
<1>. DEFINE q == call[c]
<1>1. /\ q.pc = "read"
      /\ UNCHANGED <<overlap, masked, barred, useChain, agents, perms, chain, won, calls>>
  BY DEF ReadPermissions
<1>2. CASE /\ q.op = "check" /\ Return(c) /\ UNCHANGED faults
           /\ leaked' = IF perms[q.u] >= q.mask /\ q.after THEN leaked \cup {q.u} ELSE leaked
  <2>1. q.u \in Agents /\ (~overlap => ~q.after)
    BY <1>1, <1>2, UnderWay DEF Solo
  <2>2. TypeOK'
    <3>1. leaked' \subseteq Agents
      BY <1>2, <2>1 DEF ServiceInv, TypeOK
    <3>2. call' \in [Clients -> CallRecord \cup {Idle}]
      BY <1>2 DEF ServiceInv, TypeOK, Return
    <3>. QED BY <1>1, <1>2, <3>1, <3>2 DEF ServiceInv, TypeOK
  <2>3. call' = [call EXCEPT ![c] = Idle]
    BY <1>2 DEF Return
  <2>4. ShapeInv'
    BY <1>1, <2>3, IdleShape, MoveShape
  <2>5. SoloInv'
    <3>1. ~overlap => \A v \in barred' : agents'[v].state \in Barring
      BY <1>1 DEF ServiceInv, SoloInv
    <3>. QED BY <1>1, <2>3, <3>1, IdleShape, MoveSolo
  <2>6. MaskInv'
    BY <1>1, <2>3, IdleShape, MoveMask
  <2>7. StoreInv'
    BY <1>1 DEF ServiceInv, StoreInv, ChainKnowsOnlyStored
  <2>8. ChainNeverAhead' /\ PermsWithinLevel'
    BY <1>1 DEF ServiceInv, ChainNeverAhead, PermsWithinLevel
  <2>9. BarredStaysDenied'
    BY <1>1, <1>2, <2>1 DEF ServiceInv, BarredStaysDenied
  <2>. QED BY <2>2, <2>4, <2>5, <2>6, <2>7, <2>8, <2>9 DEF ServiceInv
<1>3. CASE /\ q.op = "info" /\ UNCHANGED <<leaked, faults>>
           /\ IF useChain THEN Goto(c, "state") ELSE Return(c)
  BY <1>1, <1>3, GotoStep, EndStep DEF history
<1>4. CASE Fault /\ Return(c) /\ UNCHANGED leaked
  BY <1>1, <1>4, EndStep DEF history
<1>. QED BY <1>2, <1>3, <1>4 DEF ReadPermissions

\* Every step keeps the invariant.
LEMMA NextService ==
  ASSUME ServiceInv, [Next]_vars
  PROVE  ServiceInv'
<1>1. ASSUME NEW c \in Clients, Request(c) PROVE ServiceInv'
  <2>0. 0 \in 0..MaxLevel /\ 0 \in 0..4 /\ 1..4 \subseteq 0..4
    BY DEF MaxLevel
  <2>1. \A u \in Agents, l \in Levels, m \in Masks : Begin(c, "register", u, l, m) => ServiceInv'
    BY BeginStep DEF Writes
  <2>2. \A u \in Agents, l \in Levels : Begin(c, "upgrade", u, l, 0) => ServiceInv'
    BY <2>0, BeginStep DEF Writes
  <2>3. \A u \in Agents, op \in {"ban", "unban", "revoke", "info"} : Begin(c, op, u, 0, 0) => ServiceInv'
    BY <2>0, BeginStep DEF Writes, Reads
  <2>4. \A u \in Agents, m \in 1..4 : Begin(c, "check", u, 0, m) => ServiceInv'
    BY <2>0, BeginStep DEF Reads
  <2>. QED BY <1>1, <2>1, <2>2, <2>3, <2>4 DEF Request
<1>2. ASSUME NEW c \in Clients, Refuse(c) \/ ChainFails(c) \/ Abandon(c) \/ ReadChain(c)
      PROVE  ServiceInv'
  <2>1. /\ Return(c) /\ UNCHANGED <<history, useChain, agents, perms, chain, won, calls>>
        /\ UNCHANGED faults \/ Fault
    BY <1>2 DEF Refuse, ChainFails, Abandon, ReadChain
  <2>. QED BY <2>1, EndStep
<1>3. ASSUME NEW c \in Clients, SetPermissionsFails(c) PROVE ServiceInv'
  BY <1>3, EndStep, GotoStep DEF SetPermissionsFails
<1>4. CASE UNCHANGED vars
  <2>1. UNCHANGED <<agents, perms, chain, call, won, overlap, masked, barred, leaked, useChain,
                    faults, calls>>
    BY <1>4 DEF vars, history
  <2>2. TypeOK' /\ ShapeInv' /\ MaskInv' /\ SoloInv'
    BY <2>1 DEF ServiceInv, TypeOK, ShapeInv, MaskInv, SoloInv
  <2>. QED BY <2>1, <2>2, QuietStores DEF ServiceInv
<1>. QED BY <1>1, <1>2, <1>3, <1>4, ExistsStep, GetAgentStep, PutAgentStep, SetPermissionsStep,
            ChainStep, ReadAgentStep, ReadPermissionsStep DEF Next, Step

-----------------------------------------------------------------------------
(* The theorems. *)

\* ServiceInv is an invariant of the L4 workflows, for all parameters.
THEOREM ServiceInvariant == Spec => []ServiceInv
<1>1. Init => ServiceInv
  BY InitService
<1>2. ServiceInv /\ [Next]_vars => ServiceInv'
  BY NextService
<1>. QED BY <1>1, <1>2, PTL DEF Spec

\* The chain knows only stored agents and, while writes do not overlap, no
\* level above the stored one, whatever fails between the calls of a workflow.
THEOREM StoreLeadsTheorem == Spec => []StoreLeadsChain
<1>1. ServiceInv => StoreLeadsChain
  BY DEF ServiceInv, StoreInv, StoreLeadsChain
<1>. QED BY <1>1, ServiceInvariant, PTL

\* With a chain at most one of any number of racing registrations of a UUID
\* reports success.
THEOREM RegistrationTheorem == Spec => []OneRegistrationWins
<1>1. ServiceInv => OneRegistrationWins
  <2>. SUFFICES ASSUME ServiceInv, useChain, NEW u \in Agents PROVE won[u] <= 1
    BY DEF OneRegistrationWins
  <2>1. won[u] \in Nat /\ won[u] <= (IF chain[u] = None THEN 0 ELSE 1)
    BY DEF ServiceInv, TypeOK, StoreInv
  <2>. QED BY <2>1
<1>. QED BY <1>1, ServiceInvariant, PTL

\* Stored masks stay within the stored levels while writes do not overlap and
\* registrations name no mask, also when SetPermissions fails or a request is
\* abandoned between its two writes.
THEOREM PermsTheorem == Spec => []PermsWithinLevel
<1>1. ServiceInv => PermsWithinLevel
  BY DEF ServiceInv
<1>. QED BY <1>1, ServiceInvariant, PTL

\* A check begun after a reported ban or revocation is denied while writes do
\* not overlap.
THEOREM BarredTheorem == Spec => []BarredStaysDenied
<1>1. ServiceInv => BarredStaysDenied
  BY DEF ServiceInv
<1>. QED BY <1>1, ServiceInvariant, PTL
=============================================================================
