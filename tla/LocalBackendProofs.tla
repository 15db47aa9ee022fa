-------------------------- MODULE LocalBackendProofs --------------------------
(***************************************************************************)
(* Proofs about LocalBackend for every number of agents, levels,           *)
(* goroutines and failures.  b.mu keeps the record a call has read equal   *)
(* to the stored one until the call writes, and what the log explains      *)
(* until the call appends, so an appended entry links to what the log      *)
(* already says; stamps grow, so a new entry is the newest.                *)
(***************************************************************************)
EXTENDS LocalBackend, TLAPS

USE LevelsAssumption, MaxFaultsAssumption, MaxClockAssumption

\* Levels are numbers.
LEMMA LevelsNat == \A l \in Levels : l \in Nat
  OBVIOUS

-----------------------------------------------------------------------------
(* Logs as sets of stamped entries. *)

\* The entries of trail T link, and the newest one leads to state st.
StateChain(T, st) ==
  /\ \E e \in T : e = Latest(T) /\ e.new = st
  /\ \A e \in T : \/ e.action = "register" /\ e.old = Unset
                  \/ Before(T, e) # {} /\ e.old = Latest(Before(T, e)).new

\* The entries of trail L link, and the newest one, if any, leads to level lv.
LevelChain(L, lv) ==
  /\ L # {} => Latest(L).newLevel = lv
  /\ \A e \in L : Before(L, e) # {} => e.oldLevel = Latest(Before(L, e)).newLevel

\* e is an entry stamped later than every entry of S.
Newest(S, e) == \A d \in S : d.at \in Nat /\ d.at < e.at

\* An entry stamped later than all others is the latest.
LEMMA LatestOfNew ==
  ASSUME NEW S, NEW e, e.at \in Nat, Newest(S, e)
  PROVE  Latest(S \cup {e}) = e
<1>1. \A d \in S \cup {e} : d.at <= e.at
  BY DEF Newest
<1>2. ASSUME NEW x \in S \cup {e}, \A d \in S \cup {e} : d.at <= x.at
      PROVE  x = e
  BY <1>2 DEF Newest
<1>3. \E x \in S \cup {e} : \A d \in S \cup {e} : d.at <= x.at
  BY <1>1
<1>. DEFINE y == CHOOSE x \in S \cup {e} : \A d \in S \cup {e} : d.at <= x.at
<1>4. y \in S \cup {e} /\ \A d \in S \cup {e} : d.at <= y.at
  BY <1>3
<1>. HIDE DEF y
<1>5. y = e
  BY <1>2, <1>4
<1>. QED BY <1>5 DEF Latest, y

\* What is older than an old entry does not change when a newer one arrives;
\* the whole trail is older than the newcomer.
LEMMA BeforeNew ==
  ASSUME NEW S, NEW e, e.at \in Nat, Newest(S, e)
  PROVE  /\ Before(S \cup {e}, e) = S
         /\ \A d \in S : Before(S \cup {e}, d) = Before(S, d)
  BY DEF Before, Newest

\* Appending an entry that starts where the trail ends keeps the trail linked.
LEMMA StateChainGrows ==
  ASSUME NEW T, NEW e, e.at \in Nat, Newest(T, e),
         \/ T = {} /\ e.action = "register" /\ e.old = Unset
         \/ StateChain(T, e.old)
  PROVE  StateChain(T \cup {e}, e.new)
<1>0. /\ Before(T \cup {e}, e) = T
      /\ \A d \in T : Before(T \cup {e}, d) = Before(T, d)
  BY BeforeNew
<1>1. Latest(T \cup {e}) = e
  BY LatestOfNew
<1>2. ASSUME NEW d \in T
      PROVE  \/ d.action = "register" /\ d.old = Unset
             \/ Before(T \cup {e}, d) # {} /\ d.old = Latest(Before(T \cup {e}, d)).new
  <2>1. StateChain(T, e.old)
    OBVIOUS
  <2>2. \/ d.action = "register" /\ d.old = Unset
        \/ Before(T, d) # {} /\ d.old = Latest(Before(T, d)).new
    BY <2>1 DEF StateChain
  <2>. QED BY <1>0, <2>2
<1>3. \/ e.action = "register" /\ e.old = Unset
      \/ Before(T \cup {e}, e) # {} /\ e.old = Latest(Before(T \cup {e}, e)).new
  <2>1. CASE StateChain(T, e.old)
    <3>1. T # {} /\ Latest(T).new = e.old
      BY <2>1 DEF StateChain
    <3>. QED BY <1>0, <3>1
  <2>. QED BY <2>1
<1>. QED BY <1>1, <1>2, <1>3 DEF StateChain

LEMMA LevelChainGrows ==
  ASSUME NEW L, NEW e, e.at \in Nat, Newest(L, e), LevelChain(L, e.oldLevel)
  PROVE  LevelChain(L \cup {e}, e.newLevel)
<1>1. Latest(L \cup {e}) = e
  BY LatestOfNew
<1>2. ASSUME NEW d \in L, Before(L \cup {e}, d) # {}
      PROVE  d.oldLevel = Latest(Before(L \cup {e}, d)).newLevel
  BY <1>2, BeforeNew DEF LevelChain
<1>3. ASSUME Before(L \cup {e}, e) # {}
      PROVE  e.oldLevel = Latest(Before(L \cup {e}, e)).newLevel
  BY <1>3, BeforeNew DEF LevelChain
<1>. QED BY <1>1, <1>2, <1>3 DEF LevelChain

\* Explains, trail by trail.
LEMMA ExplainsChains ==
  ASSUME NEW S, NEW r
  PROVE  Explains(S, r) <=> /\ StateChain(StateTrail(S), r.state)
                            /\ LevelChain(LevelTrail(S), r.level)
  BY DEF Explains, StateChain, LevelChain

\* The entry e leads from record q to record r.
Leads(e, q, r) ==
  \/ /\ e.action = "upgrade" /\ e.oldLevel = q.level /\ e.newLevel = r.level
     /\ q.state = r.state
  \/ /\ e.action # "upgrade" /\ e.old = q.state /\ e.new = r.state
     /\ q.level = r.level

\* The state stays, or moves along the lifecycle table.
Moves(from, to) ==
  \/ to = from
  \/ from = "registered" /\ to \in {"banned", "unregistered"}
  \/ from = "active" /\ to \in {"banned", "unregistered"}
  \/ from = "banned" /\ to \in {"active", "unregistered"}

\* An entry appended to a log that explains r lets it explain the record the
\* entry leads to.
LEMMA ExplainsGrows ==
  ASSUME NEW S, NEW e, NEW q, NEW r, e.at \in Nat, Newest(S, e),
         \/ /\ S = {} /\ e.action = "register" /\ e.old = Unset /\ e.new = r.state
         \/ Explains(S, q) /\ Leads(e, q, r)
  PROVE  Explains(S \cup {e}, r)
<1>1. Newest(StateTrail(S), e) /\ Newest(LevelTrail(S), e)
  BY DEF Newest, StateTrail, LevelTrail
<1>2. CASE S = {} /\ e.action = "register" /\ e.old = Unset /\ e.new = r.state
  <2>1. StateTrail(S) = {} /\ StateTrail(S \cup {e}) = StateTrail(S) \cup {e} /\ LevelTrail(S \cup {e}) = {}
    BY <1>2 DEF StateTrail, LevelTrail
  <2>2. StateChain(StateTrail(S \cup {e}), r.state)
    BY <1>1, <1>2, <2>1, StateChainGrows
  <2>. QED BY <2>1, <2>2, ExplainsChains DEF LevelChain
<1>3. CASE /\ Explains(S, q) /\ e.action = "upgrade"
           /\ e.oldLevel = q.level /\ e.newLevel = r.level /\ q.state = r.state
  <2>1. StateTrail(S \cup {e}) = StateTrail(S) /\ LevelTrail(S \cup {e}) = LevelTrail(S) \cup {e}
    BY <1>3 DEF StateTrail, LevelTrail
  <2>2. LevelChain(LevelTrail(S \cup {e}), r.level)
    BY <1>1, <1>3, <2>1, LevelChainGrows, ExplainsChains
  <2>. QED BY <1>3, <2>1, <2>2, ExplainsChains
<1>4. CASE /\ Explains(S, q) /\ e.action # "upgrade"
           /\ e.old = q.state /\ e.new = r.state /\ q.level = r.level
  <2>1. StateTrail(S \cup {e}) = StateTrail(S) \cup {e} /\ LevelTrail(S \cup {e}) = LevelTrail(S)
    BY <1>4 DEF StateTrail, LevelTrail
  <2>2. StateChain(StateTrail(S \cup {e}), r.state)
    BY <1>1, <1>4, <2>1, StateChainGrows, ExplainsChains
  <2>. QED BY <1>4, <2>1, <2>2, ExplainsChains
<1>. QED BY <1>2, <1>3, <1>4 DEF Leads

-----------------------------------------------------------------------------
(* What an accepted operation writes and logs. *)

\* What each operation writes.
LEMMA AppliedCases ==
  ASSUME NEW rec, NEW l, NEW t
  PROVE  /\ Applied("upgrade", rec, l, t) = Info(rec.state, l, t)
         /\ Applied("ban", rec, l, t) = Info("banned", rec.level, t)
         /\ Applied("unban", rec, l, t) = Info("active", rec.level, t)
         /\ Applied("unregister", rec, l, t) = Info("unregistered", rec.level, t)
  BY DEF Applied

\* The record and the entry of an accepted operation are well formed, the
\* entry leads from the old record to the new one, and the state moves along
\* the lifecycle table or not at all.
LEMMA AcceptedOperation ==
  ASSUME NEW op, NEW rec \in AgentInfo \cup {Absent}, NEW l \in Levels \cup {0},
         NEW t \in Nat, Accepts(op, rec, l)
  PROVE  LET r == Applied(op, rec, l, t)
             e == Entry(op, rec, l, t) IN
         /\ rec \in AgentInfo /\ r \in AgentInfo /\ e \in LogEntry
         /\ Leads(e, rec, r) /\ Moves(rec.state, r.state)
<1>1. rec \in AgentInfo
  BY DEF Accepts, Absent
<1>2. CASE op = "upgrade"
  <2>a. rec.level \in Levels /\ rec.state \in InfoStates
    BY <1>1 DEF AgentInfo
  <2>0. rec.level \in Levels /\ rec.level \in Nat /\ rec.state \in InfoStates
    BY <2>a, LevelsNat
  <2>1. l \in Levels /\ l \in Nat
    <3>1. l > rec.level
      BY <1>2 DEF Accepts
    <3>. QED BY <2>0, <3>1
  <2>2. Applied("upgrade", rec, l, t) = Info(rec.state, l, t)
    BY AppliedCases
  <2>3. Entry("upgrade", rec, l, t) = LevelEntry(rec.level, l, t)
    BY DEF Entry
  <2>4. LevelEntry(rec.level, l, t) \in LogEntry
    BY <2>0, <2>1 DEF LevelEntry, LogEntry, LocalOps
  <2>. QED BY <1>1, <1>2, <2>0, <2>1, <2>2, <2>3, <2>4
           DEF Info, AgentInfo, LevelEntry, Leads, Moves
<1>3. CASE op \in {"ban", "unban", "unregister"}
  <2>. DEFINE st == IF op = "ban" THEN "banned" ELSE IF op = "unban" THEN "active" ELSE "unregistered"
  <2>1. st \in InfoStates /\ rec.state \in InfoStates
    BY <1>1 DEF AgentInfo, InfoStates
  <2>2. Applied(op, rec, l, t) = Info(st, rec.level, t)
    BY <1>3, AppliedCases
  <2>3. Entry(op, rec, l, t) = StateEntry(op, rec.state, st, t)
    BY <1>3, <2>2 DEF Entry, Info
  <2>4. StateEntry(op, rec.state, st, t) \in LogEntry
    BY <1>3, <2>1 DEF StateEntry, LogEntry, LocalOps
  <2>5. Moves(rec.state, st)
    BY <1>3 DEF Accepts, Moves
  <2>. HIDE DEF st
  <2>. QED BY <1>1, <1>3, <2>1, <2>2, <2>3, <2>4, <2>5
           DEF Info, AgentInfo, StateEntry, Leads
<1>. QED BY <1>2, <1>3 DEF Accepts

-----------------------------------------------------------------------------
(* The invariant is inductive. *)

\* What the invariant says of goroutine x.
WriterInv(x) ==
  /\ call[x].pc \in {"put", "log"} =>
       mu = x /\ call[x].rec \in AgentInfo /\ Accepts(call[x].op, call[x].rec, call[x].lvl)
  /\ call[x].pc = "put" => local[call[x].u] = call[x].rec
  /\ call[x].pc = "log" =>
       /\ local[call[x].u] = Applied(call[x].op, call[x].rec, call[x].lvl, call[x].at)
       /\ call[x].at <= clock
       /\ \A e \in logs[call[x].u] : e.at < call[x].at
       /\ faults = 0 => Explains(logs[call[x].u], call[x].rec)
  /\ call[x] # Idle =>
       /\ local[call[x].u] # Absent
       /\ call[x].pc = "registered" <=> call[x].op = "register"
  /\ call[x].pc = "registered" =>
       /\ local[call[x].u] = call[x].rec /\ call[x].rec.state = "registered"
       /\ call[x].rec.at <= clock
       /\ logs[call[x].u] = {}
       /\ \A y \in Writers \ {x} : call[y] # Idle => call[y].u # call[x].u

\* What it says of agent u.
AgentInv(u) ==
  /\ local[u] = Absent => logs[u] = {}
  /\ \A e \in logs[u] : e.at <= clock
  /\ faults = 0 /\ local[u] # Absent =>
       Explains(logs[u], local[u]) \/ \E w \in Writers : Unlogged(w, u)

\* The invariant, goroutine by goroutine and agent by agent.
LEMMA Parts ==
  LocalIInv <=> /\ LocalTypeOK
                /\ \A x \in Writers : WriterInv(x)
                /\ \A u \in Agents : AgentInv(u)
<1>0. LocalTypeOK => \A x \in Writers : call[x] = Idle \/ call[x].u \in Agents
  BY DEF LocalTypeOK, LocalCallRecord
<1>1. Idle.pc = "idle"
  BY DEF Idle
<1>2. ASSUME LocalIInv, NEW x \in Writers PROVE WriterInv(x)
  <2>1. call[x].pc \in {"log", "registered"} => call[x].u \in Agents
    BY <1>0, <1>1, <1>2 DEF LocalIInv
  <2>2. call[x].pc = "log" /\ faults = 0 => Explains(logs[call[x].u], call[x].rec)
    BY <1>2, <2>1 DEF LocalIInv, AuditTrailExplains, Unlogged
  <2>3. call[x].pc = "registered" => call[x] # Idle
    BY <1>1
  <2>. QED BY <1>2, <2>2, <2>3 DEF LocalIInv, LockInv, NamedInv, LogInv, WriterInv
<1>3. ASSUME LocalIInv, NEW u \in Agents PROVE AgentInv(u)
  BY <1>3 DEF LocalIInv, LogInv, AuditTrailExplains, AgentInv
<1>4. ASSUME LocalTypeOK, \A x \in Writers : WriterInv(x), \A u \in Agents : AgentInv(u)
      PROVE  LocalIInv
  <2>1. LockInv
    BY <1>4 DEF LockInv, WriterInv
  <2>2. NamedInv
    BY <1>4 DEF NamedInv, WriterInv
  <2>3. LogInv
    BY <1>4 DEF LogInv, WriterInv, AgentInv
  <2>4. AuditTrailExplains
    BY <1>4 DEF AuditTrailExplains, WriterInv, AgentInv, Unlogged
  <2>. QED BY <1>4, <2>1, <2>2, <2>3, <2>4 DEF LocalIInv
<1>. QED BY <1>2, <1>3, <1>4 DEF LocalIInv

\* The same, as one formula.
PartsInv == LocalTypeOK /\ (\A x \in Writers : WriterInv(x)) /\ (\A u \in Agents : AgentInv(u))

\* The parts hold after a step only where the whole does.
LEMMA PartsNext ==
  LocalTypeOK' /\ (\A x \in Writers : WriterInv(x)') /\ (\A u \in Agents : AgentInv(u)')
    => LocalIInv'
<1>1. PartsInv => LocalIInv
  BY Parts DEF PartsInv
<1>2. PartsInv' => LocalIInv'
  BY <1>1, PTL
<1>3. ASSUME LocalTypeOK', \A x \in Writers : WriterInv(x)', \A u \in Agents : AgentInv(u)'
      PROVE  PartsInv'
  BY <1>3 DEF PartsInv
<1>. QED BY <1>2, <1>3

LEMMA InitLocal == LocalInit => LocalIInv
<1>. SUFFICES ASSUME LocalInit PROVE LocalIInv
  OBVIOUS
<1>1. LocalTypeOK
  BY DEF LocalInit, LocalTypeOK
<1>2. \A x \in Writers : WriterInv(x)
  BY DEF LocalInit, WriterInv, Idle
<1>3. \A u \in Agents : AgentInv(u)
  BY DEF LocalInit, AgentInv
<1>. QED BY <1>1, <1>2, <1>3, Parts

\* A goroutine that is in a call has a call record.
LEMMA InCall ==
  ASSUME LocalTypeOK, NEW w \in Writers, call[w] # Idle
  PROVE  /\ call[w] \in LocalCallRecord
         /\ call[w].u \in Agents /\ call[w].lvl \in Levels \cup {0} /\ call[w].at \in Nat
         /\ call[w].rec \in AgentInfo \cup {Absent}
         /\ local[call[w].u] \in AgentInfo \cup {Absent} /\ logs[call[w].u] \subseteq LogEntry
  BY DEF LocalTypeOK, LocalCallRecord

\* A goroutine whose call, and whatever its call has read or written, is left
\* alone by a step.
LEMMA WriterStill ==
  ASSUME LocalIInv, NEW x \in Writers, call'[x] = call[x],
         clock \in Nat, clock' \in Nat, clock <= clock', faults' = 0 => faults = 0,
         call[x].pc \in {"put", "log"} => mu' = x,
         call[x] # Idle => local'[call[x].u] # Absent,
         call[x].pc \in {"put", "log", "registered"} =>
           local'[call[x].u] = local[call[x].u] /\ logs'[call[x].u] = logs[call[x].u],
         call[x].pc = "registered" =>
           \A y \in Writers \ {x} : call'[y] # Idle => call'[y].u # call[x].u
  PROVE  WriterInv(x)'
<1>1. WriterInv(x) /\ LocalTypeOK
  BY Parts DEF LocalIInv
<1>2. call[x].pc = "log" \/ call[x].pc = "registered" => call[x] # Idle
  BY DEF Idle
<1>3. call[x].pc = "log" => call[x].at \in Nat /\ call[x].at <= clock'
  BY <1>1, <1>2, InCall DEF WriterInv
<1>4. call[x].pc = "registered" => call[x].rec.at <= clock'
  <2>. SUFFICES ASSUME call[x].pc = "registered" PROVE call[x].rec.at <= clock'
    OBVIOUS
  <2>1. call[x].rec \in AgentInfo
    BY <1>1, <1>2, InCall DEF WriterInv, Absent
  <2>2. call[x].rec.at \in Nat /\ call[x].rec.at <= clock
    BY <1>1, <2>1 DEF WriterInv, AgentInfo
  <2>. QED BY <2>2
<1>. QED BY <1>1, <1>3, <1>4 DEF WriterInv

\* An agent whose record and log are left alone by a step after which whoever
\* owed it a log entry still does.
LEMMA AgentStill ==
  ASSUME LocalIInv, NEW u \in Agents, local'[u] = local[u], logs'[u] = logs[u],
         clock \in Nat, clock' \in Nat, clock <= clock', faults' = 0 => faults = 0,
         \A x \in Writers : Unlogged(x, u) => call'[x] = call[x]
  PROVE  AgentInv(u)'
<1>1. AgentInv(u) /\ LocalTypeOK
  BY Parts DEF LocalIInv
<1>2. \A e \in logs[u] : e.at \in Nat
  BY <1>1 DEF LocalTypeOK, LogEntry
<1>3. \A e \in logs'[u] : e.at <= clock'
  BY <1>1, <1>2 DEF AgentInv
<1>4. ASSUME NEW x \in Writers, Unlogged(x, u) PROVE Unlogged(x, u)'
  BY <1>4 DEF Unlogged
<1>. QED BY <1>1, <1>3, <1>4 DEF AgentInv

\* The agent of a newly stored record whose log entry is owed.
LEMMA AgentOwed ==
  ASSUME LocalIInv, NEW u \in Agents, NEW w \in Writers, Unlogged(w, u)',
         logs'[u] = logs[u], local'[u] # Absent,
         clock \in Nat, clock' \in Nat, clock <= clock'
  PROVE  AgentInv(u)'
<1>1. AgentInv(u) /\ LocalTypeOK
  BY Parts DEF LocalIInv
<1>2. \A e \in logs[u] : e.at \in Nat
  BY <1>1 DEF LocalTypeOK, LogEntry
<1>3. \A e \in logs'[u] : e.at <= clock'
  BY <1>1, <1>2 DEF AgentInv
<1>. QED BY <1>3 DEF AgentInv

LEMMA ClockFaults ==
  ASSUME LocalTypeOK
  PROVE  /\ clock \in Nat /\ clock <= clock /\ clock + 1 \in Nat /\ clock <= clock + 1
         /\ faults \in 0..MaxFaults
         /\ UNCHANGED faults \/ Fault => faults' \in 0..MaxFaults /\ (faults' = 0 => faults = 0)
  BY DEF LocalTypeOK, Fault

\* RegisterAgent's PutAgent: no call under way names the new uuid.
LEMMA RegisterStep ==
  ASSUME LocalIInv, NEW w \in Writers, NEW u \in Agents, NEW l \in Levels,
         LocalRegister(w, u, l)
  PROVE  LocalIInv'
<1>. DEFINE r == Info("registered", l, clock + 1)
            d == [pc |-> "registered", op |-> "register", u |-> u, lvl |-> l,
                  rec |-> r, at |-> clock + 1]
<1>1. LocalTypeOK /\ local \in [Agents -> AgentInfo \cup {Absent}]
      /\ call \in [Writers -> LocalCallRecord \cup {Idle}]
  BY DEF LocalIInv, LocalTypeOK
<1>2. clock \in Nat /\ clock + 1 \in Nat /\ clock <= clock + 1
  BY <1>1, ClockFaults
<1>3. r \in AgentInfo /\ r.state = "registered" /\ r.at = clock + 1 /\ r # Absent
  BY <1>2 DEF Info, AgentInfo, InfoStates, Absent
<1>4. /\ d \in LocalCallRecord /\ d.pc = "registered" /\ d.op = "register"
      /\ d.u = u /\ d.rec = r /\ d # Idle
  BY <1>2, <1>3 DEF LocalCallRecord, Idle
<1>5. /\ clock' = clock + 1 /\ local[u] = Absent /\ call[w] = Idle
      /\ UNCHANGED <<faults, logs, mu>>
      /\ local' = [local EXCEPT ![u] = r] /\ call' = [call EXCEPT ![w] = d]
  BY DEF LocalRegister
<1>. HIDE DEF r, d
<1>6. LocalTypeOK'
  BY <1>1, <1>2, <1>3, <1>4, <1>5 DEF LocalTypeOK
<1>7. \A x \in Writers : call[x] # Idle => call[x].u # u
  BY <1>5, Parts DEF WriterInv
<1>8. /\ call'[w] = d /\ local'[u] = r
      /\ \A x \in Writers : x # w => call'[x] = call[x]
      /\ \A v \in Agents : v # u => local'[v] = local[v]
  BY <1>1, <1>5
<1>9. ASSUME NEW x \in Writers PROVE WriterInv(x)'
  <2>1. CASE x = w
    <3>1. \A y \in Writers \ {w} : call'[y] # Idle => call'[y].u # u
      BY <1>7, <1>8
    <3>2. logs[u] = {}
      BY <1>5, Parts DEF AgentInv
    <3>. QED BY <1>2, <1>3, <1>4, <1>5, <1>8, <2>1, <3>1, <3>2 DEF WriterInv
  <2>2. CASE x # w
    <3>1. call[x] # Idle => local'[call[x].u] = local[call[x].u] /\ local[call[x].u] # Absent
      BY <1>1, <1>7, <1>8, InCall, Parts DEF WriterInv
    <3>2. Idle.pc = "idle"
      BY DEF Idle
    <3>3. call[x].pc \in {"put", "log"} => mu = x
      BY Parts DEF WriterInv
    <3>4. call[x].pc = "registered" =>
            \A y \in Writers \ {x} : call'[y] # Idle => call'[y].u # call[x].u
      BY <1>4, <1>7, <1>8, <3>2, Parts DEF WriterInv
    <3>. QED BY <1>2, <1>5, <1>8, <2>2, <3>1, <3>2, <3>3, <3>4, WriterStill
  <2>. QED BY <2>1, <2>2
<1>10. ASSUME NEW v \in Agents PROVE AgentInv(v)'
  <2>1. CASE v = u
    <3>1. Unlogged(w, u)'
      BY <1>4, <1>8 DEF Unlogged
    <3>. QED BY <1>2, <1>3, <1>5, <1>8, <2>1, <3>1, AgentOwed
  <2>2. CASE v # u
    <3>1. \A x \in Writers : Unlogged(x, v) => call'[x] = call[x]
      BY <1>5, <1>8 DEF Unlogged, Idle
    <3>. QED BY <1>2, <1>5, <1>8, <2>2, <3>1, AgentStill
  <2>. QED BY <2>1, <2>2
<1>. QED BY <1>6, <1>9, <1>10, PartsNext

\* The store, the log and the clock are left alone, and call w, which owes no
\* log entry, becomes c: Idle, or a call on an agent nobody is registering.
LEMMA CallStep ==
  ASSUME LocalIInv, NEW w \in Writers, NEW c \in LocalCallRecord \cup {Idle},
         UNCHANGED <<clock, local, logs>>, UNCHANGED faults \/ Fault,
         call' = [call EXCEPT ![w] = c], mu' \in Writers \cup {Free},
         call[w].pc \notin {"log", "registered"}, c.pc \notin {"log", "registered"},
         c # Idle => local[c.u] # Absent /\ c.op # "register"
                     /\ ((c.u = call[w].u /\ call[w] # Idle) \/ ~Registering(c.u)),
         c.pc = "put" => /\ mu' = w /\ c.rec \in AgentInfo /\ c.rec = local[c.u]
                         /\ Accepts(c.op, c.rec, c.lvl),
         \A x \in Writers \ {w} : call[x].pc \in {"put", "log"} => mu' = x
  PROVE  LocalIInv'
<1>1. LocalTypeOK /\ call \in [Writers -> LocalCallRecord \cup {Idle}]
  BY DEF LocalIInv, LocalTypeOK
<1>2. /\ clock \in Nat /\ clock <= clock /\ faults' \in 0..MaxFaults
      /\ faults' = 0 => faults = 0
  BY <1>1, ClockFaults
<1>3. call'[w] = c /\ \A x \in Writers : x # w => call'[x] = call[x]
  BY <1>1
<1>4. LocalTypeOK'
  BY <1>1, <1>2 DEF LocalTypeOK
<1>5. ASSUME NEW x \in Writers PROVE WriterInv(x)'
  <2>1. CASE x = w
    BY <1>3, <2>1 DEF WriterInv
  <2>2. CASE x # w
    <3>1. call[x] # Idle => local[call[x].u] # Absent
      BY Parts DEF WriterInv
    <3>2. ASSUME call[x].pc = "registered", NEW y \in Writers \ {x}, call'[y] # Idle
          PROVE  call'[y].u # call[x].u
      <4>1. \A z \in Writers \ {x} : call[z] # Idle => call[z].u # call[x].u
        BY <3>2, Parts DEF WriterInv
      <4>2. Registering(call[x].u)
        <5>1. call[x] # Idle
          BY <3>2 DEF Idle
        <5>. QED BY <3>2, <5>1, Parts DEF WriterInv, Registering
      <4>3. CASE y = w
        BY <1>3, <2>2, <3>2, <4>1, <4>2, <4>3
      <4>4. CASE y # w
        BY <1>3, <3>2, <4>1, <4>4
      <4>. QED BY <4>3, <4>4
    <3>. QED BY <1>2, <1>3, <2>2, <3>1, <3>2, WriterStill
  <2>. QED BY <2>1, <2>2
<1>6. ASSUME NEW u \in Agents PROVE AgentInv(u)'
  <2>1. \A x \in Writers : Unlogged(x, u) => call'[x] = call[x]
    BY <1>3 DEF Unlogged
  <2>. QED BY <1>2, <2>1, AgentStill
<1>. QED BY <1>4, <1>5, <1>6, PartsNext

\* Entering a locked operation.
LEMMA BeginStep ==
  ASSUME LocalIInv, NEW w \in Writers, NEW op \in LocalOps, NEW u \in Agents,
         NEW l \in Levels \cup {0}, Returned(u), LocalBegin(w, op, u, l)
  PROVE  LocalIInv'
<1>. DEFINE c == [pc |-> "local", op |-> op, u |-> u, lvl |-> l, rec |-> Absent, at |-> 0]
<1>1. /\ call' = [call EXCEPT ![w] = c] /\ call[w] = Idle
      /\ UNCHANGED <<clock, faults, local, logs, mu>>
  BY DEF LocalBegin
<1>2. c \in LocalCallRecord /\ c.pc = "local" /\ c.u = u /\ c.op # "register"
  BY DEF LocalCallRecord, LocalOps
<1>3. call[w].pc = "idle"
  BY <1>1 DEF Idle
<1>4. local[u] # Absent /\ ~Registering(u)
  BY DEF Returned
<1>5. \A x \in Writers : call[x].pc \in {"put", "log"} => mu = x
  BY Parts DEF WriterInv
<1>6. mu \in Writers \cup {Free}
  BY DEF LocalIInv, LocalTypeOK
<1>. HIDE DEF c
<1>. QED BY <1>1, <1>2, <1>3, <1>4, <1>5, <1>6, CallStep

\* A call returns without having written: refused, or PutAgent failed.
LEMMA ReturnStep ==
  ASSUME LocalIInv, NEW w \in Writers, LocalSkip(w) \/ LocalPutFails(w)
  PROVE  LocalIInv'
<1>1. /\ call' = [call EXCEPT ![w] = Idle] /\ UNCHANGED <<clock, local, logs>>
      /\ UNCHANGED faults \/ Fault
      /\ call[w].pc \in {"local", "put"}
  BY DEF LocalSkip, LocalPutFails, Return
<1>2. mu' = mu \/ (mu' = Free /\ call[w].pc = "put")
  BY DEF LocalSkip, LocalPutFails
<1>3. Idle.pc = "idle"
  BY DEF Idle
<1>4. \A x \in Writers : call[x].pc \in {"put", "log"} => mu = x
  BY Parts DEF WriterInv
<1>5. \A x \in Writers \ {w} : call[x].pc \in {"put", "log"} => mu' = x
  BY <1>2, <1>4
<1>6. mu' \in Writers \cup {Free}
  BY <1>2 DEF LocalIInv, LocalTypeOK
<1>. QED BY <1>1, <1>3, <1>5, <1>6, CallStep

\* Lock, read, and go on to write: nobody else holds b.mu, so nobody else is
\* about to write or to log.
LEMMA GetStep ==
  ASSUME LocalIInv, NEW w \in Writers, LocalGet(w)
  PROVE  LocalIInv'
<1>1. /\ call[w].pc = "local" /\ mu = Free /\ mu' = w /\ UNCHANGED <<clock, faults, local, logs>>
      /\ Accepts(call[w].op, local[call[w].u], call[w].lvl)
      /\ call' = [call EXCEPT ![w].pc = "put", ![w].rec = local[call[w].u]]
  BY DEF LocalGet
<1>2. LocalTypeOK /\ call[w] # Idle
  BY <1>1 DEF LocalIInv, Idle
<1>3. /\ call[w] \in LocalCallRecord /\ call[w].u \in Agents
      /\ local[call[w].u] \in AgentInfo \cup {Absent}
  BY <1>2, InCall
<1>. DEFINE d == [call[w] EXCEPT !.pc = "put", !.rec = local[call[w].u]]
<1>4. /\ d \in LocalCallRecord /\ d.pc = "put" /\ d.rec = local[call[w].u]
      /\ d.u = call[w].u /\ d.op = call[w].op /\ d.lvl = call[w].lvl
  BY <1>3 DEF LocalCallRecord
<1>5. call' = [call EXCEPT ![w] = d]
  BY <1>1, <1>2, <1>3 DEF LocalTypeOK, LocalCallRecord
<1>. HIDE DEF d
<1>6. local[d.u] \in AgentInfo /\ local[d.u] # Absent
  BY <1>1, <1>3, <1>4 DEF Accepts, Absent
<1>7. d.op # "register"
  BY <1>1, <1>4 DEF Accepts
<1>8. \A x \in Writers \ {w} : call[x].pc \in {"put", "log"} => mu' = x
  BY <1>1, FreeAssumption, Parts DEF WriterInv
<1>9. call[w].pc \notin {"log", "registered"} /\ d.pc \notin {"log", "registered"}
  BY <1>1, <1>4
<1>10. UNCHANGED <<clock, local, logs>> /\ UNCHANGED faults /\ mu' \in Writers \cup {Free}
  BY <1>1
<1>11. d # Idle => local[d.u] # Absent /\ d.op # "register"
                   /\ ((d.u = call[w].u /\ call[w] # Idle) \/ ~Registering(d.u))
  BY <1>2, <1>4, <1>6, <1>7
<1>12. d.pc = "put" => /\ mu' = w /\ d.rec \in AgentInfo /\ d.rec = local[d.u]
                       /\ Accepts(d.op, d.rec, d.lvl)
  BY <1>1, <1>4, <1>6
<1>. QED BY <1>4, <1>5, <1>8, <1>9, <1>10, <1>11, <1>12, CallStep

\* What is known of a call that is about to write.
LEMMA PutFacts ==
  ASSUME LocalIInv, NEW w \in Writers, LocalPut(w)
  PROVE  LET c == call[w]
             r == Applied(c.op, c.rec, c.lvl, clock + 1) IN
         /\ c \in LocalCallRecord /\ c.pc = "put" /\ c # Idle
         /\ c.u \in Agents /\ c.rec = local[c.u] /\ local[c.u] \in AgentInfo /\ mu = w
         /\ c.lvl \in Levels \cup {0} /\ Accepts(c.op, c.rec, c.lvl)
         /\ local' = [local EXCEPT ![c.u] = r] /\ clock' = clock + 1
<1>1. call[w].pc = "put" /\ call[w] # Idle
  BY DEF LocalPut, Idle
<1>2. /\ call[w] \in LocalCallRecord
      /\ call[w].u \in Agents /\ call[w].lvl \in Levels \cup {0}
  BY <1>1, InCall DEF LocalIInv
<1>3. /\ mu = w /\ call[w].rec = local[call[w].u] /\ call[w].rec \in AgentInfo
      /\ Accepts(call[w].op, call[w].rec, call[w].lvl)
  BY <1>1, Parts DEF WriterInv
<1>. QED BY <1>1, <1>2, <1>3 DEF LocalPut

\* PutAgent under the lock: the log explains the record that is replaced.
LEMMA PutStep ==
  ASSUME LocalIInv, NEW w \in Writers, LocalPut(w)
  PROVE  LocalIInv'
<1>. DEFINE c == call[w]
            r == Applied(c.op, c.rec, c.lvl, clock + 1)
            d == [c EXCEPT !.pc = "log", !.at = clock + 1]
<1>1. /\ c \in LocalCallRecord /\ c.pc = "put" /\ c # Idle
      /\ c.u \in Agents /\ c.rec = local[c.u] /\ local[c.u] \in AgentInfo /\ mu = w
      /\ c.lvl \in Levels \cup {0} /\ Accepts(c.op, c.rec, c.lvl)
      /\ local' = [local EXCEPT ![c.u] = r] /\ clock' = clock + 1
  BY PutFacts
<1>2. LocalTypeOK /\ local \in [Agents -> AgentInfo \cup {Absent}]
      /\ call \in [Writers -> LocalCallRecord \cup {Idle}]
  BY DEF LocalIInv, LocalTypeOK
<1>3. clock \in Nat /\ clock + 1 \in Nat /\ clock <= clock + 1
  BY <1>2, ClockFaults
<1>4. /\ d \in LocalCallRecord /\ d.pc = "log" /\ d.rec = c.rec /\ d.at = clock + 1
      /\ d.u = c.u /\ d.op = c.op /\ d.lvl = c.lvl
  BY <1>1, <1>3 DEF LocalCallRecord
<1>5. call' = [call EXCEPT ![w] = d] /\ UNCHANGED <<faults, logs, mu>>
  BY <1>1, <1>2 DEF LocalPut, LocalCallRecord
<1>6. r \in AgentInfo /\ r # Absent
  <2>1. c.rec \in AgentInfo \cup {Absent} /\ c.lvl \in Levels \cup {0}
        /\ Accepts(c.op, c.rec, c.lvl)
    BY <1>1
  <2>. HIDE DEF c
  <2>2. r \in AgentInfo
    BY <1>3, <2>1, AcceptedOperation
  <2>. HIDE DEF r
  <2>. QED BY <2>2 DEF AgentInfo, InfoStates, Absent
<1>7. d # Idle /\ d.op # "register"
  BY <1>1, <1>4 DEF Idle, Accepts
<1>8. WriterInv(w) /\ AgentInv(c.u)
  BY <1>1, Parts
<1>9. r = Applied(d.op, d.rec, d.lvl, d.at) /\ Accepts(d.op, d.rec, d.lvl)
  BY <1>1, <1>4
<1>. HIDE DEF r, d
<1>10. /\ call'[w] = d /\ local'[c.u] = r
       /\ \A x \in Writers : x # w => call'[x] = call[x]
       /\ \A v \in Agents : v # c.u => local'[v] = local[v]
  BY <1>1, <1>2, <1>5
<1>11. LocalTypeOK'
  BY <1>1, <1>2, <1>3, <1>4, <1>5, <1>6 DEF LocalTypeOK
<1>12. \A x \in Writers : x # w => call[x].pc \notin {"put", "log"}
  BY <1>1, Parts DEF WriterInv
<1>13. \A x \in Writers : call[x].pc = "registered" => x # w /\ call[x].u # c.u
  BY <1>1, Parts DEF WriterInv
<1>14. \A x \in Writers : ~Unlogged(x, c.u)
  BY <1>1, <1>12, <1>13 DEF Unlogged
<1>15. ASSUME NEW x \in Writers PROVE WriterInv(x)'
  <2>1. CASE x = w
    <3>1. faults' = 0 => Explains(logs'[d.u], d.rec)
      BY <1>1, <1>4, <1>5, <1>6, <1>8, <1>14 DEF AgentInv, AgentInfo, InfoStates, Absent
    <3>2. \A e \in logs'[d.u] : e.at < d.at
      <4>1. \A e \in logs[c.u] : e.at \in Nat
        BY <1>1, <1>2 DEF LocalTypeOK, LogEntry
      <4>. QED BY <1>3, <1>4, <1>5, <1>8, <4>1 DEF AgentInv
    <3>3. mu' = w /\ d.rec \in AgentInfo /\ d.at <= clock'
      BY <1>1, <1>3, <1>4, <1>5
    <3>4. local'[d.u] = Applied(d.op, d.rec, d.lvl, d.at) /\ local'[d.u] # Absent
      BY <1>4, <1>6, <1>9, <1>10
    <3>. QED BY <1>4, <1>7, <1>9, <1>10, <2>1, <3>1, <3>2, <3>3, <3>4 DEF WriterInv
  <2>2. CASE x # w
    <3>1. call[x] # Idle => call[x].u \in Agents /\ local[call[x].u] # Absent
      BY <1>2, InCall, Parts DEF WriterInv
    <3>2. call[x] # Idle => local'[call[x].u] # Absent
      BY <1>6, <1>10, <3>1
    <3>3. call[x].pc = "registered" => call[x] # Idle
      BY DEF Idle
    <3>4. call[x].pc = "registered" => local'[call[x].u] = local[call[x].u]
      BY <1>10, <1>13, <3>1, <3>3
    <3>5. call[x].pc = "registered" =>
            \A y \in Writers \ {x} : call'[y] # Idle => call'[y].u # call[x].u
      BY <1>4, <1>10, <1>13, Parts DEF WriterInv
    <3>. QED BY <1>1, <1>3, <1>5, <1>10, <1>12, <2>2, <3>2, <3>4, <3>5, WriterStill
  <2>. QED BY <2>1, <2>2
<1>16. ASSUME NEW v \in Agents PROVE AgentInv(v)'
  <2>1. CASE v = c.u
    <3>1. Unlogged(w, v)'
      BY <1>4, <1>10, <2>1 DEF Unlogged
    <3>. QED BY <1>1, <1>3, <1>5, <1>6, <1>10, <2>1, <3>1, AgentOwed
  <2>2. CASE v # c.u
    <3>1. \A x \in Writers : Unlogged(x, v) => call'[x] = call[x]
      BY <1>1, <1>10 DEF Unlogged
    <3>. QED BY <1>1, <1>3, <1>5, <1>10, <2>2, <3>1, AgentStill
  <2>. QED BY <2>1, <2>2
<1>. QED BY <1>11, <1>15, <1>16, PartsNext

\* The owed entry e is appended and the call returns: nobody else owes agent u
\* an entry, and the log explains the stored record again.
LEMMA OwedStep ==
  ASSUME LocalIInv, NEW w \in Writers, NEW e \in LogEntry, Unlogged(w, call[w].u),
         AppendLog(call[w].u, e), UNCHANGED <<clock, local>>,
         call' = [call EXCEPT ![w] = Idle], mu' \in {mu, Free},
         call[w].pc = "registered" => mu' = mu,
         e.at <= clock, Newest(logs[call[w].u], e),
         faults = 0 => Explains(logs[call[w].u] \cup {e}, local[call[w].u])
  PROVE  LocalIInv'
<1>. DEFINE u == call[w].u
<1>1. LocalTypeOK /\ call \in [Writers -> LocalCallRecord \cup {Idle}]
      /\ logs \in [Agents -> SUBSET LogEntry] /\ mu \in Writers \cup {Free}
  BY DEF LocalIInv, LocalTypeOK
<1>2. clock \in Nat /\ clock <= clock
  BY <1>1, ClockFaults
<1>3. call[w].pc \in {"log", "registered"} /\ call[w] # Idle
  BY DEF Unlogged, Idle
<1>4. u \in Agents /\ local[u] # Absent
  BY <1>1, <1>3, InCall, Parts DEF WriterInv
<1>5. UNCHANGED faults \/ Fault
  BY DEF AppendLog
<1>6. faults' \in 0..MaxFaults /\ (faults' = 0 => faults = 0)
  BY <1>1, <1>5, ClockFaults
<1>7. logs' \in [Agents -> SUBSET LogEntry] /\ \A v \in Agents : v # u => logs'[v] = logs[v]
  BY <1>1 DEF AppendLog
<1>8. call'[w] = Idle /\ \A x \in Writers : x # w => call'[x] = call[x]
  BY <1>1
<1>9. Idle.pc = "idle"
  BY DEF Idle
<1>10. LocalTypeOK'
  BY <1>1, <1>6, <1>7 DEF LocalTypeOK
<1>11. ASSUME NEW x \in Writers, x # w
       PROVE  /\ call[x].pc \in {"put", "log"} => mu' = x /\ call[x].u # u
              /\ call[x].pc = "registered" => call[x].u # u
  <2>1. call[x].pc = "registered" => call[x].u # u
    BY <1>3, <1>11, Parts DEF WriterInv
  <2>2. CASE call[w].pc = "log"
    <3>1. mu = w
      BY <2>2, Parts DEF WriterInv
    <3>2. call[x].pc \notin {"put", "log"}
      BY <1>11, <3>1, Parts DEF WriterInv
    <3>. QED BY <2>1, <3>2
  <2>3. CASE call[w].pc = "registered"
    <3>1. call[x].pc \in {"put", "log"} => call[x] # Idle /\ mu = x
      BY <1>9, Parts DEF WriterInv
    <3>2. call[x] # Idle => call[x].u # u
      BY <1>11, <2>3, Parts DEF WriterInv
    <3>. QED BY <2>1, <2>3, <3>1, <3>2
  <2>. QED BY <1>3, <2>2, <2>3
<1>. HIDE DEF u
<1>12. ASSUME NEW x \in Writers PROVE WriterInv(x)'
  <2>1. CASE x = w
    BY <1>8, <1>9, <2>1 DEF WriterInv
  <2>2. CASE x # w
    <3>1. call[x] # Idle => call[x].u \in Agents /\ local[call[x].u] # Absent
      BY <1>1, InCall, Parts DEF WriterInv
    <3>2. call[x].pc \in {"put", "log", "registered"} =>
            call[x].u \in Agents /\ call[x].u # u
      BY <1>9, <1>11, <2>2, <3>1
    <3>3. call[x].pc \in {"put", "log", "registered"} => logs'[call[x].u] = logs[call[x].u]
      BY <1>7, <3>2
    <3>4. call[x].pc = "registered" =>
            \A y \in Writers \ {x} : call'[y] # Idle => call'[y].u # call[x].u
      BY <1>8, Parts DEF WriterInv
    <3>. QED BY <1>2, <1>6, <1>8, <1>11, <2>2, <3>1, <3>3, <3>4, WriterStill
  <2>. QED BY <2>1, <2>2
<1>13. ASSUME NEW v \in Agents PROVE AgentInv(v)'
  <2>1. CASE v = u
    <3>1. \A d \in logs[u] : d.at <= clock
      BY <1>4, Parts DEF AgentInv
    <3>2. CASE logs' = [logs EXCEPT ![u] = @ \cup {e}] /\ UNCHANGED faults
      <4>1. logs'[u] = logs[u] \cup {e}
        BY <1>1, <1>4, <3>2
      <4>2. \A d \in logs'[u] : d.at <= clock'
        BY <3>1, <4>1
      <4>3. faults' = 0 => Explains(logs'[u], local'[u])
        BY <3>2, <4>1 DEF u
      <4>. QED BY <1>4, <2>1, <4>2, <4>3 DEF AgentInv
    <3>3. CASE Fault /\ UNCHANGED logs
      <4>1. faults' # 0
        BY <1>1, <3>3 DEF Fault, LocalTypeOK
      <4>. QED BY <1>4, <2>1, <3>1, <3>3, <4>1 DEF AgentInv
    <3>. QED BY <3>2, <3>3 DEF AppendLog, u
  <2>2. CASE v # u
    <3>1. \A x \in Writers : Unlogged(x, v) => call'[x] = call[x]
      BY <1>8, <2>2 DEF Unlogged, u
    <3>. QED BY <1>2, <1>6, <1>7, <2>2, <3>1, AgentStill
  <2>. QED BY <2>1, <2>2
<1>. QED BY <1>10, <1>12, <1>13, PartsNext

\* AppendLog and unlock: the entry leads from the record the log explains to
\* the stored one.
LEMMA AppendStep ==
  ASSUME LocalIInv, NEW w \in Writers, LocalAppend(w)
  PROVE  LocalIInv'
<1>. DEFINE c == call[w]
            e == Entry(c.op, c.rec, c.lvl, c.at)
            r == Applied(c.op, c.rec, c.lvl, c.at)
<1>1. /\ c.pc = "log" /\ AppendLog(c.u, e) /\ mu' = Free
      /\ call' = [call EXCEPT ![w] = Idle] /\ UNCHANGED <<clock, local>>
  BY DEF LocalAppend, Return
<1>2. LocalTypeOK /\ c # Idle
  BY <1>1 DEF LocalIInv, Idle
<1>3. /\ c.u \in Agents /\ c.lvl \in Levels \cup {0} /\ c.at \in Nat
      /\ c.rec \in AgentInfo \cup {Absent} /\ logs[c.u] \subseteq LogEntry
  BY <1>2, InCall
<1>4. /\ Accepts(c.op, c.rec, c.lvl) /\ local[c.u] = r /\ c.at <= clock
      /\ \A d \in logs[c.u] : d.at < c.at
      /\ faults = 0 => Explains(logs[c.u], c.rec)
  BY <1>1, Parts DEF WriterInv
<1>5. e.at = c.at
  BY DEF Entry, StateEntry, LevelEntry
<1>. HIDE DEF c
<1>6. e \in LogEntry /\ Leads(e, c.rec, r)
  BY <1>3, <1>4, AcceptedOperation
<1>. HIDE DEF e, r
<1>7. Newest(logs[c.u], e)
  BY <1>3, <1>4, <1>5 DEF Newest, LogEntry
<1>8. faults = 0 => Explains(logs[c.u] \cup {e}, r)
  BY <1>3, <1>4, <1>5, <1>6, <1>7, ExplainsGrows
<1>9. Unlogged(w, c.u)
  BY <1>1 DEF Unlogged, c
<1>. QED BY <1>1, <1>4, <1>5, <1>6, <1>7, <1>8, <1>9, OwedStep DEF c

\* The "register" entry opens the log of a new agent.
LEMMA LogRegistrationStep ==
  ASSUME LocalIInv, NEW w \in Writers, LogRegistration(w)
  PROVE  LocalIInv'
<1>. DEFINE c == call[w]
            e == StateEntry("register", Unset, c.rec.state, c.rec.at)
<1>1. /\ c.pc = "registered" /\ AppendLog(c.u, e) /\ mu' = mu
      /\ call' = [call EXCEPT ![w] = Idle] /\ UNCHANGED <<clock, local>>
  BY DEF LogRegistration, Return
<1>2. LocalTypeOK /\ c # Idle
  BY <1>1 DEF LocalIInv, Idle
<1>3. /\ c.u \in Agents /\ c.rec \in AgentInfo \cup {Absent}
  BY <1>2, InCall
<1>4. /\ local[c.u] = c.rec /\ c.rec.state = "registered" /\ c.rec.at <= clock
      /\ logs[c.u] = {} /\ local[c.u] # Absent
  BY <1>1, <1>2, Parts DEF WriterInv
<1>5. c.rec \in AgentInfo /\ c.rec.at \in Nat
  BY <1>3, <1>4 DEF AgentInfo
<1>6. /\ e \in LogEntry /\ e.at = c.rec.at /\ e.action = "register" /\ e.old = Unset
      /\ e.new = c.rec.state
  BY <1>4, <1>5 DEF StateEntry, LogEntry, InfoStates
<1>. HIDE DEF c, e
<1>7. Newest(logs[c.u], e)
  BY <1>4 DEF Newest
<1>8. Explains(logs[c.u] \cup {e}, local[c.u])
  BY <1>4, <1>5, <1>6, <1>7, ExplainsGrows
<1>9. Unlogged(w, c.u)
  BY <1>1 DEF Unlogged, c
<1>. QED BY <1>1, <1>4, <1>6, <1>7, <1>8, <1>9, OwedStep DEF c

\* Every step of LocalBackend keeps the invariant.
LEMMA NextLocal ==
  ASSUME LocalIInv, [LocalNext]_localVars
  PROVE  LocalIInv'
<1>1. CASE UNCHANGED localVars
  <2>1. LocalTypeOK /\ clock \in Nat /\ clock <= clock
    BY ClockFaults DEF LocalIInv
  <2>2. LocalTypeOK' /\ UNCHANGED <<clock, faults, local, logs, mu, call>>
    BY <1>1, <2>1 DEF localVars, LocalTypeOK
  <2>3. ASSUME NEW x \in Writers PROVE WriterInv(x)'
    BY <2>2, Parts DEF WriterInv
  <2>4. ASSUME NEW u \in Agents PROVE AgentInv(u)'
    BY <2>1, <2>2, AgentStill
  <2>. QED BY <2>2, <2>3, <2>4, PartsNext
<1>2. ASSUME NEW w \in Writers, LocalStep(w) PROVE LocalIInv'
  BY <1>2, ReturnStep, GetStep, PutStep, AppendStep, LogRegistrationStep DEF LocalStep
<1>3. ASSUME NEW w \in Writers, NEW u \in Agents, NEW l \in Levels,
             \/ LocalRegister(w, u, l)
             \/ Returned(u) /\ LocalBegin(w, "upgrade", u, l)
      PROVE  LocalIInv'
  BY <1>3, RegisterStep, BeginStep DEF LocalOps
<1>4. ASSUME NEW w \in Writers, NEW u \in Agents, NEW op \in LocalOps \ {"upgrade"},
             Returned(u), LocalBegin(w, op, u, 0)
      PROVE  LocalIInv'
  BY <1>4, BeginStep
<1>. QED BY <1>1, <1>2, <1>3, <1>4 DEF LocalNext

\* LocalIInv is an invariant of LocalBackend, for all parameters.
THEOREM LocalInvariant == LocalSpec => []LocalIInv
<1>1. LocalInit => LocalIInv
  BY InitLocal
<1>2. LocalIInv /\ [LocalNext]_localVars => LocalIInv'
  BY NextLocal
<1>. QED BY <1>1, <1>2, PTL DEF LocalSpec

\* While nothing has failed, at every state a lock-free reader can see the
\* change log explains the stored record, or it is behind by exactly the one
\* write that stands between PutAgent and AppendLog and explains the record
\* that write replaced, however the operations of any number of goroutines
\* interleave.
THEOREM AuditTrailTheorem == LocalSpec => []AuditTrailExplains
<1>1. LocalIInv => AuditTrailExplains
  BY DEF LocalIInv
<1>. QED BY <1>1, LocalInvariant, PTL

-----------------------------------------------------------------------------
(* LocalBackend implements the lifecycle of domain/state.go. *)

\* The state of every agent, as the refinement mapping reads it.
localStatus == [u \in Agents |-> local[u].state]

\* A stored record moves the status of its agent along the table, or not.
LEMMA StoreLifecycle ==
  ASSUME LocalIInv, NEW u \in Agents, NEW r \in AgentInfo, local' = [local EXCEPT ![u] = r],
         \/ local[u].state = "absent" /\ r.state = "registered"
         \/ Moves(local[u].state, r.state)
  PROVE  [Lifecycle!Next]_localStatus
<1>0. /\ local'[u] = r /\ \A v \in Agents : v # u => local'[v] = local[v]
      /\ localStatus[u] = local[u].state
  BY DEF localStatus, LocalIInv, LocalTypeOK
<1>1. localStatus' = [localStatus EXCEPT ![u] = r.state] /\ localStatus[u] = local[u].state
  <2>1. \A v \in Agents : localStatus'[v] = IF v = u THEN r.state ELSE localStatus[v]
    BY <1>0 DEF localStatus
  <2>. QED BY <1>0, <2>1 DEF localStatus
<1>2. CASE local[u].state = "absent" /\ r.state = "registered"
  <2>1. Lifecycle!Register(u)
    BY <1>1, <1>2 DEF Lifecycle!Register, localStatus
  <2>. QED BY <2>1 DEF Lifecycle!Next
<1>3. CASE r.state = local[u].state
  BY <1>1, <1>3 DEF localStatus
<1>4. CASE \/ local[u].state = "registered" /\ r.state \in {"banned", "unregistered"}
           \/ local[u].state = "active" /\ r.state \in {"banned", "unregistered"}
           \/ local[u].state = "banned" /\ r.state \in {"active", "unregistered"}
  <2>1. r.state \in Lifecycle!States /\ Lifecycle!CanTransition(local[u].state, r.state)
    BY <1>4 DEF Lifecycle!States, Lifecycle!CanTransition, Lifecycle!StateTransition
  <2>2. Lifecycle!Transition(u)
    BY <1>1, <2>1 DEF Lifecycle!Transition, localStatus
  <2>. QED BY <2>2 DEF Lifecycle!Next
<1>. QED BY <1>2, <1>3, <1>4 DEF Moves

\* LocalBackend's records follow domain.StateTransition: PutAgent writes what
\* was decided on the record that is still stored.
THEOREM LocalLifecycleTheorem == LocalSpec => LocalFollowsLifecycle
<1>1. LocalInit => Lifecycle!Init
  BY DEF LocalInit, Lifecycle!Init, Absent
<1>2. LocalIInv /\ [LocalNext]_localVars => [Lifecycle!Next]_localStatus
  <2>. SUFFICES ASSUME LocalIInv, [LocalNext]_localVars PROVE [Lifecycle!Next]_localStatus
    OBVIOUS
  <2>1. ASSUME UNCHANGED local PROVE localStatus' = localStatus
    BY <2>1 DEF localStatus
  <2>2. ASSUME NEW w \in Writers, LocalPut(w) PROVE [Lifecycle!Next]_localStatus
    <3>. DEFINE c == call[w]
                r == Applied(c.op, c.rec, c.lvl, clock + 1)
    <3>1. /\ c.u \in Agents /\ c.rec = local[c.u] /\ local[c.u] \in AgentInfo
          /\ c.lvl \in Levels \cup {0} /\ Accepts(c.op, c.rec, c.lvl)
          /\ local' = [local EXCEPT ![c.u] = r]
      BY <2>2, PutFacts
    <3>2. clock + 1 \in Nat
      BY DEF LocalIInv, LocalTypeOK
    <3>3. r \in AgentInfo /\ Moves(c.rec.state, r.state)
      BY <3>1, <3>2, AcceptedOperation
    <3>. HIDE DEF c, r
    <3>. QED BY <3>1, <3>3, StoreLifecycle
  <2>3. ASSUME NEW w \in Writers, NEW u \in Agents, NEW l \in Levels, LocalRegister(w, u, l)
        PROVE  [Lifecycle!Next]_localStatus
    <3>. DEFINE r == Info("registered", l, clock + 1)
    <3>1. r \in AgentInfo /\ r.state = "registered"
      BY DEF Info, AgentInfo, InfoStates, LocalIInv, LocalTypeOK
    <3>2. local[u].state = "absent" /\ local' = [local EXCEPT ![u] = r]
      BY <2>3 DEF LocalRegister, Absent
    <3>. HIDE DEF r
    <3>. QED BY <3>1, <3>2, StoreLifecycle
  <2>. QED BY <2>1, <2>2, <2>3
           DEF LocalNext, LocalStep, LocalBegin, LocalSkip, LocalGet, LocalPutFails,
               LocalAppend, LogRegistration, localVars
<1>. QED BY <1>1, <1>2, LocalInvariant, PTL
         DEF LocalSpec, LocalFollowsLifecycle, Lifecycle!Spec, localStatus
=============================================================================
