---------------------------- MODULE LocalBackend ----------------------------
(***************************************************************************)
(* LocalBackend over a Persistence: the off-chain store of identities.     *)
(* UpdateAgentLevel, BanAgent, UnbanAgent and UnregisterAgent hold b.mu    *)
(* over GetAgent ... PutAgent ... AppendLog.  Each persistence call is     *)
(* atomic by itself and a step of its own; b.mu is what makes the sequence *)
(* atomic, and only against callers that take b.mu: GetAgentInfo and       *)
(* GetChangeLogs do not, and may see any state between two steps.  The     *)
(* cache holds presence markers that nothing reads back, so it is left     *)
(* out.  A Persistence that outlives the process would find after a crash  *)
(* what a failing AppendLog leaves.                                        *)
(*                                                                         *)
(* GetChangeLogs sorts by OccurredAt, so an agent's log is a set of        *)
(* stamped entries.                                                        *)
(***************************************************************************)
EXTENDS AgentBase

VARIABLES local,   \* Persistence: agents
          logs,    \* Persistence: logs
          mu,      \* b.mu: its holder, or Free
          call     \* call[w]: the write call goroutine w is in

localVars == <<clock, faults, local, logs, mu, call>>

CONSTANT Free

ASSUME FreeAssumption == Free \notin Writers

LocalOps == {"upgrade", "ban", "unban", "unregister"}

Idle == [pc |-> "idle", op |-> "none", u |-> "none", lvl |-> 0, rec |-> Absent, at |-> 0]

\* The zero value of ChangeLog.OldState and NewState.
Unset == ""

LogEntry == [action : LocalOps \cup {"register"}, old : InfoStates \cup {Unset},
             new : InfoStates \cup {Unset}, oldLevel : Nat, newLevel : Nat, at : Nat]

StateEntry(a, old, new, t) ==
  [action |-> a, old |-> old, new |-> new, oldLevel |-> 0, newLevel |-> 0, at |-> t]

LevelEntry(old, new, t) ==
  [action |-> "upgrade", old |-> Unset, new |-> Unset, oldLevel |-> old, newLevel |-> new, at |-> t]

-----------------------------------------------------------------------------
(* The decision each operation takes on the record it has read. *)

Accepts_BanUnregistered(op, rec, l) ==
  \/ op = "upgrade"    /\ rec.state \in {"registered", "active"} /\ l > rec.level
  \/ op = "ban"        /\ rec.state \in {"registered", "active", "unregistered"}
  \/ op = "unban"      /\ rec.state = "banned"
  \/ op = "unregister" /\ rec.state \in {"registered", "active", "banned"}

\* The operation writes: it neither fails on its guards nor returns early
\* because there is nothing to do.
Accepts(op, rec, l) ==
  \/ op = "upgrade"    /\ rec.state \in {"registered", "active"} /\ l > rec.level
  \/ op = "ban"        /\ rec.state \in {"registered", "active"}
  \/ op = "unban"      /\ rec.state = "banned"
  \/ op = "unregister" /\ rec.state \in {"registered", "active", "banned"}

\* The record the operation writes.
Applied(op, rec, l, t) ==
  CASE op = "upgrade"    -> Info(rec.state, l, t)
    [] op = "ban"        -> Info("banned", rec.level, t)
    [] op = "unban"      -> Info("active", rec.level, t)
    [] op = "unregister" -> Info("unregistered", rec.level, t)

\* The ChangeLog entry the operation appends.
Entry(op, rec, l, t) ==
  IF op = "upgrade" THEN LevelEntry(rec.level, l, t)
  ELSE StateEntry(op, rec.state, Applied(op, rec, l, t).state, t)

-----------------------------------------------------------------------------
(* Steps of a call.  AppendLog is best effort: its failure is a fault the  *)
(* operation swallows.                                                     *)

AppendLog(u, e) ==
  \/ logs' = [logs EXCEPT ![u] = @ \cup {e}] /\ UNCHANGED faults
  \/ Fault /\ UNCHANGED logs

Return(w) == call' = [call EXCEPT ![w] = Idle]

\* RegisterAgent has stored or is about to store u and has not returned yet.
Registering(u) == \E w \in Writers : call[w].op = "register" /\ call[w].u = u

\* RegisterAgent up to its PutAgent, of a fresh uuid and without b.mu.
LocalRegister(w, u, l) ==
  LET rec == Info("registered", l, clock + 1) IN
  /\ call[w] = Idle
  /\ clock < MaxClock
  /\ local[u] = Absent
  /\ clock' = clock + 1
  /\ local' = [local EXCEPT ![u] = rec]
  /\ call' = [call EXCEPT ![w] = [pc |-> "registered", op |-> "register", u |-> u, lvl |-> l,
                                  rec |-> rec, at |-> clock + 1]]
  /\ UNCHANGED <<faults, logs, mu>>

\* AppendLog of the "register" entry, and return.
LogRegistration(w) ==
  LET c == call[w] IN
  /\ c.pc = "registered"
  /\ AppendLog(c.u, StateEntry("register", Unset, c.rec.state, c.rec.at))
  /\ Return(w)
  /\ UNCHANGED <<clock, local, mu>>

\* A caller enters one of the four locked operations.
LocalBegin(w, op, u, l) ==
  /\ call[w] = Idle
  /\ clock < MaxClock
  /\ call' = [call EXCEPT ![w] = [pc |-> "local", op |-> op, u |-> u, lvl |-> l,
                                  rec |-> Absent, at |-> 0]]
  /\ UNCHANGED <<clock, faults, local, logs, mu>>

\* Lock, GetAgent, and a return that writes nothing: not found, refused, or
\* already done.  A failing GetAgent is reported as not found.
LocalSkip(w) ==
  /\ call[w].pc = "local"
  /\ mu = Free
  /\ \/ ~Accepts(call[w].op, local[call[w].u], call[w].lvl) /\ UNCHANGED faults
     \/ Fault
  /\ Return(w)
  /\ UNCHANGED <<clock, local, logs, mu>>

\* The lock as two goroutines would share it if it guarded nothing.
LocalGet_NoLock(w) ==
  /\ call[w].pc = "local"
  /\ Accepts(call[w].op, local[call[w].u], call[w].lvl)
  /\ call' = [call EXCEPT ![w].pc = "put", ![w].rec = local[call[w].u]]
  /\ UNCHANGED <<clock, faults, local, logs, mu>>

\* Lock, GetAgent and the checks of an operation that goes on to write.
LocalGet(w) ==
  /\ call[w].pc = "local"
  /\ mu = Free
  /\ Accepts(call[w].op, local[call[w].u], call[w].lvl)
  /\ mu' = w
  /\ call' = [call EXCEPT ![w].pc = "put", ![w].rec = local[call[w].u]]
  /\ UNCHANGED <<clock, faults, local, logs>>

\* time.Now() and PutAgent, still under the lock.
LocalPut(w) ==
  LET c == call[w] IN
  /\ c.pc = "put"
  /\ clock' = clock + 1
  /\ local' = [local EXCEPT ![c.u] = Applied(c.op, c.rec, c.lvl, clock + 1)]
  /\ call' = [call EXCEPT ![w].pc = "log", ![w].at = clock + 1]
  /\ UNCHANGED <<faults, logs, mu>>

\* AppendLog of the change, unlock, return.
LocalAppend(w) ==
  LET c == call[w] IN
  /\ c.pc = "log"
  /\ AppendLog(c.u, Entry(c.op, c.rec, c.lvl, c.at))
  /\ mu' = Free
  /\ Return(w)
  /\ UNCHANGED <<clock, local>>

LocalPutFails_KeepsLock(w) ==
  /\ call[w].pc = "put"
  /\ Fault
  /\ Return(w)
  /\ UNCHANGED <<clock, local, logs, mu>>

\* PutAgent fails: the error is returned and nothing is logged.
LocalPutFails(w) ==
  /\ call[w].pc = "put"
  /\ Fault
  /\ mu' = Free
  /\ Return(w)
  /\ UNCHANGED <<clock, local, logs>>

LocalStep(w) ==
  \/ LocalSkip(w) \/ LocalGet(w) \/ LocalPut(w) \/ LocalPutFails(w) \/ LocalAppend(w)
  \/ LogRegistration(w)

-----------------------------------------------------------------------------
(* LocalBackend on its own (BackendType local). *)

LocalInit ==
  /\ clock = 0
  /\ faults = 0
  /\ local = [u \in Agents |-> Absent]
  /\ logs = [u \in Agents |-> {}]
  /\ mu = Free
  /\ call = [w \in Writers |-> Idle]

\* A uuid is random and known to callers only once RegisterAgent returned it.
Returned(u) == local[u] # Absent /\ ~Registering(u)

LocalNext ==
  \E w \in Writers :
    \/ LocalStep(w)
    \/ \E u \in Agents, l \in Levels :
         \/ LocalRegister(w, u, l)
         \/ Returned(u) /\ LocalBegin(w, "upgrade", u, l)
    \/ \E u \in Agents, op \in LocalOps \ {"upgrade"} :
         Returned(u) /\ LocalBegin(w, op, u, 0)

\* Every goroutine runs on.  Strong fairness of the lock is what Go's mutex
\* gives: a waiter is handed the lock after at most a millisecond.
LocalFairness ==
  \A w \in Writers : /\ SF_localVars(LocalSkip(w) \/ LocalGet(w))
                     /\ WF_localVars(LocalPut(w) \/ LocalPutFails(w) \/ LocalAppend(w)
                                  \/ LogRegistration(w))

LocalSpec == LocalInit /\ [][LocalNext]_localVars /\ LocalFairness

-----------------------------------------------------------------------------

LocalCallRecord ==
  [pc : {"local", "put", "log", "registered"}, op : LocalOps \cup {"register"}, u : Agents,
   lvl : Levels \cup {0}, rec : AgentInfo \cup {Absent}, at : Nat]

LocalTypeOK ==
  /\ clock \in Nat
  /\ faults \in 0..MaxFaults
  /\ local \in [Agents -> AgentInfo \cup {Absent}]
  /\ logs \in [Agents -> SUBSET LogEntry]
  /\ mu \in Writers \cup {Free}
  /\ call \in [Writers -> LocalCallRecord \cup {Idle}]

Lifecycle == INSTANCE AgentLifecycle WITH status <- [u \in Agents |-> local[u].state]

\* LocalBackend's records follow the lifecycle table of domain/state.go,
\* however the locked operations of several goroutines interleave.
LocalFollowsLifecycle == Lifecycle!Spec

Latest(S) == CHOOSE e \in S : \A d \in S : d.at <= e.at

Before(S, e) == {d \in S : d.at < e.at}

StateTrail(S) == {e \in S : e.action # "upgrade"}

LevelTrail(S) == {e \in S : e.action = "upgrade"}

\* The log S explains the record r: entries link old value to new value, and
\* the newest ones state the state and the level of r.
Explains(S, r) ==
  LET states == StateTrail(S)
      levels == LevelTrail(S) IN
  /\ \E e \in states : e = Latest(states) /\ e.new = r.state
  /\ levels # {} => Latest(levels).newLevel = r.level
  /\ \A e \in states :
       \/ e.action = "register" /\ e.old = Unset
       \/ Before(states, e) # {} /\ e.old = Latest(Before(states, e)).new
  /\ \A e \in levels : Before(levels, e) # {} => e.oldLevel = Latest(Before(levels, e)).newLevel

\* w has stored a record of u and has not appended its log entry yet.
Unlogged(w, u) == call[w].pc \in {"log", "registered"} /\ call[w].u = u

\* While nothing has failed, the log GetChangeLogs returns explains the record
\* GetAgentInfo returns, unless a call stands between its PutAgent and its
\* AppendLog.  A reader takes no lock and may see that state: the log is then
\* behind by exactly that write, and explains the record it replaced, or is
\* empty if it was the first.
AuditTrailExplains ==
  faults = 0 => \A u \in Agents :
    /\ local[u] # Absent => Explains(logs[u], local[u]) \/ \E w \in Writers : Unlogged(w, u)
    /\ \A w \in Writers : Unlogged(w, u) =>
         IF call[w].pc = "registered" THEN logs[u] = {} /\ local[u] = call[w].rec
         ELSE /\ Explains(logs[u], call[w].rec)
              /\ local[u] = Applied(call[w].op, call[w].rec, call[w].lvl, call[w].at)

\* Every call returns: no path out of an operation leaves b.mu locked.
CallsReturn == \A w \in Writers : call[w] # Idle ~> call[w] = Idle

-----------------------------------------------------------------------------
(* The inductive invariant: what b.mu protects between GetAgent and         *)
(* AppendLog, and how stamps order the log.                                 *)

\* A call that is about to write holds b.mu, and the record it read is still
\* the stored one.  A call that has written holds b.mu until it has logged,
\* and the stored record is the one it wrote.
LockInv ==
  \A w \in Writers :
    LET c == call[w] IN
    /\ c.pc \in {"put", "log"} => mu = w /\ c.rec \in AgentInfo /\ Accepts(c.op, c.rec, c.lvl)
    /\ c.pc = "put" => local[c.u] = c.rec
    /\ c.pc = "log" => local[c.u] = Applied(c.op, c.rec, c.lvl, c.at)

\* Calls name stored agents, and one that is being registered is nobody else's.
NamedInv ==
  \A w \in Writers : call[w] # Idle =>
    /\ local[call[w].u] # Absent
    /\ call[w].pc = "registered" <=> call[w].op = "register"
    /\ call[w].pc = "registered" =>
         /\ local[call[w].u] = call[w].rec /\ call[w].rec.state = "registered"
         /\ logs[call[w].u] = {}
         /\ \A x \in Writers \ {w} : call[x] # Idle => call[x].u # call[w].u

\* A log has entries only of a stored agent, none stamped in the future, and
\* none as late as the one that is about to be appended.
LogInv ==
  /\ \A u \in Agents :
       /\ local[u] = Absent => logs[u] = {}
       /\ \A e \in logs[u] : e.at <= clock
  /\ \A w \in Writers :
       /\ call[w].pc = "registered" => call[w].rec.at <= clock
       /\ call[w].pc = "log" => call[w].at <= clock /\ \A e \in logs[call[w].u] : e.at < call[w].at

LocalIInv == LocalTypeOK /\ LockInv /\ NamedInv /\ LogInv /\ AuditTrailExplains
=============================================================================
