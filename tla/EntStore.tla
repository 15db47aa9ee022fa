----------------------------- MODULE EntStore ------------------------------
(***************************************************************************)
(* One caller of the generated ent client and the database behind it       *)
(* (src/ent).  A builder collects calls in its mutation; Save fills in the *)
(* defaults, runs the hooks, which may change the mutation again, then     *)
(* checks it and executes the statement.  Builders work on the database or *)
(* inside a transaction.  The database is external: one statement is       *)
(* atomic, an UPDATE that names a column twice is refused, and an error    *)
(* makes an open transaction fail until it is rolled back.                 *)
(***************************************************************************)
EXTENDS EntSchema

CONSTANTS EntMaxStatements,    \* builders a behaviour uses
          EntMaxCalls,         \* calls on builders and by hooks, in all
          EntMaxTrouble        \* refusing hooks, errors after the statement, commit hooks

VARIABLES entDB,      \* [entity |-> [id |-> row]], what is committed
          entTx,      \* the open transaction
          stmt,       \* the builder in use
          entTime,    \* clock and source of fresh ids
          entBudget   \* statements, calls and trouble so far

entVars == <<entDB, entTx, stmt, entTime, entBudget>>

NoTx == [st |-> "none", db |-> <<>>, begin |-> <<>>]
NoStmt == [st |-> "none"]

Row(col) == [col |-> col, added |-> {}]

Prepared(e) ==
  CASE e = "Agent" -> [owner_did |-> "a"]
    [] e = "AuditLog" -> [action |-> "a", operator_did |-> "a", agent |-> 1]
    [] e = "OutboxEvent" ->
         [aggregate_type |-> "a", aggregate_id |-> "a", event_type |-> "a",
          payload |-> "a", idempotency_key |-> "b"]
    [] OTHER -> [email |-> "b", role_did |-> "a"]

Stored(e, col) ==
  Row([f \in CreateSpec[e] |->
         IF f \in DOMAIN col THEN col[f]
         ELSE IF f \in DOMAIN CreateDefaults(e, 0) THEN CreateDefaults(e, 0)[f] ELSE Null])

EntInit ==
  /\ entDB = [Agent |-> <<Stored("Agent", [owner_did |-> "a", level |-> 3]),
                          Stored("Agent", [owner_did |-> "b"])>>,
              AuditLog |-> <<Stored("AuditLog", Prepared("AuditLog"))>>,
              OutboxEvent |-> <<Stored("OutboxEvent",
                                       [Prepared("OutboxEvent") EXCEPT !.idempotency_key = "a"])>>,
              User |-> <<Stored("User", [email |-> "a", role_did |-> "a"])>>]
  /\ entTx = NoTx /\ stmt = NoStmt
  /\ entTime = 10
  /\ entBudget = [statements |-> 0, calls |-> 0, trouble |-> 0]

-----------------------------------------------------------------------------
(* The database (external).                                                *)

DBAccepts(d) ==
  /\ \A e \in Entities : \A i \in DOMAIN d[e] :
       /\ \A f \in CreateSpec[e] \ Nullable[e] : d[e][i].col[f] # Null
       /\ \A j \in DOMAIN d[e] \ {i} : \A f \in Unique[e] : d[e][i].col[f] # d[e][j].col[f]
  /\ \A l \in DOMAIN d.AuditLog : d.AuditLog[l].col.agent \in DOMAIN d.Agent

Done(d) == [db |-> d, err |-> "ok"]
Failed(d, err) == [db |-> d, err |-> err]
Try(d, d2) == IF DBAccepts(d2) THEN Done(d2) ELSE Failed(d, "sql")

(* An agent's log can be taken over only when it has no agent.             *)
LinkLogs(d, ids, m) ==
  IF m.link = {} \/ ids = {} THEN Done(d)
  ELSE IF Cardinality(ids) > 1
            \/ \E l \in m.link : l \notin DOMAIN d.AuditLog \/ d.AuditLog[l].col.agent # Null
       THEN Failed(d, "ent")
       ELSE Done([d EXCEPT !.AuditLog =
                    [l \in DOMAIN @ |-> IF l \in m.link
                                        THEN [@[l] EXCEPT !.col.agent = CHOOSE i \in ids : TRUE]
                                        ELSE @[l]]])

UnlinkLogs(d, ids, m) ==
  [d EXCEPT !.AuditLog =
     [l \in DOMAIN @ |-> IF @[l].col.agent \in ids /\ (m.unlinkAll \/ l \in m.unlink)
                         THEN [@[l] EXCEPT !.col.agent = Null] ELSE @[l]]]

InsertRow(d, e, m) ==
  [d EXCEPT ![e] = Put(@, m.id, Row([f \in CreateSpec[e] |->
                                        IF f \in DOMAIN m.set THEN m.set[f] ELSE Null]))]

Insert(d, e, m) ==
  IF m.id \in DOMAIN d[e] THEN Failed(d, "sql")
  ELSE LET r == Try(d, InsertRow(d, e, m)) IN
       IF r.err = "ok" THEN LinkLogs(r.db, {m.id}, m) ELSE r

NewColumn(m, old, f) ==
  CASE f \in DOMAIN m.set -> m.set[f]
    [] f \in DOMAIN m.add -> old + m.add[f]
    [] f \in m.clear -> Null
    [] OTHER -> old

UpdateRow(e, row, m, spec) ==
  [col |-> [f \in CreateSpec[e] |->
              IF f \in spec THEN NewColumn(m, row.col[f], f) ELSE row.col[f]],
   added |-> (row.added \ (DOMAIN m.set \cap spec)) \cup (DOMAIN m.add \cap spec)]

Update(d, e, ids, m, spec) ==
  LET twice == spec \cap DOMAIN m.set \cap (DOMAIN m.add \cup m.clear)
      d1 == [d EXCEPT ![e] = [i \in DOMAIN @ |-> IF i \in ids THEN UpdateRow(e, @[i], m, spec)
                                                 ELSE @[i]]]
      r == Try(d, IF e = "Agent" THEN UnlinkLogs(d1, ids, m) ELSE d1)
  IN  IF twice # {} THEN Failed(d, "sql")
      ELSE IF r.err = "ok" THEN LinkLogs(r.db, ids, m) ELSE r

Delete(d, e, ids) ==
  LET d1 == [d EXCEPT ![e] = Restrict(@, DOMAIN @ \ ids)]
      orphans == {l \in DOMAIN d1.AuditLog : d1.AuditLog[l].col.agent \notin DOMAIN d1.Agent}
  IN  Try(d, IF OnDelete = "CASCADE"
             THEN [d1 EXCEPT !.AuditLog = Restrict(@, DOMAIN @ \ orphans)] ELSE d1)

-----------------------------------------------------------------------------
(* Saving.                                                                 *)

createCheck(e, m) ==
  /\ Required[e] \subseteq DOMAIN m.set
  /\ \A f \in DOMAIN m.set \cap DOMAIN EntFields[e] : m.set[f] \in EntFields[e][f]

updateCheck(e, m) ==
  /\ \A f \in UpdateCheck[e] \cap DOMAIN m.set : m.set[f] \in EntFields[e][f]
  /\ ~("agent" \in m.clear /\ "agent" \in DOMAIN m.set)

CreateSave(d, e, m) == IF createCheck(e, m) THEN Insert(d, e, m) ELSE Failed(d, "ent")

(* CreateBulk: every builder's check runs before the one INSERT of all.    *)
BulkSave(d, e, ms) ==
  IF \A i \in DOMAIN ms : createCheck(e, ms[i])
  THEN IF \E i \in DOMAIN ms : ms[i].id \in DOMAIN d[e] THEN Failed(d, "sql")
       ELSE Try(d, InsertRow(InsertRow(d, e, ms[1]), e, ms[2]))
  ELSE Failed(d, "ent")

(* Update writes the rows its predicates match, UpdateOne the one it is    *)
(* bound to, which must be there.                                          *)
UpdateSave(d, e, ids, m) ==
  IF updateCheck(e, m) THEN Update(d, e, ids, m, UpdateSpec[e]) ELSE Failed(d, "ent")

UpdateOneSave(d, e, m) ==
  IF ~updateCheck(e, m) \/ m.id \notin DOMAIN d[e] THEN Failed(d, "ent")
  ELSE Update(d, e, {m.id}, m, UpdateOneSpec[e])

AgentDelete(d, ids) == Delete(d, "Agent", ids)
AuditLogDelete(d, ids) == Delete(d, "AuditLog", ids)
OutboxEventDelete(d, ids) == Delete(d, "OutboxEvent", ids)
UserDelete(d, ids) == Delete(d, "User", ids)
DeleteSave(d, e, ids) ==
  CASE e = "Agent" -> AgentDelete(d, ids)
    [] e = "AuditLog" -> AuditLogDelete(d, ids)
    [] e = "OutboxEvent" -> OutboxEventDelete(d, ids)
    [] OTHER -> UserDelete(d, ids)

DeleteOneSave(d, e, ids) == IF ids = {} THEN Failed(d, "ent") ELSE DeleteSave(d, e, ids)

sqlSave(d, s) ==
  LET ids == s.where \cap DOMAIN d[s.e]
      m == s.ms[1]
  IN  CASE s.op = "create" -> CreateSave(d, s.e, m)
        [] s.op = "bulk" -> BulkSave(d, s.e, s.ms)
        [] s.op = "update" -> UpdateSave(d, s.e, ids, m)
        [] s.op = "updateOne" -> UpdateOneSave(d, s.e, m)
        [] s.op = "delete" -> DeleteSave(d, s.e, ids)
        [] OTHER -> DeleteOneSave(d, s.e, ids)

View(inTx) == IF inTx THEN entTx.db ELSE entDB

-----------------------------------------------------------------------------
(* The entity clients hand out builders.                                   *)

Ops == {"create", "bulk", "update", "updateOne", "delete", "deleteOne"}

NewBuilder(e, op, where, inTx) ==
  /\ stmt.st = "none"
  /\ entBudget.statements < EntMaxStatements
  /\ inTx <=> entTx.st # "none"
  /\ op \in {"create", "bulk"} => where = {}
  /\ op \in {"updateOne", "deleteOne"} => Cardinality(where) = 1
  /\ op \in {"update", "delete"} => Cardinality(where) # 1
  /\ stmt' = [st |-> "build", e |-> e, op |-> op, where |-> where, inTx |-> inTx,
              ms |-> IF op \in {"create", "bulk"}
                     THEN [i \in 1..(IF op = "bulk" THEN 2 ELSE 1) |->
                             [NewMutation(Null) EXCEPT !.set = Prepared(e)]]
                     ELSE <<NewMutation(IF Cardinality(where) = 1
                                        THEN CHOOSE i \in where : TRUE ELSE Null)>>,
              said |-> <<>>, had |-> DOMAIN View(inTx)[e], before |-> <<>>, saves |-> 0, err |-> "none",
              late |-> FALSE]
  /\ entBudget' = [entBudget EXCEPT !.statements = @ + 1]
  /\ UNCHANGED <<entDB, entTx, entTime>>

MakeCall(i, c) ==
  /\ entBudget.calls < EntMaxCalls
  /\ entBudget' = [entBudget EXCEPT !.calls = @ + 1]
  /\ stmt' = [stmt EXCEPT !.ms[i] = Apply(stmt.e, @, c), !.said = Append(@, c)]
  /\ UNCHANGED <<entDB, entTx, entTime>>

BuilderCall ==
  /\ stmt.st = "build" /\ stmt.saves = 0
  /\ \E i \in DOMAIN stmt.ms : \E c \in BuilderCalls(stmt.op, stmt.e) : MakeCall(i, c)

(* Save: defaults, and the hooks are about to run.                         *)
SetID(m, id) == IF m.id = Null THEN [m EXCEPT !.id = id] ELSE m

(* What defaults() of an update is about to add, as a call.                *)
FilledIn ==
  IF /\ stmt.op \in {"update", "updateOne"} /\ UpdateDefaults(stmt.e, entTime) # <<>>
     /\ "updated_at" \notin DOMAIN stmt.ms[1].set
  THEN <<[do |-> "set", f |-> "updated_at", v |-> entTime]>> ELSE <<>>

Save ==
  /\ stmt.st = "build" /\ stmt.saves < 2
  /\ entTime' = entTime + 2
  /\ stmt' = [stmt EXCEPT
                !.st = "hooks", !.saves = @ + 1, !.said = @ \o FilledIn,
                !.ms = [i \in DOMAIN @ |->
                  CASE stmt.op \in {"create", "bulk"} ->
                         SetID(WithDefaults(@[i], CreateDefaults(stmt.e, entTime)), entTime + i - 1)
                    [] stmt.op \in {"update", "updateOne"} ->
                         WithDefaults(@[i], UpdateDefaults(stmt.e, entTime))
                    [] OTHER -> @[i]]]
  /\ UNCHANGED <<entDB, entTx, entBudget>>

Trouble == entBudget.trouble < EntMaxTrouble /\ entBudget' = [entBudget EXCEPT !.trouble = @ + 1]

HookChanges ==
  /\ stmt.st = "hooks" /\ stmt.op \in {"create", "bulk", "update", "updateOne"}
  /\ \E i \in DOMAIN stmt.ms : \E c \in HookCalls(stmt.e) : MakeCall(i, c)

HookRefuses ==
  /\ stmt.st = "hooks"
  /\ Trouble
  /\ stmt' = [stmt EXCEPT !.st = "saved", !.err = "ent", !.before = View(stmt.inTx)]
  /\ UNCHANGED <<entDB, entTx, entTime>>

(* The builder's own transaction: inside an ent.Tx it is that one, and its *)
(* Commit and Rollback do nothing.                                         *)
InnerCommit(inTx, d) ==
  /\ entDB' = IF inTx THEN entDB ELSE d
  /\ entTx' = IF inTx THEN [entTx EXCEPT !.db = d] ELSE entTx

InnerRollback_Nop(inTx, r) ==
  /\ entDB' = IF inTx THEN entDB ELSE r.db
  /\ entTx' = IF ~inTx THEN entTx
              ELSE IF r.err = "sql" THEN [entTx EXCEPT !.st = "aborted"]
              ELSE [entTx EXCEPT !.db = r.db]

InnerRollback(inTx, r) ==
  /\ UNCHANGED entDB
  /\ entTx' = IF ~inTx THEN entTx
              ELSE IF r.err = "sql" THEN [entTx EXCEPT !.st = "aborted"]
              ELSE [entTx EXCEPT !.db = r.db]

(* withHooks' innermost function.  A hook may still fail, or the answer be *)
(* lost, once the statement is done: then Save returns an error.           *)
Exec(late) ==
  /\ stmt.st = "hooks"
  /\ LET d == View(stmt.inTx)
         r == IF stmt.inTx /\ entTx.st = "aborted" THEN Failed(d, "sql") ELSE sqlSave(d, stmt)
     IN  /\ late => r.err = "ok"
         /\ stmt' = [stmt EXCEPT !.st = "saved", !.before = d, !.late = late,
                                 !.err = IF late THEN "ent" ELSE r.err,
                                 !.ms = [i \in DOMAIN @ |-> [@[i] EXCEPT !.done = r.err = "ok"]]]
         /\ IF r.err = "ok" THEN InnerCommit(stmt.inTx, r.db) ELSE InnerRollback(stmt.inTx, r)
  /\ IF late THEN Trouble ELSE UNCHANGED entBudget
  /\ UNCHANGED entTime

(* After an error the caller may save the same builder again.              *)
Retry ==
  /\ stmt.st = "saved" /\ stmt.err # "ok" /\ stmt.saves < 2
  /\ stmt' = [stmt EXCEPT !.st = "build"]
  /\ UNCHANGED <<entDB, entTx, entTime, entBudget>>

Drop ==
  /\ stmt.st = "saved"
  /\ stmt' = NoStmt
  /\ UNCHANGED <<entDB, entTx, entTime, entBudget>>

(* Client.Tx; a transactional client cannot start another one.             *)
OpenTx ==
  /\ stmt.st = "none" /\ entTx.st = "none"
  /\ entBudget.statements < EntMaxStatements
  /\ entTx' = [st |-> "open", db |-> entDB, begin |-> entDB]
  /\ UNCHANGED <<entDB, stmt, entTime, entBudget>>

Commit ==
  /\ stmt.st = "none" /\ entTx.st # "none"
  /\ entDB' = IF entTx.st = "open" THEN entTx.db ELSE entDB
  /\ entTx' = NoTx
  /\ UNCHANGED <<stmt, entTime, entBudget>>

Rollback ==
  /\ stmt.st = "none" /\ entTx.st # "none"
  /\ entTx' = NoTx
  /\ UNCHANGED <<entDB, stmt, entTime, entBudget>>

(* A commit hook that does not call the next committer leaves the          *)
(* transaction open.                                                       *)
CommitHookRefuses ==
  /\ stmt.st = "none" /\ entTx.st # "none"
  /\ Trouble
  /\ UNCHANGED <<entDB, entTx, stmt, entTime>>

EntNext ==
  \/ /\ stmt.st = "none"
     /\ \E e \in Entities, op \in Ops, where \in {{}, {1}, {1, 2}, {3}}, inTx \in BOOLEAN :
          NewBuilder(e, op, where, inTx)
  \/ BuilderCall \/ Save \/ HookChanges \/ HookRefuses
  \/ \E late \in BOOLEAN : Exec(late)
  \/ Retry \/ Drop \/ OpenTx \/ Commit \/ Rollback \/ CommitHookRefuses

EntSpec == EntInit /\ [][EntNext]_entVars

-----------------------------------------------------------------------------
(* Properties.                                                             *)

(* What the database holds passed the validators, whatever calls and hooks *)
(* shaped the mutation, except for a number changed by an Add: the         *)
(* increment is applied by the database and never checked.                 *)
RowsValid ==
  \A e \in Entities : \A i \in DOMAIN entDB[e] :
    LET row == entDB[e][i] IN
    \A f \in DOMAIN EntFields[e] \ row.added :
      \/ row.col[f] \in EntFields[e][f]
      \/ f \in Nullable[e] /\ row.col[f] = Null

(* The value a sequence of calls asks for: the last Set, Clear or Reset    *)
(* counts and the increments after it add up in the width of the delta.    *)
Bases(said, f) == {i \in DOMAIN said : said[i].f = f /\ said[i].do # "add"}
LastBase(said, f) ==
  LET bases == Bases(said, f) IN
  IF bases = {} THEN 0 ELSE CHOOSE i \in bases : \A j \in bases : j <= i
Adds(said, f) == {i \in DOMAIN said : said[i].f = f /\ i > LastBase(said, f)}

Added(said, f) ==
  LET sum[i \in 0..Len(said)] ==
        IF i = 0 THEN 0
        ELSE IF said[i].f # f THEN sum[i - 1]
        ELSE IF said[i].do = "add" THEN sum[i - 1] + said[i].v ELSE 0
  IN  sum[Len(said)]

Asked(e, old, said, f) ==
  LET last == LastBase(said, f)
      base == CASE last = 0 -> old
                [] last # 0 /\ said[last].do = "set" -> said[last].v
                [] last # 0 /\ said[last].do = "clear" -> Null
                [] OTHER -> old
  IN  IF Adds(said, f) = {} THEN base ELSE base + Wrap(Numbers[e][f], Added(said, f))

(* A successful update stores what the calls and the hooks asked for, in   *)
(* their order, and never an immutable field, which a hook may set in the  *)
(* mutation without an error.                                              *)
StoredAsSaid ==
  (stmt.st = "saved" /\ stmt.op \in {"update", "updateOne"} /\ stmt.err = "ok") =>
    LET d == View(stmt.inTx) IN
    \A i \in (IF stmt.op = "update" THEN stmt.where ELSE {stmt.ms[1].id}) \cap DOMAIN d[stmt.e] :
      LET old == stmt.before[stmt.e][i].col
          new == d[stmt.e][i].col
      IN  /\ \A f \in UpdateSpec[stmt.e] \cap DOMAIN EntFields[stmt.e] :
               f \in Settable[stmt.e] \ {"created_at", "occurred_at"} =>
                 new[f] = Asked(stmt.e, old[f], stmt.said, f)
          /\ \A f \in {"created_at", "occurred_at"} \cap DOMAIN new : new[f] = old[f]

(* A save that fails before its statement is done leaves the database as   *)
(* it was: in particular a bulk creation stores all of its rows or none.   *)
FailedSaveStoresNothing ==
  (stmt.st = "saved" /\ ~stmt.inTx /\ ~stmt.late /\ stmt.err # "ok") => entDB = stmt.before

(* Saving a builder again after an error of unknown outcome never stores a *)
(* second row, for the id is chosen once.                                  *)
RetryStoresOnce ==
  (stmt.st = "saved" /\ stmt.op = "create" /\ stmt.saves = 2) =>
    Cardinality(DOMAIN View(stmt.inTx)[stmt.e] \ stmt.had) <= 1

(* Until Tx.Commit nothing a builder does inside a transaction is visible  *)
(* outside it, and a rollback restores what was there when it began.       *)
TxInvisible == entTx.st # "none" => entDB = entTx.begin

(* No operation on agents takes an audit log away from its agent, neither  *)
(* the edge calls nor deleting the agent.                                  *)
AuditTrailStays ==
  (stmt.st = "saved" /\ stmt.e = "Agent") => View(stmt.inTx).AuditLog = stmt.before.AuditLog

(* What a save stores is valid and what the builder said, and it never     *)
(* costs an audit log its agent.                                           *)
SavedAsAsked == RowsValid /\ StoredAsSaid /\ AuditTrailStays

(* Saves and transactions happen whole or not at all: after an error, after *)
(* the same builder is saved again, and until Commit.                      *)
SavesAreAtomic == FailedSaveStoresNothing /\ RetryStoresOnce /\ TxInvisible

-----------------------------------------------------------------------------
(* The inductive invariant. *)

StmtFields ==
  {"st", "e", "op", "where", "inTx", "ms", "said", "had", "before", "saves", "err", "late"}

EntTypeOK ==
  /\ DOMAIN entDB = Entities /\ (entTx.st # "none" => DOMAIN entTx.db = Entities)
  /\ DOMAIN entTx = {"st", "db", "begin"}
  /\ entTime \in Nat
  /\ stmt.st # "none" =>
       /\ DOMAIN stmt = StmtFields /\ stmt.e \in Entities
       /\ stmt.saves \in Nat /\ (stmt.st # "build" => stmt.saves > 0)
       /\ 1 \in DOMAIN stmt.ms /\ "id" \in DOMAIN stmt.ms[1]

(* A builder works inside a transaction exactly while one is open.         *)
TxMatches == stmt.st # "none" => (stmt.inTx <=> entTx.st # "none")

(* The only row a creation can have added is the one with its id, which    *)
(* its first save chose.                                                   *)
OnlyItsRow ==
  (stmt.st # "none" /\ stmt.op = "create") =>
    LET d == View(stmt.inTx) IN
    IF stmt.saves = 0 THEN DOMAIN d[stmt.e] \subseteq stmt.had
    ELSE stmt.ms[1].id # Null /\ DOMAIN d[stmt.e] \subseteq stmt.had \cup {stmt.ms[1].id}

EntInv == EntTypeOK /\ TxMatches /\ OnlyItsRow /\ FailedSaveStoresNothing /\ TxInvisible

(* A row has its columns, and their values are valid unless a number was   *)
(* added to.                                                               *)
RowOK(e, row) ==
  /\ DOMAIN row = {"col", "added"} /\ DOMAIN row.col = CreateSpec[e]
  /\ \A f \in DOMAIN EntFields[e] \ row.added :
       \/ row.col[f] \in EntFields[e][f]
       \/ f \in Nullable[e] /\ row.col[f] = Null

RowsOK(d) ==
  /\ DOMAIN d = Entities /\ DOMAIN d.Agent \subseteq Nat
  /\ d.AuditLog = [l \in DOMAIN d.AuditLog |-> d.AuditLog[l]]
  /\ \A e \in Entities : \A i \in DOMAIN d[e] : RowOK(e, d[e][i])

(* Every log has an agent, so that none can be taken over.                 *)
DBOK(d) == RowsOK(d) /\ \A l \in DOMAIN d.AuditLog : d.AuditLog[l].col.agent \in DOMAIN d.Agent

(* What an update may write without a check has its type.                  *)
MutationFields == {"id", "set", "add", "clear", "link", "unlink", "unlinkAll", "done"}

MutationOK(e, m) ==
  /\ DOMAIN m = MutationFields
  /\ \A f \in DOMAIN m.set \cap (Settable[e] \ UpdateCheck[e]) : m.set[f] \in EntFields[e][f]
  /\ DOMAIN m.add \subseteq DOMAIN Numbers[e]
  /\ m.clear \subseteq Clears[e] \cup {"agent"}

(* The mutation remembers of field f what the calls said.  A Set leaves an *)
(* earlier Clear standing, which the database then refuses.                *)
Heard(e, m, said, f) ==
  LET last == LastBase(said, f) IN
  /\ IF last # 0 /\ said[last].do = "set"
     THEN f \in DOMAIN m.set /\ m.set[f] = said[last].v ELSE f \notin DOMAIN m.set
  /\ last # 0 /\ said[last].do = "clear" => f \in m.clear
  /\ last = 0 \/ said[last].do \notin {"set", "clear"} => f \notin m.clear
  /\ Added(said, f) \in Nat
  /\ IF Adds(said, f) = {} THEN f \notin DOMAIN m.add /\ Added(said, f) = 0
     ELSE f \in DOMAIN m.add /\ m.add[f] = Wrap(Numbers[e][f], Added(said, f))

CreationOK ==
  /\ DOMAIN stmt.ms = (IF stmt.op = "bulk" THEN {1, 2} ELSE {1})
  /\ \A i \in DOMAIN stmt.ms :
       /\ DOMAIN stmt.ms[i] = MutationFields
       /\ IF stmt.saves = 0 THEN stmt.ms[i].id = Null ELSE stmt.ms[i].id \in Nat

HeardAll(e, m, said) ==
  /\ MutationOK(e, m)
  /\ said \in Seq({said[i] : i \in DOMAIN said})
  /\ \A f \in Settable[e] : Heard(e, m, said, f)

UpdateOK == DOMAIN stmt.ms = {1} /\ HeardAll(stmt.e, stmt.ms[1], stmt.said)

BuilderOK ==
  /\ stmt.op \in {"create", "bulk"} => CreationOK
  /\ stmt.op \in {"update", "updateOne"} => UpdateOK

SavedInv ==
  /\ DBOK(entDB) /\ (entTx.st # "none" => DBOK(entTx.db))
  /\ stmt.st # "none" => BuilderOK
  /\ StoredAsSaid /\ AuditTrailStays
=============================================================================
