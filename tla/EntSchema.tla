----------------------------- MODULE EntSchema -----------------------------
(***************************************************************************)
(* The persistence layer's four entities as ent generated them from        *)
(* src/ent/schema: which fields a builder may set, add to or clear, which  *)
(* of them Save fills in, checks and writes, and what a sequence of calls  *)
(* leaves in a mutation.  A text is empty, one of two that pass every      *)
(* length check, or longer than any column; a time is the clock's value.   *)
(***************************************************************************)
EXTENDS Integers, Sequences, FiniteSets, Functions, TLC

CONSTANT Null            \* SQL's NULL and Go's nil

\* An id is never NULL.
ASSUME NullAssumption == Null \notin Nat

Texts == {"", "a", "b", "long"}
NotEmptyText == {"a", "b"}
ShortText == Texts \ {"long"}

Entities == {"Agent", "AuditLog", "OutboxEvent", "User"}

-----------------------------------------------------------------------------
(* Validators: the values each field accepts.                              *)

AgentFields ==
  [owner_did |-> NotEmptyText, level |-> 0..7, permission |-> Nat, status |-> 0..3,
   created_at |-> Nat, updated_at |-> Nat]

AuditLogFields ==
  [action |-> NotEmptyText, reason |-> ShortText, operator_did |-> NotEmptyText,
   occurred_at |-> Nat]

OutboxEventFields ==
  [aggregate_type |-> NotEmptyText, aggregate_id |-> NotEmptyText,
   event_type |-> NotEmptyText, payload |-> Texts, occurred_at |-> Nat,
   idempotency_key |-> NotEmptyText, status |-> 0..3, retry_count |-> Int,
   last_error |-> ShortText, next_retry_at |-> Nat]

UserFields ==
  [email |-> NotEmptyText, role_did |-> NotEmptyText, created_at |-> Nat,
   updated_at |-> Nat]

EntFields ==
  [Agent |-> AgentFields, AuditLog |-> AuditLogFields,
   OutboxEvent |-> OutboxEventFields, User |-> UserFields]

(* Columns with a UNIQUE constraint, the columns that may be NULL, and what *)
(* the database does with an agent's logs when the agent is deleted.       *)
Unique == [Agent |-> {}, AuditLog |-> {}, OutboxEvent |-> {"idempotency_key"}, User |-> {"email"}]
Nullable == [Agent |-> {}, AuditLog |-> {"reason"}, OutboxEvent |-> {"last_error"}, User |-> {}]
OnDelete == "NO ACTION"

-----------------------------------------------------------------------------
(* What the mutations offer, by the kind of the field: a number is set or  *)
(* added to through a delta of its own width, a nillable field is cleared. *)

AgentNumbers == [level |-> 8, permission |-> 64, status |-> 8]
AgentTexts == {"owner_did"}
AgentTimes == {"created_at", "updated_at"}

AuditLogTexts == {"action", "reason", "operator_did"}
AuditLogTimes == {"occurred_at"}
AuditLogClears == {"reason"}

OutboxNumbers == [status |-> 8, retry_count |-> 64]
OutboxTexts == {"aggregate_type", "aggregate_id", "event_type"}
OutboxPayload == {"payload"}
OutboxOccurred == {"occurred_at"}
OutboxKey == {"idempotency_key"}
OutboxClears == {"last_error"}
OutboxNextRetry == {"next_retry_at"}

UserTexts == {"email", "role_did"}
UserTimes == {"created_at", "updated_at"}

Numbers ==
  [Agent |-> AgentNumbers, AuditLog |-> <<>>, OutboxEvent |-> OutboxNumbers, User |-> <<>>]
Clears == [Agent |-> {}, AuditLog |-> AuditLogClears, OutboxEvent |-> OutboxClears, User |-> {}]

(* SetField knows every field, the immutable ones included: only the       *)
(* builders leave those out.                                               *)
AgentSetField == AgentTexts \cup DOMAIN AgentNumbers \cup AgentTimes
AuditLogSetField == AuditLogTexts \cup AuditLogTimes
OutboxSetField ==
  OutboxTexts \cup OutboxPayload \cup OutboxOccurred \cup OutboxKey
    \cup DOMAIN OutboxNumbers \cup OutboxClears \cup OutboxNextRetry
UserSetField == UserTexts \cup UserTimes
Settable ==
  [Agent |-> AgentSetField, AuditLog |-> AuditLogSetField,
   OutboxEvent |-> OutboxSetField, User |-> UserSetField]

-----------------------------------------------------------------------------
(* Create: what Save fills in when nothing was set, what check requires.   *)

AgentDefaults(now) ==
  [level |-> 0, permission |-> 0, status |-> 0, created_at |-> now, updated_at |-> now]
AuditLogDefaults(now) == [occurred_at |-> now]
OutboxDefaults(now) ==
  [occurred_at |-> now, status |-> 0, retry_count |-> 0, next_retry_at |-> now]
UserDefaults(now) == [created_at |-> now, updated_at |-> now]

CreateDefaults(e, now) ==
  CASE e = "Agent" -> AgentDefaults(now)
    [] e = "AuditLog" -> AuditLogDefaults(now)
    [] e = "OutboxEvent" -> OutboxDefaults(now)
    [] OTHER -> UserDefaults(now)

AgentRequired == AgentSetField
AuditLogRequired == {"action", "operator_did", "occurred_at", "agent"}
OutboxRequired == OutboxSetField \ {"last_error"}
UserRequired == UserSetField
Required ==
  [Agent |-> AgentRequired, AuditLog |-> AuditLogRequired,
   OutboxEvent |-> OutboxRequired, User |-> UserRequired]

(* createSpec: the columns an INSERT takes from the mutation.              *)
AgentCreateSpec == AgentSetField
AuditLogCreateSpec == AuditLogSetField \cup {"agent"}
OutboxCreateSpec == OutboxSetField
UserCreateSpec == UserSetField
CreateSpec ==
  [Agent |-> AgentCreateSpec, AuditLog |-> AuditLogCreateSpec,
   OutboxEvent |-> OutboxCreateSpec, User |-> UserCreateSpec]

-----------------------------------------------------------------------------
(* Update: defaults refreshes updated_at, check runs the validators of the *)
(* values set, and sqlSave writes the mutable columns of the mutation.     *)

AgentUpdateDefaults(now) == [updated_at |-> now]
UserUpdateDefaults(now) == [updated_at |-> now]
UpdateDefaults(e, now) ==
  CASE e = "Agent" -> AgentUpdateDefaults(now)
    [] e = "User" -> UserUpdateDefaults(now)
    [] OTHER -> <<>>

AgentUpdateCheck == {"owner_did", "level", "status"}
AuditLogUpdateCheck == {"action", "reason", "operator_did"}
OutboxUpdateCheck ==
  {"aggregate_type", "aggregate_id", "event_type", "idempotency_key", "status", "last_error"}
UserUpdateCheck == {"email", "role_did"}
UpdateCheck ==
  [Agent |-> AgentUpdateCheck, AuditLog |-> AuditLogUpdateCheck,
   OutboxEvent |-> OutboxUpdateCheck, User |-> UserUpdateCheck]

AgentUpdateSpec == AgentSetField \ {"created_at"}
AuditLogUpdateSpec == AuditLogTexts \cup {"agent"}
OutboxUpdateSpec == OutboxSetField \ {"occurred_at"}
UserUpdateSpec == UserSetField \ {"created_at"}
UpdateSpec ==
  [Agent |-> AgentUpdateSpec, AuditLog |-> AuditLogUpdateSpec,
   OutboxEvent |-> OutboxUpdateSpec, User |-> UserUpdateSpec]

(* UpdateOne writes the same columns of the one row it is bound to.        *)
AgentUpdateOneSpec == AgentSetField \ {"created_at"}
AuditLogUpdateOneSpec == AuditLogTexts \cup {"agent"}
OutboxUpdateOneSpec == OutboxSetField \ {"occurred_at"}
UserUpdateOneSpec == UserSetField \ {"created_at"}
UpdateOneSpec ==
  [Agent |-> AgentUpdateOneSpec, AuditLog |-> AuditLogUpdateOneSpec,
   OutboxEvent |-> OutboxUpdateOneSpec, User |-> UserUpdateOneSpec]

-----------------------------------------------------------------------------
(* The calls on a builder.  The agents' side of the edge is a set of log   *)
(* ids, the logs' side one agent id.                                       *)

CallsOn(do, fs, Values(_)) == UNION {{[do |-> do, f |-> f, v |-> v] : v \in Values(f)} : f \in fs}

Samples(e, f) ==
  CASE f \in {"created_at", "updated_at", "occurred_at", "next_retry_at"} -> {5}
    [] f \in DOMAIN Numbers[e] -> IF f = "permission" THEN {1} ELSE {1, 9}
    [] f = "payload" -> {"b"}
    [] OTHER -> {"b", "long"}

SetCalls(e, fs) == LET V(f) == Samples(e, f) IN CallsOn("set", fs, V)
AddCalls(e, fs) == LET V(f) == {1, 100} IN CallsOn("add", fs, V)
ClearCalls(fs) == LET V(f) == {Null} IN CallsOn("clear", fs, V)
ResetCalls(fs) == LET V(f) == {Null} IN CallsOn("reset", fs, V)
Edge(do, ids) == {[do |-> do, f |-> "agent", v |-> i] : i \in ids}

CONSTANTS AgentIDs, LogIDs      \* ids a caller may put on the edge

AgentCreateCalls == SetCalls("Agent", AgentSetField) \cup Edge("link", LogIDs)
AuditLogCreateCalls == SetCalls("AuditLog", AuditLogSetField) \cup Edge("set", AgentIDs)
OutboxCreateCalls == SetCalls("OutboxEvent", OutboxSetField)
UserCreateCalls == SetCalls("User", UserSetField)

AgentUpdateCalls ==
  SetCalls("Agent", AgentSetField \ {"created_at"})
    \cup AddCalls("Agent", DOMAIN AgentNumbers)
    \cup Edge("link", LogIDs) \cup Edge("unlink", LogIDs) \cup Edge("unlinkAll", {Null})
AuditLogUpdateCalls ==
  SetCalls("AuditLog", AuditLogTexts) \cup ClearCalls({"reason"})
    \cup Edge("set", AgentIDs) \cup Edge("clear", {Null})
OutboxUpdateCalls ==
  SetCalls("OutboxEvent", OutboxSetField \ {"occurred_at"})
    \cup AddCalls("OutboxEvent", DOMAIN OutboxNumbers) \cup ClearCalls({"last_error"})
UserUpdateCalls == SetCalls("User", UserSetField \ {"created_at"})

AgentUpdateOneCalls == AgentUpdateCalls
AuditLogUpdateOneCalls == AuditLogUpdateCalls
OutboxUpdateOneCalls == OutboxUpdateCalls
UserUpdateOneCalls == UserUpdateCalls

BuilderCalls(op, e) ==
  CASE op \in {"create", "bulk"} ->
         [Agent |-> AgentCreateCalls, AuditLog |-> AuditLogCreateCalls,
          OutboxEvent |-> OutboxCreateCalls, User |-> UserCreateCalls][e]
    [] op = "update" ->
         [Agent |-> AgentUpdateCalls, AuditLog |-> AuditLogUpdateCalls,
          OutboxEvent |-> OutboxUpdateCalls, User |-> UserUpdateCalls][e]
    [] op = "updateOne" ->
         [Agent |-> AgentUpdateOneCalls, AuditLog |-> AuditLogUpdateOneCalls,
          OutboxEvent |-> OutboxUpdateOneCalls, User |-> UserUpdateOneCalls][e]
    [] OTHER -> {}

(* A hook works on the mutation itself, and so may do more than a builder. *)
HookCalls(e) ==
  SetCalls(e, Settable[e]) \cup AddCalls(e, DOMAIN Numbers[e]) \cup ClearCalls(Clears[e])
    \cup ResetCalls(Settable[e])

-----------------------------------------------------------------------------
(* A mutation and what the calls do to it.                                 *)

Without(f, x) == Restrict(f, DOMAIN f \ {x})
Over(f, g) == [x \in DOMAIN f \cup DOMAIN g |-> IF x \in DOMAIN f THEN f[x] ELSE g[x]]
Put(f, k, v) == Over([x \in {k} |-> v], f)

Wrap(bits, n) == IF bits = 8 THEN ((n + 128) % 256) - 128 ELSE n

NewMutation(id) ==
  [id |-> id, set |-> <<>>, add |-> <<>>, clear |-> {}, link |-> {}, unlink |-> {},
   unlinkAll |-> FALSE, done |-> FALSE]

SetField(e, m, f, v) == [m EXCEPT !.set = Put(@, f, v), !.add = Without(@, f)]

AddField_Replaces(e, m, f, v) == [m EXCEPT !.add = Put(@, f, v)]

AddField(e, m, f, v) ==
  [m EXCEPT !.add = Put(@, f, IF f \in DOMAIN @ THEN Wrap(Numbers[e][f], @[f] + v) ELSE v)]

(* Clearing a field drops the value set; clearing the logs' agent does not. *)
ClearField(m, f) ==
  [m EXCEPT !.set = IF f = "agent" THEN @ ELSE Without(@, f), !.clear = @ \cup {f}]

ResetField(m, f) ==
  [m EXCEPT !.set = Without(@, f), !.add = Without(@, f), !.clear = @ \ {f}]

(* The agents' edge: AddAuditLogIDs, RemoveAuditLogIDs and ClearAuditLogs. *)
EdgeCall(m, c) ==
  CASE c.do = "link" -> [m EXCEPT !.link = @ \cup {c.v}]
    [] c.do = "unlink" -> [m EXCEPT !.link = @ \ {c.v}, !.unlink = @ \cup {c.v}]
    [] OTHER -> [m EXCEPT !.unlinkAll = TRUE]

Apply(e, m, c) ==
  CASE c.do = "set" -> SetField(e, m, c.f, c.v)
    [] c.do = "add" -> AddField(e, m, c.f, c.v)
    [] c.do = "clear" -> ClearField(m, c.f)
    [] c.do = "reset" -> ResetField(m, c.f)
    [] OTHER -> EdgeCall(m, c)

(* defaults(): whatever the mutation does not set yet.                     *)
WithDefaults(m, d) == [m EXCEPT !.set = Over(@, d)]
=============================================================================
