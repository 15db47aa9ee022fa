----------------------------- MODULE EntQuery ------------------------------
(***************************************************************************)
(* The generated query builders (src/ent/agent_query.go; the other three   *)
(* are the same code over another table).  A builder is a mutable object:  *)
(* First, Only and Exist leave their limit in it, IDs its projection, and  *)
(* eager loading adds the ids it found to the edge query's predicates.     *)
(* Eager loading is a second statement, and other sessions write between   *)
(* the two.                                                                *)
(***************************************************************************)
EXTENDS Integers, Sequences, FiniteSets, FiniteSetsExt, Functions

CONSTANTS QueryAgents,     \* ids of agents
          QueryLogs,       \* ids of audit logs
          QueryMaxRuns,    \* terminal calls on the builders
          QueryMaxWrites   \* writes of other sessions

\* A table has finitely many rows.
ASSUME QueryAssumption == IsFiniteSet(QueryAgents)

VARIABLES tables,     \* [agents: set of ids, logs: [log -> agent]]
          queries,    \* the query contexts that exist
          refers,     \* which context the builder "q" and its clone "c" hold
          reused,     \* builders that ran First, Only, IDs or Exist, or an eager All
          query,      \* the terminal call in progress
          queryCount

queryVars == <<tables, queries, refers, reused, query, queryCount>>

NoLimit == 0
NoRun == [st |-> "none"]
Names == {"q", "c"}
QueryKinds == {"all", "first", "only", "ids", "exist"}

NewContext(eager) == [limit |-> NoLimit, idOnly |-> FALSE, eager |-> eager, restricted |-> {}]

QueryInit ==
  /\ \E logs \in {[l \in {} |-> {}]} \cup [QueryLogs -> QueryAgents] :
       tables = [agents |-> {logs[l] : l \in DOMAIN logs}, logs |-> logs]
  /\ \E eager \in BOOLEAN : queries = <<NewContext(eager)>>
  /\ refers = [q |-> 1, c |-> 0]
  /\ reused = {} /\ query = NoRun
  /\ queryCount = [runs |-> 0, writes |-> 0]

(* Clone copies the context, the predicates and the edge query.            *)
Clone_SharesContext ==
  /\ refers.c = 0 /\ query.st # "edges"
  /\ refers' = [refers EXCEPT !.c = refers.q]
  /\ UNCHANGED <<tables, queries, reused, query, queryCount>>

Clone ==
  /\ refers.c = 0 /\ query.st # "edges"
  /\ queries' = queries \o <<queries[refers.q]>>
  /\ refers' = [refers EXCEPT !.c = Len(queries) + 1]
  /\ reused' = IF "q" \in reused THEN reused \cup {"c"} ELSE reused
  /\ UNCHANGED <<tables, query, queryCount>>

-----------------------------------------------------------------------------
(* Running a query.  An answer without an order is any rows that fit.      *)

Matching(limit) ==
  {S \in SUBSET tables.agents :
     Cardinality(S) = IF limit = NoLimit THEN Cardinality(tables.agents)
                      ELSE Min({limit, Cardinality(tables.agents)})}

Limit(kind, limit) ==
  CASE kind \in {"first", "exist"} -> 1
    [] kind = "only" -> 2
    [] OTHER -> limit

(* First, Only and All read entities, IDs and Exist select the id column.  *)
Run(n, kind) ==
  LET h == refers[n]
      q == [queries[h] EXCEPT !.limit = Limit(kind, @),
                              !.idOnly = @ \/ kind \in {"ids", "exist"}]
  IN  /\ h # 0 /\ query.st # "edges"
      /\ queryCount.runs < QueryMaxRuns
      /\ queryCount' = [queryCount EXCEPT !.runs = @ + 1]
      /\ queries' = [queries EXCEPT ![h] = q]
      /\ reused' = IF kind = "all" /\ ~q.eager THEN reused ELSE reused \cup {n}
      /\ \E S \in Matching(q.limit) :
           query' = [st |-> IF q.eager /\ kind \notin {"ids", "exist"} /\ S # {}
                              THEN "edges" ELSE "answered",
                       n |-> n, kind |-> kind, fresh |-> n \notin reused,
                       whole |-> ~q.idOnly, rows |-> S, found |-> tables.agents,
                       logs |-> {}, edges |-> [a \in S |-> {}]]
      /\ UNCHANGED <<tables, refers>>

(* loadAuditLogs: the logs of the agents found, by one more statement.     *)
AssignLogs(nodes, logs) == [a \in nodes |-> {l \in logs : tables.logs[l] = a}]

loadAuditLogs ==
  LET h == refers[query.n]
      q == [queries[h] EXCEPT !.restricted = @ \cup {query.rows}]
      logs == {l \in DOMAIN tables.logs : \A S \in q.restricted : tables.logs[l] \in S}
  IN  /\ query.st = "edges"
      /\ queries' = [queries EXCEPT ![h] = q]
      /\ query' = [query EXCEPT
                       !.st = "answered",
                       !.logs = {l \in DOMAIN tables.logs : tables.logs[l] \in query.rows},
                       !.edges = AssignLogs(query.rows, logs)]
      /\ UNCHANGED <<tables, refers, reused, queryCount>>

-----------------------------------------------------------------------------
(* Other sessions.                                                         *)

Write ==
  /\ queryCount.writes < QueryMaxWrites
  /\ queryCount' = [queryCount EXCEPT !.writes = @ + 1]
  /\ \/ \E a \in QueryAgents \ tables.agents : tables' = [tables EXCEPT !.agents = @ \cup {a}]
     \/ \E a \in tables.agents :
          /\ \A l \in DOMAIN tables.logs : tables.logs[l] # a
          /\ tables' = [tables EXCEPT !.agents = @ \ {a}]
     \/ \E l \in QueryLogs, a \in tables.agents :
          tables' = [tables EXCEPT !.logs = [k \in DOMAIN @ \cup {l} |->
                                               IF k = l THEN a ELSE @[k]]]
     \/ \E l \in DOMAIN tables.logs :
          tables' = [tables EXCEPT !.logs = [k \in DOMAIN @ \ {l} |-> @[k]]]
  /\ UNCHANGED <<queries, refers, reused, query>>

QueryNext ==
  \/ Clone \/ loadAuditLogs \/ Write
  \/ \E n \in Names, kind \in QueryKinds : Run(n, kind)

QuerySpec == QueryInit /\ [][QueryNext]_queryVars

-----------------------------------------------------------------------------
(* Properties.                                                             *)

(* All on a builder that nothing else was run on, though perhaps on its    *)
(* clone, returns every agent, whole, each with all of its logs.           *)
FreshAnswerIsWhole ==
  (query.st = "answered" /\ query.kind = "all" /\ query.fresh) =>
    /\ query.rows = query.found /\ query.whole
    /\ queries[refers[query.n]].eager => UNION Range(query.edges) = query.logs

(* Only returns an agent just when there was exactly one, and the logs it  *)
(* carries, like everybody's, are the agent's own and nobody else's.       *)
OnlyIsTheOnlyOne ==
  query.st = "answered" =>
    /\ (query.kind = "only" /\ Cardinality(query.rows) = 1) => Cardinality(query.found) = 1
    /\ \A a, b \in query.rows : a # b => query.edges[a] \cap query.edges[b] = {}

(* What a query builder answers is what the tables held: all of it for a   *)
(* builder used afresh, and for Only the one agent there was.              *)
AnswersAreWhole == FreshAnswerIsWhole /\ OnlyIsTheOnlyOne

-----------------------------------------------------------------------------
(* The inductive invariant. *)

QueryContext ==
  [limit : Nat, idOnly : BOOLEAN, eager : BOOLEAN, restricted : SUBSET SUBSET QueryAgents]
QueryAnswer ==
  [st : {"edges", "answered"}, n : Names, kind : QueryKinds, fresh : BOOLEAN, whole : BOOLEAN,
   rows : SUBSET QueryAgents, found : SUBSET QueryAgents, logs : SUBSET QueryLogs,
   edges : UNION {[S -> SUBSET QueryLogs] : S \in SUBSET QueryAgents}]

QueryTypeOK ==
  /\ tables \in [agents : SUBSET QueryAgents,
                 logs : UNION {[D -> QueryAgents] : D \in SUBSET QueryLogs}]
  /\ queries \in Seq(QueryContext)
  /\ refers \in [q : Nat, c : Nat]
  /\ query \in QueryAnswer \cup {NoRun}

(* A clone has a context of its own.                                       *)
OwnContext ==
  /\ refers.q \in 1..Len(queries)
  /\ refers.c # 0 => refers.c \in 1..Len(queries) /\ refers.c # refers.q

(* A builder nothing was run on has the context it was made with.          *)
Untouched ==
  \A n \in Names : refers[n] # 0 /\ n \notin reused =>
    /\ queries[refers[n]].limit = NoLimit
    /\ ~queries[refers[n]].idOnly /\ queries[refers[n]].restricted = {}

(* What the first statement of a call found.                               *)
RowsFound(q) ==
  /\ refers[q.n] # 0
  /\ q.kind = "all" /\ q.fresh => q.rows = q.found /\ q.whole
  /\ q.kind = "only" /\ Cardinality(q.rows) = 1 => Cardinality(q.found) = 1
  /\ q.st = "edges" => q.n \in reused
  /\ q.st = "edges" /\ q.fresh => queries[refers[q.n]].restricted = {}

(* What the second one added.                                              *)
EdgesLoaded(q) ==
  q.st = "answered" =>
    /\ q.kind = "all" /\ q.fresh /\ queries[refers[q.n]].eager => UNION Range(q.edges) = q.logs
    /\ \A a, b \in q.rows : a # b => q.edges[a] \cap q.edges[b] = {}

QueryInv ==
  /\ QueryTypeOK /\ OwnContext /\ Untouched
  /\ query # NoRun => RowsFound(query) /\ EdgesLoaded(query)
=============================================================================
