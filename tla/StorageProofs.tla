--------------------------- MODULE StorageProofs ----------------------------
(***************************************************************************)
(* Proofs about the generated ent code (the query builders, the saves and   *)
(* transactions of the mutations) and about the slow query monitor.         *)
(***************************************************************************)
EXTENDS EntQuery, EntStore, SlowQuery, FiniteSetTheorems, WellFoundedInduction, TLAPS

-----------------------------------------------------------------------------
(* EntQuery. *)

LEMMA RefersShape ==
  ASSUME QueryTypeOK
  PROVE  refers["q"] = refers.q /\ refers["c"] = refers.c /\ \A n \in Names : refers[n] \in Nat
BY DEF QueryTypeOK, Names

\* The context a builder holds.
LEMMA ContextShape ==
  ASSUME QueryTypeOK, OwnContext, NEW n \in Names, refers[n] # 0
  PROVE  /\ refers[n] \in 1..Len(queries) /\ queries[refers[n]] \in QueryContext
         /\ \A m \in Names : m # n => refers[m] # refers[n]
<1>1. /\ refers[n] \in 1..Len(queries) /\ \A m \in Names : m # n => refers[m] # refers[n]
  BY RefersShape DEF OwnContext, Names
<1>2. queries[refers[n]] \in QueryContext
  <2>1. queries \in Seq(QueryContext)
    BY DEF QueryTypeOK
  <2> QED BY <1>1, <2>1
<1> QED BY <1>1, <1>2

\* The lesser of 2 and n is 1 only if n is.
LEMMA MinOfTwo ==
  ASSUME NEW n \in Nat, Min({2, n}) = 1
  PROVE  n = 1
<1>1. \E x \in {2, n} : \A y \in {2, n} : x <= y
  OBVIOUS
<1>2. Min({2, n}) \in {2, n}
  BY <1>1 DEF Min
<1> QED BY <1>2

\* The rows a statement may answer with.
LEMMA MatchingFacts ==
  ASSUME QueryTypeOK, NEW limit \in Nat, NEW S \in Matching(limit)
  PROVE  /\ S \subseteq tables.agents /\ tables.agents \subseteq QueryAgents
         /\ limit = NoLimit => S = tables.agents
         /\ limit = 2 /\ Cardinality(S) = 1 => Cardinality(tables.agents) = 1
<1>1. tables.agents \subseteq QueryAgents /\ S \in SUBSET tables.agents
  BY DEF QueryTypeOK, Matching
<1>2. IsFiniteSet(tables.agents) /\ Cardinality(tables.agents) \in Nat
  BY <1>1, QueryAssumption, FS_Subset, FS_CardinalityType
<1>3. limit = NoLimit => S = tables.agents
  <2>1. limit = NoLimit => Cardinality(S) = Cardinality(tables.agents)
    BY DEF Matching
  <2> QED BY <1>1, <1>2, <2>1, FS_Subset
<1>4. limit = 2 /\ Cardinality(S) = 1 => Cardinality(tables.agents) = 1
  <2>1. limit = 2 => Cardinality(S) = Min({2, Cardinality(tables.agents)})
    BY DEF Matching, NoLimit
  <2> QED BY <1>2, <2>1, MinOfTwo
<1> QED BY <1>1, <1>3, <1>4

\* A clone gets a context of its own.
LEMMA CloneStep ==
  ASSUME QueryInv, Clone
  PROVE  QueryInv'
<1>0. QueryTypeOK /\ OwnContext /\ Untouched
  BY DEF QueryInv
<1>1. PICK len \in Nat, h \in Nat, x \in QueryContext :
        /\ len = Len(queries) /\ h = refers.q /\ x = queries[h] /\ h \in 1..len
  <2>1. "q" \in Names /\ refers["q"] = refers.q /\ refers["q"] # 0
    BY <1>0, RefersShape DEF Names, OwnContext
  <2>2. refers.q \in 1..Len(queries) /\ queries[refers.q] \in QueryContext
    BY <1>0, <2>1, ContextShape
  <2>3. Len(queries) \in Nat
    BY <1>0 DEF QueryTypeOK
  <2> QED BY <2>2, <2>3
<1>2. /\ queries' = queries \o <<x>> /\ Len(queries') = len + 1 /\ queries' \in Seq(QueryContext)
      /\ queries'[len + 1] = x /\ \A k \in 1..len : queries'[k] = queries[k]
  <2>1. queries \in Seq(QueryContext) /\ queries' = queries \o <<x>>
    BY <1>0, <1>1 DEF QueryTypeOK, Clone
  <2> QED BY <1>1, <2>1
<1>3. /\ refers.c = 0 /\ refers' = [refers EXCEPT !.c = len + 1] /\ query' = query /\ tables' = tables
      /\ reused' = (IF "q" \in reused THEN reused \cup {"c"} ELSE reused)
      /\ query.st # "edges"
  BY <1>1 DEF Clone
<1>4. /\ refers'.q = h /\ refers'.c = len + 1 /\ refers' \in [q : Nat, c : Nat]
      /\ refers'["q"] = h /\ refers'["c"] = len + 1
  BY <1>0, <1>1, <1>3 DEF QueryTypeOK
<1>5. QueryTypeOK'
  BY <1>0, <1>2, <1>3, <1>4 DEF QueryTypeOK
<1>6. OwnContext'
  <2>1. h \in 1..(len + 1) /\ len + 1 \in 1..(len + 1) /\ len + 1 # h
    BY <1>1
  <2> QED BY <1>2, <1>4, <2>1 DEF OwnContext
<1>7. Untouched'
  <2> SUFFICES ASSUME NEW n \in Names, refers'[n] # 0, n \notin reused'
               PROVE  /\ queries'[refers'[n]].limit = NoLimit
                      /\ ~queries'[refers'[n]].idOnly /\ queries'[refers'[n]].restricted = {}
    BY DEF Untouched
  <2>1. queries'[refers'[n]] = x
    BY <1>1, <1>2, <1>4 DEF Names
  <2>2. "q" \notin reused
    BY <1>3 DEF Names
  <2>3. refers["q"] = h /\ h # 0
    BY <1>0, <1>1, RefersShape
  <2> QED BY <1>0, <1>1, <2>1, <2>2, <2>3 DEF Untouched, Names
<1>8. ASSUME query' # NoRun PROVE RowsFound(query)' /\ EdgesLoaded(query)'
  <2>1. query \in QueryAnswer /\ RowsFound(query) /\ EdgesLoaded(query)
    BY <1>0, <1>3, <1>8 DEF QueryInv, QueryTypeOK
  <2>2. query.n = "q" /\ refers[query.n] = h
    BY <1>0, <1>1, <1>3, <2>1, RefersShape DEF RowsFound, QueryAnswer, Names
  <2>3. refers'[query.n] = h /\ queries'[h] = queries[h] /\ h # 0
    BY <1>1, <1>2, <1>4, <2>2
  <2> QED BY <1>3, <2>1, <2>2, <2>3 DEF RowsFound, EdgesLoaded
<1> QED BY <1>5, <1>6, <1>7, <1>8 DEF QueryInv

\* Another session writes.
LEMMA QueryWriteStep ==
  ASSUME QueryInv, Write
  PROVE  QueryInv'
<1>0. QueryTypeOK
  BY DEF QueryInv
<1>1. UNCHANGED <<queries, refers, reused, query>>
  BY DEF Write
<1> DEFINE LogTables == UNION {[D -> QueryAgents] : D \in SUBSET QueryLogs}
<1>2. tables \in [agents : SUBSET QueryAgents, logs : LogTables]
  BY <1>0 DEF QueryTypeOK
<1>3. tables' \in [agents : SUBSET QueryAgents, logs : LogTables]
  <2>1. CASE \E a \in QueryAgents \ tables.agents : tables' = [tables EXCEPT !.agents = @ \cup {a}]
    <3> HIDE DEF LogTables
    <3> QED BY <1>2, <2>1
  <2>2. CASE \E a \in tables.agents : tables' = [tables EXCEPT !.agents = @ \ {a}]
    <3> HIDE DEF LogTables
    <3> QED BY <1>2, <2>2
  <2>3. ASSUME NEW l \in QueryLogs, NEW a \in tables.agents,
               tables' = [tables EXCEPT !.logs = [k \in DOMAIN @ \cup {l} |->
                                                    IF k = l THEN a ELSE @[k]]]
        PROVE  tables' \in [agents : SUBSET QueryAgents, logs : LogTables]
    <3>1. PICK D \in SUBSET QueryLogs : tables.logs \in [D -> QueryAgents]
      BY <1>2
    <3>2. PICK f : f = [k \in D \cup {l} |-> IF k = l THEN a ELSE tables.logs[k]]
      OBVIOUS
    <3>3. f \in [D \cup {l} -> QueryAgents] /\ D \cup {l} \in SUBSET QueryLogs
      BY <1>2, <3>1, <3>2
    <3>4. f \in LogTables
      BY <3>3
    <3>5. tables' = [tables EXCEPT !.logs = f]
      BY <2>3, <3>1, <3>2
    <3> HIDE DEF LogTables
    <3> QED BY <1>2, <3>4, <3>5
  <2>4. ASSUME NEW l \in DOMAIN tables.logs,
               tables' = [tables EXCEPT !.logs = [k \in DOMAIN @ \ {l} |-> @[k]]]
        PROVE  tables' \in [agents : SUBSET QueryAgents, logs : LogTables]
    <3>1. PICK D \in SUBSET QueryLogs : tables.logs \in [D -> QueryAgents]
      BY <1>2
    <3>2. PICK f : f = [k \in D \ {l} |-> tables.logs[k]]
      OBVIOUS
    <3>3. f \in [D \ {l} -> QueryAgents] /\ D \ {l} \in SUBSET QueryLogs
      BY <3>1, <3>2
    <3>4. f \in LogTables
      BY <3>3
    <3>5. tables' = [tables EXCEPT !.logs = f]
      BY <2>4, <3>1, <3>2
    <3> HIDE DEF LogTables
    <3> QED BY <1>2, <3>4, <3>5
  <2> QED BY <2>1, <2>2, <2>3, <2>4 DEF Write
<1>4. QueryTypeOK'
  BY <1>0, <1>1, <1>3 DEF QueryTypeOK
<1>5. /\ OwnContext' /\ Untouched'
      /\ query' # NoRun => RowsFound(query)' /\ EdgesLoaded(query)'
  BY <1>1 DEF QueryInv, OwnContext, Untouched, RowsFound, EdgesLoaded
<1> QED BY <1>4, <1>5 DEF QueryInv

\* A call changes the context of the builder it is made on, and of no other.
LEMMA ContextWrite ==
  ASSUME QueryTypeOK, OwnContext, NEW n \in Names, refers[n] # 0, refers' = refers,
         NEW x \in QueryContext, queries' = [queries EXCEPT ![refers[n]] = x]
  PROVE  /\ queries' \in Seq(QueryContext) /\ OwnContext'
         /\ queries'[refers'[n]] = x
         /\ \A m \in Names : m # n /\ refers[m] # 0 => queries'[refers'[m]] = queries[refers[m]]
<1>1. queries \in Seq(QueryContext) /\ refers[n] \in 1..Len(queries)
  BY ContextShape DEF QueryTypeOK
<1>2. /\ queries' \in Seq(QueryContext) /\ Len(queries') = Len(queries)
      /\ queries'[refers[n]] = x
      /\ \A k \in 1..Len(queries) : k # refers[n] => queries'[k] = queries[k]
  BY <1>1
<1>3. OwnContext'
  BY <1>2 DEF OwnContext
<1>4. ASSUME NEW m \in Names, m # n, refers[m] # 0
      PROVE  queries'[refers'[m]] = queries[refers[m]]
  <2>1. refers[m] \in 1..Len(queries) /\ refers[m] # refers[n]
    BY <1>4, ContextShape
  <2> QED BY <1>2, <2>1
<1> QED BY <1>2, <1>3, <1>4

\* A terminal call reads the rows.
LEMMA RunStep ==
  ASSUME QueryInv, NEW n \in Names, NEW kind \in QueryKinds, Run(n, kind)
  PROVE  QueryInv'
<1>0. QueryTypeOK /\ OwnContext /\ Untouched /\ refers[n] # 0
  BY DEF QueryInv, Run
<1>1. PICK x \in QueryContext : x = queries[refers[n]]
  BY <1>0, ContextShape
<1>2. PICK y \in QueryContext :
        /\ y = [x EXCEPT !.limit = Limit(kind, @), !.idOnly = @ \/ kind \in {"ids", "exist"}]
        /\ y.limit = Limit(kind, x.limit) /\ (y.idOnly <=> x.idOnly \/ kind \in {"ids", "exist"})
        /\ y.eager = x.eager /\ y.restricted = x.restricted
  <2>1. Limit(kind, x.limit) \in Nat /\ (x.idOnly \/ kind \in {"ids", "exist"}) \in BOOLEAN
    BY <1>1 DEF QueryContext, Limit
  <2>2. PICK l \in Nat, b \in BOOLEAN :
          l = Limit(kind, x.limit) /\ b = (x.idOnly \/ kind \in {"ids", "exist"})
    BY <2>1
  <2>3. PICK y : y = [x EXCEPT !.limit = l, !.idOnly = b]
    OBVIOUS
  <2>4. y \in QueryContext /\ y.limit = l /\ y.idOnly = b /\ y.eager = x.eager /\ y.restricted = x.restricted
    BY <1>1, <2>3 DEF QueryContext
  <2>5. y = [x EXCEPT !.limit = Limit(kind, @), !.idOnly = @ \/ kind \in {"ids", "exist"}]
    BY <2>2, <2>3
  <2>6. y.idOnly <=> x.idOnly \/ kind \in {"ids", "exist"}
    BY <2>2, <2>4, Zenon
  <2> QED BY <2>2, <2>4, <2>5, <2>6, Zenon
<1>3. /\ refers' = refers /\ tables' = tables /\ queries' = [queries EXCEPT ![refers[n]] = y]
      /\ reused' = (IF kind = "all" /\ ~y.eager THEN reused ELSE reused \cup {n})
  BY <1>1, <1>2 DEF Run
<1>4. PICK S \in Matching(y.limit) :
        query' = [st |-> IF y.eager /\ kind \notin {"ids", "exist"} /\ S # {}
                           THEN "edges" ELSE "answered",
                    n |-> n, kind |-> kind, fresh |-> n \notin reused,
                    whole |-> ~y.idOnly, rows |-> S, found |-> tables.agents,
                    logs |-> {}, edges |-> [a \in S |-> {}]]
  BY <1>1, <1>2 DEF Run
<1>5. /\ queries' \in Seq(QueryContext) /\ OwnContext' /\ queries'[refers'[n]] = y
      /\ \A m \in Names : m # n /\ refers[m] # 0 => queries'[refers'[m]] = queries[refers[m]]
  BY <1>0, <1>2, <1>3, ContextWrite
<1>6. /\ S \subseteq tables.agents /\ tables.agents \subseteq QueryAgents
      /\ y.limit = NoLimit => S = tables.agents
      /\ y.limit = 2 /\ Cardinality(S) = 1 => Cardinality(tables.agents) = 1
  <2>1. y.limit \in Nat
    BY <1>2 DEF QueryContext
  <2> QED BY <1>0, <1>4, <2>1, MatchingFacts
<1>7. n \notin reused => x.limit = NoLimit /\ ~x.idOnly /\ x.restricted = {}
  BY <1>0, <1>1 DEF Untouched
<1>8. /\ query'.st \in {"edges", "answered"} /\ query'.n = n /\ query'.kind = kind
      /\ query'.st = "edges" => y.eager
      /\ query'.st = "answered" => ~y.eager \/ kind \in {"ids", "exist"} \/ S = {}
      /\ query'.fresh = (n \notin reused) /\ query'.whole = ~y.idOnly /\ query'.rows = S
      /\ query'.found = tables.agents /\ query'.logs = {} /\ query'.edges = [a \in S |-> {}]
  BY <1>4
<1>9. query' \in QueryAnswer
  <2>1. PICK e : e = [a \in S |-> {}]
    OBVIOUS
  <2>2. e \in [S -> SUBSET QueryLogs] /\ S \in SUBSET QueryAgents
    BY <1>6, <2>1
  <2>3. e \in UNION {[D -> SUBSET QueryLogs] : D \in SUBSET QueryAgents}
    BY <2>2
  <2>4. PICK st \in {"edges", "answered"}, f \in BOOLEAN, w \in BOOLEAN :
          query' = [st |-> st, n |-> n, kind |-> kind, fresh |-> f, whole |-> w, rows |-> S,
                    found |-> tables.agents, logs |-> {}, edges |-> e]
    BY <1>4, <2>1, Zenon
  <2> DEFINE EdgeSets == UNION {[D -> SUBSET QueryLogs] : D \in SUBSET QueryAgents}
  <2> HIDE DEF EdgeSets
  <2>5. e \in EdgeSets
    BY <2>3 DEF EdgeSets
  <2>6. query' \in [st : {"edges", "answered"}, n : Names, kind : QueryKinds, fresh : BOOLEAN,
                    whole : BOOLEAN, rows : SUBSET QueryAgents, found : SUBSET QueryAgents,
                    logs : SUBSET QueryLogs, edges : EdgeSets]
    BY <1>6, <2>2, <2>4, <2>5
  <2> QED BY <2>6 DEF EdgeSets, QueryAnswer
<1>10. QueryTypeOK'
  BY <1>0, <1>3, <1>5, <1>9 DEF QueryTypeOK
<1>11. Untouched'
  <2> SUFFICES ASSUME NEW m \in Names, refers'[m] # 0, m \notin reused'
               PROVE  /\ queries'[refers'[m]].limit = NoLimit
                      /\ ~queries'[refers'[m]].idOnly /\ queries'[refers'[m]].restricted = {}
    BY DEF Untouched
  <2>1. CASE m = n
    <3>1. kind = "all" /\ n \notin reused
      BY <1>3, <2>1
    <3>2. y.limit = NoLimit /\ ~y.idOnly /\ y.restricted = {}
      BY <1>2, <1>7, <3>1 DEF Limit
    <3> QED BY <1>5, <2>1, <3>2
  <2>2. CASE m # n
    <3>1. m \notin reused /\ refers[m] # 0
      BY <1>3
    <3> QED BY <1>0, <1>5, <2>2, <3>1 DEF Untouched
  <2> QED BY <2>1, <2>2
<1>12. RowsFound(query)'
  <2>1. refers'[query'.n] # 0
    BY <1>0, <1>3, <1>8
  <2>2. query'.kind = "all" /\ query'.fresh => query'.rows = query'.found /\ query'.whole
    BY <1>2, <1>6, <1>7, <1>8 DEF Limit
  <2>3. query'.kind = "only" /\ Cardinality(query'.rows) = 1 => Cardinality(query'.found) = 1
    <3>1. kind = "only" => y.limit = 2
      BY <1>2 DEF Limit
    <3> QED BY <1>6, <1>8, <3>1, Zenon
  <2>4. query'.st = "edges" => query'.n \in reused'
    BY <1>3, <1>8
  <2>5. query'.st = "edges" /\ query'.fresh => queries'[refers'[query'.n]].restricted = {}
    BY <1>2, <1>5, <1>7, <1>8
  <2> QED BY <2>1, <2>2, <2>3, <2>4, <2>5 DEF RowsFound
<1>13. EdgesLoaded(query)'
  <2>1. S = {} => UNION Range([a \in S |-> {}]) = {}
    BY DEF Range
  <2>2. \A a, b \in S : [c \in S |-> {}][a] \cap [c \in S |-> {}][b] = {}
    OBVIOUS
  <2> QED BY <1>5, <1>8, <2>1, <2>2 DEF EdgesLoaded
<1> QED BY <1>5, <1>10, <1>11, <1>12, <1>13 DEF QueryInv

\* The logs a statement found, shared out over their agents.
LEMMA AssignLogsFacts ==
  ASSUME NEW nodes \in SUBSET QueryAgents, NEW logs \in SUBSET QueryLogs,
         \A l \in logs : tables.logs[l] \in nodes
  PROVE  /\ AssignLogs(nodes, logs) \in [nodes -> SUBSET QueryLogs]
         /\ UNION Range(AssignLogs(nodes, logs)) = logs
         /\ \A a, b \in nodes : a # b => AssignLogs(nodes, logs)[a] \cap AssignLogs(nodes, logs)[b] = {}
<1> DEFINE e == AssignLogs(nodes, logs)
<1>1. e \in [nodes -> SUBSET QueryLogs]
  BY DEF AssignLogs
<1>2. DOMAIN e = nodes /\ \A a \in nodes : e[a] = {l \in logs : tables.logs[l] = a}
  BY DEF AssignLogs
<1> HIDE DEF e
<1>3. ASSUME NEW l \in logs PROVE \E A \in Range(e) : l \in A
  <2>1. tables.logs[l] \in nodes /\ l \in e[tables.logs[l]]
    BY <1>2
  <2> QED BY <1>2, <2>1 DEF Range
<1>4. \A A \in Range(e) : A \subseteq logs
  BY <1>2 DEF Range
<1>5. UNION Range(e) = logs
  BY <1>3, <1>4
<1>6. \A a, b \in nodes : a # b => e[a] \cap e[b] = {}
  BY <1>2
<1> QED BY <1>1, <1>5, <1>6 DEF e

\* The second statement of an eager call.
LEMMA LoadStep ==
  ASSUME QueryInv, loadAuditLogs
  PROVE  QueryInv'
<1>0. /\ QueryTypeOK /\ OwnContext /\ Untouched /\ query.st = "edges"
      /\ query # NoRun /\ query \in QueryAnswer /\ RowsFound(query)
  BY DEF QueryInv, QueryTypeOK, loadAuditLogs, NoRun
<1>1. PICK n \in Names, rows \in SUBSET QueryAgents :
        n = query.n /\ rows = query.rows /\ n \in reused /\ refers[n] # 0
  BY <1>0 DEF QueryAnswer, RowsFound
<1>2. PICK x \in QueryContext : x = queries[refers[n]]
  BY <1>0, <1>1, ContextShape
<1>3. PICK y \in QueryContext :
        /\ y = [x EXCEPT !.restricted = @ \cup {rows}]
        /\ y.restricted = x.restricted \cup {rows} /\ y.eager = x.eager
  <2>1. PICK R : R = x.restricted \cup {rows}
    OBVIOUS
  <2>2. R \in SUBSET SUBSET QueryAgents
    BY <1>1, <1>2, <2>1 DEF QueryContext
  <2>3. PICK y : y = [x EXCEPT !.restricted = R]
    OBVIOUS
  <2>4. y \in QueryContext /\ y.restricted = R /\ y.eager = x.eager
    BY <1>2, <2>2, <2>3 DEF QueryContext
  <2> QED BY <2>1, <2>3, <2>4
<1>4. PICK logs : logs = {l \in DOMAIN tables.logs : \A S \in y.restricted : tables.logs[l] \in S}
  OBVIOUS
<1>5. PICK all : all = {l \in DOMAIN tables.logs : tables.logs[l] \in rows}
  OBVIOUS
<1>6. /\ refers' = refers /\ tables' = tables /\ reused' = reused
      /\ queries' = [queries EXCEPT ![refers[n]] = y]
      /\ query' = [query EXCEPT !.st = "answered", !.logs = all, !.edges = AssignLogs(rows, logs)]
  BY <1>1, <1>2, <1>3, <1>4, <1>5 DEF loadAuditLogs
<1>7. logs \in SUBSET QueryLogs /\ all \in SUBSET QueryLogs /\ \A l \in logs : tables.logs[l] \in rows
  <2>1. DOMAIN tables.logs \subseteq QueryLogs
    BY <1>0 DEF QueryTypeOK
  <2> QED BY <1>3, <1>4, <1>5, <2>1
<1>8. query.fresh => logs = all
  <2>1. query.fresh => y.restricted = {rows}
    BY <1>0, <1>1, <1>2, <1>3 DEF RowsFound
  <2> QED BY <1>4, <1>5, <2>1
<1>9. PICK e \in [rows -> SUBSET QueryLogs] :
        /\ e = AssignLogs(rows, logs) /\ UNION Range(e) = logs
        /\ \A a, b \in rows : a # b => e[a] \cap e[b] = {}
  <2>1. /\ AssignLogs(rows, logs) \in [rows -> SUBSET QueryLogs]
        /\ UNION Range(AssignLogs(rows, logs)) = logs
        /\ \A a, b \in rows : a # b => AssignLogs(rows, logs)[a] \cap AssignLogs(rows, logs)[b] = {}
    BY <1>7, AssignLogsFacts
  <2> QED BY <2>1, Zenon
<1>10. /\ queries' \in Seq(QueryContext) /\ OwnContext' /\ queries'[refers'[n]] = y
       /\ \A m \in Names : m # n /\ refers[m] # 0 => queries'[refers'[m]] = queries[refers[m]]
  BY <1>0, <1>1, <1>3, <1>6, ContextWrite
<1>11. /\ query' \in QueryAnswer
       /\ query'.st = "answered" /\ query'.n = n /\ query'.kind = query.kind
       /\ query'.fresh = query.fresh /\ query'.whole = query.whole /\ query'.rows = rows
       /\ query'.found = query.found /\ query'.logs = all /\ query'.edges = e
  <2> DEFINE EdgeSets == UNION {[D -> SUBSET QueryLogs] : D \in SUBSET QueryAgents}
  <2>1. e \in EdgeSets
    BY <1>1, <1>9
  <2>2. query \in [st : {"edges", "answered"}, n : Names, kind : QueryKinds, fresh : BOOLEAN,
                   whole : BOOLEAN, rows : SUBSET QueryAgents, found : SUBSET QueryAgents,
                   logs : SUBSET QueryLogs, edges : EdgeSets]
    BY <1>0 DEF QueryAnswer
  <2> HIDE DEF EdgeSets
  <2>3. query' = [query EXCEPT !.st = "answered", !.logs = all, !.edges = e]
    BY <1>6, <1>9
  <2>4. query' \in [st : {"edges", "answered"}, n : Names, kind : QueryKinds, fresh : BOOLEAN,
                    whole : BOOLEAN, rows : SUBSET QueryAgents, found : SUBSET QueryAgents,
                    logs : SUBSET QueryLogs, edges : EdgeSets]
    BY <1>7, <2>1, <2>2, <2>3
  <2>5. query' \in QueryAnswer
    BY <2>4 DEF EdgeSets, QueryAnswer
  <2> QED BY <1>1, <2>2, <2>3, <2>5
<1>12. QueryTypeOK'
  BY <1>0, <1>6, <1>10, <1>11 DEF QueryTypeOK
<1>13. Untouched'
  <2> SUFFICES ASSUME NEW m \in Names, refers'[m] # 0, m \notin reused'
               PROVE  /\ queries'[refers'[m]].limit = NoLimit
                      /\ ~queries'[refers'[m]].idOnly /\ queries'[refers'[m]].restricted = {}
    BY DEF Untouched
  <2>1. m # n /\ m \notin reused /\ refers[m] # 0
    BY <1>1, <1>6
  <2> QED BY <1>0, <1>10, <2>1 DEF Untouched
<1>14. RowsFound(query)'
  BY <1>0, <1>1, <1>6, <1>11 DEF RowsFound
<1>15. EdgesLoaded(query)'
  BY <1>8, <1>9, <1>11 DEF EdgesLoaded
<1> QED BY <1>10, <1>12, <1>13, <1>14, <1>15 DEF QueryInv

\* A fresh builder.
LEMMA QueryInitStep ==
  ASSUME QueryInit
  PROVE  QueryInv
<1>1. PICK logs \in {[l \in {} |-> {}]} \cup [QueryLogs -> QueryAgents] :
        tables = [agents |-> {logs[l] : l \in DOMAIN logs}, logs |-> logs]
  BY DEF QueryInit
<1>2. PICK D \in SUBSET QueryLogs : logs \in [D -> QueryAgents]
  BY <1>1
<1>3. tables \in [agents : SUBSET QueryAgents,
                  logs : UNION {[K -> QueryAgents] : K \in SUBSET QueryLogs}]
  <2>1. {logs[l] : l \in DOMAIN logs} \in SUBSET QueryAgents
    BY <1>2
  <2>2. logs \in UNION {[K -> QueryAgents] : K \in SUBSET QueryLogs}
    BY <1>2
  <2> QED BY <1>1, <2>1, <2>2, Zenon
<1>4. PICK x \in QueryContext :
        queries = <<x>> /\ x.limit = NoLimit /\ ~x.idOnly /\ x.restricted = {}
  <2>1. PICK eager \in BOOLEAN : queries = <<NewContext(eager)>>
    BY DEF QueryInit
  <2>2. /\ NewContext(eager) \in QueryContext /\ NewContext(eager).limit = NoLimit
        /\ ~NewContext(eager).idOnly /\ NewContext(eager).restricted = {}
    BY DEF NewContext, NoLimit, QueryContext
  <2> QED BY <2>1, <2>2, Zenon
<1>5. queries \in Seq(QueryContext) /\ Len(queries) = 1 /\ queries[1] = x
  BY <1>4
<1>6. refers = [q |-> 1, c |-> 0] /\ reused = {} /\ query = NoRun
  BY DEF QueryInit
<1>7. refers \in [q : Nat, c : Nat] /\ refers.q = 1 /\ refers.c = 0 /\ refers["q"] = 1 /\ refers["c"] = 0
  BY <1>6
<1>8. QueryTypeOK
  BY <1>3, <1>5, <1>6, <1>7 DEF QueryTypeOK
<1>9. OwnContext /\ Untouched
  BY <1>4, <1>5, <1>7 DEF OwnContext, Untouched, Names
<1> QED BY <1>6, <1>8, <1>9 DEF QueryInv

(* However builders are run, cloned and run again, and whatever other      *)
(* sessions write between the two statements of an eager call, a clone has *)
(* a context of its own and a builder nothing was run on has the context   *)
(* it was made with.                                                       *)
THEOREM QueryInvariant == QuerySpec => []QueryInv
<1>1. QueryInv /\ [QueryNext]_queryVars => QueryInv'
  <2> SUFFICES ASSUME QueryInv, [QueryNext]_queryVars PROVE QueryInv'
    OBVIOUS
  <2>1. CASE UNCHANGED queryVars
    BY <2>1 DEF queryVars, QueryInv, QueryTypeOK, OwnContext, Untouched, RowsFound, EdgesLoaded
  <2> QED BY <2>1, CloneStep, LoadStep, QueryWriteStep, RunStep DEF QueryNext
<1> QED BY <1>1, QueryInitStep, PTL DEF QuerySpec

(* For any tables, any number of calls and any writes of other sessions    *)
(* between their statements, All on a builder nothing else was run on      *)
(* returns every agent whole with all of its logs, and Only returns an     *)
(* agent just when there was exactly one.                                  *)
THEOREM AnswersWholeTheorem == QuerySpec => []AnswersAreWhole
<1>1. QueryInv => AnswersAreWhole
  <2> SUFFICES ASSUME QueryInv PROVE AnswersAreWhole
    OBVIOUS
  <2>1. query.st = "answered" => query # NoRun
    BY DEF NoRun
  <2>2. query.st = "answered" => RowsFound(query) /\ EdgesLoaded(query)
    BY <2>1 DEF QueryInv
  <2> QED BY <2>2, Zenon DEF AnswersAreWhole, FreshAnswerIsWhole, OnlyIsTheOnlyOne, RowsFound, EdgesLoaded
<1> QED BY <1>1, QueryInvariant, PTL

-----------------------------------------------------------------------------
(* EntStore. *)

LEMMA TryFacts ==
  ASSUME NEW d, NEW d2
  PROVE  Try(d, d2).db \in {d, d2}
BY DEF Try, Done, Failed

\* Linking logs adds no row to any table.
LEMMA LinkFacts ==
  ASSUME NEW d, DOMAIN d = Entities, NEW ids, NEW m
  PROVE  /\ DOMAIN LinkLogs(d, ids, m).db = Entities
         /\ \A e \in Entities : DOMAIN LinkLogs(d, ids, m).db[e] = DOMAIN d[e]
<1>1. PICK f : f = [l \in DOMAIN d.AuditLog |-> IF l \in m.link
                                      THEN [d.AuditLog[l] EXCEPT !.col.agent = CHOOSE i \in ids : TRUE]
                                      ELSE d.AuditLog[l]]
  OBVIOUS
<1>2. DOMAIN f = DOMAIN d.AuditLog
  BY <1>1
<1>3. PICK d2 : d2 = [d EXCEPT !.AuditLog = f]
  OBVIOUS
<1>4. DOMAIN d2 = Entities /\ \A e \in Entities : DOMAIN d2[e] = DOMAIN d[e]
  BY <1>2, <1>3 DEF Entities
<1>5. LinkLogs(d, ids, m).db = d \/ LinkLogs(d, ids, m).db = d2
  BY <1>1, <1>3 DEF LinkLogs, Done, Failed
<1> QED BY <1>4, <1>5

\* An INSERT adds the one row.
LEMMA InsertRowFacts ==
  ASSUME NEW d, DOMAIN d = Entities, NEW e \in Entities, NEW m
  PROVE  /\ DOMAIN InsertRow(d, e, m) = Entities
         /\ \A i \in DOMAIN InsertRow(d, e, m)[e] : i \in DOMAIN d[e] \/ i = m.id
<1>1. PICK row : row = Row([f \in CreateSpec[e] |-> IF f \in DOMAIN m.set THEN m.set[f] ELSE Null])
  OBVIOUS
<1>2. InsertRow(d, e, m) = [d EXCEPT ![e] = Put(d[e], m.id, row)]
  BY <1>1 DEF InsertRow
<1>3. DOMAIN Put(d[e], m.id, row) = DOMAIN d[e] \cup {m.id}
  BY DEF Put, Over
<1> QED BY <1>2, <1>3

LEMMA CreateFacts ==
  ASSUME NEW d, DOMAIN d = Entities, NEW e \in Entities, NEW m
  PROVE  /\ DOMAIN CreateSave(d, e, m).db = Entities
         /\ DOMAIN CreateSave(d, e, m).db[e] \subseteq DOMAIN d[e] \cup {m.id}
<1> DEFINE r == Try(d, InsertRow(d, e, m))
<1>1. DOMAIN r.db = Entities /\ DOMAIN r.db[e] \subseteq DOMAIN d[e] \cup {m.id}
  <2>1. DOMAIN InsertRow(d, e, m) = Entities
    BY InsertRowFacts, Zenon
  <2>3. \A i \in DOMAIN InsertRow(d, e, m)[e] : i \in DOMAIN d[e] \/ i = m.id
    BY InsertRowFacts, Zenon
  <2>2. r.db = d \/ r.db = InsertRow(d, e, m)
    BY TryFacts
  <2> QED BY <2>1, <2>2, <2>3
<1> HIDE DEF r
<1>2. /\ DOMAIN LinkLogs(r.db, {m.id}, m).db = Entities
      /\ DOMAIN LinkLogs(r.db, {m.id}, m).db[e] = DOMAIN r.db[e]
  BY <1>1, LinkFacts
<1>3. Insert(d, e, m) \in {Failed(d, "sql"), r, LinkLogs(r.db, {m.id}, m)}
  BY DEF Insert, r
<1>4. CreateSave(d, e, m) \in {Failed(d, "ent"), Failed(d, "sql"), r, LinkLogs(r.db, {m.id}, m)}
  BY <1>3 DEF CreateSave
<1>5. Failed(d, "ent").db = d /\ Failed(d, "sql").db = d
  BY DEF Failed
<1> QED BY <1>1, <1>2, <1>4, <1>5

LEMMA BulkFacts ==
  ASSUME NEW d, DOMAIN d = Entities, NEW e \in Entities, NEW ms
  PROVE  DOMAIN BulkSave(d, e, ms).db = Entities
<1>1. DOMAIN InsertRow(InsertRow(d, e, ms[1]), e, ms[2]) = Entities
  BY InsertRowFacts
<1> QED BY <1>1, TryFacts DEF BulkSave, Failed

LEMMA UpdateFacts ==
  ASSUME NEW d, DOMAIN d = Entities, NEW e \in Entities, NEW ids, NEW m, NEW spec
  PROVE  DOMAIN Update(d, e, ids, m, spec).db = Entities
<1>1. PICK f : f = [i \in DOMAIN d[e] |-> IF i \in ids THEN UpdateRow(e, d[e][i], m, spec) ELSE d[e][i]]
  OBVIOUS
<1>2. PICK d1 : d1 = [d EXCEPT ![e] = f]
  OBVIOUS
<1>3. DOMAIN d1 = Entities
  BY <1>2
<1>4. DOMAIN UnlinkLogs(d1, ids, m) = Entities
  <2>1. PICK g : g = [l \in DOMAIN d1.AuditLog |->
                        IF d1.AuditLog[l].col.agent \in ids /\ (m.unlinkAll \/ l \in m.unlink)
                        THEN [d1.AuditLog[l] EXCEPT !.col.agent = Null] ELSE d1.AuditLog[l]]
    OBVIOUS
  <2>2. UnlinkLogs(d1, ids, m) = [d1 EXCEPT !.AuditLog = g]
    BY <2>1 DEF UnlinkLogs
  <2> QED BY <1>3, <2>2
<1>5. PICK d2 : d2 = IF e = "Agent" THEN UnlinkLogs(d1, ids, m) ELSE d1
  OBVIOUS
<1>6. DOMAIN d2 = Entities
  BY <1>3, <1>4, <1>5
<1>7. PICK r : r = Try(d, d2) /\ DOMAIN r.db = Entities
  BY <1>6, TryFacts
<1>8. DOMAIN LinkLogs(r.db, ids, m).db = Entities
  BY <1>7, LinkFacts
<1>9. Update(d, e, ids, m, spec) \in {Failed(d, "sql"), LinkLogs(r.db, ids, m), r}
  BY <1>1, <1>2, <1>5, <1>7 DEF Update
<1>10. Failed(d, "sql").db = d
  BY DEF Failed
<1> QED BY <1>7, <1>8, <1>9, <1>10

LEMMA DeleteFacts ==
  ASSUME NEW d, DOMAIN d = Entities, NEW e \in Entities, NEW ids
  PROVE  DOMAIN Delete(d, e, ids).db = Entities
<1>1. PICK f : f = Restrict(d[e], DOMAIN d[e] \ ids)
  OBVIOUS
<1>2. PICK d1 : d1 = [d EXCEPT ![e] = f]
  OBVIOUS
<1>3. DOMAIN d1 = Entities
  BY <1>2
<1>4. Delete(d, e, ids) = Try(d, d1)
  BY <1>1, <1>2 DEF Delete, OnDelete
<1> QED BY <1>3, <1>4, TryFacts

\* A statement adds no table; a creation adds no row but the one with its id.
LEMMA SaveFacts ==
  ASSUME NEW d, DOMAIN d = Entities, NEW s, s.e \in Entities
  PROVE  /\ DOMAIN sqlSave(d, s).db = Entities
         /\ s.op = "create" => DOMAIN sqlSave(d, s).db[s.e] \subseteq DOMAIN d[s.e] \cup {s.ms[1].id}
<1>1. PICK ids : ids = s.where \cap DOMAIN d[s.e]
  OBVIOUS
<1>2. CASE s.op = "create"
  <2>1. sqlSave(d, s) = CreateSave(d, s.e, s.ms[1])
    BY <1>2 DEF sqlSave
  <2>2. /\ DOMAIN CreateSave(d, s.e, s.ms[1]).db = Entities
        /\ DOMAIN CreateSave(d, s.e, s.ms[1]).db[s.e] \subseteq DOMAIN d[s.e] \cup {s.ms[1].id}
    BY CreateFacts
  <2> QED BY <2>1, <2>2, Zenon
<1>3. CASE s.op = "bulk"
  <2>1. sqlSave(d, s) = BulkSave(d, s.e, s.ms)
    BY <1>3 DEF sqlSave
  <2> QED BY <1>3, <2>1, BulkFacts
<1>4. CASE s.op = "update"
  <2>1. sqlSave(d, s) = UpdateSave(d, s.e, ids, s.ms[1])
    BY <1>1, <1>4 DEF sqlSave
  <2> QED BY <1>4, <2>1, UpdateFacts DEF UpdateSave, Failed
<1>5. CASE s.op = "updateOne"
  <2>1. sqlSave(d, s) = UpdateOneSave(d, s.e, s.ms[1])
    BY <1>5 DEF sqlSave
  <2> QED BY <1>5, <2>1, UpdateFacts DEF UpdateOneSave, Failed
<1>6. DOMAIN DeleteSave(d, s.e, ids).db = Entities
  BY DeleteFacts DEF DeleteSave, AgentDelete, AuditLogDelete, OutboxEventDelete, UserDelete, Entities
<1>7. CASE s.op = "delete"
  <2>1. sqlSave(d, s) = DeleteSave(d, s.e, ids)
    BY <1>1, <1>7 DEF sqlSave
  <2> QED BY <1>6, <1>7, <2>1
<1>8. CASE s.op \notin {"create", "bulk", "update", "updateOne", "delete"}
  <2>1. sqlSave(d, s) = DeleteOneSave(d, s.e, ids)
    BY <1>1, <1>8 DEF sqlSave
  <2> QED BY <1>6, <1>8, <2>1 DEF DeleteOneSave, Failed
<1> QED BY <1>2, <1>3, <1>4, <1>5, <1>7, <1>8

\* What a call does to a mutation leaves its id alone.
LEMMA ApplyKeepsId ==
  ASSUME NEW e, NEW m, "id" \in DOMAIN m, NEW c
  PROVE  "id" \in DOMAIN Apply(e, m, c) /\ Apply(e, m, c).id = m.id
<1>1. "id" \in DOMAIN SetField(e, m, c.f, c.v) /\ SetField(e, m, c.f, c.v).id = m.id
  BY DEF SetField
<1>2. "id" \in DOMAIN AddField(e, m, c.f, c.v) /\ AddField(e, m, c.f, c.v).id = m.id
  BY DEF AddField
<1>3. "id" \in DOMAIN ClearField(m, c.f) /\ ClearField(m, c.f).id = m.id
  BY DEF ClearField
<1>4. "id" \in DOMAIN ResetField(m, c.f) /\ ResetField(m, c.f).id = m.id
  BY DEF ResetField
<1>5. "id" \in DOMAIN EdgeCall(m, c) /\ EdgeCall(m, c).id = m.id
  BY DEF EdgeCall
<1> QED BY <1>1, <1>2, <1>3, <1>4, <1>5 DEF Apply

\* A step that only works on the mutation of the builder.
LEMMA MutationStep ==
  ASSUME EntInv, stmt.st # "none", UNCHANGED <<entDB, entTx>>, entTime' \in Nat,
         DOMAIN stmt' = StmtFields, stmt'.st \in {"build", "hooks"},
         stmt'.e = stmt.e, stmt'.op = stmt.op, stmt'.inTx = stmt.inTx, stmt'.had = stmt.had,
         stmt'.saves \in Nat, stmt'.saves >= stmt.saves, stmt'.st # "build" => stmt'.saves > 0,
         1 \in DOMAIN stmt'.ms, "id" \in DOMAIN stmt'.ms[1],
         stmt.op = "create" /\ stmt.saves > 0 => stmt'.ms[1].id = stmt.ms[1].id,
         stmt.op = "create" /\ stmt.saves = 0 /\ stmt'.saves > 0 => stmt'.ms[1].id # Null
  PROVE  EntInv'
<1>1. EntTypeOK' /\ TxMatches' /\ FailedSaveStoresNothing' /\ TxInvisible'
  BY DEF EntInv, EntTypeOK, TxMatches, FailedSaveStoresNothing, TxInvisible
<1>2. stmt.saves \in Nat
  BY DEF EntInv, EntTypeOK
<1>3. View(stmt.inTx)' = View(stmt.inTx)
  BY DEF View
<1>4. OnlyItsRow'
  BY <1>2, <1>3 DEF EntInv, OnlyItsRow
<1> QED BY <1>1, <1>4 DEF EntInv

LEMMA CallStep ==
  ASSUME EntInv, stmt.st \in {"build", "hooks"}, NEW i \in DOMAIN stmt.ms, NEW c, MakeCall(i, c)
  PROVE  EntInv'
<1>0. /\ DOMAIN stmt = StmtFields /\ stmt.saves \in Nat /\ (stmt.st # "build" => stmt.saves > 0)
      /\ 1 \in DOMAIN stmt.ms /\ "id" \in DOMAIN stmt.ms[1] /\ entTime \in Nat
  BY DEF EntInv, EntTypeOK
<1>1. PICK m : m = Apply(stmt.e, stmt.ms[i], c)
  OBVIOUS
<1>2. PICK said : said = Append(stmt.said, c)
  OBVIOUS
<1>3. stmt' = [stmt EXCEPT !.ms = [@ EXCEPT ![i] = m], !.said = said] /\ UNCHANGED <<entDB, entTx, entTime>>
  BY <1>0, <1>1, <1>2 DEF MakeCall, StmtFields
<1>4. i = 1 => "id" \in DOMAIN m /\ m.id = stmt.ms[1].id
  BY <1>0, <1>1, ApplyKeepsId
<1>5. 1 \in DOMAIN stmt'.ms /\ "id" \in DOMAIN stmt'.ms[1] /\ stmt'.ms[1].id = stmt.ms[1].id
  BY <1>0, <1>3, <1>4 DEF StmtFields
<1>6. /\ DOMAIN stmt' = StmtFields /\ stmt'.st = stmt.st /\ stmt'.e = stmt.e /\ stmt'.op = stmt.op
      /\ stmt'.inTx = stmt.inTx /\ stmt'.had = stmt.had /\ stmt'.saves = stmt.saves
  BY <1>0, <1>3 DEF StmtFields
<1> QED BY <1>0, <1>3, <1>5, <1>6, MutationStep

LEMMA SaveStep ==
  ASSUME EntInv, Save
  PROVE  EntInv'
<1>0. /\ DOMAIN stmt = StmtFields /\ stmt.saves \in Nat /\ entTime \in Nat /\ stmt.st = "build"
      /\ 1 \in DOMAIN stmt.ms /\ "id" \in DOMAIN stmt.ms[1]
  BY DEF EntInv, EntTypeOK, Save
<1>1. PICK ms : ms = [i \in DOMAIN stmt.ms |->
                  CASE stmt.op \in {"create", "bulk"} ->
                         SetID(WithDefaults(stmt.ms[i], CreateDefaults(stmt.e, entTime)), entTime + i - 1)
                    [] stmt.op \in {"update", "updateOne"} ->
                         WithDefaults(stmt.ms[i], UpdateDefaults(stmt.e, entTime))
                    [] OTHER -> stmt.ms[i]]
  OBVIOUS
<1>2. PICK said : said = stmt.said \o FilledIn
  OBVIOUS
<1>3. /\ stmt' = [stmt EXCEPT !.st = "hooks", !.saves = stmt.saves + 1, !.said = said, !.ms = ms]
      /\ entTime' = entTime + 2 /\ UNCHANGED <<entDB, entTx>>
  BY <1>1, <1>2 DEF Save
<1>4. /\ DOMAIN stmt' = StmtFields /\ stmt'.st = "hooks" /\ stmt'.e = stmt.e /\ stmt'.op = stmt.op
      /\ stmt'.inTx = stmt.inTx /\ stmt'.had = stmt.had /\ stmt'.saves = stmt.saves + 1 /\ stmt'.ms = ms
  BY <1>0, <1>3 DEF StmtFields
<1>5. PICK m1, m2, m3 :
        /\ m1 = WithDefaults(stmt.ms[1], CreateDefaults(stmt.e, entTime))
        /\ m2 = WithDefaults(stmt.ms[1], UpdateDefaults(stmt.e, entTime))
        /\ m3 = SetID(m1, entTime)
  OBVIOUS
<1>6. "id" \in DOMAIN m1 /\ m1.id = stmt.ms[1].id /\ "id" \in DOMAIN m2
  BY <1>0, <1>5 DEF WithDefaults
<1>7. /\ "id" \in DOMAIN m3 /\ m3.id # Null
      /\ stmt.ms[1].id # Null => m3.id = stmt.ms[1].id
  BY <1>0, <1>5, <1>6, NullAssumption DEF SetID
<1>8. ms[1] = (CASE stmt.op \in {"create", "bulk"} -> m3
                 [] stmt.op \in {"update", "updateOne"} -> m2
                 [] OTHER -> stmt.ms[1])
  <2>1. entTime + 1 - 1 = entTime
    BY <1>0
  <2> QED BY <1>0, <1>1, <1>5, <2>1
<1>9. /\ 1 \in DOMAIN ms /\ "id" \in DOMAIN ms[1] /\ (stmt.op = "create" => ms[1] = m3)
  BY <1>0, <1>1, <1>6, <1>7, <1>8
<1>10. stmt.op = "create" /\ stmt.saves > 0 => stmt.ms[1].id # Null
  BY <1>0 DEF EntInv, OnlyItsRow
<1>11. /\ stmt'.saves \in Nat /\ stmt'.saves >= stmt.saves /\ stmt'.saves > 0 /\ entTime' \in Nat
  BY <1>0, <1>3, <1>4
<1> QED BY <1>0, <1>3, <1>4, <1>7, <1>9, <1>10, <1>11, MutationStep

LEMMA NewBuilderStep ==
  ASSUME EntInv, NEW e \in Entities, NEW op \in Ops, NEW where, NEW inTx \in BOOLEAN,
         NewBuilder(e, op, where, inTx)
  PROVE  EntInv'
<1>0. UNCHANGED <<entDB, entTx, entTime>> /\ (inTx <=> entTx.st # "none")
  BY DEF NewBuilder
<1>1. PICK ms : ms = IF op \in {"create", "bulk"}
                     THEN [i \in 1..(IF op = "bulk" THEN 2 ELSE 1) |->
                             [NewMutation(Null) EXCEPT !.set = Prepared(e)]]
                     ELSE <<NewMutation(IF Cardinality(where) = 1
                                        THEN CHOOSE i \in where : TRUE ELSE Null)>>
  <2> DEFINE M == IF op \in {"create", "bulk"}
                  THEN [i \in 1..(IF op = "bulk" THEN 2 ELSE 1) |->
                          [NewMutation(Null) EXCEPT !.set = Prepared(e)]]
                  ELSE <<NewMutation(IF Cardinality(where) = 1
                                     THEN CHOOSE i \in where : TRUE ELSE Null)>>
  <2> HIDE DEF M
  <2>1. \E ms : ms = M
    OBVIOUS
  <2> QED BY <2>1, Zenon DEF M
<1>2. /\ stmt' = [st |-> "build", e |-> e, op |-> op, where |-> where, inTx |-> inTx, ms |-> ms,
                  said |-> <<>>, had |-> DOMAIN View(inTx)[e], before |-> <<>>, saves |-> 0,
                  err |-> "none", late |-> FALSE]
  BY <1>1, Zenon DEF NewBuilder
<1>3. 1 \in DOMAIN ms /\ "id" \in DOMAIN ms[1]
  <2>1. \A x : "id" \in DOMAIN NewMutation(x)
    BY DEF NewMutation
  <2>2. "id" \in DOMAIN [NewMutation(Null) EXCEPT !.set = Prepared(e)]
    BY <2>1
  <2>3. CASE op \in {"create", "bulk"}
    <3>1. PICK n : n = IF op = "bulk" THEN 2 ELSE 1
      OBVIOUS
    <3>2. ms = [i \in 1..n |-> [NewMutation(Null) EXCEPT !.set = Prepared(e)]]
      BY <1>1, <2>3, <3>1, Zenon
    <3>3. n \in 1..2
      BY <3>1
    <3> QED BY <2>2, <3>2, <3>3
  <2>4. CASE op \notin {"create", "bulk"}
    <3>1. PICK x : ms = <<NewMutation(x)>>
      BY <1>1, <2>4, Zenon
    <3> QED BY <2>1, <3>1
  <2> QED BY <2>3, <2>4
<1>4. /\ DOMAIN stmt' = StmtFields /\ stmt'.st = "build" /\ stmt'.e = e /\ stmt'.op = op
      /\ stmt'.inTx = inTx /\ stmt'.had = DOMAIN View(inTx)[e] /\ stmt'.saves = 0 /\ stmt'.ms = ms
  BY <1>2 DEF StmtFields
<1>5. EntTypeOK' /\ TxMatches' /\ FailedSaveStoresNothing' /\ TxInvisible'
  BY <1>0, <1>3, <1>4 DEF EntInv, EntTypeOK, TxMatches, FailedSaveStoresNothing, TxInvisible
<1>6. View(stmt.inTx)' = View(inTx)
  BY <1>0, <1>4 DEF View
<1>7. OnlyItsRow'
  BY <1>4, <1>6 DEF OnlyItsRow
<1> QED BY <1>5, <1>7 DEF EntInv

LEMMA HookRefusesStep ==
  ASSUME EntInv, HookRefuses
  PROVE  EntInv'
<1>0. DOMAIN stmt = StmtFields /\ stmt.saves \in Nat /\ stmt.saves > 0 /\ stmt.st = "hooks"
  BY DEF EntInv, EntTypeOK, HookRefuses
<1>1. /\ stmt' = [stmt EXCEPT !.st = "saved", !.err = "ent", !.before = View(stmt.inTx)]
      /\ UNCHANGED <<entDB, entTx, entTime>>
  BY DEF HookRefuses
<1>2. /\ DOMAIN stmt' = StmtFields /\ stmt'.st = "saved" /\ stmt'.e = stmt.e /\ stmt'.op = stmt.op
      /\ stmt'.inTx = stmt.inTx /\ stmt'.had = stmt.had /\ stmt'.saves = stmt.saves
      /\ stmt'.ms = stmt.ms /\ stmt'.before = View(stmt.inTx)
  BY <1>0, <1>1 DEF StmtFields
<1>3. EntTypeOK' /\ TxMatches' /\ TxInvisible'
  BY <1>0, <1>1, <1>2 DEF EntInv, EntTypeOK, TxMatches, TxInvisible
<1>4. FailedSaveStoresNothing'
  BY <1>1, <1>2 DEF FailedSaveStoresNothing, View
<1>5. View(stmt.inTx)' = View(stmt.inTx)
  BY <1>1, <1>2 DEF View
<1>6. OnlyItsRow'
  BY <1>0, <1>2, <1>5 DEF EntInv, OnlyItsRow
<1> QED BY <1>3, <1>4, <1>6 DEF EntInv

\* The statement of a save, with its outcome r.
LEMMA ExecStep ==
  ASSUME EntInv, NEW late \in BOOLEAN, Exec(late)
  PROVE  EntInv'
<1>0. /\ DOMAIN stmt = StmtFields /\ stmt.saves \in Nat /\ stmt.saves > 0 /\ stmt.st = "hooks"
      /\ stmt.e \in Entities /\ 1 \in DOMAIN stmt.ms /\ "id" \in DOMAIN stmt.ms[1]
      /\ DOMAIN entTx = {"st", "db", "begin"} /\ (stmt.inTx <=> entTx.st # "none")
      /\ DOMAIN entDB = Entities /\ (stmt.inTx => DOMAIN entTx.db = Entities)
      /\ entTime' = entTime /\ entTime \in Nat
  BY DEF EntInv, EntTypeOK, TxMatches, Exec
<1>1. PICK d : d = View(stmt.inTx)
  OBVIOUS
<1>2. DOMAIN d = Entities
  BY <1>0, <1>1 DEF View
<1>3. PICK r : r = IF stmt.inTx /\ entTx.st = "aborted" THEN Failed(d, "sql") ELSE sqlSave(d, stmt)
  OBVIOUS
<1>4. /\ DOMAIN r.db = Entities
      /\ stmt.op = "create" => DOMAIN r.db[stmt.e] \subseteq DOMAIN d[stmt.e] \cup {stmt.ms[1].id}
  <2>1. Failed(d, "sql").db = d
    BY DEF Failed
  <2>2. /\ DOMAIN sqlSave(d, stmt).db = Entities
        /\ stmt.op = "create" =>
             DOMAIN sqlSave(d, stmt).db[stmt.e] \subseteq DOMAIN d[stmt.e] \cup {stmt.ms[1].id}
    BY <1>0, <1>2, SaveFacts
  <2>3. CASE r = Failed(d, "sql")
    BY <1>2, <2>1, <2>3
  <2>4. CASE r = sqlSave(d, stmt)
    BY <2>2, <2>4, Zenon
  <2> QED BY <1>3, <2>3, <2>4
<1>5. PICK ms : ms = [i \in DOMAIN stmt.ms |-> [stmt.ms[i] EXCEPT !.done = r.err = "ok"]]
  OBVIOUS
<1>6. 1 \in DOMAIN ms /\ "id" \in DOMAIN ms[1] /\ ms[1].id = stmt.ms[1].id
  BY <1>0, <1>5
<1>7. PICK err : err = IF late THEN "ent" ELSE r.err
  OBVIOUS
<1>8. /\ stmt' = [stmt EXCEPT !.st = "saved", !.before = d, !.late = late, !.err = err, !.ms = ms]
      /\ late => r.err = "ok"
      /\ IF r.err = "ok" THEN InnerCommit(stmt.inTx, r.db) ELSE InnerRollback(stmt.inTx, r)
  BY <1>1, <1>3, <1>5, <1>7, Zenon DEF Exec
<1>9. /\ DOMAIN stmt' = StmtFields /\ stmt'.st = "saved" /\ stmt'.e = stmt.e /\ stmt'.op = stmt.op
      /\ stmt'.inTx = stmt.inTx /\ stmt'.had = stmt.had /\ stmt'.saves = stmt.saves
      /\ stmt'.ms = ms /\ stmt'.before = d /\ stmt'.late = late /\ stmt'.err = err
  BY <1>0, <1>8 DEF StmtFields
<1>10. CASE ~stmt.inTx
  <2>1. entTx' = entTx /\ entDB' = (IF r.err = "ok" THEN r.db ELSE entDB) /\ d = entDB
    BY <1>1, <1>8, <1>10 DEF InnerCommit, InnerRollback, View
  <2>2. View(stmt.inTx)' = entDB' /\ entTx.st = "none"
    BY <1>0, <1>9, <1>10 DEF View
  <2>3. EntTypeOK' /\ TxMatches' /\ TxInvisible'
    BY <1>0, <1>4, <1>6, <1>9, <1>10, <2>1, <2>2 DEF EntTypeOK, TxMatches, TxInvisible
  <2>4. FailedSaveStoresNothing'
    BY <1>7, <1>9, <2>1 DEF FailedSaveStoresNothing
  <2>5. OnlyItsRow'
    <3> SUFFICES ASSUME stmt.op = "create"
                 PROVE  ms[1].id # Null /\ DOMAIN entDB'[stmt.e] \subseteq stmt.had \cup {ms[1].id}
      BY <1>0, <1>9, <2>2 DEF OnlyItsRow
    <3>1. stmt.ms[1].id # Null /\ DOMAIN d[stmt.e] \subseteq stmt.had \cup {stmt.ms[1].id}
      BY <1>0, <1>1 DEF EntInv, OnlyItsRow
    <3> QED BY <1>4, <1>6, <2>1, <3>1
  <2> QED BY <2>3, <2>4, <2>5 DEF EntInv
<1>11. CASE stmt.inTx
  <2>1. /\ entDB' = entDB /\ DOMAIN entTx' = {"st", "db", "begin"} /\ entTx'.begin = entTx.begin
        /\ entTx'.st # "none" /\ entTx'.db \in {d, r.db} /\ d = entTx.db /\ entTx.st # "none"
    BY <1>0, <1>1, <1>8, <1>11 DEF InnerCommit, InnerRollback, View
  <2>2. View(stmt.inTx)' = entTx'.db
    BY <1>9, <1>11 DEF View
  <2>3. EntTypeOK' /\ TxMatches' /\ TxInvisible'
    BY <1>0, <1>2, <1>4, <1>6, <1>9, <1>11, <2>1, <2>2 DEF EntTypeOK, TxMatches, TxInvisible, EntInv
  <2>4. FailedSaveStoresNothing'
    BY <1>9, <1>11 DEF FailedSaveStoresNothing
  <2>5. OnlyItsRow'
    <3> SUFFICES ASSUME stmt.op = "create"
                 PROVE  ms[1].id # Null /\ DOMAIN entTx'.db[stmt.e] \subseteq stmt.had \cup {ms[1].id}
      BY <1>0, <1>9, <2>2 DEF OnlyItsRow
    <3>1. stmt.ms[1].id # Null /\ DOMAIN d[stmt.e] \subseteq stmt.had \cup {stmt.ms[1].id}
      BY <1>0, <1>1 DEF EntInv, OnlyItsRow
    <3> QED BY <1>4, <1>6, <2>1, <3>1
  <2> QED BY <2>3, <2>4, <2>5 DEF EntInv
<1> QED BY <1>10, <1>11

\* The steps of the transaction, and of a builder that is used again or dropped.
LEMMA RetryStep ==
  ASSUME EntInv, Retry
  PROVE  EntInv'
<1>0. /\ DOMAIN stmt = StmtFields /\ stmt.saves \in Nat /\ stmt.st = "saved" /\ entTime \in Nat
      /\ 1 \in DOMAIN stmt.ms /\ "id" \in DOMAIN stmt.ms[1] /\ stmt.saves > 0
  BY DEF EntInv, EntTypeOK, Retry
<1>1. stmt' = [stmt EXCEPT !.st = "build"] /\ UNCHANGED <<entDB, entTx, entTime>>
  BY DEF Retry
<1>2. /\ DOMAIN stmt' = StmtFields /\ stmt'.st = "build" /\ stmt'.e = stmt.e /\ stmt'.op = stmt.op
      /\ stmt'.inTx = stmt.inTx /\ stmt'.had = stmt.had /\ stmt'.saves = stmt.saves /\ stmt'.ms = stmt.ms
  BY <1>0, <1>1 DEF StmtFields
<1> QED BY <1>0, <1>1, <1>2, MutationStep

LEMMA NoBuilderStep ==
  ASSUME EntInv, stmt'.st = "none", DOMAIN entDB' = Entities, entTime' = entTime,
         entTx' = NoTx \/ (entTx' = entTx /\ entDB' = entDB)
           \/ (entTx' = [st |-> "open", db |-> entDB, begin |-> entDB] /\ entDB' = entDB)
  PROVE  EntInv'
<1>1. DOMAIN entTx' = {"st", "db", "begin"} /\ (entTx'.st # "none" => DOMAIN entTx'.db = Entities)
  BY DEF EntInv, EntTypeOK, NoTx
<1>2. EntTypeOK'
  BY <1>1 DEF EntInv, EntTypeOK
<1>3. TxInvisible'
  BY DEF EntInv, TxInvisible, NoTx
<1> QED BY <1>2, <1>3 DEF EntInv, TxMatches, OnlyItsRow, FailedSaveStoresNothing

LEMMA TxStep ==
  ASSUME EntInv, Drop \/ OpenTx \/ Commit \/ Rollback \/ CommitHookRefuses
  PROVE  EntInv'
<1>0. DOMAIN entDB = Entities /\ (entTx.st # "none" => DOMAIN entTx.db = Entities)
  BY DEF EntInv, EntTypeOK
<1>1. /\ stmt'.st = "none" /\ entTime' = entTime /\ DOMAIN entDB' = Entities
  BY <1>0 DEF Drop, OpenTx, Commit, Rollback, CommitHookRefuses, NoStmt
<1>2. entTx' = NoTx \/ (entTx' = entTx /\ entDB' = entDB)
        \/ (entTx' = [st |-> "open", db |-> entDB, begin |-> entDB] /\ entDB' = entDB)
  BY DEF Drop, OpenTx, Commit, Rollback, CommitHookRefuses
<1> QED BY <1>1, <1>2, NoBuilderStep

(* Whatever builders, hooks, errors and transactions do: a builder works   *)
(* inside a transaction exactly while one is open, and the only row a      *)
(* creation can have added is the one with the id its first save chose.    *)
THEOREM EntInvariant == EntSpec => []EntInv
<1>1. EntInit => EntInv
  <2> SUFFICES ASSUME EntInit PROVE EntInv
    OBVIOUS
  <2>1. DOMAIN entDB = Entities /\ entTime \in Nat /\ entTx = NoTx /\ stmt.st = "none"
    BY DEF EntInit, Entities, NoStmt
  <2> QED BY <2>1 DEF EntInv, EntTypeOK, TxMatches, OnlyItsRow, FailedSaveStoresNothing, TxInvisible, NoTx
<1>2. EntInv /\ [EntNext]_entVars => EntInv'
  <2> SUFFICES ASSUME EntInv, [EntNext]_entVars PROVE EntInv'
    OBVIOUS
  <2>1. CASE UNCHANGED entVars
    BY <2>1 DEF entVars, EntInv, EntTypeOK, TxMatches, OnlyItsRow, FailedSaveStoresNothing,
                TxInvisible, View
  <2>2. CASE \E e \in Entities, op \in Ops, where \in {{}, {1}, {1, 2}, {3}}, inTx \in BOOLEAN :
               NewBuilder(e, op, where, inTx)
    BY <2>2, NewBuilderStep
  <2>3. CASE BuilderCall \/ HookChanges
    <3>1. stmt.st \in {"build", "hooks"} /\ \E i \in DOMAIN stmt.ms : \E c : MakeCall(i, c)
      BY <2>3 DEF BuilderCall, HookChanges
    <3> QED BY <3>1, CallStep
  <2>4. CASE \E late \in BOOLEAN : Exec(late)
    BY <2>4, ExecStep
  <2> QED BY <2>1, <2>2, <2>3, <2>4, SaveStep, HookRefusesStep, RetryStep, TxStep DEF EntNext
<1> QED BY <1>1, <1>2, PTL DEF EntSpec

(* Saves and transactions happen whole or not at all, for any builders,    *)
(* calls, hooks and errors: a save that fails before its statement is done *)
(* leaves the database as it was, a creation saved again after an error of *)
(* unknown outcome stores no second row, and nothing done inside a         *)
(* transaction is visible before Commit.                                   *)
THEOREM AtomicSavesTheorem == EntSpec => []SavesAreAtomic
<1>1. EntInv => SavesAreAtomic
  <2> SUFFICES ASSUME EntInv PROVE SavesAreAtomic
    OBVIOUS
  <2>1. ASSUME stmt.st = "saved", stmt.op = "create", stmt.saves = 2
        PROVE  Cardinality(DOMAIN View(stmt.inTx)[stmt.e] \ stmt.had) <= 1
    <3>1. PICK new : new = DOMAIN View(stmt.inTx)[stmt.e] \ stmt.had
      OBVIOUS
    <3>2. PICK id : id = stmt.ms[1].id
      OBVIOUS
    <3>3. new \subseteq {id}
      BY <2>1, <3>1, <3>2 DEF EntInv, OnlyItsRow
    <3>4. IsFiniteSet({id}) /\ Cardinality({id}) = 1
      BY FS_Singleton
    <3>5. Cardinality(new) <= 1
      BY <3>3, <3>4, FS_Subset
    <3> QED BY <3>1, <3>5
  <2>2. RetryStoresOnce
    BY <2>1 DEF RetryStoresOnce
  <2> QED BY <2>2 DEF EntInv, SavesAreAtomic
<1> QED BY <1>1, EntInvariant, PTL

-----------------------------------------------------------------------------
(* What a save stores. *)


\* A set of naturals with an element has a least one.
LEMMA LeastOf ==
  ASSUME NEW T \in SUBSET Nat, T # {}
  PROVE  \E x \in T : \A y \in T : x <= y
<1>1. PICK x \in T : \A y \in T : ~ (<<y, x>> \in OpToRel(<, Nat))
  BY NatLessThanWellFounded, WFMin
<1>2. ASSUME NEW y \in T PROVE x <= y
  <2>1. x \in Nat /\ y \in Nat
    OBVIOUS
  <2>2. ~(y < x)
    BY <1>1, <2>1 DEF OpToRel
  <2> QED BY <2>1, <2>2
<1> QED BY <1>2

\* What the four schemas have in common.
LEMMA SchemaSets ==
  ASSUME NEW e \in Entities
  PROVE  /\ DOMAIN EntFields[e] = Settable[e] /\ Settable[e] \subseteq CreateSpec[e]
         /\ e = "AuditLog" => "agent" \in CreateSpec[e]
         /\ "agent" \notin Settable[e]
         /\ UpdateSpec[e] \subseteq CreateSpec[e] /\ UpdateSpec[e] \subseteq Settable[e] \cup {"agent"}
         /\ UpdateOneSpec[e] = UpdateSpec[e]
         /\ "created_at" \notin UpdateSpec[e] /\ "occurred_at" \notin UpdateSpec[e]
         /\ UpdateCheck[e] \subseteq Settable[e]
<1>1. CASE e = "Agent"
  BY <1>1 DEF EntFields, AgentFields, Settable, AgentSetField, AgentTexts, AgentNumbers, AgentTimes,
     CreateSpec, AgentCreateSpec, UpdateSpec, AgentUpdateSpec, UpdateOneSpec, AgentUpdateOneSpec,
     UpdateCheck, AgentUpdateCheck
<1>2. CASE e = "AuditLog"
  BY <1>2 DEF EntFields, AuditLogFields, Settable, AuditLogSetField, AuditLogTexts, AuditLogTimes,
     CreateSpec, AuditLogCreateSpec, UpdateSpec, AuditLogUpdateSpec, UpdateOneSpec,
     AuditLogUpdateOneSpec, UpdateCheck, AuditLogUpdateCheck
<1>3. CASE e = "OutboxEvent"
  BY <1>3 DEF EntFields, OutboxEventFields, Settable, OutboxSetField, OutboxTexts, OutboxPayload,
     OutboxOccurred, OutboxKey, OutboxNumbers, OutboxClears, OutboxNextRetry, CreateSpec,
     OutboxCreateSpec, UpdateSpec, OutboxUpdateSpec, UpdateOneSpec, OutboxUpdateOneSpec,
     UpdateCheck, OutboxUpdateCheck
<1>4. CASE e = "User"
  BY <1>4 DEF EntFields, UserFields, Settable, UserSetField, UserTexts, UserTimes,
     CreateSpec, UserCreateSpec, UpdateSpec, UserUpdateSpec, UpdateOneSpec, UserUpdateOneSpec,
     UpdateCheck, UserUpdateCheck
<1> QED BY <1>1, <1>2, <1>3, <1>4 DEF Entities

LEMMA SchemaKinds ==
  ASSUME NEW e \in Entities
  PROVE  /\ DOMAIN Numbers[e] \subseteq Settable[e] /\ Clears[e] \subseteq Settable[e]
         /\ Clears[e] \subseteq Nullable[e] /\ Clears[e] \cap DOMAIN Numbers[e] = {}
         /\ DOMAIN EntFields[e] \subseteq Required[e] \cup Nullable[e]
         /\ \A f \in DOMAIN Numbers[e] : Numbers[e][f] \in {8, 64}
<1>1. CASE e = "Agent"
  BY <1>1 DEF EntFields, AgentFields, Settable, AgentSetField, AgentTexts, AgentNumbers, AgentTimes,
     Numbers, Clears, Nullable, Required, AgentRequired
<1>2. CASE e = "AuditLog"
  BY <1>2 DEF EntFields, AuditLogFields, Settable, AuditLogSetField, AuditLogTexts, AuditLogTimes,
     Numbers, Clears, AuditLogClears, Nullable, Required, AuditLogRequired
<1>3. CASE e = "OutboxEvent"
  BY <1>3 DEF EntFields, OutboxEventFields, Settable, OutboxSetField, OutboxTexts, OutboxPayload,
     OutboxOccurred, OutboxKey, OutboxNumbers, OutboxClears, OutboxNextRetry,
     Numbers, Clears, Nullable, Required, OutboxRequired
<1>4. CASE e = "User"
  BY <1>4 DEF EntFields, UserFields, Settable, UserSetField, UserTexts, UserTimes,
     Numbers, Clears, Nullable, Required, UserRequired
<1> QED BY <1>1, <1>2, <1>3, <1>4 DEF Entities

\* The updated_at that an update fills in.
LEMMA SchemaDefaults ==
  ASSUME NEW e \in Entities, NEW now
  PROVE  \/ /\ e \in {"Agent", "User"} /\ UpdateDefaults(e, now) # <<>>
            /\ DOMAIN UpdateDefaults(e, now) = {"updated_at"}
            /\ UpdateDefaults(e, now)["updated_at"] = now
            /\ "updated_at" \in Settable[e] \ UpdateCheck[e] /\ EntFields[e]["updated_at"] = Nat
            /\ "updated_at" \notin DOMAIN Numbers[e]
         \/ UpdateDefaults(e, now) = <<>>
<1>1. CASE e = "Agent"
  <2>1. UpdateDefaults(e, now) = [updated_at |-> now]
    BY <1>1 DEF UpdateDefaults, AgentUpdateDefaults
  <2>2. [updated_at |-> now] # <<>>
    <3>1. DOMAIN [updated_at |-> now] = {"updated_at"} /\ DOMAIN <<>> = {}
      OBVIOUS
    <3> QED BY <3>1
  <2> QED BY <1>1, <2>1, <2>2 DEF EntFields, AgentFields, Settable, AgentSetField, AgentTimes,
     AgentTexts, AgentNumbers, Numbers, UpdateCheck, AgentUpdateCheck
<1>2. CASE e = "User"
  <2>1. UpdateDefaults(e, now) = [updated_at |-> now]
    BY <1>2 DEF UpdateDefaults, UserUpdateDefaults
  <2>2. [updated_at |-> now] # <<>>
    <3>1. DOMAIN [updated_at |-> now] = {"updated_at"} /\ DOMAIN <<>> = {}
      OBVIOUS
    <3> QED BY <3>1
  <2> QED BY <1>2, <2>1, <2>2 DEF EntFields, UserFields, Settable, UserSetField, UserTimes,
     UserTexts, Numbers, UpdateCheck, UserUpdateCheck
<1>3. CASE e \notin {"Agent", "User"}
  BY <1>3 DEF UpdateDefaults
<1> QED BY <1>1, <1>2, <1>3

\* The columns an update writes without a validator.
LEMMA UncheckedColumns ==
  ASSUME NEW e \in Entities
  PROVE  UpdateSpec[e] \cap (Settable[e] \ UpdateCheck[e]) \subseteq
           {"permission", "updated_at", "payload", "retry_count", "next_retry_at"}
BY DEF Entities, UpdateSpec, AgentUpdateSpec, AuditLogUpdateSpec, OutboxUpdateSpec, UserUpdateSpec,
     UpdateCheck, AgentUpdateCheck, AuditLogUpdateCheck, OutboxUpdateCheck, UserUpdateCheck,
     Settable, AgentSetField, AuditLogSetField, OutboxSetField, UserSetField, AgentTexts, AgentTimes,
     AgentNumbers, AuditLogTexts, AuditLogTimes, OutboxTexts, OutboxPayload, OutboxOccurred, OutboxKey,
     OutboxNumbers, OutboxClears, OutboxNextRetry, UserTexts, UserTimes

-----------------------------------------------------------------------------
\* What a call says, and of which field.
CallOK(e, c) ==
  \/ /\ c.do = "set"
     /\ \/ c.f = "agent"
        \/ c.f \in Settable[e] /\ (c.f \notin UpdateCheck[e] => c.v \in EntFields[e][c.f])
  \/ c.do = "add" /\ c.f \in DOMAIN Numbers[e] /\ c.v \in {1, 100}
  \/ c.do = "clear" /\ c.f \in Clears[e] \cup {"agent"}
  \/ c.do = "reset" /\ c.f \in Settable[e]
  \/ c.do \in {"link", "unlink", "unlinkAll"} /\ c.f = "agent"

LEMMA SampleType ==
  ASSUME NEW e \in Entities, NEW f \in Settable[e] \ UpdateCheck[e], NEW v \in Samples(e, f)
  PROVE  v \in EntFields[e][f]
<1>1. CASE e = "Agent"
  <2>1. f \in {"permission", "created_at", "updated_at"}
    BY <1>1 DEF Settable, AgentSetField, AgentTexts, AgentNumbers, AgentTimes, UpdateCheck, AgentUpdateCheck
  <2>2. EntFields[e][f] = Nat
    BY <1>1, <2>1 DEF EntFields, AgentFields
  <2>3. v \in {1, 5}
    BY <1>1, <2>1 DEF Samples, Numbers, AgentNumbers
  <2> QED BY <2>2, <2>3
<1>2. CASE e = "AuditLog"
  <2>1. f = "occurred_at"
    BY <1>2 DEF Settable, AuditLogSetField, AuditLogTexts, AuditLogTimes, UpdateCheck, AuditLogUpdateCheck
  <2>2. EntFields[e][f] = Nat
    BY <1>2, <2>1 DEF EntFields, AuditLogFields
  <2>3. v = 5
    BY <1>2, <2>1 DEF Samples, Numbers
  <2> QED BY <2>2, <2>3
<1>3. CASE e = "OutboxEvent"
  <2>1. f \in {"payload", "occurred_at", "retry_count", "next_retry_at"}
    BY <1>3 DEF Settable, OutboxSetField, OutboxTexts, OutboxPayload, OutboxOccurred, OutboxKey,
       OutboxNumbers, OutboxClears, OutboxNextRetry, UpdateCheck, OutboxUpdateCheck
  <2>2. CASE f = "payload"
    <3>1. EntFields[e][f] = Texts
      BY <1>3, <2>2 DEF EntFields, OutboxEventFields
    <3>2. v = "b"
      BY <1>3, <2>2 DEF Samples, Numbers, OutboxNumbers
    <3>3. "b" \in Texts
      BY Zenon DEF Texts
    <3> QED BY <3>1, <3>2, <3>3
  <2>3. CASE f # "payload"
    <3>1. EntFields[e][f] \in {Nat, Int} /\ (EntFields[e][f] = Nat \/ f = "retry_count")
      BY <1>3, <2>1, <2>3 DEF EntFields, OutboxEventFields
    <3>2. v \in {1, 5, 9}
      BY <1>3, <2>1, <2>3 DEF Samples, Numbers, OutboxNumbers
    <3> QED BY <3>1, <3>2
  <2> QED BY <2>2, <2>3
<1>4. CASE e = "User"
  <2>1. f \in {"created_at", "updated_at"}
    BY <1>4 DEF Settable, UserSetField, UserTexts, UserTimes, UpdateCheck, UserUpdateCheck
  <2>2. EntFields[e][f] = Nat
    BY <1>4, <2>1 DEF EntFields, UserFields
  <2>3. v = 5
    BY <1>4, <2>1 DEF Samples, Numbers
  <2> QED BY <2>2, <2>3
<1> QED BY <1>1, <1>2, <1>3, <1>4 DEF Entities

LEMMA SetCallOK ==
  ASSUME NEW e \in Entities, NEW fs \in SUBSET Settable[e], NEW c \in SetCalls(e, fs)
  PROVE  CallOK(e, c)
<1>0. PICK f \in fs : \E v \in Samples(e, f) : c = [do |-> "set", f |-> f, v |-> v]
  BY DEF SetCalls, CallsOn
<1>1. PICK v \in Samples(e, f) : c = [do |-> "set", f |-> f, v |-> v]
  BY <1>0
<1>2. f \notin UpdateCheck[e] => v \in EntFields[e][f]
  BY SampleType
<1> QED BY <1>1, <1>2 DEF CallOK

LEMMA OtherCallOK ==
  ASSUME NEW e \in Entities, NEW c,
         \/ c \in AddCalls(e, DOMAIN Numbers[e])
         \/ c \in ClearCalls(Clears[e])
         \/ c \in ResetCalls(Settable[e])
         \/ \E ids : c \in Edge("set", ids) \/ c \in Edge("clear", ids) \/ c \in Edge("link", ids)
                     \/ c \in Edge("unlink", ids) \/ c \in Edge("unlinkAll", ids)
  PROVE  CallOK(e, c)
<1>1. CASE c \in AddCalls(e, DOMAIN Numbers[e])
  <2>1. PICK f \in DOMAIN Numbers[e], v \in {1, 100} : c = [do |-> "add", f |-> f, v |-> v]
    BY <1>1 DEF AddCalls, CallsOn
  <2> QED BY <2>1 DEF CallOK
<1>2. CASE c \in ClearCalls(Clears[e])
  <2>1. PICK f \in Clears[e], v \in {Null} : c = [do |-> "clear", f |-> f, v |-> v]
    BY <1>2 DEF ClearCalls, CallsOn
  <2> QED BY <2>1 DEF CallOK
<1>3. CASE c \in ResetCalls(Settable[e])
  <2>1. PICK f \in Settable[e], v \in {Null} : c = [do |-> "reset", f |-> f, v |-> v]
    BY <1>3 DEF ResetCalls, CallsOn
  <2> QED BY <2>1 DEF CallOK
<1>4. CASE \E ids : c \in Edge("set", ids) \/ c \in Edge("clear", ids) \/ c \in Edge("link", ids)
                     \/ c \in Edge("unlink", ids) \/ c \in Edge("unlinkAll", ids)
  <2>1. c.f = "agent" /\ c.do \in {"set", "clear", "link", "unlink", "unlinkAll"}
    BY <1>4 DEF Edge
  <2> QED BY <2>1 DEF CallOK
<1> QED BY <1>1, <1>2, <1>3, <1>4

\* Every call of an update builder or of a hook.
LEMMA UpdateCallOK ==
  ASSUME NEW e \in Entities, NEW op \in {"update", "updateOne"},
         NEW c \in BuilderCalls(op, e) \cup HookCalls(e)
  PROVE  CallOK(e, c)
<1>1. CASE c \in HookCalls(e)
  <2>1. c \in SetCalls(e, Settable[e]) \/ c \in AddCalls(e, DOMAIN Numbers[e]) \/ c \in ClearCalls(Clears[e])
          \/ c \in ResetCalls(Settable[e])
    BY <1>1 DEF HookCalls
  <2> QED BY <2>1, SetCallOK, OtherCallOK
<1>2. CASE c \in BuilderCalls(op, e)
  <2>1. \/ e = "Agent" /\ c \in AgentUpdateCalls
        \/ e = "AuditLog" /\ c \in AuditLogUpdateCalls
        \/ e = "OutboxEvent" /\ c \in OutboxUpdateCalls
        \/ e = "User" /\ c \in UserUpdateCalls
    BY <1>2 DEF BuilderCalls, AgentUpdateOneCalls, AuditLogUpdateOneCalls, OutboxUpdateOneCalls,
                UserUpdateOneCalls, Entities
  <2>2. CASE e = "Agent" /\ c \in AgentUpdateCalls
    <3>1. AgentSetField \ {"created_at"} \subseteq Settable[e] /\ DOMAIN AgentNumbers = DOMAIN Numbers[e]
      BY <2>2 DEF Settable, Numbers
    <3>2. \/ c \in SetCalls(e, AgentSetField \ {"created_at"}) \/ c \in AddCalls(e, DOMAIN Numbers[e])
          \/ \E ids : c \in Edge("link", ids) \/ c \in Edge("unlink", ids) \/ c \in Edge("unlinkAll", ids)
      BY <2>2, <3>1 DEF AgentUpdateCalls
    <3> QED BY <3>1, <3>2, SetCallOK, OtherCallOK
  <2>3. CASE e = "AuditLog" /\ c \in AuditLogUpdateCalls
    <3>1. AuditLogTexts \subseteq Settable[e] /\ {"reason"} = Clears[e]
      BY <2>3 DEF Settable, AuditLogSetField, Clears, AuditLogClears
    <3>2. \/ c \in SetCalls(e, AuditLogTexts) \/ c \in ClearCalls(Clears[e])
          \/ \E ids : c \in Edge("set", ids) \/ c \in Edge("clear", ids)
      BY <2>3, <3>1 DEF AuditLogUpdateCalls
    <3> QED BY <3>1, <3>2, SetCallOK, OtherCallOK
  <2>4. CASE e = "OutboxEvent" /\ c \in OutboxUpdateCalls
    <3>1. /\ OutboxSetField \ {"occurred_at"} \subseteq Settable[e] /\ DOMAIN OutboxNumbers = DOMAIN Numbers[e]
          /\ {"last_error"} = Clears[e]
      BY <2>4 DEF Settable, Numbers, Clears, OutboxClears
    <3>2. \/ c \in SetCalls(e, OutboxSetField \ {"occurred_at"}) \/ c \in AddCalls(e, DOMAIN Numbers[e])
          \/ c \in ClearCalls(Clears[e])
      BY <2>4, <3>1 DEF OutboxUpdateCalls
    <3> QED BY <3>1, <3>2, SetCallOK, OtherCallOK
  <2>5. CASE e = "User" /\ c \in UserUpdateCalls
    <3>1. UserSetField \ {"created_at"} \subseteq Settable[e]
      BY <2>5 DEF Settable
    <3> QED BY <2>5, <3>1, SetCallOK DEF UserUpdateCalls
  <2> QED BY <2>1, <2>2, <2>3, <2>4, <2>5
<1> QED BY <1>1, <1>2

\* What the recursive function in Added is, on the first n calls.
Increment(said, f, i, x) ==
  IF said[i].f # f THEN x ELSE IF said[i].do = "add" THEN x + said[i].v ELSE 0
Increments(said, f, n, sum) ==
  sum = [i \in 0..n |-> IF i = 0 THEN 0 ELSE Increment(said, f, i, sum[i - 1])]

LEMMA IncrementsNext ==
  ASSUME NEW said, NEW f, NEW n \in Nat, NEW sum, Increments(said, f, n, sum)
  PROVE  \E more : Increments(said, f, n + 1, more)
<1> DEFINE more == [i \in 0..(n + 1) |-> IF i <= n THEN sum[i] ELSE Increment(said, f, n + 1, sum[n])]
<1>1. ASSUME NEW i \in 0..(n + 1)
      PROVE  more[i] = IF i = 0 THEN 0 ELSE Increment(said, f, i, more[i - 1])
  <2>0. i \in Nat /\ n \in Nat
    OBVIOUS
  <2>1. CASE i = n + 1
    <3>1. more[i] = Increment(said, f, n + 1, sum[n])
      BY <2>1
    <3>2. more[n] = sum[n]
      OBVIOUS
    <3>3. i - 1 = n /\ i # 0
      BY <2>0, <2>1
    <3> QED BY <2>1, <3>1, <3>2, <3>3
  <2>2. CASE i # n + 1
    <3>1. i \in 0..n /\ more[i] = sum[i]
      BY <2>2
    <3>2. sum[i] = IF i = 0 THEN 0 ELSE Increment(said, f, i, sum[i - 1])
      BY <3>1 DEF Increments
    <3>3. i # 0 => more[i - 1] = sum[i - 1]
      BY <3>1
    <3> QED BY <3>1, <3>2, <3>3
  <2> QED BY <2>1, <2>2
<1>2. more = [i \in 0..(n + 1) |-> IF i = 0 THEN 0 ELSE Increment(said, f, i, more[i - 1])]
  BY <1>1
<1> QED BY <1>2 DEF Increments

\* The recursive definition of Added has a solution.
LEMMA IncrementsExist ==
  ASSUME NEW said, NEW f, NEW n \in Nat
  PROVE  \E sum : Increments(said, f, n, sum)
<1> DEFINE Wrong == {m \in Nat : ~\E sum : Increments(said, f, m, sum)}
<1>1. SUFFICES ASSUME Wrong # {} PROVE FALSE
  OBVIOUS
<1>2. Wrong \in SUBSET Nat
  OBVIOUS
<1>3. PICK m \in Wrong : \A j \in Wrong : m <= j
  BY <1>1, <1>2, LeastOf, Zenon
<1>4. CASE m = 0
  <2>1. Increments(said, f, 0, [i \in 0..0 |-> 0])
    BY DEF Increments
  <2> QED BY <2>1, <1>4
<1>5. CASE m # 0
  <2>1. m - 1 \in Nat /\ ~(m <= m - 1) /\ (m - 1) + 1 = m
    BY <1>5
  <2>2. PICK sum : Increments(said, f, m - 1, sum)
    BY <2>1, <1>3
  <2> QED BY <2>1, <2>2, IncrementsNext
<1> QED BY <1>4, <1>5

LEMMA AddedIs ==
  ASSUME NEW said, Len(said) \in Nat, NEW f
  PROVE  \E sum : Increments(said, f, Len(said), sum) /\ Added(said, f) = sum[Len(said)]
<1>1. PICK sum : sum = CHOOSE x : Increments(said, f, Len(said), x)
  OBVIOUS
<1>2. Increments(said, f, Len(said), sum)
  BY <1>1, IncrementsExist
<1>3. Added(said, f) = sum[Len(said)]
  BY <1>1 DEF Added, Increments, Increment
<1> QED BY <1>2, <1>3

\* Two calls' sums agree as far as the calls do.
LEMMA IncrementsAgree ==
  ASSUME NEW said, NEW more, NEW f, NEW n \in Nat, NEW m \in Nat, n <= m,
         \A i \in 1..n : said[i] = more[i],
         NEW s1, Increments(said, f, n, s1), NEW s2, Increments(more, f, m, s2)
  PROVE  s1[n] = s2[n]
<1> DEFINE Wrong == {i \in Nat : i <= n /\ s1[i] # s2[i]}
<1>1. SUFFICES ASSUME Wrong # {} PROVE FALSE
  OBVIOUS
<1>2. Wrong \in SUBSET Nat
  OBVIOUS
<1>3. PICK i \in Wrong : \A j \in Wrong : i <= j
  BY <1>1, <1>2, LeastOf, Zenon
<1>4. /\ s1[i] = IF i = 0 THEN 0 ELSE Increment(said, f, i, s1[i - 1])
      /\ s2[i] = IF i = 0 THEN 0 ELSE Increment(more, f, i, s2[i - 1])
  BY DEF Increments
<1>5. i # 0
  BY <1>4
<1>6. i - 1 \in Nat /\ i - 1 <= n /\ ~(i <= i - 1) /\ i \in 1..n
  BY <1>5
<1>7. s1[i - 1] = s2[i - 1] /\ said[i] = more[i]
  BY <1>3, <1>6
<1> QED BY <1>4, <1>5, <1>7 DEF Increment

LEMMA AddedAppend ==
  ASSUME NEW S, NEW said \in Seq(S), NEW c \in S, NEW f
  PROVE  Added(Append(said, c), f) =
           IF c.f # f THEN Added(said, f) ELSE IF c.do = "add" THEN Added(said, f) + c.v ELSE 0
<1>0. PICK n \in Nat : n = Len(said)
  OBVIOUS
<1>1. PICK more : more = Append(said, c)
  OBVIOUS
<1>2. Len(more) = n + 1 /\ more[n + 1] = c /\ \A i \in 1..n : said[i] = more[i]
  BY <1>0, <1>1
<1>3. PICK s1 : Increments(said, f, n, s1) /\ Added(said, f) = s1[n]
  BY <1>0, AddedIs
<1>4. PICK s2 : Increments(more, f, n + 1, s2) /\ Added(more, f) = s2[n + 1]
  BY <1>0, <1>2, AddedIs
<1>5. s1[n] = s2[n]
  BY <1>0, <1>2, <1>3, <1>4, IncrementsAgree
<1>6. s2[n + 1] = Increment(more, f, n + 1, s2[n])
  <2>1. n + 1 \in 0..(n + 1) /\ n + 1 # 0 /\ (n + 1) - 1 = n
    BY <1>0
  <2> QED BY <1>4, <2>1 DEF Increments
<1> QED BY <1>1, <1>2, <1>3, <1>4, <1>5, <1>6 DEF Increment

LEMMA AddedEmpty == ASSUME NEW f PROVE Added(<<>>, f) = 0
<1>1. Len(<<>>) = 0
  OBVIOUS
<1>2. PICK sum : Increments(<<>>, f, 0, sum) /\ Added(<<>>, f) = sum[0]
  BY <1>1, AddedIs
<1> QED BY <1>2 DEF Increments

-----------------------------------------------------------------------------
\* The last call on f that is not an addition.
LEMMA LastBaseIs ==
  ASSUME NEW S, NEW said \in Seq(S), NEW f
  PROVE  \/ Bases(said, f) = {} /\ LastBase(said, f) = 0
         \/ LastBase(said, f) \in Bases(said, f) /\ \A j \in Bases(said, f) : j <= LastBase(said, f)
<1>0. PICK n \in Nat : n = Len(said) /\ DOMAIN said = 1..n
  OBVIOUS
<1> DEFINE B == Bases(said, f)
<1>1. B \subseteq 1..n
  BY <1>0 DEF Bases
<1>2. CASE B # {}
  <2> DEFINE T == {n - i : i \in B}
  <2>1. T \in SUBSET Nat /\ T # {}
    BY <1>1, <1>2
  <2>2. PICK x \in T : \A y \in T : x <= y
    BY <2>1, LeastOf, Zenon
  <2>3. PICK i \in B : x = n - i
    OBVIOUS
  <2>4. \A j \in B : n - i <= n - j
    BY <2>2, <2>3
  <2>5. \A j \in B : j <= i
    BY <1>1, <2>4
  <2>6. LastBase(said, f) = CHOOSE k \in B : \A j \in B : j <= k
    BY <1>2 DEF LastBase
  <2> QED BY <2>5, <2>6
<1>3. CASE B = {}
  BY <1>3 DEF LastBase
<1> QED BY <1>2, <1>3

\* The last base is the only one that no other comes after.
LEMMA LastBaseUnique ==
  ASSUME NEW S, NEW said \in Seq(S), NEW f, NEW k \in Bases(said, f), \A j \in Bases(said, f) : j <= k
  PROVE  LastBase(said, f) = k
<1>1. Bases(said, f) \subseteq Nat
  BY DEF Bases
<1>2. LastBase(said, f) \in Bases(said, f) /\ \A j \in Bases(said, f) : j <= LastBase(said, f)
  BY LastBaseIs
<1> QED BY <1>1, <1>2

LEMMA BasesAppend ==
  ASSUME NEW S, NEW said \in Seq(S), NEW c \in S, NEW f
  PROVE  Bases(Append(said, c), f) =
           IF c.f = f /\ c.do # "add" THEN Bases(said, f) \cup {Len(said) + 1} ELSE Bases(said, f)
<1>0. PICK n \in Nat : n = Len(said) /\ DOMAIN said = 1..n
  OBVIOUS
<1>1. PICK more : more = Append(said, c)
  OBVIOUS
<1>2. DOMAIN more = 1..(n + 1) /\ more[n + 1] = c /\ \A i \in 1..n : said[i] = more[i]
  BY <1>0, <1>1
<1>3. DOMAIN more = DOMAIN said \cup {n + 1} /\ n + 1 \notin DOMAIN said
  BY <1>0, <1>2
<1> QED BY <1>0, <1>1, <1>2, <1>3 DEF Bases

\* What one more call means for field f.
SaidMore(said, more, c, f) ==
  /\ LastBase(said, f) # 0 => more[LastBase(said, f)] = said[LastBase(said, f)]
  /\ c.f # f => LastBase(more, f) = LastBase(said, f) /\ Adds(more, f) = Adds(said, f)
  /\ c.f = f /\ c.do # "add" =>
       LastBase(more, f) # 0 /\ more[LastBase(more, f)] = c /\ Adds(more, f) = {}
  /\ c.f = f /\ c.do = "add" => LastBase(more, f) = LastBase(said, f) /\ Adds(more, f) # {}

LEMMA SaidAppend ==
  ASSUME NEW S, NEW said \in Seq(S), NEW c \in S, NEW f
  PROVE  SaidMore(said, Append(said, c), c, f)
<1>0. PICK n \in Nat : n = Len(said) /\ DOMAIN said = 1..n
  OBVIOUS
<1>1. PICK more : more = Append(said, c)
  OBVIOUS
<1>2. /\ DOMAIN more = 1..(n + 1) /\ more[n + 1] = c /\ \A i \in 1..n : said[i] = more[i]
      /\ more \in Seq(S)
  BY <1>0, <1>1
<1>3. PICK last : last = LastBase(said, f)
  OBVIOUS
<1>4. Bases(said, f) \subseteq 1..n
  BY <1>0 DEF Bases
<1>5. last = 0 \/ last \in 1..n
  <2>1. LastBase(said, f) = 0 \/ LastBase(said, f) \in Bases(said, f)
    BY LastBaseIs
  <2> QED BY <1>3, <1>4, <2>1
<1>6. last # 0 => more[last] = said[last]
  BY <1>2, <1>5
<1>7. Bases(more, f) = IF c.f = f /\ c.do # "add" THEN Bases(said, f) \cup {n + 1} ELSE Bases(said, f)
  BY <1>0, <1>1, BasesAppend
<1>8. ASSUME ~(c.f = f /\ c.do # "add") PROVE LastBase(more, f) = last
  <2>1. Bases(more, f) = Bases(said, f)
    BY <1>7, <1>8
  <2>2. CASE Bases(said, f) = {}
    BY <1>3, <2>1, <2>2 DEF LastBase
  <2>3. CASE Bases(said, f) # {}
    <3>1. last \in Bases(more, f) /\ \A j \in Bases(more, f) : j <= last
      BY <1>3, <2>1, <2>3, LastBaseIs
    <3> QED BY <1>2, <3>1, LastBaseUnique
  <2> QED BY <2>2, <2>3
<1>9. ASSUME c.f = f, c.do # "add" PROVE LastBase(more, f) = n + 1
  <2>1. n + 1 \in Bases(more, f) /\ \A j \in Bases(more, f) : j <= n + 1
    BY <1>4, <1>7, <1>9
  <2> QED BY <1>2, <2>1, LastBaseUnique
<1>10. ASSUME c.f # f PROVE Adds(more, f) = Adds(said, f)
  BY <1>0, <1>2, <1>3, <1>8, <1>10 DEF Adds
<1>11. ASSUME c.f = f, c.do # "add" PROVE Adds(more, f) = {}
  BY <1>2, <1>9, <1>11 DEF Adds
<1>12. ASSUME c.f = f, c.do = "add" PROVE n + 1 \in Adds(more, f)
  BY <1>2, <1>5, <1>8, <1>12 DEF Adds
<1>13. ASSUME c.f = f, c.do # "add"
       PROVE  LastBase(more, f) # 0 /\ more[LastBase(more, f)] = c
  BY <1>2, <1>9, <1>13
<1>14. SaidMore(said, more, c, f)
  BY <1>3, <1>6, <1>8, <1>10, <1>11, <1>12, <1>13 DEF SaidMore
<1> QED BY <1>1, <1>14

\* The calls, by the parts of the mutation they change.
LEMMA SetFacts ==
  ASSUME NEW e, NEW m, DOMAIN m = MutationFields, NEW c, c.do = "set"
  PROVE  LET m2 == Apply(e, m, c) IN
         /\ DOMAIN m2 = MutationFields /\ m2.clear = m.clear
         /\ m2.set = Put(m.set, c.f, c.v) /\ m2.add = Without(m.add, c.f)
BY DEF Apply, SetField, MutationFields

LEMMA AddFacts ==
  ASSUME NEW e, NEW m, DOMAIN m = MutationFields, NEW c, c.do = "add"
  PROVE  LET m2 == Apply(e, m, c) IN
         /\ DOMAIN m2 = MutationFields /\ m2.clear = m.clear /\ m2.set = m.set
         /\ m2.add = Put(m.add, c.f, IF c.f \in DOMAIN m.add
                                     THEN Wrap(Numbers[e][c.f], m.add[c.f] + c.v) ELSE c.v)
BY DEF Apply, AddField, MutationFields

LEMMA ClearFacts ==
  ASSUME NEW e, NEW m, DOMAIN m = MutationFields, NEW c, c.do = "clear"
  PROVE  LET m2 == Apply(e, m, c) IN
         /\ DOMAIN m2 = MutationFields /\ m2.add = m.add /\ m2.clear = m.clear \cup {c.f}
         /\ m2.set = IF c.f = "agent" THEN m.set ELSE Without(m.set, c.f)
BY DEF Apply, ClearField, MutationFields

LEMMA ResetFacts ==
  ASSUME NEW e, NEW m, DOMAIN m = MutationFields, NEW c, c.do = "reset"
  PROVE  LET m2 == Apply(e, m, c) IN
         /\ DOMAIN m2 = MutationFields /\ m2.clear = m.clear \ {c.f}
         /\ m2.set = Without(m.set, c.f) /\ m2.add = Without(m.add, c.f)
BY DEF Apply, ResetField, MutationFields

LEMMA EdgeFacts ==
  ASSUME NEW e, NEW m, DOMAIN m = MutationFields, NEW c, c.do \in {"link", "unlink", "unlinkAll"}
  PROVE  LET m2 == Apply(e, m, c) IN
         DOMAIN m2 = MutationFields /\ m2.set = m.set /\ m2.add = m.add /\ m2.clear = m.clear
BY DEF Apply, EdgeCall, MutationFields

\* A call on another field.
LEMMA HeardOther ==
  ASSUME NEW e, NEW m, NEW m2, NEW S, NEW said \in Seq(S), NEW c \in S, NEW f, c.f # f,
         f \in DOMAIN m2.set <=> f \in DOMAIN m.set, f \in DOMAIN m.set => m2.set[f] = m.set[f],
         f \in DOMAIN m2.add <=> f \in DOMAIN m.add, f \in DOMAIN m.add => m2.add[f] = m.add[f],
         f \in m2.clear <=> f \in m.clear,
         Heard(e, m, said, f)
  PROVE  Heard(e, m2, Append(said, c), f)
<1>1. PICK more : more = Append(said, c)
  OBVIOUS
<1>2. PICK last : last = LastBase(said, f)
  OBVIOUS
<1>3. /\ last # 0 => more[last] = said[last]
      /\ LastBase(more, f) = last /\ Adds(more, f) = Adds(said, f)
  <2>1. SaidMore(said, Append(said, c), c, f)
    BY SaidAppend
  <2> QED BY <1>1, <1>2, <2>1 DEF SaidMore
<1>4. Added(more, f) = Added(said, f)
  BY <1>1, AddedAppend
<1>5. Heard(e, m2, more, f)
  BY <1>2, <1>3, <1>4 DEF Heard
<1> QED BY <1>1, <1>5

\* Adding up in the width of the delta is adding up and cutting off once.
LEMMA WrapAdds ==
  ASSUME NEW bits \in {8, 64}, NEW sum \in Nat, NEW v \in Nat
  PROVE  Wrap(bits, Wrap(bits, sum) + v) = Wrap(bits, sum + v)
<1>1. CASE bits = 8
  <2>1. (((sum + 128) % 256) - 128 + v + 128) % 256 = (sum + v + 128) % 256
    OBVIOUS
  <2> QED BY <1>1, <2>1 DEF Wrap
<1>2. CASE bits # 8
  BY <1>2 DEF Wrap
<1> QED BY <1>1, <1>2

LEMMA WrapSmall ==
  ASSUME NEW bits \in {8, 64}, NEW v \in {1, 100}
  PROVE  Wrap(bits, 0 + v) = v
BY DEF Wrap

LEMMA HeardStep ==
  ASSUME NEW e \in Entities, NEW m, MutationOK(e, m), NEW S, NEW said \in Seq(S), NEW c \in S,
         CallOK(e, c), NEW f \in Settable[e], Heard(e, m, said, f)
  PROVE  Heard(e, Apply(e, m, c), Append(said, c), f)
<1>0. DOMAIN m = MutationFields /\ DOMAIN m.add \subseteq DOMAIN Numbers[e]
  BY DEF MutationOK
<1>1. PICK m2 : m2 = Apply(e, m, c)
  OBVIOUS
<1>2. PICK more : more = Append(said, c)
  OBVIOUS
<1>3. f # "agent" /\ Clears[e] \cap DOMAIN Numbers[e] = {}
  BY SchemaSets, SchemaKinds
<1> DEFINE last == LastBase(more, f)
<1>4. /\ c.f = f /\ c.do # "add" => last # 0 /\ more[last] = c /\ Adds(more, f) = {}
      /\ c.f = f /\ c.do # "add" => Added(more, f) = 0
  <2>1. c.f = f /\ c.do # "add" => last # 0 /\ more[last] = c /\ Adds(more, f) = {}
    <3>1. SaidMore(said, Append(said, c), c, f)
      BY SaidAppend
    <3> QED BY <1>2, <3>1 DEF SaidMore
  <2>2. c.f = f /\ c.do # "add" => Added(more, f) = 0
    BY <1>2, AddedAppend
  <2> QED BY <2>1, <2>2
<1> HIDE DEF last
<1>5. CASE c.do = "set"
  <2>1. m2.clear = m.clear /\ m2.set = Put(m.set, c.f, c.v) /\ m2.add = Without(m.add, c.f)
    BY <1>0, <1>1, <1>5, SetFacts
  <2>2. CASE c.f = f
    <3>1. f \in DOMAIN m2.set /\ m2.set[f] = c.v /\ f \notin DOMAIN m2.add
      BY <2>1, <2>2 DEF Put, Over, Without, Restrict
    <3>2. Heard(e, m2, more, f)
      BY <1>4, <1>5, <2>2, <3>1 DEF Heard, last
    <3> QED BY <1>1, <1>2, <3>2
  <2>3. CASE c.f # f
    <3>1. /\ f \in DOMAIN m2.set <=> f \in DOMAIN m.set
          /\ f \in DOMAIN m.set => m2.set[f] = m.set[f]
          /\ f \in DOMAIN m2.add <=> f \in DOMAIN m.add
          /\ f \in DOMAIN m.add => m2.add[f] = m.add[f]
      BY <2>1, <2>3 DEF Put, Over, Without, Restrict
    <3> QED BY <1>1, <2>1, <2>3, <3>1, HeardOther
  <2> QED BY <2>2, <2>3
<1>6. CASE c.do = "add"
  <2>1. /\ m2.clear = m.clear /\ m2.set = m.set
        /\ m2.add = Put(m.add, c.f, IF c.f \in DOMAIN m.add
                                     THEN Wrap(Numbers[e][c.f], m.add[c.f] + c.v) ELSE c.v)
    BY <1>0, <1>1, <1>6, AddFacts
  <2>2. CASE c.f = f
    <3>1. /\ f \in DOMAIN m2.add
          /\ m2.add[f] = IF f \in DOMAIN m.add THEN Wrap(Numbers[e][f], m.add[f] + c.v) ELSE c.v
      BY <2>1, <2>2 DEF Put, Over
    <3>2. c.v \in {1, 100} /\ Numbers[e][f] \in {8, 64}
      BY <1>6, <2>2, SchemaKinds DEF CallOK
    <3>3. Added(more, f) = Added(said, f) + c.v /\ Added(said, f) \in Nat
      BY <1>2, <1>6, <2>2, AddedAppend DEF Heard
    <3>4. m2.add[f] = Wrap(Numbers[e][f], Added(more, f))
      <4>1. CASE f \in DOMAIN m.add
        <5>1. m.add[f] = Wrap(Numbers[e][f], Added(said, f))
          BY <4>1 DEF Heard
        <5>2. c.v \in Nat
          BY <3>2
        <5>3. Wrap(Numbers[e][f], Wrap(Numbers[e][f], Added(said, f)) + c.v)
                = Wrap(Numbers[e][f], Added(said, f) + c.v)
          BY <3>2, <3>3, <5>2, WrapAdds
        <5> QED BY <3>1, <3>3, <4>1, <5>1, <5>3
      <4>2. CASE f \notin DOMAIN m.add
        <5>1. Added(said, f) = 0
          BY <4>2 DEF Heard
        <5>2. Wrap(Numbers[e][f], 0 + c.v) = c.v
          BY <3>2, WrapSmall
        <5> QED BY <3>1, <3>3, <4>2, <5>1, <5>2
      <4> QED BY <4>1, <4>2
    <3>5. PICK old : old = LastBase(said, f) /\ last = old /\ Adds(more, f) # {}
                       /\ (old # 0 => more[old] = said[old])
      <4>1. PICK old : old = LastBase(said, f)
        OBVIOUS
      <4>2. /\ old # 0 => more[old] = said[old]
            /\ c.f = f /\ c.do = "add" => LastBase(more, f) = old /\ Adds(more, f) # {}
        <5>1. SaidMore(said, Append(said, c), c, f)
          BY SaidAppend
        <5> QED BY <1>2, <4>1, <5>1 DEF SaidMore
      <4> QED BY <1>6, <2>2, <4>1, <4>2 DEF last
    <3>6. Added(more, f) \in Nat
      BY <3>2, <3>3
    <3>7. Heard(e, m2, more, f)
      BY <2>1, <3>1, <3>4, <3>5, <3>6 DEF Heard, last
    <3> QED BY <1>1, <1>2, <3>7
  <2>3. CASE c.f # f
    <3>1. /\ f \in DOMAIN m2.add <=> f \in DOMAIN m.add
          /\ f \in DOMAIN m.add => m2.add[f] = m.add[f]
      BY <2>1, <2>3 DEF Put, Over
    <3> QED BY <1>1, <2>1, <2>3, <3>1, HeardOther
  <2> QED BY <2>2, <2>3
<1>7. CASE c.do = "clear"
  <2>1. /\ m2.add = m.add /\ m2.clear = m.clear \cup {c.f}
        /\ m2.set = IF c.f = "agent" THEN m.set ELSE Without(m.set, c.f)
    BY <1>0, <1>1, <1>7, ClearFacts
  <2>2. CASE c.f = f
    <3>1. f \in m2.clear /\ f \notin DOMAIN m2.set
      BY <1>3, <2>1, <2>2 DEF Without, Restrict
    <3>2. f \in Clears[e]
      BY <1>3, <1>7, <2>2 DEF CallOK
    <3>3. f \notin DOMAIN m2.add
      BY <1>0, <1>3, <2>1, <3>2
    <3>4. Heard(e, m2, more, f)
      BY <1>4, <1>7, <2>2, <3>1, <3>3 DEF Heard, last
    <3> QED BY <1>1, <1>2, <3>4
  <2>3. CASE c.f # f
    <3>1. /\ f \in DOMAIN m2.set <=> f \in DOMAIN m.set
          /\ f \in DOMAIN m.set => m2.set[f] = m.set[f]
          /\ f \in m2.clear <=> f \in m.clear
      BY <2>1, <2>3 DEF Without, Restrict
    <3> QED BY <1>1, <2>1, <2>3, <3>1, HeardOther
  <2> QED BY <2>2, <2>3
<1>8. CASE c.do = "reset"
  <2>1. /\ m2.clear = m.clear \ {c.f}
        /\ m2.set = Without(m.set, c.f) /\ m2.add = Without(m.add, c.f)
    BY <1>0, <1>1, <1>8, ResetFacts
  <2>2. CASE c.f = f
    <3>1. f \notin m2.clear /\ f \notin DOMAIN m2.set /\ f \notin DOMAIN m2.add
      BY <2>1, <2>2 DEF Without, Restrict
    <3>2. Heard(e, m2, more, f)
      BY <1>4, <1>8, <2>2, <3>1 DEF Heard, last
    <3> QED BY <1>1, <1>2, <3>2
  <2>3. CASE c.f # f
    <3>1. /\ f \in DOMAIN m2.set <=> f \in DOMAIN m.set
          /\ f \in DOMAIN m.set => m2.set[f] = m.set[f]
          /\ f \in DOMAIN m2.add <=> f \in DOMAIN m.add
          /\ f \in DOMAIN m.add => m2.add[f] = m.add[f]
          /\ f \in m2.clear <=> f \in m.clear
      BY <2>1, <2>3 DEF Without, Restrict
    <3> QED BY <1>1, <2>1, <2>3, <3>1, HeardOther
  <2> QED BY <2>2, <2>3
<1>9. CASE c.do \in {"link", "unlink", "unlinkAll"}
  <2>1. m2.set = m.set /\ m2.add = m.add /\ m2.clear = m.clear
    BY <1>0, <1>1, <1>9, EdgeFacts
  <2>2. c.f # f
    BY <1>3, <1>9 DEF CallOK
  <2> QED BY <1>1, <2>1, <2>2, HeardOther
<1> QED BY <1>5, <1>6, <1>7, <1>8, <1>9 DEF CallOK

LEMMA MutationApply ==
  ASSUME NEW e \in Entities, NEW m, MutationOK(e, m), NEW c, CallOK(e, c)
  PROVE  MutationOK(e, Apply(e, m, c))
<1>0. DOMAIN m = MutationFields /\ DOMAIN m.add \subseteq DOMAIN Numbers[e]
      /\ m.clear \subseteq Clears[e] \cup {"agent"}
  BY DEF MutationOK
<1>1. PICK m2 : m2 = Apply(e, m, c)
  OBVIOUS
<1>2. "agent" \notin Settable[e]
  BY SchemaSets
<1>3. \A f \in DOMAIN m.set \cap (Settable[e] \ UpdateCheck[e]) : m.set[f] \in EntFields[e][f]
  BY DEF MutationOK
<1>5. CASE c.do = "set"
  <2>1. DOMAIN m2 = MutationFields /\ m2.clear = m.clear /\ m2.set = Put(m.set, c.f, c.v) /\ m2.add = Without(m.add, c.f)
    BY <1>0, <1>1, <1>5, SetFacts
  <2>2. c.f \in Settable[e] \ UpdateCheck[e] => c.v \in EntFields[e][c.f]
    BY <1>2, <1>5 DEF CallOK
  <2>3. \A f \in DOMAIN m2.set \cap (Settable[e] \ UpdateCheck[e]) : m2.set[f] \in EntFields[e][f]
    BY <1>3, <2>1, <2>2 DEF Put, Over
  <2>4. DOMAIN m2.add \subseteq DOMAIN Numbers[e]
    BY <1>0, <2>1 DEF Without, Restrict
  <2> QED BY <1>0, <1>1, <2>1, <2>3, <2>4 DEF MutationOK
<1>6. CASE c.do = "add"
  <2>1. PICK v : DOMAIN m2 = MutationFields /\ m2.clear = m.clear /\ m2.set = m.set /\ m2.add = Put(m.add, c.f, v)
    <3>1. PICK v : v = IF c.f \in DOMAIN m.add
                       THEN Wrap(Numbers[e][c.f], m.add[c.f] + c.v) ELSE c.v
      OBVIOUS
    <3>2. /\ DOMAIN m2 = MutationFields /\ m2.clear = m.clear /\ m2.set = m.set
          /\ m2.add = Put(m.add, c.f, v)
      BY <1>0, <1>1, <1>6, <3>1, AddFacts
    <3> QED BY <3>2
  <2>2. c.f \in DOMAIN Numbers[e]
    BY <1>6 DEF CallOK
  <2>3. DOMAIN m2.add \subseteq DOMAIN Numbers[e]
    BY <1>0, <2>1, <2>2 DEF Put, Over
  <2> QED BY <1>0, <1>1, <1>3, <2>1, <2>3 DEF MutationOK
<1>7. CASE c.do = "clear"
  <2>1. /\ DOMAIN m2 = MutationFields /\ m2.add = m.add /\ m2.clear = m.clear \cup {c.f}
        /\ m2.set = IF c.f = "agent" THEN m.set ELSE Without(m.set, c.f)
    BY <1>0, <1>1, <1>7, ClearFacts
  <2>2. c.f \in Clears[e] \cup {"agent"}
    BY <1>7 DEF CallOK
  <2>3. \A f \in DOMAIN m2.set \cap (Settable[e] \ UpdateCheck[e]) : m2.set[f] \in EntFields[e][f]
    BY <1>3, <2>1 DEF Without, Restrict
  <2> QED BY <1>0, <1>1, <2>1, <2>2, <2>3 DEF MutationOK
<1>8. CASE c.do = "reset"
  <2>1. /\ DOMAIN m2 = MutationFields /\ m2.clear = m.clear \ {c.f}
        /\ m2.set = Without(m.set, c.f) /\ m2.add = Without(m.add, c.f)
    BY <1>0, <1>1, <1>8, ResetFacts
  <2>3. \A f \in DOMAIN m2.set \cap (Settable[e] \ UpdateCheck[e]) : m2.set[f] \in EntFields[e][f]
    BY <1>3, <2>1 DEF Without, Restrict
  <2>4. DOMAIN m2.add \subseteq DOMAIN Numbers[e]
    BY <1>0, <2>1 DEF Without, Restrict
  <2> QED BY <1>0, <1>1, <2>1, <2>3, <2>4 DEF MutationOK
<1>9. CASE c.do \in {"link", "unlink", "unlinkAll"}
  <2>1. DOMAIN m2 = MutationFields /\ m2.set = m.set /\ m2.add = m.add /\ m2.clear = m.clear
    BY <1>0, <1>1, <1>9, EdgeFacts
  <2> QED BY <1>0, <1>1, <1>3, <2>1 DEF MutationOK
<1> QED BY <1>5, <1>6, <1>7, <1>8, <1>9 DEF CallOK

-----------------------------------------------------------------------------
\* What an update that is not refused writes is what was asked for.
LEMMA AskedIs ==
  ASSUME NEW e \in Entities, NEW m, MutationOK(e, m), NEW said, NEW f \in Settable[e],
         Heard(e, m, said, f), NEW old,
         ~(f \in DOMAIN m.set /\ (f \in DOMAIN m.add \/ f \in m.clear))
  PROVE  NewColumn(m, old, f) = Asked(e, old, said, f)
<1>0. /\ f \in m.clear => f \notin DOMAIN m.add
  BY SchemaSets, SchemaKinds DEF MutationOK
<1>1. PICK last : last = LastBase(said, f)
  OBVIOUS
<1>2. PICK n : n = Wrap(Numbers[e][f], Added(said, f))
  OBVIOUS
<1>3. CASE last # 0 /\ said[last].do = "set"
  <2>1. f \in DOMAIN m.set /\ m.set[f] = said[last].v /\ f \notin DOMAIN m.add
    BY <1>1, <1>3 DEF Heard
  <2>2. Adds(said, f) = {}
    BY <2>1 DEF Heard
  <2>3. Asked(e, old, said, f) = said[last].v
    BY <1>1, <1>3, <2>2 DEF Asked
  <2> QED BY <2>1, <2>3 DEF NewColumn
<1>4. CASE last # 0 /\ said[last].do = "clear"
  <2>1. f \notin DOMAIN m.set /\ f \in m.clear /\ f \notin DOMAIN m.add
    BY <1>0, <1>1, <1>4 DEF Heard
  <2>2. Adds(said, f) = {}
    BY <2>1 DEF Heard
  <2>3. Asked(e, old, said, f) = Null
    BY <1>1, <1>4, <2>2 DEF Asked
  <2> QED BY <2>1, <2>3 DEF NewColumn
<1>5. CASE last = 0 \/ said[last].do \notin {"set", "clear"}
  <2>1. f \notin DOMAIN m.set /\ f \notin m.clear
    BY <1>1, <1>5 DEF Heard
  <2>2. CASE Adds(said, f) = {}
    <3>1. f \notin DOMAIN m.add
      BY <2>2 DEF Heard
    <3>2. Asked(e, old, said, f) = old
      BY <1>1, <1>5, <2>2 DEF Asked
    <3> QED BY <2>1, <3>1, <3>2 DEF NewColumn
  <2>3. CASE Adds(said, f) # {}
    <3>1. f \in DOMAIN m.add /\ m.add[f] = n
      BY <1>2, <2>3 DEF Heard
    <3>2. Asked(e, old, said, f) = old + n
      BY <1>1, <1>2, <1>5, <2>3 DEF Asked
    <3> QED BY <2>1, <3>1, <3>2 DEF NewColumn
  <2> QED BY <2>2, <2>3
<1> QED BY <1>3, <1>4, <1>5

\* No log can be taken over, for each has its agent.
LEMMA LinkKeeps ==
  ASSUME NEW d, DBOK(d), NEW ids, NEW m
  PROVE  LinkLogs(d, ids, m).db = d
<1>1. \A l \in DOMAIN d.AuditLog : d.AuditLog[l].col.agent # Null
  BY NullAssumption DEF DBOK, RowsOK
<1>2. CASE m.link = {} \/ ids = {}
  BY <1>2 DEF LinkLogs, Done
<1>3. CASE ~(m.link = {} \/ ids = {})
  <2>1. \E l \in m.link : l \notin DOMAIN d.AuditLog \/ d.AuditLog[l].col.agent # Null
    BY <1>1, <1>3
  <2>2. LinkLogs(d, ids, m) = Failed(d, "ent")
    BY <1>3, <2>1 DEF LinkLogs
  <2> QED BY <2>2 DEF Failed
<1> QED BY <1>2, <1>3

LEMMA TryIs ==
  ASSUME NEW d, NEW d2
  PROVE  /\ DBAccepts(d2) => Try(d, d2).db = d2 /\ Try(d, d2).err = "ok"
         /\ ~DBAccepts(d2) => Try(d, d2).db = d /\ Try(d, d2).err # "ok"
BY DEF Try, Done, Failed

LEMMA AcceptedOK ==
  ASSUME NEW d, RowsOK(d), DBAccepts(d)
  PROVE  DBOK(d)
BY DEF DBAccepts, DBOK

\* An INSERT of a mutation that passed check.
LEMMA InsertRowOK ==
  ASSUME NEW d, RowsOK(d), NEW e \in Entities, NEW m, createCheck(e, m), m.id \in Nat
  PROVE  /\ RowsOK(InsertRow(d, e, m))
         /\ e = "Agent" => InsertRow(d, e, m).AuditLog = d.AuditLog
<1>0. DOMAIN d = Entities
  BY DEF RowsOK
<1>1. PICK col : col = [f \in CreateSpec[e] |-> IF f \in DOMAIN m.set THEN m.set[f] ELSE Null]
  OBVIOUS
<1>2. RowOK(e, Row(col))
  <2>1. DOMAIN Row(col) = {"col", "added"} /\ Row(col).col = col
    BY DEF Row
  <2>2. DOMAIN col = CreateSpec[e]
    BY <1>1
  <2>3. ASSUME NEW f \in DOMAIN EntFields[e]
        PROVE  col[f] \in EntFields[e][f] \/ (f \in Nullable[e] /\ col[f] = Null)
    <3>1. f \in CreateSpec[e]
      BY SchemaSets
    <3>2. CASE f \in DOMAIN m.set
      BY <1>1, <3>1, <3>2 DEF createCheck
    <3>3. CASE f \notin DOMAIN m.set
      <4>1. f \in Nullable[e]
        BY <3>3, SchemaKinds DEF createCheck
      <4> QED BY <1>1, <3>1, <3>3, <4>1
    <3> QED BY <3>2, <3>3
  <2> QED BY <2>1, <2>2, <2>3 DEF RowOK
<1>3. PICK t : t = Put(d[e], m.id, Row(col))
  OBVIOUS
<1>4. /\ DOMAIN t = DOMAIN d[e] \cup {m.id} /\ t = [x \in DOMAIN t |-> t[x]]
      /\ \A x \in DOMAIN t : t[x] = IF x = m.id THEN Row(col) ELSE d[e][x]
  BY <1>3 DEF Put, Over
<1>5. PICK d2 : d2 = InsertRow(d, e, m)
  OBVIOUS
<1>6. d2 = [d EXCEPT ![e] = t]
  BY <1>1, <1>3, <1>5 DEF InsertRow
<1>7. DOMAIN d2 = Entities /\ d2[e] = t /\ \A x \in Entities \ {e} : d2[x] = d[x]
  BY <1>0, <1>6
<1>8. "Agent" \in Entities /\ "AuditLog" \in Entities
  BY DEF Entities
<1>9. DOMAIN d2.Agent \subseteq Nat
  <2>1. CASE e = "Agent"
    BY <1>4, <1>7, <2>1 DEF RowsOK
  <2>2. CASE e # "Agent"
    BY <1>7, <1>8, <2>2 DEF RowsOK
  <2> QED BY <2>1, <2>2
<1>10. d2.AuditLog = [l \in DOMAIN d2.AuditLog |-> d2.AuditLog[l]]
  <2>1. CASE e = "AuditLog"
    BY <1>4, <1>7, <2>1
  <2>2. CASE e # "AuditLog"
    BY <1>7, <1>8, <2>2 DEF RowsOK
  <2> QED BY <2>1, <2>2
<1>11. \A x \in Entities : \A i \in DOMAIN d2[x] : RowOK(x, d2[x][i])
  <2>1. ASSUME NEW i \in DOMAIN d2[e] PROVE RowOK(e, d2[e][i])
    <3>1. d2[e][i] = IF i = m.id THEN Row(col) ELSE d[e][i]
      BY <1>4, <1>7
    <3>2. i # m.id => i \in DOMAIN d[e]
      BY <1>4, <1>7
    <3> QED BY <1>2, <3>1, <3>2 DEF RowsOK
  <2>2. ASSUME NEW x \in Entities, x # e, NEW i \in DOMAIN d2[x] PROVE RowOK(x, d2[x][i])
    BY <1>7, <2>2 DEF RowsOK
  <2> QED BY <2>1, <2>2
<1>12. e = "Agent" => d2.AuditLog = d.AuditLog
  BY <1>7, <1>8
<1> QED BY <1>5, <1>7, <1>9, <1>10, <1>11, <1>12 DEF RowsOK

LEMMA FailedIs ==
  ASSUME NEW d, NEW err
  PROVE  Failed(d, err).db = d /\ Failed(d, err).err = err
BY DEF Failed

LEMMA CreateSaveOK ==
  ASSUME NEW d, DBOK(d), NEW e \in Entities, NEW m, m.id \in Nat
  PROVE  DBOK(CreateSave(d, e, m).db) /\ (e = "Agent" => CreateSave(d, e, m).db.AuditLog = d.AuditLog)
<1>1. CASE ~createCheck(e, m) \/ m.id \in DOMAIN d[e]
  <2>1. CreateSave(d, e, m) = Failed(d, "ent") \/ CreateSave(d, e, m) = Failed(d, "sql")
    BY <1>1 DEF CreateSave, Insert
  <2> QED BY <2>1, FailedIs
<1>2. CASE createCheck(e, m) /\ m.id \notin DOMAIN d[e]
  <2>1. PICK d2 : d2 = InsertRow(d, e, m)
    OBVIOUS
  <2>2. RowsOK(d2) /\ (e = "Agent" => d2.AuditLog = d.AuditLog)
    BY <1>2, <2>1, InsertRowOK DEF DBOK
  <2>3. CASE DBAccepts(d2)
    <3>1. CreateSave(d, e, m) = LinkLogs(d2, {m.id}, m)
      BY <1>2, <2>1, <2>3 DEF CreateSave, Insert, Try, Done
    <3>2. DBOK(d2)
      BY <2>2, <2>3, AcceptedOK
    <3>3. LinkLogs(d2, {m.id}, m).db = d2
      BY <3>2, LinkKeeps
    <3> QED BY <2>2, <3>1, <3>2, <3>3
  <2>4. CASE ~DBAccepts(d2)
    <3>1. CreateSave(d, e, m) = Failed(d, "sql")
      BY <1>2, <2>1, <2>4 DEF CreateSave, Insert, Try, Failed
    <3> QED BY <3>1, FailedIs
  <2> QED BY <2>3, <2>4
<1> QED BY <1>1, <1>2

LEMMA BulkSaveOK ==
  ASSUME NEW d, DBOK(d), NEW e \in Entities, NEW ms, DOMAIN ms = {1, 2}, ms[1].id \in Nat, ms[2].id \in Nat
  PROVE  DBOK(BulkSave(d, e, ms).db) /\ (e = "Agent" => BulkSave(d, e, ms).db.AuditLog = d.AuditLog)
<1>1. PICK d1 : d1 = InsertRow(d, e, ms[1])
  OBVIOUS
<1>2. PICK d2 : d2 = InsertRow(d1, e, ms[2])
  OBVIOUS
<1>3. CASE \A i \in DOMAIN ms : createCheck(e, ms[i])
  <2>1. createCheck(e, ms[1]) /\ createCheck(e, ms[2])
    BY <1>3
  <2>2. RowsOK(d1) /\ (e = "Agent" => d1.AuditLog = d.AuditLog)
    BY <1>1, <2>1, InsertRowOK DEF DBOK
  <2>3. RowsOK(d2) /\ (e = "Agent" => d2.AuditLog = d1.AuditLog)
    BY <1>2, <2>1, <2>2, InsertRowOK
  <2>4. CASE \E i \in DOMAIN ms : ms[i].id \in DOMAIN d[e]
    <3>1. BulkSave(d, e, ms) = Failed(d, "sql")
      BY <1>3, <2>4 DEF BulkSave
    <3> QED BY <3>1, FailedIs
  <2>5. CASE ~\E i \in DOMAIN ms : ms[i].id \in DOMAIN d[e]
    <3>1. BulkSave(d, e, ms) = Try(d, d2)
      BY <1>1, <1>2, <1>3, <2>5 DEF BulkSave
    <3>2. DBAccepts(d2) => DBOK(d2)
      BY <2>3, AcceptedOK
    <3> QED BY <2>2, <2>3, <3>1, <3>2, TryIs
  <2> QED BY <2>4, <2>5
<1>4. CASE ~\A i \in DOMAIN ms : createCheck(e, ms[i])
  <2>1. BulkSave(d, e, ms) = Failed(d, "ent")
    BY <1>4 DEF BulkSave
  <2> QED BY <2>1, FailedIs
<1> QED BY <1>3, <1>4

\* A row that an UPDATE writes: a checked value, an unchecked one of its type, NULL where it
\* may be, or a number that was added to.
LEMMA UpdateRowOK ==
  ASSUME NEW e \in Entities, NEW row, RowOK(e, row), NEW m, MutationOK(e, m), updateCheck(e, m), NEW spec,
         spec \cap DOMAIN m.set \cap (DOMAIN m.add \cup m.clear) = {}
  PROVE  RowOK(e, UpdateRow(e, row, m, spec))
<1>1. PICK new : new = UpdateRow(e, row, m, spec)
  OBVIOUS
<1>2. /\ DOMAIN new = {"col", "added"} /\ DOMAIN new.col = CreateSpec[e]
      /\ new.added = (row.added \ (DOMAIN m.set \cap spec)) \cup (DOMAIN m.add \cap spec)
      /\ \A f \in CreateSpec[e] :
           new.col[f] = IF f \in spec THEN NewColumn(m, row.col[f], f) ELSE row.col[f]
  BY <1>1 DEF UpdateRow
<1>3. ASSUME NEW f \in DOMAIN EntFields[e] \ new.added
      PROVE  new.col[f] \in EntFields[e][f] \/ (f \in Nullable[e] /\ new.col[f] = Null)
  <2>1. f \in CreateSpec[e] /\ f \in Settable[e] /\ f # "agent"
    BY SchemaSets
  <2>2. f \notin row.added => row.col[f] \in EntFields[e][f] \/ (f \in Nullable[e] /\ row.col[f] = Null)
    BY DEF RowOK
  <2>3. CASE f \notin spec
    BY <1>2, <2>1, <2>2, <2>3
  <2>4. CASE f \in spec /\ f \in DOMAIN m.set
    <3>0. new.col[f] = NewColumn(m, row.col[f], f)
      BY <1>2, <2>1, <2>4
    <3>1. new.col[f] = m.set[f]
      BY <2>4, <3>0 DEF NewColumn
    <3>2. m.set[f] \in EntFields[e][f]
      BY <2>1, <2>4 DEF updateCheck, MutationOK
    <3> QED BY <3>1, <3>2
  <2>5. CASE f \in spec /\ f \notin DOMAIN m.set /\ f \in m.clear
    <3>0. f \notin DOMAIN m.add
      BY <1>2, <2>5
    <3>1. new.col[f] = Null
      BY <1>2, <2>1, <2>5, <3>0 DEF NewColumn
    <3>2. f \in Nullable[e]
      BY <2>1, <2>5, SchemaKinds DEF MutationOK
    <3> QED BY <3>1, <3>2
  <2>6. CASE f \in spec /\ f \notin DOMAIN m.set /\ f \notin m.clear
    <3>0. f \notin DOMAIN m.add /\ f \notin row.added
      BY <1>2, <2>6
    <3>1. new.col[f] = row.col[f]
      BY <1>2, <2>1, <2>6, <3>0 DEF NewColumn
    <3> QED BY <2>2, <3>0, <3>1
  <2> QED BY <2>3, <2>4, <2>5, <2>6
<1> QED BY <1>1, <1>2, <1>3 DEF RowOK

\* The database refuses to take a log from its agent.
LEMMA UnlinkRefused ==
  ASSUME NEW d, RowsOK(d), NEW ids, NEW m, DBAccepts(UnlinkLogs(d, ids, m)), d = [x \in Entities |-> d[x]]
  PROVE  UnlinkLogs(d, ids, m) = d
<1>0. "Agent" \in Entities /\ "AuditLog" \in Entities
  BY DEF Entities
<1>1. PICK g : g = [l \in DOMAIN d.AuditLog |->
                      IF d.AuditLog[l].col.agent \in ids /\ (m.unlinkAll \/ l \in m.unlink)
                      THEN [d.AuditLog[l] EXCEPT !.col.agent = Null] ELSE d.AuditLog[l]]
  OBVIOUS
<1>2. PICK d2 : d2 = UnlinkLogs(d, ids, m)
  OBVIOUS
<1>3. d2 = [d EXCEPT !.AuditLog = g]
  BY <1>1, <1>2 DEF UnlinkLogs
<1>4. d2.AuditLog = g /\ d2.Agent = d.Agent
  BY <1>0, <1>3 DEF RowsOK
<1>5. ASSUME NEW l \in DOMAIN d.AuditLog PROVE g[l] = d.AuditLog[l]
  <2>1. SUFFICES ASSUME g[l] = [d.AuditLog[l] EXCEPT !.col.agent = Null] PROVE FALSE
    BY <1>1
  <2>2. RowOK("AuditLog", d.AuditLog[l])
    BY <1>0 DEF RowsOK
  <2>3. "col" \in DOMAIN d.AuditLog[l] /\ "agent" \in DOMAIN d.AuditLog[l].col
    BY <1>0, <2>2, SchemaSets DEF RowOK
  <2>4. g[l].col.agent = Null
    BY <2>1, <2>3
  <2>5. g[l].col.agent \in DOMAIN d.Agent
    <3>1. DOMAIN g = DOMAIN d.AuditLog /\ DBAccepts(d2)
      BY <1>1, <1>2
    <3>2. \A k \in DOMAIN d2.AuditLog : d2.AuditLog[k].col.agent \in DOMAIN d2.Agent
      BY <3>1 DEF DBAccepts
    <3> QED BY <1>4, <3>1, <3>2
  <2> QED BY <2>4, <2>5, NullAssumption DEF RowsOK
<1>6. g = d.AuditLog
  <2>1. g = [l \in DOMAIN d.AuditLog |-> d.AuditLog[l]]
    BY <1>1, <1>5
  <2> QED BY <2>1 DEF RowsOK
<1>7. d2 = d
  BY <1>0, <1>3, <1>6
<1> QED BY <1>2, <1>7

\* What an UPDATE of the rows ids leaves: d itself after an error, and otherwise the rows
\* that UpdateRow computes, and every log with its agent.
UpdatedTo(d, r, e, ids, m, spec) ==
  /\ DBOK(r.db) /\ (e = "Agent" => r.db.AuditLog = d.AuditLog)
  /\ r.err = "ok" =>
       /\ spec \cap DOMAIN m.set \cap (DOMAIN m.add \cup m.clear) = {}
       /\ DOMAIN r.db[e] = DOMAIN d[e]
       /\ \A i \in DOMAIN d[e] \cap ids : r.db[e][i] = UpdateRow(e, d[e][i], m, spec)

LEMMA UpdateIs ==
  ASSUME NEW d, DBOK(d), NEW e \in Entities, NEW ids, NEW m, MutationOK(e, m), updateCheck(e, m), NEW spec
  PROVE  UpdatedTo(d, Update(d, e, ids, m, spec), e, ids, m, spec)
<1>0. /\ DOMAIN d = Entities /\ RowsOK(d) /\ "Agent" \in Entities /\ "AuditLog" \in Entities
  BY DEF DBOK, RowsOK, Entities
<1>1. PICK f : f = [i \in DOMAIN d[e] |-> IF i \in ids THEN UpdateRow(e, d[e][i], m, spec) ELSE d[e][i]]
  OBVIOUS
<1>2. PICK d1 : d1 = [d EXCEPT ![e] = f]
  OBVIOUS
<1>3. PICK d2 : d2 = IF e = "Agent" THEN UnlinkLogs(d1, ids, m) ELSE d1
  OBVIOUS
<1>4. PICK r : r = Update(d, e, ids, m, spec)
  OBVIOUS
<1>5. PICK twice : twice = spec \cap DOMAIN m.set \cap (DOMAIN m.add \cup m.clear)
  OBVIOUS
<1>6. r = IF twice # {} THEN Failed(d, "sql")
          ELSE IF Try(d, d2).err = "ok" THEN LinkLogs(Try(d, d2).db, ids, m) ELSE Try(d, d2)
  BY <1>1, <1>2, <1>3, <1>4, <1>5, Zenon DEF Update
<1>7. /\ DOMAIN d1 = Entities /\ d1[e] = f /\ (\A x \in Entities \ {e} : d1[x] = d[x])
      /\ d1 = [x \in Entities |-> d1[x]]
  BY <1>0, <1>2
<1>8. ASSUME twice = {} PROVE RowsOK(d1)
  <2>1. DOMAIN d1.Agent = DOMAIN d.Agent
    BY <1>0, <1>1, <1>7
  <2>2. d1.AuditLog = [l \in DOMAIN d1.AuditLog |-> d1.AuditLog[l]]
    <3>1. f = [l \in DOMAIN f |-> f[l]]
      BY <1>1
    <3>2. CASE e = "AuditLog"
      BY <1>7, <3>1, <3>2
    <3>3. CASE e # "AuditLog"
      BY <1>0, <1>7, <3>3 DEF RowsOK
    <3> QED BY <3>2, <3>3
  <2>3. ASSUME NEW i \in DOMAIN d1[e] PROVE RowOK(e, d1[e][i])
    <3>1. i \in DOMAIN d[e] /\ d1[e][i] = IF i \in ids THEN UpdateRow(e, d[e][i], m, spec) ELSE d[e][i]
      BY <1>1, <1>7
    <3>2. RowOK(e, d[e][i])
      BY <1>0, <3>1 DEF RowsOK
    <3>3. RowOK(e, UpdateRow(e, d[e][i], m, spec))
      BY <1>5, <1>8, <3>2, UpdateRowOK
    <3> QED BY <3>1, <3>2, <3>3
  <2>4. ASSUME NEW x \in Entities, x # e, NEW i \in DOMAIN d1[x] PROVE RowOK(x, d1[x][i])
    BY <1>0, <1>7, <2>4 DEF RowsOK
  <2> QED BY <1>0, <1>7, <2>1, <2>2, <2>3, <2>4 DEF RowsOK
<1>9. CASE twice # {} \/ ~DBAccepts(d2)
  <2>1. r.db = d /\ r.err # "ok"
    BY <1>6, <1>9, TryIs, FailedIs
  <2> QED BY <1>4, <2>1 DEF UpdatedTo
<1>10. CASE twice = {} /\ DBAccepts(d2)
  <2>1. d2 = d1
    BY <1>3, <1>7, <1>8, <1>10, UnlinkRefused
  <2>2. DBOK(d1)
    BY <1>8, <1>10, <2>1, AcceptedOK
  <2>3. r = LinkLogs(d1, ids, m)
    BY <1>6, <1>10, <2>1, TryIs
  <2>4. r.db = d1
    BY <2>2, <2>3, LinkKeeps
  <2>5. e = "Agent" => d1.AuditLog = d.AuditLog
    BY <1>0, <1>7
  <2>6. /\ DOMAIN d1[e] = DOMAIN d[e]
        /\ \A i \in DOMAIN d[e] \cap ids : d1[e][i] = UpdateRow(e, d[e][i], m, spec)
    BY <1>1, <1>7
  <2> QED BY <1>4, <1>5, <1>10, <2>2, <2>4, <2>5, <2>6 DEF UpdatedTo
<1> QED BY <1>9, <1>10

LEMMA DeleteOK ==
  ASSUME NEW d, DBOK(d), NEW e \in Entities, NEW ids
  PROVE  DBOK(Delete(d, e, ids).db) /\ (e = "Agent" => Delete(d, e, ids).db.AuditLog = d.AuditLog)
<1>0. /\ DOMAIN d = Entities /\ RowsOK(d) /\ "Agent" \in Entities /\ "AuditLog" \in Entities
  BY DEF DBOK, RowsOK, Entities
<1>1. PICK f : f = Restrict(d[e], DOMAIN d[e] \ ids)
  OBVIOUS
<1>2. PICK d1 : d1 = [d EXCEPT ![e] = f]
  OBVIOUS
<1>3. Delete(d, e, ids) = Try(d, d1)
  BY <1>1, <1>2 DEF Delete, OnDelete
<1>4. DOMAIN f \subseteq DOMAIN d[e] /\ f = [x \in DOMAIN f |-> f[x]] /\ \A x \in DOMAIN f : f[x] = d[e][x]
  BY <1>1 DEF Restrict
<1>5. DOMAIN d1 = Entities /\ d1[e] = f /\ (\A x \in Entities \ {e} : d1[x] = d[x])
  BY <1>0, <1>2
<1>6. RowsOK(d1)
  <2>1. DOMAIN d1.Agent \subseteq DOMAIN d.Agent
    BY <1>0, <1>4, <1>5
  <2>2. d1.AuditLog = [l \in DOMAIN d1.AuditLog |-> d1.AuditLog[l]]
    <3>1. CASE e = "AuditLog"
      BY <1>4, <1>5, <3>1
    <3>2. CASE e # "AuditLog"
      BY <1>0, <1>5, <3>2 DEF RowsOK
    <3> QED BY <3>1, <3>2
  <2>3. ASSUME NEW i \in DOMAIN d1[e] PROVE RowOK(e, d1[e][i])
    BY <1>0, <1>4, <1>5 DEF RowsOK
  <2>4. ASSUME NEW x \in Entities, x # e, NEW i \in DOMAIN d1[x] PROVE RowOK(x, d1[x][i])
    BY <1>0, <1>5, <2>4 DEF RowsOK
  <2> QED BY <1>0, <1>5, <2>1, <2>2, <2>3, <2>4 DEF RowsOK
<1>7. DBAccepts(d1) => DBOK(d1)
  BY <1>6, AcceptedOK
<1>8. e = "Agent" => d1.AuditLog = d.AuditLog
  BY <1>0, <1>5
<1> QED BY <1>3, <1>7, <1>8, TryIs

\* The statement of a save.
LEMMA StatementOK ==
  ASSUME NEW d, DBOK(d), NEW s, s.e \in Entities,
         s.op = "create" => s.ms[1].id \in Nat,
         s.op = "bulk" => DOMAIN s.ms = {1, 2} /\ s.ms[1].id \in Nat /\ s.ms[2].id \in Nat,
         s.op \in {"update", "updateOne"} => MutationOK(s.e, s.ms[1])
  PROVE  /\ DBOK(sqlSave(d, s).db) /\ (s.e = "Agent" => sqlSave(d, s).db.AuditLog = d.AuditLog)
         /\ s.op \in {"update", "updateOne"} =>
              UpdatedTo(d, sqlSave(d, s), s.e,
                        IF s.op = "update" THEN s.where \cap DOMAIN d[s.e] ELSE {s.ms[1].id},
                        s.ms[1], UpdateSpec[s.e])
<1>1. PICK ids : ids = s.where \cap DOMAIN d[s.e]
  OBVIOUS
<1>failed. \A ids2, err : err # "ok" => UpdatedTo(d, Failed(d, err), s.e, ids2, s.ms[1], UpdateSpec[s.e])
  BY FailedIs DEF UpdatedTo
<1>2. CASE s.op = "create"
  <2>1. sqlSave(d, s) = CreateSave(d, s.e, s.ms[1])
    BY <1>2 DEF sqlSave
  <2>2. /\ DBOK(CreateSave(d, s.e, s.ms[1]).db)
        /\ s.e = "Agent" => CreateSave(d, s.e, s.ms[1]).db.AuditLog = d.AuditLog
    BY <1>2, CreateSaveOK
  <2> QED BY <1>2, <2>1, <2>2
<1>3. CASE s.op = "bulk"
  <2>1. sqlSave(d, s) = BulkSave(d, s.e, s.ms)
    BY <1>3 DEF sqlSave
  <2>2. /\ DBOK(BulkSave(d, s.e, s.ms).db)
        /\ s.e = "Agent" => BulkSave(d, s.e, s.ms).db.AuditLog = d.AuditLog
    BY <1>3, BulkSaveOK
  <2> QED BY <1>3, <2>1, <2>2
<1>4. CASE s.op = "update"
  <2>1. sqlSave(d, s) = UpdateSave(d, s.e, ids, s.ms[1])
    BY <1>1, <1>4 DEF sqlSave
  <2>2. UpdatedTo(d, UpdateSave(d, s.e, ids, s.ms[1]), s.e, ids, s.ms[1], UpdateSpec[s.e])
    <3>1. CASE updateCheck(s.e, s.ms[1])
      <4>1. UpdatedTo(d, Update(d, s.e, ids, s.ms[1], UpdateSpec[s.e]), s.e, ids, s.ms[1], UpdateSpec[s.e])
        BY <1>4, <3>1, UpdateIs
      <4> QED BY <3>1, <4>1 DEF UpdateSave
    <3>2. CASE ~updateCheck(s.e, s.ms[1])
      BY <1>failed, <3>2 DEF UpdateSave
    <3> QED BY <3>1, <3>2
  <2>3. UpdatedTo(d, sqlSave(d, s), s.e, ids, s.ms[1], UpdateSpec[s.e])
    BY <2>1, <2>2
  <2> QED BY <1>1, <1>4, <2>3 DEF UpdatedTo
<1>5. CASE s.op = "updateOne"
  <2>1. sqlSave(d, s) = UpdateOneSave(d, s.e, s.ms[1])
    BY <1>5 DEF sqlSave
  <2>2. UpdatedTo(d, UpdateOneSave(d, s.e, s.ms[1]), s.e, {s.ms[1].id}, s.ms[1], UpdateSpec[s.e])
    <3>0. UpdateOneSpec[s.e] = UpdateSpec[s.e]
      BY SchemaSets
    <3>1. CASE updateCheck(s.e, s.ms[1]) /\ s.ms[1].id \in DOMAIN d[s.e]
      <4>1. UpdatedTo(d, Update(d, s.e, {s.ms[1].id}, s.ms[1], UpdateSpec[s.e]), s.e, {s.ms[1].id},
                      s.ms[1], UpdateSpec[s.e])
        BY <1>5, <3>1, UpdateIs
      <4> QED BY <3>0, <3>1, <4>1 DEF UpdateOneSave
    <3>2. CASE ~(updateCheck(s.e, s.ms[1]) /\ s.ms[1].id \in DOMAIN d[s.e])
      BY <1>failed, <3>2 DEF UpdateOneSave
    <3> QED BY <3>1, <3>2
  <2>3. UpdatedTo(d, sqlSave(d, s), s.e, {s.ms[1].id}, s.ms[1], UpdateSpec[s.e])
    BY <2>1, <2>2
  <2> QED BY <1>5, <2>3 DEF UpdatedTo
<1>6. DBOK(DeleteSave(d, s.e, ids).db) /\ (s.e = "Agent" => DeleteSave(d, s.e, ids).db.AuditLog = d.AuditLog)
  <2>1. DeleteSave(d, s.e, ids) = Delete(d, s.e, ids)
    BY DEF DeleteSave, AgentDelete, AuditLogDelete, OutboxEventDelete, UserDelete, Entities
  <2>2. DBOK(Delete(d, s.e, ids).db) /\ (s.e = "Agent" => Delete(d, s.e, ids).db.AuditLog = d.AuditLog)
    BY DeleteOK
  <2> QED BY <2>1, <2>2
<1>7. CASE s.op \notin {"create", "bulk", "update", "updateOne"}
  <2>1. sqlSave(d, s) \in {DeleteSave(d, s.e, ids), Failed(d, "ent")}
    BY <1>1, <1>7 DEF sqlSave, DeleteOneSave
  <2> QED BY <1>6, <1>7, <2>1, FailedIs
<1> QED BY <1>2, <1>3, <1>4, <1>5, <1>7

\* What a call does to a mutation keeps its fields and its id.
LEMMA ApplyShape ==
  ASSUME NEW e, NEW m, DOMAIN m = MutationFields, NEW c
  PROVE  DOMAIN Apply(e, m, c) = MutationFields /\ Apply(e, m, c).id = m.id
<1>1. CASE c.do = "set"
  BY <1>1 DEF Apply, SetField, MutationFields
<1>2. CASE c.do = "add"
  BY <1>2 DEF Apply, AddField, MutationFields
<1>3. CASE c.do = "clear"
  BY <1>3 DEF Apply, ClearField, MutationFields
<1>4. CASE c.do = "reset"
  BY <1>4 DEF Apply, ResetField, MutationFields
<1>5. CASE c.do \notin {"set", "add", "clear", "reset"}
  BY <1>5 DEF Apply, EdgeCall, MutationFields
<1> QED BY <1>1, <1>2, <1>3, <1>4, <1>5

\* A mutation with the same fields remembers the same.
LEMMA HeardSame ==
  ASSUME NEW e, NEW m, NEW m2, NEW said, NEW f, Heard(e, m, said, f),
         f \in DOMAIN m2.set <=> f \in DOMAIN m.set, f \in DOMAIN m.set => m2.set[f] = m.set[f],
         f \in DOMAIN m2.add <=> f \in DOMAIN m.add, f \in DOMAIN m.add => m2.add[f] = m.add[f],
         f \in m2.clear <=> f \in m.clear
  PROVE  Heard(e, m2, said, f)
BY DEF Heard

LEMMA SeqOfItself ==
  ASSUME NEW S, NEW q \in Seq(S)
  PROVE  q \in Seq({q[i] : i \in DOMAIN q})
<1>1. PICK T : T = {q[i] : i \in DOMAIN q}
  OBVIOUS
<1>2. \A i \in 1..Len(q) : q[i] \in T
  BY <1>1
<1>3. q \in Seq(T)
  BY <1>2
<1> QED BY <1>1, <1>3

\* One more call.
LEMMA AppendOfItself ==
  ASSUME NEW said, said \in Seq({said[i] : i \in DOMAIN said}), NEW c
  PROVE  \E S : said \in Seq(S) /\ c \in S
<1>1. PICK T : T = {said[i] : i \in DOMAIN said}
  OBVIOUS
<1>2. said \in Seq(T)
  BY <1>1
<1>3. said \in Seq(T \cup {c})
  BY <1>2
<1> QED BY <1>3

\* A call of an update, by the caller or by a hook.
LEMMA UpdateCalled ==
  ASSUME NEW e \in Entities, NEW m, NEW said, HeardAll(e, m, said), NEW c, CallOK(e, c)
  PROVE  HeardAll(e, Apply(e, m, c), Append(said, c))
<1>0. /\ MutationOK(e, m) /\ said \in Seq({said[i] : i \in DOMAIN said})
      /\ \A f \in Settable[e] : Heard(e, m, said, f)
  BY Zenon DEF HeardAll
<1>1. PICK S : said \in Seq(S) /\ c \in S
  BY <1>0, AppendOfItself, Zenon
<1>2. MutationOK(e, Apply(e, m, c))
  BY <1>0, MutationApply
<1>3. ASSUME NEW f \in Settable[e] PROVE Heard(e, Apply(e, m, c), Append(said, c), f)
  <2>1. Heard(e, m, said, f)
    BY <1>0
  <2> QED BY <1>0, <1>1, <2>1, HeardStep
<1>4. PICK more : more = Append(said, c)
  OBVIOUS
<1>5. more \in Seq(S)
  BY <1>1, <1>4
<1>6. more \in Seq({more[i] : i \in DOMAIN more})
  BY <1>5, SeqOfItself
<1>7. \A f \in Settable[e] : Heard(e, Apply(e, m, c), more, f)
  BY <1>3, <1>4
<1>8. HeardAll(e, Apply(e, m, c), more)
  BY <1>2, <1>6, <1>7, Zenon DEF HeardAll
<1> QED BY <1>4, <1>8

-----------------------------------------------------------------------------
\* The steps.  A step that leaves the databases alone and ends no save.
LEMMA BuilderStep ==
  ASSUME SavedInv, UNCHANGED <<entDB, entTx>>, stmt'.st \in {"build", "hooks"}, BuilderOK'
  PROVE  SavedInv'
BY DEF SavedInv, StoredAsSaid, AuditTrailStays

LEMMA NewBuilderSaved ==
  ASSUME EntInv, SavedInv, NEW e \in Entities, NEW op \in Ops, NEW where, NEW inTx \in BOOLEAN,
         NewBuilder(e, op, where, inTx)
  PROVE  SavedInv'
<1>0. UNCHANGED <<entDB, entTx, entTime>>
  BY DEF NewBuilder
<1>1. PICK ms : ms = IF op \in {"create", "bulk"}
                     THEN [i \in 1..(IF op = "bulk" THEN 2 ELSE 1) |->
                             [NewMutation(Null) EXCEPT !.set = Prepared(e)]]
                     ELSE <<NewMutation(IF Cardinality(where) = 1
                                        THEN CHOOSE i \in where : TRUE ELSE Null)>>
  <2> DEFINE M == IF op \in {"create", "bulk"}
                  THEN [i \in 1..(IF op = "bulk" THEN 2 ELSE 1) |->
                          [NewMutation(Null) EXCEPT !.set = Prepared(e)]]
                  ELSE <<NewMutation(IF Cardinality(where) = 1
                                     THEN CHOOSE i \in where : TRUE ELSE Null)>>
  <2> HIDE DEF M
  <2>1. \E ms : ms = M
    OBVIOUS
  <2> QED BY <2>1, Zenon DEF M
<1>2. stmt' = [st |-> "build", e |-> e, op |-> op, where |-> where, inTx |-> inTx, ms |-> ms,
               said |-> <<>>, had |-> DOMAIN View(inTx)[e], before |-> <<>>, saves |-> 0,
               err |-> "none", late |-> FALSE]
  BY <1>1, Zenon DEF NewBuilder
<1>3. /\ stmt'.st = "build" /\ stmt'.op = op /\ stmt'.e = e /\ stmt'.ms = ms /\ stmt'.said = <<>>
      /\ stmt'.saves = 0
  BY <1>2
<1>4. ASSUME op \in {"create", "bulk"} PROVE CreationOK'
  <2>1. PICK m : m = [NewMutation(Null) EXCEPT !.set = Prepared(e)]
    OBVIOUS
  <2>2. DOMAIN m = MutationFields /\ m.id = Null
    BY <2>1 DEF NewMutation, MutationFields
  <2>3. PICK n : n = IF op = "bulk" THEN 2 ELSE 1
    OBVIOUS
  <2>4. ms = [i \in 1..n |-> m]
    BY <1>1, <1>4, <2>1, <2>3, Zenon
  <2>5. 1..n = IF op = "bulk" THEN {1, 2} ELSE {1}
    <3>1. 1..2 = {1, 2} /\ 1..1 = {1}
      OBVIOUS
    <3> QED BY <2>3, <3>1
  <2>6. DOMAIN ms = (IF op = "bulk" THEN {1, 2} ELSE {1}) /\ \A i \in DOMAIN ms : ms[i] = m
    BY <2>4, <2>5
  <2> QED BY <1>3, <2>2, <2>6 DEF CreationOK
<1>5. ASSUME op \in {"update", "updateOne"} PROVE UpdateOK'
  <2>1. PICK x : ms = <<NewMutation(x)>>
    BY <1>1, <1>5, Zenon
  <2>2. PICK m : m = NewMutation(x)
    OBVIOUS
  <2>3. DOMAIN ms = {1} /\ ms[1] = m
    BY <2>1, <2>2
  <2>4. DOMAIN m = MutationFields /\ m.set = <<>> /\ m.add = <<>> /\ m.clear = {}
    BY <2>2 DEF NewMutation, MutationFields
  <2>5. DOMAIN m.set = {} /\ DOMAIN m.add = {}
    BY <2>4
  <2>6. MutationOK(e, m)
    BY <2>4, <2>5 DEF MutationOK
  <2>7. ASSUME NEW f \in Settable[e] PROVE Heard(e, m, <<>>, f)
    <3>1. Bases(<<>>, f) = {} /\ Adds(<<>>, f) = {}
      BY DEF Bases, Adds
    <3>2. LastBase(<<>>, f) = 0
      BY <3>1 DEF LastBase
    <3> QED BY <2>4, <2>5, <3>1, <3>2, AddedEmpty DEF Heard
  <2>8. <<>> \in Seq({<<>>[i] : i \in DOMAIN <<>>})
    OBVIOUS
  <2>9. HeardAll(e, m, <<>>)
    BY <2>6, <2>7, <2>8, Zenon DEF HeardAll
  <2> QED BY <1>3, <2>3, <2>9 DEF UpdateOK
<1>6. BuilderOK'
  BY <1>3, <1>4, <1>5 DEF BuilderOK
<1> QED BY <1>0, <1>3, <1>6, BuilderStep

LEMMA CallSaved ==
  ASSUME EntInv, SavedInv, stmt.st \in {"build", "hooks"}, NEW i \in DOMAIN stmt.ms,
         NEW c, c \in BuilderCalls(stmt.op, stmt.e) \cup HookCalls(stmt.e), MakeCall(i, c)
  PROVE  SavedInv'
<1>0. DOMAIN stmt = StmtFields /\ stmt.e \in Entities /\ BuilderOK
  BY DEF EntInv, EntTypeOK, SavedInv
<1>1. PICK m : m = Apply(stmt.e, stmt.ms[i], c)
  OBVIOUS
<1>2. PICK said : said = Append(stmt.said, c)
  OBVIOUS
<1>3. stmt' = [stmt EXCEPT !.ms = [@ EXCEPT ![i] = m], !.said = said] /\ UNCHANGED <<entDB, entTx>>
  BY <1>0, <1>1, <1>2 DEF MakeCall, StmtFields
<1>4. /\ stmt'.st = stmt.st /\ stmt'.e = stmt.e /\ stmt'.op = stmt.op /\ stmt'.saves = stmt.saves
      /\ stmt'.said = said /\ stmt'.ms = [stmt.ms EXCEPT ![i] = m]
  BY <1>0, <1>3 DEF StmtFields
<1>5. ASSUME stmt.op \in {"create", "bulk"} PROVE CreationOK'
  <2>0. CreationOK
    BY <1>0, <1>5 DEF BuilderOK
  <2>1. DOMAIN stmt'.ms = DOMAIN stmt.ms
    BY <1>4
  <2>2. DOMAIN m = MutationFields /\ m.id = stmt.ms[i].id
    BY <1>1, <2>0, ApplyShape DEF CreationOK
  <2>3. \A j \in DOMAIN stmt.ms : stmt'.ms[j] = IF j = i THEN m ELSE stmt.ms[j]
    BY <1>4
  <2> QED BY <1>4, <2>0, <2>1, <2>2, <2>3 DEF CreationOK
<1>6. ASSUME stmt.op \in {"update", "updateOne"} PROVE UpdateOK'
  <2>0. UpdateOK /\ i = 1
    BY <1>0, <1>6 DEF BuilderOK, UpdateOK
  <2>1. CallOK(stmt.e, c)
    BY <1>0, <1>6, UpdateCallOK
  <2>2. HeardAll(stmt.e, Apply(stmt.e, stmt.ms[1], c), Append(stmt.said, c))
    BY <1>0, <2>0, <2>1, UpdateCalled DEF UpdateOK
  <2>3. HeardAll(stmt.e, m, said)
    BY <1>1, <1>2, <2>0, <2>2
  <2>4. DOMAIN stmt'.ms = {1} /\ stmt'.ms[1] = m
    BY <1>4, <2>0 DEF UpdateOK
  <2> QED BY <1>4, <2>3, <2>4 DEF UpdateOK
<1>7. BuilderOK'
  BY <1>4, <1>5, <1>6 DEF BuilderOK
<1> QED BY <1>3, <1>4, <1>7, BuilderStep

\* defaults() of an update, as the call it amounts to.
LEMMA UpdateFilled ==
  ASSUME NEW e \in Entities, NEW m, NEW said, HeardAll(e, m, said), NEW now \in Nat, NEW filled,
         filled = IF UpdateDefaults(e, now) # <<>> /\ "updated_at" \notin DOMAIN m.set
                  THEN <<[do |-> "set", f |-> "updated_at", v |-> now]>> ELSE <<>>
  PROVE  HeardAll(e, WithDefaults(m, UpdateDefaults(e, now)), said \o filled)
<1>heard. /\ MutationOK(e, m) /\ said \in Seq({said[i] : i \in DOMAIN said})
      /\ \A f \in Settable[e] : Heard(e, m, said, f)
  BY Zenon DEF HeardAll
<1>seq. ASSUME NEW c PROVE \E S : said \in Seq(S) /\ c \in S
  BY <1>heard, AppendOfItself, Zenon
<1>0. DOMAIN m = MutationFields
  BY <1>heard DEF MutationOK
<1>1. PICK u : u = UpdateDefaults(e, now)
  OBVIOUS
<1>2. PICK m2 : m2 = WithDefaults(m, u)
  OBVIOUS
<1>3. /\ DOMAIN m2 = MutationFields /\ m2.add = m.add /\ m2.clear = m.clear
      /\ DOMAIN m2.set = DOMAIN m.set \cup DOMAIN u
      /\ \A f \in DOMAIN m2.set : m2.set[f] = IF f \in DOMAIN m.set THEN m.set[f] ELSE u[f]
  BY <1>0, <1>2 DEF WithDefaults, Over, MutationFields
<1>4. \/ /\ u # <<>> /\ DOMAIN u = {"updated_at"} /\ u["updated_at"] = now
         /\ "updated_at" \in Settable[e] \ UpdateCheck[e] /\ EntFields[e]["updated_at"] = Nat
         /\ "updated_at" \notin DOMAIN Numbers[e]
      \/ u = <<>> /\ DOMAIN u = {}
  BY <1>1, SchemaDefaults
<1>5. CASE u = <<>> \/ "updated_at" \in DOMAIN m.set
  <2>1. DOMAIN m2.set = DOMAIN m.set /\ \A f \in DOMAIN m.set : m2.set[f] = m.set[f]
    BY <1>3, <1>4, <1>5
  <2>2. MutationOK(e, m2)
    BY <1>3, <1>heard, <2>1 DEF MutationOK
  <2>3. filled = <<>> /\ said \o filled = said
    <3>1. filled = <<>>
      BY <1>1, <1>5
    <3>2. said \o <<>> = said
      BY <1>seq
    <3> QED BY <3>1, <3>2
  <2>4. ASSUME NEW f \in Settable[e] PROVE Heard(e, m2, said, f)
    <3>1. Heard(e, m, said, f)
      BY <1>heard
    <3> QED BY <1>3, <2>1, <3>1, HeardSame
  <2>5. HeardAll(e, m2, said)
    BY <1>heard, <2>2, <2>4, Zenon DEF HeardAll
  <2> QED BY <1>1, <1>2, <2>3, <2>5
<1>6. CASE u # <<>> /\ "updated_at" \notin DOMAIN m.set
  <2>1. PICK c : c = [do |-> "set", f |-> "updated_at", v |-> now]
    OBVIOUS
  <2>2. c.do = "set" /\ c.f = "updated_at" /\ c.v = now
    BY <2>1
  <2>3. CallOK(e, c)
    BY <1>4, <1>6, <2>2 DEF CallOK
  <2>4. filled = <<c>>
    BY <1>1, <1>6, <2>1
  <2>5. said \o filled = Append(said, c)
    <3>1. PICK S : said \in Seq(S) /\ c \in S
      BY <1>seq, Zenon
    <3>2. said \o <<c>> = Append(said, c)
      BY <3>1
    <3> QED BY <2>4, <3>2
  <2>6. PICK m3 : m3 = Apply(e, m, c)
    OBVIOUS
  <2>7. HeardAll(e, m3, Append(said, c))
    BY <2>3, <2>6, UpdateCalled
  <2>13. /\ MutationOK(e, m3) /\ Append(said, c) \in Seq({Append(said, c)[i] : i \in DOMAIN Append(said, c)})
         /\ \A f \in Settable[e] : Heard(e, m3, Append(said, c), f)
    BY <2>7, Zenon DEF HeardAll
  <2>8. /\ DOMAIN m3 = MutationFields /\ m3.clear = m.clear
        /\ m3.set = Put(m.set, "updated_at", now) /\ m3.add = Without(m.add, "updated_at")
    BY <1>0, <2>2, <2>6, SetFacts
  <2>9. DOMAIN m3.set = DOMAIN m2.set /\ \A f \in DOMAIN m2.set : m2.set[f] = m3.set[f]
    BY <1>3, <1>4, <1>6, <2>8 DEF Put, Over
  <2>10. DOMAIN m3.add = DOMAIN m2.add /\ \A f \in DOMAIN m2.add : m2.add[f] = m3.add[f]
    <3>1. "updated_at" \notin DOMAIN m.add
      BY <1>4, <1>6, <1>heard DEF MutationOK
    <3> QED BY <1>3, <2>8, <3>1 DEF Without, Restrict
  <2>11. MutationOK(e, m2)
    BY <1>3, <2>8, <2>9, <2>10, <2>13 DEF MutationOK
  <2>12. ASSUME NEW f \in Settable[e] PROVE Heard(e, m2, Append(said, c), f)
    <3>1. Heard(e, m3, Append(said, c), f)
      BY <2>13
    <3> QED BY <1>3, <2>8, <2>9, <2>10, <3>1, HeardSame
  <2>14. HeardAll(e, m2, Append(said, c))
    BY <2>11, <2>12, <2>13, Zenon DEF HeardAll
  <2> QED BY <1>1, <1>2, <2>5, <2>14
<1> QED BY <1>4, <1>5, <1>6

LEMMA SaveSaved ==
  ASSUME EntInv, SavedInv, Save
  PROVE  SavedInv'
<1>0. /\ DOMAIN stmt = StmtFields /\ stmt.saves \in Nat /\ entTime \in Nat /\ stmt.st = "build"
      /\ stmt.e \in Entities /\ BuilderOK
  BY DEF EntInv, EntTypeOK, Save, SavedInv
<1>1. PICK ms : ms = [i \in DOMAIN stmt.ms |->
                  CASE stmt.op \in {"create", "bulk"} ->
                         SetID(WithDefaults(stmt.ms[i], CreateDefaults(stmt.e, entTime)), entTime + i - 1)
                    [] stmt.op \in {"update", "updateOne"} ->
                         WithDefaults(stmt.ms[i], UpdateDefaults(stmt.e, entTime))
                    [] OTHER -> stmt.ms[i]]
  OBVIOUS
<1>2. PICK said : said = stmt.said \o FilledIn
  OBVIOUS
<1>3. /\ stmt' = [stmt EXCEPT !.st = "hooks", !.saves = stmt.saves + 1, !.said = said, !.ms = ms]
      /\ UNCHANGED <<entDB, entTx>>
  BY <1>1, <1>2 DEF Save
<1>4. /\ stmt'.st = "hooks" /\ stmt'.e = stmt.e /\ stmt'.op = stmt.op /\ stmt'.saves = stmt.saves + 1
      /\ stmt'.said = said /\ stmt'.ms = ms
  BY <1>0, <1>3 DEF StmtFields
<1>5. ASSUME stmt.op \in {"create", "bulk"} PROVE CreationOK'
  <2>0. CreationOK
    BY <1>0, <1>5 DEF BuilderOK
  <2>1. DOMAIN ms = DOMAIN stmt.ms /\ stmt.saves + 1 # 0
    BY <1>0, <1>1
  <2>2. ASSUME NEW i \in DOMAIN stmt.ms PROVE DOMAIN ms[i] = MutationFields /\ ms[i].id \in Nat
    <3>1. PICK m : m = WithDefaults(stmt.ms[i], CreateDefaults(stmt.e, entTime))
      OBVIOUS
    <3>2. DOMAIN m = MutationFields /\ m.id = stmt.ms[i].id
      BY <2>0, <3>1 DEF WithDefaults, CreationOK, MutationFields
    <3>3. PICK t : t = entTime + i - 1
      OBVIOUS
    <3>4. t \in Nat
      BY <1>0, <2>0, <3>3 DEF CreationOK
    <3>5. ms[i] = SetID(m, t)
      BY <1>1, <1>5, <3>1, <3>3
    <3>6. m.id = Null \/ m.id \in Nat
      BY <2>0, <3>2 DEF CreationOK
    <3> QED BY <3>2, <3>4, <3>5, <3>6 DEF SetID, MutationFields
  <2> QED BY <1>4, <2>0, <2>1, <2>2 DEF CreationOK
<1>6. ASSUME stmt.op \in {"update", "updateOne"} PROVE UpdateOK'
  <2>0. UpdateOK
    BY <1>0, <1>6 DEF BuilderOK
  <2>1. PICK m : m = stmt.ms[1]
    OBVIOUS
  <2>2. FilledIn = IF UpdateDefaults(stmt.e, entTime) # <<>> /\ "updated_at" \notin DOMAIN m.set
                   THEN <<[do |-> "set", f |-> "updated_at", v |-> entTime]>> ELSE <<>>
    BY <1>6, <2>1 DEF FilledIn
  <2>3. PICK filled : filled = FilledIn
    OBVIOUS
  <2>4. PICK m2 : m2 = WithDefaults(m, UpdateDefaults(stmt.e, entTime))
    OBVIOUS
  <2>5. HeardAll(stmt.e, m2, stmt.said \o filled)
    <3>1. HeardAll(stmt.e, m, stmt.said)
      BY <2>0, <2>1 DEF UpdateOK
    <3>2. filled = IF UpdateDefaults(stmt.e, entTime) # <<>> /\ "updated_at" \notin DOMAIN m.set
                   THEN <<[do |-> "set", f |-> "updated_at", v |-> entTime]>> ELSE <<>>
      BY <2>2, <2>3
    <3>3. HeardAll(stmt.e, WithDefaults(m, UpdateDefaults(stmt.e, entTime)), stmt.said \o filled)
      BY <1>0, <3>1, <3>2, UpdateFilled
    <3> QED BY <2>4, <3>3
  <2>6. said = stmt.said \o filled
    BY <1>2, <2>3
  <2>7. DOMAIN ms = {1} /\ ms[1] = m2
    BY <1>1, <1>6, <2>0, <2>1, <2>4 DEF UpdateOK
  <2>8. HeardAll(stmt.e, m2, said)
    BY <2>5, <2>6
  <2> QED BY <1>4, <2>7, <2>8 DEF UpdateOK
<1>7. BuilderOK'
  BY <1>4, <1>5, <1>6 DEF BuilderOK
<1> QED BY <1>3, <1>4, <1>7, BuilderStep

\* A builder that keeps its calls keeps what it knows.
LEMMA BuilderKept ==
  ASSUME BuilderOK, stmt'.op = stmt.op, stmt'.e = stmt.e, stmt'.saves = stmt.saves,
         stmt'.said = stmt.said, stmt'.ms = stmt.ms
  PROVE  BuilderOK'
BY DEF BuilderOK, CreationOK, UpdateOK

LEMMA HookRefusesSaved ==
  ASSUME EntInv, SavedInv, HookRefuses
  PROVE  SavedInv'
<1>0. DOMAIN stmt = StmtFields /\ stmt.st = "hooks" /\ BuilderOK
  BY DEF EntInv, EntTypeOK, HookRefuses, SavedInv
<1>1. /\ stmt' = [stmt EXCEPT !.st = "saved", !.err = "ent", !.before = View(stmt.inTx)]
      /\ UNCHANGED <<entDB, entTx>>
  BY DEF HookRefuses
<1>2. /\ stmt'.op = stmt.op /\ stmt'.e = stmt.e /\ stmt'.saves = stmt.saves /\ stmt'.said = stmt.said
      /\ stmt'.ms = stmt.ms /\ stmt'.err = "ent" /\ stmt'.before = View(stmt.inTx)
      /\ stmt'.inTx = stmt.inTx
  BY <1>0, <1>1 DEF StmtFields
<1>3. BuilderOK'
  BY <1>0, <1>2, BuilderKept
<1>4. View(stmt.inTx)' = View(stmt.inTx)
  BY <1>1, <1>2 DEF View
<1>5. AuditTrailStays'
  BY <1>2, <1>4 DEF AuditTrailStays
<1>6. StoredAsSaid'
  BY <1>2 DEF StoredAsSaid
<1> QED BY <1>1, <1>3, <1>5, <1>6 DEF SavedInv

LEMMA RetrySaved ==
  ASSUME EntInv, SavedInv, Retry
  PROVE  SavedInv'
<1>0. DOMAIN stmt = StmtFields /\ BuilderOK
  BY DEF EntInv, EntTypeOK, Retry, SavedInv
<1>1. stmt' = [stmt EXCEPT !.st = "build"] /\ UNCHANGED <<entDB, entTx>>
  BY DEF Retry
<1>2. /\ stmt'.op = stmt.op /\ stmt'.e = stmt.e /\ stmt'.saves = stmt.saves /\ stmt'.said = stmt.said
      /\ stmt'.ms = stmt.ms /\ stmt'.st = "build"
  BY <1>0, <1>1 DEF StmtFields
<1>3. BuilderOK'
  BY <1>0, <1>2, BuilderKept
<1> QED BY <1>1, <1>2, <1>3, BuilderStep

LEMMA TxSaved ==
  ASSUME EntInv, SavedInv, Drop \/ OpenTx \/ Commit \/ Rollback \/ CommitHookRefuses
  PROVE  SavedInv'
<1>1. stmt'.st = "none"
  BY DEF Drop, OpenTx, Commit, Rollback, CommitHookRefuses, NoStmt
<1>2. DBOK(entDB') /\ (entTx'.st # "none" => DBOK(entTx'.db))
  BY DEF Drop, OpenTx, Commit, Rollback, CommitHookRefuses, NoTx, SavedInv
<1> QED BY <1>1, <1>2 DEF SavedInv, StoredAsSaid, AuditTrailStays

\* The statement of a save, with its outcome r.
LEMMA ExecSaved ==
  ASSUME EntInv, SavedInv, NEW late \in BOOLEAN, Exec(late)
  PROVE  SavedInv'
<1>0. /\ DOMAIN stmt = StmtFields /\ stmt.st = "hooks" /\ stmt.e \in Entities
      /\ stmt.saves \in Nat /\ stmt.saves > 0
      /\ DOMAIN entTx = {"st", "db", "begin"} /\ (stmt.inTx <=> entTx.st # "none")
      /\ DBOK(entDB) /\ (stmt.inTx => DBOK(entTx.db)) /\ BuilderOK
  BY DEF EntInv, EntTypeOK, TxMatches, Exec, SavedInv
<1>1. PICK d : d = View(stmt.inTx)
  OBVIOUS
<1>2. DBOK(d)
  BY <1>0, <1>1 DEF View
<1>3. PICK r : r = IF stmt.inTx /\ entTx.st = "aborted" THEN Failed(d, "sql") ELSE sqlSave(d, stmt)
  OBVIOUS
<1>4. PICK ids : ids = IF stmt.op = "update" THEN stmt.where \cap DOMAIN d[stmt.e] ELSE {stmt.ms[1].id}
  OBVIOUS
<1>5. PICK m : m = stmt.ms[1]
  OBVIOUS
<1>6. /\ DBOK(r.db) /\ (stmt.e = "Agent" => r.db.AuditLog = d.AuditLog)
      /\ stmt.op \in {"update", "updateOne"} => UpdatedTo(d, r, stmt.e, ids, m, UpdateSpec[stmt.e])
  <2>1. stmt.op = "create" => stmt.ms[1].id \in Nat
    BY <1>0 DEF BuilderOK, CreationOK
  <2>2. stmt.op = "bulk" => DOMAIN stmt.ms = {1, 2} /\ stmt.ms[1].id \in Nat /\ stmt.ms[2].id \in Nat
    BY <1>0 DEF BuilderOK, CreationOK
  <2>3. stmt.op \in {"update", "updateOne"} => MutationOK(stmt.e, stmt.ms[1])
    BY <1>0 DEF BuilderOK, UpdateOK, HeardAll
  <2>4. PICK s : s = sqlSave(d, stmt)
    OBVIOUS
  <2>5. /\ DBOK(sqlSave(d, stmt).db) /\ (stmt.e = "Agent" => sqlSave(d, stmt).db.AuditLog = d.AuditLog)
        /\ stmt.op \in {"update", "updateOne"} =>
              UpdatedTo(d, sqlSave(d, stmt), stmt.e,
                        IF stmt.op = "update" THEN stmt.where \cap DOMAIN d[stmt.e] ELSE {stmt.ms[1].id},
                        stmt.ms[1], UpdateSpec[stmt.e])
    BY <1>0, <1>2, <2>1, <2>2, <2>3, StatementOK, Zenon
  <2>6. CASE r = Failed(d, "sql")
    <3>1. r.db = d /\ r.err # "ok"
      BY <2>6, FailedIs
    <3> QED BY <1>2, <3>1 DEF UpdatedTo
  <2>7. CASE r = sqlSave(d, stmt)
    <3>1. stmt.op \in {"update", "updateOne"} => UpdatedTo(d, r, stmt.e, ids, m, UpdateSpec[stmt.e])
      BY <1>4, <1>5, <2>5, <2>7, Zenon
    <3> QED BY <2>5, <2>7, <3>1
  <2> QED BY <1>3, <2>6, <2>7
<1>7. PICK ms : ms = [i \in DOMAIN stmt.ms |-> [stmt.ms[i] EXCEPT !.done = r.err = "ok"]]
  OBVIOUS
<1>8. PICK err : err = IF late THEN "ent" ELSE r.err
  OBVIOUS
<1>9. /\ stmt' = [stmt EXCEPT !.st = "saved", !.before = d, !.late = late, !.err = err, !.ms = ms]
      /\ late => r.err = "ok"
      /\ IF r.err = "ok" THEN InnerCommit(stmt.inTx, r.db) ELSE InnerRollback(stmt.inTx, r)
  BY <1>1, <1>3, <1>7, <1>8, Zenon DEF Exec
<1>10. /\ stmt'.st = "saved" /\ stmt'.e = stmt.e /\ stmt'.op = stmt.op /\ stmt'.inTx = stmt.inTx
       /\ stmt'.saves = stmt.saves /\ stmt'.ms = ms /\ stmt'.before = d /\ stmt'.err = err
       /\ stmt'.said = stmt.said /\ stmt'.where = stmt.where
  BY <1>0, <1>9 DEF StmtFields
<1>11. /\ DBOK(entDB') /\ (entTx'.st # "none" => DBOK(entTx'.db))
       /\ View(stmt.inTx)' \in {d, r.db} /\ (r.err = "ok" => View(stmt.inTx)' = r.db)
  <2>1. CASE ~stmt.inTx
    <3>1. entTx' = entTx /\ entDB' = (IF r.err = "ok" THEN r.db ELSE entDB) /\ d = entDB
      BY <1>1, <1>9, <2>1 DEF InnerCommit, InnerRollback, View
    <3>2. View(stmt.inTx)' = entDB' /\ entTx.st = "none"
      BY <1>0, <1>10, <2>1 DEF View
    <3> QED BY <1>2, <1>6, <3>1, <3>2
  <2>2. CASE stmt.inTx
    <3>1. /\ entDB' = entDB /\ entTx'.db \in {d, r.db} /\ (r.err = "ok" => entTx'.db = r.db)
      BY <1>0, <1>1, <1>9, <2>2 DEF InnerCommit, InnerRollback, View
    <3>2. View(stmt.inTx)' = entTx'.db
      BY <1>10, <2>2 DEF View
    <3> QED BY <1>0, <1>2, <1>6, <3>1, <3>2
  <2> QED BY <2>1, <2>2
<1>12. AuditTrailStays'
  BY <1>6, <1>10, <1>11 DEF AuditTrailStays
<1>13. BuilderOK'
  <2>1. ASSUME stmt.op \in {"create", "bulk"} PROVE CreationOK'
    <3>1. CreationOK
      BY <1>0, <2>1 DEF BuilderOK
    <3>2. DOMAIN ms = DOMAIN stmt.ms
      BY <1>7
    <3>3. \A i \in DOMAIN ms : DOMAIN ms[i] = MutationFields /\ ms[i].id = stmt.ms[i].id
      BY <1>7, <3>1 DEF CreationOK, MutationFields
    <3> QED BY <1>10, <3>1, <3>2, <3>3 DEF CreationOK
  <2>2. ASSUME stmt.op \in {"update", "updateOne"} PROVE UpdateOK'
    <3>1. UpdateOK
      BY <1>0, <2>2 DEF BuilderOK
    <3>2. PICK m2 : m2 = [m EXCEPT !.done = r.err = "ok"]
      OBVIOUS
    <3>3. DOMAIN ms = {1} /\ ms[1] = m2 /\ DOMAIN stmt.ms = {1}
      BY <1>5, <1>7, <3>1, <3>2 DEF UpdateOK
    <3>4. /\ MutationOK(stmt.e, m) /\ stmt.said \in Seq({stmt.said[i] : i \in DOMAIN stmt.said})
          /\ \A f \in Settable[stmt.e] : Heard(stmt.e, m, stmt.said, f)
      BY <1>5, <3>1, Zenon DEF UpdateOK, HeardAll
    <3>5. DOMAIN m2 = MutationFields /\ m2.set = m.set /\ m2.add = m.add /\ m2.clear = m.clear
      BY <3>2, <3>4 DEF MutationOK, MutationFields
    <3>6. MutationOK(stmt.e, m2)
      BY <3>4, <3>5 DEF MutationOK
    <3>7. ASSUME NEW f \in Settable[stmt.e] PROVE Heard(stmt.e, m2, stmt.said, f)
      <4>1. Heard(stmt.e, m, stmt.said, f)
        BY <3>4
      <4> QED BY <3>5, <4>1, HeardSame
    <3>8. HeardAll(stmt.e, m2, stmt.said)
      BY <3>4, <3>6, <3>7, Zenon DEF HeardAll
    <3> QED BY <1>10, <3>3, <3>8 DEF UpdateOK
  <2> QED BY <1>10, <2>1, <2>2 DEF BuilderOK
<1>14. StoredAsSaid'
  <2>0. PICK e : e = stmt.e
    OBVIOUS
  <2>1. CASE stmt.op \in {"update", "updateOne"} /\ err = "ok"
    <3>1. r.err = "ok" /\ View(stmt.inTx)' = r.db
      BY <1>8, <1>11, <2>1
    <3>2. /\ UpdateSpec[e] \cap DOMAIN m.set \cap (DOMAIN m.add \cup m.clear) = {}
          /\ DOMAIN r.db[e] = DOMAIN d[e]
          /\ \A i \in DOMAIN d[e] \cap ids : r.db[e][i] = UpdateRow(e, d[e][i], m, UpdateSpec[e])
      BY <1>6, <2>0, <2>1, <3>1 DEF UpdatedTo
    <3>3. MutationOK(e, m) /\ \A f \in Settable[e] : Heard(e, m, stmt.said, f)
      BY <1>0, <1>5, <2>0, <2>1 DEF BuilderOK, UpdateOK, HeardAll
    <3>4. ASSUME NEW i \in DOMAIN d[e] \cap ids
          PROVE  /\ \A f \in UpdateSpec[e] \cap DOMAIN EntFields[e] :
                      r.db[e][i].col[f] = Asked(e, d[e][i].col[f], stmt.said, f)
                 /\ \A f \in {"created_at", "occurred_at"} \cap DOMAIN r.db[e][i].col :
                      r.db[e][i].col[f] = d[e][i].col[f]
      <4>1. PICK new : new = UpdateRow(e, d[e][i], m, UpdateSpec[e])
        OBVIOUS
      <4>2. /\ DOMAIN new.col = CreateSpec[e]
            /\ \A f \in CreateSpec[e] :
                 new.col[f] = IF f \in UpdateSpec[e] THEN NewColumn(m, d[e][i].col[f], f)
                              ELSE d[e][i].col[f]
        BY <4>1 DEF UpdateRow
      <4>3. r.db[e][i] = new
        BY <3>2, <4>1
      <4>4. ASSUME NEW f \in UpdateSpec[e] \cap DOMAIN EntFields[e]
            PROVE  new.col[f] = Asked(e, d[e][i].col[f], stmt.said, f)
        <5>1. f \in Settable[e] /\ f \in CreateSpec[e]
          BY <1>0, <2>0, SchemaSets
        <5>2. new.col[f] = NewColumn(m, d[e][i].col[f], f)
          BY <4>2, <5>1
        <5>3. ~(f \in DOMAIN m.set /\ (f \in DOMAIN m.add \/ f \in m.clear))
          BY <3>2
        <5>4. Heard(e, m, stmt.said, f)
          BY <3>3, <5>1
        <5>5. NewColumn(m, d[e][i].col[f], f) = Asked(e, d[e][i].col[f], stmt.said, f)
          BY <1>0, <2>0, <3>3, <5>1, <5>3, <5>4, AskedIs
        <5> QED BY <5>2, <5>5
      <4>5. ASSUME NEW f \in {"created_at", "occurred_at"} \cap DOMAIN new.col
            PROVE  new.col[f] = d[e][i].col[f]
        <5>1. f \notin UpdateSpec[e]
          BY <1>0, <2>0, SchemaSets
        <5> QED BY <4>2, <5>1
      <4> QED BY <4>3, <4>4, <4>5
    <3>5. ms[1].id = stmt.ms[1].id
      <4>1. DOMAIN stmt.ms = {1} /\ DOMAIN stmt.ms[1] = MutationFields
        BY <1>0, <2>1 DEF BuilderOK, UpdateOK, HeardAll, MutationOK
      <4> QED BY <1>7, <4>1 DEF MutationFields
    <3>6. (IF stmt.op = "update" THEN stmt.where ELSE {ms[1].id}) \cap DOMAIN r.db[e]
            = DOMAIN d[e] \cap ids
      BY <1>4, <2>0, <3>2, <3>5
    <3>7. ASSUME NEW i \in (IF stmt.op = "update" THEN stmt.where ELSE {ms[1].id}) \cap DOMAIN r.db[e]
          PROVE  /\ \A f \in UpdateSpec[e] \cap DOMAIN EntFields[e] :
                      r.db[e][i].col[f] = Asked(e, d[e][i].col[f], stmt.said, f)
                 /\ \A f \in {"created_at", "occurred_at"} \cap DOMAIN r.db[e][i].col :
                      r.db[e][i].col[f] = d[e][i].col[f]
      BY <3>4, <3>6, Zenon
    <3> QED BY <1>10, <2>0, <3>1, <3>7 DEF StoredAsSaid
  <2>2. CASE ~(stmt.op \in {"update", "updateOne"} /\ err = "ok")
    BY <1>10, <2>2 DEF StoredAsSaid
  <2> QED BY <2>1, <2>2
<1> QED BY <1>10, <1>11, <1>12, <1>13, <1>14 DEF SavedInv

-----------------------------------------------------------------------------
\* A row of the initial database.
LEMMA StoredOK ==
  ASSUME NEW e \in Entities, NEW col, Required[e] \subseteq DOMAIN col \cup DOMAIN CreateDefaults(e, 0),
         \A f \in DOMAIN col \cap DOMAIN EntFields[e] : col[f] \in EntFields[e][f],
         \A f \in DOMAIN CreateDefaults(e, 0) : CreateDefaults(e, 0)[f] \in EntFields[e][f]
  PROVE  RowOK(e, Stored(e, col))
<1>1. PICK c : c = [f \in CreateSpec[e] |->
         IF f \in DOMAIN col THEN col[f]
         ELSE IF f \in DOMAIN CreateDefaults(e, 0) THEN CreateDefaults(e, 0)[f] ELSE Null]
  OBVIOUS
<1>2. Stored(e, col) = Row(c)
  BY <1>1 DEF Stored
<1>3. DOMAIN Row(c) = {"col", "added"} /\ Row(c).col = c
  BY DEF Row
<1>4. ASSUME NEW f \in DOMAIN EntFields[e]
      PROVE  c[f] \in EntFields[e][f] \/ (f \in Nullable[e] /\ c[f] = Null)
  <2>1. f \in CreateSpec[e] /\ (f \in Required[e] \/ f \in Nullable[e])
    BY SchemaSets, SchemaKinds
  <2> QED BY <1>1, <2>1
<1>5. DOMAIN c = CreateSpec[e]
  BY <1>1
<1> QED BY <1>2, <1>3, <1>4, <1>5 DEF RowOK

LEMMA DefaultsOK ==
  ASSUME NEW e \in Entities
  PROVE  /\ \A f \in DOMAIN CreateDefaults(e, 0) : CreateDefaults(e, 0)[f] \in EntFields[e][f]
         /\ Required[e] \subseteq DOMAIN Prepared(e) \cup DOMAIN CreateDefaults(e, 0)
<1>1. CASE e = "Agent"
  BY <1>1 DEF CreateDefaults, AgentDefaults, EntFields, AgentFields, Required, AgentRequired,
     AgentSetField, AgentTexts, AgentNumbers, AgentTimes, Prepared
<1>2. CASE e = "AuditLog"
  BY <1>2 DEF CreateDefaults, AuditLogDefaults, EntFields, AuditLogFields, Required, AuditLogRequired, Prepared
<1>3. CASE e = "OutboxEvent"
  BY <1>3 DEF CreateDefaults, OutboxDefaults, EntFields, OutboxEventFields, Required, OutboxRequired,
     OutboxSetField, OutboxTexts, OutboxPayload, OutboxOccurred, OutboxKey, OutboxNumbers, OutboxClears,
     OutboxNextRetry, Prepared
<1>4. CASE e = "User"
  BY <1>4 DEF CreateDefaults, UserDefaults, EntFields, UserFields, Required, UserRequired,
     UserSetField, UserTexts, UserTimes, Prepared
<1> QED BY <1>1, <1>2, <1>3, <1>4 DEF Entities

LEMMA SavedInit == EntInit => SavedInv
<1> SUFFICES ASSUME EntInit PROVE SavedInv
  OBVIOUS
<1>1. PICK a1, a2, l, o, u :
        /\ a1 = Stored("Agent", [owner_did |-> "a", level |-> 3])
        /\ a2 = Stored("Agent", [owner_did |-> "b"])
        /\ l = Stored("AuditLog", Prepared("AuditLog"))
        /\ o = Stored("OutboxEvent", [Prepared("OutboxEvent") EXCEPT !.idempotency_key = "a"])
        /\ u = Stored("User", [email |-> "a", role_did |-> "a"])
  OBVIOUS
<1>2. entDB = [Agent |-> <<a1, a2>>, AuditLog |-> <<l>>, OutboxEvent |-> <<o>>, User |-> <<u>>]
  BY <1>1, Zenon DEF EntInit
<1>3. RowOK("Agent", a1) /\ RowOK("Agent", a2)
  <2>1. PICK c : c = [owner_did |-> "a", level |-> 3]
    OBVIOUS
  <2>2. PICK c2 : c2 = [owner_did |-> "b"]
    OBVIOUS
  <2>3. /\ Required["Agent"] \subseteq DOMAIN c \cup DOMAIN CreateDefaults("Agent", 0)
        /\ Required["Agent"] \subseteq DOMAIN c2 \cup DOMAIN CreateDefaults("Agent", 0)
    BY <2>1, <2>2 DEF CreateDefaults, AgentDefaults, Required, AgentRequired, AgentSetField, AgentTexts,
       AgentNumbers, AgentTimes
  <2>4. /\ \A f \in DOMAIN c \cap DOMAIN EntFields["Agent"] : c[f] \in EntFields["Agent"][f]
        /\ \A f \in DOMAIN c2 \cap DOMAIN EntFields["Agent"] : c2[f] \in EntFields["Agent"][f]
    BY <2>1, <2>2 DEF EntFields, AgentFields, NotEmptyText
  <2>5. "Agent" \in Entities
    BY DEF Entities
  <2> QED BY <1>1, <2>1, <2>2, <2>3, <2>4, <2>5, DefaultsOK, StoredOK
<1>4. RowOK("AuditLog", l) /\ l.col.agent = 1
  <2>1. PICK c : c = Prepared("AuditLog")
    OBVIOUS
  <2>2. c = [action |-> "a", operator_did |-> "a", agent |-> 1]
    BY <2>1 DEF Prepared
  <2>3. \A f \in DOMAIN c \cap DOMAIN EntFields["AuditLog"] : c[f] \in EntFields["AuditLog"][f]
    BY <2>2 DEF EntFields, AuditLogFields, NotEmptyText
  <2>4. "AuditLog" \in Entities
    BY DEF Entities
  <2>5. Required["AuditLog"] \subseteq DOMAIN c \cup DOMAIN CreateDefaults("AuditLog", 0)
    BY <2>1, <2>4, DefaultsOK
  <2>6. RowOK("AuditLog", l)
    BY <1>1, <2>1, <2>3, <2>4, <2>5, DefaultsOK, StoredOK
  <2>7. l.col.agent = 1
    BY <1>1, <2>1, <2>2 DEF Stored, Row, CreateSpec, AuditLogCreateSpec
  <2> QED BY <2>6, <2>7
<1>5. RowOK("OutboxEvent", o)
  <2>1. PICK c : c = [Prepared("OutboxEvent") EXCEPT !.idempotency_key = "a"]
    OBVIOUS
  <2>2. c = [aggregate_type |-> "a", aggregate_id |-> "a", event_type |-> "a",
             payload |-> "a", idempotency_key |-> "a"]
    BY <2>1 DEF Prepared
  <2>3. "a" \in Texts /\ "a" \in NotEmptyText
    BY Zenon DEF Texts, NotEmptyText
  <2>4. \A f \in DOMAIN c \cap DOMAIN EntFields["OutboxEvent"] : c[f] \in EntFields["OutboxEvent"][f]
    BY <2>2, <2>3 DEF EntFields, OutboxEventFields
  <2>5. "OutboxEvent" \in Entities
    BY DEF Entities
  <2>6. DOMAIN c = DOMAIN Prepared("OutboxEvent")
    BY <2>1
  <2>7. Required["OutboxEvent"] \subseteq DOMAIN c \cup DOMAIN CreateDefaults("OutboxEvent", 0)
    BY <2>5, <2>6, DefaultsOK
  <2> QED BY <1>1, <2>1, <2>4, <2>5, <2>7, DefaultsOK, StoredOK
<1>6. RowOK("User", u)
  <2>1. PICK c : c = [email |-> "a", role_did |-> "a"]
    OBVIOUS
  <2>2. \A f \in DOMAIN c \cap DOMAIN EntFields["User"] : c[f] \in EntFields["User"][f]
    BY <2>1 DEF EntFields, UserFields, NotEmptyText
  <2>3. "User" \in Entities
    BY DEF Entities
  <2>4. DOMAIN c = DOMAIN Prepared("User")
    BY <2>1 DEF Prepared
  <2>5. Required["User"] \subseteq DOMAIN c \cup DOMAIN CreateDefaults("User", 0)
    BY <2>3, <2>4, DefaultsOK
  <2> QED BY <1>1, <2>1, <2>2, <2>3, <2>5, DefaultsOK, StoredOK
<1>7. /\ DOMAIN <<a1, a2>> = {1, 2} /\ DOMAIN <<l>> = {1} /\ DOMAIN <<o>> = {1} /\ DOMAIN <<u>> = {1}
      /\ <<a1, a2>>[1] = a1 /\ <<a1, a2>>[2] = a2 /\ <<l>>[1] = l /\ <<o>>[1] = o /\ <<u>>[1] = u
  OBVIOUS
<1>8. /\ entDB["Agent"] = <<a1, a2>> /\ entDB["AuditLog"] = <<l>> /\ entDB["OutboxEvent"] = <<o>>
      /\ entDB["User"] = <<u>> /\ DOMAIN entDB = Entities
  BY <1>2 DEF Entities
<1>9. \A e \in Entities : \A i \in DOMAIN entDB[e] : RowOK(e, entDB[e][i])
  BY <1>3, <1>4, <1>5, <1>6, <1>7, <1>8 DEF Entities
<1>10. entDB.AuditLog = [x \in DOMAIN entDB.AuditLog |-> entDB.AuditLog[x]]
  <2>1. <<l>> = [x \in {1} |-> l]
    OBVIOUS
  <2>2. [x \in {1} |-> l] = [x \in DOMAIN [y \in {1} |-> l] |-> [y \in {1} |-> l][x]]
    OBVIOUS
  <2> QED BY <1>8, <2>1, <2>2
<1>11. DBOK(entDB)
  BY <1>4, <1>7, <1>8, <1>9, <1>10 DEF DBOK, RowsOK
<1>12. stmt.st = "none" /\ entTx.st = "none"
  BY DEF EntInit, NoStmt, NoTx
<1> QED BY <1>11, <1>12 DEF SavedInv, StoredAsSaid, AuditTrailStays

(* Whatever the calls and the hooks did to the mutation: the rows of the   *)
(* database and of an open transaction are valid, every audit log has its  *)
(* agent, and an update's mutation holds of every field what the calls so  *)
(* far asked for it.                                                       *)
THEOREM SavedInvariant == EntSpec => []SavedInv
<1>1. EntInit => SavedInv
  BY SavedInit
<1>2. EntInv /\ SavedInv /\ [EntNext]_entVars => SavedInv'
  <2> SUFFICES ASSUME EntInv, SavedInv, [EntNext]_entVars PROVE SavedInv'
    OBVIOUS
  <2>1. CASE UNCHANGED entVars
    BY <2>1 DEF entVars, SavedInv, BuilderOK, CreationOK, UpdateOK, StoredAsSaid, AuditTrailStays, View
  <2>2. CASE \E e \in Entities, op \in Ops, where \in {{}, {1}, {1, 2}, {3}}, inTx \in BOOLEAN :
               NewBuilder(e, op, where, inTx)
    BY <2>2, NewBuilderSaved
  <2>3. CASE BuilderCall \/ HookChanges
    <3>1. /\ stmt.st \in {"build", "hooks"}
          /\ \E i \in DOMAIN stmt.ms : \E c \in BuilderCalls(stmt.op, stmt.e) \cup HookCalls(stmt.e) :
               MakeCall(i, c)
      BY <2>3 DEF BuilderCall, HookChanges
    <3> QED BY <3>1, CallSaved
  <2>4. CASE \E late \in BOOLEAN : Exec(late)
    BY <2>4, ExecSaved
  <2> QED BY <2>1, <2>2, <2>3, <2>4, SaveSaved, HookRefusesSaved, RetrySaved, TxSaved DEF EntNext
<1> QED BY <1>1, <1>2, EntInvariant, PTL DEF EntSpec

(* For any builders, calls, hooks, errors, retries and transactions: the   *)
(* rows stored passed the validators except for a number that was added    *)
(* to, a successful update stores what the calls and the hooks asked for   *)
(* in their order and no immutable field, and no operation on agents takes *)
(* an audit log from its agent.                                            *)
THEOREM SavedTheorem == EntSpec => []SavedAsAsked
<1>1. SavedInv => SavedAsAsked
  <2> SUFFICES ASSUME SavedInv PROVE SavedAsAsked
    OBVIOUS
  <2>1. RowsValid
    BY DEF SavedInv, DBOK, RowsOK, RowOK, RowsValid
  <2> QED BY <2>1 DEF SavedInv, SavedAsAsked
<1> QED BY <1>1, SavedInvariant, PTL

-----------------------------------------------------------------------------
(* The slow query monitor. *)

\* The bounds, read as numbers.
LEMMA BoundsFacts ==
  /\ Len(Bounds) \in Nat \ {0} /\ DOMAIN Bounds = 1..Len(Bounds)
  /\ \A i \in 1..Len(Bounds) : Bounds[i] \in Nat
  /\ \A i, j \in 1..Len(Bounds) : i <= j => Bounds[i] <= Bounds[j]
<1>1. Bounds \in Seq(Nat) /\ Bounds # <<>>
  BY BoundsAscend
<1>2. Len(Bounds) \in Nat \ {0} /\ DOMAIN Bounds = 1..Len(Bounds) /\ \A i \in 1..Len(Bounds) : Bounds[i] \in Nat
  BY <1>1
<1>3. \A i, j \in 1..Len(Bounds) : i < j => Bounds[i] < Bounds[j]
  BY <1>2, BoundsAscend
<1>4. ASSUME NEW i \in 1..Len(Bounds), NEW j \in 1..Len(Bounds), i <= j PROVE Bounds[i] <= Bounds[j]
  <2>1. CASE i = j
    BY <1>2, <2>1
  <2>2. CASE i < j
    BY <1>2, <1>3, <2>2
  <2> QED BY <1>4, <2>1, <2>2
<1> QED BY <1>2, <1>4

\* A duration is counted in the one bucket it lies between the bounds of.
LEMMA BucketOfIs ==
  ASSUME NEW d \in Durations
  PROVE  bucketOf(d) \in BucketNos /\ \A i \in BucketNos : d \in Between(i) <=> i = bucketOf(d)
<1>0. d \in Nat
  BY SQAssumption
<1> DEFINE L == Len(Bounds)
           Fits(i) == (i <= L => d <= Bounds[i]) /\ \A j \in 1..(i - 1) : d > Bounds[j]
<1>1. L \in Nat \ {0} /\ BucketNos = 1..(L + 1)
  BY BoundsFacts DEF BucketNos
<1>2. \E i \in BucketNos : Fits(i)
  <2> DEFINE T == {i \in BucketNos : i <= L => d <= Bounds[i]}
  <2>1. L + 1 \in T
    BY <1>1
  <2>2. T \subseteq Nat
    BY <1>1
  <2>3. PICK i \in T : \A y \in T : i <= y
    BY <2>1, <2>2, LeastOf
  <2>4. ASSUME NEW j \in 1..(i - 1) PROVE d > Bounds[j]
    <3>1. j \in BucketNos /\ j < i /\ j <= L /\ j \in 1..L
      BY <1>1, <2>3
    <3>2. j \notin T
      BY <2>2, <2>3, <3>1
    <3>3. Bounds[j] \in Nat
      BY <3>1, BoundsFacts
    <3> QED BY <1>0, <3>1, <3>2, <3>3
  <2> QED BY <2>3, <2>4
<1>3. bucketOf(d) \in BucketNos /\ Fits(bucketOf(d))
  <2>1. bucketOf(d) = CHOOSE i \in BucketNos : Fits(i)
    BY DEF bucketOf
  <2> HIDE DEF Fits
  <2> QED BY <1>2, <2>1
<1>4. ASSUME NEW i \in BucketNos PROVE d \in Between(i) <=> Fits(i)
  <2>1. i \in 1..(L + 1)
    BY <1>1
  <2>2. ASSUME d \in Between(i), NEW j \in 1..(i - 1) PROVE d > Bounds[j]
    <3>1. i - 1 \in 1..L /\ j \in 1..L /\ j <= i - 1 /\ i > 1
      BY <1>1, <2>1, <2>2
    <3>2. d > Bounds[i - 1]
      BY <2>2, <3>1 DEF Between
    <3>3. Bounds[j] \in Nat /\ Bounds[i - 1] \in Nat /\ Bounds[j] <= Bounds[i - 1]
      BY <3>1, BoundsFacts
    <3> QED BY <1>0, <3>2, <3>3
  <2>3. i > 1 => i - 1 \in 1..(i - 1)
    BY <2>1, <1>1
  <2> QED BY <2>2, <2>3 DEF Between
<1>5. ASSUME NEW i \in BucketNos, NEW j \in BucketNos, i < j PROVE ~(Fits(i) /\ Fits(j))
  <2>1. i \in 1..(j - 1) /\ i \in 1..L
    BY <1>1, <1>5
  <2>2. Bounds[i] \in Nat /\ i <= L
    BY <2>1, <1>1, BoundsFacts
  <2>3. CASE d <= Bounds[i]
    BY <1>0, <2>1, <2>2, <2>3
  <2>4. CASE ~(d <= Bounds[i])
    BY <2>2, <2>4
  <2> QED BY <2>3, <2>4
<1>6. \A i \in BucketNos : Fits(i) <=> i = bucketOf(d)
  <2> HIDE DEF Fits
  <2>1. \A i, j \in BucketNos : i < j \/ i = j \/ j < i
    BY <1>1
  <2> QED BY <1>3, <1>5, <2>1
<1> QED BY <1>3, <1>4, <1>6

\* The observations of a log that took a duration of D.
Those(log, D) == {k \in DOMAIN log : log[k] \in D}

\* They are finitely many, and one more when a duration of D is appended.
LEMMA ThoseAppend ==
  ASSUME NEW log \in Seq(Durations), NEW D
  PROVE  /\ IsFiniteSet(Those(log, D)) /\ Cardinality(Those(log, D)) \in Nat
         /\ \A d \in Durations : Cardinality(Those(Append(log, d), D)) =
              IF d \in D THEN Cardinality(Those(log, D)) + 1 ELSE Cardinality(Those(log, D))
<1> DEFINE S == Those(log, D)
<1>1. IsFiniteSet(S) /\ Cardinality(S) \in Nat
  <2>1. IsFiniteSet(1..Len(log)) /\ S \subseteq 1..Len(log)
    BY FS_Interval DEF Those
  <2> QED BY <2>1, FS_Subset, FS_CardinalityType
<1>2. ASSUME NEW d \in Durations
      PROVE  Cardinality(Those(Append(log, d), D)) =
               IF d \in D THEN Cardinality(S) + 1 ELSE Cardinality(S)
  <2> DEFINE new == Len(log) + 1  T == Those(Append(log, d), D)
  <2>1. /\ DOMAIN Append(log, d) = DOMAIN log \cup {new} /\ new \notin DOMAIN log
        /\ \A i \in DOMAIN log : Append(log, d)[i] = log[i]
        /\ Append(log, d)[new] = d
    OBVIOUS
  <2>2. T = (IF d \in D THEN S \cup {new} ELSE S) /\ new \notin S
    BY <2>1 DEF Those
  <2> HIDE DEF S, T, new
  <2>3. Cardinality(T) = IF d \in D THEN Cardinality(S) + 1 ELSE Cardinality(S)
    BY <1>1, <2>2, FS_AddElement
  <2> QED BY <2>3 DEF S, T
<1> QED BY <1>1, <1>2

\* What at most the bound i takes is what the bound before does, and bucket i.
LEMMA AtMostStep ==
  ASSUME SQTypeOK, NEW i \in 1..Len(Bounds)
  PROVE  /\ AtMost(Bounds[i]) =
              (IF i = 1 THEN 0 ELSE AtMost(Bounds[i - 1])) + HowMany(Between(i))
         /\ AtMost(Bounds[i]) \in Nat
<1> DEFINE Up(b) == {k \in DOMAIN observed : observed[k] \in {d \in Durations : d <= b}}
           B == {k \in DOMAIN observed : observed[k] \in Between(i)}
<1>0. observed \in Seq(Durations)
  BY DEF SQTypeOK
<1>1. \A D : IsFiniteSet({k \in DOMAIN observed : observed[k] \in D})
             /\ Cardinality({k \in DOMAIN observed : observed[k] \in D}) \in Nat
  <2> SUFFICES ASSUME NEW D
               PROVE  /\ IsFiniteSet(Those(observed, D)) /\ Cardinality(Those(observed, D)) \in Nat
    BY DEF Those
  <2> QED BY <1>0, ThoseAppend
<1>2. \A k \in DOMAIN observed : observed[k] \in Durations /\ observed[k] \in Nat
  <2>1. \A S : \A s \in Seq(S) : \A j \in DOMAIN s : s[j] \in S
    OBVIOUS
  <2>2. \A k \in DOMAIN observed : observed[k] \in Durations
    BY <1>0, <2>1, Zenon
  <2> QED BY <2>2, SQAssumption
<1>3. Bounds[i] \in Nat /\ i \in Nat /\ i <= Len(Bounds)
  BY BoundsFacts
<1>4. CASE i = 1
  <2>1. Up(Bounds[i]) = B
    BY <1>3, <1>4 DEF Between
  <2>2. Cardinality(B) \in Nat
    BY <1>1
  <2> HIDE DEF Up, B
  <2>3. Cardinality(Up(Bounds[i])) = 0 + Cardinality(B) /\ Cardinality(Up(Bounds[i])) \in Nat
    BY <2>1, <2>2
  <2> QED BY <1>4, <2>3 DEF AtMost, HowMany, Up, B
<1>5. CASE i # 1
  <2>1. i - 1 \in 1..Len(Bounds) /\ i > 1 /\ i - 1 <= i
    BY <1>3, <1>5
  <2>2. Bounds[i - 1] \in Nat /\ Bounds[i - 1] <= Bounds[i]
    BY <2>1, BoundsFacts
  <2> DEFINE b == Bounds[i]  c == Bounds[i - 1]
  <2>3. B = {k \in DOMAIN observed : observed[k] > c /\ observed[k] <= b}
    BY <1>2, <1>3, <2>1 DEF Between
  <2>4. Up(b) = {k \in DOMAIN observed : observed[k] <= b} /\ Up(c) = {k \in DOMAIN observed : observed[k] <= c}
    BY <1>2
  <2>5. Up(b) = Up(c) \cup B /\ Up(c) \cap B = {}
    <3>1. \A k \in DOMAIN observed : observed[k] <= b <=> observed[k] <= c \/ (observed[k] > c /\ observed[k] <= b)
      BY <1>2, <1>3, <2>2
    <3>2. \A k \in DOMAIN observed : ~(observed[k] <= c /\ observed[k] > c)
      BY <1>2, <2>2
    <3> HIDE DEF B, Up, b, c
    <3> QED BY <2>3, <2>4, <3>1, <3>2
  <2>6. IsFiniteSet(Up(c)) /\ IsFiniteSet(B) /\ Cardinality(Up(c)) \in Nat /\ Cardinality(B) \in Nat
        /\ Cardinality(Up(b)) \in Nat
    BY <1>1
  <2> HIDE DEF B, Up, b, c
  <2>7. Cardinality(Up(b)) = Cardinality(Up(c)) + Cardinality(B)
    <3>1. Cardinality(Up(c) \cap B) = 0
      BY <2>5, FS_EmptySet
    <3>2. Cardinality(Up(c) \cup B) = Cardinality(Up(c)) + Cardinality(B) - Cardinality(Up(c) \cap B)
      BY <2>6, FS_Union
    <3> QED BY <2>5, <2>6, <3>1, <3>2
  <2> QED BY <1>5, <2>6, <2>7 DEF AtMost, HowMany, B, Up, b, c
<1> QED BY <1>4, <1>5

\* At the start the types hold.
LEMMA SQTypeInit == SQInit => SQTypeOK
<1> SUFFICES ASSUME SQInit PROVE SQTypeOK
  OBVIOUS
<1>1. resetting \in 0..(Len(Bounds) + 3)
  BY BoundsFacts DEF SQInit
<1>2. observed \in Seq(Durations)
  BY DEF SQInit
<1>3. histCounts \in [BucketNos -> Nat] /\ observing \in [Observers -> Observation \cup {NotObserving}]
  BY DEF SQInit
<1> QED BY <1>1, <1>2, <1>3 DEF SQInit, SQTypeOK

\* An observer that has loaded the maximum.
LEMMA LoadMaxType ==
  ASSUME SQTypeOK, NEW d \in Durations
  PROVE  /\ LoadMax(d) \in Observation /\ LoadMax(d).d = d /\ LoadMax(d).old = histMax
         /\ LoadMax(d).pc \in {"cas", "count"}
         /\ LoadMax(d).pc = "cas" <=> d > histMax
<1>1. d \in Nat /\ histMax \in Nat
  BY SQAssumption DEF SQTypeOK
<1> QED BY <1>1 DEF LoadMax, Observation

\* Who is in Observe, by the place it has reached.
LEMMA ObserverPlaces ==
  ASSUME SQTypeOK, NEW g \in Observers
  PROVE  /\ observing[g] # NotObserving <=> observing[g].pc # "idle"
         /\ observing[g].pc # "idle" => observing[g] \in Observation
         /\ observing[g].pc # "idle" <=> observing[g].pc \in ToSlow
<1>1. observing[g] \in Observation \/ observing[g] = NotObserving
  BY DEF SQTypeOK
<1>2. NotObserving.pc = "idle"
  BY DEF NotObserving
<1>3. \A o \in Observation : o.pc \in {"cas", "count", "bucket", "slow"} /\ o.pc # "idle"
  BY DEF Observation
<1> QED BY <1>1, <1>2, <1>3 DEF ToSlow

\* Every step keeps the monitor's type invariant.
LEMMA SQTypeNext == SQTypeOK /\ [SQNext]_sqVars => SQTypeOK'
<1> SUFFICES ASSUME SQTypeOK, [SQNext]_sqVars PROVE SQTypeOK'
  OBVIOUS
<1>0. Len(Bounds) \in Nat \ {0} /\ BucketNos = 1..(Len(Bounds) + 1)
  BY BoundsFacts DEF BucketNos
<1>a. ASSUME SQCall PROVE sqCalls' \in Nat
  BY <1>a DEF SQCall, SQTypeOK
<1>b. (IF asking = NotAsking THEN asking ELSE [asking EXCEPT !.alone = FALSE])
        \in Question \cup {NotAsking}
  BY DEF SQTypeOK, Question
<1>1. ASSUME NEW g \in Observers, ObserveBegin(g) PROVE SQTypeOK'
  <2>1. PICK d \in Durations : observing' = [observing EXCEPT ![g] = LoadMax(d)] /\ observed' = Append(observed, d)
    BY <1>1 DEF ObserveBegin
  <2>2. observing' \in [Observers -> Observation \cup {NotObserving}] /\ observed' \in Seq(Durations)
    BY <2>1, LoadMaxType DEF SQTypeOK
  <2>3. sqCalls' \in Nat /\ asking' \in Question \cup {NotAsking} /\ mixed' \in BOOLEAN
    BY <1>1, <1>a, <1>b DEF ObserveBegin, SQTypeOK
  <2> QED BY <1>1, <2>2, <2>3 DEF ObserveBegin, SQTypeOK
<1>2. ASSUME NEW g \in Observers, observing[g].pc # "idle"
      PROVE  /\ \A pc \in ToSlow : [observing[g] EXCEPT !.pc = pc] \in Observation
             /\ observing[g].d \in Durations /\ observing[g].d \in Nat
  BY <1>2, ObserverPlaces, SQAssumption DEF Observation, ToSlow
<1>3. ASSUME NEW g \in Observers, CompareAndSwap(g) PROVE SQTypeOK'
  <2>1. observing[g].pc = "cas"
    BY <1>3 DEF CompareAndSwap
  <2>2. /\ [observing[g] EXCEPT !.pc = "count"] \in Observation
        /\ observing[g].d \in Durations /\ observing[g].d \in Nat
    BY <1>2, <2>1 DEF ToSlow
  <2>3. observing' \in [Observers -> Observation \cup {NotObserving}] /\ histMax' \in Nat
    BY <1>3, <2>2, LoadMaxType DEF CompareAndSwap, SQTypeOK
  <2> QED BY <1>3, <2>3 DEF CompareAndSwap, SQTypeOK
<1>4. ASSUME NEW g \in Observers, AddCount(g) PROVE SQTypeOK'
  <2>1. observing[g].pc = "count"
    BY <1>4 DEF AddCount
  <2>2. [observing[g] EXCEPT !.pc = "bucket"] \in Observation
    BY <1>2, <2>1 DEF ToSlow
  <2>3. observing' \in [Observers -> Observation \cup {NotObserving}]
    BY <1>4, <2>2 DEF AddCount, SQTypeOK
  <2> QED BY <1>4, <2>3 DEF AddCount, SQTypeOK
<1>5. ASSUME NEW g \in Observers, AddBucket(g) PROVE SQTypeOK'
  <2>1. observing[g].pc = "bucket"
    BY <1>5 DEF AddBucket
  <2>2. [observing[g] EXCEPT !.pc = "slow"] \in Observation /\ observing[g].d \in Durations
    BY <1>2, <2>1 DEF ToSlow
  <2>3. observing' \in [Observers -> Observation \cup {NotObserving}]
    BY <1>5, <2>2 DEF AddBucket, SQTypeOK
  <2>4. histCounts' \in [BucketNos -> Nat]
    BY <1>5, <2>2, BucketOfIs DEF AddBucket, SQTypeOK
  <2> QED BY <1>5, <2>3, <2>4 DEF AddBucket, SQTypeOK
<1>6. ASSUME NEW g \in Observers, AddSlow(g) PROVE SQTypeOK'
  BY <1>6 DEF AddSlow, SQTypeOK
<1>7. ASSUME PercentileBegin PROVE SQTypeOK'
  <2>1. \A p \in Percents : (histCount * p) \div 100 \in Nat
    <3>1. \A p \in Percents : p \in Nat
      BY SQAssumption
    <3>2. histCount \in Nat
      BY DEF SQTypeOK
    <3>3. \A p \in Percents : histCount * p \in Nat
      BY <3>1, <3>2
    <3> QED BY <3>3
  <2>2. PICK p \in Percents :
          asking' = [pc |-> IF (histCount * p) \div 100 = 0 THEN "answered" ELSE "read",
                     target |-> (histCount * p) \div 100,
                     i |-> 1, cum |-> 0, answer |-> 0, p |-> p,
                     alone |-> ~InObserve /\ resetting = 0 /\ ~mixed]
    BY <1>7 DEF PercentileBegin
  <2>3. asking' \in Question
    <3>1. (~InObserve /\ resetting = 0 /\ ~mixed) \in BOOLEAN /\ 1 \in BucketNos
      BY <1>0
    <3> QED BY <2>1, <2>2, <3>1 DEF Question
  <2> QED BY <1>7, <1>a, <2>3 DEF PercentileBegin, SQTypeOK
<1>8. ASSUME ReadBucket PROVE SQTypeOK'
  <2>1. asking \in Question /\ asking.pc = "read"
    BY <1>8 DEF ReadBucket, SQTypeOK, NotAsking
  <2>2. asking.i \in BucketNos /\ asking.cum + histCounts[asking.i] \in Nat
    BY <2>1 DEF SQTypeOK, Question
  <2>3. /\ asking.i <= Len(Bounds) => Bounds[asking.i] \in Nat
        /\ Bounds[Len(Bounds)] \in Nat
        /\ asking.i # Len(Bounds) + 1 => asking.i + 1 \in BucketNos
    BY <1>0, <2>2, BoundsFacts
  <2>4. asking' \in Question
    BY <1>8, <2>1, <2>2, <2>3 DEF ReadBucket, Question
  <2> QED BY <1>8, <2>4 DEF ReadBucket, SQTypeOK
<1>9. ASSUME PercentileReturns PROVE SQTypeOK'
  BY <1>9 DEF PercentileReturns, SQTypeOK
<1>10. ASSUME ResetBegin PROVE SQTypeOK'
  <2>1. asking' \in Question \cup {NotAsking} /\ sqCalls' \in Nat /\ mixed' \in BOOLEAN
    BY <1>10, <1>a, <1>b DEF ResetBegin, InObserve
  <2>2. resetting' \in 0..(Len(Bounds) + 3) /\ observed' \in Seq(Durations)
    BY <1>0, <1>10 DEF ResetBegin
  <2> QED BY <1>10, <2>1, <2>2 DEF ResetBegin, SQTypeOK
<1>11. ASSUME ResetStep PROVE SQTypeOK'
  <2>1. resetting' \in 0..(Len(Bounds) + 3)
    BY <1>0, <1>11 DEF ResetStep, SQTypeOK
  <2>2. histCounts' \in [BucketNos -> Nat]
    BY <1>11 DEF ResetStep, SQTypeOK
  <2> QED BY <1>11, <2>1, <2>2 DEF ResetStep, SQTypeOK
<1>12. ASSUME UNCHANGED sqVars PROVE SQTypeOK'
  BY <1>12 DEF sqVars, SQTypeOK
<1> QED BY <1>1, <1>3, <1>4, <1>5, <1>6, <1>7, <1>8, <1>9, <1>10, <1>11, <1>12 DEF SQNext

\* A goroutine loads the maximum before it decides to swap it, and compares its
\* duration with the threshold before it counts it as slow.
LEMMA ObservingNext == SQTypeOK /\ ObservingInv /\ [SQNext]_sqVars => ObservingInv'
<1> SUFFICES ASSUME SQTypeOK, ObservingInv, [SQNext]_sqVars PROVE ObservingInv'
  OBVIOUS
<1> DEFINE Right(o) == /\ o.pc = "cas" => o.d > o.old
                       /\ o.pc = "slow" => o.d >= Threshold
<1>1. ASSUME NEW g \in Observers, NEW o, Right(o), observing' = [observing EXCEPT ![g] = o]
      PROVE  ObservingInv'
  BY <1>1 DEF ObservingInv, SQTypeOK
<1>2. ASSUME NEW d \in Durations PROVE Right(LoadMax(d))
  BY LoadMaxType
<1>3. \A g \in Observers : observing[g].pc # "idle" => observing[g] \in Observation /\ observing[g].d \in Nat
  BY ObserverPlaces, SQAssumption DEF Observation
<1>4. ASSUME NEW g \in Observers, ObserveBegin(g) PROVE ObservingInv'
  BY <1>1, <1>2, <1>4 DEF ObserveBegin
<1>5. ASSUME NEW g \in Observers, CompareAndSwap(g) PROVE ObservingInv'
  <2>1. observing[g] \in Observation
    BY <1>3, <1>5 DEF CompareAndSwap
  <2>2. observing[g].d \in Durations /\ Right([observing[g] EXCEPT !.pc = "count"])
    BY <2>1 DEF Observation
  <2>3. \E o : Right(o) /\ observing' = [observing EXCEPT ![g] = o]
    BY <1>2, <1>5, <2>2 DEF CompareAndSwap
  <2> QED BY <1>1, <2>3
<1>6. ASSUME NEW g \in Observers, AddCount(g) PROVE ObservingInv'
  <2>1. observing[g] \in Observation
    BY <1>3, <1>6 DEF AddCount
  <2>2. Right([observing[g] EXCEPT !.pc = "bucket"])
    BY <2>1 DEF Observation
  <2> QED BY <1>1, <1>6, <2>2 DEF AddCount
<1>7. ASSUME NEW g \in Observers, AddBucket(g) PROVE ObservingInv'
  <2> DEFINE o == IF observing[g].d < Threshold THEN NotObserving ELSE [observing[g] EXCEPT !.pc = "slow"]
  <2>1. observing[g] \in Observation /\ observing[g].d \in Nat
    BY <1>3, <1>7 DEF AddBucket
  <2>2. Right(o)
    BY <2>1, SQAssumption DEF Observation, NotObserving
  <2>3. observing' = [observing EXCEPT ![g] = o]
    BY <1>7 DEF AddBucket
  <2> HIDE DEF o, Right
  <2> QED BY <1>1, <2>2, <2>3
<1>8. ASSUME NEW g \in Observers, AddSlow(g) PROVE ObservingInv'
  BY <1>1, <1>8 DEF AddSlow, NotObserving
<1>9. ASSUME UNCHANGED observing PROVE ObservingInv'
  BY <1>9 DEF ObservingInv
<1> QED BY <1>4, <1>5, <1>6, <1>7, <1>8, <1>9 DEF SQNext, PercentileBegin, ReadBucket,
        PercentileReturns, ResetBegin, ResetStep, sqVars

\* Goroutine r is one of Pending(pcs, D).
Waits(r, pcs, D) == r.pc \in pcs /\ r.d \in D
Share(r, pcs, D) == IF Waits(r, pcs, D) THEN 1 ELSE 0

\* A counter takes from its goroutine what that goroutine was pending for.
Takes(n, n2, r, o, pcs, D) == n2 + Share(o, pcs, D) = n + Share(r, pcs, D)

\* The counter n makes up what is observed, with those pending, in the next state.
LackAfter(n, pcs, D) == n + Cardinality(Pending(pcs, D)') = HowMany(D)'

\* Those pending after a step in which the share of one goroutine becomes b from a.
Balance(pcs, D, a, b) ==
  /\ Cardinality(Pending(pcs, D)) \in Nat /\ Cardinality(Pending(pcs, D)') \in Nat
  /\ Cardinality(Pending(pcs, D)') + a = Cardinality(Pending(pcs, D)) + b

\* When one goroutine moves, only it can join or leave those that are pending.
LEMMA PendingStep ==
  ASSUME SQTypeOK, NEW g \in Observers, NEW o, observing' = [observing EXCEPT ![g] = o],
         NEW pcs, NEW D
  PROVE  Balance(pcs, D, Share(observing[g], pcs, D), Share(o, pcs, D))
<1> DEFINE S == Pending(pcs, D)  S2 == Pending(pcs, D)'
<1>1. IsFiniteSet(S) /\ IsFiniteSet(S2)
  BY SQAssumption, FS_Subset DEF Pending
<1>2. observing'[g] = o /\ \A h \in Observers \ {g} : observing'[h] = observing[h]
  BY DEF SQTypeOK
<1>3. S \ {g} = S2 \ {g} /\ (g \in S <=> Waits(observing[g], pcs, D)) /\ (g \in S2 <=> Waits(o, pcs, D))
  BY <1>2 DEF Pending, Waits
<1>4. /\ Cardinality(S \ {g}) = IF g \in S THEN Cardinality(S) - 1 ELSE Cardinality(S)
      /\ Cardinality(S2 \ {g}) = IF g \in S2 THEN Cardinality(S2) - 1 ELSE Cardinality(S2)
      /\ Cardinality(S) \in Nat /\ Cardinality(S2) \in Nat
  BY <1>1, FS_RemoveElement, FS_CardinalityType
<1> HIDE DEF S, S2
<1>5. Cardinality(S2) + Share(observing[g], pcs, D) = Cardinality(S) + Share(o, pcs, D)
  BY <1>3, <1>4 DEF Share
<1> QED BY <1>4, <1>5 DEF S, S2, Balance

\* When nobody is in Observe, nobody is pending.
LEMMA NonePending ==
  ASSUME SQTypeOK, ~InObserve, NEW pcs \in SUBSET ToSlow, NEW D
  PROVE  Cardinality(Pending(pcs, D)) = 0
<1>1. Pending(pcs, D) = {}
  BY ObserverPlaces DEF Pending, InObserve, ToSlow
<1> QED BY <1>1, FS_EmptySet

\* The log counts, and each duration appended once.
LEMMA HowManyStep ==
  ASSUME SQTypeOK, NEW D
  PROVE  /\ HowMany(D) \in Nat
         /\ observed' = observed => HowMany(D)' = HowMany(D)
         /\ \A d \in Durations : observed' = Append(observed, d) =>
              HowMany(D)' = IF d \in D THEN HowMany(D) + 1 ELSE HowMany(D)
<1>1. HowMany(D) = Cardinality(Those(observed, D)) /\ HowMany(D)' = Cardinality(Those(observed', D))
  BY DEF HowMany, Those
<1>2. observed \in Seq(Durations)
  BY DEF SQTypeOK
<1>3. /\ Cardinality(Those(observed, D)) \in Nat
      /\ \A d \in Durations : Cardinality(Those(Append(observed, d), D)) =
           IF d \in D THEN Cardinality(Those(observed, D)) + 1 ELSE Cardinality(Those(observed, D))
  BY <1>2, ThoseAppend
<1> QED BY <1>1, <1>3

\* A counter whose goroutines stand still lacks what it did.
LEMMA LackStep ==
  ASSUME SQTypeOK, NEW n \in Nat, NEW n2 \in Nat, NEW pcs, NEW D, Lack(n, pcs, D),
         NEW g \in Observers, NEW o, observing' = [observing EXCEPT ![g] = o], observed' = observed,
         Takes(n, n2, observing[g], o, pcs, D)
  PROVE  LackAfter(n2, pcs, D)
<1> DEFINE c == Cardinality(Pending(pcs, D))  c2 == Cardinality(Pending(pcs, D)')
           w == Share(observing[g], pcs, D)  w2 == Share(o, pcs, D)
<1>1. c \in Nat /\ c2 \in Nat /\ c2 + w = c + w2
  <2>1. Balance(pcs, D, Share(observing[g], pcs, D), Share(o, pcs, D))
    BY PendingStep
  <2> QED BY <2>1 DEF Balance
<1>2. HowMany(D)' = HowMany(D) /\ HowMany(D) \in Nat
  BY HowManyStep
<1>3. n + c = HowMany(D)
  BY DEF Lack
<1>4. n2 + w2 = n + w /\ w \in Nat /\ w2 \in Nat
  BY DEF Share, Takes
<1> HIDE DEF c, c2, w, w2
<1>5. n2 + c2 = HowMany(D)
  BY <1>1, <1>2, <1>3, <1>4
<1> QED BY <1>2, <1>5 DEF c2, LackAfter

\* An Observe that begins lacks in each counter it has yet to reach.
LEMMA LackBegin ==
  ASSUME SQTypeOK, NEW n \in Nat, NEW pcs, NEW D, ToCount \subseteq pcs, "idle" \notin pcs,
         Lack(n, pcs, D), NEW g \in Observers, observing[g] = NotObserving, NEW d \in Durations,
         observing' = [observing EXCEPT ![g] = LoadMax(d)], observed' = Append(observed, d)
  PROVE  LackAfter(n, pcs, D)
<1> DEFINE c == Cardinality(Pending(pcs, D))  c2 == Cardinality(Pending(pcs, D)')
<1>1. ~Waits(observing[g], pcs, D) /\ (Waits(LoadMax(d), pcs, D) <=> d \in D)
  BY LoadMaxType DEF Waits, NotObserving, ToCount
<1>2. c \in Nat /\ c2 \in Nat /\ c2 = c + (IF d \in D THEN 1 ELSE 0)
  <2>1. Balance(pcs, D, Share(observing[g], pcs, D), Share(LoadMax(d), pcs, D))
    BY PendingStep
  <2> QED BY <1>1, <2>1 DEF Balance, Share
<1>3. HowMany(D)' = (IF d \in D THEN HowMany(D) + 1 ELSE HowMany(D)) /\ HowMany(D) \in Nat
  BY HowManyStep
<1>4. n + c = HowMany(D)
  BY DEF Lack
<1> HIDE DEF c, c2
<1>5. n + c2 = HowMany(D)'
  BY <1>2, <1>3, <1>4
<1> QED BY <1>5 DEF c2, LackAfter

\* The counters: each step of Observe adds what its goroutine was pending for, and
\* a Reset that nobody overlaps ends with nothing counted and nothing observed.
LEMMA LackNext ==
  SQTypeOK /\ ObservingInv /\ LackInv /\ ResetInv /\ [SQNext]_sqVars => LackInv'
<1> SUFFICES ASSUME SQTypeOK, ObservingInv, LackInv, ResetInv, [SQNext]_sqVars,
                    resetting' = 0, ~mixed'
             PROVE  /\ LackAfter(histCount', ToCount, Durations)
                    /\ \A i \in BucketNos : LackAfter(histCounts'[i], ToBucket, Between(i))
                    /\ LackAfter(slowCount', ToSlow, Slow)
  BY DEF LackInv, Lack, LackAfter
<1> DEFINE C1 == LackAfter(histCount', ToCount, Durations)
           C2 == \A i \in BucketNos : LackAfter(histCounts'[i], ToBucket, Between(i))
           C3 == LackAfter(slowCount', ToSlow, Slow)
           Goal == C1 /\ C2 /\ C3
<1>0. /\ histCount \in Nat /\ slowCount \in Nat /\ \A i \in BucketNos : histCounts[i] \in Nat
      /\ histCount' \in Nat /\ slowCount' \in Nat /\ \A i \in BucketNos : histCounts'[i] \in Nat
  BY SQTypeNext DEF SQTypeOK
<1>1. /\ "cas" \in ToCount /\ "cas" \in ToBucket /\ "cas" \in ToSlow
      /\ "count" \in ToCount /\ "count" \in ToBucket /\ "count" \in ToSlow
      /\ "bucket" \notin ToCount /\ "bucket" \in ToBucket /\ "bucket" \in ToSlow
      /\ "slow" \notin ToCount /\ "slow" \notin ToBucket /\ "slow" \in ToSlow
      /\ "idle" \notin ToCount /\ "idle" \notin ToBucket /\ "idle" \notin ToSlow
      /\ ToCount \subseteq ToBucket /\ ToCount \subseteq ToSlow
  BY DEF ToCount, ToBucket, ToSlow
<1>2. ASSUME resetting = 0, ~mixed
      PROVE  /\ Lack(histCount, ToCount, Durations)
             /\ \A i \in BucketNos : Lack(histCounts[i], ToBucket, Between(i))
             /\ Lack(slowCount, ToSlow, Slow)
  BY <1>2 DEF LackInv
<1>3. ASSUME NEW g \in Observers, NEW o, observing' = [observing EXCEPT ![g] = o], observed' = observed,
             resetting = 0, ~mixed,
             Takes(histCount, histCount', observing[g], o, ToCount, Durations),
             \A i \in BucketNos : Takes(histCounts[i], histCounts'[i], observing[g], o, ToBucket, Between(i)),
             Takes(slowCount, slowCount', observing[g], o, ToSlow, Slow)
      PROVE  Goal
  <2>1. C1
    BY <1>0, <1>2, <1>3, LackStep
  <2>2. C2
    <3> SUFFICES ASSUME NEW i \in BucketNos
                 PROVE  LackAfter(histCounts'[i], ToBucket, Between(i))
      OBVIOUS
    <3> DEFINE n == histCounts[i]  n2 == histCounts'[i]
    <3>1. n \in Nat /\ n2 \in Nat /\ Lack(n, ToBucket, Between(i))
          /\ Takes(n, n2, observing[g], o, ToBucket, Between(i))
      BY <1>0, <1>2, <1>3
    <3> HIDE DEF n, n2
    <3>2. LackAfter(n2, ToBucket, Between(i))
      BY <1>3, <3>1, LackStep
    <3> QED BY <3>2 DEF n2
  <2>3. C3
    BY <1>0, <1>2, <1>3, LackStep
  <2> QED BY <2>1, <2>2, <2>3
<1>4. ASSUME observing' = observing, observed' = observed, UNCHANGED <<histCount, histCounts, slowCount>>,
             resetting = 0, ~mixed
      PROVE  Goal
  <2>1. \A pcs, D : Pending(pcs, D)' = Pending(pcs, D) /\ HowMany(D)' = HowMany(D)
    BY <1>4 DEF Pending, HowMany
  <2> QED BY <1>2, <1>4, <2>1 DEF Lack, LackAfter
<1>5. ASSUME NEW g \in Observers, ObserveBegin(g) PROVE Goal
  <2>1. resetting = 0 /\ ~mixed
    BY <1>5 DEF ObserveBegin
  <2>2. PICK d \in Durations : observing' = [observing EXCEPT ![g] = LoadMax(d)] /\ observed' = Append(observed, d)
    BY <1>5 DEF ObserveBegin
  <2>3. observing[g] = NotObserving /\ UNCHANGED <<histCount, histCounts, slowCount>>
    BY <1>5 DEF ObserveBegin
  <2>4. C1
    BY <1>0, <1>1, <1>2, <2>1, <2>2, <2>3, LackBegin
  <2>5. C2
    <3> SUFFICES ASSUME NEW i \in BucketNos
                 PROVE  LackAfter(histCounts'[i], ToBucket, Between(i))
      OBVIOUS
    <3> DEFINE n == histCounts[i]
    <3>1. n \in Nat /\ Lack(n, ToBucket, Between(i)) /\ histCounts'[i] = n
      BY <1>0, <1>2, <2>1, <2>3
    <3> HIDE DEF n
    <3>2. LackAfter(n, ToBucket, Between(i))
      BY <1>1, <2>2, <2>3, <3>1, LackBegin
    <3> QED BY <3>1, <3>2
  <2>6. C3
    BY <1>0, <1>1, <1>2, <2>1, <2>2, <2>3, LackBegin
  <2> QED BY <2>4, <2>5, <2>6
<1>6. ASSUME NEW g \in Observers, observing[g].pc # "idle"
      PROVE  /\ observing[g] \in Observation /\ observing[g].d \in Durations /\ observing[g].d \in Nat
             /\ \A pc : [observing[g] EXCEPT !.pc = pc].pc = pc
                        /\ [observing[g] EXCEPT !.pc = pc].d = observing[g].d
  BY <1>6, ObserverPlaces, SQAssumption DEF Observation
<1>7. ASSUME NEW g \in Observers, CompareAndSwap(g) PROVE Goal
  <2> DEFINE r == observing[g]
  <2>1. /\ r.pc = "cas" /\ observed' = observed /\ resetting = 0 /\ ~mixed
        /\ UNCHANGED <<histCount, histCounts, slowCount>>
    BY <1>7 DEF CompareAndSwap
  <2>2. \E o : observing' = [observing EXCEPT ![g] = o] /\ o.pc \in ToCount /\ o.d = r.d
    <3>1. r.d \in Durations /\ [r EXCEPT !.pc = "count"].pc = "count" /\ [r EXCEPT !.pc = "count"].d = r.d
      BY <1>6, <2>1
    <3>2. LoadMax(r.d).pc \in ToCount /\ LoadMax(r.d).d = r.d
      BY <3>1, LoadMaxType DEF ToCount
    <3>3. observing' = [observing EXCEPT ![g] = [r EXCEPT !.pc = "count"]]
          \/ observing' = [observing EXCEPT ![g] = LoadMax(r.d)]
      BY <1>7 DEF CompareAndSwap, SQTypeOK
    <3> QED BY <1>1, <3>1, <3>2, <3>3
  <2>3. PICK o : observing' = [observing EXCEPT ![g] = o] /\ o.pc \in ToCount /\ o.d = r.d
    BY <2>2
  <2>4. \A pcs, D : ToCount \subseteq pcs => Share(o, pcs, D) = Share(r, pcs, D)
    BY <1>1, <2>1, <2>3 DEF Share, Waits
  <2>5. /\ Share(o, ToCount, Durations) = Share(r, ToCount, Durations)
        /\ \A i \in BucketNos : Share(o, ToBucket, Between(i)) = Share(r, ToBucket, Between(i))
        /\ Share(o, ToSlow, Slow) = Share(r, ToSlow, Slow)
    BY <1>1, <2>4
  <2> QED BY <1>3, <2>1, <2>3, <2>5 DEF Takes
<1>8. ASSUME NEW g \in Observers, AddCount(g) PROVE Goal
  <2> DEFINE r == observing[g]  o == [r EXCEPT !.pc = "bucket"]
  <2>1. /\ r.pc = "count" /\ observed' = observed /\ resetting = 0 /\ ~mixed /\ histCount' = histCount + 1
        /\ UNCHANGED <<histCounts, slowCount>> /\ observing' = [observing EXCEPT ![g] = o]
    BY <1>8 DEF AddCount, SQTypeOK
  <2>2. o.pc = "bucket" /\ o.d = r.d /\ r.d \in Durations
    BY <1>6, <2>1
  <2> HIDE DEF o
  <2>3. Share(o, ToCount, Durations) = 0 /\ Share(r, ToCount, Durations) = 1
    BY <1>1, <2>1, <2>2 DEF Share, Waits
  <2>4. /\ \A i \in BucketNos : Share(o, ToBucket, Between(i)) = Share(r, ToBucket, Between(i))
        /\ Share(o, ToSlow, Slow) = Share(r, ToSlow, Slow)
    BY <1>1, <2>1, <2>2 DEF Share, Waits
  <2>5. histCount' + Share(o, ToCount, Durations) = histCount + Share(r, ToCount, Durations)
    BY <1>0, <2>1, <2>3
  <2> QED BY <1>3, <2>1, <2>4, <2>5 DEF Takes
<1>9. ASSUME NEW g \in Observers, AddBucket(g) PROVE Goal
  <2> DEFINE r == observing[g]
             o == IF r.d < Threshold THEN NotObserving ELSE [r EXCEPT !.pc = "slow"]
  <2>1. /\ r.pc = "bucket" /\ observed' = observed /\ resetting = 0 /\ ~mixed
        /\ histCounts' = [histCounts EXCEPT ![bucketOf(r.d)] = @ + 1]
        /\ UNCHANGED <<histCount, slowCount>> /\ observing' = [observing EXCEPT ![g] = o]
    BY <1>9 DEF AddBucket, SQTypeOK
  <2>2. /\ r.d \in Durations /\ r.d \in Nat
        /\ o.pc = IF r.d < Threshold THEN "idle" ELSE "slow"
        /\ ~(r.d < Threshold) => o.d = r.d
    BY <1>6, <2>1 DEF NotObserving
  <2> HIDE DEF o
  <2>3. Share(o, ToCount, Durations) = 0 /\ Share(r, ToCount, Durations) = 0
    BY <1>1, <2>1, <2>2 DEF Share, Waits
  <2>4. \A i \in BucketNos : Share(o, ToBucket, Between(i)) = 0
    BY <1>1, <2>2 DEF Share, Waits
  <2>5. \A i \in BucketNos : histCounts'[i] = histCounts[i] + Share(r, ToBucket, Between(i))
    <3> SUFFICES ASSUME NEW i \in BucketNos PROVE histCounts'[i] = histCounts[i] + Share(r, ToBucket, Between(i))
      OBVIOUS
    <3>1. bucketOf(r.d) \in BucketNos /\ (r.d \in Between(i) <=> i = bucketOf(r.d))
      BY <2>2, BucketOfIs
    <3>2. CASE i = bucketOf(r.d)
      <4>1. Share(r, ToBucket, Between(i)) = 1
        BY <1>1, <2>1, <3>1, <3>2 DEF Share, Waits
      <4>2. histCounts'[i] = histCounts[i] + 1
        BY <2>1, <3>2 DEF SQTypeOK
      <4> QED BY <4>1, <4>2
    <3>3. CASE i # bucketOf(r.d)
      <4>1. Share(r, ToBucket, Between(i)) = 0
        BY <3>1, <3>3 DEF Share, Waits
      <4>2. histCounts'[i] = histCounts[i]
        BY <2>1, <3>3 DEF SQTypeOK
      <4> QED BY <1>0, <4>1, <4>2
    <3> QED BY <3>2, <3>3
  <2>6. \A i \in BucketNos : histCounts'[i] + Share(o, ToBucket, Between(i)) =
                               histCounts[i] + Share(r, ToBucket, Between(i))
    BY <1>0, <2>4, <2>5
  <2>7. Share(o, ToSlow, Slow) = Share(r, ToSlow, Slow)
    <3>1. r.d \in Slow <=> ~(r.d < Threshold)
      BY <2>2, SQAssumption DEF Slow
    <3> QED BY <1>1, <2>1, <2>2, <3>1 DEF Share, Waits
  <2>8. histCount' = histCount /\ slowCount' = slowCount
    BY <2>1
  <2> HIDE DEF r
  <2>9. /\ Takes(histCount, histCount', r, o, ToCount, Durations)
        /\ \A i \in BucketNos : Takes(histCounts[i], histCounts'[i], r, o, ToBucket, Between(i))
        /\ Takes(slowCount, slowCount', r, o, ToSlow, Slow)
    BY <2>3, <2>6, <2>7, <2>8 DEF Takes
  <2> QED BY <1>3, <2>1, <2>9 DEF r
<1>10. ASSUME NEW g \in Observers, AddSlow(g) PROVE Goal
  <2> DEFINE r == observing[g]
  <2>1. /\ r.pc = "slow" /\ observed' = observed /\ resetting = 0 /\ ~mixed /\ slowCount' = slowCount + 1
        /\ UNCHANGED <<histCount, histCounts>> /\ observing' = [observing EXCEPT ![g] = NotObserving]
    BY <1>10 DEF AddSlow
  <2>2. r.d \in Slow
    BY <1>6, <2>1 DEF ObservingInv, Slow
  <2>3. NotObserving.pc = "idle"
    BY DEF NotObserving
  <2>4. /\ Share(NotObserving, ToCount, Durations) = 0 /\ Share(r, ToCount, Durations) = 0
        /\ \A i \in BucketNos : Share(NotObserving, ToBucket, Between(i)) = 0 /\ Share(r, ToBucket, Between(i)) = 0
        /\ Share(NotObserving, ToSlow, Slow) = 0 /\ Share(r, ToSlow, Slow) = 1
    BY <1>1, <2>1, <2>2, <2>3 DEF Share, Waits
  <2>5. slowCount' + Share(NotObserving, ToSlow, Slow) = slowCount + Share(r, ToSlow, Slow)
    BY <1>0, <2>1, <2>4
  <2>6. /\ Takes(histCount, histCount', r, NotObserving, ToCount, Durations)
        /\ \A i \in BucketNos : Takes(histCounts[i], histCounts'[i], r, NotObserving, ToBucket, Between(i))
        /\ Takes(slowCount, slowCount', r, NotObserving, ToSlow, Slow)
    BY <2>1, <2>4, <2>5 DEF Takes
  <2> HIDE DEF r
  <2> QED BY <1>3, <2>1, <2>6 DEF r
<1>11. ASSUME PercentileBegin \/ ReadBucket \/ PercentileReturns PROVE Goal
  BY <1>4, <1>11 DEF PercentileBegin, ReadBucket, PercentileReturns
<1>12. ASSUME ResetBegin PROVE Goal
  BY <1>12 DEF ResetBegin
<1>13. ASSUME ResetStep PROVE Goal
  <2>1. Len(Bounds) \in Nat /\ BucketNos = 1..(Len(Bounds) + 1)
    BY BoundsFacts DEF BucketNos
  <2>2. resetting = Len(Bounds) + 3 /\ ~mixed
    <3>1. resetting \in 0..(Len(Bounds) + 3)
      BY DEF SQTypeOK
    <3> QED BY <1>13, <2>1, <3>1 DEF ResetStep
  <2>3. ~InObserve /\ observed = <<>> /\ histCount = 0 /\ \A i \in BucketNos : histCounts[i] = 0
    BY <2>1, <2>2 DEF ResetInv
  <2>4. histCount' = 0 /\ slowCount' = 0 /\ (\A i \in BucketNos : histCounts'[i] = 0)
        /\ observing' = observing /\ observed' = <<>>
    BY <1>13, <2>1, <2>2, <2>3 DEF ResetStep, SQTypeOK
  <2>5. \A pcs \in SUBSET ToSlow : \A D : Cardinality(Pending(pcs, D)') = 0
    <3>1. \A pcs, D : Pending(pcs, D)' = Pending(pcs, D)
      BY <2>4 DEF Pending
    <3>2. \A pcs \in SUBSET ToSlow : \A D : Cardinality(Pending(pcs, D)) = 0
      BY <2>3, NonePending
    <3> QED BY <3>1, <3>2
  <2>6. \A D : HowMany(D)' = 0
    <3>1. \A D : {k \in DOMAIN observed' : observed'[k] \in D} = {}
      BY <2>4
    <3> QED BY <3>1, FS_EmptySet DEF HowMany
  <2>7. ToCount \in SUBSET ToSlow /\ ToBucket \in SUBSET ToSlow /\ ToSlow \in SUBSET ToSlow
    BY DEF ToCount, ToBucket, ToSlow
  <2> QED BY <2>4, <2>5, <2>6, <2>7 DEF LackAfter
<1>14. ASSUME UNCHANGED sqVars PROVE Goal
  BY <1>4, <1>14 DEF sqVars
<1>15. Goal
  BY <1>5, <1>7, <1>8, <1>9, <1>10, <1>11, <1>12, <1>13, <1>14 DEF SQNext
<1> QED BY <1>15

\* The maximum: a swap replaces the value it was compared with by a longer one.
LEMMA MaxNext ==
  SQTypeOK /\ ObservingInv /\ MaxInv /\ ResetInv /\ [SQNext]_sqVars => MaxInv'
<1> DEFINE Covered(m) == \A k \in DOMAIN observed :
                           \/ observed[k] <= m
                           \/ \E g \in Observers : observing[g].pc = "cas" /\ observing[g].d = observed[k]
           Seen(m) == m = 0 \/ \E k \in DOMAIN observed : observed[k] = m
           Swaps == \A g \in Observers : observing[g].pc = "cas" =>
                      \E k \in DOMAIN observed : observed[k] = observing[g].d
           Goal == Covered(histMax)' /\ Seen(histMax)' /\ Swaps'
<1> SUFFICES ASSUME SQTypeOK, ObservingInv, MaxInv, ResetInv, [SQNext]_sqVars,
                    resetting' = 0, ~mixed'
             PROVE  Goal
  BY DEF MaxInv
<1>0. /\ histMax \in Nat /\ \A k \in DOMAIN observed : observed[k] \in Nat
      /\ observed \in Seq(Durations)
  <2>1. \A S : \A s \in Seq(S) : \A j \in DOMAIN s : s[j] \in S
    OBVIOUS
  <2>2. \A k \in DOMAIN observed : observed[k] \in Durations
    BY <2>1, Zenon DEF SQTypeOK
  <2> QED BY <2>2, SQAssumption DEF SQTypeOK
<1>1. ASSUME resetting = 0, ~mixed PROVE Covered(histMax) /\ Seen(histMax) /\ Swaps
  BY <1>1 DEF MaxInv
<1>2. ASSUME UNCHANGED <<observing, observed, histMax>>, resetting = 0, ~mixed PROVE Goal
  BY <1>1, <1>2
<1>3. ASSUME NEW g \in Observers, NEW o, observing' = [observing EXCEPT ![g] = o], o.pc # "cas",
             observing[g].pc # "cas", UNCHANGED <<observed, histMax>>, resetting = 0, ~mixed
      PROVE  Goal
  <2>1. observing'[g] = o /\ \A h \in Observers \ {g} : observing'[h] = observing[h]
    BY <1>3 DEF SQTypeOK
  <2> QED BY <1>1, <1>3, <2>1
<1>4. ASSUME NEW g \in Observers, ObserveBegin(g) PROVE Goal
  <2>1. PICK d \in Durations : observing' = [observing EXCEPT ![g] = LoadMax(d)] /\ observed' = Append(observed, d)
    BY <1>4 DEF ObserveBegin
  <2>2. /\ observing[g].pc = "idle" /\ histMax' = histMax /\ resetting = 0 /\ ~mixed
        /\ observing'[g] = LoadMax(d) /\ \A h \in Observers \ {g} : observing'[h] = observing[h]
    BY <1>4, <2>1 DEF ObserveBegin, NotObserving, SQTypeOK
  <2>3. /\ DOMAIN observed' = DOMAIN observed \cup {Len(observed) + 1}
        /\ \A k \in DOMAIN observed : observed'[k] = observed[k]
        /\ observed'[Len(observed) + 1] = d
    BY <1>0, <2>1
  <2>4. /\ LoadMax(d).d = d /\ (LoadMax(d).pc = "cas" <=> d > histMax) /\ d \in Nat
    BY LoadMaxType, SQAssumption
  <2>5. Covered(histMax) /\ Seen(histMax) /\ Swaps
    BY <1>1, <2>2
  <2>6. ASSUME NEW k \in DOMAIN observed'
        PROVE  \/ observed'[k] <= histMax
               \/ \E h \in Observers : observing'[h].pc = "cas" /\ observing'[h].d = observed'[k]
    <3>1. CASE k = Len(observed) + 1
      <4>1. CASE d > histMax
        BY <2>2, <2>3, <2>4, <3>1, <4>1
      <4>2. CASE ~(d > histMax)
        BY <1>0, <2>3, <2>4, <3>1, <4>2
      <4> QED BY <4>1, <4>2
    <3>2. CASE k # Len(observed) + 1
      <4>1. k \in DOMAIN observed /\ observed'[k] = observed[k]
        BY <2>3, <3>2
      <4>2. CASE observed[k] <= histMax
        BY <4>1, <4>2
      <4>3. CASE \E h \in Observers : observing[h].pc = "cas" /\ observing[h].d = observed[k]
        <5>1. PICK h \in Observers : observing[h].pc = "cas" /\ observing[h].d = observed[k]
          BY <4>3
        <5>2. h # g
          BY <2>2, <5>1
        <5> QED BY <2>2, <4>1, <5>1, <5>2
      <4> QED BY <2>5, <4>1, <4>2, <4>3
    <3> QED BY <3>1, <3>2
  <2>7. Seen(histMax)'
    BY <2>2, <2>3, <2>5
  <2>8. Swaps'
    BY <2>2, <2>3, <2>4, <2>5
  <2> QED BY <2>2, <2>6, <2>7, <2>8
<1>5. ASSUME NEW g \in Observers, CompareAndSwap(g) PROVE Goal
  <2> DEFINE r == observing[g]
  <2>1. /\ r.pc = "cas" /\ observed' = observed /\ resetting = 0 /\ ~mixed
        /\ r \in Observation /\ r.d \in Nat /\ r.d \in Durations /\ r.d > r.old
    BY <1>5, ObserverPlaces, SQAssumption DEF CompareAndSwap, Observation, ObservingInv
  <2>2. Covered(histMax) /\ Seen(histMax) /\ Swaps
    BY <1>1, <2>1
  <2>3. PICK k0 \in DOMAIN observed : observed[k0] = r.d
    BY <2>1, <2>2
  <2>4. CASE histMax = r.old
    <3>1. /\ histMax' = r.d /\ observing'[g].pc = "count" /\ r.d > histMax
          /\ \A h \in Observers \ {g} : observing'[h] = observing[h]
      BY <1>5, <2>1, <2>4 DEF CompareAndSwap, SQTypeOK, Observation
    <3>2. ASSUME NEW k \in DOMAIN observed
          PROVE  \/ observed[k] <= histMax'
                 \/ \E h \in Observers : observing'[h].pc = "cas" /\ observing'[h].d = observed[k]
      <4>1. CASE observed[k] <= histMax
        BY <1>0, <2>1, <3>1, <4>1
      <4>2. CASE \E h \in Observers : observing[h].pc = "cas" /\ observing[h].d = observed[k]
        <5>1. PICK h \in Observers : observing[h].pc = "cas" /\ observing[h].d = observed[k]
          BY <4>2
        <5>2. CASE h = g
          BY <1>0, <2>1, <3>1, <5>1, <5>2
        <5>3. CASE h # g
          BY <3>1, <5>1, <5>3
        <5> QED BY <5>2, <5>3
      <4> QED BY <2>2, <4>1, <4>2
    <3>3. Seen(histMax)'
      BY <2>1, <2>3, <3>1
    <3>4. Swaps'
      BY <2>1, <2>2, <3>1
    <3> QED BY <2>1, <3>2, <3>3, <3>4
  <2>5. CASE histMax # r.old
    <3>1. /\ histMax' = histMax /\ observing'[g] = LoadMax(r.d)
          /\ \A h \in Observers \ {g} : observing'[h] = observing[h]
      BY <1>5, <2>1, <2>5 DEF CompareAndSwap, SQTypeOK
    <3>2. LoadMax(r.d).d = r.d /\ (LoadMax(r.d).pc = "cas" <=> r.d > histMax)
      BY <2>1, LoadMaxType
    <3>3. ASSUME NEW k \in DOMAIN observed
          PROVE  \/ observed[k] <= histMax
                 \/ \E h \in Observers : observing'[h].pc = "cas" /\ observing'[h].d = observed[k]
      <4>1. CASE \E h \in Observers : observing[h].pc = "cas" /\ observing[h].d = observed[k]
        <5>1. PICK h \in Observers : observing[h].pc = "cas" /\ observing[h].d = observed[k]
          BY <4>1
        <5>2. CASE h = g
          <6>1. CASE r.d > histMax
            BY <3>1, <3>2, <5>1, <5>2, <6>1
          <6>2. CASE ~(r.d > histMax)
            BY <1>0, <2>1, <5>1, <5>2, <6>2
          <6> QED BY <6>1, <6>2
        <5>3. CASE h # g
          BY <3>1, <5>1, <5>3
        <5> QED BY <5>2, <5>3
      <4> QED BY <2>2, <4>1
    <3>4. Seen(histMax)'
      BY <2>1, <2>2, <3>1
    <3>5. Swaps'
      BY <2>1, <2>2, <2>3, <3>1, <3>2
    <3> QED BY <2>1, <3>1, <3>3, <3>4, <3>5
  <2> QED BY <2>4, <2>5
<1>6. ASSUME NEW g \in Observers, AddCount(g) \/ AddBucket(g) \/ AddSlow(g) PROVE Goal
  <2>1. \E o : o.pc # "cas" /\ observing' = [observing EXCEPT ![g] = o]
    <3>1. \A r \in Observation : [r EXCEPT !.pc = "bucket"].pc # "cas" /\ [r EXCEPT !.pc = "slow"].pc # "cas"
      BY DEF Observation
    <3>2. NotObserving.pc # "cas"
      BY DEF NotObserving
    <3>3. observing[g] \in Observation
      BY <1>6, ObserverPlaces DEF AddCount, AddBucket, AddSlow
    <3>4. \/ observing' = [observing EXCEPT ![g] = [observing[g] EXCEPT !.pc = "bucket"]]
          \/ observing' = [observing EXCEPT ![g] = [observing[g] EXCEPT !.pc = "slow"]]
          \/ observing' = [observing EXCEPT ![g] = NotObserving]
      BY <1>6 DEF AddCount, AddBucket, AddSlow, SQTypeOK
    <3> QED BY <3>1, <3>2, <3>3, <3>4
  <2>2. /\ observing[g].pc # "cas" /\ UNCHANGED <<observed, histMax>> /\ resetting = 0 /\ ~mixed
    BY <1>6 DEF AddCount, AddBucket, AddSlow
  <2> HIDE DEF Goal
  <2> QED BY <1>3, <2>1, <2>2
<1>7. ASSUME PercentileBegin \/ ReadBucket \/ PercentileReturns \/ UNCHANGED sqVars PROVE Goal
  BY <1>2, <1>7 DEF PercentileBegin, ReadBucket, PercentileReturns, sqVars
<1>8. ASSUME ResetBegin PROVE Goal
  BY <1>8 DEF ResetBegin
<1>9. ASSUME ResetStep PROVE Goal
  <2>1. ~mixed /\ resetting # 0 /\ UNCHANGED <<observing, observed, histMax>>
    BY <1>9, BoundsFacts DEF ResetStep
  <2>2. ~InObserve /\ observed = <<>> /\ histMax = 0
    BY <2>1 DEF ResetInv
  <2>3. \A g \in Observers : observing'[g].pc = "idle"
    BY <2>1, <2>2 DEF InObserve, NotObserving
  <2> QED BY <2>1, <2>2, <2>3
<1> QED BY <1>4, <1>5, <1>6, <1>7, <1>8, <1>9 DEF SQNext

\* A Reset that no Observe overlaps has zeroed what it has passed.
LEMMA ResetNext == SQTypeOK /\ ResetInv /\ [SQNext]_sqVars => ResetInv'
<1> SUFFICES ASSUME SQTypeOK, ResetInv, [SQNext]_sqVars, resetting' # 0, ~mixed'
             PROVE  /\ ~InObserve' /\ observed' = <<>> /\ histMax' = 0
                    /\ resetting' > 1 => histCount' = 0
                    /\ \A i \in BucketNos : i < resetting' - 1 => histCounts'[i] = 0
  BY DEF ResetInv
<1> DEFINE Goal == /\ ~InObserve' /\ observed' = <<>> /\ histMax' = 0
                   /\ resetting' > 1 => histCount' = 0
                   /\ \A i \in BucketNos : i < resetting' - 1 => histCounts'[i] = 0
<1>0. /\ Len(Bounds) \in Nat \ {0} /\ BucketNos = 1..(Len(Bounds) + 1)
      /\ resetting \in Nat /\ resetting <= Len(Bounds) + 3
  BY BoundsFacts DEF BucketNos, SQTypeOK
<1>1. ASSUME resetting # 0, ~mixed
      PROVE  /\ ~InObserve /\ observed = <<>> /\ histMax = 0
             /\ resetting > 1 => histCount = 0
             /\ \A i \in BucketNos : i < resetting - 1 => histCounts[i] = 0
  BY <1>1 DEF ResetInv
<1>2. ASSUME UNCHANGED <<histMax, histCount, histCounts, observing, resetting, observed, mixed>> PROVE Goal
  BY <1>1, <1>2 DEF InObserve
<1>3. ASSUME NEW g \in Observers, ObserveBegin(g) PROVE FALSE
  BY <1>3 DEF ObserveBegin
<1>4. ASSUME NEW g \in Observers, CompareAndSwap(g) \/ AddCount(g) \/ AddBucket(g) \/ AddSlow(g)
      PROVE  FALSE
  <2>1. observing[g] # NotObserving /\ resetting # 0 /\ ~mixed
    BY <1>4 DEF CompareAndSwap, AddCount, AddBucket, AddSlow, NotObserving
  <2> QED BY <1>1, <2>1 DEF InObserve
<1>5. ASSUME PercentileBegin \/ ReadBucket \/ PercentileReturns \/ UNCHANGED sqVars PROVE Goal
  BY <1>2, <1>5 DEF PercentileBegin, ReadBucket, PercentileReturns, sqVars
<1>6. ASSUME ResetBegin PROVE Goal
  <2>1. ~InObserve' /\ observed' = <<>> /\ histMax' = 0 /\ resetting' = 1
    BY <1>6 DEF ResetBegin, InObserve
  <2> QED BY <1>0, <2>1
<1>7. ASSUME ResetStep PROVE Goal
  <2>1. /\ resetting > 0 /\ ~mixed /\ resetting # Len(Bounds) + 3 /\ resetting' = resetting + 1
        /\ UNCHANGED <<histMax, observing, observed>>
    BY <1>7 DEF ResetStep
  <2>2. ~InObserve' /\ observed' = <<>> /\ histMax' = 0
    BY <1>1, <2>1 DEF InObserve
  <2>3. histCount' = 0
    BY <1>0, <1>1, <1>7, <2>1 DEF ResetStep
  <2>4. ASSUME NEW i \in BucketNos, i < resetting' - 1 PROVE histCounts'[i] = 0
    <3>1. i <= resetting - 1 /\ i \in Nat
      BY <1>0, <2>1, <2>4
    <3>2. histCounts' = IF resetting - 1 \in BucketNos THEN [histCounts EXCEPT ![resetting - 1] = 0]
                        ELSE histCounts
      BY <1>7 DEF ResetStep
    <3>3. CASE i = resetting - 1
      BY <3>2, <3>3 DEF SQTypeOK
    <3>4. CASE i # resetting - 1
      <4>1. histCounts[i] = 0
        BY <1>0, <1>1, <2>1, <3>1, <3>4
      <4> QED BY <3>2, <3>4, <4>1 DEF SQTypeOK
    <3> QED BY <3>3, <3>4
  <2> QED BY <2>2, <2>3, <2>4
<1> QED BY <1>3, <1>4, <1>5, <1>6, <1>7 DEF SQNext

\* Every observation took some duration.
LEMMA HowManyAll == SQTypeOK => HowMany(Durations) = Len(observed)
<1> SUFFICES ASSUME SQTypeOK PROVE HowMany(Durations) = Len(observed)
  OBVIOUS
<1>1. \A S : \A s \in Seq(S) : \A j \in DOMAIN s : s[j] \in S
  OBVIOUS
<1>2. \A k \in DOMAIN observed : observed[k] \in Durations
  BY <1>1, Zenon DEF SQTypeOK
<1>3. {k \in DOMAIN observed : observed[k] \in Durations} = 1..Len(observed) /\ Len(observed) \in Nat
  BY <1>2 DEF SQTypeOK
<1>4. \A n \in Nat : Cardinality(1..n) = n
  BY FS_Interval
<1> HIDE DEF HowMany
<1>5. HowMany(Durations) = Cardinality(1..Len(observed))
  BY <1>3 DEF HowMany
<1> QED BY <1>3, <1>4, <1>5

\* With nobody in Observe the counters lack nothing.
LEMMA QuietCounters ==
  ASSUME SQTypeOK, LackInv, ~InObserve, resetting = 0, ~mixed
  PROVE  /\ histCount = Len(observed)
         /\ \A i \in BucketNos : histCounts[i] = HowMany(Between(i))
         /\ slowCount = HowMany(Slow)
<1>1. ToCount \in SUBSET ToSlow /\ ToBucket \in SUBSET ToSlow /\ ToSlow \in SUBSET ToSlow
  BY DEF ToCount, ToBucket, ToSlow
<1>2. /\ Cardinality(Pending(ToCount, Durations)) = 0 /\ Cardinality(Pending(ToSlow, Slow)) = 0
      /\ \A i \in BucketNos : Cardinality(Pending(ToBucket, Between(i))) = 0
  BY <1>1, NonePending
<1>3. histCount \in Nat /\ slowCount \in Nat /\ \A i \in BucketNos : histCounts[i] \in Nat
  BY DEF SQTypeOK
<1>4. /\ Lack(histCount, ToCount, Durations) /\ Lack(slowCount, ToSlow, Slow)
      /\ \A i \in BucketNos : Lack(histCounts[i], ToBucket, Between(i))
  BY DEF LackInv
<1>5. histCount = HowMany(Durations) /\ slowCount = HowMany(Slow)
  BY <1>2, <1>3, <1>4 DEF Lack
<1>6. ASSUME NEW i \in BucketNos PROVE histCounts[i] = HowMany(Between(i))
  BY <1>2, <1>3, <1>4 DEF Lack
<1> QED BY <1>5, <1>6, HowManyAll

\* A percentile read while nothing else runs sums the buckets up to the answer.
LEMMA ReadNext ==
  SQTypeOK /\ LackInv /\ ReadInv /\ QuantileIsLeast /\ [SQNext]_sqVars
    => ReadInv' /\ QuantileIsLeast'
<1> SUFFICES ASSUME SQTypeOK, LackInv, ReadInv, QuantileIsLeast, [SQNext]_sqVars
             PROVE  ReadInv' /\ QuantileIsLeast'
  OBVIOUS
<1> DEFINE Goal == ReadInv' /\ QuantileIsLeast'
<1>0. /\ Len(Bounds) \in Nat \ {0} /\ BucketNos = 1..(Len(Bounds) + 1)
      /\ DOMAIN Bounds = 1..Len(Bounds)
  BY BoundsFacts DEF BucketNos
<1>1. ASSUME asking' = NotAsking \/ ~asking'.alone PROVE Goal
  <2>1. NotAsking.pc # "answered"
    BY DEF NotAsking
  <2> QED BY <1>1, <2>1 DEF ReadInv, QuantileIsLeast
<1>2. ASSUME UNCHANGED <<asking, observing, resetting, mixed, observed>> PROVE Goal
  BY <1>2 DEF ReadInv, QuantileIsLeast, InObserve, AtMost, HowMany
<1>3. ASSUME NEW g \in Observers, CompareAndSwap(g) \/ AddCount(g) \/ AddBucket(g) \/ AddSlow(g)
      PROVE  Goal
  <2>1. InObserve /\ asking' = asking
    BY <1>3 DEF CompareAndSwap, AddCount, AddBucket, AddSlow, NotObserving, InObserve
  <2>2. asking = NotAsking \/ ~asking.alone
    BY <2>1 DEF ReadInv
  <2> QED BY <1>1, <2>1, <2>2
<1>4. ASSUME (\E g \in Observers : ObserveBegin(g)) \/ ResetBegin PROVE Goal
  <2>1. asking' = IF asking = NotAsking THEN asking ELSE [asking EXCEPT !.alone = FALSE]
    BY <1>4 DEF ObserveBegin, ResetBegin
  <2>2. asking # NotAsking => [asking EXCEPT !.alone = FALSE].alone = FALSE
    BY DEF SQTypeOK, Question
  <2> QED BY <1>1, <2>1, <2>2
<1>5. ASSUME ResetStep PROVE Goal
  <2>1. resetting # 0 /\ asking' = asking
    BY <1>0, <1>5 DEF ResetStep
  <2>2. asking = NotAsking \/ ~asking.alone
    BY <2>1 DEF ReadInv
  <2> QED BY <1>1, <2>1, <2>2
<1>6. ASSUME PercentileBegin PROVE Goal
  <2> DEFINE Target(p) == (histCount * p) \div 100
  <2>1. PICK p \in Percents :
          asking' = [pc |-> IF Target(p) = 0 THEN "answered" ELSE "read", target |-> Target(p),
                     i |-> 1, cum |-> 0, answer |-> 0, p |-> p,
                     alone |-> ~InObserve /\ resetting = 0 /\ ~mixed]
    BY <1>6 DEF PercentileBegin
  <2>2. UNCHANGED <<observing, resetting, mixed, observed>>
    BY <1>6 DEF PercentileBegin
  <2> HIDE DEF Target
  <2>3. /\ asking'.pc = IF Target(p) = 0 THEN "answered" ELSE "read"
        /\ asking'.target = Target(p) /\ asking'.i = 1 /\ asking'.cum = 0 /\ asking'.p = p
        /\ asking'.alone = (~InObserve /\ resetting = 0 /\ ~mixed)
    BY <2>1
  <2>4. CASE ~asking'.alone
    BY <1>1, <2>4
  <2>5. CASE asking'.alone
    <3>1. ~InObserve /\ resetting = 0 /\ ~mixed
      BY <2>3, <2>5
    <3>2. Target(p) = (Len(observed) * p) \div 100
      BY <3>1, QuietCounters DEF Target
    <3>3. ~InObserve' /\ resetting' = 0 /\ ~mixed'
      BY <2>2, <3>1 DEF InObserve
    <3>4. asking'.target = (Len(observed') * asking'.p) \div 100
      BY <2>2, <2>3, <3>2
    <3>5. \A j \in DOMAIN Bounds : ~(j < asking'.i)
      BY <1>0, <2>3
    <3>6. ReadInv'
      BY <2>3, <3>3, <3>4, <3>5 DEF ReadInv
    <3>7. ~(asking'.pc = "answered" /\ asking'.target > 0)
      BY <2>3
    <3>8. QuantileIsLeast'
      BY <3>7 DEF QuantileIsLeast
    <3> QED BY <3>6, <3>8
  <2> QED BY <2>4, <2>5
<1>7. ASSUME ReadBucket PROVE Goal
  <2> DEFINE i == asking.i  L == Len(Bounds)  cum == asking.cum + histCounts[i]
             target == asking.target
  <2>1. asking \in Question /\ asking.pc = "read" /\ UNCHANGED <<observing, resetting, mixed, observed>>
    BY <1>7 DEF ReadBucket, SQTypeOK, NotAsking
  <2>2. i \in 1..(L + 1) /\ target \in Nat /\ asking.cum \in Nat /\ asking # NotAsking
    BY <1>0, <2>1 DEF Question, NotAsking
  <2>3. /\ asking'.alone = asking.alone /\ asking'.target = target /\ asking'.p = asking.p
        /\ asking' # NotAsking
    BY <1>7, <2>1 DEF ReadBucket, Question, NotAsking
  <2>4. CASE ~asking.alone
    BY <1>1, <2>3, <2>4
  <2>5. CASE asking.alone
    <3> DEFINE Up(j) == AtMost(Bounds[j])
    <3>1. /\ ~InObserve /\ resetting = 0 /\ ~mixed
          /\ target = (Len(observed) * asking.p) \div 100
          /\ asking.cum = IF i = 1 THEN 0 ELSE Up(i - 1)
          /\ \A j \in DOMAIN Bounds : j < i => Up(j) < target
      BY <2>1, <2>2, <2>5 DEF ReadInv
    <3>2. ~InObserve' /\ resetting' = 0 /\ ~mixed' /\ \A b : AtMost(b)' = AtMost(b)
      BY <2>1, <3>1 DEF InObserve, AtMost, HowMany
    <3>3. histCounts[i] = HowMany(Between(i))
      BY <1>0, <2>2, <3>1, QuietCounters
    <3>4. i <= L => cum = Up(i) /\ Up(i) \in Nat
      BY <2>2, <3>1, <3>3, AtMostStep
    <3>6. \A j \in 1..L : Up(j) \in Nat
      BY AtMostStep
    <3>7. asking'.target = (Len(observed') * asking'.p) \div 100
      BY <2>1, <2>3, <3>1
    <3>8. cum \in Nat
      BY <1>0, <2>2 DEF SQTypeOK
    <3>9. CASE Reached(cum, target) \/ i = L + 1
      <4>1. asking'.pc = "answered" /\ asking'.answer = Bounds[IF i <= L THEN i ELSE L]
        BY <1>7, <2>1, <3>9 DEF ReadBucket, Question
      <4>2. ReadInv'
        BY <3>2, <3>7, <4>1 DEF ReadInv
      <4> DEFINE good == {j \in DOMAIN Bounds : Up(j) >= target}
      <4> SUFFICES /\ good = {} => asking'.answer = Bounds[L]
                   /\ good # {} => \E k \in good : asking'.answer = Bounds[k] /\ \A j \in good : k <= j
        <5>1. \A n : n = target => {j \in DOMAIN Bounds : AtMost(Bounds[j])' >= n} = good
          BY <3>2
        <5>2. (Len(observed') * asking'.p) \div 100 = target
          BY <2>3, <3>7
        <5> HIDE DEF good, target
        <5>3. QuantileIsLeast'
          BY <2>3, <5>1, <5>2 DEF QuantileIsLeast
        <5> QED BY <4>2, <5>3
      <4>3. CASE i <= L
        <5>1. Up(i) >= target /\ i \in 1..L
          BY <2>2, <3>4, <3>9, <4>3 DEF Reached
        <5>2. i \in good
          BY <1>0, <5>1
        <5>3. ASSUME NEW j \in good PROVE i <= j
          <6>1. j \in 1..L /\ Up(j) >= target /\ Up(j) \in Nat
            BY <1>0, <3>6
          <6>2. ~(j < i)
            BY <1>0, <2>2, <3>1, <6>1
          <6> QED BY <2>2, <6>1, <6>2
        <5> QED BY <4>1, <4>3, <5>2, <5>3
      <4>4. CASE i = L + 1
        <5>1. ASSUME NEW j \in good PROVE FALSE
          <6>1. j \in 1..L /\ Up(j) >= target /\ Up(j) \in Nat
            BY <1>0, <3>6
          <6>2. j < i
            BY <1>0, <4>4, <6>1
          <6> QED BY <1>0, <2>2, <3>1, <6>1, <6>2
        <5>2. asking'.answer = Bounds[L]
          BY <1>0, <4>1, <4>4
        <5> HIDE DEF good
        <5> QED BY <5>1, <5>2
      <4> QED BY <1>0, <2>2, <4>3, <4>4
    <3>10. CASE ~(Reached(cum, target) \/ i = L + 1)
      <4>1. asking'.pc = "read" /\ asking'.i = i + 1 /\ asking'.cum = cum
        BY <1>7, <2>1, <3>10 DEF ReadBucket, Question
      <4>2. i \in 1..L /\ Up(i) < target /\ cum = Up(i)
        BY <1>0, <2>2, <3>4, <3>8, <3>10 DEF Reached
      <4> DEFINE UpTo(log, b) == Cardinality({k \in DOMAIN log : log[k] \in {d \in Durations : d <= b}})
      <4>3. asking'.cum = IF asking'.i = 1 THEN 0 ELSE UpTo(observed', Bounds[asking'.i - 1])
        <5>1. asking'.i # 1 /\ asking'.i - 1 = i
          BY <2>2, <4>1
        <5>2. UpTo(observed', Bounds[i]) = Up(i)
          BY <2>1 DEF AtMost, HowMany
        <5> QED BY <4>1, <4>2, <5>1, <5>2
      <4>4. ASSUME NEW j \in DOMAIN Bounds, j < asking'.i PROVE UpTo(observed', Bounds[j]) < asking'.target
        <5>1. j < i \/ j = i
          BY <1>0, <2>2, <4>1, <4>4
        <5>2. Up(j) < target
          BY <3>1, <4>2, <5>1
        <5>3. UpTo(observed', Bounds[j]) = Up(j)
          BY <2>1 DEF AtMost, HowMany
        <5> QED BY <2>3, <5>2, <5>3
      <4>5. ReadInv'
        BY <3>2, <3>7, <4>3, <4>4 DEF ReadInv, AtMost, HowMany
      <4>6. QuantileIsLeast'
        BY <4>1 DEF QuantileIsLeast
      <4> QED BY <4>5, <4>6
    <3> QED BY <3>9, <3>10
  <2> QED BY <2>4, <2>5
<1>8. ASSUME PercentileReturns PROVE Goal
  BY <1>1, <1>8 DEF PercentileReturns
<1>9. ASSUME UNCHANGED sqVars PROVE Goal
  BY <1>2, <1>9 DEF sqVars
<1> QED BY <1>3, <1>4, <1>5, <1>6, <1>7, <1>8, <1>9 DEF SQNext

\* At the start nothing is observed and nothing is counted.
LEMMA StatsInvInit == SQInit => StatsInv
<1> SUFFICES ASSUME SQInit PROVE StatsInv
  OBVIOUS
<1>1. SQTypeOK
  BY SQTypeInit
<1>2. ~InObserve /\ ObservingInv
  BY DEF SQInit, InObserve, ObservingInv, NotObserving
<1>3. \A D : HowMany(D) = 0
  <2>1. \A D : {k \in DOMAIN observed : observed[k] \in D} = {}
    BY DEF SQInit
  <2> QED BY <2>1, FS_EmptySet DEF HowMany
<1>4. \A pcs \in SUBSET ToSlow : \A D : Cardinality(Pending(pcs, D)) = 0
  BY <1>1, <1>2, NonePending
<1>5. ToCount \in SUBSET ToSlow /\ ToBucket \in SUBSET ToSlow /\ ToSlow \in SUBSET ToSlow
  BY DEF ToCount, ToBucket, ToSlow
<1>6. histCount = 0 /\ slowCount = 0 /\ histMax = 0 /\ resetting = 0 /\ asking = NotAsking
      /\ observed = <<>> /\ \A i \in BucketNos : histCounts[i] = 0
  BY DEF SQInit
<1>7. LackInv
  BY <1>3, <1>4, <1>5, <1>6 DEF LackInv, Lack
<1>8. MaxInv
  <2>1. \A g \in Observers : observing[g].pc = "idle"
    BY <1>2 DEF InObserve, NotObserving
  <2> QED BY <1>6, <2>1 DEF MaxInv
<1>9. ResetInv /\ ReadInv /\ QuantileIsLeast
  BY <1>6 DEF ResetInv, ReadInv, QuantileIsLeast, NotAsking
<1> QED BY <1>1, <1>2, <1>7, <1>8, <1>9 DEF StatsInv

\* With nobody in Observe the maximum is covered by nobody's pending swap, and the
\* counters lack nothing.
LEMMA StatsInvExact == StatsInv => StatsExactWhenQuiet
<1> SUFFICES ASSUME StatsInv PROVE QuietStatsExact
  BY DEF StatsInv, StatsExactWhenQuiet
<1> SUFFICES ASSUME ~InObserve, resetting = 0, ~mixed
             PROVE  /\ histCount = Len(observed)
                    /\ \A i \in BucketNos : histCounts[i] = HowMany(Between(i))
                    /\ \A k \in DOMAIN observed : observed[k] <= histMax
                    /\ histMax = 0 \/ \E k \in DOMAIN observed : observed[k] = histMax
                    /\ slowCount = HowMany(Slow)
  BY DEF QuietStatsExact
<1>1. \A g \in Observers : observing[g].pc = "idle"
  BY DEF InObserve, NotObserving
<1>2. /\ \A k \in DOMAIN observed : observed[k] <= histMax
      /\ histMax = 0 \/ \E k \in DOMAIN observed : observed[k] = histMax
  BY <1>1 DEF StatsInv, MaxInv
<1> QED BY <1>2, QuietCounters DEF StatsInv

\* slow_query.go:160-260: whatever the interleaving of Observe, Percentile and
\* Reset, the statistics are exact once nothing is in progress, and a percentile
\* read alone is the least bound that enough observations do not exceed.
THEOREM SlowStatsTheorem == SQSpec => []StatsExactWhenQuiet
<1>1. StatsInv /\ [SQNext]_sqVars => StatsInv'
  BY SQTypeNext, ObservingNext, LackNext, MaxNext, ResetNext, ReadNext DEF StatsInv
<1> QED BY <1>1, StatsInvInit, StatsInvExact, PTL DEF SQSpec

=============================================================================
