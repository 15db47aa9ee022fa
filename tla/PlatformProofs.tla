--------------------------- MODULE PlatformProofs ---------------------------
(***************************************************************************)
(* Proofs about the chain behind HTTP, the command line, the gateway and   *)
(* the MCP server.                                                         *)
(***************************************************************************)
EXTENDS HTTPChain, CLICommands, Gateway, MCPServer, FiniteSetTheorems, SequenceTheorems,
        WellFoundedInduction, TLAPS

-----------------------------------------------------------------------------
(* HTTPChain. *)

\* What holds of request r on the wire, call c that somebody awaits and answer a.
OnWire(r) ==
  /\ r.id <= sent /\ ~Carried(r.id)
  /\ outcome[r.id] \in {"none", "unavailable"}
  /\ \A q \in wire : q.id = r.id => q = r
  /\ \A a \in answers : a.id # r.id
  /\ waiting[r.by] = r \/ r.id \in abandoned

Awaited(w) ==
  /\ waiting[w].by = w /\ waiting[w].id <= sent
  /\ \A r \in wire : r.by = w => r.id <= waiting[w].id
  /\ \A k \in 1..Len(applied) : applied[k].by = w => applied[k].id <= waiting[w].id

Told(n) ==
  /\ n > sent => outcome[n] = "none" /\ ~Carried(n)
  /\ outcome[n] = "ok" => Carried(n)
  /\ outcome[n] \in {"tx_failed", "not_found"} /\ n \notin cut => ~Carried(n)

Answering(a) == a.id <= sent /\ (a.status = 200 <=> Carried(a.id))

LEMMA HCParts ==
  HCInv <=>
    /\ HCTypeOK /\ EffectsInOrder
    /\ \A r \in wire : OnWire(r)
    /\ \A w \in Writers : waiting[w] # NoRequest => Awaited(w)
    /\ \A a \in answers : Answering(a)
    /\ \A n \in 1..HCMaxCalls : Told(n)
BY DEF HCInv, WireInv, WaitingInv, AnswerInv, OnWire, Awaited, Answering, Told

LEMMA HCPartsNext ==
  HCInv' <=>
    /\ HCTypeOK' /\ EffectsInOrder'
    /\ \A r \in wire' : OnWire(r)'
    /\ \A w \in Writers : waiting'[w] # NoRequest => Awaited(w)'
    /\ \A a \in answers' : Answering(a)'
    /\ \A n \in 1..HCMaxCalls : Told(n)'
BY DEF HCInv, WireInv, WaitingInv, AnswerInv, OnWire, Awaited, Answering, Told, Carried

LEMMA RequestShape ==
  ASSUME NEW r \in HCRequest
  PROVE  r # NoRequest /\ r.id \in Nat /\ r.id \in 1..HCMaxCalls /\ r.by \in Writers
<1>1. r.id \in 1..HCMaxCalls /\ r.by \in Writers /\ r.id # 0
  BY HCAssumption DEF HCRequest
<1>2. NoRequest.id = 0
  BY DEF NoRequest
<1> QED BY <1>1, <1>2, HCAssumption

\* What the chain carried out are calls of the client.
LEMMA AppliedShape ==
  ASSUME HCTypeOK, NEW k \in 1..Len(applied)
  PROVE  /\ applied[k].id \in 1..HCMaxCalls /\ applied[k].by \in Writers
         /\ Carried(applied[k].id)
<1> DEFINE R == [id : 1..HCMaxCalls, by : Writers]
<1>1. applied \in Seq(R)
  BY DEF HCTypeOK
<1>2. applied[k] \in R
  <2> HIDE DEF R
  <2> QED BY <1>1
<1>3. applied[k].id \in 1..HCMaxCalls /\ applied[k].by \in Writers
  BY <1>2
<1> QED BY <1>3 DEF Carried

\* The method of HTTPAdapter puts its request on the wire.
LEMMA SendStep ==
  ASSUME HCInv, NEW w \in Writers, SendCall(w)
  PROVE  HCInv'
<1>0. HCTypeOK /\ EffectsInOrder /\ HCMaxCalls \in Nat
  BY HCAssumption DEF HCInv
<1>1. PICK o \in HCOps :
        /\ waiting' = [waiting EXCEPT ![w] = [id |-> sent + 1, by |-> w, call |-> o]]
        /\ wire' = wire \cup {waiting'[w]}
  BY DEF SendCall
<1> DEFINE n == sent + 1
<1>r. PICK r \in HCRequest : r = [id |-> sent + 1, by |-> w, call |-> o]
  <2>1. sent + 1 \in 1..HCMaxCalls
    BY <1>0 DEF HCTypeOK, SendCall
  <2>2. [id |-> sent + 1, by |-> w, call |-> o] \in HCRequest
    BY <2>1 DEF HCRequest
  <2> QED BY <2>2
<1>2. /\ r.id = n /\ r.by = w /\ n \in 1..HCMaxCalls /\ sent \in Nat /\ sent' = n
      /\ waiting[w] = NoRequest /\ waiting'[w] = r /\ wire' = wire \cup {r}
      /\ \A v \in Writers : v # w => waiting'[v] = waiting[v]
      /\ UNCHANGED <<answers, applied, abandoned, cut, outcome>>
  BY <1>0, <1>1, <1>r DEF SendCall, HCTypeOK
<1>3. HCTypeOK'
  <2>1. waiting' \in [Writers -> HCRequest \cup {NoRequest}]
    BY <1>0, <1>1, <1>r DEF HCTypeOK
  <2> QED BY <1>0, <1>2, <2>1 DEF HCTypeOK
<1>4. /\ \A m : Carried(m)' <=> Carried(m)
      /\ ~Carried(n) /\ outcome[n] = "none"
      /\ Told(n)
  <2>1. Told(n)
    BY <1>2, HCParts
  <2>2. n > sent
    BY <1>2
  <2> QED BY <1>2, <2>1, <2>2 DEF Told, Carried
<1>5. /\ \A q \in wire : q \in HCRequest /\ q.id <= sent /\ q.id \in Nat /\ q.id # n
      /\ \A a \in answers : a.id <= sent /\ a.id \in Nat /\ a.id # n
  <2>1. \A q \in wire : q.id <= sent
    BY HCParts DEF OnWire
  <2>2. \A a \in answers : a.id <= sent
    BY HCParts DEF Answering
  <2>3. (\A q \in wire : q \in HCRequest /\ q.id \in Nat) /\ (\A a \in answers : a.id \in Nat)
    BY <1>0, RequestShape DEF HCTypeOK
  <2> QED BY <1>2, <2>1, <2>2, <2>3
<1>6. ASSUME NEW q \in wire' PROVE OnWire(q)'
  <2>1. CASE q = r
    BY <2>1, <1>2, <1>4, <1>5 DEF OnWire
  <2>2. CASE q # r
    <3>1. q \in wire /\ OnWire(q)
      BY <1>2, <2>2, HCParts
    <3>2. q # NoRequest /\ q.by \in Writers
      BY <3>1, <1>5, RequestShape
    <3>3. waiting'[q.by] = q \/ q.id \in abandoned
      BY <1>2, <3>1, <3>2 DEF OnWire
    <3>4. q.id <= n
      BY <1>2, <1>5, <3>1
    <3> QED BY <1>2, <1>4, <1>5, <3>1, <3>3, <3>4 DEF OnWire
  <2> QED BY <2>1, <2>2
<1>7. ASSUME NEW v \in Writers, waiting'[v] # NoRequest PROVE Awaited(v)'
  <2>1. CASE v = w
    <3>1. ASSUME NEW k \in 1..Len(applied) PROVE applied[k].id <= n
      <4>1. Carried(applied[k].id) /\ applied[k].id \in 1..HCMaxCalls
        BY <1>0, AppliedShape
      <4>2. ~(applied[k].id > sent)
        BY <4>1, HCParts DEF Told
      <4> QED BY <4>1, <4>2, <1>2
    <3> QED BY <1>2, <1>5, <2>1, <3>1 DEF Awaited
  <2>2. CASE v # w
    <3>1. Awaited(v) /\ waiting'[v] = waiting[v] /\ waiting[v] \in HCRequest
      BY <1>0, <1>2, <1>7, <2>2, HCParts DEF HCTypeOK
    <3>2. waiting[v].id <= n
      BY <1>2, <3>1, RequestShape DEF Awaited
    <3> QED BY <1>2, <2>2, <3>1, <3>2 DEF Awaited
  <2> QED BY <2>1, <2>2
<1>8. ASSUME NEW a \in answers' PROVE Answering(a)'
  <2>1. Answering(a)
    BY <1>2, HCParts
  <2>2. a.id <= n
    BY <1>2, <1>5
  <2> QED BY <1>2, <1>4, <2>1, <2>2 DEF Answering
<1>9. ASSUME NEW m \in 1..HCMaxCalls PROVE Told(m)'
  <2>1. Told(m) /\ (m > n => m > sent)
    BY <1>2, HCParts
  <2> QED BY <1>2, <1>4, <2>1 DEF Told
<1>10. EffectsInOrder'
  BY <1>0, <1>2 DEF EffectsInOrder
<1> QED BY <1>3, <1>6, <1>7, <1>8, <1>9, <1>10, HCPartsNext

\* The answer to r leaves, is lost or is cut short: r is off the wire.
LEMMA RespondShape ==
  ASSUME NEW r, NEW st, Respond(r, st)
  PROVE  /\ wire' = wire \ {r}
         /\ answers' = answers \/ answers' = answers \cup {[id |-> r.id, status |-> st]}
         /\ cut' = cut \/ (st = 200 /\ cut' = cut \cup {r.id})
BY DEF Respond

\* A handler of mock-chain carries the request out.
LEMMA HandleStep ==
  ASSUME HCInv, NEW r \in wire, HandleCall(r)
  PROVE  HCInv'
<1>0. HCTypeOK /\ EffectsInOrder /\ HCMaxCalls \in Nat /\ OnWire(r)
  BY HCAssumption, HCParts
<1>1. r \in HCRequest /\ r # NoRequest /\ r.id \in 1..HCMaxCalls /\ r.id \in Nat /\ r.by \in Writers
  BY <1>0, RequestShape DEF HCTypeOK
<1> DEFINE e == [id |-> r.id, by |-> r.by]
           R == [id : 1..HCMaxCalls, by : Writers]
<1>2. /\ wire' = wire \ {r}
      /\ answers' = answers \/ answers' = answers \cup {[id |-> r.id, status |-> 200]}
      /\ cut' = cut \/ cut' = cut \cup {r.id}
      /\ applied' = Append(applied, e)
      /\ UNCHANGED <<sent, waiting, abandoned, outcome>>
  BY RespondShape DEF HandleCall
<1>3. /\ Len(applied) \in Nat /\ Len(applied') = Len(applied) + 1
      /\ applied'[Len(applied) + 1] = e
      /\ \A k \in 1..Len(applied) : applied'[k] = applied[k]
      /\ applied' \in Seq(R)
  <2>1. applied \in Seq(R) /\ e \in R
    BY <1>0, <1>1 DEF HCTypeOK
  <2> HIDE DEF R, e
  <2> QED BY <1>2, <2>1
<1>4. e.id = r.id /\ e.by = r.by
  OBVIOUS
<1> HIDE DEF e
<1>5. \A m : Carried(m)' <=> Carried(m) \/ m = r.id
  <2>1. ASSUME NEW m, NEW k \in 1..Len(applied'), applied'[k].id = m
        PROVE  Carried(m) \/ m = r.id
    <3>1. k \in 1..Len(applied) \/ k = Len(applied) + 1
      BY <1>3
    <3> QED BY <2>1, <3>1, <1>3, <1>4 DEF Carried
  <2>2. ASSUME NEW m, Carried(m) PROVE Carried(m)'
    <3>1. PICK k \in 1..Len(applied) : applied[k].id = m
      BY <2>2 DEF Carried
    <3>2. k \in 1..Len(applied')
      BY <1>3
    <3> QED BY <1>3, <3>1, <3>2 DEF Carried
  <2>3. Carried(r.id)'
    <3>1. Len(applied) + 1 \in 1..Len(applied')
      BY <1>3
    <3> QED BY <1>3, <1>4, <3>1 DEF Carried
  <2> QED BY <2>1, <2>2, <2>3 DEF Carried
<1>6. HCTypeOK'
  <2>1. [id |-> r.id, status |-> 200] \in [id : 1..HCMaxCalls, status : {200, 400, 404, 503}]
    BY <1>1
  <2>2. answers' \subseteq [id : 1..HCMaxCalls, status : {200, 400, 404, 503}]
    BY <1>0, <1>2, <2>1 DEF HCTypeOK
  <2> QED BY <1>0, <1>2, <1>3, <2>2 DEF HCTypeOK
<1>7. ASSUME NEW q \in wire' PROVE OnWire(q)'
  <2>1. q \in wire /\ OnWire(q) /\ q # r
    BY <1>2, HCParts
  <2>2. q.id # r.id
    BY <2>1, <1>0 DEF OnWire
  <2>3. \A a \in answers' : a.id # q.id
    BY <1>2, <2>1, <2>2 DEF OnWire
  <2> QED BY <1>2, <1>5, <2>1, <2>2, <2>3 DEF OnWire
<1>8. ASSUME NEW w \in Writers, waiting'[w] # NoRequest PROVE Awaited(w)'
  <2>1. Awaited(w)
    BY <1>2, <1>8, HCParts
  <2>2. ASSUME NEW k \in 1..Len(applied'), applied'[k].by = w
        PROVE  applied'[k].id <= waiting[w].id
    <3>1. CASE k \in 1..Len(applied)
      BY <1>3, <2>1, <2>2, <3>1 DEF Awaited
    <3>2. CASE k = Len(applied) + 1
      BY <1>3, <1>4, <2>1, <2>2, <3>2 DEF Awaited
    <3> QED BY <1>3, <3>1, <3>2
  <2> QED BY <1>2, <2>1, <2>2 DEF Awaited
<1>9. ASSUME NEW a \in answers' PROVE Answering(a)'
  <2>1. CASE a \in answers
    <3>1. Answering(a) /\ a.id # r.id
      BY <2>1, <1>0, HCParts DEF OnWire
    <3> QED BY <1>2, <1>5, <3>1 DEF Answering
  <2>2. CASE a = [id |-> r.id, status |-> 200]
    <3>1. a.id = r.id /\ a.status = 200
      BY <2>2
    <3> QED BY <1>0, <1>2, <1>5, <3>1 DEF Answering, OnWire
  <2> QED BY <1>2, <2>1, <2>2
<1>10. ASSUME NEW m \in 1..HCMaxCalls PROVE Told(m)'
  <2>1. Told(m)
    BY HCParts
  <2>2. CASE m = r.id
    <3>1. ~(m > sent) /\ outcome[m] \in {"none", "unavailable"}
      <4>1. sent \in Nat /\ m \in Nat
        BY <1>0 DEF HCTypeOK
      <4> QED BY <1>0, <2>2, <4>1 DEF OnWire
    <3> QED BY <1>2, <3>1 DEF Told
  <2>3. CASE m # r.id
    BY <1>2, <1>5, <2>1, <2>3 DEF Told
  <2> QED BY <2>2, <2>3
<1>11. EffectsInOrder'
  <2> SUFFICES ASSUME NEW i \in 1..Len(applied'), NEW j \in 1..Len(applied'), i < j
               PROVE  /\ applied'[i].id # applied'[j].id
                      /\ applied'[i].by = applied'[j].by /\ applied'[i].id > applied'[j].id =>
                           applied'[j].id \in abandoned
    BY <1>2 DEF EffectsInOrder
  <2>1. i \in 1..Len(applied) /\ applied'[i] = applied[i]
    BY <1>3
  <2>2. CASE j \in 1..Len(applied)
    BY <1>0, <1>3, <2>1, <2>2 DEF EffectsInOrder
  <2>3. CASE j = Len(applied) + 1
    <3>1. applied'[j].id = r.id /\ applied'[j].by = r.by
      BY <1>3, <1>4, <2>3
    <3>2. applied[i].id # r.id /\ applied[i].id \in Nat
      BY <1>0, <2>1, AppliedShape DEF OnWire
    <3>3. ASSUME applied[i].by = r.by, r.id \notin abandoned
          PROVE  applied[i].id <= r.id
      <4>1. waiting[r.by] = r
        BY <1>0, <3>3 DEF OnWire
      <4>2. Awaited(r.by)
        BY <4>1, <1>1, HCParts
      <4> QED BY <2>1, <3>3, <4>1, <4>2 DEF Awaited
    <3>4. applied[i].by = r.by /\ applied[i].id > r.id => r.id \in abandoned
      BY <1>1, <3>2, <3>3
    <3> QED BY <2>1, <3>1, <3>2, <3>4
  <2> QED BY <1>3, <2>2, <2>3
<1> QED BY <1>6, <1>7, <1>8, <1>9, <1>10, <1>11, HCPartsNext

\* A step that leaves the calls carried out alone keeps what is said of them.
LEMMA CarriedStays ==
  ASSUME applied' = applied, NEW m
  PROVE  Carried(m)' <=> Carried(m)
BY DEF Carried

\* A handler of mock-chain refuses the request.
LEMMA RefuseStep ==
  ASSUME HCInv, NEW r \in wire, RefuseCall(r)
  PROVE  HCInv'
<1>0. HCTypeOK /\ EffectsInOrder /\ HCMaxCalls \in Nat /\ OnWire(r)
  BY HCAssumption, HCParts
<1>1. r \in HCRequest /\ r.id \in 1..HCMaxCalls
  BY <1>0, RequestShape DEF HCTypeOK
<1>s. PICK s \in {400, 404, 503} : s = writeChainErr(r.call)
  BY DEF writeChainErr
<1> DEFINE b == [id |-> r.id, status |-> s]
<1>2. /\ wire' = wire \ {r} /\ answers' \subseteq answers \cup {b} /\ cut' = cut
      /\ UNCHANGED <<sent, waiting, applied, abandoned, outcome>>
  <2>1. Respond(r, s) /\ s # 200
    BY <1>s DEF RefuseCall
  <2> QED BY <2>1, RespondShape DEF RefuseCall
<1>3. /\ b.id = r.id /\ b.status # 200
      /\ b \in [id : 1..HCMaxCalls, status : {200, 400, 404, 503}]
  BY <1>1
<1> HIDE DEF b
<1>4. \A m : Carried(m)' <=> Carried(m)
  BY <1>2, CarriedStays
<1>5. HCTypeOK'
  BY <1>0, <1>2, <1>3 DEF HCTypeOK
<1>6. ASSUME NEW q \in wire' PROVE OnWire(q)'
  <2>1. q \in wire /\ OnWire(q) /\ q # r
    BY <1>2, HCParts
  <2>2. q.id # r.id
    BY <2>1, <1>0 DEF OnWire
  <2>3. \A a \in answers' : a.id # q.id
    BY <1>2, <1>3, <2>1, <2>2 DEF OnWire
  <2> QED BY <1>2, <1>4, <2>1, <2>3 DEF OnWire
<1>7. ASSUME NEW w \in Writers, waiting'[w] # NoRequest PROVE Awaited(w)'
  BY <1>2, <1>7, HCParts DEF Awaited
<1>8. ASSUME NEW a \in answers' PROVE Answering(a)'
  <2>1. CASE a \in answers
    BY <1>2, <1>4, <2>1, HCParts DEF Answering
  <2>2. CASE a = b
    BY <1>0, <1>2, <1>3, <1>4, <2>2 DEF Answering, OnWire
  <2> QED BY <1>2, <2>1, <2>2
<1>9. ASSUME NEW m \in 1..HCMaxCalls PROVE Told(m)'
  BY <1>2, <1>4, HCParts DEF Told
<1>10. EffectsInOrder'
  BY <1>0, <1>2 DEF EffectsInOrder
<1> QED BY <1>5, <1>6, <1>7, <1>8, <1>9, <1>10, HCPartsNext

\* do decodes an answer and the method of HTTPAdapter returns.
LEMMA ReceiveStep ==
  ASSUME HCInv, NEW w \in Writers, ReceiveAnswer(w)
  PROVE  HCInv'
<1>0. HCTypeOK /\ EffectsInOrder /\ HCMaxCalls \in Nat
  BY HCAssumption, HCParts
<1>1. PICK a \in answers : /\ a.id = waiting[w].id
                           /\ answers' = answers \ {a}
                           /\ outcome' = [outcome EXCEPT ![a.id] = do(a)]
  BY DEF ReceiveAnswer
<1>d. PICK d : d = do(a)
  OBVIOUS
<1>2. /\ a.id \in 1..HCMaxCalls /\ a.status \in {200, 400, 404, 503} /\ Answering(a)
      /\ waiting' = [waiting EXCEPT ![w] = NoRequest]
      /\ UNCHANGED <<sent, wire, applied, abandoned, cut>>
  BY <1>0, HCParts DEF HCTypeOK, ReceiveAnswer
<1>3. /\ d \in HCOutcomes
      /\ d = "ok" => a.status = 200
      /\ d \in {"tx_failed", "not_found"} /\ a.id \notin cut => a.status # 200
      /\ d # "none"
  BY <1>2, <1>d DEF do, HCOutcomes
<1>4. /\ outcome'[a.id] = d /\ outcome' \in [1..HCMaxCalls -> HCOutcomes]
      /\ \A m \in 1..HCMaxCalls : m # a.id => outcome'[m] = outcome[m]
  BY <1>0, <1>1, <1>2, <1>3, <1>d DEF HCTypeOK
<1>5. /\ waiting'[w] = NoRequest
      /\ waiting' \in [Writers -> HCRequest \cup {NoRequest}]
      /\ \A v \in Writers : v # w => waiting'[v] = waiting[v]
  BY <1>0, <1>2 DEF HCTypeOK
<1>6. \A m : Carried(m)' <=> Carried(m)
  BY <1>2, CarriedStays
<1>7. HCTypeOK'
  BY <1>0, <1>1, <1>2, <1>4, <1>5 DEF HCTypeOK
<1>8. ASSUME NEW q \in wire' PROVE OnWire(q)'
  <2>1. q \in wire /\ OnWire(q) /\ q \in HCRequest
    BY <1>0, <1>2, HCParts DEF HCTypeOK
  <2>2. q.id # a.id /\ q.id \in 1..HCMaxCalls /\ q.by \in Writers
    BY <2>1, RequestShape DEF OnWire
  <2>3. waiting'[q.by] = q \/ q.id \in abandoned
    BY <1>1, <1>5, <2>1, <2>2 DEF OnWire
  <2>4. outcome'[q.id] = outcome[q.id] /\ \A c \in answers' : c \in answers
    BY <1>1, <1>4, <2>2
  <2> QED BY <1>2, <1>6, <2>1, <2>3, <2>4 DEF OnWire
<1>9. ASSUME NEW v \in Writers, waiting'[v] # NoRequest PROVE Awaited(v)'
  <2>1. v # w /\ waiting'[v] = waiting[v]
    BY <1>5, <1>9
  <2> QED BY <1>2, <1>9, <2>1, HCParts DEF Awaited
<1>10. ASSUME NEW c \in answers' PROVE Answering(c)'
  BY <1>1, <1>2, <1>6, HCParts DEF Answering
<1>11. ASSUME NEW m \in 1..HCMaxCalls PROVE Told(m)'
  <2>1. CASE m = a.id
    <3>1. ~(m > sent)
      BY <1>0, <1>2, <2>1 DEF Answering, HCTypeOK
    <3> QED BY <1>2, <1>3, <1>4, <1>6, <2>1, <3>1 DEF Told, Answering
  <2>2. CASE m # a.id
    BY <1>2, <1>4, <1>6, <2>2, HCParts DEF Told
  <2> QED BY <2>1, <2>2
<1>12. EffectsInOrder'
  BY <1>0, <1>2 DEF EffectsInOrder
<1> QED BY <1>7, <1>8, <1>9, <1>10, <1>11, <1>12, HCPartsNext

\* The client's timeout fires.
LEMMA TimeoutStep ==
  ASSUME HCInv, NEW w \in Writers, ClientTimeout(w)
  PROVE  HCInv'
<1>0. HCTypeOK /\ EffectsInOrder /\ HCMaxCalls \in Nat
  BY HCAssumption, HCParts
<1>1. PICK r \in HCRequest : r = waiting[w]
  BY <1>0 DEF HCTypeOK, ClientTimeout
<1>2. r.id \in 1..HCMaxCalls /\ r # NoRequest /\ Awaited(w) /\ r.id <= sent
  BY <1>1, RequestShape, HCParts DEF Awaited
<1>3. /\ answers' \subseteq answers
      /\ abandoned' = abandoned \cup {r.id}
      /\ UNCHANGED <<sent, wire, applied, cut>>
  BY <1>1 DEF ClientTimeout
<1>4. /\ outcome'[r.id] = "unavailable" /\ outcome' \in [1..HCMaxCalls -> HCOutcomes]
      /\ \A m \in 1..HCMaxCalls : m # r.id => outcome'[m] = outcome[m]
  BY <1>0, <1>1, <1>2 DEF HCTypeOK, ClientTimeout, HCOutcomes
<1>5. /\ waiting'[w] = NoRequest
      /\ waiting' \in [Writers -> HCRequest \cup {NoRequest}]
      /\ \A v \in Writers : v # w => waiting'[v] = waiting[v]
  BY <1>0 DEF HCTypeOK, ClientTimeout
<1>6. \A m : Carried(m)' <=> Carried(m)
  BY <1>3, CarriedStays
<1>7. HCTypeOK'
  BY <1>0, <1>3, <1>4, <1>5 DEF HCTypeOK
<1>8. ASSUME NEW q \in wire' PROVE OnWire(q)'
  <2>1. q \in wire /\ OnWire(q) /\ q \in HCRequest
    BY <1>0, <1>3, HCParts DEF HCTypeOK
  <2>2. q.id \in 1..HCMaxCalls /\ q.by \in Writers
    BY <2>1, RequestShape
  <2>3. waiting'[q.by] = q \/ q.id \in abandoned'
    BY <1>1, <1>3, <1>5, <2>1, <2>2 DEF OnWire
  <2>4. outcome'[q.id] \in {"none", "unavailable"}
    BY <1>4, <2>1, <2>2 DEF OnWire
  <2> QED BY <1>3, <1>6, <2>1, <2>3, <2>4 DEF OnWire
<1>9. ASSUME NEW v \in Writers, waiting'[v] # NoRequest PROVE Awaited(v)'
  <2>1. v # w /\ waiting'[v] = waiting[v]
    BY <1>5, <1>9
  <2> QED BY <1>3, <1>9, <2>1, HCParts DEF Awaited
<1>10. ASSUME NEW c \in answers' PROVE Answering(c)'
  BY <1>3, <1>6, HCParts DEF Answering
<1>11. ASSUME NEW m \in 1..HCMaxCalls PROVE Told(m)'
  <2>1. CASE m = r.id
    <3>1. ~(m > sent)
      BY <1>0, <1>2, <2>1 DEF HCTypeOK
    <3> QED BY <1>3, <1>4, <2>1, <3>1 DEF Told
  <2>2. CASE m # r.id
    BY <1>3, <1>4, <1>6, <2>2, HCParts DEF Told
  <2> QED BY <2>1, <2>2
<1>12. EffectsInOrder'
  BY <1>0, <1>3 DEF EffectsInOrder
<1> QED BY <1>7, <1>8, <1>9, <1>10, <1>11, <1>12, HCPartsNext

\* A step that at most empties the wire.
LEMMA WireStep ==
  ASSUME HCInv, wire' \subseteq wire,
         UNCHANGED <<sent, answers, waiting, applied, abandoned, cut, outcome>>
  PROVE  HCInv'
<1>0. HCTypeOK /\ EffectsInOrder
  BY DEF HCInv
<1>1. \A m : Carried(m)' <=> Carried(m)
  BY CarriedStays
<1>2. HCTypeOK'
  BY <1>0 DEF HCTypeOK
<1>3. \A r \in wire' : OnWire(r)'
  BY <1>1, HCParts DEF OnWire
<1>4. ASSUME NEW w \in Writers, waiting'[w] # NoRequest PROVE Awaited(w)'
  BY <1>4, HCParts DEF Awaited
<1>5. (\A a \in answers' : Answering(a)') /\ (\A n \in 1..HCMaxCalls : Told(n)')
  BY <1>1, HCParts DEF Answering, Told
<1>6. EffectsInOrder'
  BY <1>0 DEF EffectsInOrder
<1> QED BY <1>2, <1>3, <1>4, <1>5, <1>6, HCPartsNext

\* HCInv is an inductive invariant of the HTTP driver and the server behind it,
\* for any number of callers, calls, agents and faults (http.go do with the
\* handlers of mock-chain).
THEOREM HCInvariant == HCSpec => []HCInv
<1>1. HCInit => HCInv
  <2> SUFFICES ASSUME HCInit PROVE HCInv
    OBVIOUS
  <2>1. HCTypeOK
    BY HCAssumption DEF HCInit, HCTypeOK, HCOutcomes
  <2>2. applied = <<>> /\ Len(applied) = 0 /\ \A m : ~Carried(m)
    BY DEF HCInit, Carried
  <2>3. EffectsInOrder
    BY <2>2 DEF EffectsInOrder
  <2>4. \A n \in 1..HCMaxCalls : Told(n)
    BY <2>2 DEF HCInit, Told
  <2>5. (\A r \in wire : OnWire(r)) /\ (\A a \in answers : Answering(a))
    BY DEF HCInit
  <2>6. \A w \in Writers : waiting[w] = NoRequest
    BY DEF HCInit
  <2> QED BY <2>1, <2>3, <2>4, <2>5, <2>6, HCParts
<1>2. HCInv /\ [HCNext]_hcVars => HCInv'
  <2> SUFFICES ASSUME HCInv, [HCNext]_hcVars PROVE HCInv'
    OBVIOUS
  <2>1. CASE CloseChain
    BY <2>1, WireStep DEF CloseChain
  <2>2. CASE RestartChain
    BY <2>2, WireStep DEF RestartChain
  <2>3. ASSUME NEW w \in Writers, SendCall(w) \/ ReceiveAnswer(w) \/ ClientTimeout(w)
        PROVE  HCInv'
    BY <2>3, SendStep, ReceiveStep, TimeoutStep
  <2>4. ASSUME NEW r \in wire, HandleCall(r) \/ RefuseCall(r) PROVE HCInv'
    BY <2>4, HandleStep, RefuseStep
  <2>5. CASE UNCHANGED hcVars
    BY <2>5, WireStep DEF hcVars
  <2> QED BY <2>1, <2>2, <2>3, <2>4, <2>5 DEF HCNext
<1> QED BY <1>1, <1>2, PTL DEF HCSpec

\* A caller that believes the answers of HTTPAdapter is never wrong about the
\* chain, and calls are carried out at most once and in order unless given up
\* (http.go:117-168 with main.go writeChainErr).
THEOREM AnswersTheorem == HCSpec => []AnswersAreTrue
<1>1. HCInv => AnswersAreTrue
  <2> SUFFICES ASSUME HCInv PROVE ErrorsTellTheTruth
    BY DEF HCInv, AnswersAreTrue
  <2>1. \A n \in 1..sent : n \in 1..HCMaxCalls /\ Told(n)
    BY HCAssumption, HCParts DEF HCTypeOK
  <2>2. \A n : Carried(n) <=> n \in {applied[k].id : k \in 1..Len(applied)}
    BY DEF Carried
  <2> QED BY <2>1, <2>2 DEF ErrorsTellTheTruth, Told
<1> QED BY <1>1, HCInvariant, PTL

-----------------------------------------------------------------------------
(* batch-register. *)

\* What the type of batch gives of its fields.
LEMMA BatchShape ==
  ASSUME BatchTypeOK
  PROVE  /\ batch.rows \in RowLists /\ batch.next \in Nat \ {0}
         /\ batch.calling \in SUBSET Nat /\ batch.sem \in SUBSET Nat
         /\ batch.results \in Seq(RowResults) /\ batch.out \in Seq(RowResults)
         /\ batch.stored \in SUBSET Nat /\ batch.unanswered \in SUBSET Nat
         /\ batch.status \in {"dispatch", "collect", "write", "done", "error", "panic"}
         /\ Len(batch.rows) \in Nat \ {0} /\ Len(batch.results) \in Nat /\ Len(batch.out) \in Nat
<1>1. /\ batch.rows \in RowLists /\ batch.next \in Nat \ {0}
      /\ batch.calling \in SUBSET Nat /\ batch.sem \in SUBSET Nat
      /\ batch.results \in Seq(RowResults) /\ batch.out \in Seq(RowResults)
      /\ batch.stored \in SUBSET Nat /\ batch.unanswered \in SUBSET Nat
      /\ batch.status \in {"dispatch", "collect", "write", "done", "error", "panic"}
  BY DEF BatchTypeOK
<1>2. batch.rows \in Seq({"good", "bad"}) /\ batch.rows # <<>>
  BY <1>1, CLIAssumption
<1>3. Len(batch.rows) \in Nat \ {0}
  BY <1>2
<1> QED BY <1>1, <1>3

\* The semaphore and the calls that hold it are finite sets.
LEMMA PoolFinite ==
  ASSUME BatchTypeOK, DispatchInv
  PROVE  /\ IsFiniteSet(batch.sem) /\ IsFiniteSet(batch.calling)
         /\ Cardinality(batch.calling) <= Cardinality(batch.sem)
         /\ Cardinality(batch.calling) \in Nat /\ Cardinality(batch.sem) \in Nat
<1>1. IsFiniteSet(1..(batch.next - 1))
  <2>1. batch.next - 1 \in Int /\ 1 \in Int
    BY BatchShape
  <2> QED BY <2>1, FS_Interval
<1>2. IsFiniteSet(batch.sem)
  BY <1>1, FS_Subset DEF DispatchInv
<1>3. IsFiniteSet(batch.calling) /\ Cardinality(batch.calling) <= Cardinality(batch.sem)
  BY <1>2, FS_Subset DEF DispatchInv
<1> QED BY <1>2, <1>3, FS_CardinalityType


\* The numbers of rows collected, in the channel and being called.
LEMMA Counts ==
  ASSUME BatchInv
  PROVE  \E o, l, c, n \in Nat :
           /\ o = Len(batch.out) /\ l = Len(batch.results) /\ c = Cardinality(batch.calling)
           /\ n = batch.next /\ o + l + c = n - 1
<1>1. BatchTypeOK /\ DispatchInv /\ CountInv
  BY DEF BatchInv
<1>2. PICK o \in Nat, l \in Nat, c \in Nat, n \in Nat :
        o = Len(batch.out) /\ l = Len(batch.results) /\ c = Cardinality(batch.calling) /\ n = batch.next
  BY <1>1, BatchShape, PoolFinite
<1>3. o + l + c = n - 1
  BY <1>1, <1>2 DEF CountInv
<1> QED BY <1>2, <1>3

\* A result r joins the channel: its row i was being called or is dispatched now.
Arrives(i, r) ==
  /\ batch'.rows = batch.rows /\ batch'.out = batch.out
  /\ batch'.results = Append(batch.results, r) /\ r \in RowResults /\ r.row = i
  /\ i \in 1..(batch'.next - 1) /\ (i \in batch.calling \/ i \notin 1..(batch.next - 1))
  /\ \A j \in 1..(batch.next - 1) : j \in 1..(batch'.next - 1)
  /\ \A j \in 1..(batch'.next - 1) : j \in 1..(batch.next - 1) \/ j = i
  /\ batch'.calling = batch.calling \ {i}
  /\ batch'.stored \ {i} = batch.stored \ {i}
  /\ batch'.unanswered \ {i} = batch.unanswered \ {i}
  /\ r.ok <=> i \in batch'.stored \ batch'.unanswered

LEMMA ResultArrives ==
  ASSUME BatchInv, NEW i \in Nat, NEW r \in RowResults, Arrives(i, r)
  PROVE  ResultsInv' /\ batch'.results \in Seq(RowResults) /\ Len(batch'.results) = Len(batch.results) + 1
<1>0. BatchTypeOK /\ ResultsInv
  BY DEF BatchInv
<1>1. Len(batch.results) \in Nat /\ batch.results \in Seq(RowResults)
  BY <1>0, BatchShape
<1>2. /\ Len(batch'.results) = Len(batch.results) + 1
      /\ batch'.results[Len(batch.results) + 1] = r
      /\ \A k \in 1..Len(batch.results) : batch'.results[k] = batch.results[k]
      /\ batch'.results \in Seq(RowResults)
  BY <1>1 DEF Arrives
<1>3. ASSUME NEW x, Settled(x) PROVE Settled(x)'
  <2>1. x.row \in 1..(batch.next - 1) /\ x.row \notin batch.calling /\ x.row # i /\ x.row \in Nat
    BY <1>3 DEF Settled, Arrives
  <2>2. x.row \in 1..(batch'.next - 1) /\ x.row \notin batch'.calling
    BY <2>1 DEF Arrives
  <2>3. x.row \in batch'.stored \ batch'.unanswered <=> x.row \in batch.stored \ batch.unanswered
    BY <2>1 DEF Arrives
  <2> QED BY <1>3, <2>1, <2>2, <2>3 DEF Settled
<1>4. Settled(r)'
  BY DEF Settled, Arrives
<1>5. ASSUME NEW k \in 1..Len(batch'.results) PROVE Settled(batch.results[k])'
  <2>1. PICK x : x = batch'.results[k]
    OBVIOUS
  <2>2. CASE k \in 1..Len(batch.results)
    <3>1. Settled(x)'
      BY <1>0, <1>2, <1>3, <2>1, <2>2 DEF ResultsInv
    <3> QED BY <2>1, <3>1 DEF Settled
  <2>3. CASE k = Len(batch.results) + 1
    BY <1>2, <1>4, <2>3 DEF Settled
  <2> QED BY <1>1, <1>2, <2>2, <2>3
<1>6. ASSUME NEW k \in 1..Len(batch'.out) PROVE Settled(batch.out[k])'
  <2>1. PICK x : x = batch'.out[k]
    OBVIOUS
  <2>2. Settled(x)'
    BY <1>0, <1>3, <2>1 DEF ResultsInv, Arrives
  <2> QED BY <2>1, <2>2 DEF Settled
<1>7. ASSUME NEW j \in 1..(batch'.next - 1)
      PROVE  \/ j \in batch'.calling
             \/ \E k \in 1..Len(batch'.results) : batch'.results[k].row = j
             \/ \E k \in 1..Len(batch'.out) : batch'.out[k].row = j
  <2>1. CASE j = i
    <3>1. Len(batch.results) + 1 \in 1..Len(batch'.results)
      BY <1>1, <1>2
    <3> QED BY <1>2, <2>1, <3>1 DEF Arrives
  <2>2. CASE j # i
    <3>1. j \in 1..(batch.next - 1)
      BY <2>2 DEF Arrives
    <3>2. 1..Len(batch.results) \subseteq 1..Len(batch'.results)
      BY <1>1, <1>2
    <3> QED BY <1>0, <1>2, <2>2, <3>1, <3>2 DEF ResultsInv, Arrives
  <2> QED BY <2>1, <2>2
<1> QED BY <1>2, <1>5, <1>6, <1>7 DEF ResultsInv

\* rowToRequest refuses a row.
LEMMA BadRowStep ==
  ASSUME BatchInv, rowToRequest
  PROVE  BatchInv'
<1>0. BatchTypeOK /\ DispatchInv /\ ResultsInv /\ StatusInv
  BY DEF BatchInv
<1>i. PICK i \in Nat : i = batch.next
  BY <1>0, BatchShape
<1>r. PICK r \in RowResults : r = RowResult(i, FALSE, FALSE) /\ r.row = i /\ ~r.ok
  <2>1. /\ RowResult(i, FALSE, FALSE) \in RowResults /\ RowResult(i, FALSE, FALSE).row = i
        /\ ~RowResult(i, FALSE, FALSE).ok
    BY DEF RowResult, RowResults
  <2> QED BY <2>1
<1>1. /\ i # 0 /\ i <= Len(batch.rows) /\ Len(batch.rows) \in Nat /\ batch.status = "dispatch"
  BY <1>0, <1>i, BatchShape DEF rowToRequest
<1>2. /\ batch'.rows = batch.rows /\ batch'.next = i + 1 /\ batch'.calling = batch.calling
      /\ batch'.sem = batch.sem /\ batch'.results = Append(batch.results, r)
      /\ batch'.out = batch.out /\ batch'.stored = batch.stored
      /\ batch'.unanswered = batch.unanswered /\ batch'.status = batch.status
  BY <1>0, <1>i, <1>r DEF rowToRequest, BatchTypeOK
<1>3. batch' = [batch EXCEPT !.next = batch'.next, !.results = batch'.results]
  BY <1>0, <1>2, <1>i, <1>r DEF rowToRequest, BatchTypeOK
<1>4. /\ i \notin 1..(i - 1) /\ i \in 1..(i + 1 - 1) /\ 1..(i - 1) \subseteq 1..(i + 1 - 1)
      /\ \A j \in 1..(i + 1 - 1) : j \in 1..(i - 1) \/ j = i
  BY <1>1
<1>5. i \notin batch.calling /\ i \notin batch.stored
  BY <1>0, <1>4, <1>i DEF DispatchInv
<1>6. Arrives(i, r)
  <2>1. batch'.calling = batch.calling \ {i} /\ (r.ok <=> i \in batch'.stored \ batch'.unanswered)
    BY <1>2, <1>5, <1>r
  <2>2. /\ i \in 1..(batch'.next - 1) /\ i \notin 1..(batch.next - 1)
        /\ \A j \in 1..(batch.next - 1) : j \in 1..(batch'.next - 1)
        /\ \A j \in 1..(batch'.next - 1) : j \in 1..(batch.next - 1) \/ j = i
    BY <1>2, <1>4, <1>i
  <2>3. /\ batch'.stored \ {i} = batch.stored \ {i}
        /\ batch'.unanswered \ {i} = batch.unanswered \ {i}
    BY <1>2
  <2> QED BY <1>2, <1>r, <2>1, <2>2, <2>3, Zenon DEF Arrives
<1>7. /\ ResultsInv' /\ batch'.results \in Seq(RowResults)
      /\ Len(batch'.results) = Len(batch.results) + 1
  BY <1>6, ResultArrives
<1>8. BatchTypeOK'
  <2>1. batch'.next \in Nat \ {0}
    BY <1>1, <1>2
  <2> QED BY ONLY <1>0, <1>3, <1>7, <2>1 DEF BatchTypeOK
<1>9. DispatchInv' /\ StatusInv'
  <2>1. i + 1 <= Len(batch.rows) + 1
    BY <1>1
  <2> QED BY <1>0, <1>1, <1>2, <1>4, <1>i, <2>1 DEF DispatchInv, StatusInv
<1>10. CountInv'
  <2>1. PICK o, l, c, n \in Nat :
           /\ o = Len(batch.out) /\ l = Len(batch.results) /\ c = Cardinality(batch.calling)
           /\ n = batch.next /\ o + l + c = n - 1
    BY Counts
  <2>2. o + l + c = n - 1 /\ n = i
    BY <2>1, <1>i
  <2>3. o + (l + 1) + c = (i + 1) - 1
    BY <2>2
  <2>4. /\ Len(batch'.out) = o /\ Len(batch'.results) = l + 1 /\ Cardinality(batch'.calling) = c
        /\ batch'.next = i + 1
    BY <1>2, <1>7, <2>1
  <2> QED BY <2>3, <2>4 DEF CountInv
<1> QED BY <1>7, <1>8, <1>9, <1>10 DEF BatchInv

\* A goroutine's call comes back and its result is sent to the collector.
LEMMA ReturnStep ==
  ASSUME BatchInv, NEW i \in batch.calling, NEW outcm \in {"ok", "failed", "lost"},
         batch' = CallReturned(i, outcm)
  PROVE  BatchInv'
<1>0. BatchTypeOK /\ DispatchInv /\ ResultsInv /\ StatusInv
  BY DEF BatchInv
<1>i. /\ i \in Nat /\ i \in 1..(batch.next - 1) /\ i \notin batch.stored
      /\ i \notin batch.unanswered /\ batch.next \in Nat
  <2>1. i \in 1..(batch.next - 1) /\ i \notin batch.stored /\ i \notin batch.unanswered
    BY <1>0 DEF DispatchInv
  <2> QED BY <1>0, <2>1, BatchShape
<1>r. PICK r \in RowResults : r = RowResult(i, TRUE, outcm = "ok") /\ r.row = i /\ (r.ok <=> outcm = "ok")
  <2>1. /\ RowResult(i, TRUE, outcm = "ok") \in RowResults
        /\ RowResult(i, TRUE, outcm = "ok").row = i
        /\ RowResult(i, TRUE, outcm = "ok").ok <=> outcm = "ok"
    BY <1>i DEF RowResult, RowResults
  <2> QED BY <2>1
<1>2. /\ batch'.rows = batch.rows /\ batch'.next = batch.next /\ batch'.calling = batch.calling \ {i}
      /\ batch'.sem = batch.sem /\ batch'.results = Append(batch.results, r)
      /\ batch'.out = batch.out /\ batch'.status = batch.status
      /\ batch'.stored = IF outcm = "failed" THEN batch.stored ELSE batch.stored \cup {i}
      /\ batch'.unanswered = IF outcm = "lost" THEN batch.unanswered \cup {i} ELSE batch.unanswered
  BY <1>0, <1>r DEF CallReturned, BatchTypeOK
<1>3. batch' = [batch EXCEPT !.calling = batch'.calling, !.results = batch'.results,
                             !.stored = batch'.stored, !.unanswered = batch'.unanswered]
  BY <1>0, <1>2, <1>r DEF CallReturned, BatchTypeOK
<1>4. /\ batch'.stored \ {i} = batch.stored \ {i}
      /\ batch'.unanswered \ {i} = batch.unanswered \ {i}
      /\ outcm = "ok" <=> i \in batch'.stored \ batch'.unanswered
      /\ batch'.stored \subseteq batch.stored \cup {i} /\ batch'.unanswered \subseteq batch'.stored
  BY <1>0, <1>2, <1>i DEF DispatchInv
<1>6. Arrives(i, r)
  <2>1. r.ok <=> i \in batch'.stored \ batch'.unanswered
    BY <1>r, <1>4
  <2>2. /\ i \in 1..(batch'.next - 1)
        /\ \A j \in 1..(batch.next - 1) : j \in 1..(batch'.next - 1)
        /\ \A j \in 1..(batch'.next - 1) : j \in 1..(batch.next - 1) \/ j = i
    BY <1>2, <1>i
  <2> QED BY <1>2, <1>r, <1>4, <2>1, <2>2, Zenon DEF Arrives
<1>7. /\ ResultsInv' /\ batch'.results \in Seq(RowResults)
      /\ Len(batch'.results) = Len(batch.results) + 1
  BY <1>6, <1>i, ResultArrives
<1>8. BatchTypeOK'
  <2>1. /\ batch'.calling \in SUBSET Nat /\ batch'.stored \in SUBSET Nat
        /\ batch'.unanswered \in SUBSET Nat
    BY <1>0, <1>2, <1>i, BatchShape
  <2> QED BY ONLY <1>0, <1>3, <1>7, <2>1 DEF BatchTypeOK
<1>9. DispatchInv' /\ StatusInv'
  <2>1. StatusInv'
    BY <1>0, <1>2 DEF StatusInv
  <2>2. batch'.calling \subseteq batch'.sem /\ batch'.calling \cap batch'.stored = {}
    BY <1>0, <1>2, <1>4 DEF DispatchInv
  <2>3. batch'.stored \subseteq 1..(batch'.next - 1)
    BY <1>0, <1>2, <1>4, <1>i DEF DispatchInv
  <2> QED BY <1>0, <1>2, <1>4, <2>1, <2>2, <2>3 DEF DispatchInv
<1>10. CountInv'
  <2>1. PICK o, l, c, n \in Nat :
           /\ o = Len(batch.out) /\ l = Len(batch.results) /\ c = Cardinality(batch.calling)
           /\ n = batch.next /\ o + l + c = n - 1
    BY Counts
  <2>2. o + l + c = n - 1
    BY <2>1
  <2>3. o + (l + 1) + (c - 1) = n - 1
    BY <2>2
  <2>4. Cardinality(batch.calling \ {i}) = Cardinality(batch.calling) - 1
    BY <1>0, PoolFinite, FS_RemoveElement
  <2>5. /\ Len(batch'.out) = o /\ Len(batch'.results) = l + 1 /\ batch'.next = n
        /\ Cardinality(batch'.calling) = c - 1
    BY <1>2, <1>7, <2>1, <2>4
  <2> QED BY <2>3, <2>5 DEF CountInv
<1> QED BY <1>7, <1>8, <1>9, <1>10 DEF BatchInv

\* A step that leaves results, rows and calls alone keeps what is said of them.
LEMMA ResultsStay ==
  ASSUME ResultsInv, batch'.next = batch.next, batch'.calling = batch.calling,
         batch'.results = batch.results, batch'.out = batch.out,
         batch'.stored = batch.stored, batch'.unanswered = batch.unanswered
  PROVE  ResultsInv'
BY DEF ResultsInv, Settled

\* Launch takes the semaphore and starts a goroutine for the next row.
LEMMA LaunchStep ==
  ASSUME BatchInv, Launch
  PROVE  BatchInv'
<1>0. BatchTypeOK /\ DispatchInv /\ ResultsInv /\ StatusInv
  BY DEF BatchInv
<1>i. PICK i \in Nat : i = batch.next
  BY <1>0, BatchShape
<1>1. i # 0 /\ i <= Len(batch.rows) /\ Len(batch.rows) \in Nat /\ batch.status = "dispatch"
  BY <1>0, <1>i, BatchShape DEF Launch
<1>2. /\ batch'.rows = batch.rows /\ batch'.next = i + 1 /\ batch'.calling = batch.calling \cup {i}
      /\ batch'.sem = batch.sem \cup {i} /\ batch'.results = batch.results
      /\ batch'.out = batch.out /\ batch'.stored = batch.stored
      /\ batch'.unanswered = batch.unanswered /\ batch'.status = batch.status
  BY <1>0, <1>i DEF Launch, BatchTypeOK
<1>3. batch' = [batch EXCEPT !.next = batch'.next, !.sem = batch'.sem, !.calling = batch'.calling]
  BY <1>0, <1>2, <1>i DEF Launch, BatchTypeOK
<1>4. /\ i \notin 1..(i - 1) /\ i \in 1..(i + 1 - 1) /\ 1..(i - 1) \subseteq 1..(i + 1 - 1)
      /\ \A j \in 1..(i + 1 - 1) : j \in 1..(i - 1) \/ j = i
  BY <1>1
<1>5. i \notin batch.calling /\ i \notin batch.stored /\ i \notin batch.sem
  BY <1>0, <1>4, <1>i DEF DispatchInv
<1>6. BatchTypeOK'
  <2>1. batch'.next \in Nat \ {0} /\ batch'.sem \in SUBSET Nat /\ batch'.calling \in SUBSET Nat
    BY <1>0, <1>1, <1>2, BatchShape
  <2> QED BY ONLY <1>0, <1>3, <2>1 DEF BatchTypeOK
<1>7. ResultsInv'
  <2>1. ASSUME NEW x, Settled(x) PROVE Settled(x)'
    <3>1. x.row \in 1..(i - 1) /\ x.row \notin batch.calling
      BY <1>i, <2>1 DEF Settled
    <3>2. x.row # i /\ x.row \in 1..(i + 1 - 1)
      BY <1>4, <3>1
    <3> QED BY <1>2, <2>1, <3>1, <3>2 DEF Settled
  <2>2. ASSUME NEW k \in 1..Len(batch.results) PROVE Settled(batch.results[k])'
    <3>1. PICK x : x = batch.results[k]
      OBVIOUS
    <3>2. Settled(x)'
      BY <1>0, <2>1, <3>1 DEF ResultsInv
    <3> QED BY <1>2, <3>1, <3>2 DEF Settled
  <2>3. ASSUME NEW k \in 1..Len(batch.out) PROVE Settled(batch.out[k])'
    <3>1. PICK x : x = batch.out[k]
      OBVIOUS
    <3>2. Settled(x)'
      BY <1>0, <2>1, <3>1 DEF ResultsInv
    <3> QED BY <1>2, <3>1, <3>2 DEF Settled
  <2>4. ASSUME NEW j \in 1..(batch'.next - 1)
        PROVE  \/ j \in batch'.calling
               \/ \E k \in 1..Len(batch'.results) : batch'.results[k].row = j
               \/ \E k \in 1..Len(batch'.out) : batch'.out[k].row = j
    <3>1. j \in 1..(batch.next - 1) \/ j = i
      BY <1>2, <1>4, <1>i
    <3> QED BY <1>0, <1>2, <3>1 DEF ResultsInv
  <2> QED BY <1>2, <2>2, <2>3, <2>4 DEF ResultsInv
<1>8. DispatchInv' /\ StatusInv'
  <2>1. i + 1 <= Len(batch.rows) + 1
    BY <1>1
  <2>2. Cardinality(batch'.sem) <= Parallel
    <3>1. PICK s \in Nat : s = Cardinality(batch.sem)
      BY <1>0, PoolFinite
    <3>2. Cardinality(batch.sem \cup {i}) = s + 1
      BY <1>0, <1>5, <3>1, PoolFinite, FS_AddElement
    <3>3. s < Parallel /\ Parallel \in Nat
      BY <3>1, CLIAssumption DEF Launch
    <3> QED BY <1>2, <3>2, <3>3
  <2>3. /\ batch'.calling \subseteq batch'.sem /\ batch'.calling \cap batch'.stored = {}
        /\ batch'.unanswered \subseteq batch'.stored
    BY <1>0, <1>2, <1>5 DEF DispatchInv
  <2>4. batch'.sem \subseteq 1..(batch'.next - 1) /\ batch'.stored \subseteq 1..(batch'.next - 1)
    BY <1>0, <1>2, <1>4, <1>i DEF DispatchInv
  <2>5. StatusInv'
    BY <1>0, <1>1, <1>2 DEF StatusInv
  <2> QED BY <1>2, <2>1, <2>2, <2>3, <2>4, <2>5 DEF DispatchInv
<1>9. CountInv'
  <2>1. PICK o, l, c, n \in Nat :
           /\ o = Len(batch.out) /\ l = Len(batch.results) /\ c = Cardinality(batch.calling)
           /\ n = batch.next /\ o + l + c = n - 1
    BY Counts
  <2>2. o + l + c = i - 1
    BY <2>1, <1>i
  <2>3. o + l + (c + 1) = (i + 1) - 1
    BY <2>2
  <2>4. Cardinality(batch.calling \cup {i}) = c + 1
    BY <1>0, <1>5, <2>1, PoolFinite, FS_AddElement
  <2>5. /\ Len(batch'.out) = o /\ Len(batch'.results) = l /\ batch'.next = i + 1
        /\ Cardinality(batch'.calling) = c + 1
    BY <1>2, <2>1, <2>4
  <2> QED BY <2>3, <2>5 DEF CountInv
<1> QED BY <1>6, <1>7, <1>8, <1>9 DEF BatchInv

\* A goroutine gives the semaphore back.
LEMMA ReleaseStep ==
  ASSUME BatchInv, NEW i \in batch.sem, Release(i)
  PROVE  BatchInv'
<1>0. BatchTypeOK /\ DispatchInv /\ ResultsInv /\ CountInv /\ StatusInv
  BY DEF BatchInv
<1>2. /\ batch'.rows = batch.rows /\ batch'.next = batch.next /\ batch'.calling = batch.calling
      /\ batch'.sem = batch.sem \ {i} /\ batch'.results = batch.results
      /\ batch'.out = batch.out /\ batch'.stored = batch.stored
      /\ batch'.unanswered = batch.unanswered /\ batch'.status = batch.status
      /\ i \notin batch.calling
  BY <1>0 DEF Release, BatchTypeOK
<1>3. BatchTypeOK'
  BY <1>0 DEF Release, BatchTypeOK
<1>4. ResultsInv' /\ CountInv' /\ StatusInv'
  <2>1. CountInv' /\ StatusInv'
    BY <1>0, <1>2 DEF CountInv, StatusInv
  <2> QED BY <1>0, <1>2, <2>1, ResultsStay
<1>5. DispatchInv'
  <2>1. Cardinality(batch'.sem) <= Parallel
    <3>1. PICK s \in Nat : s = Cardinality(batch.sem)
      BY <1>0, PoolFinite
    <3>2. Cardinality(batch'.sem) = s - 1
      BY <1>0, <1>2, <3>1, PoolFinite, FS_RemoveElement
    <3>3. s <= Parallel /\ Parallel \in Nat
      BY <1>0, <3>1, CLIAssumption DEF DispatchInv
    <3> QED BY <3>2, <3>3
  <2> QED BY <1>0, <1>2, <2>1 DEF DispatchInv
<1> QED BY <1>3, <1>4, <1>5 DEF BatchInv

\* A step that changes the status only.
LEMMA StatusStep ==
  ASSUME BatchInv, NEW s \in {"dispatch", "collect", "write", "done", "error", "panic"},
         batch' = [batch EXCEPT !.status = s], StatusInv'
  PROVE  BatchInv'
<1>0. BatchTypeOK /\ DispatchInv /\ ResultsInv /\ CountInv
  BY DEF BatchInv
<1>2. /\ batch'.rows = batch.rows /\ batch'.next = batch.next /\ batch'.calling = batch.calling
      /\ batch'.sem = batch.sem /\ batch'.results = batch.results
      /\ batch'.out = batch.out /\ batch'.stored = batch.stored
      /\ batch'.unanswered = batch.unanswered /\ batch'.status = s
  BY <1>0 DEF BatchTypeOK
<1>3. BatchTypeOK'
  BY <1>0 DEF BatchTypeOK
<1>4. DispatchInv' /\ CountInv'
  BY <1>0, <1>2 DEF DispatchInv, CountInv
<1> QED BY <1>0, <1>2, <1>3, <1>4, ResultsStay DEF BatchInv

\* close(sem) and writeBatchOutput.
LEMMA CloseStep ==
  ASSUME BatchInv, CloseSem \/ writeBatchOutput
  PROVE  BatchInv'
<1>0. BatchTypeOK /\ DispatchInv /\ StatusInv
  BY DEF BatchInv
<1>1. CASE CloseSem
  <2>1. batch' = [batch EXCEPT !.status = "collect"]
    BY <1>1 DEF CloseSem
  <2>2. /\ batch'.status = "collect" /\ batch'.out = batch.out /\ batch'.next = batch.next
        /\ batch'.rows = batch.rows
    BY <1>0, <2>1 DEF BatchTypeOK
  <2>3. batch.out = <<>> /\ Len(batch.out) = 0
    BY <1>0, <1>1 DEF CloseSem, StatusInv
  <2>4. batch.next = Len(batch.rows) + 1
    <3>1. PICK n \in Nat, l \in Nat : n = batch.next /\ l = Len(batch.rows)
      BY <1>0, BatchShape
    <3>2. n > l /\ n <= l + 1
      BY <1>0, <1>1, <3>1 DEF CloseSem, DispatchInv
    <3>3. n = l + 1
      BY <3>2
    <3> QED BY <3>1, <3>3
  <2>5. StatusInv'
    BY <1>0, <2>2, <2>3, <2>4, BatchShape DEF StatusInv
  <2> QED BY <2>1, <2>5, StatusStep
<1>2. CASE writeBatchOutput
  <2>1. PICK s \in {"done", "error"} : batch' = [batch EXCEPT !.status = s]
    BY <1>2 DEF writeBatchOutput
  <2>2. /\ batch'.status = s /\ batch'.out = batch.out /\ batch'.next = batch.next
        /\ batch'.rows = batch.rows
    BY <1>0, <2>1 DEF BatchTypeOK
  <2>3. StatusInv'
    BY <1>0, <1>2, <2>2 DEF StatusInv, writeBatchOutput
  <2> QED BY <2>1, <2>3, StatusStep
<1> QED BY <1>1, <1>2

\* The collector takes a result from the channel, or panics on one without a
\* request.
LEMMA CollectStep ==
  ASSUME BatchInv, Collect
  PROVE  BatchInv'
<1>0. BatchTypeOK /\ DispatchInv /\ ResultsInv /\ CountInv /\ StatusInv
  BY DEF BatchInv
<1>r. PICK r : r = Head(batch.results)
  OBVIOUS
<1>q. PICK q : q = Append(batch.out, r)
  OBVIOUS
<1>1. CASE ~r.sent
  <2>1. batch' = [batch EXCEPT !.status = "panic"]
    BY <1>1, <1>r DEF Collect
  <2>2. /\ batch'.status = "panic" /\ batch'.out = batch.out /\ batch'.next = batch.next
        /\ batch'.rows = batch.rows
    BY <1>0, <2>1 DEF BatchTypeOK
  <2>3. StatusInv'
    BY <1>0, <2>2 DEF StatusInv, Collect
  <2> QED BY <2>1, <2>3, StatusStep
<1>2. CASE r.sent
  <2>s. PICK s \in {"collect", "write"} : s = IF Len(q) = Len(batch.rows) THEN "write" ELSE "collect"
    OBVIOUS
  <2>1. batch' = [batch EXCEPT !.results = Tail(batch.results), !.out = q, !.status = s]
    BY <1>2, <1>r, <1>q, <2>s DEF Collect
  <2>2. /\ batch'.rows = batch.rows /\ batch'.next = batch.next /\ batch'.calling = batch.calling
        /\ batch'.sem = batch.sem /\ batch'.results = Tail(batch.results)
        /\ batch'.out = q /\ batch'.stored = batch.stored
        /\ batch'.unanswered = batch.unanswered /\ batch'.status = s
    BY <1>0, <2>1 DEF BatchTypeOK
  <2>3. /\ batch.results \in Seq(RowResults) /\ batch.results # <<>> /\ batch.out \in Seq(RowResults)
        /\ Len(batch.results) \in Nat /\ Len(batch.out) \in Nat
    BY <1>0, BatchShape DEF Collect
  <2>4. /\ r \in RowResults /\ r = batch.results[1] /\ Tail(batch.results) \in Seq(RowResults)
        /\ Len(batch.results) > 0 /\ Len(Tail(batch.results)) = Len(batch.results) - 1
        /\ \A k \in 1..(Len(batch.results) - 1) : Tail(batch.results)[k] = batch.results[k + 1]
    BY <1>r, <2>3
  <2>5. /\ q \in Seq(RowResults) /\ Len(q) = Len(batch.out) + 1 /\ q[Len(batch.out) + 1] = r
        /\ \A k \in 1..Len(batch.out) : q[k] = batch.out[k]
    BY <1>q, <2>3, <2>4
  <2>6. BatchTypeOK'
    BY <1>0, <2>1, <2>4, <2>5 DEF BatchTypeOK
  <2>7. DispatchInv'
    BY <1>0, <2>2 DEF DispatchInv
  <2>8. ResultsInv'
    <3>1. \A x : Settled(x)' <=> Settled(x)
      BY <2>2 DEF Settled
    <3>2. ASSUME NEW k \in 1..Len(batch'.results) PROVE Settled(batch.results[k])'
      <4>1. k + 1 \in 1..Len(batch.results) /\ batch'.results[k] = batch.results[k + 1]
        BY <2>2, <2>3, <2>4
      <4>2. PICK x : x = batch'.results[k]
        OBVIOUS
      <4>3. Settled(x)'
        BY <1>0, <3>1, <4>1, <4>2 DEF ResultsInv
      <4> QED BY <4>2, <4>3 DEF Settled
    <3>3. ASSUME NEW k \in 1..Len(batch'.out) PROVE Settled(batch.out[k])'
      <4>1. 1 \in 1..Len(batch.results)
        BY <2>3, <2>4
      <4>2. PICK x : x = batch'.out[k]
        OBVIOUS
      <4>3. Settled(x)'
        <5>1. k \in 1..Len(batch.out) \/ k = Len(batch.out) + 1
          BY <2>2, <2>3, <2>5
        <5>2. x = batch.out[k] /\ k \in 1..Len(batch.out) => Settled(x)
          BY <1>0 DEF ResultsInv
        <5>3. x = r => Settled(x)
          BY <1>0, <2>4, <4>1 DEF ResultsInv
        <5> QED BY <2>2, <2>5, <3>1, <4>2, <5>1, <5>2, <5>3
      <4> QED BY <4>2, <4>3 DEF Settled
    <3>4. ASSUME NEW j \in 1..(batch'.next - 1)
          PROVE  \/ j \in batch'.calling
                 \/ \E k \in 1..Len(batch'.results) : batch'.results[k].row = j
                 \/ \E k \in 1..Len(batch'.out) : batch'.out[k].row = j
      <4>1. CASE j \in batch.calling
        BY <2>2, <4>1
      <4>2. ASSUME NEW k \in 1..Len(batch.results), batch.results[k].row = j
            PROVE  \/ \E h \in 1..Len(batch'.results) : batch'.results[h].row = j
                   \/ \E h \in 1..Len(batch'.out) : batch'.out[h].row = j
        <5>1. CASE k = 1
          <6>1. Len(batch.out) + 1 \in 1..Len(batch'.out)
            BY <2>2, <2>3, <2>5
          <6> QED BY <2>2, <2>4, <2>5, <4>2, <5>1, <6>1
        <5>2. CASE k # 1
          <6>1. k - 1 \in 1..Len(batch'.results) /\ k - 1 \in 1..(Len(batch.results) - 1)
            BY <2>2, <2>3, <2>4, <5>2
          <6>2. batch'.results[k - 1] = batch.results[k - 1 + 1] /\ k - 1 + 1 = k
            BY <2>2, <2>4, <6>1
          <6> QED BY <4>2, <6>1, <6>2
        <5> QED BY <5>1, <5>2
      <4>3. ASSUME NEW k \in 1..Len(batch.out), batch.out[k].row = j
            PROVE  \E h \in 1..Len(batch'.out) : batch'.out[h].row = j
        <5>1. k \in 1..Len(batch'.out)
          BY <2>2, <2>3, <2>5
        <5> QED BY <2>2, <2>5, <4>3, <5>1
      <4> QED BY <1>0, <2>2, <4>1, <4>2, <4>3 DEF ResultsInv
    <3> QED BY <3>2, <3>3, <3>4 DEF ResultsInv
  <2>9. CountInv'
    <3>1. PICK o, l, c, n \in Nat :
             /\ o = Len(batch.out) /\ l = Len(batch.results) /\ c = Cardinality(batch.calling)
             /\ n = batch.next /\ o + l + c = n - 1
      BY Counts
    <3>2. o + l + c = n - 1
      BY <3>1
    <3>3. (o + 1) + (l - 1) + c = n - 1
      BY <3>2
    <3>4. /\ Len(batch'.out) = o + 1 /\ Len(batch'.results) = l - 1 /\ batch'.next = n
          /\ Cardinality(batch'.calling) = c
      BY <2>2, <2>4, <2>5, <3>1
    <3> QED BY <3>3, <3>4 DEF CountInv
  <2>10. StatusInv'
    <3>1. PICK o \in Nat, l \in Nat : o = Len(batch.out) /\ l = Len(batch.rows)
      BY <1>0, BatchShape
    <3>2. o < l /\ batch.next = Len(batch.rows) + 1
      BY <1>0, <3>1 DEF StatusInv, Collect
    <3>3. o + 1 = l \/ o + 1 < l
      BY <3>2
    <3>4. Len(q) = o + 1
      BY <2>5, <3>1
    <3> QED BY <2>2, <2>s, <3>1, <3>2, <3>3, <3>4 DEF StatusInv
  <2> QED BY <2>6, <2>7, <2>8, <2>9, <2>10 DEF BatchInv
<1> QED BY <1>1, <1>2

\* BatchInv is an inductive invariant of batch-register, for every CSV file and
\* every --parallel, while other processes work on the configuration file.
THEOREM BatchInvariant == CLISpec => []BatchInv
<1>1. CLIInit => BatchInv
  <2> SUFFICES ASSUME CLIInit PROVE BatchInv
    OBVIOUS
  <2>1. PICK rs \in RowLists :
          batch = [rows |-> rs, next |-> 1, calling |-> {}, sem |-> {}, results |-> <<>>,
                   out |-> <<>>, stored |-> {}, unanswered |-> {}, status |-> "dispatch"]
    BY DEF CLIInit, BatchInit
  <2>2. /\ batch.rows = rs /\ batch.next = 1 /\ batch.calling = {} /\ batch.sem = {}
        /\ batch.results = <<>> /\ batch.out = <<>> /\ batch.stored = {} /\ batch.unanswered = {}
        /\ batch.status = "dispatch"
    BY <2>1
  <2>3. <<>> \in Seq(RowResults) /\ Len(<<>>) = 0
    OBVIOUS
  <2>4. BatchTypeOK
    BY <2>1, <2>3 DEF BatchTypeOK
  <2>5. Cardinality({}) = 0
    BY FS_EmptySet
  <2>6. DispatchInv
    BY <2>2, <2>4, <2>5, BatchShape, CLIAssumption DEF DispatchInv
  <2>7. ResultsInv /\ CountInv /\ StatusInv
    BY <2>2, <2>3, <2>5 DEF ResultsInv, CountInv, StatusInv
  <2> QED BY <2>4, <2>6, <2>7 DEF BatchInv
<1>2. BatchInv /\ [BatchNext \/ CfgNext]_cliVars => BatchInv'
  <2> SUFFICES ASSUME BatchInv, [BatchNext \/ CfgNext]_cliVars PROVE BatchInv'
    OBVIOUS
  <2>1. CASE BatchNext
    <3>1. CASE \E i \in batch.calling : RegisterReturns(i)
      <4>1. PICK i \in batch.calling : RegisterReturns(i)
        BY <3>1
      <4>2. PICK outcm \in {"ok", "failed", "lost"} : batch' = CallReturned(i, outcm)
        BY <4>1 DEF RegisterReturns
      <4> QED BY <4>2, ReturnStep
    <3> QED BY <2>1, <3>1, BadRowStep, LaunchStep, CloseStep, CollectStep, ReleaseStep DEF BatchNext
  <2>2. ASSUME batch' = batch PROVE BatchInv'
    BY <2>2 DEF BatchInv, BatchTypeOK, DispatchInv, ResultsInv, Settled, CountInv, StatusInv
  <2>3. CASE CfgNext
    <3>1. batch' = batch
      BY <2>3 DEF CfgNext, StartCfg, Stat, LoadCfg, Rename, RenameFails, Truncate, WriteCfg, Crash, Goes
    <3> QED BY <2>2, <3>1
  <2>4. CASE UNCHANGED cliVars
    BY <2>2, <2>4 DEF cliVars
  <2> QED BY <2>1, <2>3, <2>4
<1> QED BY <1>1, <1>2, PTL DEF CLISpec

\* batch-register reports every row once it has collected everything, under its
\* own number and truthfully, keeps within its pool and never waits for a result
\* that nobody will send (batch_register.go:106-139).
THEOREM BatchTheorem == CLISpec => []BatchIsAccounted
<1>1. BatchInv => BatchIsAccounted
  <2> SUFFICES ASSUME BatchInv PROVE BatchIsAccounted
    OBVIOUS
  <2>0. BatchTypeOK /\ DispatchInv /\ ResultsInv /\ StatusInv
    BY DEF BatchInv
  <2>1. PICK o, l, c, n \in Nat :
           /\ o = Len(batch.out) /\ l = Len(batch.results) /\ c = Cardinality(batch.calling)
           /\ n = batch.next /\ o + l + c = n - 1
    BY Counts
  <2>2. PICK m \in Nat : m = Len(batch.rows)
    BY <2>0, BatchShape
  <2>3. o + l + c = n - 1
    BY <2>1
  <2>4. PoolBounded
    <3>1. PICK s \in Nat : s = Cardinality(batch.sem) /\ c <= s
      BY <2>0, <2>1, PoolFinite
    <3>2. s <= Parallel /\ Parallel \in Nat
      BY <2>0, <3>1, CLIAssumption DEF DispatchInv
    <3>3. c <= Parallel
      BY <3>1, <3>2
    <3> QED BY <2>1, <3>3 DEF PoolBounded
  <2>5. CollectorIsFed
    <3> SUFFICES ASSUME batch.status = "collect", batch.results = <<>>, batch.calling = {}
                 PROVE  FALSE
      BY DEF CollectorIsFed
    <3>1. l = 0 /\ c = 0
      BY <2>1, FS_EmptySet
    <3>2. o < m /\ n = m + 1
      BY <2>0, <2>1, <2>2 DEF StatusInv
    <3> QED BY <2>3, <3>1, <3>2
  <2>6. ReportIsTrue
    <3> SUFFICES ASSUME batch.status \in {"write", "done"}
                 PROVE  /\ {r.row : r \in {batch.out[k] : k \in 1..Len(batch.out)}} = 1..Len(batch.rows)
                        /\ \A k \in 1..Len(batch.out) :
                             batch.out[k].ok <=> batch.out[k].row \in batch.stored \ batch.unanswered
      BY DEF ReportIsTrue
    <3>1. o = m /\ n = m + 1
      BY <2>0, <2>1, <2>2 DEF StatusInv
    <3>2. l = 0 /\ c = 0
      BY <2>3, <3>1
    <3>3. batch.calling = {}
      BY <2>0, <2>1, <3>2, PoolFinite, FS_EmptySet
    <3>4. 1..(batch.next - 1) = 1..Len(batch.rows) /\ Len(batch.results) = 0
      BY <2>1, <2>2, <3>1, <3>2
    <3>5. \A k \in 1..Len(batch.out) : Settled(batch.out[k])
      BY <2>0 DEF ResultsInv
    <3>6. \A k \in 1..Len(batch.out) : batch.out[k].row \in 1..Len(batch.rows)
      BY <3>4, <3>5 DEF Settled
    <3>7. \A i \in 1..Len(batch.rows) : \E k \in 1..Len(batch.out) : batch.out[k].row = i
      <4>1. \A k \in 1..Len(batch.results) : FALSE
        BY <3>4
      <4> QED BY <2>0, <3>3, <3>4, <4>1 DEF ResultsInv
    <3>8. \A k \in 1..Len(batch.out) :
            batch.out[k].ok <=> batch.out[k].row \in batch.stored \ batch.unanswered
      BY <3>5, Zenon DEF Settled
    <3>9. {r.row : r \in {batch.out[k] : k \in 1..Len(batch.out)}} = 1..Len(batch.rows)
      <4>1. PICK D, R, out : D = 1..Len(batch.out) /\ R = 1..Len(batch.rows) /\ out = batch.out
        OBVIOUS
      <4>2. (\A k \in D : out[k].row \in R) /\ (\A i \in R : \E k \in D : out[k].row = i)
        BY <3>6, <3>7, <4>1
      <4>3. {r.row : r \in {out[k] : k \in D}} = R
        BY <4>2
      <4> QED BY <4>1, <4>3
    <3> QED BY <3>8, <3>9
  <2> QED BY <2>4, <2>5, <2>6 DEF BatchIsAccounted
<1> QED BY <1>1, BatchInvariant, PTL

-----------------------------------------------------------------------------
(* The configuration file. *)

LEMMA Files ==
  /\ NoFile # Torn /\ NoFile.file = "absent" /\ Torn.file = "empty"
  /\ \A c : Config(c).file = "yaml" /\ Config(c).fields = c
  /\ \A c : Config(c) # NoFile /\ Config(c) # Torn
  /\ \A c : LoadConfig(Config(c)) = c
  /\ LoadConfig(NoFile) = DefaultConfig /\ LoadConfig(Torn) = DefaultConfig
<1>1. NoFile.file = "absent" /\ Torn.file = "empty"
  BY DEF NoFile, Torn
<1>2. \A c : Config(c).file = "yaml" /\ Config(c).fields = c
  BY DEF Config
<1> QED BY <1>1, <1>2 DEF LoadConfig

LEMMA FilesTyped ==
  /\ NoFile \in CfgFiles /\ Torn \in CfgFiles /\ DefaultConfig \in Configs
  /\ \A c \in Configs : Config(c) \in CfgFiles
  /\ \A x \in CfgFiles : x = NoFile \/ x = Torn \/ x.file = "yaml"
  /\ \A x \in CfgFiles : LoadConfig(x) \in Configs
  /\ \A c \in Configs, f \in Fields : applyConfigSet(c, f) \in Configs
<1>1. DefaultConfig \in Configs
  BY DEF DefaultConfig, Configs
<1>2. \A c \in Configs, f \in Fields : applyConfigSet(c, f) \in Configs
  BY DEF applyConfigSet, Configs
<1>3. \A x \in CfgFiles : x = NoFile \/ x = Torn \/ \E c \in Configs : x = Config(c)
  BY DEF CfgFiles
<1>4. \A x \in CfgFiles : LoadConfig(x) \in Configs
  BY <1>1, <1>3, Files
<1> QED BY <1>1, <1>2, <1>3, <1>4, Files DEF CfgFiles

\* What the type of a command's record gives of its fields.
LEMMA RecordShape ==
  ASSUME NEW q \in CfgRecord
  PROVE  /\ q # NoCfgCommand /\ q.pc # "idle"
         /\ q.op \in CfgOps /\ q.was \in CfgFiles /\ q.bakWas \in CfgFiles /\ q.cfg \in Configs
         /\ q.then \in {"load", "end"} /\ q.now \in CfgFiles /\ q.bakNow \in CfgFiles
         /\ q.pc \in {"stat", "load", "rename", "truncate", "write", "end"}
         /\ q.op.op \in {"set", "reset", "init", "force", "use"}
         /\ q.op.op = "set" => q.op.field \in Fields
<1>1. /\ q.op \in CfgOps /\ q.was \in CfgFiles /\ q.bakWas \in CfgFiles /\ q.cfg \in Configs
      /\ q.then \in {"load", "end"} /\ q.now \in CfgFiles /\ q.bakNow \in CfgFiles
      /\ q.pc \in {"stat", "load", "rename", "truncate", "write", "end"}
  BY DEF CfgRecord
<1>2. NoCfgCommand.pc = "idle" /\ q.pc # "idle"
  BY <1>1 DEF NoCfgCommand
<1>3. \A o \in CfgOps : /\ o.op \in {"set", "reset", "init", "force", "use"}
                        /\ o.op = "set" => o.field \in Fields
  BY DEF CfgOps
<1> QED BY <1>1, <1>2, <1>3

\* A process at work has a command's record.
LEMMA Working ==
  ASSUME CfgTypeOK, NEW p \in Procs
  PROVE  /\ p \in CfgWorking <=> proc[p] \in CfgRecord /\ proc[p].pc # "end"
         /\ proc[p].pc # "idle" => proc[p] \in CfgRecord
<1>1. proc[p] \in CfgRecord \/ proc[p] = NoCfgCommand
  BY DEF CfgTypeOK
<1>2. NoCfgCommand.pc = "idle"
  BY DEF NoCfgCommand
<1> QED BY <1>1, <1>2, RecordShape DEF CfgWorking

\* A step of command p keeps CfgInv if, with nothing else going on, it leaves p
\* on its way or finished.
LEMMA GoesStep ==
  ASSUME CfgInv, NEW p \in Procs, proc[p] \in CfgRecord, proc[p].pc # "end",
         NEW rec \in CfgRecord, NEW file \in CfgFiles, NEW bak \in CfgFiles,
         Goes(p, rec, file, bak),
         ~disturbed /\ ~overlapped =>
           /\ bak # Torn /\ (file = Torn => rec.pc = "write")
           /\ rec.pc # "end" => Underway(rec)'
           /\ rec.pc = "end" => Finished([rec EXCEPT !.now = file, !.bakNow = bak])
  PROVE  CfgInv'
<1>0. CfgTypeOK /\ AloneInv
  BY DEF CfgInv
<1>s. PICK s : s = IF rec.pc = "end" THEN [rec EXCEPT !.now = file, !.bakNow = bak] ELSE rec
  OBVIOUS
<1>1. s \in CfgRecord /\ s.pc = rec.pc
  BY <1>s DEF CfgRecord
<1>2. /\ cfgFile' = file /\ bakFile' = bak /\ disturbed' = disturbed /\ overlapped' = overlapped
      /\ proc' = [proc EXCEPT ![p] = s] /\ proc'[p] = s
      /\ \A r \in Procs : r # p => proc'[r] = proc[r]
  BY <1>0, <1>s DEF Goes, CfgTypeOK
<1>3. CfgTypeOK'
  BY <1>0, <1>1, <1>2 DEF CfgTypeOK
<1>4. ASSUME ~disturbed, ~overlapped
      PROVE  /\ bakFile' # Torn
             /\ cfgFile' = Torn => \E r \in CfgWorking' : proc'[r].pc = "write"
             /\ \A r, t \in CfgWorking' : r = t
             /\ \A r \in CfgWorking' : Underway(proc[r])'
             /\ \A r \in Procs : proc'[r].pc = "end" => Finished(proc[r])'
  <2>1. p \in CfgWorking /\ \A r \in CfgWorking : r = p
    BY <1>0, <1>4, Working DEF AloneInv
  <2>2. \A r \in CfgWorking' : r = p
    <3>1. \A r \in Procs : r # p => (r \in CfgWorking' <=> r \in CfgWorking)
      BY <1>2 DEF CfgWorking
    <3>2. CfgWorking' \subseteq Procs
      BY DEF CfgWorking
    <3> QED BY <2>1, <3>1, <3>2
  <2>3. p \in CfgWorking' <=> s.pc # "end"
    BY <1>1, <1>2, RecordShape DEF CfgWorking
  <2>4. ASSUME NEW r \in CfgWorking' PROVE Underway(proc[r])'
    <3>1. r = p /\ proc'[r] = s /\ s.pc # "end" /\ s = rec
      BY <1>1, <1>2, <1>s, <2>2, <2>3, <2>4
    <3>2. Underway(rec)'
      BY <1>1, <1>4, <3>1
    <3> QED BY <3>1, <3>2 DEF Underway
  <2>5. ASSUME NEW r \in Procs, proc'[r].pc = "end" PROVE Finished(proc[r])'
    <3>1. PICK x : x = proc'[r]
      OBVIOUS
    <3>2. CASE r = p
      <4>1. Finished(x)
        BY <1>1, <1>2, <1>4, <1>s, <2>5, <3>1, <3>2
      <4> QED BY <3>1, <4>1 DEF Finished
    <3>3. CASE r # p
      <4>1. Finished(x)
        BY <1>0, <1>2, <1>4, <2>5, <3>1, <3>3 DEF AloneInv
      <4> QED BY <3>1, <4>1 DEF Finished
    <3> QED BY <3>2, <3>3
  <2>6. cfgFile' = Torn => \E r \in CfgWorking' : proc'[r].pc = "write"
    BY <1>1, <1>2, <1>4, <2>3
  <2> QED BY <1>2, <1>4, <2>2, <2>4, <2>5, <2>6
<1>5. AloneInv'
  BY <1>2, <1>4 DEF AloneInv
<1> QED BY <1>3, <1>5 DEF CfgInv

\* A command that is alone and at work is on its way.
LEMMA OnItsWay ==
  ASSUME CfgInv, NEW p \in Procs, proc[p] \in CfgRecord, proc[p].pc # "end", ~disturbed, ~overlapped
  PROVE  /\ Underway(proc[p]) /\ bakFile # Torn
         /\ cfgFile = Torn => proc[p].pc = "write"
<1>1. p \in CfgWorking /\ CfgTypeOK /\ AloneInv
  BY Working DEF CfgInv
<1> QED BY <1>1 DEF AloneInv

\* ensureConfigFile looks whether the file is there.
LEMMA StatStep ==
  ASSUME CfgInv, NEW p \in Procs, Stat(p)
  PROVE  CfgInv'
<1>0. CfgTypeOK
  BY DEF CfgInv
<1>q. PICK q \in CfgRecord : q = proc[p] /\ q.pc = "stat"
  BY <1>0, Working DEF Stat
<1>1. PICK file \in CfgFiles, bak \in CfgFiles : file = cfgFile /\ bak = bakFile
  BY <1>0 DEF CfgTypeOK
<1>2. PICK rec : rec = IF file = NoFile
             THEN [q EXCEPT !.pc = "truncate",
                            !.then = IF q.op.op = "set" THEN "load" ELSE "end"]
             ELSE [q EXCEPT !.pc = IF q.op.op = "set" THEN "load" ELSE "end"]
  OBVIOUS
<1>3. Goes(p, rec, file, bak)
  BY <1>1, <1>2, <1>q DEF Stat
<1>4. /\ rec \in CfgRecord /\ rec.op = q.op /\ rec.was = q.was /\ rec.bakWas = q.bakWas
      /\ rec.cfg = q.cfg
      /\ rec.pc = IF file = NoFile THEN "truncate" ELSE IF q.op.op = "set" THEN "load" ELSE "end"
      /\ rec.then = IF file = NoFile THEN IF q.op.op = "set" THEN "load" ELSE "end" ELSE q.then
  BY <1>2 DEF CfgRecord
<1>5. ASSUME ~disturbed, ~overlapped
      PROVE  /\ bak # Torn /\ (file = Torn => rec.pc = "write")
             /\ rec.pc # "end" => Underway(rec)'
             /\ rec.pc = "end" => Finished([rec EXCEPT !.now = file, !.bakNow = bak])
  <2>1. Underway(q) /\ bak # Torn /\ file # Torn
    BY <1>1, <1>5, <1>q, OnItsWay
  <2>2. /\ file = q.was /\ bak = q.bakWas /\ q.op.op \in {"set", "init"} /\ q.cfg = DefaultConfig
    BY <1>1, <1>q, <2>1 DEF Underway
  <2>3. cfgFile' = file /\ bakFile' = bak
    BY <1>3 DEF Goes
  <2>4. rec.pc # "end" => Underway(rec)'
    BY <1>4, <2>1, <2>2, <2>3, Files DEF Underway
  <2>5. rec.pc = "end" => Finished([rec EXCEPT !.now = file, !.bakNow = bak])
    <3> SUFFICES ASSUME rec.pc = "end" PROVE Finished([rec EXCEPT !.now = file, !.bakNow = bak])
      OBVIOUS
    <3>1. PICK z : z = [rec EXCEPT !.now = file, !.bakNow = bak]
      OBVIOUS
    <3>2. z.op = q.op /\ z.now = file /\ z.bakNow = bak /\ z.bakWas = q.bakWas
      BY <1>4, <3>1 DEF CfgRecord
    <3>3. q.op.op = "init" /\ file.file = "yaml"
      BY <1>4, <2>1, <2>2, FilesTyped
    <3>4. Finished(z)
      BY <2>2, <3>2, <3>3 DEF Finished
    <3> QED BY <3>1, <3>4
  <2> QED BY <2>1, <2>4, <2>5
<1> QED BY <1>3, <1>4, <1>5, <1>q, GoesStep

\* LoadConfig, and for `set' the field it changes.
LEMMA LoadStep ==
  ASSUME CfgInv, NEW p \in Procs, LoadCfg(p)
  PROVE  CfgInv'
<1>0. CfgTypeOK
  BY DEF CfgInv
<1>q. PICK q \in CfgRecord : q = proc[p] /\ q.pc = "load"
  BY <1>0, Working DEF LoadCfg
<1>1. PICK file \in CfgFiles, bak \in CfgFiles : file = cfgFile /\ bak = bakFile
  BY <1>0 DEF CfgTypeOK
<1>c. PICK c \in Configs : c = LoadConfig(file)
  BY FilesTyped
<1>d. PICK d : d = applyConfigSet(c, q.op.field)
  OBVIOUS
<1>2. PICK rec : rec = IF q.op.op = "set"
             THEN [q EXCEPT !.cfg = d, !.pc = "truncate", !.then = "end"]
             ELSE [q EXCEPT !.cfg = c, !.pc = "end"]
  OBVIOUS
<1>3. Goes(p, rec, file, bak)
  BY <1>1, <1>2, <1>c, <1>d, <1>q DEF LoadCfg
<1>4. q.op.op = "set" => d \in Configs
  BY <1>d, FilesTyped, RecordShape
<1>5. /\ rec \in CfgRecord /\ rec.op = q.op /\ rec.was = q.was /\ rec.bakWas = q.bakWas
      /\ rec.cfg = IF q.op.op = "set" THEN d ELSE c
      /\ rec.pc = IF q.op.op = "set" THEN "truncate" ELSE "end"
      /\ q.op.op = "set" => rec.then = "end"
  BY <1>2, <1>4 DEF CfgRecord
<1>6. ASSUME ~disturbed, ~overlapped
      PROVE  /\ bak # Torn /\ (file = Torn => rec.pc = "write")
             /\ rec.pc # "end" => Underway(rec)'
             /\ rec.pc = "end" => Finished([rec EXCEPT !.now = file, !.bakNow = bak])
  <2>1. Underway(q) /\ bak # Torn /\ file # Torn
    BY <1>1, <1>6, <1>q, OnItsWay
  <2>2. c = LoadConfig(q.was) /\ bak = q.bakWas /\ q.op.op \in {"set", "use"} /\ q.was # Torn
    BY <1>1, <1>c, <1>q, <2>1 DEF Underway
  <2>3. cfgFile' = file /\ bakFile' = bak
    BY <1>3 DEF Goes
  <2>4. rec.pc # "end" => Underway(rec)'
    BY <1>5, <1>d, <2>2, <2>3 DEF Underway
  <2>5. rec.pc = "end" => Finished([rec EXCEPT !.now = file, !.bakNow = bak])
    <3> SUFFICES ASSUME rec.pc = "end" PROVE Finished([rec EXCEPT !.now = file, !.bakNow = bak])
      OBVIOUS
    <3>1. PICK z : z = [rec EXCEPT !.now = file, !.bakNow = bak]
      OBVIOUS
    <3>2. z.op = q.op /\ z.cfg = c /\ z.was = q.was /\ q.op.op = "use"
      BY <1>5, <2>2, <3>1 DEF CfgRecord
    <3>3. Finished(z)
      BY <2>2, <3>2 DEF Finished
    <3> QED BY <3>1, <3>3
  <2> QED BY <2>1, <2>4, <2>5
<1> QED BY <1>3, <1>5, <1>6, <1>q, GoesStep

\* os.Rename of reset.
LEMMA RenameStep ==
  ASSUME CfgInv, NEW p \in Procs, Rename(p)
  PROVE  CfgInv'
<1>0. CfgTypeOK
  BY DEF CfgInv
<1>q. PICK q \in CfgRecord : q = proc[p] /\ q.pc = "rename"
  BY <1>0, Working DEF Rename
<1>1. PICK file \in CfgFiles, bak \in CfgFiles :
        file = NoFile /\ bak = IF cfgFile = NoFile THEN bakFile ELSE cfgFile
  BY <1>0, FilesTyped DEF CfgTypeOK
<1>2. PICK rec : rec = [q EXCEPT !.pc = "truncate"]
  OBVIOUS
<1>3. Goes(p, rec, file, bak)
  BY <1>1, <1>2, <1>q DEF Rename
<1>4. /\ rec \in CfgRecord /\ rec.op = q.op /\ rec.was = q.was /\ rec.bakWas = q.bakWas
      /\ rec.cfg = q.cfg /\ rec.then = q.then /\ rec.pc = "truncate"
  BY <1>2 DEF CfgRecord
<1>5. ASSUME ~disturbed, ~overlapped
      PROVE  bak # Torn /\ file # Torn /\ Underway(rec)'
  <2>1. Underway(q) /\ bakFile # Torn /\ cfgFile # Torn
    BY <1>5, <1>q, OnItsWay
  <2>2. /\ cfgFile = q.was /\ bakFile = q.bakWas /\ q.was # Torn
        /\ q.op.op = "reset" /\ q.cfg = DefaultConfig /\ q.then = "end"
    BY <1>q, <2>1 DEF Underway
  <2>3. cfgFile' = file /\ bakFile' = bak
    BY <1>3 DEF Goes
  <2> QED BY <1>1, <1>4, <2>1, <2>2, <2>3, Files DEF Underway
<1> QED BY <1>3, <1>4, <1>5, <1>q, GoesStep

\* os.WriteFile opens the file with O_TRUNC.
LEMMA TruncateStep ==
  ASSUME CfgInv, NEW p \in Procs, Truncate(p)
  PROVE  CfgInv'
<1>0. CfgTypeOK
  BY DEF CfgInv
<1>q. PICK q \in CfgRecord : q = proc[p] /\ q.pc = "truncate"
  BY <1>0, Working DEF Truncate
<1>1. PICK file \in CfgFiles, bak \in CfgFiles : file = Torn /\ bak = bakFile
  BY <1>0, FilesTyped DEF CfgTypeOK
<1>2. PICK rec : rec = [q EXCEPT !.pc = "write"]
  OBVIOUS
<1>3. Goes(p, rec, file, bak)
  BY <1>1, <1>2, <1>q DEF Truncate
<1>4. /\ rec \in CfgRecord /\ rec.op = q.op /\ rec.was = q.was /\ rec.bakWas = q.bakWas
      /\ rec.cfg = q.cfg /\ rec.then = q.then /\ rec.pc = "write"
  BY <1>2 DEF CfgRecord
<1>5. ASSUME ~disturbed, ~overlapped
      PROVE  bak # Torn /\ Underway(rec)'
  <2>1. Underway(q) /\ bakFile # Torn
    BY <1>5, <1>q, OnItsWay
  <2>2. cfgFile' = file /\ bakFile' = bak
    BY <1>3 DEF Goes
  <2> QED BY <1>1, <1>4, <1>q, <2>1, <2>2 DEF Underway
<1> QED BY <1>3, <1>4, <1>5, <1>q, GoesStep

\* os.WriteFile writes the file.
LEMMA WriteStep ==
  ASSUME CfgInv, NEW p \in Procs, WriteCfg(p)
  PROVE  CfgInv'
<1>0. CfgTypeOK
  BY DEF CfgInv
<1>q. PICK q \in CfgRecord : q = proc[p] /\ q.pc = "write"
  BY <1>0, Working DEF WriteCfg
<1>1. PICK file \in CfgFiles, bak \in CfgFiles : file = Config(q.cfg) /\ bak = bakFile
  BY <1>0, FilesTyped, RecordShape DEF CfgTypeOK
<1>2. PICK rec : rec = [q EXCEPT !.pc = q.then]
  OBVIOUS
<1>3. Goes(p, rec, file, bak)
  BY <1>1, <1>2, <1>q DEF WriteCfg
<1>4. /\ rec \in CfgRecord /\ rec.op = q.op /\ rec.was = q.was /\ rec.bakWas = q.bakWas
      /\ rec.cfg = q.cfg /\ rec.then = q.then /\ rec.pc = q.then
  BY <1>2 DEF CfgRecord
<1>5. ASSUME ~disturbed, ~overlapped
      PROVE  /\ bak # Torn /\ file # Torn
             /\ rec.pc # "end" => Underway(rec)'
             /\ rec.pc = "end" => Finished([rec EXCEPT !.now = file, !.bakNow = bak])
  <2>1. Underway(q) /\ bak # Torn
    BY <1>1, <1>5, <1>q, OnItsWay
  <2>2. /\ cfgFile' = file /\ bakFile' = bak /\ file # Torn /\ file.file = "yaml"
        /\ LoadConfig(file) = q.cfg
    BY <1>1, <1>3, Files DEF Goes
  <2>3. /\ bak = IF q.op.op = "reset" /\ q.was # NoFile THEN q.was ELSE q.bakWas
        /\ q.was # Torn
        /\ q.op.op = "set" /\ q.then = "load" => q.cfg = LoadConfig(q.was)
        /\ q.op.op = "set" /\ q.then = "end" =>
             q.cfg = applyConfigSet(LoadConfig(q.was), q.op.field)
        /\ q.op.op = "reset" => q.then = "end" /\ q.cfg = DefaultConfig
        /\ q.op.op \notin {"set", "reset"} => q.then = "end" /\ q.op.op \in {"init", "force"}
    BY <1>1, <1>q, <2>1 DEF Underway
  <2>4. q.then \in {"load", "end"}
    BY RecordShape
  <2>5. rec.pc # "end" => Underway(rec)'
    BY <1>4, <2>2, <2>3, <2>4 DEF Underway
  <2>6. rec.pc = "end" => Finished([rec EXCEPT !.now = file, !.bakNow = bak])
    <3> SUFFICES ASSUME rec.pc = "end" PROVE Finished([rec EXCEPT !.now = file, !.bakNow = bak])
      OBVIOUS
    <3>1. PICK z : z = [rec EXCEPT !.now = file, !.bakNow = bak]
      OBVIOUS
    <3>2. /\ z.op = q.op /\ z.was = q.was /\ z.bakWas = q.bakWas /\ z.now = file
          /\ z.bakNow = bak
      BY <1>4, <3>1 DEF CfgRecord
    <3>3. Finished(z)
      BY <1>1, <1>4, <2>2, <2>3, <3>2 DEF Finished
    <3> QED BY <3>1, <3>3
  <2> QED BY <2>1, <2>2, <2>5, <2>6
<1> QED BY <1>3, <1>4, <1>5, <1>q, GoesStep

\* A command starts.
LEMMA StartStep ==
  ASSUME CfgInv, NEW p \in Procs, StartCfg(p)
  PROVE  CfgInv'
<1>0. CfgTypeOK /\ AloneInv
  BY DEF CfgInv
<1>o. PICK o \in CfgOps :
       proc' = [proc EXCEPT ![p] =
                  [op |-> o, was |-> cfgFile, bakWas |-> bakFile, cfg |-> DefaultConfig,
                   then |-> "end", now |-> NoFile, bakNow |-> NoFile,
                   pc |-> CASE o.op = "set" -> "stat" [] o.op = "reset" -> "rename"
                            [] o.op = "use" -> "load" [] o.op = "force" -> "truncate"
                            [] OTHER -> "stat"]]
  BY DEF StartCfg
<1>c. PICK pc \in {"stat", "rename", "load", "truncate"} :
        pc = CASE o.op = "set" -> "stat" [] o.op = "reset" -> "rename"
               [] o.op = "use" -> "load" [] o.op = "force" -> "truncate"
               [] OTHER -> "stat"
  OBVIOUS
<1>f. PICK file \in CfgFiles, bak \in CfgFiles : file = cfgFile /\ bak = bakFile
  BY <1>0 DEF CfgTypeOK
<1>s. PICK s : s = [op |-> o, was |-> file, bakWas |-> bak, cfg |-> DefaultConfig,
                    then |-> "end", now |-> NoFile, bakNow |-> NoFile, pc |-> pc]
  OBVIOUS
<1>1. /\ s \in CfgRecord /\ s.op = o /\ s.was = file /\ s.bakWas = bak /\ s.cfg = DefaultConfig
      /\ s.then = "end" /\ s.pc = pc
  BY <1>s, FilesTyped DEF CfgRecord
<1>2. /\ cfgFile' = file /\ bakFile' = bak /\ disturbed' = disturbed
      /\ overlapped' = (overlapped \/ CfgWorking # {})
      /\ proc' = [proc EXCEPT ![p] = s] /\ proc'[p] = s
      /\ \A r \in Procs : r # p => proc'[r] = proc[r]
  BY <1>0, <1>o, <1>c, <1>f, <1>s DEF StartCfg, CfgTypeOK
<1>3. CfgTypeOK'
  BY <1>0, <1>1, <1>2 DEF CfgTypeOK
<1>4. ASSUME ~disturbed', ~overlapped'
      PROVE  /\ bakFile' # Torn /\ cfgFile' # Torn
             /\ \A r \in CfgWorking' : r = p /\ Underway(proc[r])'
             /\ \A r \in Procs : proc'[r].pc = "end" => Finished(proc[r])'
  <2>1. ~disturbed /\ ~overlapped /\ CfgWorking = {}
    BY <1>2, <1>4
  <2>2. bakFile # Torn /\ cfgFile # Torn
    BY <1>0, <2>1 DEF AloneInv
  <2>3. ASSUME NEW r \in CfgWorking' PROVE r = p
    <3>1. r \in Procs /\ (r # p => r \in CfgWorking)
      BY <1>2, <2>3 DEF CfgWorking
    <3> QED BY <2>1, <3>1
  <2>4. o.op \in {"set", "reset", "init", "force", "use"}
    BY <1>1, RecordShape
  <2>5. Underway(s)'
    BY <1>1, <1>2, <1>c, <1>f, <2>2, <2>4, Files DEF Underway
  <2>6. ASSUME NEW r \in CfgWorking' PROVE Underway(proc[r])'
    BY <1>2, <2>3, <2>5 DEF Underway
  <2>7. ASSUME NEW r \in Procs, proc'[r].pc = "end" PROVE Finished(proc[r])'
    <3>1. PICK x : x = proc'[r]
      OBVIOUS
    <3>2. r # p
      BY <1>1, <1>2, <2>7
    <3>3. Finished(x)
      BY <1>0, <1>2, <2>1, <2>7, <3>1, <3>2 DEF AloneInv
    <3> QED BY <3>1, <3>3 DEF Finished
  <2> QED BY <1>2, <1>f, <2>2, <2>3, <2>6, <2>7
<1>5. AloneInv'
  <2>1. CASE disturbed' \/ overlapped'
    BY <2>1 DEF AloneInv
  <2>2. CASE ~disturbed' /\ ~overlapped'
    <3>1. \A r, t \in CfgWorking' : r = t
      BY <1>4, <2>2
    <3> QED BY <1>4, <2>2, <3>1 DEF AloneInv
  <2> QED BY <2>1, <2>2
<1> QED BY <1>3, <1>5 DEF CfgInv

\* A crash, or a rename that fails: from then on nothing is promised.
LEMMA FaultStep ==
  ASSUME CfgInv, NEW p \in Procs, RenameFails(p) \/ Crash(p)
  PROVE  CfgInv'
<1>0. CfgTypeOK
  BY DEF CfgInv
<1>1. CfgTypeOK'
  <2>1. CASE Crash(p)
    BY <1>0, <2>1 DEF Crash, CfgTypeOK
  <2>2. CASE RenameFails(p)
    <3>1. PICK q \in CfgRecord : q = proc[p] /\ q.pc = "rename"
      BY <1>0, <2>2, Working DEF RenameFails
    <3>2. PICK s : s = [q EXCEPT !.pc = "truncate"]
      OBVIOUS
    <3>3. s \in CfgRecord
      BY <3>2 DEF CfgRecord
    <3>4. proc' = [proc EXCEPT ![p] = s] /\ cfgFile' = cfgFile /\ bakFile' = bakFile
      BY <2>2, <3>1, <3>2 DEF RenameFails
    <3> QED BY <1>0, <3>3, <3>4 DEF CfgTypeOK
  <2> QED BY <2>1, <2>2
<1>2. AloneInv'
  BY DEF AloneInv, RenameFails, Crash
<1> QED BY <1>1, <1>2 DEF CfgInv

\* CfgInv is an inductive invariant of the commands on the configuration file,
\* for any number of processes, commands and fields.
THEOREM CfgInvariant == CLISpec => []CfgInv
<1>1. CLIInit => CfgInv
  <2> SUFFICES ASSUME CLIInit PROVE CfgInv
    OBVIOUS
  <2>1. [f \in Fields |-> "set"] \in Configs
    BY DEF Configs
  <2>2. /\ cfgFile \in CfgFiles /\ cfgFile # Torn /\ bakFile = NoFile
        /\ proc = [p \in Procs |-> NoCfgCommand]
    BY <2>1, FilesTyped, Files DEF CLIInit, CfgInit
  <2>3. CfgTypeOK
    BY <2>2, FilesTyped DEF CfgTypeOK
  <2>4. NoCfgCommand.pc = "idle"
    BY DEF NoCfgCommand
  <2>5. (\A p \in Procs : proc[p].pc = "idle") /\ CfgWorking = {}
    BY <2>2, <2>4 DEF CfgWorking
  <2>6. AloneInv
    BY <2>2, <2>5, Files DEF AloneInv
  <2> QED BY <2>3, <2>6 DEF CfgInv
<1>2. CfgInv /\ [BatchNext \/ CfgNext]_cliVars => CfgInv'
  <2> SUFFICES ASSUME CfgInv, [BatchNext \/ CfgNext]_cliVars PROVE CfgInv'
    OBVIOUS
  <2>1. ASSUME UNCHANGED cfgVars PROVE CfgInv'
    BY <2>1 DEF cfgVars, CfgInv, CfgTypeOK, AloneInv, CfgWorking, Underway, Finished
  <2>2. CASE BatchNext
    <3>1. UNCHANGED cfgVars
      BY <2>2 DEF BatchNext, rowToRequest, Launch, CloseSem, Collect, writeBatchOutput,
                  RegisterReturns, Release
    <3> QED BY <2>1, <3>1
  <2>3. CASE CfgNext
    <3>1. PICK p \in Procs : StartCfg(p) \/ Stat(p) \/ LoadCfg(p) \/ Rename(p)
                             \/ RenameFails(p) \/ Truncate(p) \/ WriteCfg(p) \/ Crash(p)
      BY <2>3 DEF CfgNext
    <3> QED BY <3>1, StartStep, StatStep, LoadStep, RenameStep, FaultStep, TruncateStep, WriteStep
  <2>4. CASE UNCHANGED cliVars
    BY <2>1, <2>4 DEF cliVars
  <2> QED BY <2>2, <2>3, <2>4
<1> QED BY <1>1, <1>2, PTL DEF CLISpec

\* A command on the configuration file that neither overlaps another nor fails
\* has the effect of one atomic step, and the backup is whole unless a crash or
\* another command came in between (config_cmd.go:107-134).
THEOREM ConfigTheorem == CLISpec => []ConfigIsSafe
<1>1. CfgInv => ConfigIsSafe
  <2> SUFFICES ASSUME CfgInv PROVE ConfigIsSafe
    OBVIOUS
  <2>1. BackupIsWhole
    BY DEF CfgInv, AloneInv, BackupIsWhole
  <2>2. ASSUME ~disturbed, ~overlapped, NEW p \in Procs, proc[p].pc = "end"
        PROVE  Finished(proc[p])
    BY <2>2 DEF CfgInv, AloneInv
  <2>3. AloneIsAtomic
    BY <2>2 DEF AloneIsAtomic, Finished
  <2> QED BY <2>1, <2>3 DEF ConfigIsSafe
<1> QED BY <1>1, CfgInvariant, PTL

-----------------------------------------------------------------------------
(* Gateway. *)

\* The least of a set of positions.
LEMMA LeastOf ==
  ASSUME NEW T \in SUBSET Nat, T # {}
  PROVE  Min(T) \in T /\ \A y \in T : Min(T) <= y
<1>1. PICK x \in T : \A y \in T : ~ (<<y, x>> \in OpToRel(<, Nat))
  BY NatLessThanWellFounded, WFMin
<1>2. ASSUME NEW y \in T PROVE x <= y
  <2>1. x \in Nat /\ y \in Nat
    OBVIOUS
  <2>2. ~(y < x)
    BY <1>1, <2>1 DEF OpToRel
  <2> QED BY <2>1, <2>2
<1> QED BY <1>2 DEF Min

\* Which middleware answers: the first that wants to.
LEMMA ThenFacts ==
  ASSUME NEW mws \in Seq(Middlewares), NEW q
  PROVE  LET i == Then(mws, q) IN
         /\ i = 0 => \A j \in DOMAIN mws : Answers(mws[j], q) = 0
         /\ i # 0 => /\ i \in DOMAIN mws /\ Answers(mws[i], q) # 0
                     /\ \A j \in DOMAIN mws : j < i => Answers(mws[j], q) = 0
         /\ i \in Nat
<1> DEFINE I == {j \in 1..Len(mws) : Answers(mws[j], q) # 0}
<1>1. Then(mws, q) = IF I # {} THEN Min(I) ELSE 0
  BY DEF Then, SelectInSeq
<1>2. DOMAIN mws = 1..Len(mws) /\ I \subseteq Nat
  OBVIOUS
<1>3. CASE I = {}
  BY <1>1, <1>2, <1>3
<1>4. CASE I # {}
  <2>1. Min(I) \in I /\ \A y \in I : Min(I) <= y
    BY <1>2, <1>4, LeastOf
  <2>2. Then(mws, q) = Min(I)
    BY <1>1, <1>4
  <2> HIDE DEF I
  <2>3. Then(mws, q) \in I /\ \A y \in I : Then(mws, q) <= y
    BY <2>1, <2>2
  <2> QED BY <1>2, <2>3 DEF I
<1> QED BY <1>3, <1>4

\* Where a middleware stands.
LEMMA AtFacts ==
  ASSUME GwTypeOK, NEW m
  PROVE  At(m) \in Nat
<1> DEFINE I == {j \in 1..Len(mw) : mw[j] = m}
<1>1. At(m) = IF I # {} THEN Min(I) ELSE 0
  BY DEF At, SelectInSeq
<1>2. mw \in Seq(Middlewares)
  BY ChainsAssumption DEF GwTypeOK
<1>3. I \subseteq Nat
  BY <1>2
<1>4. I # {} => Min(I) \in Nat
  BY <1>3, LeastOf
<1> HIDE DEF I
<1> QED BY <1>1, <1>4

\* A middleware that answers never says that something was done, but to a preflight.
LEMMA AnswersRefuse ==
  ASSUME NEW m, NEW q
  PROVE  /\ Answers(m, q) \in {0, 204, 308, 401, 403}
         /\ Answers(m, q) = 204 => m = "cors" /\ q.method = "OPTIONS"
BY DEF Answers, CORS, UABlock, APIKey, AAP, TLS

\* Whatever is asked for, and however the service call ends, the mux answers.
LEMMA HandleAnswers ==
  ASSUME NEW q, NEW e
  PROVE  Handle(q, e) # 0
<1> DEFINE r == route(q.path)
<1>1. r \in {"live", "ready", "metrics", "register", "redirect", "agent", "pprof", "none"}
  BY DEF route
<1>2. writeServiceError(e) \in {504, 499, 400, 409, 422, 502, 500}
  BY DEF writeServiceError
<1>3. Live = 200 /\ Ready(e) \in {200, 503} /\ Register(q, e) # 0 /\ withBody(q, e) # 0 /\ getInfo(q, e) # 0
  BY <1>2 DEF Live, Ready, Register, withBody, getInfo
<1>4. CASE r = "agent"
  <2>1. Handle(q, e) \in {400, 404, 503, getInfo(q, e), withBody(q, e)}
    BY <1>4 DEF Handle
  <2> QED BY <1>3, <2>1
<1>5. CASE r # "agent"
  BY <1>1, <1>3, <1>5 DEF Handle
<1> QED BY <1>4, <1>5

\* The paths of the API, by what the router makes of them.
LEMMA RouteOf ==
  /\ route(agentsPath) = "redirect"
  /\ \A u : u # "register" => route(AgentPath(u)) = "agent"
  /\ \A u, op : route(AgentOp(u, op)) = "agent"
<1>1. route(agentsPath) = "redirect"
  <2>1. agentsPath[1] = "api" /\ Len(agentsPath) = 3
    BY DEF agentsPath
  <2>2. Len(<<"live">>) = 1 /\ Len(<<"readyz">>) = 1 /\ Len(<<"ready">>) = 1 /\ Len(<<"healthz">>) = 1
        /\ Len(<<"metrics">>) = 1 /\ Len(AgentPath("register")) = 4
    BY DEF AgentPath
  <2> QED BY <2>1, <2>2 DEF route, UnderAgents
<1>2. ASSUME NEW u, u # "register" PROVE route(AgentPath(u)) = "agent"
  <2>1. /\ AgentPath(u)[1] = "api" /\ AgentPath(u)[2] = "v2" /\ AgentPath(u)[3] = "agents"
        /\ AgentPath(u)[4] = u /\ Len(AgentPath(u)) = 4
    BY DEF AgentPath
  <2> QED BY <1>2, <2>1 DEF route, UnderAgents, AgentPath, agentsPath
<1>3. ASSUME NEW u, NEW op PROVE route(AgentOp(u, op)) = "agent"
  <2>1. /\ AgentOp(u, op)[1] = "api" /\ AgentOp(u, op)[2] = "v2" /\ AgentOp(u, op)[3] = "agents"
        /\ Len(AgentOp(u, op)) = 5
    BY DEF AgentOp
  <2> QED BY <2>1 DEF route, UnderAgents, AgentPath, agentsPath
<1> QED BY <1>1, <1>2, <1>3

\* AgentByPath on them.
LEMMA OperationOf ==
  ASSUME NEW q, NEW u, u # EmptySegment
  PROVE  /\ q.path = AgentPath(u) => AgentByPath(q) = IF q.method = "GET" THEN "info" ELSE "not found"
         /\ \A op : q.path = AgentOp(u, op) =>
              AgentByPath(q) = IF q.method = "POST" /\ op \in {"upgrade", "check", "ban", "unban", "revoke"}
                               THEN op ELSE "not found"
<1>1. AgentPath(u)[4] = u /\ Len(AgentPath(u)) = 4
  BY DEF AgentPath
<1>2. \A op : AgentOp(u, op)[4] = u /\ AgentOp(u, op)[5] = op /\ Len(AgentOp(u, op)) = 5
  BY DEF AgentOp
<1>3. ASSUME q.path = AgentPath(u)
      PROVE  AgentByPath(q) = IF q.method = "GET" THEN "info" ELSE "not found"
  <2>1. q.path[4] = u /\ Len(q.path) = 4 /\ Len(q.path) # 5
    BY <1>1, <1>3
  <2>2. CASE q.method = "GET"
    BY <2>1, <2>2 DEF AgentByPath
  <2>3. CASE q.method # "GET"
    BY <2>1, <2>3 DEF AgentByPath
  <2> QED BY <2>2, <2>3
<1>4. ASSUME NEW op, q.path = AgentOp(u, op)
      PROVE  AgentByPath(q) = IF q.method = "POST" /\ op \in {"upgrade", "check", "ban", "unban", "revoke"}
                              THEN op ELSE "not found"
  <2>1. q.path[4] = u /\ q.path[5] = op /\ Len(q.path) = 5 /\ Len(q.path) # 4
    BY <1>2, <1>4
  <2>2. CASE q.method = "POST" /\ op \in {"upgrade", "check", "ban", "unban", "revoke"}
    BY <2>1, <2>2 DEF AgentByPath
  <2>3. CASE ~(q.method = "POST" /\ op \in {"upgrade", "check", "ban", "unban", "revoke"})
    BY <2>1, <2>3 DEF AgentByPath
  <2> QED BY <2>2, <2>3
<1> QED BY <1>3, <1>4

\* What the gateway answers with success of what the remote CLI sends, its
\* service has done, but for the question whether it is healthy.
LEMMA CommandAnswers ==
  ASSUME NEW c \in Commands, NEW q \in {Sends(c), Followed}, NEW e \in OutcomesOf(q), e # "panic",
         doJSON(Handle(q, e))
  PROVE  c = "health" \/ (e = "ok" /\ Calls(q) = c)
<1>1. /\ "a" # EmptySegment /\ EmptySegment # "register" /\ "batch" # EmptySegment
  BY Zenon DEF EmptySegment
<1>2. writeServiceError(e) \in {504, 499, 400, 409, 422, 502, 500}
  BY DEF writeServiceError
<1>3. \A m, p, b : /\ HTTPRequest(m, p, b).method = m /\ HTTPRequest(m, p, b).path = p
                   /\ HTTPRequest(m, p, b).body = b
  BY DEF HTTPRequest
<1>4. CASE q = Followed
  <2>1. q.path = AgentPath(EmptySegment)
    BY <1>3, <1>4 DEF Followed
  <2>2. AgentPath(EmptySegment)[4] = EmptySegment
    BY DEF AgentPath
  <2>3. AgentByPath(q) = "missing uuid" /\ route(q.path) = "agent"
    BY <1>1, <2>1, <2>2, RouteOf DEF AgentByPath
  <2>4. Handle(q, e) = 400
    BY <2>3 DEF Handle
  <2> QED BY <2>4 DEF doJSON
<1>5. CASE q = Sends(c)
  <2>1. CASE c = "register"
    <3>1. q.path = agentsPath
      BY <1>3, <1>5, <2>1 DEF Sends
    <3>2. Handle(q, e) = 301
      BY <3>1, RouteOf DEF Handle
    <3> QED BY <3>2 DEF doJSON
  <2>2. CASE c = "info"
    <3>1. q.path = AgentPath("a") /\ q.method = "GET"
      BY <1>3, <1>5, <2>2 DEF Sends
    <3>2. route(q.path) = "agent" /\ AgentByPath(q) = "info"
      BY <1>1, <3>1, RouteOf, OperationOf
    <3>3. CASE Unavailable("info")
      <4>1. Handle(q, e) = 503
        BY <3>2, <3>3 DEF Handle
      <4> QED BY <4>1 DEF doJSON
    <3>4. CASE ~Unavailable("info")
      <4>1. Handle(q, e) = getInfo(q, e) /\ Calls(q) = "info"
        BY <3>2, <3>4 DEF Handle, Calls
      <4> QED BY <1>2, <2>2, <4>1 DEF getInfo, doJSON
    <3> QED BY <3>3, <3>4
  <2>3. CASE c \in {"upgrade", "ban", "unban"}
    <3>1. /\ q.path = AgentOp("a", c) /\ q.method = "POST"
          /\ q.body = CASE c = "upgrade" -> "level" [] c = "ban" -> "reason" [] c = "unban" -> "none"
      <4>1. CASE c = "upgrade"
        BY <1>3, <1>5, <4>1 DEF Sends
      <4>2. CASE c = "ban"
        BY <1>3, <1>5, <4>2 DEF Sends
      <4>3. CASE c = "unban"
        BY <1>3, <1>5, <4>3 DEF Sends
      <4> QED BY <2>3, <4>1, <4>2, <4>3
    <3>2. route(q.path) = "agent" /\ AgentByPath(q) = c
      <4>1. c \in {"upgrade", "check", "ban", "unban", "revoke"}
        BY <2>3
      <4>2. AgentByPath(q) = IF q.method = "POST" /\ c \in {"upgrade", "check", "ban", "unban", "revoke"}
                             THEN c ELSE "not found"
        BY <1>1, <3>1, OperationOf
      <4> QED BY <3>1, <4>1, <4>2, RouteOf
    <3>0. ~Unavailable(c)
      <4>1. SUFFICES ASSUME Unavailable(c) PROVE Handle(q, e) = 503
        BY DEF doJSON
      <4>2. PICK o : o = AgentByPath(q)
        OBVIOUS
      <4>3. o \notin {"missing uuid", "not found", "info"} /\ Unavailable(o)
        BY <2>3, <3>2, <4>1, <4>2
      <4> QED BY <3>2, <4>2, <4>3 DEF Handle
    <3>3. Handle(q, e) = withBody(q, e)
      BY <2>3, <3>0, <3>2 DEF Handle
    <3>4. CASE c = "unban"
      BY <3>1, <3>3, <3>4 DEF withBody, doJSON
    <3>5. CASE c = "ban"
      <4>1. Calls(q) = "ban"
        BY <3>0, <3>1, <3>2, <3>5 DEF Calls
      <4> QED BY <1>2, <3>3, <3>5, <4>1 DEF withBody, doJSON
    <3>6. CASE c = "upgrade"
      <4>1. Calls(q) = "upgrade to 0"
        BY <3>0, <3>1, <3>2, <3>6 DEF Calls
      <4>2. e # "ok"
        BY <4>1 DEF OutcomesOf
      <4> QED BY <1>2, <3>3, <4>2 DEF withBody, doJSON
    <3> QED BY <2>3, <3>4, <3>5, <3>6
  <2>4. CASE c \in {"unregister", "logs"}
    <3>1. q.path = AgentOp("a", c)
      BY <1>3, <1>5, <2>4 DEF Sends
    <3>2. route(q.path) = "agent" /\ AgentByPath(q) = "not found"
      BY <1>1, <2>4, <3>1, RouteOf, OperationOf
    <3>3. Handle(q, e) = 404
      BY <3>2 DEF Handle
    <3> QED BY <3>3 DEF doJSON
  <2>5. CASE c = "batch"
    <3>1. q.path = AgentPath("batch") /\ q.method = "POST"
      BY <1>3, <1>5, <2>5 DEF Sends
    <3>2. route(q.path) = "agent" /\ AgentByPath(q) = "not found"
      BY <1>1, <3>1, RouteOf, OperationOf
    <3>3. Handle(q, e) = 404
      BY <3>2 DEF Handle
    <3> QED BY <3>3 DEF doJSON
  <2> QED BY <2>1, <2>2, <2>3, <2>4, <2>5 DEF Commands
<1> QED BY <1>4, <1>5

\* Gates: what holds of the request in a slot follows from the chain alone.
LEMMA GatesHold == GwTypeOK => GatesInOrder
<1> SUFFICES ASSUME GwTypeOK, NEW s \in Slots, serving[s].pc = "run",
                    {"cors", "ua", "api_key", "aap"} \subseteq {mw[k] : k \in DOMAIN mw}
             PROVE  LET q == serving[s].q  i == Then(mw, q) IN
                    /\ i = 0 /\ ~isProbePath(q.path) => q.key = "good" /\ q.proof \in WellFormed /\ q.ua = "go"
                    /\ isProbePath(q.path) /\ q.method = "GET" /\ q.tls => i = 0
                    /\ q.method = "OPTIONS" /\ q.ua = "scanner" /\ q.tls => Answers(mw[i], q) = 204
  BY DEF GatesInOrder
<1> DEFINE q == serving[s].q  i == Then(mw, q)
<1>1. mw \in Chains /\ mw \in Seq(Middlewares) /\ q.ua \in {"go", "empty", "scanner"}
  BY ChainsAssumption DEF GwTypeOK
<1>2. /\ i = 0 => \A j \in DOMAIN mw : Answers(mw[j], q) = 0
      /\ i # 0 => /\ i \in DOMAIN mw /\ Answers(mw[i], q) # 0
                  /\ \A j \in DOMAIN mw : j < i => Answers(mw[j], q) = 0
      /\ i \in Nat /\ DOMAIN mw \subseteq Nat
  BY <1>1, ThenFacts
<1>3. PICK k \in DOMAIN mw : mw[k] = "cors"
  OBVIOUS
<1> HIDE DEF i, q
<1>4. ASSUME i = 0, ~isProbePath(q.path) PROVE q.key = "good" /\ q.proof \in WellFormed /\ q.ua = "go"
  <2>1. Answers("ua", q) = 0 /\ Answers("api_key", q) = 0 /\ Answers("aap", q) = 0
    BY <1>2, <1>4
  <2>2. UABlock(q) = 0 /\ APIKey(q) = 0 /\ AAP(q) = 0
    BY <2>1 DEF Answers
  <2> QED BY <1>1, <1>4, <2>2 DEF UABlock, APIKey, AAP
<1>5. ASSUME isProbePath(q.path), q.method = "GET", q.tls PROVE i = 0
  <2>1. CORS(q) = 0 /\ UABlock(q) = 0 /\ APIKey(q) = 0 /\ AAP(q) = 0 /\ TLS(q) = 0
    BY <1>5 DEF CORS, UABlock, APIKey, AAP, TLS
  <2>2. \A m : Answers(m, q) = 0
    BY <2>1 DEF Answers
  <2> QED BY <1>2, <2>2
<1>6. ASSUME q.method = "OPTIONS", q.ua = "scanner", q.tls PROVE Answers(mw[i], q) = 204
  <2>1. Answers("cors", q) = 204
    BY <1>6 DEF Answers, CORS
  <2>2. i # 0 /\ i <= k
    BY <1>2, <1>3, <2>1
  <2>3. mw[i] \notin {"ua", "api_key", "aap"}
    <3>1. \A a, b \in DOMAIN mw : mw[a] = "cors" /\ mw[b] \in {"ua", "api_key", "aap"} => a < b
      BY <1>1, ChainsAssumption
    <3>2. mw[i] \in {"ua", "api_key", "aap"} => k < i
      BY <1>2, <1>3, <2>2, <3>1
    <3>3. k \in Nat /\ i \in Nat
      BY <1>2
    <3> QED BY <2>2, <3>2, <3>3
  <2>4. TLS(q) = 0
    BY <1>6 DEF TLS
  <2>5. mw[i] = "cors"
    BY <1>2, <2>2, <2>3, <2>4 DEF Answers
  <2> QED BY <2>1, <2>5
<1> QED BY <1>4, <1>5, <1>6 DEF i, q

\* What is known of a slot that was served: how the answer and its records agree.
RequestServed(s, r) ==
  /\ serving' = [serving EXCEPT ![s] = r]
  /\ DOMAIN r = DOMAIN Vacant /\ r.pc = "reply" /\ r.q = serving[s].q /\ r.by = serving[s].by
  /\ r.log \in {0, r.status} /\ r.metric \in {0, r.status}
  /\ At("metrics") = 1 /\ r.status # 500 => r.metric = r.status
  /\ At("recover") # 0 => r.status # 0

\* Serving a request: the answer is recorded as it is, and success is reported to
\* the remote CLI only of what was done.
LEMMA ServeFacts ==
  ASSUME GwTypeOK, NEW s \in Slots, ServeHTTP(s)
  PROVE  \E r : /\ RequestServed(s, r)
                /\ serving[s].by # "cli" => cli' = cli
                /\ serving[s].by = "cli" /\ cli.op \in Commands
                     /\ serving[s].q \in {Sends(cli.op), Followed} =>
                     /\ cli'.op = cli.op /\ cli'.state = cli.state /\ DOMAIN cli' = DOMAIN cli
                     /\ doJSON(r.status) => cli'.did = cli.op \/ cli.op = "health"
<1> DEFINE q == serving[s].q  i == Then(mw, q)
           Panicked(e) == i = 0 /\ e = "panic"
           Status(e) == CASE i # 0 -> Answers(mw[i], q)
                          [] Panicked(e) /\ Recover = "caught" -> 500
                          [] Panicked(e) /\ ~(Panicked(e) /\ Recover = "caught") -> 0
                          [] OTHER -> Handle(q, e)
<1>1. PICK e \in IF i = 0 THEN OutcomesOf(q) ELSE {"ok"} :
        /\ serving' = [serving EXCEPT ![s] =
             [@ EXCEPT !.pc = "reply", !.status = Status(e),
                       !.log = IF q.path \in skipPaths THEN 0
                               ELSE Seen(At("logging"), i, Status(e), Panicked(e)),
                       !.metric = Seen(At("metrics"), i, Status(e), Panicked(e))]]
        /\ cli' = IF serving[s].by = "cli" /\ i = 0 /\ e = "ok" /\ Calls(q) # "none"
                  THEN [cli EXCEPT !.did = Calls(q)] ELSE cli
  BY DEF ServeHTTP
<1> DEFINE r == [serving[s] EXCEPT !.pc = "reply", !.status = Status(e),
                     !.log = IF q.path \in skipPaths THEN 0
                             ELSE Seen(At("logging"), i, Status(e), Panicked(e)),
                     !.metric = Seen(At("metrics"), i, Status(e), Panicked(e))]
<1>2. /\ serving' = [serving EXCEPT ![s] = r]
      /\ DOMAIN r = DOMAIN Vacant /\ r.pc = "reply" /\ r.q = q /\ r.by = serving[s].by
      /\ r.status = Status(e)
      /\ r.log \in {0, Seen(At("logging"), i, Status(e), Panicked(e))}
      /\ r.metric = Seen(At("metrics"), i, Status(e), Panicked(e))
  <2>1. DOMAIN serving[s] = DOMAIN Vacant /\ DOMAIN serving = Slots
    BY DEF GwTypeOK
  <2>2. DOMAIN Vacant = {"pc", "q", "by", "status", "log", "metric"}
    BY DEF Vacant
  <2> HIDE DEF Status, Panicked, i, q
  <2>3. serving' = [serving EXCEPT ![s] = r]
    BY <1>1
  <2>4. /\ DOMAIN r = DOMAIN Vacant /\ r.pc = "reply" /\ r.q = serving[s].q /\ r.by = serving[s].by
        /\ r.status = Status(e)
        /\ r.log \in {0, Seen(At("logging"), i, Status(e), Panicked(e))}
        /\ r.metric = Seen(At("metrics"), i, Status(e), Panicked(e))
    BY <2>1, <2>2
  <2> QED BY <2>3, <2>4 DEF q
<1> HIDE DEF r
<1>3. /\ i = 0 \/ Answers(mw[i], q) # 0
      /\ i \in Nat /\ At("metrics") \in Nat /\ At("recover") \in Nat
  <2>1. mw \in Seq(Middlewares)
    BY ChainsAssumption DEF GwTypeOK
  <2> QED BY <2>1, ThenFacts, AtFacts
<1>4. \A k, st : Seen(k, i, st, Panicked(e)) \in {0, st}
  BY DEF Seen
<1>5. At("recover") # 0 => Status(e) # 0
  <2>1. At("recover") # 0 => Recover = "caught"
    BY DEF Recover
  <2> HIDE DEF i, q
  <2> QED BY <1>3, <2>1, HandleAnswers
<1>6. At("metrics") = 1 => Seen(At("metrics"), i, Status(e), Panicked(e)) = Status(e)
  <2>1. ASSUME At("metrics") = 1, Panicked(e), At("recover") = 0 PROVE Status(e) = 0
    <3>1. Recover # "caught"
      BY <2>1 DEF Recover
    <3> HIDE DEF i, q
    <3> QED BY <2>1, <3>1
  <2> HIDE DEF Status, Panicked, i, q
  <2>2. At("metrics") = 1 => /\ ~(At("metrics") = 0 \/ (i # 0 /\ At("metrics") > i))
                             /\ ~(At("recover") # 0 /\ At("metrics") > At("recover"))
    BY <1>3
  <2> QED BY <2>1, <2>2 DEF Seen
<1>7. RequestServed(s, r)
  <2> HIDE DEF Status, Panicked, i
  <2> QED BY <1>2, <1>4, <1>5, <1>6 DEF RequestServed
<1>8. serving[s].by # "cli" => cli' = cli
  BY <1>1
<1>9. ASSUME serving[s].by = "cli", cli.op \in Commands, q \in {Sends(cli.op), Followed}
      PROVE  /\ cli'.op = cli.op /\ cli'.state = cli.state /\ DOMAIN cli' = DOMAIN cli
             /\ doJSON(r.status) => cli'.did = cli.op \/ cli.op = "health"
  <2>1. cli'.op = cli.op /\ cli'.state = cli.state /\ DOMAIN cli' = DOMAIN cli
    <3>1. cli' = cli \/ \E c : cli' = [cli EXCEPT !.did = c]
      BY <1>1
    <3>2. DOMAIN cli = {"op", "state", "did"}
      BY DEF GwTypeOK, NoCommand
    <3> QED BY <3>1, <3>2
  <2>2. ASSUME doJSON(Status(e)), cli.op # "health" PROVE cli'.did = cli.op
    <3>1. q.method # "OPTIONS"
      <4>1. \A m, p, b : HTTPRequest(m, p, b).method = m
        BY DEF HTTPRequest
      <4>2. Sends(cli.op).method \in {"GET", "POST"} /\ Followed.method = "GET"
        BY <1>9, <4>1 DEF Sends, Followed, Commands
      <4> QED BY <1>9, <4>2
    <3>2. i = 0
      <4>1. Answers(mw[i], q) \notin {200, 204}
        BY <3>1, AnswersRefuse
      <4> HIDE DEF i, q
      <4> QED BY <2>2, <4>1 DEF doJSON
    <3>3. ~Panicked(e) /\ Status(e) = Handle(q, e)
      <4> HIDE DEF i, q
      <4> QED BY <2>2, <3>2 DEF doJSON
    <3>4. e \in OutcomesOf(q) /\ e # "panic" /\ doJSON(Handle(q, e))
      BY <2>2, <3>2, <3>3
    <3> HIDE DEF i, q
    <3>5. e = "ok" /\ Calls(q) = cli.op
      BY <1>9, <2>2, <3>4, CommandAnswers
    <3>6. cli.op # "none"
      BY <1>9 DEF Commands
    <3>7. cli' = [cli EXCEPT !.did = cli.op]
      BY <1>1, <1>9, <3>2, <3>5, <3>6 DEF q
    <3>8. "did" \in DOMAIN cli
      BY DEF GwTypeOK, NoCommand
    <3> QED BY <3>7, <3>8
  <2> QED BY <1>2, <2>1, <2>2
<1> QED BY <1>7, <1>8, <1>9

\* The steps of one slot, but for serving the request: what becomes of the slot,
\* of the command, and of whom it serves.
Moves(s, r) ==
  /\ serving' = [serving EXCEPT ![s] = r] /\ DOMAIN r = DOMAIN Vacant
  /\ r.pc \in {"free", "run", "reply"} /\ (r.pc = "free" => r = Vacant)
  /\ r.pc # "free" => r.q.ua \in {"go", "empty", "scanner"}

\* A slot that has just been taken.
Taken(q, by) == [Vacant EXCEPT !.pc = "run", !.q = q, !.by = by]

\* The requests of the remote CLI have Go's user agent.
LEMMA CLIAgent ==
  /\ Followed.ua = "go" /\ Followed.method = "GET"
  /\ \A c \in Commands : Sends(c).ua = "go"
<1>1. \A m, p, b : HTTPRequest(m, p, b).ua = "go" /\ HTTPRequest(m, p, b).method = m
  BY DEF HTTPRequest
<1> QED BY <1>1 DEF Followed, Sends, Commands

\* Whom a step accepts, it accepts while the listener listens, into a free slot.
LEMMA AcceptFacts ==
  ASSUME GwTypeOK, NEW s \in Slots, NEW q, NEW by, Accept(s, q, by),
         q.ua \in {"go", "empty", "scanner"}
  PROVE  /\ listener = "listening" /\ serving[s] = Vacant
         /\ Moves(s, Taken(q, by))
         /\ Taken(q, by).pc = "run" /\ Taken(q, by).q = q /\ Taken(q, by).by = by
BY DEF Accept, Moves, Vacant, Taken

\* A reply: the slot is free again, or carries the redirected command.
LEMMA ReplyFacts ==
  ASSUME GwTypeOK, NEW s \in Slots, Reply(s)
  PROVE  /\ serving[s].pc = "reply" /\ UNCHANGED gwServer
         /\ \E r : /\ Moves(s, r) /\ r.pc # "reply"
                   /\ \/ /\ r = Vacant /\ serving[s].by = "cli"
                         /\ cli' = [cli EXCEPT !.state = IF doJSON(serving[s].status) THEN "ok" ELSE "error"]
                      \/ /\ r.by = "cli" /\ r.pc = "run" /\ r.q = Followed /\ cli' = cli
                         /\ serving[s].by = "cli" /\ ~doJSON(serving[s].status)
                      \/ r = Vacant /\ serving[s].by = "client" /\ cli' = cli
<1>1. Moves(s, Vacant) \/ serving' # [serving EXCEPT ![s] = Vacant]
  BY DEF Moves, Vacant
<1>2. Vacant.pc = "free"
  BY DEF Vacant
<1> DEFINE r == [Vacant EXCEPT !.pc = "run", !.by = "cli", !.q = Followed]
<1>3. /\ Moves(s, r) \/ serving' # [serving EXCEPT ![s] = r]
      /\ r.by = "cli" /\ r.pc = "run" /\ r.q = Followed
  BY CLIAgent DEF Moves, Vacant
<1>4. ~doJSON(301)
  BY DEF doJSON
<1> HIDE DEF r
<1> QED BY <1>1, <1>2, <1>3, <1>4 DEF Reply, r

LEMMA DisconnectFacts ==
  ASSUME GwTypeOK, NEW s \in Slots, Disconnect(s)
  PROVE  /\ serving[s].by = "cli" /\ serving[s].pc \in {"run", "reply"} /\ UNCHANGED gwServer
         /\ cli' = [cli EXCEPT !.state = "error"]
         /\ LET r == [serving[s] EXCEPT !.by = "client"] IN
            /\ Moves(s, r) /\ r.by = "client" /\ r.pc = serving[s].pc /\ r.q = serving[s].q
            /\ r.status = serving[s].status /\ r.log = serving[s].log /\ r.metric = serving[s].metric
<1>1. DOMAIN serving = Slots /\ DOMAIN serving[s] = {"pc", "q", "by", "status", "log", "metric"}
      /\ DOMAIN Vacant = {"pc", "q", "by", "status", "log", "metric"}
  BY DEF GwTypeOK, Vacant
<1>2. serving[s].pc # "free" => serving[s].q.ua \in {"go", "empty", "scanner"}
  BY DEF GwTypeOK
<1>3. serving' = [serving EXCEPT ![s] = [serving[s] EXCEPT !.by = "client"]]
  BY <1>1 DEF Disconnect
<1> QED BY <1>1, <1>2, <1>3 DEF Disconnect, Moves

\* The steps of Start and of its listener.
ServerStep ==
  \/ Listen \/ ListenFails \/ Cancel \/ SelectErr \/ SelectDone \/ SelectSleeps
  \/ CloseListener \/ Shutdown \/ Wait

\* They leave the requests alone.
LEMMA ServerStepFacts ==
  ASSUME GwTypeOK, ServerStep \/ UNCHANGED gwVars
  PROVE  /\ UNCHANGED <<mw, serving, cli>>
         /\ main' \in {"starting", "parked", "cancelled", "shutdown", "wait", "returned"}
         /\ parked' \in BOOLEAN
         /\ listener' \in {"starting", "listening", "failed", "failed late", "closed"}
         /\ errCh' \in {"empty", "err", "nil"} /\ ctxDone' \in BOOLEAN
         /\ result' \in {"running", "err", "nil"}
<1>1. CASE Listen
  BY <1>1 DEF Listen, GwTypeOK
<1>2. CASE ListenFails
  BY <1>2 DEF ListenFails, GwTypeOK
<1>3. CASE Cancel
  BY <1>3 DEF Cancel, GwTypeOK
<1>4. CASE SelectErr \/ SelectDone \/ SelectSleeps
  BY <1>4 DEF SelectErr, SelectDone, SelectSleeps, GwTypeOK
<1>5. CASE CloseListener
  BY <1>5 DEF CloseListener, GwTypeOK
<1>6. CASE Shutdown \/ Wait
  BY <1>6 DEF Shutdown, Wait, GwTypeOK
<1>7. CASE UNCHANGED gwVars
  BY <1>7 DEF gwVars, GwTypeOK
<1> QED BY <1>1, <1>2, <1>3, <1>4, <1>5, <1>6, <1>7 DEF ServerStep

\* The type invariant, step by step.
LEMMA GwTypeNext == GwTypeOK /\ [GwNext]_gwVars => GwTypeOK'
<1> SUFFICES ASSUME GwTypeOK, [GwNext]_gwVars PROVE GwTypeOK'
  OBVIOUS
<1>1. ASSUME NEW s \in Slots, NEW r, Moves(s, r), UNCHANGED gwServer, DOMAIN cli' = DOMAIN NoCommand
      PROVE  GwTypeOK'
  <2>1. /\ DOMAIN serving' = Slots /\ serving'[s] = r
        /\ \A t \in Slots \ {s} : serving'[t] = serving[t]
    BY <1>1 DEF Moves, GwTypeOK
  <2>2. \A t \in Slots : /\ DOMAIN serving'[t] = DOMAIN Vacant
                         /\ serving'[t].pc \in {"free", "run", "reply"}
                         /\ serving'[t].pc = "free" => serving'[t] = Vacant
                         /\ serving'[t].pc # "free" => serving'[t].q.ua \in {"go", "empty", "scanner"}
    BY <1>1, <2>1 DEF Moves, GwTypeOK
  <2> QED BY <1>1, <2>1, <2>2 DEF gwServer, GwTypeOK
<1>2. \A c, f : DOMAIN [cli EXCEPT !.state = c] = DOMAIN cli /\ DOMAIN [cli EXCEPT !.did = f] = DOMAIN cli
  OBVIOUS
<1>3. DOMAIN cli = DOMAIN NoCommand
  BY DEF GwTypeOK
<1>4. ASSUME NEW s \in Slots, Arrive(s) PROVE GwTypeOK'
  <2>1. PICK q \in Inbound : Accept(s, q, "client") /\ UNCHANGED cli
    BY <1>4 DEF Arrive
  <2>2. q.ua \in {"go", "empty", "scanner"}
    BY InboundAssumption
  <2>3. UNCHANGED gwServer
    BY <2>1 DEF Accept
  <2>4. \E r : Moves(s, r)
    BY <2>1, <2>2, AcceptFacts
  <2> QED BY <1>1, <1>3, <2>1, <2>3, <2>4
<1>5. ASSUME NEW s \in Slots, CLISend(s) PROVE GwTypeOK'
  <2>1. PICK c \in Commands : Accept(s, Sends(c), "cli") /\ cli' = [op |-> c, state |-> "sent", did |-> "none"]
    BY <1>5 DEF CLISend
  <2>2. DOMAIN cli' = DOMAIN NoCommand
    BY <2>1 DEF NoCommand
  <2>3. UNCHANGED gwServer
    BY <2>1 DEF Accept
  <2>4. \E r : Moves(s, r)
    <3>1. Sends(c).ua \in {"go", "empty", "scanner"}
      BY CLIAgent
    <3> QED BY <2>1, <3>1, AcceptFacts
  <2> QED BY <1>1, <2>2, <2>3, <2>4
<1>6. ASSUME NEW s \in Slots, ServeHTTP(s) PROVE GwTypeOK'
  <2>1. PICK r : RequestServed(s, r)
    BY <1>6, ServeFacts
  <2>2. serving[s].pc = "run" /\ UNCHANGED gwServer
    BY <1>6 DEF ServeHTTP
  <2>3. Moves(s, r)
    BY <2>1, <2>2 DEF RequestServed, Moves, GwTypeOK
  <2>4. cli' = cli \/ \E c : cli' = [cli EXCEPT !.did = c]
    BY <1>6 DEF ServeHTTP
  <2>5. DOMAIN cli' = DOMAIN NoCommand
    BY <1>2, <1>3, <2>4
  <2> QED BY <1>1, <2>2, <2>3, <2>5
<1>7. ASSUME NEW s \in Slots, Reply(s) PROVE GwTypeOK'
  <2>1. UNCHANGED gwServer /\ \E r : Moves(s, r)
    BY <1>7, ReplyFacts
  <2>2. DOMAIN cli' = DOMAIN NoCommand
    BY <1>2, <1>3, <1>7 DEF Reply
  <2> QED BY <1>1, <2>1, <2>2
<1>8. ASSUME NEW s \in Slots, Disconnect(s) PROVE GwTypeOK'
  <2>1. UNCHANGED gwServer /\ \E r : Moves(s, r)
    BY <1>8, DisconnectFacts
  <2>2. DOMAIN cli' = DOMAIN NoCommand
    BY <1>2, <1>3, <1>8 DEF Disconnect
  <2> QED BY <1>1, <2>1, <2>2
<1>9. ASSUME ServerStep \/ UNCHANGED gwVars PROVE GwTypeOK'
  BY <1>9, ServerStepFacts DEF GwTypeOK
<1> QED BY <1>4, <1>5, <1>6, <1>7, <1>8, <1>9 DEF GwNext, ServerStep

\* A step of a slot, when no slot is occupied, is that of accepting.
LEMMA IdleSlots ==
  ASSUME GwTypeOK, NEW s \in Slots, ServeHTTP(s) \/ Reply(s) \/ Disconnect(s)
  PROVE  InFlight
<1>1. serving[s].pc \in {"run", "reply"}
  BY DEF ServeHTTP, Reply, Disconnect
<1>2. Vacant.pc = "free"
  BY DEF Vacant
<1> QED BY <1>1, <1>2 DEF InFlight

\* Shutdown: after the select, nothing comes in, so what has drained stays empty.
LEMMA DrainNext ==
  GwTypeOK /\ DrainInv /\ StartResult /\ [GwNext]_gwVars => DrainInv' /\ StartResult'
<1> SUFFICES ASSUME GwTypeOK, DrainInv, StartResult, [GwNext]_gwVars PROVE DrainInv' /\ StartResult'
  OBVIOUS
<1>1. ASSUME NEW s \in Slots, Arrive(s) \/ CLISend(s) PROVE DrainInv' /\ StartResult'
  <2>1. listener = "listening" /\ UNCHANGED gwServer
    BY <1>1 DEF Arrive, CLISend, Accept
  <2>2. ~Closing /\ main # "returned" /\ main # "wait" /\ errCh = "empty"
    BY <2>1 DEF DrainInv, Closing
  <2> QED BY <2>1, <2>2 DEF DrainInv, StartResult, Closing, gwServer
<1>2. ASSUME NEW s \in Slots, ServeHTTP(s) \/ Reply(s) \/ Disconnect(s) PROVE DrainInv' /\ StartResult'
  <2>1. InFlight /\ UNCHANGED gwServer
    BY <1>2, IdleSlots DEF ServeHTTP, Reply, Disconnect
  <2>2. main # "wait" /\ ~(main = "returned" /\ result = "nil")
    BY <2>1 DEF DrainInv, StartResult
  <2> QED BY <2>1, <2>2 DEF DrainInv, StartResult, Closing, gwServer
<1>3. ASSUME ServerStep \/ UNCHANGED gwVars PROVE DrainInv' /\ StartResult'
  <2>1. InFlight' = InFlight
    BY <1>3, ServerStepFacts DEF InFlight
  <2>2. CASE Listen
    BY <2>1, <2>2 DEF Listen, Closing, DrainInv, StartResult, GwTypeOK
  <2>3. CASE ListenFails
    BY <2>1, <2>3 DEF ListenFails, Closing, DrainInv, StartResult, GwTypeOK
  <2>4. CASE Cancel
    BY <2>1, <2>4 DEF Cancel, Closing, DrainInv, StartResult, GwTypeOK
  <2>5. CASE SelectErr \/ SelectDone \/ SelectSleeps
    <3>1. CASE SelectErr
      BY <2>1, <3>1 DEF SelectErr, Closing, DrainInv, StartResult, GwTypeOK
    <3>2. CASE SelectDone
      BY <2>1, <3>2 DEF SelectDone, Closing, DrainInv, StartResult, GwTypeOK
    <3>3. CASE SelectSleeps
      BY <2>1, <3>3 DEF SelectSleeps, Closing, DrainInv, StartResult, GwTypeOK
    <3> QED BY <2>5, <3>1, <3>2, <3>3
  <2>6. CASE CloseListener
    BY <2>1, <2>6 DEF CloseListener, Closing, DrainInv, StartResult, GwTypeOK
  <2>7. CASE Shutdown
    BY <2>1, <2>7 DEF Shutdown, Closing, DrainInv, StartResult, GwTypeOK
  <2>8. CASE Wait
    BY <2>1, <2>8 DEF Wait, Closing, DrainInv, StartResult, GwTypeOK
  <2>9. CASE UNCHANGED gwVars
    BY <2>1, <2>9 DEF gwVars, Closing, DrainInv, StartResult
  <2> QED BY <1>3, <2>2, <2>3, <2>4, <2>5, <2>6, <2>7, <2>8, <2>9 DEF ServerStep
<1> QED BY <1>1, <1>2, <1>3 DEF GwNext, ServerStep

\* The records: an answer is written down once, as it is given.
LEMMA RecordsNext ==
  GwTypeOK /\ RecordedIsServed /\ AlwaysAnswered /\ [GwNext]_gwVars
    => RecordedIsServed' /\ AlwaysAnswered'
<1> SUFFICES ASSUME GwTypeOK, RecordedIsServed, AlwaysAnswered, [GwNext]_gwVars
             PROVE  RecordedIsServed' /\ AlwaysAnswered'
  OBVIOUS
<1> DEFINE True(r) == /\ r.log \in {0, r.status} /\ r.metric \in {0, r.status}
                      /\ At("metrics") = 1 /\ r.status # 500 => r.metric = r.status
                      /\ At("recover") # 0 => r.status # 0
           Goal == RecordedIsServed' /\ AlwaysAnswered'
<1>1. ASSUME NEW s \in Slots, NEW r, serving' = [serving EXCEPT ![s] = r], mw' = mw,
             r.pc = "reply" => True(r)
      PROVE  Goal
  <2>1. \A m : At(m)' = At(m)
    BY <1>1 DEF At, SelectInSeq
  <2>2. serving'[s] = r /\ \A t \in Slots \ {s} : serving'[t] = serving[t]
    BY <1>1 DEF GwTypeOK
  <2>3. \A t \in Slots : serving[t].pc = "reply" => True(serving[t])
    BY DEF RecordedIsServed, AlwaysAnswered
  <2>4. \A t \in Slots : serving'[t].pc = "reply" => True(serving'[t])
    <3> HIDE DEF True
    <3> QED BY <1>1, <2>2, <2>3
  <2>5. RecordedIsServed'
    BY <2>1, <2>4 DEF RecordedIsServed
  <2>6. AlwaysAnswered'
    BY <2>1, <2>4 DEF AlwaysAnswered
  <2> QED BY <2>5, <2>6
<1>2. ASSUME UNCHANGED <<mw, serving>> PROVE Goal
  <2>1. \A m : At(m)' = At(m)
    BY <1>2 DEF At, SelectInSeq
  <2> QED BY <1>2, <2>1 DEF RecordedIsServed, AlwaysAnswered
<1>3. ASSUME NEW s \in Slots, Arrive(s) \/ CLISend(s) PROVE Goal
  <2>1. \E q, by : Accept(s, q, by)
    BY <1>3 DEF Arrive, CLISend
  <2>2. mw' = mw /\ \E q, by : serving' = [serving EXCEPT ![s] = Taken(q, by)]
    BY <2>1 DEF Accept, gwServer, Taken
  <2>3. \A q, by : Taken(q, by).pc # "reply"
    BY DEF Vacant, Taken
  <2> HIDE DEF Goal
  <2> QED BY <1>1, <2>2, <2>3
<1>4. ASSUME NEW s \in Slots, ServeHTTP(s) PROVE Goal
  <2>1. PICK r : RequestServed(s, r)
    BY <1>4, ServeFacts
  <2>2. serving' = [serving EXCEPT ![s] = r] /\ True(r)
    BY <2>1 DEF RequestServed
  <2>3. mw' = mw
    BY <1>4 DEF ServeHTTP, gwServer
  <2> HIDE DEF Goal, True
  <2> QED BY <1>1, <2>2, <2>3
<1>5. ASSUME NEW s \in Slots, Reply(s) PROVE Goal
  <2>1. PICK r : Moves(s, r) /\ r.pc # "reply"
    BY <1>5, ReplyFacts
  <2>2. serving' = [serving EXCEPT ![s] = r] /\ mw' = mw
    BY <1>5, <2>1 DEF Reply, Moves, gwServer
  <2> HIDE DEF Goal
  <2> QED BY <1>1, <2>1, <2>2
<1>6. ASSUME NEW s \in Slots, Disconnect(s) PROVE Goal
  <2> DEFINE r == [serving[s] EXCEPT !.by = "client"]
  <2>1. /\ Moves(s, r) /\ r.pc = serving[s].pc
        /\ r.status = serving[s].status /\ r.log = serving[s].log /\ r.metric = serving[s].metric
    BY <1>6, DisconnectFacts
  <2>2. serving[s].pc = "reply" => True(serving[s])
    BY DEF RecordedIsServed, AlwaysAnswered
  <2>3. r.pc = "reply" => True(r)
    BY <2>1, <2>2
  <2>4. serving' = [serving EXCEPT ![s] = r] /\ mw' = mw
    BY <1>6, <2>1 DEF Disconnect, Moves, gwServer
  <2> HIDE DEF Goal, True, r
  <2> QED BY <1>1, <2>3, <2>4
<1>7. ASSUME ServerStep \/ UNCHANGED gwVars PROVE Goal
  <2>1. UNCHANGED <<mw, serving>>
    BY <1>7, ServerStepFacts
  <2> QED BY <1>2, <2>1
<1> QED BY <1>3, <1>4, <1>5, <1>6, <1>7 DEF GwNext, ServerStep

\* The remote command: one slot carries it, and success is reported of what was done.
LEMMA CommandNext ==
  GwTypeOK /\ CommandInv /\ ReportedIsDone /\ [GwNext]_gwVars => CommandInv' /\ ReportedIsDone'
<1> SUFFICES ASSUME GwTypeOK, CommandInv, ReportedIsDone, [GwNext]_gwVars
             PROVE  CommandInv' /\ ReportedIsDone'
  OBVIOUS
<1> DEFINE Goal == CommandInv' /\ ReportedIsDone'
           Carries(r) == /\ r.pc = "run" => r.q \in {Sends(cli.op), Followed}
                         /\ r.pc = "reply" /\ doJSON(r.status) => cli.did = cli.op \/ cli.op = "health"
<1>1. /\ cli = NoCommand \/ cli.op \in Commands
      /\ \A s \in Slots : serving[s].by = "cli" =>
           /\ cli.state = "sent" /\ (\A t \in Slots \ {s} : serving[t].by # "cli")
           /\ Carries(serving[s])
  BY DEF CommandInv
<1>2. NoCommand.state = "idle" /\ DOMAIN cli = {"op", "state", "did"}
  BY DEF NoCommand, GwTypeOK
<1>3. ASSUME NEW s \in Slots, NEW r, serving' = [serving EXCEPT ![s] = r]
      PROVE  serving'[s] = r /\ \A t \in Slots \ {s} : serving'[t] = serving[t]
  BY <1>3 DEF GwTypeOK
\* The command is unchanged, and the slot does not carry it or carries on.
<1>4. ASSUME NEW s \in Slots, NEW r, serving' = [serving EXCEPT ![s] = r], cli' = cli,
             r.by = "cli" => serving[s].by = "cli" /\ Carries(r)
      PROVE  Goal
  <2>1. ReportedIsDone'
    BY <1>4 DEF ReportedIsDone
  <2>2. ASSUME NEW t \in Slots, serving'[t].by = "cli"
        PROVE  /\ cli.state = "sent" /\ (\A u \in Slots \ {t} : serving'[u].by # "cli")
               /\ Carries(serving'[t])
    <3> HIDE DEF Carries
    <3>1. serving[t].by = "cli" /\ Carries(serving'[t])
      BY <1>1, <1>3, <1>4, <2>2
    <3>2. cli.state = "sent" /\ \A u \in Slots \ {t} : serving[u].by # "cli"
      BY <1>1, <3>1
    <3>3. \A u \in Slots \ {t} : serving'[u].by # "cli"
      BY <1>3, <1>4, <3>1, <3>2
    <3> QED BY <3>1, <3>2, <3>3
  <2>3. CommandInv'
    BY <1>1, <1>4, <2>2 DEF CommandInv
  <2> QED BY <2>1, <2>3
\* The command has ended, and nobody carries it.
<1>5. ASSUME NEW s \in Slots, NEW r, serving' = [serving EXCEPT ![s] = r], r.by # "cli",
             serving[s].by = "cli", NEW st, cli' = [cli EXCEPT !.state = st],
             st = "ok" => cli.did = cli.op \/ cli.op = "health"
      PROVE  Goal
  <2>1. cli'.op = cli.op /\ cli'.state = st /\ cli'.did = cli.did
    BY <1>2, <1>5
  <2>2. ReportedIsDone'
    BY <1>5, <2>1 DEF ReportedIsDone
  <2>3. cli.state = "sent" /\ \A t \in Slots \ {s} : serving[t].by # "cli"
    BY <1>1, <1>5
  <2>4. \A t \in Slots : serving'[t].by # "cli"
    BY <1>3, <1>5, <2>3
  <2>5. cli.op \in Commands
    BY <1>1, <1>2, <2>3
  <2>6. CommandInv'
    BY <2>1, <2>4, <2>5 DEF CommandInv
  <2> QED BY <2>2, <2>6
<1>6. ASSUME NEW s \in Slots, Arrive(s) PROVE Goal
  <2>1. PICK q \in Inbound : Accept(s, q, "client") /\ UNCHANGED cli
    BY <1>6 DEF Arrive
  <2>2. serving' = [serving EXCEPT ![s] = Taken(q, "client")] /\ Taken(q, "client").by = "client"
    BY <2>1 DEF Accept, Taken, Vacant
  <2> HIDE DEF Goal
  <2> QED BY <1>4, <2>1, <2>2
<1>7. ASSUME NEW s \in Slots, CLISend(s) PROVE Goal
  <2>1. PICK c \in Commands : /\ Accept(s, Sends(c), "cli") /\ cli = NoCommand
                              /\ cli' = [op |-> c, state |-> "sent", did |-> "none"]
    BY <1>7 DEF CLISend
  <2> DEFINE r == Taken(Sends(c), "cli")
  <2>2. /\ serving' = [serving EXCEPT ![s] = r] /\ r.pc = "run" /\ r.q = Sends(c)
    BY <2>1 DEF Accept, Taken, Vacant
  <2>3. cli'.op = c /\ cli'.state = "sent" /\ cli'.did = "none"
    BY <2>1
  <2>4. \A t \in Slots : serving[t].by # "cli"
    BY <1>1, <1>2, <2>1
  <2> HIDE DEF r
  <2>5. serving'[s] = r /\ \A t \in Slots \ {s} : serving'[t] = serving[t]
    BY <1>3, <2>2
  <2>6. ReportedIsDone'
    BY <2>3 DEF ReportedIsDone
  <2>7. ASSUME NEW t \in Slots, serving'[t].by = "cli" PROVE t = s
    BY <2>4, <2>5, <2>7
  <2>8. CommandInv'
    BY <2>2, <2>3, <2>4, <2>5, <2>7 DEF CommandInv
  <2> QED BY <2>6, <2>8
<1>8. ASSUME NEW s \in Slots, ServeHTTP(s) PROVE Goal
  <2>1. PICK r : /\ RequestServed(s, r)
                 /\ serving[s].by # "cli" => cli' = cli
                 /\ serving[s].by = "cli" /\ cli.op \in Commands
                      /\ serving[s].q \in {Sends(cli.op), Followed} =>
                      /\ cli'.op = cli.op /\ cli'.state = cli.state /\ DOMAIN cli' = DOMAIN cli
                      /\ doJSON(r.status) => cli'.did = cli.op \/ cli.op = "health"
    BY <1>8, ServeFacts
  <2>2. serving[s].pc = "run" /\ serving' = [serving EXCEPT ![s] = r] /\ r.pc = "reply" /\ r.by = serving[s].by
    BY <1>8, <2>1 DEF RequestServed, ServeHTTP
  <2>3. CASE serving[s].by # "cli"
    <3> HIDE DEF Goal
    <3> QED BY <1>4, <2>1, <2>2, <2>3
  <2>4. CASE serving[s].by = "cli"
    <3>1. /\ cli.state = "sent" /\ serving[s].q \in {Sends(cli.op), Followed}
          /\ \A t \in Slots \ {s} : serving[t].by # "cli"
      BY <1>1, <2>2, <2>4
    <3>2. cli.op \in Commands
      BY <1>1, <1>2, <3>1
    <3>3. /\ cli'.op = cli.op /\ cli'.state = "sent"
          /\ doJSON(r.status) => cli'.did = cli'.op \/ cli'.op = "health"
      BY <2>1, <2>4, <3>1, <3>2
    <3>4. serving'[s] = r /\ \A t \in Slots \ {s} : serving'[t] = serving[t]
      BY <1>3, <2>2
    <3>5. ReportedIsDone'
      BY <3>3 DEF ReportedIsDone
    <3>6. \A t \in Slots : serving'[t].by = "cli" => t = s
      BY <3>1, <3>4
    <3>7. r.pc # "run"
      BY <2>2
    <3>8. CommandInv'
      BY <3>2, <3>3, <3>4, <3>6, <3>7 DEF CommandInv
    <3> QED BY <3>5, <3>8
  <2> QED BY <2>3, <2>4
<1>9. ASSUME NEW s \in Slots, Reply(s) PROVE Goal
  <2>1. PICK r :
          /\ Moves(s, r) /\ r.pc # "reply"
          /\ \/ /\ r = Vacant /\ serving[s].by = "cli"
                /\ cli' = [cli EXCEPT !.state = IF doJSON(serving[s].status) THEN "ok" ELSE "error"]
             \/ /\ r.by = "cli" /\ r.pc = "run" /\ r.q = Followed /\ cli' = cli
                /\ serving[s].by = "cli" /\ ~doJSON(serving[s].status)
             \/ r = Vacant /\ serving[s].by = "client" /\ cli' = cli
    BY <1>9, ReplyFacts
  <2>2. serving[s].pc = "reply" /\ serving' = [serving EXCEPT ![s] = r] /\ Vacant.by # "cli"
    BY <1>9, <2>1 DEF Reply, Moves, Vacant
  <2>3. CASE /\ r = Vacant /\ serving[s].by = "cli"
             /\ cli' = [cli EXCEPT !.state = IF doJSON(serving[s].status) THEN "ok" ELSE "error"]
    <3> DEFINE st == IF doJSON(serving[s].status) THEN "ok" ELSE "error"
    <3>1. st = "ok" => cli.did = cli.op \/ cli.op = "health"
      BY <1>1, <2>2, <2>3
    <3>2. cli' = [cli EXCEPT !.state = st]
      BY <2>3
    <3> HIDE DEF Goal, st
    <3> QED BY <1>5, <2>2, <2>3, <3>1, <3>2
  <2>4. CASE /\ r.by = "cli" /\ r.pc = "run" /\ r.q = Followed /\ cli' = cli
             /\ serving[s].by = "cli" /\ ~doJSON(serving[s].status)
    <3>1. Carries(r)
      BY <2>4
    <3> HIDE DEF Goal, Carries
    <3> QED BY <1>4, <2>2, <2>4, <3>1
  <2>5. CASE r = Vacant /\ serving[s].by = "client" /\ cli' = cli
    <3> HIDE DEF Goal
    <3> QED BY <1>4, <2>2, <2>5
  <2> QED BY <2>1, <2>3, <2>4, <2>5
<1>10. ASSUME NEW s \in Slots, Disconnect(s) PROVE Goal
  <2> DEFINE r == [serving[s] EXCEPT !.by = "client"]
  <2>1. /\ serving[s].by = "cli" /\ cli' = [cli EXCEPT !.state = "error"]
        /\ Moves(s, r) /\ r.by = "client"
    BY <1>10, DisconnectFacts
  <2>2. serving' = [serving EXCEPT ![s] = r]
    BY <2>1 DEF Moves
  <2> HIDE DEF Goal, r
  <2> QED BY <1>5, <2>1, <2>2
<1>11. ASSUME ServerStep \/ UNCHANGED gwVars PROVE Goal
  <2>1. UNCHANGED <<serving, cli>>
    BY <1>11, ServerStepFacts
  <2> QED BY <2>1 DEF CommandInv, ReportedIsDone
<1> QED BY <1>6, <1>7, <1>8, <1>9, <1>10, <1>11 DEF GwNext, ServerStep

\* At the start nothing is served and nothing was reported.
LEMMA GwInvInit == GwInit => GwInv
<1> SUFFICES ASSUME GwInit PROVE GwInv
  OBVIOUS
<1>1. \A s \in Slots : serving[s] = Vacant
  BY DEF GwInit
<1>2. Vacant.pc = "free" /\ Vacant.by = "none" /\ NoCommand.state = "idle"
  BY DEF Vacant, NoCommand
<1>3. GwTypeOK
  BY <1>1, <1>2 DEF GwInit, GwTypeOK
<1>4. DrainInv /\ StartResult
  BY DEF GwInit, DrainInv, StartResult, Closing
<1>5. CommandInv /\ ReportedIsDone
  BY <1>1, <1>2 DEF GwInit, CommandInv, ReportedIsDone
<1>6. RecordedIsServed /\ AlwaysAnswered
  BY <1>1, <1>2 DEF RecordedIsServed, AlwaysAnswered
<1> QED BY <1>3, <1>4, <1>5, <1>6, GatesHold DEF GwInv, GatewayIsHonest

\* server.go:84, middleware.go:6, client.go:426: for every chain in order, every
\* set of requests and any number of slots, no request is lost or misreported,
\* what reaches a handler passed the gates, Start's nil means that everything was
\* answered, and the remote CLI reports success only of what was done.
THEOREM GatewayTheorem == GwSpec => []GatewayIsHonest
<1>1. GwInv /\ [GwNext]_gwVars => GwInv'
  <2> SUFFICES ASSUME GwInv, [GwNext]_gwVars PROVE GwInv'
    OBVIOUS
  <2>1. GwTypeOK'
    BY GwTypeNext DEF GwInv
  <2>2. GatesInOrder'
    BY <2>1, GatesHold, PTL
  <2>3. DrainInv' /\ StartResult' /\ RecordedIsServed' /\ AlwaysAnswered' /\ CommandInv' /\ ReportedIsDone'
    BY DrainNext, RecordsNext, CommandNext DEF GwInv, GatewayIsHonest
  <2> QED BY <2>1, <2>2, <2>3 DEF GwInv, GatewayIsHonest
<1>2. GwInv => GatewayIsHonest
  BY DEF GwInv
<1> QED BY <1>1, <1>2, GwInvInit, PTL DEF GwSpec

-----------------------------------------------------------------------------
(* MCPServer: framing. *)

\* A set of numbers has a least element.
LEMMA LeastNumber ==
  ASSUME NEW T \in SUBSET Nat, T # {}
  PROVE  \E m \in T : \A j \in Nat : j < m => j \notin T
<1>1. PICK m \in T : \A j \in T : ~(<<j, m>> \in OpToRel(<, Nat))
  BY NatLessThanWellFounded, WFMin
<1>2. \A j \in Nat : j < m => j \notin T
  BY <1>1 DEF OpToRel
<1> QED BY <1>2


\* What the recursive function in Bytes is, on the first n lines.
ByteSums(ls, n, sum) == sum = [i \in 0..n |-> IF i = 0 THEN 0 ELSE sum[i - 1] + Length(ls[i])]

LEMMA ByteSumsNext ==
  ASSUME NEW ls, NEW n \in Nat, NEW sum, ByteSums(ls, n, sum)
  PROVE  \E more : ByteSums(ls, n + 1, more)
<1> DEFINE more == [i \in 0..(n + 1) |-> IF i <= n THEN sum[i] ELSE sum[n] + Length(ls[n + 1])]
<1>1. ASSUME NEW i \in 0..(n + 1)
      PROVE  more[i] = IF i = 0 THEN 0 ELSE more[i - 1] + Length(ls[i])
  <2>0. i \in Nat /\ n \in Nat
    OBVIOUS
  <2>1. CASE i = n + 1
    <3>1. more[i] = sum[n] + Length(ls[n + 1])
      BY <2>1
    <3>2. more[n] = sum[n]
      OBVIOUS
    <3> QED BY <2>1, <3>1, <3>2
  <2>2. CASE i # n + 1
    <3>1. i \in 0..n /\ more[i] = sum[i]
      BY <2>2
    <3>2. sum[i] = IF i = 0 THEN 0 ELSE sum[i - 1] + Length(ls[i])
      BY <3>1 DEF ByteSums
    <3>3. i # 0 => more[i - 1] = sum[i - 1]
      BY <3>1
    <3> QED BY <3>1, <3>2, <3>3
  <2> QED BY <2>1, <2>2
<1>2. more = [i \in 0..(n + 1) |-> IF i = 0 THEN 0 ELSE more[i - 1] + Length(ls[i])]
  BY <1>1
<1> QED BY <1>2 DEF ByteSums

\* The recursive definition of SumOf has a solution.
LEMMA ByteSumsExist == ASSUME NEW ls, NEW n \in Nat PROVE \E sum : ByteSums(ls, n, sum)
<1> DEFINE Wrong == {m \in Nat : ~\E sum : ByteSums(ls, m, sum)}
<1>1. SUFFICES ASSUME Wrong # {} PROVE FALSE
  OBVIOUS
<1>2. Wrong \in SUBSET Nat
  OBVIOUS
<1>3. PICK m \in Wrong : \A j \in Nat : j < m => j \notin Wrong
  BY <1>1, <1>2, LeastNumber, Zenon
<1>4. CASE m = 0
  <2>1. ByteSums(ls, 0, [i \in 0..0 |-> 0])
    BY DEF ByteSums
  <2> QED BY <2>1, <1>4
<1>5. CASE m # 0
  <2>1. m - 1 \in Nat /\ m - 1 < m /\ (m - 1) + 1 = m
    BY <1>5
  <2>2. PICK sum : ByteSums(ls, m - 1, sum)
    BY <2>1, <1>3
  <2> QED BY <2>1, <2>2, ByteSumsNext
<1> QED BY <1>4, <1>5

\* The bytes of the first line and of the first two.
LEMMA BytesOfTwo ==
  ASSUME NEW S, NEW ls \in Seq(S), Len(ls) >= 1, \A i \in DOMAIN ls : Length(ls[i]) \in Nat
  PROVE  /\ Bytes(ls, 1) = Length(ls[1])
         /\ Len(ls) >= 2 => Bytes(ls, 2) = Length(ls[1]) + Length(ls[2])
<1>0. Len(ls) \in Nat /\ DOMAIN ls = 1..Len(ls)
  OBVIOUS
<1>1. PICK sum : sum = CHOOSE x : ByteSums(ls, Len(ls), x)
  OBVIOUS
<1>2. ByteSums(ls, Len(ls), sum)
  BY <1>0, <1>1, ByteSumsExist
<1>3. \A k : Bytes(ls, k) = sum[k]
  BY <1>1 DEF Bytes, ByteSums
<1> DEFINE n == Len(ls)
<1>4. \A i \in 0..n : sum[i] = IF i = 0 THEN 0 ELSE sum[i - 1] + Length(ls[i])
  BY <1>0, <1>2 DEF ByteSums
<1>5. n >= 1 /\ n \in Nat /\ \A i \in 1..n : Length(ls[i]) \in Nat
  BY <1>0
<1> HIDE DEF n
<1>6. sum[0] = 0 /\ sum[1] = Length(ls[1])
  BY <1>4, <1>5
<1>7. n >= 2 => sum[2] = Length(ls[1]) + Length(ls[2])
  BY <1>4, <1>5, <1>6
<1> QED BY <1>3, <1>6, <1>7 DEF n

\* The elements of a concatenation.
LEMMA Concatenation ==
  ASSUME NEW S, NEW s \in Seq(S), NEW t \in Seq(S)
  PROVE  /\ s \o t \in Seq(S) /\ Len(s \o t) = Len(s) + Len(t)
         /\ \A i \in 1..Len(s) : (s \o t)[i] = s[i]
         /\ \A i \in 1..Len(t) : (s \o t)[Len(s) + i] = t[i]
<1>0. Len(s) \in Nat /\ Len(t) \in Nat
  OBVIOUS
<1>1. /\ s \o t \in Seq(S) /\ Len(s \o t) = Len(s) + Len(t)
      /\ \A i \in 1..(Len(s) + Len(t)) :
           (s \o t)[i] = IF i <= Len(s) THEN s[i] ELSE t[i - Len(s)]
  BY ConcatProperties
<1> DEFINE st == s \o t
<1> DEFINE ls == Len(s)
<1> DEFINE lt == Len(t)
<1> HIDE DEF st, ls, lt
<1>2. /\ ls \in Nat /\ lt \in Nat
      /\ \A i \in 1..(ls + lt) : st[i] = IF i <= ls THEN s[i] ELSE t[i - ls]
  BY <1>0, <1>1 DEF st, ls, lt
<1>3. \A i \in 1..ls : st[i] = s[i]
  BY <1>2
<1>4. \A i \in 1..lt : st[ls + i] = t[i]
  <2> TAKE i \in 1..lt
  <2>1. ls + i \in 1..(ls + lt) /\ ~(ls + i <= ls) /\ (ls + i) - ls = i
    BY <1>2
  <2> QED BY <2>1, <1>2
<1> QED BY <1>1, <1>3, <1>4 DEF st, ls, lt

-----------------------------------------------------------------------------
(* MCPServer: one message is read whole. *)

MCPRequest == UNION {Requests(k) : k \in Nat \ {0}}

Line == {Blank, Garbage, TooLong, Header(BodyLen), Header(BodyLen + 1)}
          \cup {Body(r) : r \in MCPRequest}

LEMMA LineLengths == \A l \in Line : Length(l) \in Nat
BY BodyLenAssumption DEF Line, Blank, Garbage, TooLong, Header, Body, Length

\* Nothing that is written begins with a blank line.
LEMMA WrittenLines ==
  ASSUME NEW r \in MCPRequest
  PROVE  /\ Written(r, "line") = <<Body(r)>>
         /\ Written(r, "framed_nl") = <<Header(BodyLen + 1), Blank, Body(r)>>
         /\ Written(r, "framed") = <<Header(BodyLen), Blank, Body(r)>>
         /\ Written(r, "bare") = <<Header(BodyLen), Body(r)>>
         /\ Written(r, "garbage") = <<Garbage>>
         /\ Written(r, "long") = <<TooLong>>
BY DEF Written

LEMMA MinIs ==
  ASSUME NEW S \in SUBSET Nat, NEW m \in S, \A y \in S : m <= y
  PROVE  Min(S) = m
<1>1. PICK k : k = Min(S)
  OBVIOUS
<1>2. k \in S /\ \A y \in S : k <= y
  BY <1>1 DEF Min
<1> QED BY <1>1, <1>2

\* A request, or a header, on the first line.
LEMMA FirstLine ==
  ASSUME NEW ls \in Seq(Line), Len(ls) >= 1, NEW l, l = ls[1]
  PROVE  /\ l.kind = "body" => readRequest(ls) = [used |-> 1, got |-> "request", req |-> l.req]
         /\ l.kind = "header" =>
              readRequest(ls) = [readFramed(SubSeq(ls, 2, Len(ls)), l.n) EXCEPT !.used = 1 + @]
         /\ l.kind = "long" => readRequest(ls) = Got(1, "failed")
         /\ l.kind = "garbage" => readRequest(ls) = Got(1, "bad")
<1> DEFINE text == {i \in DOMAIN ls : ls[i].kind # "blank"}
<1>1. ASSUME l.kind # "blank" PROVE text # {} /\ Min(text) = 1
  <2>1. DOMAIN ls \subseteq Nat \ {0} /\ 1 \in DOMAIN ls
    OBVIOUS
  <2>2. 1 \in text /\ text \in SUBSET Nat /\ \A y \in text : 1 <= y
    BY <2>1, <1>1
  <2> QED BY <2>2, MinIs
<1> HIDE DEF text
<1>2. ASSUME l.kind # "blank"
      PROVE  readRequest(ls) =
               CASE l.kind = "body"    -> [used |-> 1, got |-> "request", req |-> l.req]
                 [] l.kind = "header"  -> [readFramed(SubSeq(ls, 1 + 1, Len(ls)), l.n) EXCEPT !.used = 1 + @]
                 [] l.kind = "long"    -> Got(1, "failed")
                 [] l.kind = "garbage" -> Got(1, "bad")
  BY <1>1, <1>2, Zenon DEF readRequest, text
<1>3. PICK framed : framed = [readFramed(SubSeq(ls, 2, Len(ls)), l.n) EXCEPT !.used = 1 + @]
  OBVIOUS
<1>4. 1 + 1 = 2
  OBVIOUS
<1>5. framed = [readFramed(SubSeq(ls, 1 + 1, Len(ls)), l.n) EXCEPT !.used = 1 + @]
  BY <1>3, <1>4, Zenon
<1>6. PICK alone : alone = [used |-> 1, got |-> "request", req |-> l.req]
  OBVIOUS
<1>7. PICK bad, long : bad = Got(1, "bad") /\ long = Got(1, "failed")
  OBVIOUS
<1>8. ASSUME l.kind # "blank"
      PROVE  readRequest(ls) =
               CASE l.kind = "body"    -> alone
                 [] l.kind = "header"  -> framed
                 [] l.kind = "long"    -> long
                 [] l.kind = "garbage" -> bad
  BY <1>2, <1>5, <1>6, <1>7, <1>8, Zenon
<1> QED BY <1>3, <1>6, <1>7, <1>8

\* The body that follows the header.
LEMMA ReadsBody ==
  ASSUME NEW rest \in Seq(Line), Len(rest) >= 1, NEW r \in MCPRequest, rest[1] = Body(r)
  PROVE  readFramed(rest, BodyLen) = [used |-> 1, got |-> "request", req |-> r]
<1>0. BodyLen \in Nat /\ BodyLen >= 2
  BY BodyLenAssumption
<1>1. Body(r).kind = "body" /\ Body(r).n = BodyLen /\ Body(r).req = r /\ Length(Body(r)) = BodyLen
  BY DEF Body, Length
<1>2. Len(rest) \in Nat /\ DOMAIN rest = 1..Len(rest)
  OBVIOUS
<1>3. \A i \in DOMAIN rest : Length(rest[i]) \in Nat
  <2>1. \A S : \A s \in Seq(S) : \A j \in DOMAIN s : s[j] \in S
    OBVIOUS
  <2> QED BY <2>1, LineLengths
<1>4. Bytes(rest, 1) = BodyLen
  BY <1>1, <1>3, BytesOfTwo
<1>5. FrameLines(rest, BodyLen) = 1
  <2> DEFINE enough == {k \in 1..Len(rest) : Bytes(rest, k) + k - 1 >= BodyLen}
  <2>1. 1 \in enough /\ enough \in SUBSET Nat /\ \A y \in enough : 1 <= y
    BY <1>0, <1>2, <1>4
  <2>2. enough # {} /\ Min(enough) = 1
    BY <2>1, MinIs
  <2> QED BY <2>2, Zenon DEF FrameLines
<1>6. PICK first : first = SubSeq(rest, 1, 1)
  OBVIOUS
<1>7. Len(first) = 1 /\ first[1] = Body(r)
  BY <1>2, <1>6
<1>8. Decodes(first, BodyLen)
  BY <1>0, <1>1, <1>7 DEF Decodes
<1> QED BY <1>1, <1>2, <1>5, <1>6, <1>8 DEF readFramed

\* A blank line and the body: the newline between them counts.
LEMMA ReadsBlankBody ==
  ASSUME NEW rest \in Seq(Line), Len(rest) >= 2, NEW r \in MCPRequest,
         rest[1] = Blank, rest[2] = Body(r)
  PROVE  /\ readFramed(rest, BodyLen + 1) = [used |-> 2, got |-> "request", req |-> r]
         /\ readFramed(rest, BodyLen) = Got(2, "bad")
<1>0. BodyLen \in Nat /\ BodyLen >= 2
  BY BodyLenAssumption
<1>1. /\ Body(r).kind = "body" /\ Body(r).n = BodyLen /\ Body(r).req = r /\ Length(Body(r)) = BodyLen
      /\ Blank.kind = "blank" /\ Length(Blank) = 0
  BY DEF Body, Blank, Length
<1>2. Len(rest) \in Nat /\ DOMAIN rest = 1..Len(rest)
  OBVIOUS
<1>3. \A i \in DOMAIN rest : Length(rest[i]) \in Nat
  <2>1. \A S : \A s \in Seq(S) : \A j \in DOMAIN s : s[j] \in S
    OBVIOUS
  <2> QED BY <2>1, LineLengths
<1>4. Bytes(rest, 1) = 0 /\ Bytes(rest, 2) = BodyLen
  BY <1>0, <1>1, <1>3, BytesOfTwo
<1>5. ASSUME NEW n \in {BodyLen, BodyLen + 1} PROVE FrameLines(rest, n) = 2
  <2> DEFINE enough == {k \in 1..Len(rest) : Bytes(rest, k) + k - 1 >= n}
  <2>1. 2 \in enough /\ 1 \notin enough /\ enough \in SUBSET (Nat \ {0})
    BY <1>0, <1>2, <1>4
  <2>2. \A y \in enough : 2 <= y
    <3> HIDE DEF enough
    <3> QED BY <2>1
  <2>3. enough # {} /\ Min(enough) = 2
    BY <2>1, <2>2, MinIs
  <2> QED BY <2>3, Zenon DEF FrameLines
<1>6. PICK two : two = SubSeq(rest, 1, 2)
  OBVIOUS
<1>7. Len(two) = 2 /\ two[1] = Blank /\ two[2] = Body(r)
  BY <1>2, <1>6
<1>8. Decodes(two, BodyLen + 1) /\ ~Decodes(two, BodyLen)
  BY <1>0, <1>1, <1>7 DEF Decodes
<1>9. PICK bad : bad = Got(2, "bad")
  OBVIOUS
<1>10. readFramed(rest, BodyLen) = bad
  BY <1>2, <1>5, <1>6, <1>8, <1>9 DEF readFramed
<1> QED BY <1>1, <1>2, <1>5, <1>6, <1>8, <1>9, <1>10 DEF readFramed

\* What is left when the first part of a concatenation is dropped.
LEMMA AfterFirst ==
  ASSUME NEW S, NEW w \in Seq(S), NEW t \in Seq(S), NEW n, n = Len(w)
  PROVE  SubSeq(w \o t, n + 1, Len(w \o t)) = t
<1> DEFINE wt == w \o t
           lw == Len(w)
           lt == Len(t)
<1>1. /\ wt \in Seq(S) /\ Len(wt) = lw + lt
      /\ \A i \in 1..lt : wt[lw + i] = t[i]
  BY Concatenation
<1>2. lw \in Nat /\ lt \in Nat /\ n = lw
  OBVIOUS
<1> HIDE DEF wt, lw, lt
<1>3. \A i \in (lw + 1)..(lw + lt) : wt[i] \in S
  <2>1. \A i \in 1..Len(wt) : wt[i] \in S
    BY <1>1, ElementOfSeq
  <2> QED BY <2>1, <1>1, <1>2
<1> DEFINE rest == SubSeq(wt, lw + 1, lw + lt)
<1>4. rest \in Seq(S) /\ Len(rest) = lt /\ \A i \in 1..lt : rest[i] = wt[lw + i]
  <2>1. PICK a \in Int, b \in Int : a = lw + 1 /\ b = lw + lt
    BY <1>2
  <2>2. \A i \in a..b : wt[i] \in S
    BY <2>1, <1>3
  <2>3. /\ SubSeq(wt, a, b) \in Seq(S)
        /\ Len(SubSeq(wt, a, b)) = IF a <= b THEN b - a + 1 ELSE 0
        /\ \A i \in 1..(b - a + 1) : SubSeq(wt, a, b)[i] = wt[a + i - 1]
    BY <2>2, SubSeqProperties
  <2>4. rest = SubSeq(wt, a, b)
    BY <2>1, Zenon
  <2> HIDE DEF rest
  <2>5. b - a + 1 = lt /\ \A i \in 1..lt : a + i - 1 = lw + i
    BY <2>1, <1>2
  <2>6. Len(rest) = lt
    BY <2>3, <2>4, <2>5, <2>1, <1>2
  <2>7. \A i \in 1..lt : rest[i] = wt[lw + i]
    BY <2>3, <2>4, <2>5
  <2> QED BY <2>3, <2>4, <2>6, <2>7
<1> HIDE DEF rest
<1>5. Len(rest) = lt
  BY <1>4
<1>6. \A i \in 1..lt : rest[i] = t[i]
  BY <1>1, <1>4
<1>7. rest = t
  <2>1. Len(rest) = Len(t) /\ \A i \in 1..Len(rest) : rest[i] = t[i]
    BY <1>5, <1>6 DEF lt
  <2> QED BY <2>1, <1>4, SeqEqual, Zenon
<1> QED BY <1>1, <1>2, <1>7 DEF wt, rest

\* What readRequest makes of a message, by its form.
Readable == {"line", "framed_nl", "bare"}
Outcome(form) == IF form \in Readable THEN "request" ELSE IF form = "long" THEN "failed" ELSE "bad"

ReadsWhole(ls, r, form, t) ==
  /\ readRequest(ls).got = Outcome(form)
  /\ form \in Readable => readRequest(ls).req = r
  /\ SubSeq(ls, readRequest(ls).used + 1, Len(ls)) = t

\* The lines of a message stand before what follows it.
LEMMA MessageFirst ==
  ASSUME NEW r \in MCPRequest, NEW form \in Forms, NEW t \in Seq(Line), NEW w, w = Written(r, form)
  PROVE  /\ w \in Seq(Line) /\ Len(w) \in 1..3
         /\ w \o t \in Seq(Line) /\ Len(w \o t) = Len(w) + Len(t) /\ Len(t) \in Nat
         /\ \A i \in 1..Len(w) : (w \o t)[i] = w[i]
<1>1. PICK b \in Line, z \in Line, g \in Line, l \in Line, h \in Line, k \in Line :
        /\ b = Body(r) /\ z = Blank /\ g = Garbage /\ l = TooLong
        /\ h = Header(BodyLen) /\ k = Header(BodyLen + 1)
  BY Zenon DEF Line
<1>2. w \in Seq(Line) /\ Len(w) \in 1..3
  <2>1. w \in {<<b>>, <<k, z, b>>, <<h, z, b>>, <<h, b>>, <<g>>, <<l>>}
    BY <1>1, WrittenLines, Zenon DEF Forms
  <2>2. \A a \in Line : <<a>> \in Seq(Line) /\ Len(<<a>>) = 1
    OBVIOUS
  <2>3. \A a, c \in Line : <<a, c>> \in Seq(Line) /\ Len(<<a, c>>) = 2
    OBVIOUS
  <2>4. \A a, c, d \in Line : <<a, c, d>> \in Seq(Line) /\ Len(<<a, c, d>>) = 3
    OBVIOUS
  <2>5. w \in Seq(Line) /\ (Len(w) = 1 \/ Len(w) = 2 \/ Len(w) = 3)
    BY <2>1, <2>2, <2>3, <2>4, Zenon
  <2> QED BY <2>5
<1>3. Len(t) \in Nat
  OBVIOUS
<1> QED BY <1>2, <1>3, Concatenation

LEMMA WrittenSeq ==
  ASSUME NEW r \in MCPRequest, NEW form \in Forms
  PROVE  Written(r, form) \in Seq(Line)
<1>1. PICK w : w = Written(r, form)
  OBVIOUS
<1>2. PICK t \in Seq(Line) : t = <<>>
  BY EmptySeq, Zenon
<1> QED BY <1>1, <1>2, MessageFirst

\* The lines after the first.
LEMMA RestOfLines ==
  ASSUME NEW ls \in Seq(Line), Len(ls) >= 1
  PROVE  /\ SubSeq(ls, 2, Len(ls)) \in Seq(Line)
         /\ Len(SubSeq(ls, 2, Len(ls))) = Len(ls) - 1
         /\ \A i \in 1..(Len(ls) - 1) : SubSeq(ls, 2, Len(ls))[i] = ls[i + 1]
<1> DEFINE n == Len(ls)
<1>1. n \in Nat /\ n >= 1
  OBVIOUS
<1>2. \A i \in 1..n : ls[i] \in Line
  BY ElementOfSeq
<1> DEFINE rest == SubSeq(ls, 2, n)
<1> HIDE DEF n
<1>3. /\ rest \in Seq(Line)
      /\ Len(rest) = IF 2 <= n THEN n - 2 + 1 ELSE 0
      /\ \A i \in 1..(n - 2 + 1) : rest[i] = ls[2 + i - 1]
  <2>1. \A i \in 2..n : ls[i] \in Line
    BY <1>1, <1>2
  <2> QED BY <1>1, <2>1, SubSeqProperties
<1> HIDE DEF rest
<1>4. Len(rest) = n - 1 /\ \A i \in 1..(n - 1) : rest[i] = ls[i + 1]
  <2>1. \A i \in 1..(n - 1) : rest[i] = ls[2 + i - 1] /\ 2 + i - 1 = i + 1
    BY <1>1, <1>3
  <2> QED BY <2>1, <1>1, <1>3
<1> QED BY <1>3, <1>4 DEF rest, n

\* One readRequest takes one message, whole.
LEMMA ReadsMessage ==
  ASSUME NEW r \in MCPRequest, NEW form \in Forms, NEW t \in Seq(Line),
         NEW ls, ls = Written(r, form) \o t
  PROVE  ls \in Seq(Line) /\ ls # <<>> /\ ReadsWhole(ls, r, form, t)
<1>1. PICK w : w = Written(r, form)
  OBVIOUS
<1>2. /\ w \in Seq(Line) /\ Len(w) \in 1..3 /\ Len(t) \in Nat
      /\ ls \in Seq(Line) /\ Len(ls) = Len(w) + Len(t)
      /\ \A i \in 1..Len(w) : ls[i] = w[i]
  BY <1>1, MessageFirst
<1>3. SubSeq(ls, Len(w) + 1, Len(ls)) = t
  BY <1>1, <1>2, AfterFirst
<1>4. Len(ls) >= 1 /\ ls # <<>> /\ ls[1] = w[1]
  BY <1>2
<1>5. PICK rest : rest = SubSeq(ls, 2, Len(ls))
  OBVIOUS
<1>6. rest \in Seq(Line) /\ Len(rest) = Len(ls) - 1 /\ \A i \in 1..(Len(ls) - 1) : rest[i] = ls[i + 1]
  BY <1>4, <1>2, <1>5, RestOfLines
<1>7. SUFFICES /\ readRequest(ls).used = Len(w)
               /\ readRequest(ls).got = Outcome(form)
               /\ form \in Readable => readRequest(ls).req = r
  BY <1>2, <1>3, <1>4, Zenon DEF ReadsWhole
<1>8. /\ Body(r).kind = "body" /\ Body(r).req = r
      /\ \A n : Header(n).kind = "header" /\ Header(n).n = n
      /\ Garbage.kind = "garbage" /\ TooLong.kind = "long"
  BY DEF Body, Header, Garbage, TooLong
<1> DEFINE l == ls[1]
<1>14. l.kind = "body" => readRequest(ls) = [used |-> 1, got |-> "request", req |-> l.req]
  BY <1>2, <1>4, FirstLine, Zenon
<1>15. l.kind = "header" => readRequest(ls) = [readFramed(rest, l.n) EXCEPT !.used = 1 + @]
  BY <1>2, <1>4, <1>5, FirstLine, Zenon
<1> HIDE DEF l
<1>9. CASE form = "line"
  <2>1. w = <<Body(r)>>
    BY <1>1, <1>9, WrittenLines
  <2>2. Len(w) = 1 /\ ls[1] = Body(r)
    BY <2>1, <1>4
  <2>3. readRequest(ls) = [used |-> 1, got |-> "request", req |-> r]
    BY <2>2, <1>8, <1>14 DEF l
  <2> QED BY <2>2, <2>3, <1>9 DEF Outcome, Readable
<1>10. CASE form = "bare"
  <2>1. w = <<Header(BodyLen), Body(r)>>
    BY <1>1, <1>10, WrittenLines
  <2>2. Len(w) = 2 /\ ls[1] = Header(BodyLen) /\ w[2] = Body(r)
    BY <2>1, <1>4
  <2>3. Len(rest) >= 1 /\ rest[1] = Body(r)
    BY <2>2, <1>2, <1>6
  <2>4. readFramed(rest, BodyLen) = [used |-> 1, got |-> "request", req |-> r]
    BY <2>3, <1>6, ReadsBody
  <2>5. readRequest(ls) = [readFramed(rest, BodyLen) EXCEPT !.used = 1 + @]
    <3>1. l.kind = "header" /\ l.n = BodyLen
      BY <2>2, <1>8 DEF l
    <3> QED BY <3>1, <1>15, Zenon
  <2>6. readRequest(ls) = [used |-> 2, got |-> "request", req |-> r]
    BY <2>4, <2>5
  <2> QED BY <2>2, <2>6, <1>10 DEF Outcome, Readable
<1>11. CASE form = "framed_nl"
  <2>1. w = <<Header(BodyLen + 1), Blank, Body(r)>>
    BY <1>1, <1>11, WrittenLines
  <2>2. Len(w) = 3 /\ ls[1] = Header(BodyLen + 1) /\ w[2] = Blank /\ w[3] = Body(r)
    BY <2>1, <1>4
  <2>3. Len(rest) >= 2 /\ rest[1] = Blank /\ rest[2] = Body(r)
    BY <2>2, <1>2, <1>6
  <2>4. readFramed(rest, BodyLen + 1) = [used |-> 2, got |-> "request", req |-> r]
    BY <2>3, <1>6, ReadsBlankBody
  <2>5. readRequest(ls) = [readFramed(rest, BodyLen + 1) EXCEPT !.used = 1 + @]
    <3>1. l.kind = "header" /\ l.n = BodyLen + 1
      BY <2>2, <1>8 DEF l
    <3> QED BY <3>1, <1>15, Zenon
  <2>6. readRequest(ls) = [used |-> 3, got |-> "request", req |-> r]
    BY <2>4, <2>5
  <2> QED BY <2>2, <2>6, <1>11 DEF Outcome, Readable
<1>12. CASE form = "framed"
  <2>1. w = <<Header(BodyLen), Blank, Body(r)>>
    BY <1>1, <1>12, WrittenLines
  <2>2. Len(w) = 3 /\ ls[1] = Header(BodyLen) /\ w[2] = Blank /\ w[3] = Body(r)
    BY <2>1, <1>4
  <2>3. Len(rest) >= 2 /\ rest[1] = Blank /\ rest[2] = Body(r)
    BY <2>2, <1>2, <1>6
  <2>4. readFramed(rest, BodyLen) = Got(2, "bad")
    BY <2>3, <1>6, ReadsBlankBody
  <2>5. readRequest(ls) = [readFramed(rest, BodyLen) EXCEPT !.used = 1 + @]
    <3>1. l.kind = "header" /\ l.n = BodyLen
      BY <2>2, <1>8 DEF l
    <3> QED BY <3>1, <1>15, Zenon
  <2>6. readRequest(ls).used = 3 /\ readRequest(ls).got = "bad"
    BY <2>4, <2>5 DEF Got
  <2> QED BY <2>2, <2>6, <1>12 DEF Outcome, Readable
<1>13. CASE form \in {"garbage", "long"}
  <2>1. w = IF form = "garbage" THEN <<Garbage>> ELSE <<TooLong>>
    BY <1>1, <1>13, WrittenLines
  <2>2. Len(w) = 1 /\ ls[1] = IF form = "garbage" THEN Garbage ELSE TooLong
    BY <2>1, <1>4
  <2>3. readRequest(ls) = IF form = "garbage" THEN Got(1, "bad") ELSE Got(1, "failed")
    BY <2>2, <1>2, <1>4, <1>8, <1>13, FirstLine
  <2>4. readRequest(ls).used = 1 /\ readRequest(ls).got = IF form = "garbage" THEN "bad" ELSE "failed"
    BY <2>3 DEF Got
  <2> QED BY <2>2, <2>4, <1>13 DEF Outcome, Readable
<1> QED BY <1>9, <1>10, <1>11, <1>12, <1>13 DEF Forms

\* Nothing to read.
LEMMA ReadsNothing ==
  /\ readRequest(<<>>).got = "none"
  /\ SubSeq(<<>>, readRequest(<<>>).used + 1, Len(<<>>)) = <<>>
<1>1. PICK e : e = <<>>
  OBVIOUS
<1>2. DOMAIN e = {} /\ Len(e) = 0
  BY <1>1
<1>3. readRequest(e) = Got(Len(e), "none")
  BY <1>2, Zenon DEF readRequest
<1>4. readRequest(e).got = "none" /\ readRequest(e).used = 0
  BY <1>2, <1>3 DEF Got
<1>5. SubSeq(e, 0 + 1, 0) = <<>>
  BY SubSeqEmpty
<1> QED BY <1>1, <1>2, <1>4, <1>5

-----------------------------------------------------------------------------
(* MCPServer: the session. *)

Message == [form : Forms, req : MCPRequest]

\* Messages carry their numbers as ids.
MessagesOK(msgs) ==
  msgs \in Seq(Message) /\ \A k \in DOMAIN msgs : msgs[k].req.id = k

\* The lines ls are the messages after the first c, one after the other.
Unread(msgs, ls, c) ==
  \E w : /\ w[c] = ls /\ w[Len(msgs)] = <<>>
         /\ \A k \in c..Len(msgs) : w[k] \in Seq(Line)
         /\ \A k \in c..(Len(msgs) - 1) :
              w[k] = Written(msgs[k + 1].req, msgs[k + 1].form) \o w[k + 1]

Owed(msgs) == {k \in DOMAIN msgs : msgs[k].form \in Readable /\ Answered(msgs[k].req)}

\* The first c messages have their answers, and no other has.
Given(reps, msgs, c) ==
  LET named == {i \in DOMAIN reps : reps[i] # 0} IN
  /\ \A i, j \in named : i < j => reps[i] < reps[j]
  /\ \A i \in named : reps[i] \in Owed(msgs) /\ reps[i] <= c
  /\ \A e \in Owed(msgs) : e <= c => \E i \in named : reps[i] = e

SessionInv ==
  /\ MessagesOK(messages) /\ replies \in Seq(Nat)
  /\ \E c \in 0..Len(messages) : Unread(messages, lines, c) /\ Given(replies, messages, c)

LEMMA RequestIds ==
  ASSUME NEW k \in Nat \ {0}, NEW r \in Requests(k)
  PROVE  r \in MCPRequest /\ r.id = k
<1>1. r \in MCPRequest
  BY DEF MCPRequest
<1>2. r.id = k
  BY DEF Requests
<1> QED BY <1>1, <1>2

LEMMA SessionInit == MCPInit => SessionInv
<1> SUFFICES ASSUME MCPInit PROVE SessionInv
  OBVIOUS
<1>1. lines = <<>> /\ messages = <<>> /\ replies = <<>>
  BY DEF MCPInit
<1>2. /\ messages \in Seq(Message) /\ DOMAIN messages = {} /\ Len(messages) = 0
      /\ replies \in Seq(Nat) /\ DOMAIN replies = {}
  BY <1>1
<1>3. Unread(messages, lines, 0)
  <2>1. PICK e \in Seq(Line) : e = <<>>
    BY EmptySeq, Zenon
  <2> DEFINE w == [k \in {0} |-> e]
  <2>2. w[0] = e
    OBVIOUS
  <2> HIDE DEF w
  <2>3. /\ w[0] = lines /\ w[Len(messages)] = e
        /\ \A k \in 0..Len(messages) : w[k] \in Seq(Line)
        /\ ~\E k \in 0..(Len(messages) - 1) : TRUE
    <3>1. w[0] = lines
      BY <1>1, <2>1, <2>2, Zenon
    <3>2. w[Len(messages)] = e
      BY <1>2, <2>2
    <3>3. 0..Len(messages) = {0} /\ 0..(Len(messages) - 1) = {}
      BY <1>2
    <3> QED BY <3>1, <3>2, <3>3, <2>1, <2>2
  <2> QED BY <2>1, <2>3, Zenon DEF Unread
<1>4. Given(replies, messages, 0)
  BY <1>2 DEF Given, Owed
<1>5. MessagesOK(messages)
  BY <1>2 DEF MessagesOK
<1>6. 0 \in 0..Len(messages)
  BY <1>2
<1> QED BY <1>2, <1>3, <1>4, <1>5, <1>6 DEF SessionInv

\* What is written after the unread lines stands after them.
LEMMA UnreadGrows ==
  ASSUME NEW msgs \in Seq(Message), NEW c \in 0..Len(msgs), NEW ls, Unread(msgs, ls, c),
         NEW m \in Message
  PROVE  Unread(Append(msgs, m), ls \o Written(m.req, m.form), c)
<1>0. m.req \in MCPRequest /\ m.form \in Forms
  BY DEF Message
<1> DEFINE n == Len(msgs)
           more == Append(msgs, m)
<1>1. /\ n \in Nat /\ c \in Nat /\ c <= n /\ Len(more) = n + 1
      /\ more[n + 1] = m /\ \A k \in 1..n : more[k] = msgs[k]
  OBVIOUS
<1> HIDE DEF n, more
<1>2. PICK w : /\ w[c] = ls /\ w[n] = <<>>
               /\ \A k \in c..n : w[k] \in Seq(Line)
               /\ \A k \in c..(n - 1) :
                    w[k] = Written(msgs[k + 1].req, msgs[k + 1].form) \o w[k + 1]
  BY DEF Unread, n
<1>3. PICK e \in Seq(Line) : e = <<>>
  BY EmptySeq, Zenon
<1>4. PICK x : x = Written(m.req, m.form)
  OBVIOUS
<1>5. x \in Seq(Line) /\ e \o x = x /\ x \o e = x
  <2>1. x \in Seq(Line)
    BY <1>0, <1>4, WrittenSeq
  <2> QED BY <2>1, <1>3, ConcatEmptySeq
<1> DEFINE v == [k \in c..(n + 1) |-> IF k <= n THEN w[k] \o x ELSE e]
<1>6. /\ \A k \in c..n : v[k] = w[k] \o x
      /\ v[n + 1] = e
  BY <1>1
<1> HIDE DEF v
<1>7. v[c] = ls \o x
  <2>1. c \in c..n
    BY <1>1
  <2> QED BY <2>1, <1>2, <1>6, Zenon
<1>8. \A k \in c..n : v[k] \in Seq(Line)
  <2>1. ASSUME NEW k \in c..n PROVE w[k] \o x \in Seq(Line)
    BY <1>2, <1>5, ConcatProperties
  <2> QED BY <2>1, <1>6
<1>9. \A k \in c..(n + 1) : v[k] \in Seq(Line)
  <2>1. \A k \in c..(n + 1) : k \in c..n \/ k = n + 1
    BY <1>1
  <2> QED BY <2>1, <1>3, <1>6, <1>8, Zenon
<1>10. ASSUME NEW k \in c..n
       PROVE  v[k] = Written(more[k + 1].req, more[k + 1].form) \o v[k + 1]
  <2>0. k \in Nat /\ k <= n
    BY <1>1
  <2>1. CASE k = n
    <3>1. v[k] = e \o x
      BY <2>1, <1>2, <1>3, <1>6
    <3>2. v[k + 1] = e /\ more[k + 1] = m
      BY <2>1, <1>1, <1>6
    <3>3. v[k] = x \o e
      BY <3>1, <1>5, Zenon
    <3> QED BY <3>2, <3>3, <1>4, Zenon
  <2>2. CASE k # n
    <3>1. k \in c..(n - 1) /\ k + 1 \in c..n /\ k + 1 \in 1..n
      BY <2>0, <2>2, <1>1
    <3>2. PICK y : y = Written(msgs[k + 1].req, msgs[k + 1].form)
      OBVIOUS
    <3>3. w[k] = y \o w[k + 1] /\ w[k + 1] \in Seq(Line) /\ more[k + 1] = msgs[k + 1]
      BY <3>1, <3>2, <1>1, <1>2
    <3>4. y \in Seq(Line)
      <4>1. msgs[k + 1] \in Message
        BY <3>1, ElementOfSeq DEF n
      <4>2. msgs[k + 1].req \in MCPRequest /\ msgs[k + 1].form \in Forms
        BY <4>1 DEF Message
      <4> QED BY <4>2, <3>2, WrittenSeq
    <3>5. (y \o w[k + 1]) \o x = y \o (w[k + 1] \o x)
      <4>1. PICK z \in Seq(Line) : z = w[k + 1]
        BY <3>3
      <4>2. x \in Seq(Line)
        BY <1>5
      <4>3. (y \o z) \o x = y \o (z \o x)
        BY <3>4, <4>2, ConcatAssociative
      <4> QED BY <4>1, <4>3, Zenon
    <3>6. v[k] = w[k] \o x /\ v[k + 1] = w[k + 1] \o x
      BY <3>1, <1>6
    <3> QED BY <3>2, <3>3, <3>5, <3>6, Zenon
  <2> QED BY <2>1, <2>2
<1>11. (n + 1) - 1 = n
  BY <1>1
<1> QED BY <1>1, <1>3, <1>4, <1>6, <1>7, <1>9, <1>10, <1>11, Zenon DEF Unread, more

\* The first unread message is read whole, and the others stay.
LEMMA UnreadFirst ==
  ASSUME NEW msgs \in Seq(Message), NEW c \in 0..Len(msgs), NEW ls, Unread(msgs, ls, c), c # Len(msgs)
  PROVE  /\ c + 1 \in DOMAIN msgs /\ c + 1 \in 0..Len(msgs) /\ msgs[c + 1] \in Message
         /\ ls # <<>> /\ readRequest(ls).got = Outcome(msgs[c + 1].form)
         /\ msgs[c + 1].form \in Readable => readRequest(ls).req = msgs[c + 1].req
         /\ Unread(msgs, SubSeq(ls, readRequest(ls).used + 1, Len(ls)), c + 1)
<1> DEFINE n == Len(msgs)
<1>1. n \in Nat /\ c \in Nat /\ c <= n - 1 /\ c + 1 \in 1..n /\ DOMAIN msgs = 1..n
  OBVIOUS
<1> HIDE DEF n
<1>2. PICK w : /\ w[c] = ls /\ w[n] = <<>>
               /\ \A k \in c..n : w[k] \in Seq(Line)
               /\ \A k \in c..(n - 1) :
                    w[k] = Written(msgs[k + 1].req, msgs[k + 1].form) \o w[k + 1]
  BY DEF Unread, n
<1>3. PICK m : m = msgs[c + 1]
  OBVIOUS
<1>4. m \in Message
  BY <1>1, <1>3, ElementOfSeq DEF n
<1>5. m.req \in MCPRequest /\ m.form \in Forms
  BY <1>4 DEF Message
<1>6. PICK t \in Seq(Line) : t = w[c + 1]
  <2>1. c + 1 \in c..n
    BY <1>1
  <2> QED BY <2>1, <1>2
<1>7. ls = Written(m.req, m.form) \o t
  <2>1. c \in c..(n - 1)
    BY <1>1
  <2> QED BY <2>1, <1>2, <1>3, <1>6, Zenon
<1>8. ls # <<>> /\ ReadsWhole(ls, m.req, m.form, t)
  BY <1>5, <1>7, ReadsMessage
<1>9. Unread(msgs, t, c + 1)
  <2>1. \A k : (k \in (c + 1)..n => k \in c..n) /\ (k \in (c + 1)..(n - 1) => k \in c..(n - 1))
    BY <1>1
  <2> QED BY <2>1, <1>2, <1>6, Zenon DEF Unread, n
<1>10. c + 1 \in DOMAIN msgs /\ c + 1 \in 0..n
  BY <1>1
<1> QED BY <1>3, <1>4, <1>8, <1>9, <1>10, Zenon DEF ReadsWhole, n

LEMMA UnreadNone ==
  ASSUME NEW msgs \in Seq(Message), NEW ls, Unread(msgs, ls, Len(msgs))
  PROVE  ls = <<>>
BY Zenon DEF Unread

\* An answer without an id changes nothing.
LEMMA GivenUnnamed ==
  ASSUME NEW reps \in Seq(Nat), NEW msgs, NEW c, Given(reps, msgs, c)
  PROVE  Append(reps, 0) \in Seq(Nat) /\ Given(Append(reps, 0), msgs, c)
<1> DEFINE more == Append(reps, 0)
           n == Len(reps)
<1>1. /\ more \in Seq(Nat) /\ n \in Nat /\ DOMAIN reps = 1..n /\ DOMAIN more = 1..(n + 1)
      /\ more[n + 1] = 0 /\ \A i \in 1..n : more[i] = reps[i]
  OBVIOUS
<1> HIDE DEF more, n
<1>2. \A i : i \in DOMAIN more /\ more[i] # 0 <=> i \in DOMAIN reps /\ reps[i] # 0
  <2>1. \A i : i \in 1..(n + 1) <=> i \in 1..n \/ i = n + 1
    BY <1>1
  <2> QED BY <2>1, <1>1
<1>3. \A i \in DOMAIN reps : more[i] = reps[i]
  BY <1>1
<1>4. {i \in DOMAIN more : more[i] # 0} = {i \in DOMAIN reps : reps[i] # 0}
  BY <1>2
<1>5. Given(more, msgs, c)
  BY <1>3, <1>4, Zenon DEF Given
<1> QED BY <1>1, <1>5 DEF more

\* The answer to message c + 1.
LEMMA GivenNext ==
  ASSUME NEW reps \in Seq(Nat), NEW msgs, NEW c \in Nat, Given(reps, msgs, c),
         c + 1 \in Owed(msgs), Owed(msgs) \subseteq Nat
  PROVE  Append(reps, c + 1) \in Seq(Nat) /\ Given(Append(reps, c + 1), msgs, c + 1)
<1> DEFINE more == Append(reps, c + 1)
           n == Len(reps)
           old == {i \in DOMAIN reps : reps[i] # 0}
           new == {i \in DOMAIN more : more[i] # 0}
<1>1. /\ more \in Seq(Nat) /\ n \in Nat /\ DOMAIN reps = 1..n /\ DOMAIN more = 1..(n + 1)
      /\ more[n + 1] = c + 1 /\ \A i \in 1..n : more[i] = reps[i] /\ reps[i] \in Nat
  OBVIOUS
<1>2. /\ \A i, j \in old : i < j => reps[i] < reps[j]
      /\ \A i \in old : reps[i] \in Owed(msgs) /\ reps[i] <= c
      /\ \A e \in Owed(msgs) : e <= c => \E i \in old : reps[i] = e
  BY Zenon DEF Given
<1>3. \A i \in 1..n : i \in new <=> i \in old
  <2>1. \A i \in 1..n : i \in 1..(n + 1)
    BY <1>1
  <2> HIDE DEF more
  <2> QED BY <2>1, <1>1
<1>4. n + 1 \in new
  <2>1. n + 1 \in 1..(n + 1) /\ c + 1 # 0
    BY <1>1
  <2> HIDE DEF more
  <2> QED BY <2>1, <1>1
<1>5. \A i \in new : i \in old \/ i = n + 1
  <2>1. \A i \in 1..(n + 1) : i \in 1..n \/ i = n + 1
    BY <1>1
  <2> HIDE DEF more
  <2> QED BY <2>1, <1>1, <1>3
<1>6. old \subseteq 1..n
  BY <1>1
<1> HIDE DEF more, n, old, new
<1>7. \A i, j \in new : i < j => more[i] < more[j]
  <2> TAKE i, j \in new
  <2>1. CASE i \in old /\ j \in old
    BY <2>1, <1>1, <1>2, <1>6
  <2>2. CASE i \in old /\ j = n + 1
    BY <2>2, <1>1, <1>2, <1>6
  <2>3. CASE i = n + 1
    <3>1. ~(i < j)
      BY <2>3, <1>1, <1>5, <1>6
    <3> QED BY <3>1
  <2> QED BY <2>1, <2>2, <2>3, <1>5
<1>8. ASSUME NEW i \in new PROVE more[i] \in Owed(msgs) /\ more[i] <= c + 1
  <2>1. CASE i \in old
    BY <2>1, <1>1, <1>2, <1>6
  <2>2. CASE i = n + 1
    BY <2>2, <1>1
  <2> QED BY <2>1, <2>2, <1>5
<1>9. ASSUME NEW e \in Owed(msgs), e <= c + 1 PROVE \E i \in new : more[i] = e
  <2>1. CASE e = c + 1
    BY <2>1, <1>1, <1>4
  <2>2. CASE e <= c
    <3>1. PICK i \in old : reps[i] = e
      BY <2>2, <1>2
    <3> QED BY <3>1, <1>1, <1>3, <1>6
  <2>3. e = c + 1 \/ e <= c
    BY <1>9
  <2> QED BY <2>1, <2>2, <2>3
<1>10. Given(more, msgs, c + 1)
  BY <1>7, <1>8, <1>9, Zenon DEF Given, new
<1> QED BY <1>1, <1>10 DEF more

\* A message that is owed no answer.
LEMMA GivenSkip ==
  ASSUME NEW reps, NEW msgs, NEW c \in Nat, Given(reps, msgs, c), c + 1 \notin Owed(msgs),
         Owed(msgs) \subseteq Nat, reps \in Seq(Nat)
  PROVE  Given(reps, msgs, c + 1)
<1> DEFINE old == {i \in DOMAIN reps : reps[i] # 0}
<1>1. /\ \A i, j \in old : i < j => reps[i] < reps[j]
      /\ \A i \in old : reps[i] \in Owed(msgs) /\ reps[i] <= c
      /\ \A e \in Owed(msgs) : e <= c => \E i \in old : reps[i] = e
  BY Zenon DEF Given
<1> HIDE DEF old
<1>2. \A i \in old : reps[i] <= c + 1
  BY <1>1
<1>3. \A e \in Owed(msgs) : e <= c + 1 => e <= c
  OBVIOUS
<1> QED BY <1>1, <1>2, <1>3, Zenon DEF Given, old

LEMMA SendKeeps == ASSUME SessionInv, ClientSend PROVE SessionInv'
<1>1. PICK r \in Requests(Len(messages) + 1), form \in Forms :
        /\ messages' = Append(messages, [form |-> form, req |-> r])
        /\ lines' = lines \o Written(r, form)
  BY Zenon DEF ClientSend
<1>2. PICK c \in 0..Len(messages) : Unread(messages, lines, c) /\ Given(replies, messages, c)
  BY DEF SessionInv
<1>3. messages \in Seq(Message) /\ \A k \in DOMAIN messages : messages[k].req.id = k
  BY DEF SessionInv, MessagesOK
<1> DEFINE n == Len(messages)
<1>4. n \in Nat /\ n + 1 \in Nat \ {0}
  BY <1>3
<1>5. r \in MCPRequest /\ r.id = n + 1
  BY <1>4, RequestIds
<1>6. PICK m : m = [form |-> form, req |-> r]
  OBVIOUS
<1>7. m \in Message /\ m.form = form /\ m.req = r
  BY <1>5, <1>6 DEF Message
<1>8. messages' = Append(messages, m)
  BY <1>1, <1>6
<1>9. Unread(messages', lines', c)
  BY <1>1, <1>2, <1>3, <1>7, <1>8, UnreadGrows, Zenon
<1>10. /\ messages' \in Seq(Message) /\ Len(messages') = n + 1 /\ messages'[n + 1] = m
       /\ DOMAIN messages = 1..n /\ DOMAIN messages' = 1..(n + 1)
       /\ \A k \in 1..n : messages'[k] = messages[k]
  BY <1>3, <1>7, <1>8
<1> HIDE DEF n
<1>11. \A k \in 1..(n + 1) : k \in 1..n \/ k = n + 1
  BY <1>4
<1>12. MessagesOK(messages')
  BY <1>3, <1>5, <1>7, <1>10, <1>11 DEF MessagesOK
<1>13. c \in 0..n /\ c \in 0..Len(messages')
  <2>1. c \in 0..n
    BY DEF n
  <2> QED BY <2>1, <1>4, <1>10
<1>14. \A e : (e \in Owed(messages') /\ e <= c) <=> (e \in Owed(messages) /\ e <= c)
  <2>1. \A e \in 1..n : e \in 1..(n + 1)
    BY <1>4
  <2>2. \A e \in 1..(n + 1) : e <= c => e \in 1..n
    BY <1>4, <1>13
  <2> QED BY <2>1, <2>2, <1>10 DEF Owed
<1>15. Given(replies, messages', c)
  <2> DEFINE named == {i \in DOMAIN replies : replies[i] # 0}
  <2>1. /\ \A i, j \in named : i < j => replies[i] < replies[j]
        /\ \A i \in named : replies[i] \in Owed(messages) /\ replies[i] <= c
        /\ \A e \in Owed(messages) : e <= c => \E i \in named : replies[i] = e
    BY <1>2, Zenon DEF Given
  <2> HIDE DEF named
  <2>2. /\ \A i \in named : replies[i] \in Owed(messages') /\ replies[i] <= c
        /\ \A e \in Owed(messages') : e <= c => \E i \in named : replies[i] = e
    BY <2>1, <1>14, Zenon
  <2> QED BY <2>1, <2>2, Zenon DEF Given, named
<1>16. replies' = replies
  BY Zenon DEF ClientSend
<1> QED BY <1>9, <1>12, <1>13, <1>15, <1>16, Zenon DEF SessionInv

LEMMA ServeKeeps == ASSUME SessionInv, serve PROVE SessionInv'
<1>1. PICK c \in 0..Len(messages) : Unread(messages, lines, c) /\ Given(replies, messages, c)
  BY DEF SessionInv
<1>2. /\ messages \in Seq(Message) /\ replies \in Seq(Nat)
      /\ \A k \in DOMAIN messages : messages[k].req.id = k
  BY DEF SessionInv, MessagesOK
<1>3. Len(messages) \in Nat /\ c \in Nat /\ DOMAIN messages = 1..Len(messages)
  BY <1>2
<1>4. Owed(messages) \subseteq Nat
  BY <1>3 DEF Owed
<1>5. messages' = messages
  BY Zenon DEF serve
<1> DEFINE got == readRequest(lines).got
           rest == SubSeq(lines, readRequest(lines).used + 1, Len(lines))
           rq == readRequest(lines).req
<1>6. \/ replies' = Append(replies, 0) /\ lines' = lines
      \/ got \in {"none", "short"} /\ lines' = rest /\ replies' \in {replies, Append(replies, 0)}
      \/ got \in {"bad", "failed"} /\ lines' = rest /\ replies' = Append(replies, 0)
      \/ got = "request" /\ lines' = rest /\ handle(rq)
  BY Zenon DEF serve
<1>7. SUFFICES \E d \in 0..Len(messages) :
                  Unread(messages, lines', d) /\ Given(replies', messages, d) /\ replies' \in Seq(Nat)
  <2>1. MessagesOK(messages)
    BY DEF SessionInv
  <2> QED BY <2>1, <1>5 DEF SessionInv
<1>8. Append(replies, 0) \in Seq(Nat) /\ Given(Append(replies, 0), messages, c)
  BY <1>1, <1>2, GivenUnnamed
<1> HIDE DEF got, rest, rq
<1>9. CASE replies' = Append(replies, 0) /\ lines' = lines
  BY <1>1, <1>8, <1>9
<1>10. CASE c = Len(messages) /\ lines' = rest
  <2>1. lines = <<>>
    BY <1>1, <1>2, <1>10, UnreadNone
  <2>2. got = "none" /\ rest = lines
    BY <2>1, ReadsNothing, Zenon DEF got, rest
  <2>3. replies' \in {replies, Append(replies, 0)}
    BY <1>6, <1>9, <2>2
  <2> QED BY <2>2, <2>3, <1>1, <1>2, <1>8, <1>10
<1>11. CASE c # Len(messages) /\ lines' = rest
  <2>1. PICK m : m = messages[c + 1]
    OBVIOUS
  <2>2. /\ c + 1 \in DOMAIN messages /\ c + 1 \in 0..Len(messages)
        /\ got = Outcome(m.form)
        /\ m.form \in Readable => rq = m.req
        /\ Unread(messages, rest, c + 1)
    BY <1>1, <1>2, <1>11, <2>1, UnreadFirst, Zenon DEF got, rq, rest
  <2>3. c + 1 \in Owed(messages) <=> m.form \in Readable /\ Answered(m.req)
    BY <2>1, <2>2, Zenon DEF Owed
  <2>4. CASE m.form \notin Readable
    <3>1. got \in {"bad", "failed"}
      BY <2>2, <2>4 DEF Outcome
    <3>2. replies' = Append(replies, 0)
      BY <3>1, <1>6
    <3>3. Given(replies', messages, c + 1)
      BY <3>2, <2>3, <2>4, <1>3, <1>4, <1>8, GivenSkip
    <3> QED BY <3>2, <3>3, <2>2, <1>8, <1>11
  <2>5. CASE m.form \in Readable
    <3>1. got = "request" /\ rq = m.req
      BY <2>2, <2>5 DEF Outcome
    <3>2. handle(m.req) \/ (replies' = Append(replies, 0) /\ lines' = lines)
      BY <3>1, <1>6
    <3>3. CASE handle(m.req)
      <4>1. replies' = IF Answered(m.req) THEN Append(replies, m.req.id) ELSE replies
        BY <3>3, Zenon DEF handle
      <4>2. m.req.id = c + 1
        BY <1>2, <2>1, <2>2
      <4>3. CASE Answered(m.req)
        <5>1. replies' = Append(replies, c + 1)
          BY <4>1, <4>2, <4>3
        <5>2. Append(replies, c + 1) \in Seq(Nat) /\ Given(Append(replies, c + 1), messages, c + 1)
          BY <2>3, <2>5, <4>3, <1>1, <1>2, <1>3, <1>4, GivenNext
        <5> QED BY <5>1, <5>2, <2>2, <1>11
      <4>4. CASE ~Answered(m.req)
        <5>1. replies' = replies
          BY <4>1, <4>4
        <5>2. Given(replies, messages, c + 1)
          BY <2>3, <4>4, <1>1, <1>2, <1>3, <1>4, GivenSkip
        <5> QED BY <5>1, <5>2, <2>2, <1>2, <1>11
      <4> QED BY <4>3, <4>4
    <3> QED BY <3>2, <3>3, <1>9
  <2> QED BY <2>4, <2>5
<1>12. (replies' = Append(replies, 0) /\ lines' = lines) \/ lines' = rest
  BY <1>6
<1> QED BY <1>9, <1>10, <1>11, <1>12

LEMMA SessionStep == SessionInv /\ [MCPNext]_mcpVars => SessionInv'
<1> SUFFICES ASSUME SessionInv, [MCPNext]_mcpVars PROVE SessionInv'
  OBVIOUS
<1>1. ASSUME messages' = messages, lines' = lines, replies' = replies PROVE SessionInv'
  BY <1>1 DEF SessionInv
<1>2. CASE ClientClose \/ Stop \/ UNCHANGED mcpVars
  <2>1. messages' = messages /\ lines' = lines /\ replies' = replies
    BY <1>2, Zenon DEF ClientClose, Stop, mcpVars
  <2> QED BY <2>1, <1>1
<1>3. CASE ClientSend
  BY <1>3, SendKeeps
<1>4. CASE serve
  BY <1>4, ServeKeeps
<1> QED BY <1>2, <1>3, <1>4 DEF MCPNext

-----------------------------------------------------------------------------
(* MCPServer: nothing before the key. *)

\* Until a good key is presented nobody is authenticated, where one is asked
\* for, and the backend is as it was.
KeyInv ==
  ~opened => /\ ~authed /\ authKey # ""
             /\ \A u \in MCPAgents : identities[u] = "none"

LEMMA KeyStep == KeyInv /\ [MCPNext]_mcpVars => KeyInv'
<1> SUFFICES ASSUME KeyInv, [MCPNext]_mcpVars, ~opened' PROVE KeyInv'
  BY Zenon DEF KeyInv
<1>1. ASSUME authKey' = authKey, opened' = opened, authed' = authed, identities' = identities
      PROVE  KeyInv'
  BY <1>1, Zenon DEF KeyInv
<1>2. ASSUME authKey' = authKey, NEW r, handle(r) PROVE KeyInv'
  <2>1. CASE r.method = "initialize"
    <3>1. handleInitialize(r)
      BY <1>2, <2>1, Zenon DEF handle
    <3>2. ~opened /\ ~authed' /\ identities' = identities
      BY <3>1, Zenon DEF handleInitialize, KeyInv
    <3> QED BY <3>2, <1>2, Zenon DEF KeyInv
  <2>2. CASE r.method = "tools/call"
    <3>1. handleToolsCall(r)
      BY <1>2, <2>2 DEF handle
    <3>2. opened' = opened /\ authed' = authed
      BY <3>1, Zenon DEF handleToolsCall
    <3>3. ~requireAuth(r)
      BY <3>2, Zenon DEF KeyInv, requireAuth
    <3>4. identities' = identities
      BY <3>1, <3>3, Zenon DEF handleToolsCall
    <3> QED BY <3>2, <3>4, <1>1, <1>2
  <2>3. CASE r.method # "initialize" /\ r.method # "tools/call"
    <3>1. opened' = opened /\ authed' = authed /\ identities' = identities
      BY <1>2, <2>3 DEF handle
    <3> QED BY <3>1, <1>1, <1>2
  <2> QED BY <2>1, <2>2, <2>3
<1>3. CASE serve
  <2>1. authKey' = authKey
    BY <1>3, Zenon DEF serve
  <2>2. (opened' = opened /\ authed' = authed /\ identities' = identities)
          \/ handle(readRequest(lines).req)
    BY <1>3, Zenon DEF serve
  <2> QED BY <2>1, <2>2, <1>1, <1>2
<1>4. CASE ClientSend \/ ClientClose \/ Stop \/ UNCHANGED mcpVars
  <2>1. authKey' = authKey /\ opened' = opened /\ authed' = authed /\ identities' = identities
    BY <1>4, Zenon DEF ClientSend, ClientClose, Stop, mcpVars
  <2> QED BY <2>1, <1>1
<1> QED BY <1>3, <1>4 DEF MCPNext

\* A session answers the requests it can read once each and in order, whatever
\* stands between them, and touches the backend for nobody without the key.
THEOREM SessionTheorem == MCPSpec => []SessionInOrder
<1>1. MCPInit => SessionInv
  BY SessionInit
<1>2. MCPInit => KeyInv
  BY Zenon DEF MCPInit, KeyInv
<1>3. SessionInv => AnsweredInOrder
  <2> SUFFICES ASSUME SessionInv PROVE AnsweredInOrder
    OBVIOUS
  <2>1. PICK c \in 0..Len(messages) : Unread(messages, lines, c) /\ Given(replies, messages, c)
    BY DEF SessionInv
  <2>2. messages \in Seq(Message) /\ \A k \in DOMAIN messages : messages[k].req.id = k
    BY DEF SessionInv, MessagesOK
  <2>3. Expected = Owed(messages)
    BY <2>2 DEF Expected, Owed, Readable
  <2>4. Owed(messages) \subseteq 1..Len(messages)
    BY <2>2 DEF Owed
  <2>5. /\ \A i, j \in Replied : i < j => replies[i] < replies[j]
        /\ \A i \in Replied : replies[i] \in Owed(messages) /\ replies[i] <= c
        /\ \A e \in Owed(messages) : e <= c => \E i \in Replied : replies[i] = e
    BY <2>1, Zenon DEF Given, Replied
  <2>6. ASSUME NEW i \in Replied, NEW e \in Owed(messages), e < replies[i]
        PROVE  \E j \in Replied : replies[j] = e
    <3>1. e <= c
      <4>1. replies[i] \in 1..Len(messages) /\ replies[i] <= c /\ e \in 1..Len(messages)
        BY <2>4, <2>5
      <4> QED BY <4>1, <2>6, <2>2
    <3> QED BY <3>1, <2>5
  <2>7. ASSUME lines = <<>>, NEW e \in Owed(messages) PROVE \E i \in Replied : replies[i] = e
    <3>1. c = Len(messages)
      BY <2>1, <2>2, <2>7, UnreadFirst
    <3>2. e <= c
      BY <3>1, <2>4, <2>2
    <3> QED BY <3>2, <2>5
  <2> HIDE DEF Replied
  <2> QED BY <2>3, <2>5, <2>6, <2>7 DEF AnsweredInOrder
<1>4. KeyInv => NothingBeforeTheKey
  BY Zenon DEF KeyInv, NothingBeforeTheKey
<1>5. SessionInv /\ KeyInv => SessionInOrder
  BY <1>3, <1>4 DEF SessionInOrder
<1> QED BY <1>1, <1>2, <1>5, SessionStep, KeyStep, PTL DEF MCPSpec

=============================================================================
