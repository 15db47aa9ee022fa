----------------------------- MODULE HTTPChain -----------------------------
(***************************************************************************)
(* The chain behind HTTP: chain_adapter/http.HTTPAdapter talking to        *)
(* cmd/mock-chain, which serves a MockAdapter.  A call is a request on the *)
(* wire, a handler that runs the adapter's operation, and an answer on the *)
(* way back.  The client gives up after its 10 s timeout; the handler does *)
(* not notice, so a request may still be carried out afterwards.  An       *)
(* answer may be lost or cut short: do ignores the error of ReadAll and    *)
(* decodes what it has.                                                    *)
(***************************************************************************)
EXTENDS ChainAdapter, Sequences

CONSTANT HCMaxCalls   \* calls in a behaviour

ASSUME HCAssumption == HCMaxCalls \in Nat

VARIABLES
  sent,       \* calls so far: their numbers identify requests
  wire,       \* requests the server has not handled
  answers,    \* answers the client has not read
  waiting,    \* waiting[w]: the request whose answer w awaits, NoRequest when none
  closed,     \* adapter.Close has run
  applied,    \* history: the calls the chain carried out, in order
  abandoned,  \* history: calls the client gave up
  cut,        \* history: calls whose answer was cut short
  restarted,  \* history: mock-chain was started again
  outcome     \* outcome[n]: what call n returned

hcVars == <<clock, faults, chain, sent, wire, answers, waiting, closed, applied,
            abandoned, cut, restarted, outcome>>
hcRest == <<closed, restarted>>

HCOps == [op : {"register", "update"}, u : Agents, l : Levels]
           \cup [op : {"ban", "unban", "revoke", "state"}, u : Agents, l : {0}]

NoRequest == [id |-> 0]

HCInit ==
  /\ ChainInit /\ clock = 0 /\ faults = 0
  /\ sent = 0 /\ wire = {} /\ answers = {} /\ waiting = [w \in Writers |-> NoRequest]
  /\ closed = FALSE /\ applied = <<>> /\ abandoned = {} /\ cut = {} /\ restarted = FALSE
  /\ outcome = [n \in 1..HCMaxCalls |-> "none"]

\* The method of HTTPAdapter puts its request on the wire.
SendCall(w) ==
  /\ waiting[w] = NoRequest /\ sent < HCMaxCalls
  /\ sent' = sent + 1
  /\ \E o \in HCOps :
       /\ waiting' = [waiting EXCEPT ![w] = [id |-> sent + 1, by |-> w, call |-> o]]
       /\ wire' = wire \cup {waiting'[w]}
  /\ UNCHANGED <<clock, faults, chain, answers, hcRest, applied, abandoned, cut, outcome>>

\* The operation a handler calls on its adapter, when it succeeds.
Served(o) ==
  CASE o.op = "register" -> ChainRegister(o.u, o.l)
    [] o.op = "update"   -> ChainUpdateLevel(o.u, o.l)
    [] o.op = "ban"      -> ChainBan(o.u)
    [] o.op = "unban"    -> ChainUnban(o.u)
    [] o.op = "revoke"   -> ChainRevoke(o.u)
    [] OTHER             -> OnChain(o.u) /\ Noop

Declined(o) ==
  \/ o.op = "register" /\ OnChain(o.u)
  \/ o.op # "register" /\ ~OnChain(o.u)
  \/ o.op \in {"update", "ban"} /\ chain[o.u].state = "revoked"

\* writeChainErr: closed in preflight, agent unknown, or refused.
writeChainErr(o) ==
  IF closed THEN 503
  ELSE IF o.op # "register" /\ ~OnChain(o.u) THEN 404 ELSE 400

Respond(r, status) ==
  /\ wire' = wire \ {r}
  /\ \/ answers' = answers \cup {[id |-> r.id, status |-> status]} /\ UNCHANGED <<faults, cut>>
     \/ Fault /\ UNCHANGED <<answers, cut>>
     \/ /\ status = 200 /\ Fault /\ cut' = cut \cup {r.id}
        /\ answers' = answers \cup {[id |-> r.id, status |-> 200]}

HandleCall(r) ==
  /\ ~closed /\ Served(r.call)
  /\ Respond(r, 200)
  /\ applied' = Append(applied, [id |-> r.id, by |-> r.by])
  /\ UNCHANGED <<sent, waiting, hcRest, abandoned, outcome>>

RefuseCall(r) ==
  /\ closed \/ Declined(r.call)
  /\ Respond(r, writeChainErr(r.call))
  /\ UNCHANGED <<clock, chain, sent, waiting, hcRest, applied, abandoned, outcome>>

\* do: the error type an answer becomes.  A body that does not decode is
\* ErrTxFailed whatever the chain did.
do(a) ==
  CASE a.status = 200 -> IF a.id \in cut THEN "tx_failed" ELSE "ok"
    [] a.status = 404 -> "not_found"
    [] a.status = 503 -> "unavailable"
    [] OTHER          -> "tx_failed"

ReceiveAnswer(w) ==
  /\ \E a \in answers :
       /\ a.id = waiting[w].id
       /\ answers' = answers \ {a}
       /\ outcome' = [outcome EXCEPT ![a.id] = do(a)]
  /\ waiting' = [waiting EXCEPT ![w] = NoRequest]
  /\ UNCHANGED <<clock, faults, chain, sent, wire, hcRest, applied, abandoned, cut>>

\* Bug: the client sends the request again when its timeout fires.
ClientTimeout_Resends(w) ==
  /\ waiting[w] # NoRequest /\ Fault
  /\ wire' = wire \cup {waiting[w]}
  /\ UNCHANGED <<clock, chain, sent, answers, waiting, hcRest, applied, abandoned, cut, outcome>>

Lost(n) == n \notin {r.id : r \in wire} \cup {a.id : a \in answers}

\* The client's timeout: ErrChainUnavailable, the request left where it is.  It
\* always comes when no answer will.
ClientTimeout(w) ==
  /\ waiting[w] # NoRequest
  /\ IF Lost(waiting[w].id) THEN UNCHANGED faults ELSE Fault
  /\ outcome' = [outcome EXCEPT ![waiting[w].id] = "unavailable"]
  /\ abandoned' = abandoned \cup {waiting[w].id}
  /\ answers' = {a \in answers : a.id # waiting[w].id}
  /\ waiting' = [waiting EXCEPT ![w] = NoRequest]
  /\ UNCHANGED <<clock, chain, sent, wire, hcRest, applied, cut>>

\* SIGTERM: Shutdown waits 5 s for handlers, then the adapter is closed.
CloseChain ==
  /\ ~closed /\ Fault
  /\ closed' = TRUE
  /\ UNCHANGED <<clock, chain, sent, wire, answers, waiting, applied, abandoned, cut,
                 restarted, outcome>>

\* mock-chain starts again with an empty MockAdapter; connections are gone.
RestartChain ==
  /\ closed
  /\ closed' = FALSE /\ restarted' = TRUE
  /\ chain' = [u \in Agents |-> Absent] /\ wire' = {}
  /\ UNCHANGED <<clock, faults, sent, answers, waiting, applied, abandoned, cut, outcome>>

HCNext ==
  \/ CloseChain \/ RestartChain
  \/ \E w \in Writers : SendCall(w) \/ ReceiveAnswer(w) \/ ClientTimeout(w)
  \/ \E r \in wire : HandleCall(r) \/ RefuseCall(r)

HCSpec == HCInit /\ [][HCNext]_hcVars

-----------------------------------------------------------------------------
\* What a call returns says what happened on the chain: no error means that
\* the chain carried it out, and ErrTxFailed or ErrAgentNotFoundOnchain that it
\* did not, unless the answer was cut short; only ErrChainUnavailable leaves it
\* open (http.go:117-168 with main.go writeChainErr).
ErrorsTellTheTruth ==
  LET done == {applied[k].id : k \in 1..Len(applied)} IN
  \A n \in 1..sent :
    /\ outcome[n] = "ok" => n \in done
    /\ outcome[n] \in {"tx_failed", "not_found"} /\ n \notin cut => n \notin done

\* Each call is carried out at most once, and the calls of one caller in the
\* order it made them: a later call overtakes an earlier one only if the caller
\* gave that one up (http.go never sends again, and mock-chain carries out the
\* request of a client that has left).
EffectsInOrder ==
  \A i, j \in 1..Len(applied) : i < j =>
    /\ applied[i].id # applied[j].id
    /\ applied[i].by = applied[j].by /\ applied[i].id > applied[j].id =>
         applied[j].id \in abandoned

\* A caller that believes its answers is never wrong about the chain, and what
\* it gave up cannot be repeated or overtake what it did not.
AnswersAreTrue == ErrorsTellTheTruth /\ EffectsInOrder

-----------------------------------------------------------------------------
(* The inductive invariant. *)

HCRequest == [id : 1..HCMaxCalls, by : Writers, call : HCOps]

HCOutcomes == {"none", "ok", "tx_failed", "not_found", "unavailable"}

HCTypeOK ==
  /\ sent \in 0..HCMaxCalls
  /\ wire \subseteq HCRequest
  /\ answers \subseteq [id : 1..HCMaxCalls, status : {200, 400, 404, 503}]
  /\ waiting \in [Writers -> HCRequest \cup {NoRequest}]
  /\ applied \in Seq([id : 1..HCMaxCalls, by : Writers])
  /\ outcome \in [1..HCMaxCalls -> HCOutcomes]

Carried(n) == \E k \in 1..Len(applied) : applied[k].id = n

\* A request on the wire was not carried out yet and is the only one with its
\* number; its caller awaits its answer or gave it up.
WireInv ==
  \A r \in wire :
    /\ r.id <= sent /\ ~Carried(r.id)
    /\ outcome[r.id] \in {"none", "unavailable"}
    /\ \A q \in wire : q.id = r.id => q = r
    /\ \A a \in answers : a.id # r.id
    /\ waiting[r.by] = r \/ r.id \in abandoned

\* A caller awaits the last call it made.
WaitingInv ==
  \A w \in Writers : waiting[w] # NoRequest =>
    /\ waiting[w].by = w /\ waiting[w].id <= sent
    /\ \A r \in wire : r.by = w => r.id <= waiting[w].id
    /\ \A k \in 1..Len(applied) : applied[k].by = w => applied[k].id <= waiting[w].id

\* An answer on its way back says whether the call was carried out.
AnswerInv ==
  /\ \A a \in answers : a.id <= sent /\ (a.status = 200 <=> Carried(a.id))
  /\ \A n \in 1..HCMaxCalls :
       /\ n > sent => outcome[n] = "none" /\ ~Carried(n)
       /\ outcome[n] = "ok" => Carried(n)
       /\ outcome[n] \in {"tx_failed", "not_found"} /\ n \notin cut => ~Carried(n)

HCInv == HCTypeOK /\ WireInv /\ WaitingInv /\ AnswerInv /\ EffectsInOrder
=============================================================================
