------------------------------ MODULE Gateway ------------------------------
(***************************************************************************)
(* The HTTP edge: internal/gateway's Server with its middleware chain,     *)
(* router and handlers, and the CLI's remote mode (internal/cli) in front  *)
(* of it.                                                                  *)
(*                                                                         *)
(* A request is the record of what the middlewares and handlers look at.   *)
(* Its path is a sequence of segments.  The services behind the handlers   *)
(* are external: each call has one of the outcomes of service/*.go.        *)
(***************************************************************************)
EXTENDS Naturals, Sequences, SequencesExt

CONSTANTS Chains,      \* middleware chains the server may be built with
          Inbound,     \* requests of clients other than the CLI
          Services,    \* operations whose service is injected; the others are nil
          Slots        \* requests served at a time

Middlewares == {"recover", "request_id", "logging", "metrics", "security", "cors", "ua", "api_key",
                "aap", "tls"}

\* The chain is assembled outside; of the order the package asks for, that CORS
\* is before the gates matters here.
ASSUME ChainsAssumption ==
  /\ Chains \subseteq Seq(Middlewares)
  /\ \A c \in Chains : \A i, j \in DOMAIN c :
       c[i] = "cors" /\ c[j] \in {"ua", "api_key", "aap"} => i < j
ASSUME InboundAssumption ==
  \A q \in Inbound : q.ua \in {"go", "empty", "scanner"}

VARIABLES mw,          \* the chain, outermost first; fixed at start-up
          main,        \* the goroutine in Start
          parked,      \* Start found nothing to do in its select and slept there
          listener,    \* the goroutine in ListenAndServe
          errCh,       \* its result, buffered
          ctxDone,     \* the context of Start is cancelled
          result,      \* what Start returned
          serving,     \* serving[s]: the request in slot s
          cli          \* the remote command of the CLI and what it reported

gwVars == <<mw, main, parked, listener, errCh, ctxDone, result, serving, cli>>

-----------------------------------------------------------------------------
(* The middlewares. *)

skipPaths == {<<"live">>, <<"readyz">>, <<"ready">>, <<"healthz">>, <<"metrics">>, <<"favicon.ico">>}

isProbePath(p) == p \in {<<"live">>, <<"ready">>, <<"readyz">>, <<"healthz">>, <<"metrics">>}

\* ExemptPaths of DefaultTLSConfig, compared as whole paths.
tlsExempt == {<<"live">>, <<"ready">>, <<"healthz">>, <<"health">>, <<"metrics">>, <<"debug", "">>}

\* CORS answers a preflight itself.
CORS(q) == IF q.method = "OPTIONS" THEN 204 ELSE 0

UABlock(q) ==
  IF ~isProbePath(q.path) /\ q.ua \in {"empty", "scanner"} THEN 403 ELSE 0

\* SkipPaths holds the probe paths.
APIKey(q) == IF ~isProbePath(q.path) /\ q.key # "good" THEN 401 ELSE 0

\* AAP asks for a proof header that decodes to four fields of the right form.
\* It verifies no signature and consumes no challenge, so a proof that was never
\* signed for ("forged") is as good as a genuine one ("signed").
WellFormed == {"signed", "forged"}

AAP(q) == IF ~isProbePath(q.path) /\ q.proof \notin WellFormed THEN 401 ELSE 0

\* TLS redirects plain HTTP; X-Forwarded-Proto is not trusted by default.
TLS(q) == IF q.path \notin tlsExempt /\ ~q.tls THEN 308 ELSE 0

\* What one middleware does on the way in: 0 calls the next one.  Recover,
\* RequestID, Logging, Metrics and SecurityHeaders always do.
Answers(m, q) ==
  CASE m = "cors" -> CORS(q) [] m = "ua" -> UABlock(q) [] m = "api_key" -> APIKey(q)
    [] m = "aap" -> AAP(q) [] m = "tls" -> TLS(q) [] OTHER -> 0

\* Chain.Then wraps from the last to the first, so the first is outermost: the
\* index of the middleware that answers, 0 when the handler is reached.
Then(chain, q) == SelectInSeq(chain, LAMBDA m : Answers(m, q) # 0)

-----------------------------------------------------------------------------
(* Router and handlers. *)

agentsPath == <<"api", "v2", "agents">>

UnderAgents(p) == Len(p) >= 4 /\ p[1] = "api" /\ p[2] = "v2" /\ p[3] = "agents"

AgentPath(u) == <<"api", "v2", "agents", u>>
AgentOp(u, op) == <<"api", "v2", "agents", u, op>>

\* The segment after a trailing slash.
EmptySegment == ""

\* Router.register on net/http's ServeMux: the longest pattern wins, and a
\* subtree pattern redirects its path without the trailing slash.
route(p) ==
  CASE p = <<"live">> -> "live"
    [] p \in {<<"readyz">>, <<"ready">>, <<"healthz">>} -> "ready"
    [] p = <<"metrics">> -> "metrics"
    [] p = AgentPath("register") -> "register"
    [] p = agentsPath -> "redirect"
    [] UnderAgents(p) /\ p # AgentPath("register") -> "agent"
    [] Len(p) >= 2 /\ p[1] = "debug" /\ p[2] = "pprof" -> "pprof"
    [] OTHER -> "none"

\* AgentByPath: the operation of a path under /api/v2/agents/.
AgentByPath(q) ==
  LET u == q.path[4] IN
  CASE u = EmptySegment -> "missing uuid"
    [] u # EmptySegment /\ Len(q.path) = 4 /\ q.method = "GET" -> "info"
    [] u # EmptySegment /\ Len(q.path) = 5 /\ q.method = "POST"
         /\ q.path[5] \in {"upgrade", "check", "ban", "unban", "revoke"} -> q.path[5]
    [] OTHER -> "not found"

\* The errors a service call may end with, and writeServiceError.
Outcomes == {"ok", "not_found", "invalid", "exists", "banned", "not_banned", "not_upgradable",
             "chain_failed", "deadline", "canceled", "other", "panic"}

writeServiceError(e) ==
  CASE e = "deadline" -> 504 [] e = "canceled" -> 499
    [] e \in {"not_found", "invalid"} -> 400
    [] e \in {"exists", "banned"} -> 409
    [] e \in {"not_banned", "not_upgradable"} -> 422
    [] e = "chain_failed" -> 502
    [] OTHER -> 500

\* A handler whose service is nil answers 503 before it looks at the request.
Unavailable(op) == op \notin Services

\* Register: the body carries a raw-url base64 key of 32 bytes.  201 on success.
Register(q, e) ==
  CASE Unavailable("register") -> 503
    [] ~Unavailable("register") /\ q.method # "POST" -> 405
    [] ~Unavailable("register") /\ q.method = "POST" /\ q.body \in {"none", "garbled", "std_key"} -> 400
    [] OTHER -> IF e = "ok" THEN 201 ELSE writeServiceError(e)

\* upgrade, checkPerm, ban, unban, revoke: a body is decoded first.
withBody(q, e) ==
  IF q.body \in {"none", "garbled"} THEN 400 ELSE IF e = "ok" THEN 200 ELSE writeServiceError(e)

getInfo(q, e) == IF e = "ok" THEN 200 ELSE writeServiceError(e)

\* Ready and Healthz ask ReadyFn; Live does not.
Ready(e) == IF e = "ok" THEN 200 ELSE 503

Live == 200

\* The status the mux and its handlers give a request when its service call, if
\* it makes one, ends with e.
Handle(q, e) ==
  LET r == route(q.path) IN
  CASE r = "live" -> Live [] r = "ready" -> Ready(e)
    [] r \in {"metrics", "pprof"} -> 200
    [] r = "register" -> Register(q, e)
    [] r = "redirect" -> 301
    [] r = "none" -> 404
    [] r = "agent" ->
         LET op == AgentByPath(q) IN
         CASE op = "missing uuid" -> 400 [] op = "not found" -> 404
           [] op \notin {"missing uuid", "not found"} /\ Unavailable(op) -> 503
           [] op = "info" /\ ~Unavailable(op) -> getInfo(q, e)
           [] OTHER -> withBody(q, e)

\* The operation whose service is called, "none" when the handler returns first.
\* An upgrade body without new_level asks for level 0.
Calls(q) ==
  LET r == route(q.path)
      op == IF r = "agent" THEN AgentByPath(q) ELSE r IN
  CASE Unavailable(op) -> "none"
    [] op = "register" /\ ~Unavailable(op) ->
         IF q.method = "POST" /\ q.body \notin {"none", "garbled", "std_key"} THEN "register" ELSE "none"
    [] op = "info" /\ ~Unavailable(op) -> "info"
    [] op \in {"upgrade", "check", "ban", "unban", "revoke"} /\ ~Unavailable(op) ->
         IF q.body \in {"none", "garbled"} THEN "none"
         ELSE IF op = "upgrade" /\ q.body = "level" THEN "upgrade to 0" ELSE op
    [] OTHER -> "none"

\* The outcomes of that call: level 0 is never one above the current level.
OutcomesOf(q) ==
  CASE Calls(q) = "upgrade to 0" -> {"not_found", "invalid", "not_upgradable", "other", "panic"}
    [] Calls(q) = "none" /\ route(q.path) # "ready" -> {"ok", "panic"}
    [] OTHER -> Outcomes

-----------------------------------------------------------------------------
(* The CLI's remote mode. *)

\* The CLI sends the configured API key and Go's user agent, never an AAP proof.
HTTPRequest(m, p, b) ==
  [method |-> m, path |-> p, body |-> b, ua |-> "go", key |-> "good", proof |-> "none", tls |-> TRUE]

Commands == {"register", "info", "upgrade", "ban", "unban", "unregister", "logs", "batch", "health"}

\* What each method of cli.Client sends for agent "a".
Sends(c) ==
  CASE c = "register"   -> HTTPRequest("POST", agentsPath, "std_key")
    [] c = "info"       -> HTTPRequest("GET", AgentPath("a"), "none")
    [] c = "upgrade"    -> HTTPRequest("POST", AgentOp("a", "upgrade"), "level")
    [] c = "ban"        -> HTTPRequest("POST", AgentOp("a", "ban"), "reason")
    [] c = "unban"      -> HTTPRequest("POST", AgentOp("a", "unban"), "none")
    [] c = "unregister" -> HTTPRequest("POST", AgentOp("a", "unregister"), "none")
    [] c = "logs"       -> HTTPRequest("GET", AgentOp("a", "logs"), "none")
    [] c = "batch"      -> HTTPRequest("POST", AgentPath("batch"), "uuids")
    [] c = "health"     -> HTTPRequest("GET", <<"healthz">>, "none")

\* doJSON: 200 and 204 are success, everything else an error.
doJSON(s) == s \in {200, 204}

\* A redirected POST is followed with a GET, without the body.
Followed == HTTPRequest("GET", AgentPath(EmptySegment), "none")

NoCommand == [op |-> "none", state |-> "idle", did |-> "none"]

-----------------------------------------------------------------------------
(* Serving. *)

Vacant == [pc |-> "free", q |-> <<>>, by |-> "none", status |-> 0, log |-> 0, metric |-> 0]

GwInit ==
  /\ mw \in Chains
  /\ main = "starting"
  /\ parked = FALSE
  /\ listener = "starting"
  /\ errCh = "empty"
  /\ ctxDone = FALSE
  /\ result = "running"
  /\ serving = [s \in Slots |-> Vacant]
  /\ cli = NoCommand

gwServer == <<mw, main, parked, listener, errCh, ctxDone, result>>

Accept(s, q, by) ==
  /\ listener = "listening" /\ serving[s] = Vacant
  /\ serving' = [serving EXCEPT ![s] = [Vacant EXCEPT !.pc = "run", !.q = q, !.by = by]]
  /\ UNCHANGED gwServer

Arrive(s) == \E q \in Inbound : Accept(s, q, "client") /\ UNCHANGED cli

\* The CLI sends a command; net/http follows a redirect of a POST with a GET.
CLISend(s) ==
  \E c \in Commands :
    /\ cli = NoCommand
    /\ Accept(s, Sends(c), "cli")
    /\ cli' = [op |-> c, state |-> "sent", did |-> "none"]

\* Position of m in the chain; 0 when it is not there.
At(m) == SelectInSeq(mw, LAMBDA x : x = m)

\* Recover: a panic that reaches it becomes a 500.
Recover == IF At("recover") # 0 THEN "caught" ELSE "escapes"

Seen_Deferred(k, i, status, panicked) ==
  IF k = 0 \/ (i # 0 /\ k > i) THEN 0
  ELSE IF panicked /\ k > At("recover") THEN 200 ELSE status

\* The status a layer at position k sees for an answer made by layer i (0 for
\* the handler), 0 when it sees none: the layer was not entered, or a panic
\* passed it by on its way to Recover.
Seen(k, i, status, panicked) ==
  IF k = 0 \/ (i # 0 /\ k > i) \/ (panicked /\ (At("recover") = 0 \/ k > At("recover")))
  THEN 0 ELSE status

\* The chain is run, the handler called when it is reached, and on the way out
\* Logging and Metrics record the status their writer saw.
ServeHTTP(s) ==
  LET q == serving[s].q
      i == Then(mw, q) IN
  /\ serving[s].pc = "run"
  /\ \E e \in IF i = 0 THEN OutcomesOf(q) ELSE {"ok"} :
       LET panicked == i = 0 /\ e = "panic"
           caught == panicked /\ Recover = "caught"
           status == CASE i # 0 -> Answers(mw[i], q)
                       [] caught -> 500
                       [] panicked /\ ~caught -> 0
                       [] OTHER -> Handle(q, e) IN
       /\ serving' = [serving EXCEPT ![s] =
            [@ EXCEPT !.pc = "reply", !.status = status,
                      !.log = IF q.path \in skipPaths THEN 0 ELSE Seen(At("logging"), i, status, panicked),
                      !.metric = Seen(At("metrics"), i, status, panicked)]]
       /\ cli' = IF serving[s].by = "cli" /\ i = 0 /\ e = "ok" /\ Calls(q) # "none"
                 THEN [cli EXCEPT !.did = Calls(q)] ELSE cli
  /\ UNCHANGED gwServer

\* The client gets the answer; a redirect is followed before doJSON sees it.
Reply(s) ==
  LET r == serving[s] IN
  /\ r.pc = "reply"
  /\ \/ /\ r.by = "cli" /\ r.status = 301
        /\ serving' = [serving EXCEPT ![s] =
             [Vacant EXCEPT !.pc = "run", !.by = "cli", !.q = Followed]]
        /\ UNCHANGED cli
     \/ /\ r.by = "cli" /\ r.status # 301
        /\ serving' = [serving EXCEPT ![s] = Vacant]
        /\ cli' = [cli EXCEPT !.state = IF doJSON(r.status) THEN "ok" ELSE "error"]
     \/ r.by = "client" /\ serving' = [serving EXCEPT ![s] = Vacant] /\ UNCHANGED cli
  /\ UNCHANGED gwServer

\* The connection breaks: the CLI reports an error, the handler runs on.
Disconnect(s) ==
  /\ serving[s].by = "cli" /\ serving[s].pc \in {"run", "reply"}
  /\ serving' = [serving EXCEPT ![s].by = "client"]
  /\ cli' = [cli EXCEPT !.state = "error"]
  /\ UNCHANGED gwServer

-----------------------------------------------------------------------------
(* Server.Start. *)

InFlight == \E s \in Slots : serving[s] # Vacant

\* http.Shutdown has been called: the listeners are closed.
Closing == main \in {"shutdown", "wait", "returned"}

\* ListenAndServe binds; after Shutdown it returns ErrServerClosed at once.
Listen ==
  /\ listener = "starting"
  /\ \/ ~Closing /\ listener' = "listening" /\ UNCHANGED errCh
     \/ Closing /\ listener' = "closed" /\ errCh' = "nil"
  /\ UNCHANGED <<mw, main, parked, ctxDone, result, serving, cli>>

\* ListenAndServe ends with an error.  A Start that sleeps in its select takes
\* it at once; otherwise it waits in the channel.
ListenFails ==
  /\ listener \in {"starting", "listening"}
  /\ listener' = IF ctxDone THEN "failed late" ELSE "failed"
  /\ IF main = "parked" THEN main' = "returned" /\ result' = "err" /\ UNCHANGED errCh
     ELSE errCh' = "err" /\ UNCHANGED <<main, result>>
  /\ UNCHANGED <<mw, parked, ctxDone, serving, cli>>

\* The context is cancelled, which wakes a Start that sleeps in its select.
Cancel ==
  /\ ~ctxDone /\ main \in {"starting", "parked"}
  /\ ctxDone' = TRUE
  /\ main' = IF main = "parked" THEN "cancelled" ELSE main
  /\ UNCHANGED <<mw, parked, listener, errCh, result, serving, cli>>

\* Start reaches its select and takes a channel that is ready, either one when
\* both are, or sleeps.
SelectErr ==
  /\ main = "starting" /\ errCh # "empty"
  /\ main' = "returned" /\ result' = errCh
  /\ UNCHANGED <<mw, parked, listener, errCh, ctxDone, serving, cli>>

SelectDone ==
  /\ main = "starting" /\ ctxDone
  /\ main' = "cancelled"
  /\ UNCHANGED <<mw, parked, listener, errCh, ctxDone, result, serving, cli>>

SelectSleeps ==
  /\ main = "starting" /\ errCh = "empty" /\ ~ctxDone
  /\ main' = "parked" /\ parked' = TRUE
  /\ UNCHANGED <<mw, listener, errCh, ctxDone, result, serving, cli>>

\* Shutdown closes the listener, which makes ListenAndServe return.
CloseListener ==
  /\ main = "cancelled"
  /\ main' = "shutdown"
  /\ IF listener = "listening" THEN listener' = "closed" /\ errCh' = "nil"
     ELSE UNCHANGED <<listener, errCh>>
  /\ UNCHANGED <<mw, parked, ctxDone, result, serving, cli>>

\* Shutdown returns when the last request is answered, or at its timeout.
Shutdown ==
  /\ main = "shutdown"
  /\ \/ ~InFlight /\ main' = "wait" /\ UNCHANGED result
     \/ InFlight /\ main' = "returned" /\ result' = "err"
  /\ UNCHANGED <<mw, parked, listener, errCh, ctxDone, serving, cli>>

\* Start waits for ListenAndServe and returns nil, whatever that ended with.
Wait ==
  /\ main = "wait" /\ errCh # "empty"
  /\ main' = "returned" /\ result' = "nil"
  /\ UNCHANGED <<mw, parked, listener, errCh, ctxDone, serving, cli>>

GwNext ==
  \/ Listen \/ ListenFails \/ Cancel \/ SelectErr \/ SelectDone \/ SelectSleeps
  \/ CloseListener \/ Shutdown \/ Wait
  \/ \E s \in Slots : Arrive(s) \/ CLISend(s) \/ ServeHTTP(s) \/ Reply(s) \/ Disconnect(s)

-----------------------------------------------------------------------------

\* Start returns nil only when it was cancelled and every request was answered,
\* and an error only for a failed listener or a shutdown that timed out.  A
\* listener that fails before the cancellation, when Start already waits for
\* either, is reported.  Otherwise the error may be dropped: Start returns nil
\* after a failure when the cancellation came first, or when both came before
\* Start reached its select.
StartResult ==
  main = "returned" =>
    /\ result = "nil" => ctxDone /\ ~InFlight
    /\ result = "err" => ctxDone \/ listener = "failed"
    /\ listener = "failed" /\ parked => result = "err"

\* The access log and the metrics never say anything else than what the client
\* was answered, and a request is missing from both only when a panic or
\* a middleware outside them ended it.
RecordedIsServed ==
  \A s \in Slots :
    LET r == serving[s] IN
    r.pc = "reply" =>
      /\ r.log \in {0, r.status} /\ r.metric \in {0, r.status}
      /\ At("metrics") = 1 /\ r.status # 500 => r.metric = r.status

\* A panic of a handler costs its own request only: with Recover in the chain
\* the client always gets an answer.
AlwaysAnswered ==
  \A s \in Slots : At("recover") # 0 /\ serving[s].pc = "reply" => serving[s].status # 0

\* In the chain of middleware.go, a request without a good key and a proof of the
\* right form never reaches a handler, a probe is never refused, and a preflight
\* is answered before the gates.  The form is all that is checked: nothing here
\* says who made the proof.
GatesInOrder ==
  \A s \in Slots :
    LET q == serving[s].q
        i == Then(mw, q) IN
    serving[s].pc = "run" /\ {"cors", "ua", "api_key", "aap"} \subseteq {mw[k] : k \in DOMAIN mw} =>
      /\ i = 0 /\ ~isProbePath(q.path) => q.key = "good" /\ q.proof \in WellFormed /\ q.ua = "go"
      /\ isProbePath(q.path) /\ q.method = "GET" /\ q.tls => i = 0
      /\ q.method = "OPTIONS" /\ q.ua = "scanner" /\ q.tls => Answers(mw[i], q) = 204

\* The remote CLI never reports success for something the gateway did not do,
\* whatever is refused, redirected or lost on the way.
ReportedIsDone ==
  cli.state = "ok" => cli.did = cli.op \/ cli.op = "health"

\* No request is lost or misreported, not by a panic, the access log, the
\* metrics or a shutdown that reports success; what is done was allowed by the
\* gates, and what the remote CLI reports done was done.
GatewayIsHonest ==
  StartResult /\ RecordedIsServed /\ AlwaysAnswered /\ GatesInOrder /\ ReportedIsDone

-----------------------------------------------------------------------------
(* What makes them inductive. *)

GwTypeOK ==
  /\ mw \in Chains
  /\ main \in {"starting", "parked", "cancelled", "shutdown", "wait", "returned"}
  /\ parked \in BOOLEAN
  /\ listener \in {"starting", "listening", "failed", "failed late", "closed"}
  /\ errCh \in {"empty", "err", "nil"} /\ ctxDone \in BOOLEAN
  /\ result \in {"running", "err", "nil"}
  /\ DOMAIN serving = Slots
  /\ \A s \in Slots :
       /\ DOMAIN serving[s] = DOMAIN Vacant
       /\ serving[s].pc \in {"free", "run", "reply"}
       /\ serving[s].pc = "free" => serving[s] = Vacant
       /\ serving[s].pc # "free" => serving[s].q.ua \in {"go", "empty", "scanner"}
  /\ DOMAIN cli = DOMAIN NoCommand

\* No connection is accepted once Shutdown closed the listener or it failed, and
\* past Shutdown none is served.  A listener that fails before the cancellation
\* of a Start that sleeps has made it return.
DrainInv ==
  /\ Closing => listener # "listening"
  /\ errCh # "empty" => listener \notin {"starting", "listening"}
  /\ main # "returned" <=> result = "running"
  /\ main \in {"cancelled", "shutdown", "wait"} => ctxDone
  /\ main = "wait" => ~InFlight
  /\ main = "starting" => ~parked
  /\ main = "parked" => parked /\ ~ctxDone /\ errCh = "empty"
  /\ main \in {"starting", "parked"} => errCh # "nil"
  /\ errCh = "err" => listener \in {"failed", "failed late"}
  /\ listener \in {"failed", "failed late"} => errCh = "err" \/ main = "returned"
  /\ listener = "failed late" => ctxDone
  /\ listener = "failed" /\ parked => main = "returned" /\ result = "err"

\* Only one slot serves the command, as it was sent or after its redirect, and
\* it is answered with success only when the service has done it.
CommandInv ==
  /\ cli = NoCommand \/ cli.op \in Commands
  /\ \A s \in Slots :
       (serving[s].by = "cli") =>
         LET r == serving[s] IN
         /\ cli.state = "sent" /\ \A t \in Slots \ {s} : serving[t].by # "cli"
         /\ r.pc = "run" => r.q \in {Sends(cli.op), Followed}
         /\ (r.pc = "reply" /\ doJSON(r.status)) => (cli.did = cli.op \/ cli.op = "health")

GwInv == GwTypeOK /\ DrainInv /\ CommandInv /\ GatewayIsHonest

GwSpec == GwInit /\ [][GwNext]_gwVars

=============================================================================
