------------------------------ MODULE MCPServer ------------------------------
(***************************************************************************)
(* internal/mcp: the stdio loop of the MCP server and the tools it offers  *)
(* over a backend (cmd/agentid mcp).  One goroutine reads a request,       *)
(* handles it and writes the response before it reads the next.            *)
(*                                                                         *)
(* The input is a sequence of lines.  A body is a line of BodyLen bytes    *)
(* that is the JSON of one request.  The backend is external: each agent   *)
(* has a state, and a call of a tool may fail.                             *)
(***************************************************************************)
EXTENDS Integers, Sequences, SequencesExt

CONSTANTS MCPAgents,      \* uuids tools are called with
          MCPTools,       \* names of tools that are called
          AuthKeys,       \* values of the configured key; "" asks for none
          BodyLen,        \* bytes of a body
          MCPMaxRequests  \* bound on messages

ASSUME BodyLenAssumption == BodyLen \in Nat \ {0, 1} /\ MCPMaxRequests \in Nat

VARIABLES authKey,   \* fixed at start-up
          lines,     \* input not read yet
          hungUp,    \* the client closed its end
          messages,  \* history: what the client wrote
          authed,
          failed,    \* the scanner met a line longer than its buffer
          replies,   \* what was written: the id, 0 for an unknown one
          opened,    \* history: a good key was presented, or none is needed
          identities, \* the backend
          open       \* serve has not returned

mcpVars == <<authKey, lines, hungUp, messages, authed, failed, replies, opened, identities, open>>

MCPInit ==
  /\ authKey \in AuthKeys
  /\ lines = <<>>
  /\ hungUp = FALSE
  /\ messages = <<>>
  /\ authed = FALSE
  /\ failed = FALSE
  /\ replies = <<>>
  /\ opened = (authKey = "")
  /\ identities = [u \in MCPAgents |-> "none"]
  /\ open = TRUE

-----------------------------------------------------------------------------
(* Framing. *)

Blank == [kind |-> "blank", n |-> 0]

\* A header in its canonical spelling.  isContentLengthHeader compares sixteen
\* characters of the line with the fifteen of "content-length:", so a header in
\* lower case is none: it is garbage, and what follows it a line of its own.
Header(n) == [kind |-> "header", n |-> n]
Body(r) == [kind |-> "body", n |-> BodyLen, req |-> r]
Garbage == [kind |-> "garbage", n |-> 1]
TooLong == [kind |-> "long", n |-> 0]

\* How a client may write request r: on a line of its own; after a header and
\* a blank line, counting the newline after the body or not; after a bare header.
Written(r, form) ==
  CASE form = "line"      -> <<Body(r)>>
    [] form = "framed_nl" -> <<Header(BodyLen + 1), Blank, Body(r)>>
    [] form = "framed"    -> <<Header(BodyLen), Blank, Body(r)>>
    [] form = "bare"      -> <<Header(BodyLen), Body(r)>>
    [] form = "garbage"   -> <<Garbage>>
    [] form = "long"      -> <<TooLong>>

Length(l) == IF l.kind = "blank" THEN 0 ELSE l.n

\* The bytes of the first k lines, without their newlines.
Bytes(ls, k) ==
  LET sum[i \in 0..Len(ls)] == IF i = 0 THEN 0 ELSE sum[i - 1] + Length(ls[i]) IN sum[k]

FrameLines_NoNewlines(ls, n) ==
  LET enough == {k \in 1..Len(ls) : Bytes(ls, k) >= n} IN
  IF enough = {} THEN Len(ls) + 1 ELSE Min(enough)

\* readFramed after a header: the number of lines it takes to have n bytes, the
\* newlines between them counted; more than there are when the input is short.
FrameLines(ls, n) ==
  LET enough == {k \in 1..Len(ls) : Bytes(ls, k) + k - 1 >= n} IN
  IF enough = {} THEN Len(ls) + 1 ELSE Min(enough)

\* The first n bytes of these lines are the JSON of a request: it is the only
\* one that is not blank, and none of its bytes is cut off.
Decodes(ls, n) ==
  LET body == ls[Len(ls)] IN
  /\ body.kind = "body"
  /\ \A k \in 1..(Len(ls) - 1) : ls[k].kind = "blank"
  /\ Len(ls) - 1 + body.n <= n

Got(used, what) == [used |-> used, got |-> what, req |-> <<>>]

readFramed(rest, n) ==
  LET k == FrameLines(rest, n) IN
  CASE k > Len(rest) -> Got(Len(rest), "short")
    [] k <= Len(rest) /\ ~Decodes(SubSeq(rest, 1, k), n) -> Got(k, "bad")
    [] OTHER -> [used |-> k, got |-> "request", req |-> rest[k].req]

\* readRequest: blank lines are skipped; "short" is a frame that is not complete.
readRequest(ls) ==
  LET written == {i \in DOMAIN ls : ls[i].kind # "blank"}
      i == Min(written)
      l == ls[i]
      rest == SubSeq(ls, i + 1, Len(ls)) IN
  IF written = {} THEN Got(Len(ls), "none")
  ELSE CASE l.kind = "body"    -> [used |-> i, got |-> "request", req |-> l.req]
         [] l.kind = "header"  -> [readFramed(rest, l.n) EXCEPT !.used = i + @]
         [] l.kind = "long"    -> Got(i, "failed")
         [] l.kind = "garbage" -> Got(i, "bad")

-----------------------------------------------------------------------------
(* The client. *)

\* The other methods, tools/list, notifications/cancelled and unknown ones, are
\* handled like one of these, and so are the tools that only read.
Methods == {"initialize", "ping", "tools/call", "notifications/initialized"}

Requests(id) ==
  {[id |-> id, method |-> m, key |-> "wrong", tool |-> "none", u |-> "none"] :
     m \in Methods \ {"tools/call"}}
  \cup {[id |-> id, method |-> "initialize", key |-> "good", tool |-> "none", u |-> "none"]}
  \cup {[id |-> id, method |-> "tools/call", key |-> "none", tool |-> t, u |-> v] :
          t \in MCPTools, v \in MCPAgents}

Forms == {"line", "framed_nl", "framed", "bare", "garbage", "long"}

ClientSend ==
  /\ ~hungUp /\ Len(messages) < MCPMaxRequests
  /\ \E r \in Requests(Len(messages) + 1), form \in Forms :
       /\ form \in {"garbage", "long"} => r.method = "ping"
       /\ messages' = Append(messages, [form |-> form, req |-> r])
       /\ lines' = lines \o Written(r, form)
  /\ UNCHANGED <<authKey, hungUp, authed, failed, replies, opened, identities, open>>

ClientClose ==
  /\ ~hungUp
  /\ hungUp' = TRUE
  /\ UNCHANGED <<authKey, lines, messages, authed, failed, replies, opened, identities, open>>

-----------------------------------------------------------------------------
(* The server. *)

requireAuth(r) == authKey = "" \/ authed

\* RegisterAgentIDTools: what a tool does to the backend when its call succeeds.
\* register and batch_register make agents that are active; upgrade leaves the
\* state alone; the others only read.
ToolEffect(r) ==
  CASE r.tool \in {"register", "batch_register"} -> [identities EXCEPT ![r.u] = "active"]
    [] r.tool = "ban" /\ identities[r.u] # "none" -> [identities EXCEPT ![r.u] = "banned"]
    [] r.tool = "unban" /\ identities[r.u] = "banned" -> [identities EXCEPT ![r.u] = "active"]
    [] OTHER -> identities

\* handleToolsCall; an error of the tool is a result with isError.
handleToolsCall(r) ==
  /\ IF requireAuth(r) /\ r.tool # "missing" THEN identities' \in {identities, ToolEffect(r)}
     ELSE UNCHANGED identities
  /\ UNCHANGED <<authed, opened>>

\* handleInitialize: a wrong key is refused and takes nothing back.
handleInitialize(r) ==
  /\ authed' = (authed \/ (authKey # "" /\ r.key = "good"))
  /\ opened' = (opened \/ r.key = "good")
  /\ UNCHANGED identities

\* Notifications are not answered; an unknown method is, with an error.
Answered(r) == r.method # "notifications/initialized"

\* handle, and write of the response.
handle(r) ==
  /\ CASE r.method = "initialize" -> handleInitialize(r)
       [] r.method = "tools/call" -> handleToolsCall(r)
       [] OTHER -> UNCHANGED <<authed, opened, identities>>
  /\ replies' = IF Answered(r) THEN Append(replies, r.id) ELSE replies

\* One round of serve.  It blocks while the input is incomplete and open.
\* Once the scanner has failed every round reads the same error.
serve ==
  LET r == readRequest(lines) IN
  /\ open
  /\ \/ /\ failed /\ Len(replies) < 2 * MCPMaxRequests
        /\ replies' = Append(replies, 0)
        /\ UNCHANGED <<lines, authed, failed, opened, identities, open>>
     \/ /\ ~failed /\ r.got \in {"none", "short"} /\ hungUp
        /\ lines' = SubSeq(lines, r.used + 1, Len(lines))
        /\ IF r.got = "short" THEN replies' = Append(replies, 0) /\ UNCHANGED open
           ELSE open' = FALSE /\ UNCHANGED replies
        /\ UNCHANGED <<authed, failed, opened, identities>>
     \/ /\ ~failed /\ r.got \in {"bad", "failed"}
        /\ lines' = SubSeq(lines, r.used + 1, Len(lines))
        /\ failed' = (r.got = "failed")
        /\ replies' = Append(replies, 0)
        /\ UNCHANGED <<authed, opened, identities, open>>
     \/ /\ ~failed /\ r.got = "request"
        /\ lines' = SubSeq(lines, r.used + 1, Len(lines))
        /\ handle(r.req)
        /\ UNCHANGED <<failed, open>>
  /\ UNCHANGED <<authKey, hungUp, messages>>

\* The context is cancelled; serve notices between two requests.
Stop ==
  /\ open
  /\ open' = FALSE
  /\ UNCHANGED <<authKey, lines, hungUp, messages, authed, failed, replies, opened, identities>>

MCPNext == ClientSend \/ ClientClose \/ serve \/ Stop

-----------------------------------------------------------------------------

\* The ids a client may expect answers for: messages in a form the server reads.
Expected ==
  {messages[k].req.id : k \in {k \in DOMAIN messages :
     messages[k].form \in {"line", "framed_nl", "bare"} /\ Answered(messages[k].req)}}

\* The places of the answers that name a request.
Replied == {i \in DOMAIN replies : replies[i] # 0}

\* Requests are answered once each and in the order they were written, none is
\* passed over, and a message the server cannot read costs no other message
\* its answer.
AnsweredInOrder ==
  /\ \A i, j \in Replied : i < j => replies[i] < replies[j]
  /\ \A i \in Replied :
       /\ replies[i] \in Expected
       /\ \A e \in Expected : e < replies[i] => \E j \in Replied : replies[j] = e
  /\ lines = <<>> /\ ~failed => \A e \in Expected : \E i \in Replied : replies[i] = e

\* With a key configured no tool touches the backend before the key was
\* presented, whatever else is sent.
NothingBeforeTheKey == ~opened => \A u \in MCPAgents : identities[u] = "none"

\* The session protocol: answers in order, nothing for whom has no key.
SessionInOrder == AnsweredInOrder /\ NothingBeforeTheKey

MCPSpec == MCPInit /\ [][MCPNext]_mcpVars
=============================================================================
