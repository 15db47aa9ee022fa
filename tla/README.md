# A TLA+ model of AgentID-Chain

AgentID-Chain gives AI agents identities: it registers them off chain and on
chain, raises their level, bans and revokes them, publishes what happened
through an outbox, and lets them authenticate (AAP) and talk to each other with
short-lived tokens (A2A). This directory models the parts in which several
goroutines, processes or services change shared state, checks them with TLC and
proves the central properties with TLAPS. Paths below are relative to `src/`.

Contents: [inventory](#1-inventory) · [modules](#2-modules-and-code) ·
[runs](#3-runs) · [fairness](#4-fairness) · [proofs](#5-proofs) ·
[findings](#6-findings) · [limits](#7-what-is-not-shown) · [plan](#8-plan)

## 1. Inventory

| Part | State | Operations | What makes it hard | What makes it correct |
|---|---|---|---|---|
| Lifecycle table, `internal/domain/state.go` | – | `CanTransition` | four stores each keep their own copy of the state | every store moves along the table |
| Chain adapter, `core/chain_adapter` (mock driver) and `core/backend/onchain.go` | agents, under one mutex | register, update level, ban, unban, revoke, list | may refuse or be unreachable; accepts what the local store refuses | follows the table; a revocation is final |
| `LocalBackend`, `core/backend/local.go`, `memory_persistence.go` | agents, change logs, `b.mu` | the same five, plus queries | read–decide–write over a persistence that may fail | `b.mu` loses no update, the log explains the record or is one entry behind, no path keeps the lock |
| `HybridBackend`, `core/backend/hybrid.go` | both of the above | chain first, mirror second; read-through with backfill; background syncer | backfills and the syncer bypass `b.mu`; three ways for an old record to arrive late | the mirror invents nothing, reports no false revocation, and catches up |
| Outbox, `internal/storage/outbox_{writer,poller,forwarder}.go` | table `outbox_events`, a Redis stream | insert, fetch a batch, XADD, write back | failures between XADD and the write-back; replicas; backoff; poison events | nothing lost, exact retry budget, bounded duplicates, everything settles |
| Identity workflows, `internal/service/{register,upgrade,ban,revoke,batch_register}.go` | identity store, permission store, chain | the five workflows | three unguarded writes per request, no transaction, no lock | store before chain, one winner per UUID, permissions within the level |
| A2A tokens, `internal/authz/a2a/{token,verify,revocation}.go`, `internal/gateway/handler/a2a.go` | in-memory index, markers with a TTL in the cache | negotiate, verify, revoke one or all tokens of an agent, GC | computeTTL, Set and untrack are three steps; the index dies with the process; fail-open cache; leeway | an acknowledged revocation lasts as long as the token |
| Read workflows, `internal/service/{check_permission,get_info}.go` | – | the check reads state, then permissions | the two reads straddle a ban | a barred agent stays denied |
| Start and Close of the hybrid syncer, `core/backend/hybrid.go` | `started`, `stopOnce`, and `cancel`, `stopped` without a lock | start, close, ticker, pass | Close races Start, a pass, another Close | Close returns and leaves no pass running |
| HTTP chain driver and `cmd/mock-chain`, `core/chain_adapter/http` | requests and answers in flight | the chain's operations over HTTP | lost and cut answers, late handling after a client timeout, restart | what a call returns is what the chain did |
| AAP handshake, `internal/authz/aap`, `internal/cli/aap.go` | challenges in the cache, proofs with the client | generate, consume, verify, sign, middleware | get-then-delete, expiry sampled early, seconds against instants | a challenge is accepted once, a proof is earned |
| Rate limiters, `aap/ratelimit.go`, `authz/ratelimit` | counters with a TTL | allow, check, reset | window boundaries, callers between Incr and comparison, fail open | no more than the limit per window |
| JWKS handler, `a2a/jwks.go` | cached key set | get, refresh | racing fetches store in any order | a retired key fades and a new one appears within a known time |
| RBAC, `internal/authz/rbac` | template file, loader, engines | load, reload, set, check | reload against edit, reload and check | a decision uses one file |
| MoltCaptcha, `internal/authz/moltcaptcha` | challenges in the cache | generate, consume, judge | get-then-delete, two deadlines, a chain of rules | one try, in time, at a solvable task |
| Trust, `a2a/trust.go` | – | `ComputeTrustLevel` | first rule that applies decides | catching up never costs trust |
| Gateway, `internal/gateway`, and remote CLI, `internal/cli/client.go` | requests in flight, listener | start, shutdown, middleware chain, router, handlers | panics, shutdown races, the order of middlewares, client and server disagree on paths and bodies | every request answered and recorded truthfully, gates before handlers, no false success |
| MCP server, `internal/mcp` | session, stdin and stdout | read, initialize, list, call | two framings on one stream, errors in the middle | answers in order, nothing before the key |
| CLI, `cmd/agentid` | configuration file, a pool of goroutines | batch-register, config set and reset, local init | results in any order, a crash between truncate and write, two processes | every row accounted for, a lone command is atomic |
| ent, `ent/` (generated) | four tables, a transaction, mutable builders | create, bulk create, update, delete, query, commit, rollback | hooks, retries, edges after columns, reused builders | a save stores what was said, whole or not at all |
| Slow query monitor, `internal/storage/slow_query.go` | atomic counters | observe, percentile, reset | no lock anywhere | exact once quiet |
| Storage and cache clients, configuration, telemetry, gates, prompts, domain events | – | wrappers, parsing, text | – | – |

Interaction: the identity workflows of `internal/service` write the stores and
then the chain. The backends of `core/backend` are the other entry: the CLI and
the MCP tools call one `IdentityBackend`, with `HybridBackend` composing
`OnchainBackend` and `LocalBackend`. `WriteOutbox` runs in the caller's
transaction and the pollers forward the rows. The A2A handlers use the issuer, the
verifier and the revoker, which share nothing but the clock and the cache. Several
packages are libraries at this commit: nothing in the repository starts an
`OutboxPoller`, calls `RevokeByAgent` or runs the revoker's `GC`; they are modelled
as their comments tell a caller to use them.

`PROJECT.json` lists every part with its status, and the hazards line by line.

## 2. Modules and code

```
AgentBase ─┬─ ChainAdapter ─┬─ HTTPChain
           │                └─┐
           └─ LocalBackend ───┴─ HybridBackend
AgentLifecycle  (implemented by LocalBackend and by HybridBackend's chain)
SyncerLifecycle  OutboxPoller  A2ARevoker  AgentService
EntSchema ── EntStore    EntQuery    SlowQuery
AAPHandshake  RateLimiters  JWKSHandler  LevelTemplates  MoltCaptcha  TrustLevel
Gateway  MCPServer  CLICommands

proofs about                         in
HybridBackend, SyncerLifecycle       HybridBackendProofs
LocalBackend                         LocalBackendProofs
OutboxPoller                         OutboxPollerProofs
A2ARevoker                           A2ARevokerProofs
AgentService                         AgentServiceProofs
AAPHandshake, JWKSHandler, TrustLevel,
RateLimiters, LevelTemplates,
MoltCaptcha                          AuthzProofs
HTTPChain, CLICommands, Gateway,
MCPServer                            PlatformProofs
EntStore, EntQuery, SlowQuery        StorageProofs

MC*  instances for TLC: MCHybridBackend, MCHybridLive, MCOutboxPoller,
     MCA2ARevoker, MCAgentService, and MCService, MCAuthz, MCPlatform,
     which check several modules in one run
```

**AgentBase** holds what the backends share: agent records (state, level,
stamp), the clock, the fault budget. A stamp is the value `time.Now()` returns;
every write takes the next tick, so *stamps of different writes differ*. This is
an assumption about the clock's resolution, and `EqualStampsAgree` rests on it.

**AgentLifecycle** is the abstract specification: `domain.StateTransition` as a
state machine, with "absent" for an agent a store does not know.

**ChainAdapter** is `mock.MockAdapter`. Each operation holds `m.mu` throughout
and is one step. Receipts, nonces and block numbers are never read back.

**LocalBackend**: the four locked operations are split at their persistence
calls (`LocalGet`: lock, read and decide; `LocalPut`: PutAgent; `LocalAppend`:
AppendLog and unlock), with the early returns (`LocalSkip`) and the failing write
(`LocalPutFails`); a registration, which takes no lock, is `LocalRegister` and
`LogRegistration`. `GetAgentInfo` and `GetChangeLogs` take no lock either
(`local.go:212`, `:367`), so every state between two steps is one they may see:
`AuditTrailExplains` says what they find there too, namely a log that is behind by
exactly the write under way. A failed `AppendLog` is swallowed, as in the code; a
crash between the two calls would leave the same in a persistence that outlives the
process. The presence cache is never read.

**HybridBackend** composes the two. A write is `BeginRegister`/`BeginWrite`, then
`ChainCall` or `ChainFails`, then `Mirror` (registration) or `LocalBackend`'s own
steps with the result ignored. A read is `ReadLocal`, one `ReadChain` per missing
uuid, then `Backfill` without `b.mu`; `GetAgentInfo` is the one-uuid case of
`BatchGetAgentInfo`, except that a failing local store is a miss for the one
(`ReadLocalFails`) and ends the other: its error is dropped (`hybrid.go:233`) and the
nil map it leaves panics at `:248` (`BatchPanics`). A syncer pass is `SyncList`, then per agent `SyncCompare`,
`SyncFetch`, `SyncPut`. `held` records what the chain has ever shown.

**OutboxPoller**: `Fetch` is the SELECT, `Handle` is XADD (which may fail before
or after the entry exists), `MarkPublished`, `MarkFailed` and `MarkLost` are the
updates by primary key, from the row as it was fetched. `MarkRefused` is the update
ent's validator refuses: `last_error` holds at most 1024 bytes
(`ent/schema/outbox_event.go:90`), so an event whose handler reports more (`Verbose`)
is never marked, keeps its retry count and comes back with every batch. `Abandon` is a batch
timeout, a cancellation or a crash. `next_retry_at` is a countdown, so time needs
no bound. The unit of time is the unit of `BackoffBase`. Which replicas run is
chosen initially (`replicas`), so one run covers a single poller and two.

**AgentService**: a request is `Begin` (validated), `Exists` or `GetAgent` with
the decision, `PutAgent`, `SetPermissions`, `Chain`, each with its error path. The
decisions are taken on the entity the code rebuilds with `domain.NewAgent`, whose
state is always `registered`. Masks are counted in blocks of 16 bits, which is how
`DefaultMaxPermissions` grows. The chain behind `service.ChainAdapter` is
external; `HandleRevoke` calls its `UnbanAgent`, and so does the model. Whether a
chain is configured (`useChain`) is chosen initially.

**A2ARevoker**: `Sign` and `Track` are the two halves of Negotiate, which compute
the expiry separately. `Revoke` is `ComputeTTL`, `SetMarker`/`SetFails`, `Untrack`;
`RevokeByAgent` runs it for a snapshot of the agent's index. `SetFails` may have
set the marker with its answer lost. `Restart` empties the index, ends all calls
and keeps the cache. `Verify` (expiry plus leeway) and `IsRevoked` (marker, fail
open) are two steps of the verify handler. `acked` and `live` are history.

`CheckPermission` and `GetInfo` are the same kind of request (`ReadAgent`,
`ReadPermissions`, `ReadChain`); `barred` and `leaked` are history.

**SyncerLifecycle**: Start and Close of `HybridBackend` by any number of
goroutines. `started` and `stopOnce` are atomic; `cancel` and `stopped` are plain
fields, so each read and each write is a step. The goroutine is `Tick`,
`PassEnds`, `LoopEnds`. A configured interval of 0 becomes the default.

**HTTPChain**: `do` of the HTTP adapter as request, handling (one step of
`ChainAdapter`) and answer. Requests and answers are lost, answers are cut
(`ReadAll`'s error is ignored), the client times out while the handler goes on, and
mock-chain restarts with an empty memory. `outcome` is the error a caller sees.

**AAPHandshake**: time in half seconds, since a proof's claims keep whole ones.
Every cache call is a step; `ConsumeChallenge` is get and delete. Signatures are
ideal: a signature is the payload it covers, including what the CLI leaves out.

**RateLimiters**: a request samples its window, then runs INCR and EXPIRE NX in one
pipeline, then compares. `late` counts requests whose INCR comes after their
window has ended, `resets` the calls of Reset.

**JWKSHandler**: the source is read without the lock and stored under it; a fetch
takes at most `MaxFetch`. **LevelTemplates**: a template is an object and loaders and
engines hold pointers; the mask parser works on hex digits.

**MoltCaptcha**: all rules over a small alphabet, with the overrides
`TotalCharsMin` and `TotalCharsMax`. `Verify` judges by the caller's `SubmittedAt`
when it is set (`verifier.go:146`): a `stamped` submission is judged by a time the
client chose, and only the cache's TTL, which runs from the Set (`cached`), bounds
it. `StoreChallenge`, the entry for challenges made elsewhere, is left out.
**TrustLevel**: all pairs of snapshots; a peer changes state by the domain table,
its level by `HandleUpgrade`, its interop bit by Grant and Revoke.

**Gateway**: a request carries what the middlewares and handlers look at. `Then`
walks the chain as `Chain.Then` composes it. The AAP middleware verifies no
signature: `verifyAAPProofStub` (`middleware/aap.go:99`) checks the form, so a
proof in the model is well formed or not, and nothing is said of who made it. A
service that is not injected answers 503 (`Services` are the injected ones), the
captcha routes 404. `Start` is the goroutine with the listener, the select with
what was ready when it was reached (`parked`), and the shutdown; when the context
ends first, the listener's error is dropped (`server.go:104-116`). The remote
client sends what `client.go` sends and reads what the handlers answer.

**MCPServer**: input is a sequence of lines, a framed body with or without its
newline, and a line too long for the scanner. A header in lower case is one of
these lines and no header: `server.go` compares its first 16 characters with the 15 of
`content-length:`. So it is answered as a message that does not parse, and the
body after it is read as a line of its own.

**CLICommands**: batch-register with its semaphore, its channel and its collector
(and its panic on a row that does not parse); the system calls of the
configuration commands, which a crash or another process may separate.

**EntSchema**, **EntStore**, **EntQuery**: the generated code is the same for every
entity; what differs between entities (fields, validators, defaults, what is
immutable, clearable or addable, edges, foreign keys) is data in `EntSchema`.
`EntStore` is one caller: builder, calls, hooks, check, statement, retry, inside a
transaction or outside it. `EntQuery` is the mutable query builder with clones,
eager loading by a second statement, and other sessions writing in between. The
database is external: a statement is atomic. **SlowQuery**: every atomic operation
is a step.

Definitions with a suffix after an underscore (`ChainFails_Swallowed`) are plausible
wrong versions of the definition they stand before. No specification uses them;
replacing the right one by the wrong one must break the property it is listed
with in `PROJECT.json`, which shows that the property depends on that code.

## 3. Runs

| Run | Bounds | Result |
|---|---|---|
| `hybrid_race` | 2 writers, 1 reader, 1 syncer, 2 agents, 2 levels, calls begin before stamp 3, 2 failures | `MirrorShowsOnlyChainHistory`, `NoFalseRevocation`, `EqualStampsAgree`, `AuditNeverAheadOfChain` hold |
| `hybrid_live` | 2 writers, 1 syncer, 1 agent, calls begin before stamp 3, 1 failure; 3 goroutines that start and close; 2 goroutines on `LocalBackend` alone, 1 failure | `ChainFollowsLifecycle` (refinement), `LagRepaired`; `StoppedBeforeClosed`, `CloseReturns`; `CallsReturn` hold |
| `hybrid_drift` | 1 writer, 1 syncer, no failure | `DriftRepaired` is violated |
| `outbox` | 1 poller and 3 events (1 poison, 1 poison with an error that does not fit) or 2 pollers and 2 events; batches of 2, 3 retries, 3 failures | `PublishedWasSent`, `DuplicatesNeedFaults`, `RetryBudget`, `OutcomeIsFinal`, `EveryEventSettles` hold |
| `outbox_duplicate` | 2 pollers, no failure | `NoDuplicateConsumption` is violated |
| `a2a_revocation` | 2 tokens of one agent, 2 revocations, 1 verification, lifetimes 1 and 3, `MaxTTL` 2, leeway 1, 4 s, 1 failure or restart | `RevocationHolds`, `NothingSlips`, `RevokedIsRefused` hold |
| `a2a_leeway` | 1 token, nothing fails, `MaxTTL` above the lifetime | `ExpiredNeedsNoMarker` is violated |
| `sliding_error` | 1 caller, limit 4, window 4, no failure | `SlidingErrorOnePercent` is violated |
| `service_revoke` | 1 request at a time, no failure | `RevokeIsPermanent` is violated |
| `service` | workflows: 2 requests at a time, up to 4, one UUID, with and without chain, 2 failures; ent: 1 builder with 2 calls on each table, 1 failure or lost answer; query: 2 builders, 3 runs, 1 foreign write; statistics: 2 observers, 4 calls | `StoreLeadsChain`, `PermsWithinLevel`, `OneRegistrationWins`, `BarredStaysDenied`; `SavedAsAsked`, `SavesAreAtomic`; `AnswersAreWhole`; `StatsExactWhenQuiet` hold |
| `authz` | 2 presentations of 2 challenges; 2 callers, limit 2, window 2; 2 readers of 2 keys; 2 reloaders, 3 reloads, 1 edit; 2 solvers of a medium or an extreme captcha, TTL 3, a Set of up to 1, answers stamped 0 or by the server; all pairs of peers; 1 cache failure each | `AcceptedOnce`, `ProofsAreEarned`; `LimitsHold`; `KeySetFollowsSource`; `ReloadIsAtomic`; `CaptchaIsFair`; `CatchingUpKeepsTrust` hold |
| `platform` | 2 goroutines on 1 agent, calls begin before stamp 5, 1 failure; 3 calls over HTTP; batches of up to 3 rows, pool of 2; 2 processes, 3 commands, 1 crash; 2 requests at a time through 2 chains, one service not injected; 2 MCP messages | `AuditTrailExplains`, `LocalFollowsLifecycle` (refinement); `AnswersAreTrue`; `BatchIsAccounted`, `ConfigIsSafe`; `GatewayIsHonest`; `SessionInOrder` hold |

`service`, `authz`, `platform` and `hybrid_live` check modules that share no state. The variable
`scene` of their MC modules picks the module a behaviour exercises, so the state
spaces add up instead of multiplying, and TLC evaluates each property where its module moves.
Several invariants are conjunctions of named parts
(`SavesAreAtomic == FailedSaveStoresNothing /\ RetryStoresOnce /\ TxInvisible`);
each part has its own comment in the module.

Many of these properties hold only outside a window that the code leaves open,
and say so: two presentations that both read a challenge before either deletes it
(`excused`), requests on one agent that overlap (`overlap`), commands on the
configuration that overlap or are cut off (`overlapped`, `disturbed`; the file a
crash has torn stays torn), a Close that overlaps a Start, an outbox row with a
second replica, a submission that brings its own time (`stamped`), a listener that
fails before Start sleeps in its select or after the context has ended. What they show is that nothing else opens such a window.

Why the bounds are enough to meet the hard cases:

- *Backends.* The races need one goroutine that has read and not yet written, and
  another that writes in between: two writers, or a writer against the reader or
  the syncer. `MaxClock` only keeps new calls from beginning: at 3, a
  registration (credential and chain stamps) is followed by two concurrent writes,
  each with its chain and its local stamp; `platform` has 5 because
  `AuditTrailExplains` is about chains of entries. Two agents let a batch read or
  a pass hold several records at once, and two failures let a read miss (one) meet
  a failing chain query (two).
- *Outbox.* `MaxRetries` equals the number of failures, so that a deliverable event
  can just be exhausted; the poison event is written before or after the others and
  fills the batch; a backoff of 1 and then 2 makes rows wait and overtake each
  other. An event that is never marked stays pending at the head of the batch:
  `EveryEventSettles` is about the other events and needs such events to be fewer
  than `BatchSize`; one of two is. The third event (`Spare`) is written with one poller
  only. The stream counter is bounded by the failures.
- *Service.* The levels include the one at which the 16-bit shift overflows (3). Two
  requests overlap, four follow each other: register, upgrade, ban and a check.
  `HandleRegister` stores an explicit mask without comparing it to the level, so
  `PermsWithinLevel` says nothing about agents registered with one (`masked`).
- *ent and queries.* Two calls on one builder show that the last one counts and
  that additions add up; one save may fail, or succeed with its answer lost, and be
  repeated. A clone of a builder needs two builders and three runs.
- *Authorisation.* Two presentations, callers, readers, reloaders and solvers are
  the smallest number that race; clocks reach past every expiry they meet. The
  captcha's TTL is shorter than the medium deadline and longer than the extreme
  one, so either may end first.
- *Sliding window.* With limit 4 and window 4, four requests late in one window leave
  an estimate that lets a fifth through two seconds later. `LimitsHold` has the bound
  that does hold, less than one limit of excess, and `sliding_error` shows that
  the package comment's is not it.
- *Front ends.* Three calls over HTTP let a request given up be carried out after
  two later ones; a pool of 2 with 3 rows makes a row wait; a command, its crash
  and two later commands show what a torn file costs.
- *A2A.* `MaxTTL` lies between the two lifetimes, so both branches of `computeTTL`
  occur; four seconds reach past every expiry of a token signed at once.

Deadlock is checked where the system never stops (the hybrid runs: the syncer's
ticker always has a next pass, and goroutines may always call Start and Close;
callers of `LocalBackend` alone may stop, and `CallsReturn` says that none is
stuck). The others say `CHECK_DEADLOCK FALSE` because
clients may stop calling, the outbox may be drained, or a named bound
(`MaxCalls`, `MaxTime`) is reached. Symmetry is used in safety runs only;
modules of different scenes use the same names for their goroutines there, since
only one of them moves.

## 4. Fairness

- `LocalBackend`: a goroutine inside a call runs on (WF), and a goroutine waiting
  for `b.mu` gets it (SF). Go's mutex hands the lock to a waiter of more than a
  millisecond (starvation mode), so a waiter cannot be overtaken for ever.
  `hybrid_live` states both as SF of a goroutine's step: a call has one step at a time
  to take.
- `HybridBackend`: the same for writers; readers inside a call run on; the
  syncer's ticker keeps starting passes (`backgroundSyncer.loop`). Nobody has to
  make a call, and no failure has to happen.
- `SyncerLifecycle`: a goroutine inside Start or Close runs on and a pass ends
  (WF). The loop's select picks at random among the ready cases, so once the
  context is cancelled it is taken although the ticker keeps firing (SF). Nobody
  has to call Start or Close.
- `OutboxPoller`: time passes, the ticker keeps starting batches and a batch runs
  on. Writing events and failing are never forced. Failures are finitely many
  (`MaxFaults`): under failures for ever nothing can be promised.

## 5. Proofs

All proofs are complete and hold for every value of the constants that meets the
named assumptions: positive configuration values, natural bounds, model values
outside the sets they stand beside, and

- `AAPCallsAssumption`, `QueryAssumption`, `SQAssumption`: finitely many challenges
  are issued, an ent query meets finitely many agents and finitely many goroutines
  observe (all three are counted);
- `BoundsAscend`: the bucket bounds of the slow query monitor ascend
  (`internal/storage/slow_query.go:161`);
- `ChainsAssumption`: CORS stands outside the user-agent, key and AAP middlewares
  (the order `internal/gateway/middleware/middleware.go:6` prescribes), and
  `InboundAssumption`: a user agent is a Go client's, empty or a scanner's;
- `LimiterAssumption`, `BodyLenAssumption`: a limit and a window of at least one, a
  framed body of at least two bytes (the constructors refuse or replace others; a
  JSON object is no shorter);
- `RBACAssumption`, `MoltAssumption`: masks are sequences of hexadecimal
  digits or something else, topics, keywords and
  answers are made of the letters, and a captcha asked for has a known difficulty;
- `CLIAssumption`: the row lists are not empty (`runBatchRegister` refuses an empty
  file, `cmd/agentid/batch_register.go:78`);
- `NullAssumption`: the SQL null is no number.

Each property is the consequence of an inductive invariant. It is defined at the end of
the module it is about, after the properties, and was checked by TLC on an instance
like that of the module's run before it was proved; the invariants of `OutboxPoller` and
`MCPServer` are stated with their proofs.

**HybridBackendProofs** – `TypeTheorem`, `MirrorTheorem`, `RevocationTheorem`,
`StampTheorem`, `AuditTheorem`, for any number of agents, writers, readers and
syncers. `MirrorShowsOnlyChainHistory` is not inductive: a record about to be put
is what spoils the store, so the invariant has to cover every copy in flight.
`IInv` says that each copy – in the local store (`LocalInv`), in a reader's result
(`ReadInv`), in a pass (`SyncInv`), in a pending mirror or local write (`CallInv`)
– is `Faithful`: its state and its level have been shown by the chain, it is not
from the future, and if its stamp is the chain's it *is* the chain's record. A
local operation under way has been confirmed by the chain, which is what keeps
the audit log behind it. A chain call only adds to `held` and moves the chain's
stamp past every copy's (`Grows`), so all copies stay faithful; every other step
moves a faithful copy. `NoFalseRevocation` follows because "unregistered" enters
the history only with the final revocation (`ChainInv`).

`LifecycleTheorem` is the refinement `Spec => ChainFollowsLifecycle`: the mapping
takes the chain's state of each agent, a confirmed chain call is a transition
of the table, and every other step – reads, mirrors, backfills, passes, failures – leaves
the chain alone. Only the type invariant is needed. `StopTheorem` is about
`SyncerLifecycle`; `SLInv` adds that `stopped` tells what the loop does (nil: no
loop, closed: ended), that a Close is remembered from its first step, and that
without a race nobody is inside Start once a Close has begun.

**LocalBackendProofs** – `AuditTrailTheorem` and `LocalLifecycleTheorem`. What both
rest on is `LockInv`: a call about to write holds `b.mu`, and the record it has read
is *still the stored one*; a call about to log holds it too, and the stored record is
the one it wrote. `NamedInv` keeps a registration alone with its uuid until it has
logged. `LogInv` orders the log: only stored agents have
entries, none is stamped in the future and all are older than the one a call is about
to append, so the trails change at their ends only. With `AuditTrailExplains` itself these
are inductive: a record is explained by its log, or one call owes it exactly one
entry, and that entry is what makes the log explain it. The proof takes the
invariant apart by goroutine and by agent (`WriterInv`, `AgentInv`; `PartsInv` puts
them together), since a step of one goroutine touches one of each. The refinement needs `LockInv` again, since the decision was taken on the
record that was read.

**OutboxPollerProofs** – `OutboxSafety` and `BudgetTheorem` for any number of replicas: the invariant
adds that a poller that is about to mark an event has it in the stream, and that
every fetched retry count was below the budget. `SingleReplicaDuplicates` and
`SingleReplicaOutcomes` speak of behaviours in which one replica runs (`Single`): then
the rows it holds are pending and unchanged since the fetch (`Owned`), and every stream
entry beyond the first matches a fault already counted (`Ledger`). A refused update
changes neither. `TableTheorem` is the type invariant, with a bound: no row
waits longer than the larger of `BackoffBase` and `BackoffMax`. It needs that
`computeBackoff`, a recursive function, exists: its restrictions to `0..n` do, for
each `n`, and agree (`BackoffExists`, `BackoffAgrees`). That `TypeOK` has naturals for
occurrence times rests on finitely many rows being written (`Written`).

**A2ARevokerProofs** – `A2AInvariant`, `MarkerTheorem`, `ReachTheorem`,
`RefusalTheorem`, for any number of tokens, agents, revocations and verifications.
`RevocationHolds` needs: an index entry never ends before its token (`IndexInv`,
because Track computes its expiry after Sign); a time to live computed and not yet
used covers the token or is `MaxTTL` (`CallInv`: time only makes it end later); and
an acknowledged revocation left a marker that covers the token or lasts for
`MaxTTL` from the acknowledgement (`MarkInv`) – a later Set, acknowledged or not,
keeps that. Only handed-out tokens are tracked, revoked or checked (`StageInv`).
`NothingSlips` is inductive together with `CallInv`: what is about to be untracked
has been acknowledged. `RefusalTheorem` is an action property: the handler reads
the marker in the step in which it accepts.

**AgentServiceProofs** – `StoreLeadsTheorem`, `RegistrationTheorem`, `PermsTheorem`,
`BarredTheorem`, for any number of clients, UUIDs and levels. `ShapeInv` says what
each step of a request knows: past PutAgent there is a stored record, which no other
request removes, and a check that counts as late began when its agent was barred. `StoreInv` ties a success to a chain record, so a second registration is
refused by the chain although both passed Exists. `MaskInv` and `SoloInv` carry
the two properties that hold without overlap: at most one writer, whose
record is still the one it read, or the one it wrote.

**AuthzProofs** – `KeySetTheorem` (`JWKSHandler`): `Covers(keys, t, slack)` says that a
key set is that of the source no earlier than `slack` before `t`. A fetch covers its read
without slack, the cache covers `lastFetch` with `MaxFetch`, an answer covers its
beginning with `RefreshInterval + MaxFetch - 1`; rotation and time preserve each.
`TrustTheorem` is an action property by cases on the rules of `ComputeTrustLevel`.
`AcceptedOnceTheorem` and `EarnedTheorem` (`AAPHandshake`): every nonce is drawn once
(`DrawnInv`), whatever is stored, held, handed out or signed is what was drawn
(`GenuineInv`), a challenge not stored yet is nowhere else (`FreshInv`), and a
challenge is in the cache, with one presentation or used up, except between Get
and Del (`OnceInv`) – which is where `excused` comes from.

`LimitsTheorem` (`RateLimiters`): the bucket of a window that lasts has counted all
that was let through in it, less `Limit` for each Reset (`CountInv`), since it does
not expire before its window ends (`ExpiryInv`); a request that increments after its
window has ended is counted as late. For the sliding limiter every admission was weighed
against the counts of its two buckets (`SlideInv`), and counts only grow unless
something cost one (`Exact`). `ReloadTheorem` (`LevelTemplates`): every template and every
reload about to store holds the masks of one file (`TemplatesInv`), and without
overlap a reload under way has read a file at least as new as every template
(`NewestInv`); `HexBit` says bit by bit what the mask parser computes, and the proof
relates the two. `CaptchaTheorem` (`MoltCaptcha`): a captcha is in the cache and untried, or
with one solver, or judged, except for the race between Get and Del (`MoltOnceInv`); the
time the server judges by is not before the call began (`MoltTimeInv`); a call that took a
captcha began within the TTL from its Set, whatever time the caller states (`KeptInv`); a verdict is
given once (`VerdictsAreFinal`); only generated captchas, each with an id of its own, are
stored, tried or judged (`GeneratedInv`).

**PlatformProofs** – `AnswersTheorem` (`HTTPChain`): a request on the wire has not been
carried out and is the only one with its number (`WireInv`), a caller waits for its
last call (`WaitingInv`), an answer under way says whether the call was carried
out (`AnswerInv`); a restart of the server keeps all three. `BatchTheorem`
(`CLICommands`): every dispatched row is called, in the channel or collected
(`ResultsInv`) and their numbers add up (`CountInv`), which is why the collector
neither starves nor reads one too many. Since the counts add up to the rows and all
rows are present, no row is reported twice. `ConfigTheorem`: `Underway` follows a
command that is alone from system call to system call against the files it
found; a torn file is explained by the one process that is about to write.

`GatewayTheorem` (`Gateway`): lemmas say what `Then` does up to the first middleware that
refuses, for every chain that meets `ChainsAssumption`. `DrainInv` ties the main
goroutine to the listener, the error channel and the requests in flight: a
listener that fails while Start sleeps in its select makes Start return that error,
one that fails later, or before, may be outrun by the cancellation;
`CommandInv` says that one slot at most serves the remote command, as it was sent or
as its redirect made it, and that success is answered only when the service has
done it. `SessionTheorem` (`MCPServer`): `SessionInv` is that for some `c` the unread lines
are those of the messages after the first `c`, and the answers given are those of
the first `c`. A read from there takes exactly the next message, whatever its form, or
fails for good; `KeyInv` adds that no tool ran before the key.

**StorageProofs** – `AnswersWholeTheorem` (`EntQuery`): a builder nobody has run has
its own context with nothing restricted (`OwnContext`, `Untouched`), and an answer
records the rows matched and the edges loaded when its statements ran (`RowsFound`,
`EdgesLoaded`), whatever was written since. `AtomicSavesTheorem` (`EntStore`): a
statement runs inside the transaction exactly when one is open (`TxMatches`), and a
create, however often it is saved, adds only the row with its own id, which the
first save chose (`OnlyItsRow`). `SavedTheorem` rests on `EntInvariant` and on
`SavedInv`: the database and the transaction's copy hold valid rows, and every audit
log has its agent, so that no update of an agent can take a log over or unlink one
(`DBOK`). An update's mutation holds of each field what the calls on its builder said: the value
of the last Set or Clear, and the sum of the Adds since, wrapped to the column's width
(`Heard`, `HeardAll`); a creation has an id from its first save on (`CreationOK`).

`SlowStatsTheorem` (`SlowQuery`): while no Reset runs and none was overlapped, each
counter lacks exactly what goroutines inside Observe have still to add to it (`LackInv`, a
cardinality), the maximum lacks only what one is about to swap in (`MaxInv`), a Reset
leaves zeros behind it (`ResetInv`), and a percentile read alone has summed the
buckets before the one it reads and found too few (`ReadInv`).

Every invariant and every action property that a passing run checks is proved. Only
model-checked are the liveness properties – `LagRepaired`, `EveryEventSettles`,
`CallsReturn`, `CloseReturns` – since fairness and `ENABLED` are outside the prover's
reach, and the five runs that expect a violation, which show a behaviour and need no
proof.

Where a proof needs induction over numbers, it argues by a least counterexample:
`LeastOf` says that a set of naturals with an element has a least one, and the set of
wrong indices is shown to be empty. The library's induction theorems take an operator as a
parameter, which no installed prover can instantiate.

## 6. Findings

| Run | The text | The code |
|---|---|---|
| `hybrid_drift` | `core/backend/hybrid.go:6`: the background sync prevents drift | the chain accepts a level decrease that `LocalBackend` refuses; a later local write has a newer stamp, and `runOnce` (`hybrid.go:366`) then skips the record for ever |
| `outbox_duplicate` | `internal/storage/outbox_poller.go:5`: `FOR UPDATE SKIP LOCKED` keeps replicas from consuming an event twice | the query takes no lock (`outbox_poller.go:117`): two replicas forward the same row without any failure |
| `service_revoke` | `internal/service/revoke.go:7`: a revocation is permanent | `HandleBan` decides on an entity rebuilt as registered (`ban.go:97`) and takes a revoked agent to banned. For the same reason `HandleUnban` (`ban.go:155`) refuses every banned agent, against `ban.go:6` |
| `a2a_leeway` | `internal/authz/a2a/revocation.go:128`: no marker is needed after exp, the verifier refuses expired tokens | the verifier accepts until exp plus leeway (`verify.go:176`, at least one second, 5 by default), the marker ends at exp |
| `sliding_error` | `internal/authz/ratelimit/limiter.go:8`: the sliding estimate is wrong by at most 1 % | a limit of 4 in 4 s lets 5 requests through within 2 s; the excess can come near a whole limit (`LimitsHold` has the bound) |

Met while modelling, and part of the models, without a run of their own:

- `core/backend/hybrid.go`: the comment on the interval says 0 disables the
  background sync; `NewHybridBackend` turns 0 into five minutes.
- `core/backend/hybrid.go:342`: a Close that overlaps a Start may find `stopped`
  without `cancel` and then waits for ever; a Start after Close cannot be stopped.
- `internal/authz/a2a/jwks.go:110`: a refresh interval of 0 is said to ask the
  source each time; the cached set is served for ever.
- `internal/authz/aap`: a window below one second divides by zero. The CLI
  (`internal/cli/aap.go:147`) signs a payload without the agent's uuid, the handshake's
  comment (`cmd/agentid/aap_handshake.go:38`) has it.
- `internal/authz/rbac/levels.go`: a Reload does not reach engines already built.
- `cmd/agentid/batch_register.go:128`: a row that does not parse panics the
  collector, which dereferences a request that is not there.
- `internal/cli/client.go`: several remote commands use paths, methods, bodies or
  status codes the gateway does not have, and always fail.
- `internal/gateway/middleware/tls.go:31`: exempt paths are called prefixes and
  compared exactly.
- `internal/gateway/server.go:104`: when the context has ended by the time Start
  looks, the listener's error is dropped and Start returns nil.
- `internal/gateway/middleware/aap.go:99`: the gate verifies no signature; any proof
  of the right form passes.
- `internal/authz/moltcaptcha/verifier.go:146`: the time an answer is judged by is
  the caller's when it gives one.
- `internal/storage/outbox_poller.go:168`: an error longer than `last_error` makes
  the update fail, and the event is retried for ever with its count unchanged.
- `core/backend/hybrid.go:233`: the local batch read's error is dropped; writing into
  the nil map it leaves panics at `:248`.
- `internal/mcp/server.go`: a framed body whose length does not count its newline
  is not decoded; a header is accepted in its canonical spelling only, although the
  code means to accept lower case (see MCPServer above); after a line longer than the buffer the loop reports the same
  error without end.
- `cmd/agentid`: the CLI's backend "hybrid" never builds.
- `ent/schema`: ids are described as UUIDv7, the default is `uuid.New` (v4);
  `AddLevel` and `AddStatus` pass no validator; a builder's rollback inside a
  transaction does nothing.
- `internal/storage/slow_query.go:221`: a percentile that overlaps an observation
  may run past the last bucket and answer 30s.
- `internal/service/revoke.go:106`: revoking a banned agent unbans it on the chain.

## 7. What is not shown

- The chain is the repository's mock driver. A chain that confirms later, reorders
  or forks is not modelled.
- A chain call that takes effect while its answer is lost is not modelled in
  `HybridBackend` and `AgentService`: a failing call leaves the chain unchanged, as
  the mock driver's does. `HTTPChain` has such calls, on its own.
- Two clock readings never coincide (see `AgentBase`).
- Captchas stored by `StoreChallenge`.
- Who made a proof the gateway accepts (its middleware does not ask); the AAP
  handshake of `internal/authz/aap` is shown on its own.
- Signatures, claims other than exp, payload contents, logging and metrics.
- A hybrid pass that overlaps another is covered by more than one syncer in the
  proofs; `SyncerLifecycle` abstracts what a pass does.
- *Not modelled:* configuration, telemetry, gates and prompts (parsing, text and
  metrics without state that several steps share); the construction of domain
  events; credentials and the upgrade policy (value objects no workflow of the
  repository calls in sequence); the transaction helpers of `storage/tx.go` and
  `service/tx.go` (nothing calls them; transactions are in `EntStore`); the
  predicates, GroupBy and Select of ent, which build SQL text; the wrappers over
  PostgreSQL and Redis, whose calls are the atomic steps of the other modules.

## 8. Plan

Done: all modules of the table above, with their runs; a proof of every safety property
the passing runs check.

Next, most important first:

1. A chain call whose effect stands while its answer is lost, in `HybridBackend` and
   `AgentService`, as `HTTPChain` has it: the mirror may then be behind the chain
   without anyone knowing, and `AuditNeverAheadOfChain` has to be argued again.
2. The rest of ent: the queries of users, audit logs and outbox events, which
   `EntQuery` models for agents.
