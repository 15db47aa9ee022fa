---------------------------- MODULE OutboxPoller ----------------------------
(***************************************************************************)
(* The transactional outbox of internal/storage: WriteOutbox inserts rows  *)
(* of outbox_events, pollers (one per replica) fetch due rows in batches   *)
(* with a plain SELECT, forward each with XADD and then write the outcome  *)
(* back by primary key, from the row they fetched.                         *)
(*                                                                         *)
(* An event stands for its idempotency_key.  next_retry_at is kept as the  *)
(* time still to go ("wait", 0 once due), so time itself needs no bound.   *)
(* Payloads are left out, and of last_error all but whether it fits its    *)
(* column.  The stream is the number of entries XADD has made for each     *)
(* event; the approximate trimming to 1000 entries concerns consumers, of  *)
(* which the repository has none.                                          *)
(***************************************************************************)
EXTENDS Naturals, FiniteSets

CONSTANTS Events,      \* idempotency keys
          Pollers,     \* replicas that may run OutboxPoller.Run
          Poison,      \* events the handler can never deliver
          Verbose,     \* those of them whose error is longer than last_error's 1024
          BatchSize, MaxRetries, BackoffBase, BackoffMax,   \* PollerConfig
          MaxFaults,   \* bound on failed calls and abandoned batches
          NoEvent      \* the poller is not handling any event

ASSUME PoisonAssumption == Poison \subseteq Events /\ Verbose \subseteq Poison
ASSUME ConfigAssumption ==
  /\ BatchSize \in Nat \ {0} /\ MaxRetries \in Nat \ {0}
  /\ BackoffBase \in Nat \ {0} /\ BackoffMax \in Nat \ {0}
ASSUME FaultsAssumption == MaxFaults \in Nat
ASSUME NoEventAssumption == NoEvent \notin Events

VARIABLES status, retries, wait, occurred,   \* outbox_events, a function per column
          sent,     \* sent[e]: entries of e in the stream
          poll,     \* poll[p]: the batch poller p is in
          faults,
          replicas  \* the pollers that run; fixed at start-up

row == <<status, retries, wait, occurred>>

vars == <<status, retries, wait, occurred, sent, poll, faults, replicas>>

\* todo: fetched rows not handled yet; retry: their RetryCount when fetched.
Resting == [pc |-> "rest", todo |-> {}, retry |-> [e \in Events |-> 0], cur |-> NoEvent]

Init ==
  /\ status = [e \in Events |-> "none"]
  /\ retries = [e \in Events |-> 0]
  /\ wait = [e \in Events |-> 0]
  /\ occurred = [e \in Events |-> 0]
  /\ sent = [e \in Events |-> 0]
  /\ poll = [p \in Pollers |-> Resting]
  /\ faults = 0
  /\ replicas \in SUBSET Pollers \ {{}}

Fault == faults < MaxFaults /\ faults' = faults + 1

Written == {e \in Events : status[e] # "none"}

-----------------------------------------------------------------------------

\* WriteOutbox: a new pending row, due at once.  A second row with the same
\* idempotency_key violates the unique index and is not inserted.
WriteOutbox(e) ==
  /\ status[e] = "none"
  /\ status' = [status EXCEPT ![e] = "pending"]
  /\ retries' = [retries EXCEPT ![e] = 0]
  /\ wait' = [wait EXCEPT ![e] = 0]
  /\ occurred' = [occurred EXCEPT ![e] = Cardinality(Written) + 1]
  /\ UNCHANGED <<sent, poll, faults, replicas>>

\* Time passes for every row that waits for its next attempt.
Tick ==
  /\ \E e \in Events : wait[e] > 0
  /\ wait' = [e \in Events |-> IF wait[e] > 0 THEN wait[e] - 1 ELSE 0]
  /\ UNCHANGED <<status, retries, occurred, sent, poll, faults, replicas>>

Due_AnyStatus == {e \in Events : status[e] # "none" /\ wait[e] = 0}

Due == {e \in Events : status[e] = "pending" /\ wait[e] = 0}

Older(e, f) == occurred[e] < occurred[f]

\* The rows ORDER BY occurred_at LIMIT BatchSize keeps.
Batch(due) ==
  {e \in due : Cardinality({f \in due : Older(f, e)}) < BatchSize}

\* processBatch: the query.  It takes no row lock: nothing keeps another
\* poller from fetching the same rows.
Fetch(p) ==
  /\ poll[p].pc = "rest"
  /\ Due # {}
  /\ poll' = [poll EXCEPT ![p] = [pc |-> "next", todo |-> Batch(Due),
                                  retry |-> retries, cur |-> NoEvent]]
  /\ UNCHANGED <<row, sent, faults, replicas>>

\* The poller is done with its current event.
Done(p) ==
  poll' = [poll EXCEPT ![p] = IF @.todo = {} THEN Resting
                              ELSE [@ EXCEPT !.pc = "next", !.cur = NoEvent]]

Handle_ErrorSwallowed(p) ==
  \E e \in poll[p].todo :
    /\ poll[p].pc = "next"
    /\ \A f \in poll[p].todo : f = e \/ Older(e, f)
    /\ \/ e \notin Poison /\ sent' = [sent EXCEPT ![e] = @ + 1] /\ UNCHANGED faults
       \/ e \in Poison /\ UNCHANGED <<sent, faults>>
       \/ Fault /\ UNCHANGED sent
    /\ poll' = [poll EXCEPT ![p].pc = "sent", ![p].cur = e, ![p].todo = @ \ {e}]
    /\ UNCHANGED <<row, replicas>>

\* HandleOutboxEvent of the oldest event of the batch.  "sent": XADD made the
\* entry.  "failed": it returned an error, and the entry may exist all the same.
Handle(p) ==
  \E e \in poll[p].todo :
    /\ poll[p].pc = "next"
    /\ \A f \in poll[p].todo : f = e \/ Older(e, f)
    /\ \/ /\ e \notin Poison
          /\ sent' = [sent EXCEPT ![e] = @ + 1]
          /\ poll' = [poll EXCEPT ![p].pc = "sent", ![p].cur = e, ![p].todo = @ \ {e}]
          /\ UNCHANGED faults
       \/ /\ \/ e \in Poison /\ UNCHANGED <<sent, faults>>
             \/ e \notin Poison /\ Fault /\ sent' \in {sent, [sent EXCEPT ![e] = @ + 1]}
          /\ poll' = [poll EXCEPT ![p].pc = "failed", ![p].cur = e, ![p].todo = @ \ {e}]
    /\ UNCHANGED <<row, replicas>>

MarkPublished_KeepsPending(p) ==
  /\ poll[p].pc = "sent"
  /\ Done(p)
  /\ UNCHANGED <<row, sent, faults, replicas>>

\* handleOne, success: SetStatus(1) whatever the row says by now.
MarkPublished(p) ==
  /\ poll[p].pc = "sent"
  /\ status' = [status EXCEPT ![poll[p].cur] = "published"]
  /\ Done(p)
  /\ UNCHANGED <<retries, wait, occurred, sent, faults, replicas>>

\* computeBackoff: base * 3^(retry - 1), each product capped.
computeBackoff[retry \in Nat] ==
  IF retry <= 1 THEN BackoffBase
  ELSE LET b == 3 * computeBackoff[retry - 1] IN IF b > BackoffMax THEN BackoffMax ELSE b

MarkFailed_StatusFailed(p) ==
  LET e == poll[p].cur
      newCount == poll[p].retry[e] + 1 IN
  /\ poll[p].pc = "failed" /\ e \notin Verbose
  /\ status' = [status EXCEPT ![e] = IF newCount >= MaxRetries THEN "dead" ELSE "failed"]
  /\ retries' = [retries EXCEPT ![e] = newCount]
  /\ Done(p)
  /\ UNCHANGED <<wait, occurred, sent, faults, replicas>>

MarkFailed_OneTooMany(p) ==
  LET e == poll[p].cur
      newCount == poll[p].retry[e] + 1 IN
  /\ poll[p].pc = "failed" /\ e \notin Verbose
  /\ status' = [status EXCEPT ![e] = IF newCount > MaxRetries THEN "dead" ELSE "pending"]
  /\ retries' = [retries EXCEPT ![e] = newCount]
  /\ Done(p)
  /\ UNCHANGED <<wait, occurred, sent, faults, replicas>>

\* handleOne, failure: one more than the count that was fetched, dead when
\* the budget is used up, otherwise pending again after the backoff.
MarkFailed(p) ==
  LET e == poll[p].cur
      newCount == poll[p].retry[e] + 1 IN
  /\ poll[p].pc = "failed" /\ e \notin Verbose
  /\ \/ newCount >= MaxRetries /\ status' = [status EXCEPT ![e] = "dead"] /\ UNCHANGED wait
     \/ /\ newCount < MaxRetries
        /\ status' = [status EXCEPT ![e] = "pending"]
        /\ wait' = [wait EXCEPT ![e] = computeBackoff[newCount]]
  /\ retries' = [retries EXCEPT ![e] = newCount]
  /\ Done(p)
  /\ UNCHANGED <<occurred, sent, faults, replicas>>

\* An error that does not fit last_error fails the validation of the update,
\* which changes nothing: not the count either, so the row is due again at once.
MarkRefused(p) ==
  /\ poll[p].pc = "failed" /\ poll[p].cur \in Verbose
  /\ Done(p)
  /\ UNCHANGED <<row, sent, faults, replicas>>

\* The update of the row fails; the error is logged and the batch goes on.
MarkLost(p) ==
  /\ poll[p].pc \in {"sent", "failed"}
  /\ Fault
  /\ Done(p)
  /\ UNCHANGED <<row, sent, replicas>>

\* BatchTimeout, cancellation or a crash: with batchCtx done every remaining
\* call fails, so nothing more of the batch is sent or written.
Abandon(p) ==
  /\ poll[p].pc # "rest"
  /\ Fault
  /\ poll' = [poll EXCEPT ![p] = Resting]
  /\ UNCHANGED <<row, sent, replicas>>

PollerStep(p) ==
  Handle(p) \/ MarkPublished(p) \/ MarkFailed(p) \/ MarkRefused(p) \/ MarkLost(p)

Next ==
  \/ \E e \in Events : WriteOutbox(e)
  \/ Tick
  \/ \E p \in replicas : Fetch(p) \/ PollerStep(p) \/ Abandon(p)

\* The ticker keeps starting batches, a batch runs on, and time passes.
Fairness ==
  WF_vars(Tick) /\ \A p \in Pollers : WF_vars(p \in replicas /\ (Fetch(p) \/ PollerStep(p)))

Spec == Init /\ [][Next]_vars /\ Fairness

-----------------------------------------------------------------------------

TypeOK ==
  /\ status \in [Events -> {"none", "pending", "published", "dead"}]
  /\ retries \in [Events -> 0..MaxRetries]
  /\ wait \in [Events -> Nat]
  /\ occurred \in [Events -> Nat]
  /\ sent \in [Events -> Nat]
  /\ poll \in [Pollers -> [pc : {"rest", "next", "sent", "failed"}, todo : SUBSET Events,
                           retry : [Events -> 0..MaxRetries], cur : Events \cup {NoEvent}]]
  /\ faults \in 0..MaxFaults
  /\ replicas \in SUBSET Pollers

\* No event is lost: a row is marked published only after XADD has put the
\* event in the stream, whatever fails or is abandoned in between.
PublishedWasSent == \A e \in Events : status[e] = "published" => sent[e] > 0

\* The retry budget: a pending row has attempts left and an event is given up
\* only after exactly MaxRetries recorded attempts, stale write-backs included.
RetryBudget ==
  \A e \in Events : /\ status[e] = "pending" => retries[e] < MaxRetries
                    /\ status[e] = "dead" => retries[e] = MaxRetries

\* One replica runs.
Single == \A p, q \in replicas : p = q

\* With one poller every duplicate in the stream is paid for by a failure:
\* an entry of which the poller never learned, or whose mark was lost.
DuplicatesNeedFaults == Single => \A e \in Events : sent[e] <= 1 + faults

\* With one poller an outcome is final: no later step takes a row out of
\* published or dead.
OutcomeIsFinal ==
  [][Single => \A e \in Events : status[e] \in {"published", "dead"} =>
       status'[e] = status[e]]_status

\* Every event is settled, even behind events that keep failing and fill the
\* batches, and one that can be delivered is given up only after MaxRetries
\* real failures.  Only an event whose error does not fit last_error is tried for
\* ever, and as long as such events leave room in a batch they hold up no other.
EveryEventSettles ==
  Cardinality(Verbose) < BatchSize =>
    \A e \in Events \ Verbose :
      status[e] = "pending" ~>
        \/ status[e] = "published"
        \/ status[e] = "dead" /\ (e \in Poison \/ faults >= MaxRetries)

\* The poller's package comment: replicas do not consume an event twice.
\* Without any failure, each event is in the stream at most once.
NoDuplicateConsumption == faults = 0 => \A e \in Events : sent[e] <= 1
=============================================================================
