-------------------------- MODULE OutboxPollerProofs --------------------------
(***************************************************************************)
(* Proofs about OutboxPoller, for any number of events and any PollerConfig. *)
(***************************************************************************)
EXTENDS OutboxPoller, FiniteSetTheorems, WellFoundedInduction, TLAPS

Types ==
  /\ status \in [Events -> {"none", "pending", "published", "dead"}]
  /\ retries \in [Events -> 0..MaxRetries]
  /\ sent \in [Events -> Nat]
  /\ poll \in [Pollers -> [pc : {"rest", "next", "sent", "failed"}, todo : SUBSET Events,
                           retry : [Events -> 0..MaxRetries], cur : Events \cup {NoEvent}]]
  /\ faults \in 0..MaxFaults
  /\ replicas \in SUBSET Pollers

\* The events poller p has fetched and not written back yet.
Holds(p) ==
  poll[p].todo \cup (IF poll[p].pc \in {"sent", "failed"} THEN {poll[p].cur} ELSE {})

\* What a poller believes of its events: the counts it fetched leave an
\* attempt, and after a successful XADD the entry is in the stream.
Beliefs ==
  \A p \in Pollers :
    /\ poll[p].pc \in {"sent", "failed"} => poll[p].cur \in Events
    /\ \A e \in Holds(p) : poll[p].retry[e] < MaxRetries
    /\ poll[p].pc = "sent" => sent[poll[p].cur] > 0

Inv == Types /\ Beliefs /\ PublishedWasSent /\ RetryBudget

-----------------------------------------------------------------------------

\* The initial table is empty and every poller rests.
LEMMA InitInv == Init => Inv
  BY ConfigAssumption, FaultsAssumption, NoEventAssumption
  DEF Init, Inv, Types, Beliefs, Holds, Resting, PublishedWasSent, RetryBudget

\* What Done leaves of the poller's record: the remaining batch.
LEMMA DoneFacts ==
  ASSUME Types, NEW p \in Pollers, Done(p)
  PROVE  /\ poll' \in [Pollers -> [pc : {"rest", "next", "sent", "failed"},
              todo : SUBSET Events, retry : [Events -> 0..MaxRetries],
              cur : Events \cup {NoEvent}]]
         /\ \A q \in Pollers \ {p} : poll'[q] = poll[q]
         /\ poll'[p].pc \in {"rest", "next"}
         /\ poll'[p].todo = poll[p].todo
         /\ poll'[p].todo # {} => poll'[p].retry = poll[p].retry
<1> DEFINE next == IF poll[p].todo = {} THEN Resting
                   ELSE [poll[p] EXCEPT !.pc = "next", !.cur = NoEvent]
<1>1. poll' = [poll EXCEPT ![p] = next]
  BY DEF Done
<1>2. /\ next \in [pc : {"rest", "next", "sent", "failed"}, todo : SUBSET Events,
                   retry : [Events -> 0..MaxRetries], cur : Events \cup {NoEvent}]
      /\ next.pc \in {"rest", "next"}
      /\ next.todo = poll[p].todo
      /\ next.todo # {} => next.retry = poll[p].retry
  <2>1. CASE poll[p].todo = {}
    BY <2>1, ConfigAssumption DEF Resting
  <2>2. CASE poll[p].todo # {}
    BY <2>2 DEF Types
  <2> QED BY <2>1, <2>2
<1> HIDE DEF next
<1> QED BY <1>1, <1>2 DEF Types

\* Leaving an event keeps every poller's beliefs, as long as the columns they
\* are about do not lose what they hold.
LEMMA DoneBeliefs ==
  ASSUME Types, Beliefs, NEW p \in Pollers, Done(p), UNCHANGED sent
  PROVE  Beliefs'
<1> SUFFICES ASSUME NEW q \in Pollers
             PROVE  /\ (poll[q].pc \in {"sent", "failed"} => poll[q].cur \in Events)'
                    /\ \A e \in Holds(q)' : poll'[q].retry[e] < MaxRetries
                    /\ (poll[q].pc = "sent" => sent[poll[q].cur] > 0)'
  BY DEF Beliefs
<1>1. CASE q = p
  BY <1>1, DoneFacts DEF Beliefs, Holds
<1>2. CASE q # p
  BY <1>2, DoneFacts DEF Beliefs, Holds
<1> QED BY <1>1, <1>2

-----------------------------------------------------------------------------

\* A new row is pending with all its attempts.
LEMMA WriteStep ==
  ASSUME Inv, NEW e \in Events, WriteOutbox(e)
  PROVE  Inv'
<1>1. Types' BY ConfigAssumption DEF Inv, Types, WriteOutbox
<1>2. Beliefs' BY DEF Inv, Beliefs, Holds, WriteOutbox
<1>3. PublishedWasSent' BY DEF Inv, Types, PublishedWasSent, WriteOutbox
<1>4. RetryBudget' BY ConfigAssumption DEF Inv, Types, RetryBudget, WriteOutbox
<1> QED BY <1>1, <1>2, <1>3, <1>4 DEF Inv

\* The passage of time touches no column the invariant is about.
LEMMA TickStep ==
  ASSUME Inv, Tick
  PROVE  Inv'
  BY DEF Inv, Types, Beliefs, Holds, PublishedWasSent, RetryBudget, Tick

\* A fetched row is pending, so its count leaves an attempt.
LEMMA FetchStep ==
  ASSUME Inv, NEW p \in Pollers, Fetch(p)
  PROVE  Inv'
<1> DEFINE new == [pc |-> "next", todo |-> Batch(Due), retry |-> retries, cur |-> NoEvent]
<1>1. Batch(Due) \subseteq {e \in Events : status[e] = "pending"}
  BY DEF Batch, Due
<1>2. poll' = [poll EXCEPT ![p] = new] /\ UNCHANGED <<status, retries, sent, faults, replicas>>
  BY DEF Fetch, row
<1>3. /\ new \in [pc : {"rest", "next", "sent", "failed"}, todo : SUBSET Events,
                  retry : [Events -> 0..MaxRetries], cur : Events \cup {NoEvent}]
      /\ new.pc = "next"
      /\ \A e \in new.todo : new.retry[e] < MaxRetries
  BY <1>1 DEF Inv, Types, RetryBudget
<1> HIDE DEF new
<1>4. Types' BY <1>2, <1>3 DEF Inv, Types
<1>5. Beliefs'
  <2> SUFFICES ASSUME NEW q \in Pollers
               PROVE  /\ (poll[q].pc \in {"sent", "failed"} => poll[q].cur \in Events)'
                      /\ \A e \in Holds(q)' : poll'[q].retry[e] < MaxRetries
                      /\ (poll[q].pc = "sent" => sent[poll[q].cur] > 0)'
    BY DEF Beliefs
  <2>1. CASE q = p BY <2>1, <1>2, <1>3 DEF Inv, Types, Holds
  <2>2. CASE q # p BY <2>2, <1>2 DEF Inv, Types, Beliefs, Holds
  <2> QED BY <2>1, <2>2
<1>6. PublishedWasSent' /\ RetryBudget' BY <1>2 DEF Inv, PublishedWasSent, RetryBudget
<1> QED BY <1>4, <1>5, <1>6 DEF Inv

\* XADD only adds entries; its event moves from todo to cur.
LEMMA HandleStep ==
  ASSUME Inv, NEW p \in Pollers, Handle(p)
  PROVE  Inv'
<1>1. PICK e \in poll[p].todo :
        /\ UNCHANGED <<status, retries, replicas>>
        /\ \/ sent' = sent
           \/ sent' = [sent EXCEPT ![e] = @ + 1]
        /\ \E s \in {"sent", "failed"} :
             /\ poll' = [poll EXCEPT ![p].pc = s, ![p].cur = e, ![p].todo = @ \ {e}]
             /\ s = "sent" => sent' = [sent EXCEPT ![e] = @ + 1]
        /\ faults' = faults \/ Fault
  BY DEF Handle, row
<1>2. PICK s \in {"sent", "failed"} :
        /\ poll' = [poll EXCEPT ![p].pc = s, ![p].cur = e, ![p].todo = @ \ {e}]
        /\ s = "sent" => sent' = [sent EXCEPT ![e] = @ + 1]
  BY <1>1
<1>3. e \in Events BY DEF Inv, Types
<1>4. Types'
  BY <1>1, <1>2, <1>3, FaultsAssumption DEF Inv, Types, Fault
<1>5. \A f \in Events : sent'[f] >= sent[f]
  BY <1>1, <1>3 DEF Inv, Types
<1>6. Beliefs'
  <2> SUFFICES ASSUME NEW q \in Pollers
               PROVE  /\ (poll[q].pc \in {"sent", "failed"} => poll[q].cur \in Events)'
                      /\ \A f \in Holds(q)' : poll'[q].retry[f] < MaxRetries
                      /\ (poll[q].pc = "sent" => sent[poll[q].cur] > 0)'
    BY DEF Beliefs
  <2>1. CASE q = p
    <3>1. /\ poll'[p].pc = s /\ poll'[p].cur = e /\ poll'[p].retry = poll[p].retry
          /\ poll'[p].todo = poll[p].todo \ {e}
      BY <1>2 DEF Inv, Types
    <3>2. Holds(p)' \subseteq Holds(p)
      BY <3>1 DEF Holds
    <3>3. s = "sent" => sent'[e] > 0
      BY <1>2, <1>3 DEF Inv, Types
    <3> QED BY <2>1, <3>1, <3>2, <3>3, <1>3 DEF Inv, Beliefs
  <2>2. CASE q # p
    BY <2>2, <1>2, <1>4, <1>5 DEF Inv, Types, Beliefs, Holds
  <2> QED BY <2>1, <2>2
<1>7. PublishedWasSent' BY <1>1, <1>4, <1>5 DEF Inv, Types, PublishedWasSent
<1>8. RetryBudget' BY <1>1 DEF Inv, RetryBudget
<1> QED BY <1>4, <1>6, <1>7, <1>8 DEF Inv

\* Marking published: the entry is in the stream, stale row or not.
LEMMA MarkPublishedStep ==
  ASSUME Inv, NEW p \in Pollers, MarkPublished(p)
  PROVE  Inv'
<1>1. /\ poll[p].cur \in Events /\ sent[poll[p].cur] > 0
      /\ status' = [status EXCEPT ![poll[p].cur] = "published"]
      /\ UNCHANGED <<retries, sent, faults, replicas>> /\ Done(p)
  BY DEF MarkPublished, Inv, Beliefs
<1>2. Types' BY <1>1, DoneFacts DEF Inv, Types
<1>3. Beliefs' BY <1>1, DoneBeliefs DEF Inv
<1>4. PublishedWasSent' BY <1>1 DEF Inv, Types, PublishedWasSent
<1>5. RetryBudget' BY <1>1 DEF Inv, Types, RetryBudget
<1> QED BY <1>2, <1>3, <1>4, <1>5 DEF Inv

\* Marking a failure: the stale count still left an attempt, so the new one is
\* at most MaxRetries, and MaxRetries exactly when the event is given up.
LEMMA MarkFailedStep ==
  ASSUME Inv, NEW p \in Pollers, MarkFailed(p)
  PROVE  Inv'
<1> DEFINE e == poll[p].cur
           newCount == poll[p].retry[e] + 1
<1>1. /\ e \in Events /\ poll[p].retry[e] < MaxRetries /\ poll[p].retry[e] \in Nat
      /\ retries' = [retries EXCEPT ![e] = newCount]
      /\ UNCHANGED <<sent, faults, replicas>> /\ Done(p)
      /\ \/ newCount >= MaxRetries /\ status' = [status EXCEPT ![e] = "dead"]
         \/ newCount < MaxRetries /\ status' = [status EXCEPT ![e] = "pending"]
  BY DEF MarkFailed, Inv, Types, Beliefs, Holds
<1>2. newCount \in 1..MaxRetries
  BY <1>1, ConfigAssumption
<1> HIDE DEF newCount, e
<1>3. Types' BY <1>1, <1>2, DoneFacts, ConfigAssumption DEF Inv, Types
<1>4. Beliefs' BY <1>1, DoneBeliefs DEF Inv
<1>5. PublishedWasSent' BY <1>1 DEF Inv, Types, PublishedWasSent
<1>6. RetryBudget' BY <1>1, <1>2, ConfigAssumption DEF Inv, Types, RetryBudget
<1> QED BY <1>3, <1>4, <1>5, <1>6 DEF Inv

\* A lost mark or an abandoned batch changes no row.
LEMMA LostStep ==
  ASSUME Inv, NEW p \in Pollers, MarkLost(p) \/ Abandon(p)
  PROVE  Inv'
<1>1. UNCHANGED <<status, retries, sent, replicas>> /\ Fault
  BY DEF MarkLost, Abandon, row
<1>2. faults' \in 0..MaxFaults
  BY <1>1, FaultsAssumption DEF Inv, Types, Fault
<1>3. CASE MarkLost(p)
  <2>1. Done(p) BY <1>3 DEF MarkLost
  <2>2. Types' BY <1>1, <1>2, <2>1, DoneFacts DEF Inv, Types
  <2>3. Beliefs' BY <1>1, <2>1, DoneBeliefs DEF Inv
  <2> QED BY <1>1, <2>2, <2>3 DEF Inv, PublishedWasSent, RetryBudget
<1>4. CASE Abandon(p)
  <2>1. poll' = [poll EXCEPT ![p] = Resting] BY <1>4 DEF Abandon
  <2>2. Types' BY <1>1, <1>2, <2>1, ConfigAssumption DEF Inv, Types, Resting
  <2>3. Beliefs' BY <1>1, <2>1 DEF Inv, Types, Beliefs, Holds, Resting
  <2> QED BY <1>1, <2>2, <2>3 DEF Inv, PublishedWasSent, RetryBudget
<1> QED BY <1>3, <1>4

\* A refused mark changes no row either, and no counter.
LEMMA RefusedStep ==
  ASSUME Inv, NEW p \in Pollers, MarkRefused(p)
  PROVE  Inv'
<1>1. Done(p) /\ UNCHANGED <<status, retries, sent, faults, replicas>>
  BY DEF MarkRefused, row
<1>2. Types' BY <1>1, DoneFacts DEF Inv, Types
<1>3. Beliefs' BY <1>1, DoneBeliefs DEF Inv
<1> QED BY <1>1, <1>2, <1>3 DEF Inv, PublishedWasSent, RetryBudget

\* Inv is inductive.
LEMMA NextInv == Inv /\ [Next]_vars => Inv'
<1> SUFFICES ASSUME Inv, [Next]_vars PROVE Inv'
  OBVIOUS
<1>1. CASE UNCHANGED vars
  BY <1>1 DEF vars, Inv, Types, Beliefs, Holds, PublishedWasSent, RetryBudget
<1>2. ASSUME NEW e \in Events, WriteOutbox(e) PROVE Inv'
  BY <1>2, WriteStep
<1>3. CASE Tick
  BY <1>3, TickStep
<1>4. ASSUME NEW p \in Pollers, Fetch(p) \/ PollerStep(p) \/ Abandon(p) PROVE Inv'
  BY <1>4, FetchStep, HandleStep, MarkPublishedStep, MarkFailedStep, RefusedStep,
      LostStep DEF PollerStep
<1> QED BY <1>1, <1>2, <1>3, <1>4 DEF Next, Inv, Types

\* With any number of replicas, whatever calls fail and batches are abandoned:
\* a row marked published is in the stream.
THEOREM OutboxSafety == Spec => []PublishedWasSent
<1>1. Inv => PublishedWasSent BY DEF Inv
<1> QED BY <1>1, InitInv, NextInv, PTL DEF Spec

\* The retry budget is exact although replicas write back counts they read long
\* before: a pending row has attempts left, a dead one has used them all.
THEOREM BudgetTheorem == Spec => []RetryBudget
<1>1. Inv => RetryBudget BY DEF Inv
<1> QED BY <1>1, InitInv, NextInv, PTL DEF Spec

-----------------------------------------------------------------------------
(* One replica.  What the poller has fetched stays pending until it writes  *)
(* it back, so no write-back is stale.                                      *)

Owned ==
  \A p \in replicas :
    /\ \A e \in Holds(p) : status[e] = "pending"
    /\ poll[p].pc \in {"sent", "failed"} => poll[p].cur \notin poll[p].todo

\* e has an entry that is, or is about to be, recorded as published.
Accounted(e) ==
  status[e] = "published" \/ \E p \in replicas : poll[p].pc = "sent" /\ poll[p].cur = e

\* Every entry that is not accounted for was paid for by a failure.
Ledger == \A e \in Events : sent[e] <= faults + (IF Accounted(e) THEN 1 ELSE 0)

Inv1 == Inv /\ (Single => Owned /\ Ledger)

\* Nothing is fetched and nothing is sent at the start.
LEMMA InitInv1 == Init => Inv1
<1> SUFFICES ASSUME Init PROVE Owned /\ Ledger
  BY InitInv DEF Inv1
<1>1. Owned BY DEF Init, Owned, Holds, Resting
<1>2. Ledger BY DEF Init, Ledger
<1> QED BY <1>1, <1>2

\* A step of the only poller keeps the rest of its batch pending, if it writes
\* at most the row of its current event.
LEMMA DoneOwned ==
  ASSUME Single, Inv, Owned, NEW p \in replicas, Done(p), UNCHANGED replicas,
         \A e \in poll[p].todo : status'[e] = status[e]
  PROVE  Owned' /\ \A q \in replicas : poll'[q].pc # "sent"
<1>1. p \in Pollers /\ \A q \in replicas : q = p BY DEF Single, Inv, Types
<1>2. poll'[p].pc \in {"rest", "next"} /\ poll'[p].todo = poll[p].todo
  BY <1>1, DoneFacts DEF Inv
<1>3. \A e \in Holds(p)' : status'[e] = "pending"
  BY <1>2 DEF Owned, Holds
<1> QED BY <1>1, <1>2, <1>3 DEF Owned

\* The steps of one poller keep its ownership and the ledger.
LEMMA OwnedNext ==
  ASSUME Single, Inv, Owned, Ledger, [Next]_vars
  PROVE  Owned' /\ Ledger' /\ (\A e \in Events : status[e] \in {"published", "dead"} => status'[e] = status[e])
<1>0. Inv' BY NextInv
<1>t. Types /\ Types' /\ replicas \subseteq Pollers /\ \A e \in Events : sent[e] \in Nat /\ sent'[e] \in Nat
  BY <1>0 DEF Inv, Types
<1>f. faults \in Nat /\ faults' \in Nat
  BY <1>t, FaultsAssumption DEF Types
<1>1. CASE UNCHANGED vars
  BY <1>1 DEF vars, Owned, Holds, Ledger, Accounted
<1>2. ASSUME NEW e \in Events, WriteOutbox(e)
      PROVE  Owned' /\ Ledger' /\ (\A f \in Events : status[f] \in {"published", "dead"} => status'[f] = status[f])
  <2>1. /\ status[e] = "none" /\ status' = [status EXCEPT ![e] = "pending"]
        /\ UNCHANGED <<sent, poll, faults, replicas>>
    BY <1>2 DEF WriteOutbox
  <2>2. Owned' BY <2>1, <1>t DEF Owned, Holds, Types
  <2>3. \A f \in Events : Accounted(f)' <=> Accounted(f)
    BY <2>1, <1>t DEF Accounted, Types
  <2>4. Ledger' BY <2>1, <2>3 DEF Ledger
  <2> QED BY <2>1, <2>2, <2>4, <1>t DEF Types
<1>3. CASE Tick
  BY <1>3 DEF Tick, Owned, Holds, Ledger, Accounted
<1>4. ASSUME NEW p \in replicas, Fetch(p)
      PROVE  Owned' /\ Ledger' /\ UNCHANGED status
  <2>1. /\ poll[p].pc = "rest" /\ UNCHANGED <<status, sent, faults, replicas>>
        /\ poll' = [poll EXCEPT ![p] = [pc |-> "next", todo |-> Batch(Due),
                                        retry |-> retries, cur |-> NoEvent]]
    BY <1>4 DEF Fetch, row
  <2>2. Batch(Due) \subseteq {e \in Events : status[e] = "pending"}
    BY DEF Batch, Due
  <2>3. Owned' BY <2>1, <2>2, <1>t DEF Owned, Holds, Types, Single
  <2>4. \A f \in Events : Accounted(f)' <=> Accounted(f)
    BY <2>1, <1>t DEF Accounted, Types
  <2> QED BY <2>1, <2>3, <2>4 DEF Ledger
<1>5. ASSUME NEW p \in replicas, Handle(p)
      PROVE  Owned' /\ Ledger' /\ UNCHANGED status
  <2>1. PICK e \in poll[p].todo :
          /\ poll[p].pc = "next" /\ UNCHANGED <<status, replicas>>
          /\ \/ /\ sent' = [sent EXCEPT ![e] = @ + 1] /\ UNCHANGED faults
                /\ poll' = [poll EXCEPT ![p].pc = "sent", ![p].cur = e, ![p].todo = @ \ {e}]
             \/ /\ \/ UNCHANGED <<sent, faults>>
                   \/ Fault /\ sent' \in {sent, [sent EXCEPT ![e] = @ + 1]}
                /\ poll' = [poll EXCEPT ![p].pc = "failed", ![p].cur = e, ![p].todo = @ \ {e}]
    BY <1>5 DEF Handle, row
  <2>2. e \in Events /\ status[e] = "pending" BY <2>1, <1>t DEF Owned, Holds, Types
  <2>3. /\ poll'[p].cur = e /\ poll'[p].todo = poll[p].todo \ {e}
        /\ poll'[p].pc \in {"sent", "failed"}
    BY <2>1, <1>t DEF Types
  <2>4. Owned' BY <2>1, <2>2, <2>3 DEF Owned, Holds, Single
  <2>5. \A f \in Events : Accounted(f) <=> status[f] = "published"
    BY <2>1 DEF Accounted, Single
  <2>6. sent[e] <= faults BY <2>2, <2>5, <1>t, <1>f DEF Ledger
  <2>7. \A f \in Events \ {e} : sent'[f] = sent[f] /\ (Accounted(f) => Accounted(f)')
    BY <2>1, <2>2, <2>5, <1>t DEF Accounted, Types
  <2>8. faults' >= faults BY <2>1, <1>f DEF Fault
  <2>9. sent'[e] <= faults' + (IF Accounted(e)' THEN 1 ELSE 0)
    <3>1. CASE UNCHANGED sent BY <3>1, <2>6, <2>8, <1>t, <1>f, <2>2
    <3>2. CASE sent' = [sent EXCEPT ![e] = @ + 1] /\ Fault
      BY <3>2, <2>6, <1>t, <1>f, <2>2 DEF Fault, Types
    <3>3. CASE /\ sent' = [sent EXCEPT ![e] = @ + 1] /\ UNCHANGED faults
               /\ poll'[p].pc = "sent"
      <4>1. p \in replicas' BY <2>1
      <4>3. Accounted(e)' BY <4>1, <3>3, <2>3 DEF Accounted
      <4>2. sent'[e] = sent[e] + 1 BY <3>3, <2>2, <1>t DEF Types
      <4> QED BY <4>3, <4>2, <3>3, <2>6, <1>t, <1>f, <2>2
    <3> QED BY <3>1, <3>2, <3>3, <2>1, <1>t DEF Types
  <2>10. Ledger'
    <3> SUFFICES ASSUME NEW f \in Events
                 PROVE  sent'[f] <= faults' + (IF Accounted(f)' THEN 1 ELSE 0)
      BY DEF Ledger
    <3>1. CASE f = e BY <3>1, <2>9
    <3>2. CASE f # e BY <3>2, <2>7, <2>8, <1>t, <1>f DEF Ledger
    <3> QED BY <3>1, <3>2
  <2> QED BY <2>1, <2>4, <2>10
<1>6. ASSUME NEW p \in replicas, MarkPublished(p) \/ MarkFailed(p) \/ MarkRefused(p) \/ MarkLost(p) \/ Abandon(p)
      PROVE  Owned' /\ Ledger' /\ (\A f \in Events : status[f] \in {"published", "dead"} => status'[f] = status[f])
  <2>1. p \in Pollers /\ \A q \in replicas : q = p BY <1>t DEF Single
  <2>2. CASE MarkPublished(p)
    <3>1. /\ poll[p].pc = "sent" /\ status' = [status EXCEPT ![poll[p].cur] = "published"]
          /\ Done(p) /\ UNCHANGED <<sent, faults, replicas>>
          /\ poll[p].cur \in Events /\ poll[p].cur \notin poll[p].todo /\ status[poll[p].cur] = "pending"
      BY <2>1, <2>2 DEF MarkPublished, Owned, Holds, Inv, Beliefs
    <3>2. Owned' BY <3>1, DoneOwned, <1>t DEF Types
    <3>3. \A f \in Events : Accounted(f) => Accounted(f)'
      BY <3>1, <2>1, <1>t DEF Accounted, Types
    <3>4. Ledger' BY <3>1, <3>3, <1>t, <1>f DEF Ledger
    <3> QED BY <3>1, <3>2, <3>4, <1>t DEF Types
  <2>3. CASE MarkFailed(p)
    <3>1. /\ poll[p].pc = "failed" /\ Done(p) /\ UNCHANGED <<sent, faults, replicas>>
          /\ \/ status' = [status EXCEPT ![poll[p].cur] = "dead"]
             \/ status' = [status EXCEPT ![poll[p].cur] = "pending"]
          /\ poll[p].cur \in Events /\ poll[p].cur \notin poll[p].todo /\ status[poll[p].cur] = "pending"
      BY <2>1, <2>3 DEF MarkFailed, Owned, Holds, Inv, Beliefs
    <3>2. Owned' BY <3>1, DoneOwned, <1>t DEF Types
    <3>3. \A f \in Events : Accounted(f) => Accounted(f)'
      BY <3>1, <2>1, <1>t DEF Accounted, Types
    <3>4. Ledger' BY <3>1, <3>3, <1>t, <1>f DEF Ledger
    <3> QED BY <3>1, <3>2, <3>4, <1>t DEF Types
  <2>4. CASE MarkLost(p) \/ Abandon(p)
    <3>1. UNCHANGED <<status, sent, replicas>> /\ faults' = faults + 1
      BY <2>4 DEF MarkLost, Abandon, row, Fault
    <3>2. Owned'
      <4>1. CASE MarkLost(p) BY <4>1, <3>1, DoneOwned DEF MarkLost
      <4>2. CASE Abandon(p)
        BY <4>2, <3>1, <1>t, <2>1 DEF Abandon, Owned, Holds, Resting, Types
      <4> QED BY <2>4, <4>1, <4>2
    <3>3. Ledger'
      BY <3>1, <1>t, <1>f DEF Ledger
    <3> QED BY <3>1, <3>2, <3>3
  <2>5. CASE MarkRefused(p)
    <3>1. Done(p) /\ UNCHANGED <<status, sent, faults, replicas>> /\ poll[p].pc = "failed"
      BY <2>5 DEF MarkRefused, row
    <3>2. Owned' BY <3>1, DoneOwned
    <3>3. \A f \in Events : Accounted(f) => Accounted(f)'
      BY <3>1, <2>1 DEF Accounted
    <3> QED BY <3>1, <3>2, <3>3, <1>t, <1>f DEF Ledger
  <2> QED BY <1>6, <2>2, <2>3, <2>4, <2>5
<1> QED BY <1>1, <1>2, <1>3, <1>4, <1>5, <1>6 DEF Next, PollerStep

\* Inv1 is inductive, and a step of a single replica leaves the settled rows alone.
LEMMA NextInv1 ==
  ASSUME Inv1, [Next]_vars
  PROVE  /\ Inv1'
         /\ Single => \A e \in Events : status[e] \in {"published", "dead"} => status'[e] = status[e]
<1>1. Inv' BY NextInv DEF Inv1
<1>2. Single' <=> Single
  <2>1. replicas' = replicas
    BY DEF Next, PollerStep, WriteOutbox, Tick, Fetch, Handle, MarkPublished, MarkFailed,
           MarkRefused, MarkLost, Abandon, vars
  <2> QED BY <2>1 DEF Single
<1>3. CASE Single BY <1>1, <1>2, <1>3, OwnedNext DEF Inv1
<1>4. CASE ~Single BY <1>1, <1>2, <1>4 DEF Inv1
<1> QED BY <1>3, <1>4

\* With one replica the stream holds an event a second time only if a call
\* failed or a batch was abandoned: sent[e] never exceeds 1 + faults.
THEOREM SingleReplicaDuplicates == Spec => []DuplicatesNeedFaults
<1>1. Inv1 => DuplicatesNeedFaults
  BY FaultsAssumption DEF Inv1, Inv, Types, Ledger, DuplicatesNeedFaults
<1>2. Inv1 /\ [Next]_vars => Inv1' BY NextInv1
<1> QED BY <1>1, <1>2, InitInv1, PTL DEF Spec

\* With one replica published and dead are final.
THEOREM SingleReplicaOutcomes == Spec => OutcomeIsFinal
<1>1. Inv1 /\ [Next]_vars => Inv1' BY NextInv1
<1>2. Inv1 /\ [Next]_vars =>
        [Single => \A e \in Events : status[e] \in {"published", "dead"} =>
           status'[e] = status[e]]_status
  BY NextInv1
<1> QED BY <1>1, <1>2, InitInv1, PTL DEF Spec, OutcomeIsFinal

-----------------------------------------------------------------------------
(* The backoff.  computeBackoff is a recursive function on Nat: it exists    *)
(* because its restrictions to 0..n do, one for each n, and agree.           *)

Capped(x) == IF 3 * x > BackoffMax THEN BackoffMax ELSE 3 * x
BackoffUpTo(n, g) == g = [i \in 0..n |-> IF i <= 1 THEN BackoffBase ELSE Capped(g[i - 1])]

\* A set of naturals with an element has a least one.
LEMMA LeastOf ==
  ASSUME NEW T \in SUBSET Nat, T # {}
  PROVE  \E x \in T : \A y \in T : x <= y
<1>1. PICK x \in T : \A y \in T : ~ (<<y, x>> \in OpToRel(<, Nat))
  BY NatLessThanWellFounded, WFMin
<1>2. ASSUME NEW y \in T PROVE x <= y
  <2>1. x \in Nat /\ y \in Nat
    OBVIOUS
  <2>2. ~(y < x)
    BY <1>1, <2>1 DEF OpToRel
  <2> QED BY <2>1, <2>2
<1> QED BY <1>2

LEMMA BackoffNext ==
  ASSUME NEW n \in Nat, NEW g, BackoffUpTo(n, g)
  PROVE  \E h : BackoffUpTo(n + 1, h)
<1> DEFINE h == [i \in 0..(n + 1) |-> IF i <= n THEN g[i]
                                      ELSE IF i <= 1 THEN BackoffBase ELSE Capped(g[n])]
<1>1. ASSUME NEW i \in 0..(n + 1)
      PROVE  h[i] = IF i <= 1 THEN BackoffBase ELSE Capped(h[i - 1])
  <2>1. CASE i = n + 1
    <3>1. i - 1 = n /\ h[n] = g[n] /\ ~(i <= n)
      BY <2>1
    <3> QED BY <3>1
  <2>2. CASE i # n + 1
    <3>1. i \in 0..n /\ h[i] = g[i]
      BY <2>2
    <3>2. g[i] = IF i <= 1 THEN BackoffBase ELSE Capped(g[i - 1])
      BY <3>1 DEF BackoffUpTo
    <3>3. ~(i <= 1) => h[i - 1] = g[i - 1]
      BY <3>1
    <3> QED BY <3>1, <3>2, <3>3
  <2> QED BY <2>1, <2>2
<1>2. h = [i \in 0..(n + 1) |-> IF i <= 1 THEN BackoffBase ELSE Capped(h[i - 1])]
  BY <1>1
<1> QED BY <1>2 DEF BackoffUpTo

LEMMA BackoffExists ==
  ASSUME NEW n \in Nat
  PROVE  \E g : BackoffUpTo(n, g)
<1> DEFINE Wrong == {m \in Nat : ~\E g : BackoffUpTo(m, g)}
<1>1. SUFFICES ASSUME Wrong # {} PROVE FALSE
  OBVIOUS
<1>2. Wrong \in SUBSET Nat
  OBVIOUS
<1>3. PICK m \in Wrong : \A j \in Wrong : m <= j
  BY <1>1, <1>2, LeastOf, Zenon
<1>4. CASE m = 0
  <2>1. BackoffUpTo(0, [i \in 0..0 |-> BackoffBase])
    BY DEF BackoffUpTo
  <2> QED BY <2>1, <1>4
<1>5. CASE m # 0
  <2>1. m - 1 \in Nat /\ ~(m <= m - 1) /\ (m - 1) + 1 = m
    BY <1>5
  <2>2. PICK g : BackoffUpTo(m - 1, g)
    BY <2>1, <1>3
  <2> QED BY <2>1, <2>2, BackoffNext
<1> QED BY <1>4, <1>5

LEMMA BackoffAgrees ==
  ASSUME NEW n \in Nat, NEW m \in Nat, n <= m, NEW g, BackoffUpTo(n, g), NEW h, BackoffUpTo(m, h)
  PROVE  g[n] = h[n]
<1> DEFINE Wrong == {i \in Nat : i <= n /\ g[i] # h[i]}
<1>1. SUFFICES ASSUME Wrong # {} PROVE FALSE
  OBVIOUS
<1>2. Wrong \in SUBSET Nat
  OBVIOUS
<1>3. PICK i \in Wrong : \A j \in Wrong : i <= j
  BY <1>1, <1>2, LeastOf, Zenon
<1>4. /\ g[i] = IF i <= 1 THEN BackoffBase ELSE Capped(g[i - 1])
      /\ h[i] = IF i <= 1 THEN BackoffBase ELSE Capped(h[i - 1])
  BY DEF BackoffUpTo
<1>5. ~(i <= 1)
  BY <1>4
<1>6. i - 1 \in Nat /\ i - 1 <= n /\ ~(i <= i - 1)
  BY <1>5
<1>7. g[i - 1] = h[i - 1]
  BY <1>3, <1>6
<1> QED BY <1>4, <1>5, <1>7

\* The recursive definition of computeBackoff has a solution.
LEMMA BackoffIs ==
  computeBackoff = [n \in Nat |-> IF n <= 1 THEN BackoffBase ELSE Capped(computeBackoff[n - 1])]
<1> DEFINE upTo(n) == CHOOSE g : BackoffUpTo(n, g)
           f == [n \in Nat |-> upTo(n)[n]]
<1>1. \A n \in Nat : BackoffUpTo(n, upTo(n))
  <2>1. TAKE n \in Nat
  <2>2. \E g : BackoffUpTo(n, g)
    BY BackoffExists
  <2> QED BY <2>2, Zenon
<1>f. \A n \in Nat : f[n] = upTo(n)[n]
  OBVIOUS
<1>d. f = [n \in Nat |-> f[n]]
  OBVIOUS
<1> HIDE DEF upTo, f
<1>2. ASSUME NEW n \in Nat PROVE f[n] = IF n <= 1 THEN BackoffBase ELSE Capped(f[n - 1])
  <2>1. f[n] = upTo(n)[n]
    BY <1>f
  <2>2. PICK g : g = upTo(n) /\ BackoffUpTo(n, g)
    BY <1>1
  <2>3. g[n] = IF n <= 1 THEN BackoffBase ELSE Capped(g[n - 1])
    BY <2>2 DEF BackoffUpTo
  <2>4. ASSUME ~(n <= 1) PROVE g[n - 1] = f[n - 1]
    <3>1. n - 1 \in Nat /\ n - 1 <= n
      BY <2>4
    <3>2. PICK h : h = upTo(n - 1) /\ BackoffUpTo(n - 1, h)
      BY <1>1, <3>1
    <3>3. h[n - 1] = g[n - 1]
      BY <2>2, <3>1, <3>2, BackoffAgrees
    <3>4. f[n - 1] = h[n - 1]
      BY <1>f, <3>1, <3>2
    <3> QED BY <3>3, <3>4
  <2> QED BY <2>1, <2>2, <2>3, <2>4
<1>3. f = [n \in Nat |-> IF n <= 1 THEN BackoffBase ELSE Capped(f[n - 1])]
  BY <1>d, <1>2
<1>4. \E x : x = [n \in Nat |-> IF n <= 1 THEN BackoffBase ELSE Capped(x[n - 1])]
  BY <1>3
<1>5. computeBackoff = CHOOSE x : x = [n \in Nat |-> IF n <= 1 THEN BackoffBase ELSE Capped(x[n - 1])]
  BY DEF computeBackoff, Capped
<1> QED BY <1>4, <1>5

Longest == IF BackoffBase > BackoffMax THEN BackoffBase ELSE BackoffMax

\* However many retries: a delay of at least one unit and never a longer one than configured.
LEMMA BackoffBounded ==
  ASSUME NEW n \in Nat
  PROVE  computeBackoff[n] \in 1..Longest
<1> DEFINE Wrong == {m \in Nat : computeBackoff[m] \notin 1..Longest}
<1>0. \A m \in Nat : computeBackoff[m] = IF m <= 1 THEN BackoffBase ELSE Capped(computeBackoff[m - 1])
  BY BackoffIs
<1>1. SUFFICES ASSUME Wrong # {} PROVE FALSE
  OBVIOUS
<1>2. Wrong \in SUBSET Nat
  OBVIOUS
<1>3. PICK m \in Wrong : \A j \in Wrong : m <= j
  BY <1>1, <1>2, LeastOf, Zenon
<1>4. BackoffBase \in 1..Longest
  BY ConfigAssumption DEF Longest
<1>5. ~(m <= 1)
  BY <1>0, <1>3, <1>4
<1>6. m - 1 \in Nat /\ ~(m <= m - 1)
  BY <1>5
<1>7. PICK x : x = computeBackoff[m - 1] /\ x \in 1..Longest
  BY <1>3, <1>6
<1>8. computeBackoff[m] = Capped(x)
  BY <1>0, <1>5, <1>7
<1>9. Capped(x) \in 1..Longest
  BY <1>7, ConfigAssumption DEF Capped, Longest
<1> QED BY <1>8, <1>9

-----------------------------------------------------------------------------

TableInv ==
  /\ wait \in [Events -> 0..Longest]
  /\ occurred \in [Events -> Nat] /\ IsFiniteSet(Written)

LEMMA TableNext ==
  ASSUME Inv, TableInv, [Next]_vars
  PROVE  TableInv'
<1>1. Longest \in Nat \ {0}
  BY ConfigAssumption DEF Longest
<1>2. ASSUME NEW e \in Events, WriteOutbox(e) PROVE TableInv'
  <2>1. /\ wait' = [wait EXCEPT ![e] = 0] /\ occurred' = [occurred EXCEPT ![e] = Cardinality(Written) + 1]
        /\ status' = [status EXCEPT ![e] = "pending"]
    BY <1>2 DEF WriteOutbox
  <2>2. Cardinality(Written) \in Nat
    BY FS_CardinalityType DEF TableInv
  <2>3. Written' \subseteq Written \cup {e}
    BY <2>1 DEF Written, Inv, Types
  <2>4. IsFiniteSet(Written \cup {e})
    BY FS_AddElement DEF TableInv
  <2>5. IsFiniteSet(Written')
    BY <2>3, <2>4, FS_Subset
  <2> QED BY <1>1, <2>1, <2>2, <2>5 DEF TableInv
<1>3. CASE Tick
  <2>1. Written' = Written
    BY <1>3 DEF Tick, Written
  <2>2. wait' = [e \in Events |-> IF wait[e] > 0 THEN wait[e] - 1 ELSE 0] /\ occurred' = occurred
    BY <1>3 DEF Tick
  <2>3. \A e \in Events : wait[e] \in 0..Longest
    BY DEF TableInv
  <2>4. wait' \in [Events -> 0..Longest]
    BY <1>1, <2>2, <2>3
  <2> QED BY <2>1, <2>2, <2>4 DEF TableInv
<1>4. ASSUME UNCHANGED <<wait, occurred>>, status' = status PROVE TableInv'
  BY <1>4 DEF TableInv, Written
<1>5. ASSUME NEW p \in Pollers, MarkPublished(p) PROVE TableInv'
  <2>1. poll[p].cur \in Events /\ UNCHANGED <<wait, occurred>>
        /\ status' = [status EXCEPT ![poll[p].cur] = "published"]
    BY <1>5 DEF MarkPublished, Inv, Beliefs
  <2>2. Written' \subseteq Written \cup {poll[p].cur}
    BY <2>1 DEF Written, Inv, Types
  <2>3. IsFiniteSet(Written \cup {poll[p].cur})
    BY FS_AddElement DEF TableInv
  <2>4. IsFiniteSet(Written')
    BY <2>2, <2>3, FS_Subset
  <2> QED BY <2>1, <2>4 DEF TableInv
<1>6. ASSUME NEW p \in Pollers, MarkFailed(p) PROVE TableInv'
  <2>0. PICK e : e = poll[p].cur
    OBVIOUS
  <2>1. PICK n : n = poll[p].retry[e] + 1
    OBVIOUS
  <2>2. /\ e \in Events /\ n \in Nat /\ occurred' = occurred
        /\ wait' = wait \/ wait' = [wait EXCEPT ![e] = computeBackoff[n]]
        /\ status' = [status EXCEPT ![e] = "dead"] \/ status' = [status EXCEPT ![e] = "pending"]
    BY <1>6, <2>0, <2>1, ConfigAssumption DEF MarkFailed, Inv, Types, Beliefs
  <2>3. computeBackoff[n] \in 0..Longest
    BY <1>1, <2>2, BackoffBounded
  <2>4. Written' \subseteq Written \cup {e}
    BY <2>2 DEF Written, Inv, Types
  <2>5. IsFiniteSet(Written \cup {e})
    BY FS_AddElement DEF TableInv
  <2>6. IsFiniteSet(Written')
    BY <2>4, <2>5, FS_Subset
  <2>7. wait' \in [Events -> 0..Longest]
    BY <2>2, <2>3 DEF TableInv
  <2> QED BY <2>2, <2>6, <2>7 DEF TableInv
<1>7. ASSUME NEW p \in Pollers,
             Fetch(p) \/ Handle(p) \/ MarkRefused(p) \/ MarkLost(p) \/ Abandon(p)
      PROVE  UNCHANGED <<wait, occurred>> /\ status' = status
  BY <1>7 DEF Fetch, Handle, MarkRefused, MarkLost, Abandon, row
<1> QED BY <1>2, <1>3, <1>4, <1>5, <1>6, <1>7 DEF Next, PollerStep, vars, Inv, Types

\* For any number of replicas, events, retries and failures the columns of the
\* table and the records of the pollers keep their types, and a row waits for
\* its next attempt no longer than the larger of BackoffBase and BackoffMax
\* (computeBackoff caps each product, but not the base).
THEOREM TableTheorem == Spec => [](TypeOK /\ \A e \in Events : wait[e] <= Longest)
<1>1. Init => TableInv
  <2> SUFFICES ASSUME Init PROVE TableInv
    OBVIOUS
  <2>1. Longest \in Nat \ {0}
    BY ConfigAssumption DEF Longest
  <2>2. Written = {}
    BY DEF Init, Written
  <2>3. IsFiniteSet(Written)
    BY <2>2, FS_EmptySet
  <2> QED BY <2>1, <2>3 DEF Init, TableInv
<1>2. Inv /\ TableInv /\ [Next]_vars => TableInv'
  BY TableNext
<1>3. Inv /\ TableInv => TypeOK /\ \A e \in Events : wait[e] <= Longest
  <2>1. Longest \in Nat \ {0}
    BY ConfigAssumption DEF Longest
  <2> QED BY <2>1 DEF Inv, Types, TableInv, TypeOK
<1> QED BY <1>1, <1>2, <1>3, InitInv, NextInv, PTL DEF Spec
=============================================================================
