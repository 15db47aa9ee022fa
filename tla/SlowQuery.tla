----------------------------- MODULE SlowQuery -----------------------------
(***************************************************************************)
(* SlowQueryMonitor and DurationHistogram of internal/storage/             *)
(* slow_query.go.  There is no lock: every atomic operation is a step, and *)
(* any number of goroutines are in Observe while one reads a percentile    *)
(* and another resets.  Durations are numbers; the log and the callback    *)
(* are left out, and so is the sum of the durations, which nothing reads.  *)
(***************************************************************************)
EXTENDS Integers, Sequences, FiniteSets

CONSTANTS Observers,      \* goroutines that run queries
          Durations,      \* how long queries take
          Bounds,         \* h.buckets: upper bounds, ascending
          Threshold,      \* of a slow query
          Percents,       \* percentiles that are asked for, in hundredths
          SQMaxCalls      \* calls in a behaviour

ASSUME BoundsAscend ==
  /\ Bounds \in Seq(Nat) /\ Bounds # <<>>
  /\ \A i, j \in DOMAIN Bounds : i < j => Bounds[i] < Bounds[j]
ASSUME SQAssumption ==
  /\ IsFiniteSet(Observers)
  /\ Durations \subseteq Nat /\ Percents \subseteq 0..100
  /\ Threshold \in Nat /\ SQMaxCalls \in Nat

VARIABLES histMax, histCount, histCounts,   \* DurationHistogram
          slowCount,                        \* m.counter
          observing,    \* observing[g]: the call of Observe g is in
          asking,       \* the call of Percentile
          resetting,    \* the next store of Reset, 0 outside of it
          observed,     \* history: durations recorded since the last Reset, in order
          mixed,        \* history: a Reset overlapped an Observe
          sqCalls

sqVars == <<histMax, histCount, histCounts, slowCount, observing, asking, resetting, observed,
            mixed, sqCalls>>

BucketNos == 1..(Len(Bounds) + 1)

NotObserving == [pc |-> "idle"]
NotAsking == [pc |-> "idle"]

SQInit ==
  /\ histMax = 0 /\ histCount = 0 /\ histCounts = [i \in BucketNos |-> 0]
  /\ slowCount = 0
  /\ observing = [g \in Observers |-> NotObserving]
  /\ asking = NotAsking /\ resetting = 0
  /\ observed = <<>> /\ mixed = FALSE /\ sqCalls = 0

SQCall == sqCalls < SQMaxCalls /\ sqCalls' = sqCalls + 1

InObserve == \E g \in Observers : observing[g] # NotObserving

-----------------------------------------------------------------------------
(* Observe *)

\* The call, with the load of h.max; a duration that is not longer leaves it.
LoadMax(d) ==
  [pc |-> IF d <= histMax THEN "count" ELSE "cas", d |-> d, old |-> histMax]

ObserveBegin(g) ==
  /\ observing[g] = NotObserving /\ SQCall
  /\ \E d \in Durations :
       /\ observing' = [observing EXCEPT ![g] = LoadMax(d)]
       /\ observed' = Append(observed, d)
  /\ mixed' = (mixed \/ resetting # 0)
  /\ asking' = IF asking = NotAsking THEN asking ELSE [asking EXCEPT !.alone = FALSE]
  /\ UNCHANGED <<histMax, histCount, histCounts, slowCount, resetting>>

CompareAndSwap_Store(g) ==
  LET o == observing[g] IN
  /\ o.pc = "cas"
  /\ histMax' = o.d
  /\ observing' = [observing EXCEPT ![g].pc = "count"]
  /\ UNCHANGED <<histCount, histCounts, slowCount, asking, resetting, observed, mixed, sqCalls>>

\* Another goroutine may have changed h.max since: load again.
CompareAndSwap(g) ==
  LET o == observing[g] IN
  /\ o.pc = "cas"
  /\ IF histMax = o.old
     THEN histMax' = o.d /\ observing' = [observing EXCEPT ![g].pc = "count"]
     ELSE observing' = [observing EXCEPT ![g] = LoadMax(o.d)] /\ UNCHANGED histMax
  /\ UNCHANGED <<histCount, histCounts, slowCount, asking, resetting, observed, mixed, sqCalls>>

AddCount(g) ==
  /\ observing[g].pc = "count"
  /\ histCount' = histCount + 1
  /\ observing' = [observing EXCEPT ![g].pc = "bucket"]
  /\ UNCHANGED <<histMax, histCounts, slowCount, asking, resetting, observed, mixed, sqCalls>>

\* The first bucket whose bound is not below the duration, or the last one.
bucketOf(d) == CHOOSE i \in BucketNos : /\ i <= Len(Bounds) => d <= Bounds[i]
                                     /\ \A j \in 1..(i - 1) : d > Bounds[j]

AddBucket(g) ==
  LET o == observing[g] IN
  /\ o.pc = "bucket"
  /\ histCounts' = [histCounts EXCEPT ![bucketOf(o.d)] = @ + 1]
  /\ observing' = [observing EXCEPT ![g] = IF o.d < Threshold THEN NotObserving
                                           ELSE [o EXCEPT !.pc = "slow"]]
  /\ UNCHANGED <<histMax, histCount, slowCount, asking, resetting, observed, mixed, sqCalls>>

AddSlow(g) ==
  /\ observing[g].pc = "slow"
  /\ slowCount' = slowCount + 1
  /\ observing' = [observing EXCEPT ![g] = NotObserving]
  /\ UNCHANGED <<histMax, histCount, histCounts, asking, resetting, observed, mixed, sqCalls>>

-----------------------------------------------------------------------------
(* Percentile *)

\* The load of h.count gives the target; `alone' says that nothing else runs.
PercentileBegin ==
  /\ asking = NotAsking /\ SQCall
  /\ \E p \in Percents :
       LET target == (histCount * p) \div 100 IN
       asking' = [pc |-> IF target = 0 THEN "answered" ELSE "read", target |-> target,
                  i |-> 1, cum |-> 0, answer |-> 0, p |-> p,
                  alone |-> ~InObserve /\ resetting = 0 /\ ~mixed]
  /\ UNCHANGED <<histMax, histCount, histCounts, slowCount, observing, resetting, observed, mixed>>

Reached(cum, target) == cum >= target

\* One bucket; past the last one the answer is the last bound.
ReadBucket ==
  LET cum == asking.cum + histCounts[asking.i] IN
  /\ asking.pc = "read"
  /\ asking' = IF Reached(cum, asking.target) \/ asking.i = Len(Bounds) + 1
               THEN [asking EXCEPT !.pc = "answered",
                                   !.answer = Bounds[IF asking.i <= Len(Bounds) THEN asking.i
                                                     ELSE Len(Bounds)]]
               ELSE [asking EXCEPT !.i = @ + 1, !.cum = cum]
  /\ UNCHANGED <<histMax, histCount, histCounts, slowCount, observing, resetting, observed, mixed,
                 sqCalls>>

PercentileReturns ==
  /\ asking.pc = "answered"
  /\ asking' = NotAsking
  /\ UNCHANGED <<histMax, histCount, histCounts, slowCount, observing, resetting, observed, mixed,
                 sqCalls>>

-----------------------------------------------------------------------------
(* Reset: the maximum, the count, the buckets one by one, the slow queries. *)

ResetBegin ==
  /\ resetting = 0 /\ SQCall
  /\ resetting' = 1 /\ histMax' = 0
  /\ observed' = <<>> /\ mixed' = InObserve
  /\ asking' = IF asking = NotAsking THEN asking ELSE [asking EXCEPT !.alone = FALSE]
  /\ UNCHANGED <<histCount, histCounts, slowCount, observing>>

ResetStep ==
  /\ resetting > 0
  /\ histCount' = IF resetting = 1 THEN 0 ELSE histCount
  /\ histCounts' = IF resetting - 1 \in BucketNos THEN [histCounts EXCEPT ![resetting - 1] = 0]
                   ELSE histCounts
  /\ slowCount' = IF resetting = Len(Bounds) + 3 THEN 0 ELSE slowCount
  /\ resetting' = IF resetting = Len(Bounds) + 3 THEN 0 ELSE resetting + 1
  /\ UNCHANGED <<histMax, observing, asking, observed, mixed, sqCalls>>

SQNext ==
  \/ \E g \in Observers : \/ ObserveBegin(g) \/ CompareAndSwap(g) \/ AddCount(g)
                          \/ AddBucket(g) \/ AddSlow(g)
  \/ PercentileBegin \/ ReadBucket \/ PercentileReturns
  \/ ResetBegin \/ ResetStep

-----------------------------------------------------------------------------

\* How many of the observations since the last Reset took a duration of D.
HowMany(D) == Cardinality({k \in DOMAIN observed : observed[k] \in D})

AtMost(b) == HowMany({d \in Durations : d <= b})

\* The durations bucket i stands for: above the bound before, up to its own.
Between(i) == {d \in Durations : (i > 1 => d > Bounds[i - 1]) /\ (i <= Len(Bounds) => d <= Bounds[i])}

Slow == {d \in Durations : d >= Threshold}

\* When nothing is in progress, and the last Reset did not overlap an Observe,
\* the statistics are those of the observations since then, whatever the
\* interleaving of the goroutines was (slow_query.go:184, 240).
QuietStatsExact ==
  (~InObserve /\ resetting = 0 /\ ~mixed) =>
    /\ histCount = Len(observed)
    /\ \A i \in BucketNos : histCounts[i] = HowMany(Between(i))
    /\ \A k \in DOMAIN observed : observed[k] <= histMax
    /\ histMax = 0 \/ \E k \in DOMAIN observed : observed[k] = histMax
    /\ slowCount = HowMany(Slow)

\* A percentile read while nothing else ran is the least bound that as many
\* observations as asked for do not exceed, or the last bound when there is
\* none (slow_query.go:217).
QuantileIsLeast ==
  (asking.pc = "answered" /\ asking.alone /\ asking.target > 0) =>
    LET n == (Len(observed) * asking.p) \div 100
        good == {i \in DOMAIN Bounds : AtMost(Bounds[i]) >= n}
    IN  /\ n = asking.target
        /\ good = {} => asking.answer = Bounds[Len(Bounds)]
        /\ good # {} => \E i \in good : asking.answer = Bounds[i] /\ \A j \in good : i <= j

\* The lock-free statistics are exact whenever nothing disturbs them: both the
\* counters once the goroutines are quiet and a percentile read alone.
StatsExactWhenQuiet == QuietStatsExact /\ QuantileIsLeast

-----------------------------------------------------------------------------
(* What makes the statistics inductive. *)

Observation == [pc : {"cas", "count", "bucket", "slow"}, d : Durations, old : Nat]
Question == [pc : {"read", "answered"}, target : Nat, i : BucketNos, cum : Nat, answer : Nat,
             p : Percents, alone : BOOLEAN]

SQTypeOK ==
  /\ histMax \in Nat /\ histCount \in Nat /\ histCounts \in [BucketNos -> Nat] /\ slowCount \in Nat
  /\ observing \in [Observers -> Observation \cup {NotObserving}]
  /\ asking \in Question \cup {NotAsking}
  /\ resetting \in 0..(Len(Bounds) + 3)
  /\ observed \in Seq(Durations) /\ mixed \in BOOLEAN /\ sqCalls \in Nat

\* The goroutines still to make one of the steps pcs for a duration of D.
Pending(pcs, D) == {g \in Observers : observing[g].pc \in pcs /\ observing[g].d \in D}

ToCount == {"cas", "count"}
ToBucket == {"cas", "count", "bucket"}
ToSlow == {"cas", "count", "bucket", "slow"}

\* A goroutine swaps the maximum for a longer duration, and counts a slow query
\* for a slow one.
ObservingInv ==
  \A g \in Observers :
    /\ observing[g].pc = "cas" => observing[g].d > observing[g].old
    /\ observing[g].pc = "slow" => observing[g].d >= Threshold

\* What a counter lacks is what goroutines in Observe have yet to add.
Lack(count, pcs, D) == count + Cardinality(Pending(pcs, D)) = HowMany(D)

LackInv ==
  (resetting = 0 /\ ~mixed) =>
    /\ Lack(histCount, ToCount, Durations)
    /\ \A i \in BucketNos : Lack(histCounts[i], ToBucket, Between(i))
    /\ Lack(slowCount, ToSlow, Slow)

\* The maximum lacks only what a goroutine is about to swap in, and is never more
\* than was observed.
MaxInv ==
  (resetting = 0 /\ ~mixed) =>
    /\ \A k \in DOMAIN observed :
         \/ observed[k] <= histMax
         \/ \E g \in Observers : observing[g].pc = "cas" /\ observing[g].d = observed[k]
    /\ histMax = 0 \/ \E k \in DOMAIN observed : observed[k] = histMax
    /\ \A g \in Observers : observing[g].pc = "cas" =>
         \E k \in DOMAIN observed : observed[k] = observing[g].d

\* A Reset that no Observe overlaps leaves everything behind it at zero.
ResetInv ==
  (resetting # 0 /\ ~mixed) =>
    /\ ~InObserve /\ observed = <<>> /\ histMax = 0
    /\ resetting > 1 => histCount = 0
    /\ \A i \in BucketNos : i < resetting - 1 => histCounts[i] = 0

\* A percentile read alone has summed the buckets before i and not found enough.
ReadInv ==
  (asking # NotAsking /\ asking.alone) =>
    /\ ~InObserve /\ resetting = 0 /\ ~mixed
    /\ asking.target = (Len(observed) * asking.p) \div 100
    /\ asking.pc = "read" =>
         /\ asking.cum = IF asking.i = 1 THEN 0 ELSE AtMost(Bounds[asking.i - 1])
         /\ \A j \in DOMAIN Bounds : j < asking.i => AtMost(Bounds[j]) < asking.target

StatsInv ==
  SQTypeOK /\ ObservingInv /\ LackInv /\ MaxInv /\ ResetInv /\ ReadInv /\ QuantileIsLeast

SQSpec == SQInit /\ [][SQNext]_sqVars

=============================================================================
