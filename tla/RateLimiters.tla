---------------------------- MODULE RateLimiters ----------------------------
(***************************************************************************)
(* The two limiters over the cache's Incr.  internal/authz/aap counts      *)
(* requests of a fixed window under a key that carries the window's start  *)
(* (Allow) or under a key of the caller's (AllowWith).                     *)
(* internal/authz/ratelimit estimates a sliding window from the current    *)
(* bucket and a share of the previous one (Check).                         *)
(*                                                                         *)
(* One caller is followed: keys of different callers are independent.      *)
(* Time is in whole seconds, as in the code (Unix()).  A request samples   *)
(* its key first and increments later; INCR and EXPIRE NX go to the cache  *)
(* in one pipeline.                                                        *)
(***************************************************************************)
EXTENDS Integers, Sequences, FiniteSets

CONSTANTS Limit, Window,    \* LimiterConfig, Window in seconds
          Callers,          \* concurrent requests of the one caller
          RLMaxClock, RLMaxRequests, RLMaxFaults   \* bounds

ASSUME LimiterAssumption == Limit \in Nat \ {0} /\ Window \in Nat \ {0}
ASSUME RLBoundsAssumption ==
  RLMaxClock \in Nat /\ RLMaxRequests \in Nat /\ RLMaxFaults \in Nat

Kinds == {"allow", "with", "check"}

VARIABLES rlNow,
          counters,   \* the cache: count and expiry of each bucket
          asking,     \* asking[c]: the request of c
          admitted,   \* history: the requests let through, with the count Check drew
          limiter,    \* which limiter the caller goes through
          failOpen,   \* LimiterConfig.FailOpen, fixed at start-up
          resets,     \* history: calls of Reset
          late,       \* history: requests decided after the window they were made in
          requests, rlFaults

rlVars == <<rlNow, counters, asking, admitted, limiter, failOpen, resets, late, requests, rlFaults>>

Bucket == 0..(RLMaxClock \div Window)

Missing == [n |-> 0, exp |-> 0]

NotAsking == [pc |-> "idle", key |-> 0, at |-> 0, n |-> 0]

RLInit ==
  /\ rlNow = 0
  /\ counters = [b \in Bucket |-> Missing]
  /\ asking = [c \in Callers |-> NotAsking]
  /\ admitted = <<>>
  /\ limiter \in Kinds
  /\ failOpen \in BOOLEAN
  /\ resets = 0
  /\ late = 0
  /\ requests = 0
  /\ rlFaults = 0

RLFault == rlFaults < RLMaxFaults /\ rlFaults' = rlFaults + 1

\* Time passes; the cache drops expired keys.
RLTick ==
  /\ rlNow < RLMaxClock
  /\ rlNow' = rlNow + 1
  /\ counters' = [b \in Bucket |-> IF counters[b].exp \in 1..rlNow' THEN Missing ELSE counters[b]]
  /\ UNCHANGED <<asking, admitted, limiter, failOpen, resets, late, requests, rlFaults>>

\* Allow and Check name the key after the window of now; AllowWith does not.
keyOf(t) == IF limiter = "with" THEN 0 ELSE t \div Window

Ask(c) ==
  /\ asking[c].pc = "idle"
  /\ requests < RLMaxRequests
  /\ requests' = requests + 1
  /\ asking' = [asking EXCEPT ![c] = [pc |-> "incr", key |-> keyOf(rlNow),
                                      at |-> rlNow, n |-> 0]]
  /\ UNCHANGED <<rlNow, counters, admitted, limiter, failOpen, resets, late, rlFaults>>

\* Check keeps a bucket for two windows, for the next one to read.
ttl == IF limiter = "check" THEN 2 * Window ELSE Window

\* redisCache.Incr: INCR and EXPIRE NX, which leaves a TTL that is set.
Incr(k) ==
  [counters EXCEPT ![k] = [n |-> @.n + 1, exp |-> IF @.exp = 0 THEN rlNow + ttl ELSE @.exp]]

Done(c) ==
  /\ asking' = [asking EXCEPT ![c] = NotAsking]
  /\ late' = IF rlNow \div Window > asking[c].at \div Window THEN late + 1 ELSE late

\* An Incr that returned an error: nothing, all or only the INCR was applied.
Interrupted(k) == {counters, Incr(k), [counters EXCEPT ![k].n = @ + 1]}

\* The request is let through; it counts for the second it was made in.
Admit(c) == admitted' = Append(admitted, [at |-> asking[c].at, n |-> asking[c].n])

\* aap.Limiter: Incr, and the count decides.  Refused requests count too.
Allow(c) ==
  LET q == asking[c] IN
  /\ q.pc = "incr" /\ limiter # "check"
  /\ counters' = Incr(q.key)
  /\ IF counters'[q.key].n > Limit THEN UNCHANGED admitted ELSE Admit(c)
  /\ Done(c)
  /\ UNCHANGED <<rlNow, limiter, failOpen, resets, requests, rlFaults>>

\* Check: the current bucket is incremented first.
CheckIncr(c) ==
  LET q == asking[c] IN
  /\ q.pc = "incr" /\ limiter = "check"
  /\ counters' = Incr(q.key)
  /\ asking' = [asking EXCEPT ![c].pc = "get", ![c].n = counters'[q.key].n]
  /\ UNCHANGED <<rlNow, admitted, limiter, failOpen, resets, late, requests, rlFaults>>

\* prev * (1 - elapsed/window) + curr, times the window.
Sliding_SwappedWeight(prev, curr, t) == prev * (t % Window) + curr * Window

Sliding(prev, curr, t) == prev * (Window - (t % Window)) + curr * Window

\* The count the previous bucket still has; 0 for a miss or a failed call.
Previous(q) == IF q.key = 0 THEN 0 ELSE counters[q.key - 1].n

CheckGet(c) ==
  LET q == asking[c] IN
  /\ q.pc = "get"
  /\ \/ /\ IF Sliding(Previous(q), q.n, q.at) > Limit * Window THEN UNCHANGED admitted ELSE Admit(c)
        /\ UNCHANGED rlFaults
     \/ /\ RLFault
        /\ IF Sliding(0, q.n, q.at) > Limit * Window THEN UNCHANGED admitted ELSE Admit(c)
  /\ Done(c)
  /\ UNCHANGED <<rlNow, counters, limiter, failOpen, resets, requests>>

\* Incr fails, though it may have been applied: FailOpen lets the request pass.
IncrFails(c) ==
  /\ asking[c].pc = "incr"
  /\ RLFault
  /\ IF failOpen THEN Admit(c) ELSE UNCHANGED admitted
  /\ counters' \in Interrupted(asking[c].key)
  /\ Done(c)
  /\ UNCHANGED <<rlNow, limiter, failOpen, resets, requests>>

\* Reset deletes the key of this window, and in the sliding limiter also that
\* of the window before.
Reset ==
  LET b == rlNow \div Window IN
  /\ limiter # "with" /\ resets = 0
  /\ resets' = 1
  /\ counters' = [k \in Bucket |->
       IF k = b \/ (limiter = "check" /\ k + 1 = b) THEN Missing ELSE counters[k]]
  /\ UNCHANGED <<rlNow, asking, admitted, limiter, failOpen, late, requests, rlFaults>>

RLNext ==
  \/ RLTick \/ Reset
  \/ \E c \in Callers : \/ Ask(c) \/ Allow(c) \/ CheckIncr(c) \/ CheckGet(c) \/ IncrFails(c)

-----------------------------------------------------------------------------

\* Requests let through in the seconds from..to.
Passed(from, to) ==
  Cardinality({i \in DOMAIN admitted : admitted[i].at \in from..to})

Bounded == ~failOpen \/ rlFaults = 0

\* aap.Limiter.Allow lets at most Limit requests of one window through,
\* unless FailOpen passes requests the cache could not count or Reset is called.
\* A key lives for one window from its first Incr: each request whose Incr
\* comes after its window has ended may find the count gone.
AllowPerWindow ==
  limiter = "allow" /\ Bounded =>
    \A b \in Bucket :
      Passed(b * Window, b * Window + Window - 1) <= Limit + Limit * resets + late

\* The sliding estimate counts the previous bucket as if it were spread evenly.
\* So the excess over the limit in any interval of one window that ends
\* e seconds into a bucket is at most Limit * e / Window.
SlidingExcessBounded ==
  limiter = "check" /\ rlFaults = 0 /\ late = 0 /\ resets = 0 =>
    \A t \in (Window - 1)..RLMaxClock :
      Window * Passed(t + 1 - Window, t) <= Limit * Window + Limit * (t % Window)

\* Both limiters hold their limit for whatever two callers, the clock and the
\* cache do: the fixed window exactly, the sliding one up to its estimate.
LimitsHold == AllowPerWindow /\ SlidingExcessBounded

\* The package comment: the estimate is wrong by at most one percent.  Then an
\* interval of one window sees at most one percent more than the limit, as long
\* as nothing fails, no request is late and nobody resets the limiter.
SlidingErrorOnePercent ==
  limiter = "check" /\ rlFaults = 0 /\ late = 0 /\ resets = 0 =>
    \A t \in (Window - 1)..RLMaxClock : 100 * Passed(t + 1 - Window, t) <= 101 * Limit

-----------------------------------------------------------------------------
(* What makes the limits inductive. *)

RLTypeOK ==
  /\ rlNow \in 0..RLMaxClock
  /\ counters \in [Bucket -> [n : Nat, exp : Nat]]
  /\ asking \in [Callers -> [pc : {"idle", "incr", "get"}, key : Bucket, at : 0..RLMaxClock, n : Nat]]
  /\ admitted \in Seq([at : 0..RLMaxClock, n : Nat])
  /\ limiter \in Kinds /\ failOpen \in BOOLEAN
  /\ resets \in {0, 1} /\ late \in Nat /\ requests \in Nat /\ rlFaults \in Nat

\* A request keeps the key of the second it was made in.
AskingInv ==
  \A c \in Callers : asking[c].pc # "idle" =>
    /\ asking[c].at <= rlNow /\ asking[c].key = keyOf(asking[c].at)
    /\ asking[c].pc = "get" => limiter = "check"

\* A bucket is dropped a full ttl after its window began, or later.
ExpiryInv ==
  limiter # "with" => \A b \in Bucket : counters[b].exp # 0 => counters[b].exp >= b * Window + ttl

\* The requests let through in the window of bucket b.
Of(b) == {i \in DOMAIN admitted : admitted[i].at \div Window = b}

\* While its window lasts, a bucket counts what was let through since a Reset.
CountInv ==
  limiter = "allow" /\ Bounded =>
    \A b \in Bucket :
      /\ Cardinality(Of(b)) <= Limit + Limit * resets + late
      /\ rlNow \div Window <= b =>
           /\ Cardinality(Of(b)) <= counters[b].n + Limit * resets
           /\ Cardinality(Of(b)) <= Limit + Limit * resets

\* Nothing has cost the sliding limiter a count.
Exact == limiter = "check" /\ rlFaults = 0 /\ late = 0 /\ resets = 0

\* Request i of the log drew a count no other of its bucket did, and was weighed
\* against all that were let through of the bucket before.
Weighed(i) ==
  LET a == admitted[i]
      b == a.at \div Window IN
  /\ a.at <= rlNow /\ a.n \in 1..Limit
  /\ rlNow \div Window <= b + 1 => a.n <= counters[b].n
  /\ Sliding(Cardinality(Of(b - 1)), a.n, a.at) <= Limit * Window
  /\ \A j \in Of(b) \ {i} : admitted[j].n # a.n

\* So did a request that has yet to read the bucket before, while its window lasts.
Drew(c) ==
  LET q == asking[c] IN
  q.pc = "get" /\ rlNow \div Window = q.key =>
    /\ q.n \in 1..counters[q.key].n
    /\ \A i \in Of(q.key) : admitted[i].n # q.n
    /\ \A d \in Callers \ {c} :
         asking[d].pc = "get" /\ asking[d].key = q.key => asking[d].n # q.n

SlideInv == Exact => (\A i \in DOMAIN admitted : Weighed(i)) /\ (\A c \in Callers : Drew(c))

RLInv == RLTypeOK /\ AskingInv /\ ExpiryInv /\ CountInv /\ SlideInv

RLSpec == RLInit /\ [][RLNext]_rlVars

=============================================================================
