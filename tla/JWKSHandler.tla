---------------------------- MODULE JWKSHandler ----------------------------
(***************************************************************************)
(* internal/authz/a2a/jwks.go: the handler of /.well-known/jwks.json keeps *)
(* the key set of a KeySource in a cache.  Requests and calls of Refresh   *)
(* run concurrently: the source is read without the lock, the result is    *)
(* stored under it, and the age of the cache counts from the store.        *)
(*                                                                         *)
(* Operators of the source add and retire keys; those of a wrong length    *)
(* are there from the start.  A call of the source takes at most MaxFetch. *)
(***************************************************************************)
EXTENDS Naturals, FiniteSets

CONSTANTS Kids,               \* key ids
          BadKids,            \* those whose public key has the wrong length
          Readers,            \* concurrent requests and calls of Refresh
          RefreshInterval,    \* JWKSHandlerConfig, 0 for none
          MaxFetch,           \* the longest a call of the source takes
          JWKSMaxClock, JWKSMaxCalls   \* bounds

ASSUME JWKSAssumption ==
  /\ BadKids \subseteq Kids
  /\ RefreshInterval \in Nat /\ MaxFetch \in Nat /\ JWKSMaxClock \in Nat /\ JWKSMaxCalls \in Nat

Never == JWKSMaxClock + 1

VARIABLES jwksNow,
          added, retired,   \* when each key enters and leaves the source
          cached,           \* the cached key set; filled is FALSE for nil
          reading,          \* the calls under way
          answer,           \* history: the last key set served
          jwksCalls

jwksVars == <<jwksNow, added, retired, cached, reading, answer, jwksCalls>>

NotReading == [pc |-> "idle", op |-> "none", began |-> 0, read |-> 0, keys |-> {}]

\* A call that begins now, at step p.
Begins(p, o) == [pc |-> p, op |-> o, began |-> jwksNow, read |-> 0, keys |-> {}]

JWKSInit ==
  /\ jwksNow = 0
  /\ added = [k \in Kids |-> IF k \in BadKids THEN 0 ELSE Never]
  /\ retired = [k \in Kids |-> Never]
  /\ cached = [filled |-> FALSE, keys |-> {}, lastFetch |-> 0]
  /\ reading = [r \in Readers |-> NotReading]
  /\ answer = [began |-> 0, keys |-> {}]
  /\ jwksCalls = 0

\* KeySource.Keys: the keys that are active now.
Keys == {k \in Kids : added[k] # Never /\ retired[k] = Never}

JWKSTick ==
  /\ jwksNow < JWKSMaxClock
  /\ \A r \in Readers : reading[r].pc = "store" => jwksNow < reading[r].read + MaxFetch
  /\ jwksNow' = jwksNow + 1
  /\ UNCHANGED <<added, retired, cached, reading, answer, jwksCalls>>

AddKey(k) ==
  /\ added[k] = Never
  /\ added' = [added EXCEPT ![k] = jwksNow]
  /\ UNCHANGED <<jwksNow, retired, cached, reading, answer, jwksCalls>>

RetireKey(k) ==
  /\ k \in Keys
  /\ retired' = [retired EXCEPT ![k] = jwksNow]
  /\ UNCHANGED <<jwksNow, added, cached, reading, answer, jwksCalls>>

\* ServeHTTP answers 405 to methods other than GET and HEAD, which is left out.
ServeHTTP(r) ==
  /\ reading[r].pc = "idle" /\ jwksCalls < JWKSMaxCalls
  /\ jwksCalls' = jwksCalls + 1
  /\ reading' = [reading EXCEPT ![r] = Begins("snapshot", "serve")]
  /\ UNCHANGED <<jwksNow, added, retired, cached, answer>>

Refresh(r) ==
  /\ reading[r].pc = "idle" /\ jwksCalls < JWKSMaxCalls
  /\ jwksCalls' = jwksCalls + 1
  /\ reading' = [reading EXCEPT ![r] = Begins("fetch", "refresh")]
  /\ UNCHANGED <<jwksNow, added, retired, cached, answer>>

\* The cache answers while it is fresh; without a RefreshInterval, always.
CacheServes(now) ==
  /\ cached.filled
  /\ (RefreshInterval > 0 => now < cached.lastFetch + RefreshInterval)

Answer(r, keys) ==
  /\ answer' = IF reading[r].op = "serve"
               THEN [began |-> reading[r].began, keys |-> keys] ELSE answer
  /\ reading' = [reading EXCEPT ![r] = NotReading]

\* snapshot under the read lock, with the now sampled when the call began.
\* A call of Snapshot does the same.
snapshot(r) ==
  /\ reading[r].pc = "snapshot"
  /\ \/ CacheServes(reading[r].began) /\ Answer(r, cached.keys)
     \/ /\ ~CacheServes(reading[r].began)
        /\ reading' = [reading EXCEPT ![r].pc = "fetch"]
        /\ UNCHANGED answer
  /\ UNCHANGED <<jwksNow, added, retired, cached, jwksCalls>>

\* The source is read; when it fails the request is answered with 500 and the
\* cache is left as it is.
fetchRead(r) ==
  /\ reading[r].pc = "fetch"
  /\ \/ reading' = [reading EXCEPT ![r].pc = "store", ![r].read = jwksNow, ![r].keys = Keys]
     \/ reading' = [reading EXCEPT ![r] = NotReading]
  /\ UNCHANGED <<jwksNow, added, retired, cached, answer, jwksCalls>>

fetchStore_StampsAhead(r) ==
  /\ reading[r].pc = "store"
  /\ cached' = [filled |-> TRUE, keys |-> reading[r].keys \ BadKids, lastFetch |-> jwksNow + 1]
  /\ Answer(r, reading[r].keys \ BadKids)
  /\ UNCHANGED <<jwksNow, added, retired, jwksCalls>>

\* Keys of the wrong length are skipped; the rest replaces the cache whatever
\* another call stored meanwhile.
fetchStore(r) ==
  LET keys == reading[r].keys \ BadKids IN
  /\ reading[r].pc = "store"
  /\ cached' = [filled |-> TRUE, keys |-> keys, lastFetch |-> jwksNow]
  /\ Answer(r, keys)
  /\ UNCHANGED <<jwksNow, added, retired, jwksCalls>>

JWKSNext ==
  \/ JWKSTick
  \/ \E k \in Kids \ BadKids : AddKey(k) \/ RetireKey(k)
  \/ \E r \in Readers : ServeHTTP(r) \/ Refresh(r) \/ snapshot(r) \/ fetchRead(r) \/ fetchStore(r)

JWKSSpec == JWKSInit /\ [][JWKSNext]_jwksVars

-----------------------------------------------------------------------------

\* ResolverFromJWKS: the kids a verifier that got this answer resolves.
ResolverFromJWKS(a) == a.keys \ BadKids

\* However fetches overlap and overwrite each other, a verifier that asks for
\* the key set resolves a retired key for less than RefreshInterval plus the
\* time of one source call.
RetiredKeyFades ==
  RefreshInterval > 0 =>
    \A k \in ResolverFromJWKS(answer) :
      answer.began < retired[k] + RefreshInterval + MaxFetch

\* The same bound for a new key: who asks that long after it was added gets it,
\* unless it is already retired by the time the answer is made.
NewKeyAppears ==
  RefreshInterval > 0 =>
    \A k \in Kids \ BadKids :
      /\ added[k] # Never /\ retired[k] = Never
      /\ answer.began >= added[k] + RefreshInterval + MaxFetch
      => k \in ResolverFromJWKS(answer)

\* The served key set follows its source within a known time, both ways.
KeySetFollowsSource == RetiredKeyFades /\ NewKeyAppears

-----------------------------------------------------------------------------
(* The inductive invariant. *)

\* keys is the key set of the source as it was at time t - slack or later: a
\* key in it was not retired before that, a key missing not added before that.
Covers(keys, t, slack) ==
  /\ \A k \in keys \ BadKids : t <= retired[k] + slack
  /\ \A k \in (Kids \ BadKids) \ keys :
       added[k] # Never /\ retired[k] = Never => t <= added[k] + slack

JWKSTypeOK ==
  /\ jwksNow \in 0..JWKSMaxClock
  /\ added \in [Kids -> 0..Never] /\ retired \in [Kids -> 0..Never]
  /\ cached \in [filled : BOOLEAN, keys : SUBSET Kids, lastFetch : 0..JWKSMaxClock]
  /\ reading \in [Readers -> [pc : {"idle", "snapshot", "fetch", "store"},
                              op : {"none", "serve", "refresh"}, began : 0..JWKSMaxClock,
                              read : 0..JWKSMaxClock, keys : SUBSET Kids]]
  /\ answer \in [began : 0..JWKSMaxClock, keys : SUBSET Kids]
  /\ jwksCalls \in 0..JWKSMaxCalls

\* A call holds keys no older than its read and stores them at most MaxFetch
\* later; the cache serves them for RefreshInterval from then.
JWKSInv ==
  /\ JWKSTypeOK
  /\ answer.began <= jwksNow /\ cached.lastFetch <= jwksNow
  /\ \A r \in Readers :
       /\ reading[r].began <= jwksNow
       /\ reading[r].pc = "store" =>
            /\ reading[r].began <= reading[r].read /\ reading[r].read <= jwksNow
            /\ jwksNow <= reading[r].read + MaxFetch
            /\ Covers(reading[r].keys, reading[r].read, 0)
  /\ cached.filled => Covers(cached.keys, cached.lastFetch, MaxFetch)
  /\ RefreshInterval > 0 => Covers(answer.keys, answer.began, RefreshInterval + MaxFetch - 1)
=============================================================================
