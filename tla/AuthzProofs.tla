---------------------------- MODULE AuthzProofs ----------------------------
(***************************************************************************)
(* Proofs about the authorisation packages: the JWKS cache, trust scores,  *)
(* the AAP handshake, the rate limiters, RBAC's reload and MoltCaptcha.    *)
(***************************************************************************)
EXTENDS AAPHandshake, JWKSHandler, TrustLevel, RateLimiters, LevelTemplates, MoltCaptcha,
        FiniteSetTheorems, SequenceTheorems, WellFoundedInduction, TLAPS

-----------------------------------------------------------------------------
(* JWKSHandler. *)

\* Covers with the times of the source as parameters, so that the two states
\* of a step can be named.
Source(add, ret, keys, t, slack) ==
  /\ \A k \in keys \ BadKids : t <= ret[k] + slack
  /\ \A k \in (Kids \ BadKids) \ keys :
       add[k] # Never /\ ret[k] = Never => t <= add[k] + slack

Times == [Kids -> 0..Never]

\* A key set that follows the source at t still does so for an earlier time or
\* a larger slack.
LEMMA SourceWeaker ==
  ASSUME NEW add \in Times, NEW ret \in Times, NEW keys \in SUBSET Kids,
         NEW t \in Nat, NEW s \in Nat, NEW t2 \in Nat, NEW s2 \in Nat,
         Source(add, ret, keys, t, s), t2 + s <= t + s2
  PROVE  Source(add, ret, keys, t2, s2)
<1>0. Never \in Nat
  BY JWKSAssumption DEF Never
<1>1. \A k \in Kids : add[k] \in Nat /\ ret[k] \in Nat
  BY <1>0 DEF Times
<1>2. ASSUME NEW k \in keys \ BadKids PROVE t2 <= ret[k] + s2
  <2>1. t <= ret[k] + s /\ ret[k] \in Nat
    BY <1>1 DEF Source
  <2> QED BY <2>1
<1>3. ASSUME NEW k \in (Kids \ BadKids) \ keys, add[k] # Never, ret[k] = Never
      PROVE  t2 <= add[k] + s2
  <2>1. t <= add[k] + s /\ add[k] \in Nat
    BY <1>1, <1>3 DEF Source
  <2> QED BY <2>1
<1> QED BY <1>2, <1>3 DEF Source

\* A key of a wrong length is none of the keys that matter.
LEMMA SourceSkips ==
  ASSUME NEW add, NEW ret, NEW keys, NEW t, NEW s, Source(add, ret, keys, t, s)
  PROVE  Source(add, ret, keys \ BadKids, t, s)
BY DEF Source

\* What the source may do at time now: add or retire keys.
SourceMoves(add, ret, add2, ret2, now) ==
  \A k \in Kids :
    /\ ret2[k] = ret[k] \/ ret2[k] = now
    /\ add2[k] = add[k] \/ add2[k] = now

\* The source moves on; a key set that followed it at an earlier time still does.
LEMMA SourceStep ==
  ASSUME NEW add \in Times, NEW ret \in Times, NEW add2 \in Times, NEW ret2 \in Times,
         NEW now \in 0..JWKSMaxClock, NEW keys \in SUBSET Kids, NEW t \in Nat, NEW s \in Nat,
         t <= now, SourceMoves(add, ret, add2, ret2, now), Source(add, ret, keys, t, s)
  PROVE  Source(add2, ret2, keys, t, s)
<1>0. Never \in Nat /\ now \in Nat /\ now # Never
  BY JWKSAssumption DEF Never
<1>2. ASSUME NEW k \in keys \ BadKids PROVE t <= ret2[k] + s
  <2>1. t <= ret[k] + s /\ (ret2[k] = ret[k] \/ ret2[k] = now)
    BY DEF Source, SourceMoves
  <2> QED BY <2>1, <1>0
<1>3. ASSUME NEW k \in (Kids \ BadKids) \ keys, add2[k] # Never, ret2[k] = Never
      PROVE  t <= add2[k] + s
  <2>1. ret[k] = Never /\ (add2[k] = add[k] \/ add2[k] = now)
    BY <1>0, <1>3 DEF SourceMoves
  <2>2. CASE add2[k] = now
    BY <2>2, <1>0
  <2>3. CASE add2[k] = add[k]
    BY <2>1, <2>3, <1>3 DEF Source
  <2> QED BY <2>1, <2>2, <2>3
<1> QED BY <1>2, <1>3 DEF Source

\* JWKSInv, part by part.
CallOK(q, now, add, ret) ==
  /\ q.began <= now
  /\ q.pc = "store" =>
       /\ q.began <= q.read /\ q.read <= now
       /\ now <= q.read + MaxFetch
       /\ Source(add, ret, q.keys, q.read, 0)

LEMMA JWKSParts ==
  JWKSInv <=>
    /\ JWKSTypeOK
    /\ answer.began <= jwksNow /\ cached.lastFetch <= jwksNow
    /\ \A r \in Readers : CallOK(reading[r], jwksNow, added, retired)
    /\ cached.filled => Source(added, retired, cached.keys, cached.lastFetch, MaxFetch)
    /\ RefreshInterval > 0 =>
         Source(added, retired, answer.keys, answer.began, RefreshInterval + MaxFetch - 1)
BY DEF JWKSInv, CallOK, Source, Covers

LEMMA JWKSPartsNext ==
  JWKSInv' <=>
    /\ JWKSTypeOK'
    /\ answer'.began <= jwksNow' /\ cached'.lastFetch <= jwksNow'
    /\ \A r \in Readers : CallOK(reading'[r], jwksNow', added', retired')
    /\ cached'.filled => Source(added', retired', cached'.keys, cached'.lastFetch, MaxFetch)
    /\ RefreshInterval > 0 =>
         Source(added', retired', answer'.keys, answer'.began, RefreshInterval + MaxFetch - 1)
BY DEF JWKSInv, CallOK, Source, Covers

\* The source adds or retires a key.
LEMMA SourceActs ==
  ASSUME JWKSInv, NEW k \in Kids \ BadKids, AddKey(k) \/ RetireKey(k)
  PROVE  JWKSInv'
<1>0. /\ JWKSMaxClock \in Nat /\ Never \in Nat /\ MaxFetch \in Nat /\ RefreshInterval \in Nat
      /\ 0 \in Nat /\ jwksNow \in 0..Never
  BY JWKSAssumption DEF Never, JWKSInv, JWKSTypeOK
<1>1. JWKSTypeOK
  BY DEF JWKSInv
<1>2. /\ added' \in [Kids -> 0..Never] /\ retired' \in [Kids -> 0..Never]
      /\ SourceMoves(added, retired, added', retired', jwksNow)
      /\ UNCHANGED <<jwksNow, cached, reading, answer, jwksCalls>>
  BY <1>0, <1>1 DEF AddKey, RetireKey, JWKSTypeOK, SourceMoves
<1>3. JWKSTypeOK'
  BY <1>1, <1>2 DEF JWKSTypeOK
<1>t. added \in Times /\ retired \in Times /\ added' \in Times /\ retired' \in Times
  BY <1>1, <1>2 DEF Times, JWKSTypeOK
<1>4. ASSUME NEW r \in Readers PROVE CallOK(reading'[r], jwksNow', added', retired')
  <2>1. CallOK(reading[r], jwksNow, added, retired)
    BY JWKSParts
  <2>2. reading[r].keys \in SUBSET Kids /\ reading[r].read \in Nat /\ jwksNow \in 0..JWKSMaxClock
    BY <1>0, <1>1 DEF JWKSTypeOK
  <2>3. CASE reading[r].pc = "store"
    <3>1. Source(added', retired', reading[r].keys, reading[r].read, 0)
      BY <2>1, <2>2, <2>3, <1>0, <1>2, <1>t, SourceStep DEF CallOK
    <3> QED BY <3>1, <2>1, <1>2 DEF CallOK
  <2> QED BY <2>1, <2>3, <1>2 DEF CallOK
<1>5. cached'.filled => Source(added', retired', cached'.keys, cached'.lastFetch, MaxFetch)
  <2>2. /\ cached.keys \in SUBSET Kids /\ cached.lastFetch \in Nat /\ jwksNow \in 0..JWKSMaxClock
        /\ cached.lastFetch <= jwksNow
    BY <1>0, <1>1, JWKSParts DEF JWKSTypeOK
  <2> QED BY <2>2, <1>0, <1>2, <1>t, SourceStep, JWKSParts
<1>6. RefreshInterval > 0 =>
        Source(added', retired', answer'.keys, answer'.began, RefreshInterval + MaxFetch - 1)
  <2>2. /\ answer.keys \in SUBSET Kids /\ answer.began \in Nat /\ jwksNow \in 0..JWKSMaxClock
        /\ answer.began <= jwksNow
    BY <1>0, <1>1, JWKSParts DEF JWKSTypeOK
  <2>3. RefreshInterval > 0 => RefreshInterval + MaxFetch - 1 \in Nat
    BY <1>0
  <2> QED BY <2>2, <2>3, <1>0, <1>2, <1>t, SourceStep, JWKSParts
<1> QED BY <1>2, <1>3, <1>4, <1>5, <1>6, JWKSParts, JWKSPartsNext

\* Time passes; no call of the source outlasts MaxFetch.
LEMMA JWKSTickStep ==
  ASSUME JWKSInv, JWKSTick
  PROVE  JWKSInv'
<1>0. JWKSMaxClock \in Nat /\ MaxFetch \in Nat
  BY JWKSAssumption
<1>1. JWKSTypeOK /\ jwksNow \in Nat
  BY <1>0 DEF JWKSInv, JWKSTypeOK
<1>2. /\ jwksNow' = jwksNow + 1 /\ jwksNow < JWKSMaxClock
      /\ UNCHANGED <<added, retired, cached, reading, answer, jwksCalls>>
  BY DEF JWKSTick
<1>3. JWKSTypeOK'
  BY <1>0, <1>1, <1>2 DEF JWKSTypeOK
<1>4. ASSUME NEW r \in Readers PROVE CallOK(reading'[r], jwksNow', added', retired')
  <2>1. CallOK(reading[r], jwksNow, added, retired)
    BY JWKSParts
  <2>2. reading[r].began \in Nat /\ reading[r].read \in Nat
    BY <1>0, <1>1 DEF JWKSTypeOK
  <2>3. reading[r].pc = "store" => jwksNow < reading[r].read + MaxFetch
    BY DEF JWKSTick
  <2> QED BY <2>1, <2>2, <2>3, <1>0, <1>1, <1>2 DEF CallOK
<1>5. answer'.began <= jwksNow' /\ cached'.lastFetch <= jwksNow'
  <2>1. answer.began \in Nat /\ cached.lastFetch \in Nat
    BY <1>0, <1>1 DEF JWKSTypeOK
  <2> QED BY <2>1, <1>1, <1>2, JWKSParts
<1> QED BY <1>2, <1>3, <1>4, <1>5, JWKSParts, JWKSPartsNext

\* The step of call r: only that call, the cache and the answer may change.
CallMoves(r) ==
  /\ UNCHANGED <<jwksNow, added, retired>>
  /\ \A q \in Readers : q # r => reading'[q] = reading[q]

\* What a step of call r has to show.
LEMMA CallFrame ==
  ASSUME JWKSInv, NEW r \in Readers, CallMoves(r), JWKSTypeOK',
         answer'.began <= jwksNow, cached'.lastFetch <= jwksNow,
         CallOK(reading'[r], jwksNow, added, retired),
         cached' = cached \/
           Source(added, retired, cached'.keys, cached'.lastFetch, MaxFetch),
         answer' = answer \/
           (RefreshInterval > 0 =>
              Source(added, retired, answer'.keys, answer'.began, RefreshInterval + MaxFetch - 1))
  PROVE  JWKSInv'
<1>1. \A q \in Readers : CallOK(reading'[q], jwksNow', added', retired')
  BY JWKSParts DEF CallMoves
<1>2. cached'.filled => Source(added', retired', cached'.keys, cached'.lastFetch, MaxFetch)
  BY JWKSParts DEF CallMoves
<1>3. RefreshInterval > 0 =>
        Source(added', retired', answer'.keys, answer'.began, RefreshInterval + MaxFetch - 1)
  BY JWKSParts DEF CallMoves
<1> QED BY <1>1, <1>2, <1>3, JWKSPartsNext DEF CallMoves

\* Every step of a call keeps the types.
LEMMA CallTypes ==
  ASSUME JWKSTypeOK, NEW r \in Readers,
         ServeHTTP(r) \/ Refresh(r) \/ snapshot(r) \/ fetchRead(r) \/ fetchStore(r)
  PROVE  JWKSTypeOK' /\ CallMoves(r)
<1>0. JWKSMaxClock \in Nat /\ JWKSMaxCalls \in Nat /\ 0 \in 0..JWKSMaxClock
  BY JWKSAssumption
<1>k. Keys \in SUBSET Kids
  BY DEF Keys
<1>1. CASE ServeHTTP(r)
  <2> DEFINE q == [pc |-> "snapshot", op |-> "serve", began |-> jwksNow, read |-> 0, keys |-> {}]
  <2>1. /\ reading' = [reading EXCEPT ![r] = q]
        /\ jwksCalls' = jwksCalls + 1 /\ jwksCalls < JWKSMaxCalls
        /\ UNCHANGED <<jwksNow, added, retired, cached, answer>>
    BY <1>1 DEF ServeHTTP, Begins
  <2>2. q \in [pc : {"idle", "snapshot", "fetch", "store"},
               op : {"none", "serve", "refresh"}, began : 0..JWKSMaxClock,
               read : 0..JWKSMaxClock, keys : SUBSET Kids]
    BY <1>0 DEF JWKSTypeOK
  <2> HIDE DEF q
  <2> QED BY <1>0, <2>1, <2>2 DEF JWKSTypeOK, CallMoves
<1>2. CASE Refresh(r)
  <2> DEFINE q == [pc |-> "fetch", op |-> "refresh", began |-> jwksNow, read |-> 0, keys |-> {}]
  <2>1. /\ reading' = [reading EXCEPT ![r] = q]
        /\ jwksCalls' = jwksCalls + 1 /\ jwksCalls < JWKSMaxCalls
        /\ UNCHANGED <<jwksNow, added, retired, cached, answer>>
    BY <1>2 DEF Refresh, Begins
  <2>2. q \in [pc : {"idle", "snapshot", "fetch", "store"},
               op : {"none", "serve", "refresh"}, began : 0..JWKSMaxClock,
               read : 0..JWKSMaxClock, keys : SUBSET Kids]
    BY <1>0 DEF JWKSTypeOK
  <2> HIDE DEF q
  <2> QED BY <1>0, <2>1, <2>2 DEF JWKSTypeOK, CallMoves
<1>3. CASE snapshot(r)
  BY <1>0, <1>3 DEF snapshot, Answer, JWKSTypeOK, NotReading, CallMoves
<1>4. CASE fetchRead(r)
  BY <1>0, <1>4, <1>k DEF fetchRead, JWKSTypeOK, NotReading, CallMoves
<1>5. CASE fetchStore(r)
  BY <1>0, <1>5 DEF fetchStore, Answer, JWKSTypeOK, NotReading, CallMoves
<1> QED BY <1>1, <1>2, <1>3, <1>4, <1>5

\* A call begins.
LEMMA BeginStep ==
  ASSUME JWKSInv, NEW r \in Readers, ServeHTTP(r) \/ Refresh(r)
  PROVE  JWKSInv'
<1>1. JWKSTypeOK' /\ CallMoves(r)
  BY CallTypes DEF JWKSInv
<1>2. /\ reading'[r].began = jwksNow /\ reading'[r].pc \in {"snapshot", "fetch"}
      /\ UNCHANGED <<cached, answer>>
  BY DEF ServeHTTP, Refresh, Begins, JWKSInv, JWKSTypeOK
<1>3. CallOK(reading'[r], jwksNow, added, retired)
  BY <1>2, JWKSAssumption DEF CallOK, JWKSInv, JWKSTypeOK
<1> QED BY <1>1, <1>2, <1>3, CallFrame, JWKSParts

\* A call that is over satisfies the invariant.
LEMMA NotReadingOK ==
  ASSUME JWKSInv
  PROVE  CallOK(NotReading, jwksNow, added, retired)
BY JWKSAssumption DEF CallOK, NotReading, JWKSInv, JWKSTypeOK

\* snapshot: the cache answers while it is fresh at the time sampled first.
LEMMA SnapshotStep ==
  ASSUME JWKSInv, NEW r \in Readers, snapshot(r)
  PROVE  JWKSInv'
<1> DEFINE q == reading[r]
<1>0. /\ JWKSTypeOK /\ JWKSMaxClock \in Nat /\ MaxFetch \in Nat /\ RefreshInterval \in Nat
      /\ Never \in Nat
  BY JWKSAssumption DEF JWKSInv, Never
<1>1. JWKSTypeOK' /\ CallMoves(r)
  BY CallTypes DEF JWKSInv
<1>2. CallOK(q, jwksNow, added, retired)
  BY JWKSParts
<1>3. /\ q.began \in Nat /\ cached.lastFetch \in Nat /\ jwksNow \in Nat
      /\ cached.keys \in SUBSET Kids /\ added \in Times /\ retired \in Times
  BY <1>0 DEF JWKSTypeOK, Times
<1>4. CASE CacheServes(q.began) /\ Answer(r, cached.keys)
  <2>1. reading'[r] = NotReading /\ cached' = cached
    BY <1>4, <1>0 DEF Answer, snapshot, JWKSTypeOK
  <2>2. answer' = answer \/ answer' = [began |-> q.began, keys |-> cached.keys]
    BY <1>4 DEF Answer
  <2>3. ASSUME RefreshInterval > 0
        PROVE  Source(added, retired, cached.keys, q.began, RefreshInterval + MaxFetch - 1)
    <3>1. q.began < cached.lastFetch + RefreshInterval
      BY <1>4, <2>3 DEF CacheServes
    <3>2. Source(added, retired, cached.keys, cached.lastFetch, MaxFetch)
      BY <1>4, JWKSParts DEF CacheServes
    <3>3. /\ RefreshInterval + MaxFetch - 1 \in Nat
          /\ q.began + MaxFetch <= cached.lastFetch + (RefreshInterval + MaxFetch - 1)
      BY <1>0, <1>3, <2>3, <3>1
    <3> HIDE DEF q
    <3> QED BY <1>0, <1>3, <3>2, <3>3, SourceWeaker
  <2>4. answer'.began <= jwksNow
    BY <2>2, <1>2, JWKSParts DEF CallOK
  <2> QED BY <1>1, <2>1, <2>2, <2>3, <2>4, CallFrame, NotReadingOK, JWKSParts
<1>5. CASE ~CacheServes(q.began) /\ reading' = [reading EXCEPT ![r].pc = "fetch"]
           /\ UNCHANGED answer
  <2>1. reading'[r].began = q.began /\ reading'[r].pc = "fetch" /\ cached' = cached
    BY <1>5, <1>0 DEF JWKSTypeOK, snapshot
  <2>2. CallOK(reading'[r], jwksNow, added, retired)
    BY <2>1, <1>2 DEF CallOK
  <2> QED BY <1>1, <1>5, <2>1, <2>2, CallFrame, JWKSParts
<1> QED BY <1>4, <1>5 DEF snapshot

\* fetch: the source is read without the lock, or fails.
LEMMA FetchReadStep ==
  ASSUME JWKSInv, NEW r \in Readers, fetchRead(r)
  PROVE  JWKSInv'
<1>0. /\ JWKSTypeOK /\ JWKSMaxClock \in Nat /\ MaxFetch \in Nat /\ Never \in Nat
      /\ jwksNow \in Nat /\ jwksNow # Never
  BY JWKSAssumption DEF JWKSInv, Never, JWKSTypeOK
<1>1. JWKSTypeOK' /\ CallMoves(r) /\ UNCHANGED <<cached, answer>>
  BY CallTypes DEF JWKSInv, fetchRead
<1>4. CASE reading' = [reading EXCEPT ![r].pc = "store", ![r].read = jwksNow, ![r].keys = Keys]
  <2>1. /\ reading'[r].began = reading[r].began /\ reading'[r].read = jwksNow
        /\ reading'[r].keys = Keys
    BY <1>4, <1>0 DEF JWKSTypeOK
  <2>2. Source(added, retired, Keys, jwksNow, 0)
    <3>1. \A k \in Keys : jwksNow <= retired[k] + 0
      BY <1>0, JWKSAssumption DEF Keys, Never, JWKSTypeOK
    <3>2. ASSUME NEW k \in Kids \ Keys PROVE ~(added[k] # Never /\ retired[k] = Never)
      BY <3>2 DEF Keys
    <3> QED BY <3>1, <3>2 DEF Source
  <2>3. reading[r].began <= jwksNow
    BY JWKSParts DEF CallOK
  <2>4. CallOK(reading'[r], jwksNow, added, retired)
    BY <2>1, <2>2, <2>3, <1>0 DEF CallOK
  <2> QED BY <1>1, <2>4, CallFrame, JWKSParts
<1>5. CASE reading' = [reading EXCEPT ![r] = NotReading]
  <2>1. reading'[r] = NotReading
    BY <1>5, <1>0 DEF JWKSTypeOK
  <2> QED BY <1>1, <2>1, CallFrame, NotReadingOK, JWKSParts
<1> QED BY <1>4, <1>5 DEF fetchRead

\* fetch, under the lock: what was read replaces the cache whatever it holds.
LEMMA FetchStoreStep ==
  ASSUME JWKSInv, NEW r \in Readers, fetchStore(r)
  PROVE  JWKSInv'
<1> DEFINE q == reading[r]
           keys == q.keys \ BadKids
<1>0. /\ JWKSTypeOK /\ JWKSMaxClock \in Nat /\ MaxFetch \in Nat /\ RefreshInterval \in Nat
      /\ Never \in Nat
  BY JWKSAssumption DEF JWKSInv, Never
<1>1. JWKSTypeOK' /\ CallMoves(r)
  BY CallTypes DEF JWKSInv
<1>2. /\ q.began <= q.read /\ q.read <= jwksNow /\ jwksNow <= q.read + MaxFetch
      /\ Source(added, retired, q.keys, q.read, 0)
  BY JWKSParts DEF CallOK, fetchStore
<1>3. /\ q.began \in Nat /\ q.read \in Nat /\ jwksNow \in Nat
      /\ keys \in SUBSET Kids /\ added \in Times /\ retired \in Times
  BY <1>0 DEF JWKSTypeOK, Times
<1>4. /\ cached' = [filled |-> TRUE, keys |-> keys, lastFetch |-> jwksNow]
      /\ Answer(r, keys)
  BY DEF fetchStore
<1>5. reading'[r] = NotReading
  BY <1>4, <1>0 DEF Answer, JWKSTypeOK
<1>6. answer' = answer \/ answer' = [began |-> q.began, keys |-> keys]
  BY <1>4 DEF Answer
<1>7. Source(added, retired, keys, q.read, 0)
  BY <1>2, SourceSkips
<1> HIDE DEF q, keys
<1>8. Source(added, retired, keys, jwksNow, MaxFetch)
  <2>1. 0 \in Nat /\ jwksNow + 0 <= q.read + MaxFetch
    BY <1>0, <1>2, <1>3
  <2> QED BY <1>0, <1>3, <1>7, <2>1, SourceWeaker
<1>9. ASSUME RefreshInterval > 0
      PROVE  Source(added, retired, keys, q.began, RefreshInterval + MaxFetch - 1)
  <2>1. /\ RefreshInterval + MaxFetch - 1 \in Nat
        /\ q.began + 0 <= q.read + (RefreshInterval + MaxFetch - 1)
    BY <1>0, <1>2, <1>3, <1>9
  <2> QED BY <1>0, <1>3, <1>7, <2>1, SourceWeaker
<1>10. answer'.began <= jwksNow /\ cached'.lastFetch <= jwksNow
  <2>1. q.began <= jwksNow
    BY <1>2, <1>3
  <2> QED BY <1>3, <1>4, <1>6, <2>1, JWKSParts
<1>11. Source(added, retired, cached'.keys, cached'.lastFetch, MaxFetch)
  BY <1>4, <1>8
<1>12. answer' = answer \/
         (RefreshInterval > 0 =>
            Source(added, retired, answer'.keys, answer'.began, RefreshInterval + MaxFetch - 1))
  BY <1>6, <1>9
<1> QED BY <1>1, <1>5, <1>10, <1>11, <1>12, CallFrame, NotReadingOK

\* The cache follows its source: the inductive invariant holds in every state.
THEOREM JWKSInvariant == JWKSSpec => []JWKSInv
<1>1. JWKSInit => JWKSInv
  <2> SUFFICES ASSUME JWKSInit PROVE JWKSInv
    OBVIOUS
  <2>0. JWKSMaxClock \in Nat /\ Never \in Nat /\ MaxFetch \in Nat /\ RefreshInterval \in Nat
    BY JWKSAssumption DEF Never
  <2>1. JWKSTypeOK
    BY <2>0, JWKSAssumption DEF JWKSInit, JWKSTypeOK, NotReading, Never
  <2>2. \A r \in Readers : CallOK(reading[r], jwksNow, added, retired)
    BY <2>0 DEF JWKSInit, CallOK, NotReading
  <2>3. ASSUME NEW s \in Nat PROVE Source(added, retired, {}, 0, s)
    BY <2>0 DEF JWKSInit, Source
  <2>4. RefreshInterval > 0 => RefreshInterval + MaxFetch - 1 \in Nat
    BY <2>0
  <2> QED BY <2>0, <2>1, <2>2, <2>3, <2>4, JWKSParts DEF JWKSInit
<1>2. JWKSInv /\ [JWKSNext]_jwksVars => JWKSInv'
  <2> SUFFICES ASSUME JWKSInv, [JWKSNext]_jwksVars PROVE JWKSInv'
    OBVIOUS
  <2>1. CASE UNCHANGED jwksVars
    BY <2>1 DEF jwksVars, JWKSInv, JWKSTypeOK, Covers
  <2>2. CASE JWKSNext
    BY <2>2, JWKSTickStep, SourceActs, BeginStep, SnapshotStep, FetchReadStep, FetchStoreStep
    DEF JWKSNext
  <2> QED BY <2>1, <2>2
<1> QED BY <1>1, <1>2, PTL DEF JWKSSpec

\* However fetches overlap and overwrite each other, a verifier resolves a
\* retired key, and misses a new one, for less than RefreshInterval plus the
\* time of one call of the source.
THEOREM KeySetTheorem == JWKSSpec => []KeySetFollowsSource
<1>1. JWKSInv => KeySetFollowsSource
  <2> SUFFICES ASSUME JWKSInv, RefreshInterval > 0
               PROVE  KeySetFollowsSource
    BY DEF KeySetFollowsSource, RetiredKeyFades, NewKeyAppears
  <2>0. /\ JWKSMaxClock \in Nat /\ Never \in Nat /\ MaxFetch \in Nat /\ RefreshInterval \in Nat
        /\ JWKSTypeOK
    BY JWKSAssumption DEF Never, JWKSInv
  <2>1. /\ answer.began \in Nat
        /\ \A k \in Kids : added[k] \in Nat /\ retired[k] \in Nat
        /\ answer.keys \in SUBSET Kids
    BY <2>0 DEF JWKSTypeOK
  <2>2. Covers(answer.keys, answer.began, RefreshInterval + MaxFetch - 1)
    BY DEF JWKSInv
  <2>3. RetiredKeyFades
    <3> SUFFICES ASSUME NEW k \in answer.keys \ BadKids
                 PROVE  answer.began < retired[k] + RefreshInterval + MaxFetch
      BY DEF RetiredKeyFades, ResolverFromJWKS
    <3>1. answer.began <= retired[k] + (RefreshInterval + MaxFetch - 1)
      BY <2>2 DEF Covers
    <3> QED BY <2>0, <2>1, <3>1
  <2>4. NewKeyAppears
    <3> SUFFICES ASSUME NEW k \in Kids \ BadKids, added[k] # Never, retired[k] = Never,
                        answer.began >= added[k] + RefreshInterval + MaxFetch,
                        k \notin answer.keys
                 PROVE  FALSE
      BY DEF NewKeyAppears, ResolverFromJWKS
    <3>1. answer.began <= added[k] + (RefreshInterval + MaxFetch - 1)
      BY <2>2 DEF Covers
    <3> QED BY <2>0, <2>1, <3>1
  <2> QED BY <2>3, <2>4 DEF KeySetFollowsSource
<1> QED BY <1>1, JWKSInvariant, PTL

-----------------------------------------------------------------------------
(* TrustLevel. *)

\* The two agents keep their shape.
THEOREM TrustTypes == TrustSpec => []TrustTypeOK
<1>1. TrustInit => TrustTypeOK
  BY DEF TrustInit, TrustTypeOK
<1>2. TrustTypeOK /\ [TrustNext]_trustVars => TrustTypeOK'
  <2> SUFFICES ASSUME TrustTypeOK, TrustNext PROVE TrustTypeOK'
    BY DEF trustVars, TrustTypeOK
  <2>1. ASSUME NEW s \in Sides, ChangeState(s) PROVE TrustTypeOK'
    BY <2>1 DEF TrustTypeOK, ChangeState
  <2>2. ASSUME NEW s \in Sides, UpgradePeer(s) PROVE TrustTypeOK'
    <3>1. peers[s].level + 1 \in 0..7
      BY <2>2, TrustLevelsAssumption DEF UpgradePeer
    <3>2. PICK interop \in {peers[s].interop, TRUE} :
            peers' = [peers EXCEPT ![s].level = @ + 1, ![s].interop = interop]
      BY <2>2 DEF UpgradePeer
    <3>3. interop \in BOOLEAN BY DEF TrustTypeOK
    <3> DEFINE new == [peers[s] EXCEPT !.level = @ + 1, !.interop = interop]
    <3>4. peers' = [peers EXCEPT ![s] = new] BY <3>2 DEF TrustTypeOK
    <3>5. new \in [state : {"registered", "active", "banned", "unregistered"},
                   level : 0..7, interop : BOOLEAN]
      BY <3>1, <3>3 DEF TrustTypeOK
    <3> HIDE DEF new
    <3> QED BY <3>4, <3>5 DEF TrustTypeOK
  <2>3. ASSUME NEW s \in Sides, ToggleInterop(s) PROVE TrustTypeOK'
    BY <2>3 DEF TrustTypeOK, ToggleInterop
  <2> QED BY <2>1, <2>2, <2>3 DEF TrustNext
<1> QED BY <1>1, <1>2, PTL DEF TrustSpec

\* An upgrade of the agent that is not ahead never costs trust.
THEOREM TrustTheorem == TrustSpec => CatchingUpKeepsTrust
<1> DEFINE Keeps(s) ==
      /\ peers'[s].level > peers[s].level
      /\ peers[s].level <= peers[Other(s)].level
      => Score(ComputeTrustLevel(peers'["a"], peers'["b"])) >= TrustNow
<1>1. TrustTypeOK /\ [TrustNext]_trustVars => [\A s \in Sides : Keeps(s)]_trustVars
  <2> SUFFICES ASSUME TrustTypeOK, TrustNext, NEW s \in Sides,
                      peers'[s].level > peers[s].level,
                      peers[s].level <= peers[Other(s)].level
               PROVE  Score(ComputeTrustLevel(peers'["a"], peers'["b"])) >= TrustNow
    BY DEF trustVars
  <2>1. \A z \in Sides : peers[z].level \in 0..7
    BY DEF TrustTypeOK
  <2>2. PICK z \in Sides : ChangeState(z) \/ UpgradePeer(z) \/ ToggleInterop(z)
    BY DEF TrustNext
  <2>3. UpgradePeer(z) /\ z = s
    BY <2>1, <2>2 DEF ChangeState, UpgradePeer, ToggleInterop, TrustTypeOK
  <2>4. PICK interop \in {peers[s].interop, TRUE} :
          peers' = [peers EXCEPT ![s].level = @ + 1, ![s].interop = interop]
    BY <2>3 DEF UpgradePeer
  <2> QED BY <2>1, <2>4
    DEF TrustTypeOK, TrustNow, Score, ComputeTrustLevel, Full, Apart, Other, Sides
<1> QED BY <1>1, TrustTypes, PTL DEF TrustSpec, CatchingUpKeepsTrust

-----------------------------------------------------------------------------
(* AAPHandshake. *)

Issuing == [pc : {"idle", "set", "done"}, id : ChallengeIDs \cup {"none"}, ch : ChallengeRecord]

Verifying ==
  [pc : {"idle", "get", "del", "check", "done"}, id : ChallengeIDs \cup {"none"}, at : Nat,
   resp : [nonce : Nat, issued : Nat, uuid : AgentUUIDs \cup {"none"}],
   uuid : AgentUUIDs \cup {"none"}, ch : ChallengeRecord]

LEMMA RecordTypes ==
  /\ NoChallenge \in ChallengeRecord
  /\ Forged \in [nonce : Nat, issued : Nat, uuid : AgentUUIDs \cup {"none"}]
  /\ NotIssuing \in Issuing /\ NotVerifying \in Verifying
BY DEF NoChallenge, ChallengeRecord, Forged, NotIssuing, Issuing, NotVerifying, Verifying

LEMMA FinishedRecord ==
  /\ Finished \in Verifying /\ Finished.pc = "done" /\ Finished.resp = Forged
  /\ [NotIssuing EXCEPT !.pc = "done"] \in Issuing
  /\ [NotIssuing EXCEPT !.pc = "done"].pc = "done"
BY RecordTypes DEF Finished, Issuing, Verifying, NotVerifying

LEMMA UnixType ==
  ASSUME NEW t \in Nat PROVE Unix(t) \in Nat
BY DEF Unix

\* Unix seconds lose less than a second, and keep the order of times.
LEMMA UnixOrder ==
  ASSUME NEW t \in Nat, NEW e \in Nat
  PROVE  /\ Unix(e) > Unix(t) => t < e
         /\ t + 2 <= e => Unix(e) > Unix(t)
BY DEF Unix

\* The types, with the records named.
LEMMA AAPTypes ==
  AAPTypeOK <=>
    /\ aapNow \in 0..AAPMaxClock
    /\ store \in [ChallengeIDs -> ChallengeRecord]
    /\ drawn \in Seq(ChallengeIDs)
    /\ issuing \in [Issuances -> Issuing]
    /\ handed \subseteq [id : ChallengeIDs, ch : ChallengeRecord]
    /\ verifying \in [Presentations -> Verifying]
    /\ accepted \in [Serials -> Nat]
    /\ excused \subseteq Nat
    /\ proofs \subseteq [jti : Nat, sub : AgentUUIDs \cup {"none"}, answered : Nat, signed : Nat,
                         exp : Nat]
    /\ aapFaults \in 0..AAPMaxFaults
BY DEF AAPTypeOK, Issuing, Verifying

LEMMA AAPTypesNext ==
  AAPTypeOK' <=>
    /\ aapNow' \in 0..AAPMaxClock
    /\ store' \in [ChallengeIDs -> ChallengeRecord]
    /\ drawn' \in Seq(ChallengeIDs)
    /\ issuing' \in [Issuances -> Issuing]
    /\ handed' \subseteq [id : ChallengeIDs, ch : ChallengeRecord]
    /\ verifying' \in [Presentations -> Verifying]
    /\ accepted' \in [Serials -> Nat]
    /\ excused' \subseteq Nat
    /\ proofs' \subseteq [jti : Nat, sub : AgentUUIDs \cup {"none"}, answered : Nat, signed : Nat,
                          exp : Nat]
    /\ aapFaults' \in 0..AAPMaxFaults
BY DEF AAPTypeOK, Issuing, Verifying

\* A drawn challenge has an id and a serial number.
LEMMA RealNames ==
  ASSUME NEW c, NEW i, NEW d \in Seq(ChallengeIDs), NEW when, Real(c, i, d, when)
  PROVE  i \in ChallengeIDs /\ c.nonce \in Nat /\ c.nonce > 0
BY DEF Real

\* encodeChallenge keeps the challenge as it is.
LEMMA EncodeExact ==
  ASSUME NEW c \in ChallengeRecord PROVE encodeChallenge(c) = c
BY DEF ChallengeRecord, encodeChallenge

\* A presentation that went past the parsing names a real id.
LEMMA PresentedID ==
  ASSUME GenuineInv, NEW v \in Presentations, verifying[v].pc \in {"get", "del", "check"}
  PROVE  verifying[v].id \in ChallengeIDs
BY DEF GenuineInv, Genuine

\* Every step keeps the types.
LEMMA AAPTypeStep ==
  ASSUME AAPTypeOK, GenuineInv, AAPNext
  PROVE  AAPTypeOK'
<1>0. /\ ChallengeTTL \in Nat /\ ProofTTL \in Nat /\ AAPMaxClock \in Nat /\ AAPMaxFaults \in Nat
      /\ aapNow \in Nat /\ aapNow \in 0..AAPMaxClock
  BY AAPTimesAssumption DEF AAPTypeOK
<1>f. AAPFault => aapFaults' \in 0..AAPMaxFaults
  BY <1>0 DEF AAPFault, AAPTypeOK
<1>1. CASE AAPTick
  <2>1. store' \in [ChallengeIDs -> ChallengeRecord]
    BY <1>1, AAPTypes, RecordTypes DEF AAPTick
  <2>2. aapNow' \in 0..AAPMaxClock
    BY <1>0, <1>1 DEF AAPTick
  <2> QED BY <1>1, <2>1, <2>2, AAPTypes, AAPTypesNext DEF AAPTick
<1>2. ASSUME NEW g \in Issuances, NEW i \in ChallengeIDs, Draw(g, i) PROVE AAPTypeOK'
  <2> DEFINE c == [nonce |-> Len(drawn'), issued |-> aapNow, expires |-> aapNow + ChallengeTTL,
                   evict |-> 0]
             q == [pc |-> "set", id |-> i, ch |-> c]
  <2>1. drawn' \in Seq(ChallengeIDs) /\ Len(drawn') \in Nat
    BY <1>2, AAPTypes DEF Draw
  <2>2. c \in ChallengeRecord
    BY <1>0, <2>1 DEF ChallengeRecord
  <2>3. issuing' = [issuing EXCEPT ![g] = q]
    BY <1>2 DEF Draw
  <2> HIDE DEF c
  <2>4. q \in Issuing
    BY <2>2 DEF Issuing
  <2> HIDE DEF q
  <2>5. issuing' \in [Issuances -> Issuing]
    BY <2>3, <2>4, AAPTypes
  <2> QED BY <1>2, <2>1, <2>5, AAPTypes, AAPTypesNext DEF Draw
<1>3. ASSUME NEW g \in Issuances, storeChallenge(g) PROVE AAPTypeOK'
  <2> DEFINE c == [encodeChallenge(issuing[g].ch) EXCEPT !.evict = aapNow + ChallengeTTL]
             set == [store EXCEPT ![issuing[g].id] = c]
  <2>1. issuing[g].ch \in ChallengeRecord /\ issuing[g].id \in ChallengeIDs /\ issuing[g].pc = "set"
    <3>1. issuing[g].pc = "set" /\ issuing[g].ch \in ChallengeRecord
      BY <1>3, AAPTypes DEF Issuing, storeChallenge
    <3>2. PICK when \in [Serials -> 0..AAPMaxClock] : Genuine(when)
      BY DEF GenuineInv
    <3>3. Real(issuing[g].ch, issuing[g].id, drawn, when)
      BY <3>1, <3>2 DEF Genuine
    <3> QED BY <3>1, <3>3, RealNames, AAPTypes
  <2>2. c \in ChallengeRecord
    <3>1. c = [issuing[g].ch EXCEPT !.evict = aapNow + ChallengeTTL]
      BY <2>1, EncodeExact
    <3>2. aapNow + ChallengeTTL \in Nat
      BY <1>0
    <3> QED BY <2>1, <3>1, <3>2 DEF ChallengeRecord
  <2>3. /\ store' = set \/ store' = store
        /\ handed' = handed \/ handed' = handed \cup {[id |-> issuing[g].id, ch |-> issuing[g].ch]}
        /\ aapFaults' = aapFaults \/ AAPFault
        /\ issuing' = [issuing EXCEPT ![g] = [NotIssuing EXCEPT !.pc = "done"]]
        /\ UNCHANGED <<aapNow, drawn, verifying, accepted, excused, proofs>>
    BY <1>3 DEF storeChallenge
  <2> HIDE DEF c
  <2>4. store' \in [ChallengeIDs -> ChallengeRecord]
    BY <2>2, <2>3, AAPTypes
  <2>5. issuing' \in [Issuances -> Issuing]
    BY <2>3, AAPTypes, FinishedRecord
  <2>6. handed' \subseteq [id : ChallengeIDs, ch : ChallengeRecord]
    BY <2>1, <2>3, AAPTypes
  <2> QED BY <1>f, <2>3, <2>4, <2>5, <2>6, AAPTypes, AAPTypesNext
<1>4. ASSUME NEW v \in Presentations, VerifyBegin(v) PROVE AAPTypeOK'
  <2>1. PICK c \in handed, u \in AgentUUIDs :
          \E r \in {responsePayload(c, u), cliPayload(c), Forged} :
            verifying' = [verifying EXCEPT ![v] =
              [pc |-> "get", id |-> c.id, at |-> aapNow, resp |-> r, uuid |-> u,
               ch |-> NoChallenge]]
    BY <1>4 DEF VerifyBegin
  <2>2. PICK r \in {responsePayload(c, u), cliPayload(c), Forged} :
          verifying' = [verifying EXCEPT ![v] =
            [pc |-> "get", id |-> c.id, at |-> aapNow, resp |-> r, uuid |-> u,
             ch |-> NoChallenge]]
    BY <2>1
  <2>3. c.id \in ChallengeIDs /\ c.ch \in ChallengeRecord
    BY AAPTypes
  <2>4. r \in [nonce : Nat, issued : Nat, uuid : AgentUUIDs \cup {"none"}]
    BY <2>3, RecordTypes DEF responsePayload, cliPayload, ChallengeRecord
  <2> DEFINE q == [pc |-> "get", id |-> c.id, at |-> aapNow, resp |-> r, uuid |-> u,
                   ch |-> NoChallenge]
  <2>5. q \in Verifying
    BY <1>0, <2>3, <2>4, RecordTypes DEF Verifying
  <2> HIDE DEF q
  <2>6. verifying' = [verifying EXCEPT ![v] = q]
    BY <2>2 DEF q
  <2>7. verifying' \in [Presentations -> Verifying]
    BY <2>5, <2>6, AAPTypes
  <2> QED BY <1>4, <2>7, AAPTypes, AAPTypesNext DEF VerifyBegin
<1>5. ASSUME NEW v \in Presentations, LoadChallenge(v) PROVE AAPTypeOK'
  <2>1. verifying[v].pc = "get" /\ verifying[v].id \in ChallengeIDs /\ verifying[v] \in Verifying
    BY <1>5, PresentedID, AAPTypes DEF LoadChallenge
  <2>2. store[verifying[v].id] \in ChallengeRecord /\ store[verifying[v].id].nonce \in Nat
    BY <2>1, AAPTypes DEF ChallengeRecord
  <2>3. /\ \/ verifying' = [verifying EXCEPT ![v].pc = "del", ![v].ch = store[verifying[v].id]]
           \/ verifying' = [verifying EXCEPT ![v] = Finished]
        /\ excused' = excused \/ excused' = excused \cup {store[verifying[v].id].nonce}
        /\ aapFaults' = aapFaults \/ AAPFault
        /\ UNCHANGED <<aapNow, store, drawn, issuing, handed, accepted, proofs>>
    BY <1>5 DEF LoadChallenge
  <2>4. [verifying[v] EXCEPT !.pc = "del", !.ch = store[verifying[v].id]] \in Verifying
    BY <2>1, <2>2 DEF Verifying
  <2>5. verifying' \in [Presentations -> Verifying]
    BY <2>3, <2>4, FinishedRecord, AAPTypes
  <2>6. excused' \subseteq Nat
    BY <2>2, <2>3, AAPTypes
  <2> QED BY <1>f, <2>3, <2>5, <2>6, AAPTypes, AAPTypesNext
<1>6. ASSUME NEW v \in Presentations, ConsumeChallenge(v) PROVE AAPTypeOK'
  <2>1. verifying[v] \in Verifying /\ verifying[v].ch.nonce \in Nat
    BY AAPTypes DEF Verifying, ChallengeRecord
  <2>2. /\ store' = store \/ store' = [store EXCEPT ![verifying[v].id] = NoChallenge]
        /\ excused' = excused \/ excused' = excused \cup {verifying[v].ch.nonce}
        /\ aapFaults' = aapFaults \/ AAPFault
        /\ verifying' = [verifying EXCEPT ![v].pc = "check"]
        /\ UNCHANGED <<aapNow, drawn, issuing, handed, accepted, proofs>>
    BY <1>6 DEF ConsumeChallenge
  <2>3. verifying' \in [Presentations -> Verifying]
    BY <2>1, <2>2, AAPTypes DEF Verifying
  <2>4. store' \in [ChallengeIDs -> ChallengeRecord] /\ excused' \subseteq Nat
    BY <2>1, <2>2, AAPTypes, RecordTypes
  <2> QED BY <1>f, <2>2, <2>3, <2>4, AAPTypes, AAPTypesNext
<1>7. ASSUME NEW v \in Presentations, VerifyEnd(v) PROVE AAPTypeOK'
  <2> DEFINE q == verifying[v]
             p == Sign(q.uuid, q.ch.nonce, q.at, aapNow)
  <2>1. /\ q.ch.nonce \in Nat /\ q.at \in Nat /\ q.uuid \in AgentUUIDs \cup {"none"}
    BY AAPTypes DEF Verifying, ChallengeRecord
  <2>2. Unix(aapNow + ProofTTL) \in Nat
    BY <1>0, UnixType
  <2>3. p \in [jti : Nat, sub : AgentUUIDs \cup {"none"}, answered : Nat, signed : Nat, exp : Nat]
    BY <1>0, <2>1, <2>2 DEF Sign
  <2>4. /\ accepted' = accepted \/ accepted' = [accepted EXCEPT ![q.ch.nonce] = @ + 1]
        /\ proofs' = proofs \/ proofs' = proofs \cup {p}
        /\ verifying' = [verifying EXCEPT ![v] = Finished]
        /\ UNCHANGED <<aapNow, store, drawn, issuing, handed, excused, aapFaults>>
    BY <1>7 DEF VerifyEnd
  <2> HIDE DEF p, q
  <2>5. accepted' \in [Serials -> Nat]
    <3>1. CASE q.ch.nonce \in Serials
      BY <3>1, <2>4, AAPTypes
    <3>2. CASE q.ch.nonce \notin Serials
      BY <3>2, <2>4, AAPTypes
    <3> QED BY <3>1, <3>2
  <2>7. proofs' \subseteq [jti : Nat, sub : AgentUUIDs \cup {"none"}, answered : Nat,
                           signed : Nat, exp : Nat]
    BY <2>3, <2>4, AAPTypes
  <2>6. verifying' \in [Presentations -> Verifying]
    BY <2>4, FinishedRecord, AAPTypes
  <2> QED BY <2>4, <2>5, <2>6, <2>7, AAPTypes, AAPTypesNext
<1> QED BY <1>1, <1>2, <1>3, <1>4, <1>5, <1>6, <1>7 DEF AAPNext, Generate, GenerateWithID

Begun == {g \in Issuances : issuing[g].pc # "idle"}

\* There are no more nonces than calls.
LEMMA SerialBound ==
  ASSUME AAPTypeOK, DrawnInv
  PROVE  /\ IsFiniteSet(Begun) /\ Cardinality(Begun) = Len(drawn)
         /\ Cardinality(Issuances) \in Nat /\ Len(drawn) \in Nat
         /\ Len(drawn) <= Cardinality(Issuances)
<1>1. Begun \subseteq Issuances
  BY DEF Begun
<1>2. IsFiniteSet(Begun) /\ Cardinality(Begun) <= Cardinality(Issuances)
  BY <1>1, AAPCallsAssumption, FS_Subset
<1>3. Cardinality(Begun) = Len(drawn)
  BY DEF DrawnInv, Begun
<1> QED BY <1>2, <1>3, AAPCallsAssumption, FS_CardinalityType, AAPTypes

\* A call that begins draws the next serial number.
LEMMA DrawSerial ==
  ASSUME AAPTypeOK, DrawnInv, AAPTypeOK', NEW g \in Issuances, NEW i \in ChallengeIDs,
         issuing[g].pc = "idle", Draw(g, i)
  PROVE  DrawnInv' /\ Len(drawn') = Len(drawn) + 1 /\ Len(drawn') \in Serials
<1>1. /\ IsFiniteSet(Begun) /\ Cardinality(Begun) = Len(drawn) /\ Len(drawn) \in Nat
      /\ g \notin Begun
  BY SerialBound DEF Begun
<1>2. Len(drawn') = Len(drawn) + 1
  BY AAPTypes DEF Draw
<1>3. issuing'[g].pc = "set" /\ \A h \in Issuances : h # g => issuing'[h] = issuing[h]
  BY AAPTypes DEF Draw
<1>4. {h \in Issuances : issuing'[h].pc # "idle"} = Begun \cup {g}
  BY <1>3 DEF Begun
<1>5. Cardinality(Begun \cup {g}) = Cardinality(Begun) + 1
  BY <1>1, FS_AddElement
<1>6. DrawnInv'
  BY <1>1, <1>2, <1>4, <1>5 DEF DrawnInv
<1>7. Cardinality(Begun \cup {g}) <= Cardinality(Issuances)
  BY AAPCallsAssumption, FS_Subset DEF Begun
<1>8. Cardinality(Issuances) \in Nat
  BY AAPCallsAssumption, FS_CardinalityType
<1> QED BY <1>1, <1>2, <1>5, <1>6, <1>7, <1>8 DEF Serials

\* The other steps draw nothing.
LEMMA NoDraw ==
  ASSUME DrawnInv, drawn' = drawn,
         \A h \in Issuances : (issuing'[h].pc = "idle") <=> (issuing[h].pc = "idle")
  PROVE  DrawnInv'
<1>1. {h \in Issuances : issuing'[h].pc # "idle"} = {h \in Issuances : issuing[h].pc # "idle"}
  OBVIOUS
<1> QED BY <1>1 DEF DrawnInv

When == [Serials -> 0..AAPMaxClock]

\* What Genuine says of one presentation.
Present(q, h, d, when) ==
  /\ q.pc \in {"get", "del", "check"} => q.id \in ChallengeIDs
  /\ q.pc \in {"del", "check"} => Real(q.ch, q.id, d, when)
  /\ q.resp = Forged \/ \E c \in h : c.ch.nonce = q.resp.nonce

\* A proof stays earned while challenges are handed out and accepted.
LEMMA EarnedKeeps ==
  ASSUME AAPTypeOK, AAPTypeOK', NEW p, NEW when, Earned(p, when), handed \subseteq handed',
         \A n \in Serials : accepted[n] <= accepted'[n]
  PROVE  Earned(p, when)'
<1>1. p.jti \in Serials /\ accepted[p.jti] > 0 /\ accepted[p.jti] <= accepted'[p.jti]
  BY DEF Earned
<1>2. accepted[p.jti] \in Nat /\ accepted'[p.jti] \in Nat
  BY <1>1, AAPTypes, AAPTypesNext
<1>3. accepted'[p.jti] > 0
  BY <1>1, <1>2
<1> QED BY <1>3 DEF Earned, Unix

\* A step that draws no nonce and only adds what is genuine.
LEMMA GenuineFrame ==
  ASSUME AAPTypeOK, AAPTypeOK', NEW when \in When, Genuine(when), drawn' = drawn,
         \A i \in ChallengeIDs :
           store'[i] = store[i] \/ store'[i] = NoChallenge \/ Real(store'[i], i, drawn, when),
         \A g \in Issuances : issuing'[g].pc = "set" => issuing'[g] = issuing[g],
         handed \subseteq handed', \A c \in handed' \ handed : Real(c.ch, c.id, drawn, when),
         \A v \in Presentations :
           verifying'[v] = verifying[v] \/ Present(verifying'[v], handed, drawn, when),
         \A n \in Serials : accepted[n] <= accepted'[n],
         \A p \in proofs' \ proofs : Earned(p, when)'
  PROVE  GenuineInv'
<1>1. \A i \in ChallengeIDs : store'[i] = NoChallenge \/ Real(store'[i], i, drawn', when)
  BY DEF Genuine
<1>2. \A g \in Issuances :
        issuing'[g].pc = "set" => Real(issuing'[g].ch, issuing'[g].id, drawn', when)
  BY DEF Genuine
<1>3. \A c \in handed' : Real(c.ch, c.id, drawn', when)
  BY DEF Genuine
<1>4. ASSUME NEW v \in Presentations PROVE Present(verifying'[v], handed', drawn', when)
  <2>1. Present(verifying'[v], handed, drawn, when)
    BY DEF Genuine, Present
  <2> QED BY <2>1 DEF Present
<1>5. \A p \in proofs' : Earned(p, when)'
  BY EarnedKeeps DEF Genuine
<1>6. Genuine(when)'
  BY <1>1, <1>2, <1>3, <1>4, <1>5 DEF Genuine, Present
<1> QED BY <1>6 DEF GenuineInv, When

\* A challenge stays real when another nonce is drawn.
LEMMA RealDraw ==
  ASSUME NEW c, NEW i, NEW j \in ChallengeIDs, NEW d \in Seq(ChallengeIDs),
         NEW when \in When, NEW t \in 0..AAPMaxClock, Len(d) + 1 \in Serials,
         Real(c, i, d, when)
  PROVE  Real(c, i, Append(d, j), [when EXCEPT ![Len(d) + 1] = t])
<1>1. c.nonce \in 1..Len(d) /\ c.nonce # Len(d) + 1 /\ c.nonce \in Serials
  BY AAPCallsAssumption, FS_CardinalityType DEF Real, Serials
<1>2. c.nonce \in 1..Len(Append(d, j)) /\ Append(d, j)[c.nonce] = d[c.nonce]
  BY <1>1
<1>3. [when EXCEPT ![Len(d) + 1] = t][c.nonce] = when[c.nonce]
  BY <1>1 DEF When
<1> QED BY <1>2, <1>3 DEF Real

\* What FreshInv says of one serial number that is not stored yet.
FreshSerial(n) ==
  /\ Absent(n) /\ accepted[n] = 0
  /\ \A v \in Presentations : ~Holds(v, n)

LEMMA FreshParts ==
  FreshInv <=>
    /\ \A n \in Serials : n > Len(drawn) => accepted[n] = 0
    /\ \A g \in Issuances : issuing[g].pc = "set" =>
         /\ FreshSerial(issuing[g].ch.nonce)
         /\ \A h \in Issuances \ {g} :
              issuing[h].pc = "set" => issuing[h].ch.nonce # issuing[g].ch.nonce
BY DEF FreshInv, FreshSerial

LEMMA FreshPartsNext ==
  FreshInv' <=>
    /\ \A n \in Serials : n > Len(drawn') => accepted'[n] = 0
    /\ \A g \in Issuances : issuing'[g].pc = "set" =>
         /\ \A n : n = issuing'[g].ch.nonce => FreshSerial(n)'
         /\ \A h \in Issuances \ {g} :
              issuing'[h].pc = "set" => issuing'[h].ch.nonce # issuing'[g].ch.nonce
BY DEF FreshInv, FreshSerial, Absent, Holds

\* A call about to store its challenge has a real one.
LEMMA SetIsReal ==
  ASSUME AAPTypeOK, GenuineInv, NEW g \in Issuances, issuing[g].pc = "set"
  PROVE  /\ issuing[g].ch.nonce \in Nat \ {0} /\ issuing[g].ch.nonce \in 1..Len(drawn)
         /\ issuing[g].id \in ChallengeIDs /\ issuing[g].ch \in ChallengeRecord
<1>1. PICK when \in When : Genuine(when)
  BY DEF GenuineInv, When
<1>2. Real(issuing[g].ch, issuing[g].id, drawn, when)
  BY <1>1 DEF Genuine
<1>3. drawn \in Seq(ChallengeIDs) /\ issuing[g].ch \in ChallengeRecord
  BY AAPTypes DEF Issuing
<1> QED BY <1>2, <1>3, RealNames DEF Real

\* A step that issues nothing: what is used afterwards was held or stored before.
LEMMA FreshFrame ==
  ASSUME AAPTypeOK, GenuineInv, FreshInv, UNCHANGED <<issuing, drawn>>,
         \A n \in Nat \ {0} : Absent(n) => Absent(n)',
         \A n \in Nat \ {0} : \A v \in Presentations :
           Holds(v, n)' => Holds(v, n) \/ ~Absent(n),
         \A n \in Nat \ {0} :
           \/ accepted'[n] = accepted[n]
           \/ n \in 1..Len(drawn) /\ \E v \in Presentations : Holds(v, n)
  PROVE  FreshInv'
<1>1. ASSUME NEW n \in Serials, n > Len(drawn) PROVE accepted'[n] = 0
  <2>1. accepted[n] = 0 /\ Len(drawn) \in Nat /\ n \in Nat \ {0}
    BY <1>1, FreshParts, AAPTypes DEF Serials
  <2> QED BY <1>1, <2>1
<1>2. ASSUME NEW g \in Issuances, issuing[g].pc = "set",
             NEW n, n = issuing[g].ch.nonce
      PROVE  Absent(n)' /\ accepted'[n] = 0 /\ \A v \in Presentations : ~Holds(v, n)'
  <2>1. FreshSerial(n)
    BY <1>2, FreshParts
  <2>2. Absent(n) /\ accepted[n] = 0 /\ \A v \in Presentations : ~Holds(v, n)
    BY <2>1 DEF FreshSerial
  <2>3. n \in Nat \ {0}
    BY <1>2, SetIsReal
  <2> QED BY <2>2, <2>3
<1>3. ASSUME NEW g \in Issuances, issuing[g].pc = "set", NEW h \in Issuances \ {g},
             issuing[h].pc = "set"
      PROVE  issuing[h].ch.nonce # issuing[g].ch.nonce
  BY <1>3, FreshParts
<1> QED BY <1>1, <1>2, <1>3, FreshPartsNext DEF FreshSerial

\* What OnceInv says of serial number n when presentation v holds it.
OnlyHolder(v, n) ==
  /\ accepted[n] = 0
  /\ verifying[v].pc = "check" => Absent(n)
  /\ \A w \in Presentations \ {v} : ~Holds(w, n)

Once(n) ==
  /\ accepted[n] <= 1
  /\ accepted[n] > 0 => Absent(n)
  /\ \A v \in Presentations : Holds(v, n) => OnlyHolder(v, n)

LEMMA OnceParts == OnceInv <=> \A n \in Serials \ excused : Once(n)
BY DEF OnceInv, Once, OnlyHolder

LEMMA OncePartsNext == OnceInv' <=> \A n \in Serials \ excused' : Once(n)'
BY DEF OnceInv, Once, OnlyHolder, Absent, Holds

\* A step that accepts nothing and stores nothing, and in which nobody comes to
\* hold a challenge.
LEMMA OnceFrame ==
  ASSUME OnceInv, excused \subseteq excused', NEW n \in Serials \ excused',
         accepted'[n] = accepted[n], Absent(n) => Absent(n)',
         \A v \in Presentations : Holds(v, n)' => verifying'[v] = verifying[v]
  PROVE  Once(n)'
<1>1. Once(n)
  BY OnceParts
<1>2. \A v \in Presentations : Holds(v, n)' => Holds(v, n)
  BY DEF Holds
<1>3. ASSUME NEW v \in Presentations, Holds(v, n)' PROVE OnlyHolder(v, n)'
  <2>1. OnlyHolder(v, n) /\ verifying'[v] = verifying[v]
    BY <1>1, <1>2, <1>3 DEF Once
  <2> QED BY <1>2, <2>1 DEF OnlyHolder
<1> QED BY <1>1, <1>3 DEF Once

\* What leaves the cache only makes challenges absent.
LEMMA StoreShrinks ==
  ASSUME \A i \in ChallengeIDs : store'[i] = store[i] \/ store'[i] = NoChallenge
  PROVE  \A n \in Nat \ {0} : Absent(n) => Absent(n)'
<1>1. NoChallenge.nonce = 0
  BY DEF NoChallenge
<1> QED BY <1>1 DEF Absent

\* Time passes, and the cache evicts.
LEMMA AAPTickStep ==
  ASSUME AAPInv, AAPTypeOK', AAPTick
  PROVE  AAPInv'
<1>0. AAPTypeOK /\ DrawnInv /\ GenuineInv /\ FreshInv /\ OnceInv
  BY DEF AAPInv
<1>1. /\ \A i \in ChallengeIDs : store'[i] = store[i] \/ store'[i] = NoChallenge
      /\ UNCHANGED <<drawn, issuing, handed, verifying, accepted, excused, proofs>>
  BY DEF AAPTick
<1>2. \A n \in Nat \ {0} : Absent(n) => Absent(n)'
  BY <1>1, StoreShrinks
<1>3. \A n \in Nat \ {0} : \A v \in Presentations : Holds(v, n)' => Holds(v, n)
  BY <1>1 DEF Holds
<1>4. DrawnInv'
  BY <1>0, <1>1, NoDraw
<1>5. GenuineInv'
  <2>1. PICK when \in When : Genuine(when)
    BY <1>0 DEF GenuineInv, When
  <2>2. \A n \in Serials : accepted[n] <= accepted'[n]
    BY <1>0, <1>1, AAPTypes
  <2> QED BY <1>0, <1>1, <2>1, <2>2, GenuineFrame
<1>6. FreshInv'
  BY <1>0, <1>1, <1>2, <1>3, FreshFrame
<1>7. OnceInv'
  <2> SUFFICES ASSUME NEW n \in Serials \ excused' PROVE Once(n)'
    BY OncePartsNext
  <2>1. n \in Nat \ {0}
    BY DEF Serials
  <2> QED BY <1>0, <1>1, <1>2, <2>1, OnceFrame
<1> QED BY <1>4, <1>5, <1>6, <1>7 DEF AAPInv

\* Verify as far as the parsing: nothing is held yet.
LEMMA VerifyBeginStep ==
  ASSUME AAPInv, AAPTypeOK', NEW v \in Presentations, VerifyBegin(v)
  PROVE  AAPInv'
<1>0. AAPTypeOK /\ DrawnInv /\ GenuineInv /\ FreshInv /\ OnceInv
  BY DEF AAPInv
<1>1. /\ verifying'[v].pc = "get" /\ verifying'[v].id \in ChallengeIDs
      /\ \/ verifying'[v].resp = Forged
         \/ \E c \in handed : c.ch.nonce = verifying'[v].resp.nonce
      /\ \A w \in Presentations : w # v => verifying'[w] = verifying[w]
      /\ UNCHANGED <<aapNow, store, drawn, issuing, handed, accepted, excused, proofs, aapFaults>>
  BY <1>0, AAPTypes DEF VerifyBegin, responsePayload, cliPayload
<1>2. \A n \in Nat \ {0} : Absent(n) => Absent(n)'
  BY <1>1 DEF Absent
<1>3. \A n \in Nat \ {0} : \A w \in Presentations :
        Holds(w, n)' => verifying'[w] = verifying[w] /\ Holds(w, n)
  BY <1>1 DEF Holds
<1>4. DrawnInv'
  BY <1>0, <1>1, NoDraw
<1>5. GenuineInv'
  <2>1. PICK when \in When : Genuine(when)
    BY <1>0 DEF GenuineInv, When
  <2>2. \A n \in Serials : accepted[n] <= accepted'[n]
    BY <1>0, <1>1, AAPTypes
  <2>3. Present(verifying'[v], handed, drawn, when)
    BY <1>1 DEF Present
  <2> QED BY <1>0, <1>1, <2>1, <2>2, <2>3, GenuineFrame
<1>6. FreshInv'
  BY <1>0, <1>1, <1>2, <1>3, FreshFrame
<1>7. OnceInv'
  <2> SUFFICES ASSUME NEW n \in Serials \ excused' PROVE Once(n)'
    BY OncePartsNext
  <2>1. n \in Nat \ {0}
    BY DEF Serials
  <2> QED BY <1>0, <1>1, <1>2, <1>3, <2>1, OnceFrame
<1> QED BY <1>4, <1>5, <1>6, <1>7 DEF AAPInv

\* Verify ends without a success.
LEMMA FinishStep ==
  ASSUME AAPInv, AAPTypeOK', NEW v \in Presentations,
         verifying' = [verifying EXCEPT ![v] = Finished],
         UNCHANGED <<store, drawn, issuing, handed, accepted, excused, proofs>>
  PROVE  AAPInv'
<1>0. AAPTypeOK /\ DrawnInv /\ GenuineInv /\ FreshInv /\ OnceInv
  BY DEF AAPInv
<1>1. verifying'[v] = Finished /\ \A w \in Presentations : w # v => verifying'[w] = verifying[w]
  BY <1>0, AAPTypes
<1>2. \A n \in Nat \ {0} : Absent(n) => Absent(n)'
  BY DEF Absent
<1>3. \A n \in Nat \ {0} : \A w \in Presentations :
        Holds(w, n)' => verifying'[w] = verifying[w] /\ Holds(w, n)
  BY <1>1, FinishedRecord DEF Holds
<1>4. DrawnInv'
  BY <1>0, NoDraw
<1>5. GenuineInv'
  <2>1. PICK when \in When : Genuine(when)
    BY <1>0 DEF GenuineInv, When
  <2>2. \A n \in Serials : accepted[n] <= accepted'[n]
    BY <1>0, AAPTypes
  <2>3. Present(verifying'[v], handed, drawn, when)
    BY <1>1, FinishedRecord DEF Present
  <2> QED BY <1>0, <1>1, <2>1, <2>2, <2>3, GenuineFrame
<1>6. FreshInv'
  BY <1>0, <1>2, <1>3, FreshFrame
<1>7. OnceInv'
  <2> SUFFICES ASSUME NEW n \in Serials \ excused' PROVE Once(n)'
    BY OncePartsNext
  <2>1. n \in Nat \ {0}
    BY DEF Serials
  <2> QED BY <1>0, <1>2, <1>3, <2>1, OnceFrame
<1> QED BY <1>4, <1>5, <1>6, <1>7 DEF AAPInv

\* LoadChallenge finds a challenge: unless another presentation has read it and
\* not deleted it yet, this one is its only holder.
LEMMA LoadHitStep ==
  ASSUME AAPInv, AAPTypeOK', NEW v \in Presentations, verifying[v].pc = "get",
         NEW i \in ChallengeIDs, i = verifying[v].id, store[i] # NoChallenge,
         verifying' = [verifying EXCEPT ![v].pc = "del", ![v].ch = store[i]],
         excused' = IF \E w \in Presentations \ {v} :
                         verifying[w].pc = "del" /\ verifying[w].ch.nonce = store[i].nonce
                    THEN excused \cup {store[i].nonce} ELSE excused,
         UNCHANGED <<store, drawn, issuing, handed, accepted, proofs>>
  PROVE  AAPInv'
<1>0. AAPTypeOK /\ DrawnInv /\ GenuineInv /\ FreshInv /\ OnceInv
  BY DEF AAPInv
<1>1. /\ verifying'[v].pc = "del" /\ verifying'[v].ch = store[i]
      /\ verifying'[v].id = i /\ verifying'[v].resp = verifying[v].resp
      /\ \A w \in Presentations : w # v => verifying'[w] = verifying[w]
  BY <1>0, AAPTypes DEF Verifying
<1>2. \A n : Absent(n)' <=> Absent(n)
  BY DEF Absent
<1>3. \A n \in Nat \ {0} : \A w \in Presentations :
        Holds(w, n)' => Holds(w, n) \/ ~Absent(n)
  BY <1>1 DEF Holds, Absent
<1>4. DrawnInv'
  BY <1>0, NoDraw
<1>5. GenuineInv'
  <2>1. PICK when \in When : Genuine(when)
    BY <1>0 DEF GenuineInv, When
  <2>2. \A n \in Serials : accepted[n] <= accepted'[n]
    BY <1>0, AAPTypes
  <2>3. Real(store[i], i, drawn, when)
    BY <2>1 DEF Genuine
  <2>4. Present(verifying'[v], handed, drawn, when)
    BY <1>1, <2>1, <2>3 DEF Present, Genuine
  <2> QED BY <1>0, <1>1, <2>1, <2>2, <2>4, GenuineFrame
<1>6. FreshInv'
  BY <1>0, <1>2, <1>3, FreshFrame
<1>7. OnceInv'
  <2> SUFFICES ASSUME NEW n \in Serials \ excused' PROVE Once(n)'
    BY OncePartsNext
  <2>1. n \in Nat \ {0} /\ excused \subseteq excused'
    BY DEF Serials
  <2>2. CASE n # store[i].nonce
    <3>1. \A w \in Presentations : Holds(w, n)' => verifying'[w] = verifying[w]
      BY <1>1, <2>2 DEF Holds
    <3> QED BY <1>0, <1>2, <2>1, <3>1, OnceFrame
  <2>3. CASE n = store[i].nonce
    <3>1. Once(n) /\ accepted[n] \in Nat
      BY <1>0, <2>1, OnceParts, AAPTypes
    <3>2. ~Absent(n)
      BY <2>3 DEF Absent
    <3>3. accepted[n] = 0
      BY <3>1, <3>2 DEF Once
    <3>4. \A w \in Presentations \ {v} : ~(verifying[w].pc = "del" /\ verifying[w].ch.nonce = n)
      BY <2>3
    <3>5. \A w \in Presentations \ {v} : ~Holds(w, n)
      BY <3>1, <3>2, <3>4 DEF Once, OnlyHolder, Holds
    <3>6. \A w \in Presentations \ {v} : ~Holds(w, n)'
      BY <1>1, <3>5 DEF Holds
    <3>7. OnlyHolder(v, n)'
      BY <1>1, <3>3, <3>6 DEF OnlyHolder
    <3> QED BY <3>3, <3>6, <3>7 DEF Once
  <2> QED BY <2>2, <2>3
<1> QED BY <1>4, <1>5, <1>6, <1>7 DEF AAPInv

\* LoadChallenge.
LEMMA LoadChallengeStep ==
  ASSUME AAPInv, AAPTypeOK', NEW v \in Presentations, LoadChallenge(v)
  PROVE  AAPInv'
<1>1. verifying[v].pc = "get" /\ verifying[v].id \in ChallengeIDs
  BY PresentedID DEF LoadChallenge, AAPInv
<1>2. CASE verifying' = [verifying EXCEPT ![v] = Finished] /\ UNCHANGED excused
  BY <1>2, FinishStep DEF LoadChallenge
<1>3. CASE ~(verifying' = [verifying EXCEPT ![v] = Finished] /\ UNCHANGED excused)
  <2> DEFINE i == verifying[v].id
  <2>1. /\ store[i] # NoChallenge
        /\ verifying' = [verifying EXCEPT ![v].pc = "del", ![v].ch = store[i]]
        /\ excused' = IF \E w \in Presentations \ {v} :
                           verifying[w].pc = "del" /\ verifying[w].ch.nonce = store[i].nonce
                      THEN excused \cup {store[i].nonce} ELSE excused
        /\ UNCHANGED <<store, drawn, issuing, handed, accepted, proofs>>
    BY <1>3 DEF LoadChallenge
  <2>2. i \in ChallengeIDs
    BY <1>1
  <2> QED BY <1>1, <2>1, <2>2, LoadHitStep
<1> QED BY <1>2, <1>3

\* The Del of ConsumeChallenge: it leaves no copy of the challenge it read, or
\* it failed and the challenge is excused.
LEMMA ConsumeStep ==
  ASSUME AAPInv, AAPTypeOK', NEW v \in Presentations, ConsumeChallenge(v)
  PROVE  AAPInv'
<1>0. AAPTypeOK /\ DrawnInv /\ GenuineInv /\ FreshInv /\ OnceInv
  BY DEF AAPInv
<1> DEFINE q == verifying[v]
           m == q.ch.nonce
<1>1. /\ q.pc = "del" /\ q.id \in ChallengeIDs
      /\ verifying'[v].pc = "check" /\ verifying'[v].ch = q.ch
      /\ verifying'[v].id = q.id /\ verifying'[v].resp = q.resp
      /\ \A w \in Presentations : w # v => verifying'[w] = verifying[w]
      /\ UNCHANGED <<drawn, issuing, handed, accepted, proofs>>
  <2>1. q.pc = "del" /\ verifying' = [verifying EXCEPT ![v].pc = "check"]
        /\ UNCHANGED <<drawn, issuing, handed, accepted, proofs>>
    BY DEF ConsumeChallenge
  <2>2. q.id \in ChallengeIDs
    BY <1>0, <2>1, PresentedID
  <2> QED BY <1>0, <2>1, <2>2, AAPTypes DEF Verifying
<1>2. \/ store' = [store EXCEPT ![q.id] = NoChallenge] /\ excused' = excused
      \/ store' = store /\ excused' = excused \cup {m}
  BY DEF ConsumeChallenge
<1>3. \A i \in ChallengeIDs : store'[i] = store[i] \/ store'[i] = NoChallenge
  BY <1>0, <1>2, AAPTypes
<1>4. \A n \in Nat \ {0} : Absent(n) => Absent(n)'
  BY <1>3, StoreShrinks
<1>5. \A n \in Nat \ {0} : \A w \in Presentations : Holds(w, n)' => Holds(w, n)
  BY <1>1 DEF Holds
<1>6. DrawnInv'
  BY <1>0, <1>1, NoDraw
<1>7. PICK when \in When : Genuine(when)
  BY <1>0 DEF GenuineInv, When
<1>8. Real(q.ch, q.id, drawn, when)
  BY <1>1, <1>7 DEF Genuine
<1>9. GenuineInv'
  <2>2. \A n \in Serials : accepted[n] <= accepted'[n]
    BY <1>0, <1>1, AAPTypes
  <2>4. Present(verifying'[v], handed, drawn, when)
    BY <1>1, <1>7, <1>8 DEF Present, Genuine
  <2> QED BY <1>0, <1>1, <1>3, <1>7, <2>2, <2>4, GenuineFrame
<1>10. FreshInv'
  BY <1>0, <1>1, <1>4, <1>5, FreshFrame
<1>11. OnceInv'
  <2> SUFFICES ASSUME NEW n \in Serials \ excused' PROVE Once(n)'
    BY OncePartsNext
  <2>1. n \in Nat \ {0} /\ excused \subseteq excused'
    BY <1>2 DEF Serials
  <2>2. CASE n # m
    <3>1. \A w \in Presentations : Holds(w, n)' => verifying'[w] = verifying[w]
      BY <1>1, <2>2 DEF Holds
    <3> QED BY <1>0, <1>1, <1>4, <2>1, <3>1, OnceFrame
  <2>3. CASE n = m
    <3>1. Holds(v, n) /\ Once(n)
      BY <1>0, <1>1, <2>1, <2>3, OnceParts DEF Holds
    <3>2. OnlyHolder(v, n)
      BY <3>1 DEF Once
    <3>3. store' = [store EXCEPT ![q.id] = NoChallenge]
      BY <1>2, <2>3
    <3>4. Absent(n)'
      <4> SUFFICES ASSUME NEW i \in ChallengeIDs PROVE store'[i].nonce # n
        BY DEF Absent
      <4>1. CASE i = q.id
        BY <4>1, <3>3, <2>1, <1>0, AAPTypes DEF NoChallenge
      <4>2. CASE i # q.id
        <5>1. store'[i] = store[i]
          BY <4>2, <3>3, <1>0, AAPTypes
        <5>2. store[i] = NoChallenge \/ Real(store[i], i, drawn, when)
          BY <1>7 DEF Genuine
        <5> QED BY <5>1, <5>2, <4>2, <2>1, <2>3, <1>8 DEF Real, NoChallenge
      <4> QED BY <4>1, <4>2
    <3>5. \A w \in Presentations \ {v} : ~Holds(w, n)'
      BY <1>5, <2>1, <3>2 DEF OnlyHolder
    <3>6. OnlyHolder(v, n)' /\ accepted'[n] = 0
      BY <1>1, <3>2, <3>4, <3>5 DEF OnlyHolder
    <3> QED BY <3>4, <3>5, <3>6 DEF Once
  <2> QED BY <2>2, <2>3
<1> QED BY <1>6, <1>9, <1>10, <1>11 DEF AAPInv

\* The end of Verify: a success uses the challenge up.
LEMMA VerifyEndStep ==
  ASSUME AAPInv, AAPTypeOK', NEW v \in Presentations, VerifyEnd(v)
  PROVE  AAPInv'
<1>0. AAPTypeOK /\ DrawnInv /\ GenuineInv /\ FreshInv /\ OnceInv
  BY DEF AAPInv
<1> DEFINE q == verifying[v]
           m == q.ch.nonce
<1>1. CASE ~VerifyAccepts(q)
  BY <1>1, FinishStep DEF VerifyEnd
<1>2. CASE VerifyAccepts(q)
  <2>1. /\ q.pc = "check"
        /\ accepted' = [accepted EXCEPT ![m] = @ + 1]
        /\ proofs' = proofs \cup {Sign(q.uuid, m, q.at, aapNow)}
        /\ verifying' = [verifying EXCEPT ![v] = Finished]
        /\ UNCHANGED <<aapNow, store, drawn, issuing, handed, excused, aapFaults>>
    BY <1>2 DEF VerifyEnd
  <2>2. verifying'[v] = Finished /\ \A w \in Presentations : w # v => verifying'[w] = verifying[w]
    BY <1>0, <2>1, AAPTypes
  <2>3. PICK when \in When : Genuine(when)
    BY <1>0 DEF GenuineInv, When
  <2>4. Real(q.ch, q.id, drawn, when)
    BY <2>1, <2>3 DEF Genuine
  <2>5. m \in 1..Len(drawn) /\ m \in Serials /\ m \in Nat \ {0}
    <3>1. m \in 1..Len(drawn)
      BY <2>4 DEF Real
    <3> QED BY <1>0, <3>1, SerialBound DEF Serials
  <2>6. /\ accepted'[m] = accepted[m] + 1 /\ accepted[m] \in Nat
        /\ \A n \in Serials : n # m => accepted'[n] = accepted[n]
        /\ \A n : n # m => accepted'[n] = accepted[n]
    BY <1>0, <2>1, <2>5, AAPTypes
  <2>7. \A n : Absent(n)' <=> Absent(n)
    BY <2>1 DEF Absent
  <2>8. \A n \in Nat \ {0} : \A w \in Presentations :
          Holds(w, n)' => verifying'[w] = verifying[w] /\ Holds(w, n) /\ w # v
    BY <2>2, FinishedRecord DEF Holds
  <2>9. Holds(v, m)
    BY <2>1 DEF Holds
  <2>10. DrawnInv'
    BY <1>0, <2>1, NoDraw
  <2>11. GenuineInv'
    <3>1. \A n \in Serials : accepted[n] <= accepted'[n]
      BY <1>0, <2>6, AAPTypes
    <3>2. Present(verifying'[v], handed, drawn, when)
      BY <2>2, FinishedRecord DEF Present
    <3>3. ASSUME NEW p \in proofs' \ proofs PROVE Earned(p, when)'
      <4>1. p = Sign(q.uuid, m, q.at, aapNow)
        BY <2>1
      <4>2. p.jti = m /\ p.answered = q.at /\ p.signed = aapNow
            /\ p.exp = Unix(aapNow + ProofTTL)
        BY <4>1 DEF Sign
      <4>3. accepted'[m] > 0
        BY <2>6
      <4>4. q.resp.nonce = m /\ q.resp # Forged
        <5>1. q.resp = [nonce |-> m, issued |-> q.ch.issued, uuid |-> q.uuid]
          BY <1>2 DEF VerifyAccepts
        <5>2. q.resp.nonce = m
          BY <5>1
        <5>3. Forged.nonce = 0
          BY DEF Forged
        <5> QED BY <5>2, <5>3, <2>5
      <4>5. \E c \in handed : c.ch.nonce = m
        BY <2>3, <4>4 DEF Genuine
      <4>6. q.at < when[m] + ChallengeTTL
        BY <1>2, <2>4 DEF VerifyAccepts, Real
      <4> QED BY <2>1, <2>5, <4>2, <4>3, <4>5, <4>6 DEF Earned, Unix
    <3> QED BY <1>0, <2>1, <2>2, <2>3, <3>1, <3>2, <3>3, GenuineFrame
  <2>12. FreshInv'
    <3>1. \A n \in Nat \ {0} :
            \/ accepted'[n] = accepted[n]
            \/ n \in 1..Len(drawn) /\ \E w \in Presentations : Holds(w, n)
      BY <2>5, <2>6, <2>9
    <3> QED BY <1>0, <2>1, <2>7, <2>8, <3>1, FreshFrame
  <2>13. OnceInv'
    <3> SUFFICES ASSUME NEW n \in Serials \ excused' PROVE Once(n)'
      BY OncePartsNext
    <3>1. n \in Nat \ {0} /\ excused \subseteq excused'
      BY <2>1 DEF Serials
    <3>2. CASE n # m
      BY <1>0, <2>6, <2>7, <2>8, <3>1, <3>2, OnceFrame
    <3>3. CASE n = m
      <4>1. Once(n)
        BY <1>0, <3>1, OnceParts
      <4>2. OnlyHolder(v, n)
        BY <2>9, <3>3, <4>1 DEF Once
      <4>3. accepted'[n] = 1 /\ Absent(n)'
        BY <2>1, <2>6, <2>7, <3>3, <4>2 DEF OnlyHolder
      <4>4. \A w \in Presentations : ~Holds(w, n)'
        BY <2>8, <3>1, <4>2 DEF OnlyHolder
      <4> QED BY <4>3, <4>4 DEF Once
    <3> QED BY <3>2, <3>3
  <2> QED BY <2>10, <2>11, <2>12, <2>13 DEF AAPInv
<1> QED BY <1>1, <1>2

\* Generate and GenerateWithID draw a nonce nobody has.
LEMMA DrawStep ==
  ASSUME AAPInv, AAPTypeOK', NEW g \in Issuances, NEW i \in ChallengeIDs,
         issuing[g].pc = "idle", Draw(g, i)
  PROVE  AAPInv'
<1>0. AAPTypeOK /\ DrawnInv /\ GenuineInv /\ FreshInv /\ OnceInv
  BY DEF AAPInv
<1> DEFINE m == Len(drawn) + 1
<1>1. /\ DrawnInv' /\ Len(drawn') = m /\ m \in Serials
  BY <1>0, DrawSerial
<1>2. /\ drawn' = Append(drawn, i) /\ drawn \in Seq(ChallengeIDs) /\ Len(drawn) \in Nat
      /\ aapNow \in 0..AAPMaxClock
      /\ UNCHANGED <<aapNow, store, handed, verifying, accepted, excused, proofs>>
  BY <1>0, AAPTypes DEF Draw
<1>3. /\ issuing'[g].pc = "set" /\ issuing'[g].id = i
      /\ issuing'[g].ch.nonce = m /\ issuing'[g].ch.issued = aapNow
      /\ issuing'[g].ch.expires = aapNow + ChallengeTTL
      /\ \A h \in Issuances : h # g => issuing'[h] = issuing[h]
  BY <1>0, <1>1, AAPTypes DEF Draw
<1>4. PICK when \in When : Genuine(when)
  BY <1>0 DEF GenuineInv, When
<1>w. PICK when2 \in When : when2 = [when EXCEPT ![m] = aapNow]
  BY <1>1, <1>2 DEF When
<1>5. when2[m] = aapNow /\ \A n \in Serials : n # m => when2[n] = when[n]
  BY <1>w, <1>1, <1>2 DEF When
<1>6. ASSUME NEW c, NEW j, Real(c, j, drawn, when) PROVE Real(c, j, drawn', when2)
  BY <1>1, <1>2, <1>6, <1>w, RealDraw
<1>7. GenuineInv'
  <2>1. Real(issuing'[g].ch, issuing'[g].id, drawn', when2)
    <3>1. m \in 1..Len(drawn') /\ drawn'[m] = i
      BY <1>1, <1>2
    <3> QED BY <1>3, <1>5, <3>1 DEF Real
  <2>2. \A j \in ChallengeIDs : store'[j] = NoChallenge \/ Real(store'[j], j, drawn', when2)
    BY <1>2, <1>4, <1>6 DEF Genuine
  <2>3. \A h \in Issuances :
          issuing'[h].pc = "set" => Real(issuing'[h].ch, issuing'[h].id, drawn', when2)
    BY <1>3, <1>4, <1>6, <2>1 DEF Genuine
  <2>4. \A c \in handed' : Real(c.ch, c.id, drawn', when2)
    BY <1>2, <1>4, <1>6 DEF Genuine
  <2>5. ASSUME NEW v \in Presentations PROVE Present(verifying'[v], handed', drawn', when2)
    <3>1. Present(verifying[v], handed, drawn, when)
      BY <1>4 DEF Genuine, Present
    <3> QED BY <1>2, <1>6, <3>1 DEF Present
  <2>6. ASSUME NEW p \in proofs' PROVE Earned(p, when2)'
    <3>1. Earned(p, when)
      BY <1>2, <1>4 DEF Genuine
    <3>2. PICK c \in handed : c.ch.nonce = p.jti
      BY <3>1 DEF Earned
    <3>3. Real(c.ch, c.id, drawn, when)
      BY <1>4 DEF Genuine
    <3>4. p.jti # m
      BY <1>2, <3>2, <3>3 DEF Real
    <3> QED BY <1>2, <1>5, <3>1, <3>4 DEF Earned, Unix
  <2>7. Genuine(when2)'
    BY <2>2, <2>3, <2>4, <2>5, <2>6 DEF Genuine, Present
  <2> QED BY <2>7 DEF GenuineInv, When
<1>8. \A n : (Absent(n)' <=> Absent(n)) /\ \A v \in Presentations : Holds(v, n)' <=> Holds(v, n)
  BY <1>2 DEF Absent, Holds
<1>9. FreshSerial(m)
  <2>1. Absent(m)
    <3> SUFFICES ASSUME NEW j \in ChallengeIDs PROVE store[j].nonce # m
      BY DEF Absent
    <3>1. store[j] = NoChallenge \/ Real(store[j], j, drawn, when)
      BY <1>4 DEF Genuine
    <3> QED BY <1>2, <3>1 DEF Real, NoChallenge
  <2>2. accepted[m] = 0
    BY <1>0, <1>1, <1>2, FreshParts
  <2>3. ASSUME NEW v \in Presentations PROVE ~Holds(v, m)
    <3>1. verifying[v].pc \in {"del", "check"} => Real(verifying[v].ch, verifying[v].id, drawn, when)
      BY <1>4 DEF Genuine
    <3> QED BY <1>2, <3>1 DEF Real, Holds
  <2> QED BY <2>1, <2>2, <2>3 DEF FreshSerial
<1>10. FreshInv'
  <2>1. \A n \in Serials : n > Len(drawn') => accepted'[n] = 0
    <3> SUFFICES ASSUME NEW n \in Serials, n > m PROVE accepted[n] = 0
      BY <1>1, <1>2
    <3>1. n > Len(drawn)
      BY <1>2 DEF Serials
    <3> QED BY <1>0, <3>1, FreshParts
  <2>2. ASSUME NEW h \in Issuances, issuing'[h].pc = "set", NEW n, n = issuing'[h].ch.nonce
        PROVE  FreshSerial(n)'
    <3>1. FreshSerial(n)
      BY <1>0, <1>3, <1>9, <2>2, FreshParts
    <3> QED BY <1>2, <1>8, <3>1 DEF FreshSerial
  <2>3. ASSUME NEW h \in Issuances, issuing'[h].pc = "set",
               NEW k \in Issuances \ {h}, issuing'[k].pc = "set"
        PROVE  issuing'[k].ch.nonce # issuing'[h].ch.nonce
    <3>1. ASSUME NEW z \in Issuances, z # g, issuing'[z].pc = "set"
          PROVE  issuing'[z].ch.nonce # m
      <4>1. issuing[z].ch.nonce \in 1..Len(drawn) /\ issuing'[z] = issuing[z]
        BY <1>0, <1>3, <3>1, SetIsReal
      <4> QED BY <1>2, <4>1
    <3>2. CASE h = g \/ k = g
      BY <1>3, <2>3, <3>1, <3>2
    <3>3. CASE h # g /\ k # g
      BY <1>0, <1>3, <2>3, <3>3, FreshParts
    <3> QED BY <3>2, <3>3
  <2> QED BY <2>1, <2>2, <2>3, FreshPartsNext
<1>11. OnceInv'
  <2> SUFFICES ASSUME NEW n \in Serials \ excused' PROVE Once(n)'
    BY OncePartsNext
  <2> QED BY <1>0, <1>2, <1>8, OnceFrame
<1> QED BY <1>1, <1>7, <1>10, <1>11 DEF AAPInv

\* storeChallenge, whether Set succeeds, fails, or fails after it took effect.
LEMMA StoreStep ==
  ASSUME AAPInv, AAPTypeOK', NEW g \in Issuances, storeChallenge(g)
  PROVE  AAPInv'
<1>0. AAPTypeOK /\ DrawnInv /\ GenuineInv /\ FreshInv /\ OnceInv
  BY DEF AAPInv
<1> DEFINE q == issuing[g]
           m == q.ch.nonce
           c == [encodeChallenge(q.ch) EXCEPT !.evict = aapNow + ChallengeTTL]
<1>1. /\ q.pc = "set"
      /\ store' = store \/ store' = [store EXCEPT ![q.id] = c]
      /\ handed' = handed \/ handed' = handed \cup {[id |-> q.id, ch |-> q.ch]}
      /\ issuing' = [issuing EXCEPT ![g] = [NotIssuing EXCEPT !.pc = "done"]]
      /\ UNCHANGED <<drawn, verifying, accepted, excused, proofs>>
  BY DEF storeChallenge
<1>2. m \in Nat \ {0} /\ m \in 1..Len(drawn) /\ q.id \in ChallengeIDs /\ q.ch \in ChallengeRecord
  BY <1>0, <1>1, SetIsReal
<1>3. c.nonce = m /\ c.issued = q.ch.issued /\ c.expires = q.ch.expires
  <2>1. encodeChallenge(q.ch) = q.ch
    BY <1>2, EncodeExact
  <2> QED BY <1>2, <2>1 DEF ChallengeRecord
<1> HIDE DEF c
<1>4. PICK when \in When : Genuine(when)
  BY <1>0 DEF GenuineInv, When
<1>5. Real(q.ch, q.id, drawn, when) /\ Real(c, q.id, drawn, when)
  BY <1>1, <1>3, <1>4 DEF Genuine, Real
<1>6. \A i \in ChallengeIDs : store'[i] = store[i] \/ (i = q.id /\ store'[i] = c)
  BY <1>0, <1>1, AAPTypes
<1>7. /\ issuing'[g].pc = "done"
      /\ \A h \in Issuances : h # g => issuing'[h] = issuing[h]
  BY <1>0, <1>1, AAPTypes, FinishedRecord
<1>8. DrawnInv'
  BY <1>0, <1>1, <1>7, NoDraw
<1>9. GenuineInv'
  <2>1. \A n \in Serials : accepted[n] <= accepted'[n]
    BY <1>0, <1>1, AAPTypes
  <2>2. \A i \in ChallengeIDs :
          store'[i] = store[i] \/ store'[i] = NoChallenge \/ Real(store'[i], i, drawn, when)
    BY <1>5, <1>6
  <2>3. \A d \in handed' \ handed : Real(d.ch, d.id, drawn, when)
    BY <1>1, <1>5
  <2>4. \A h \in Issuances : issuing'[h].pc = "set" => issuing'[h] = issuing[h]
    BY <1>7
  <2>5. handed \subseteq handed'
    BY <1>1
  <2> QED BY <1>0, <1>1, <1>4, <2>1, <2>2, <2>3, <2>4, <2>5, GenuineFrame
<1>10. \A n : n # m => (Absent(n) => Absent(n)')
  BY <1>3, <1>6 DEF Absent
<1>11. \A n : \A v \in Presentations : Holds(v, n)' <=> Holds(v, n)
  BY <1>1 DEF Holds
<1>12. FreshInv'
  <2>1. \A n \in Serials : n > Len(drawn') => accepted'[n] = 0
    BY <1>0, <1>1, FreshParts
  <2>2. ASSUME NEW h \in Issuances, issuing'[h].pc = "set", NEW n, n = issuing'[h].ch.nonce
        PROVE  FreshSerial(n)'
    <3>1. h # g /\ issuing'[h] = issuing[h]
      BY <1>7, <2>2
    <3>2. FreshSerial(n) /\ n # m
      BY <1>0, <1>1, <2>2, <3>1, FreshParts
    <3> QED BY <1>1, <1>10, <1>11, <3>2 DEF FreshSerial
  <2>3. ASSUME NEW h \in Issuances, issuing'[h].pc = "set",
               NEW k \in Issuances \ {h}, issuing'[k].pc = "set"
        PROVE  issuing'[k].ch.nonce # issuing'[h].ch.nonce
    BY <1>0, <1>7, <2>3, FreshParts
  <2> QED BY <2>1, <2>2, <2>3, FreshPartsNext
<1>13. OnceInv'
  <2> SUFFICES ASSUME NEW n \in Serials \ excused' PROVE Once(n)'
    BY OncePartsNext
  <2>1. CASE n # m
    BY <1>0, <1>1, <1>10, <2>1, OnceFrame
  <2>2. CASE n = m
    <3>1. FreshSerial(n)
      BY <1>0, <1>1, <2>2, FreshParts
    <3>2. accepted'[n] = 0 /\ \A v \in Presentations : ~Holds(v, n)'
      BY <1>1, <1>11, <3>1 DEF FreshSerial
    <3> QED BY <3>2 DEF Once
  <2> QED BY <2>1, <2>2
<1> QED BY <1>8, <1>9, <1>12, <1>13 DEF AAPInv

\* The inductive invariant of the handshake holds in every state.
THEOREM AAPInvariant == AAPSpec => []AAPInv
<1>1. AAPInit => AAPInv
  <2> SUFFICES ASSUME AAPInit PROVE AAPInv
    OBVIOUS
  <2>0. /\ AAPMaxClock \in Nat /\ AAPMaxFaults \in Nat
        /\ Cardinality(Issuances) \in Nat
    BY AAPTimesAssumption, AAPCallsAssumption, FS_CardinalityType
  <2>1. AAPTypeOK
    BY <2>0, AAPTypes, RecordTypes DEF AAPInit, Serials
  <2>2. DrawnInv
    <3>1. {g \in Issuances : issuing[g].pc # "idle"} = {}
      BY DEF AAPInit, NotIssuing
    <3> QED BY <3>1, FS_EmptySet DEF DrawnInv, AAPInit
  <2>3. GenuineInv
    <3>1. [n \in Serials |-> 0] \in When
      BY <2>0 DEF When
    <3>2. PICK when \in When : TRUE
      BY <3>1
    <3>3. Genuine(when)
      BY DEF Genuine, AAPInit, NotIssuing, NotVerifying
    <3> QED BY <3>3 DEF GenuineInv, When
  <2>4. FreshInv
    BY DEF FreshInv, AAPInit, NotIssuing, Serials
  <2>5. OnceInv
    BY DEF OnceInv, AAPInit, NotVerifying, Holds, Serials
  <2> QED BY <2>1, <2>2, <2>3, <2>4, <2>5 DEF AAPInv
<1>2. AAPInv /\ [AAPNext]_aapVars => AAPInv'
  <2> SUFFICES ASSUME AAPInv, [AAPNext]_aapVars PROVE AAPInv'
    OBVIOUS
  <2>1. CASE UNCHANGED aapVars
    <3>0. /\ UNCHANGED <<aapNow, store, drawn, issuing, handed, verifying, accepted, excused, proofs,
                         aapFaults>>
          /\ AAPTypeOK /\ DrawnInv /\ GenuineInv /\ FreshInv /\ OnceInv
      BY <2>1 DEF aapVars, AAPInv
    <3>1. AAPTypeOK'
      BY <3>0, AAPTypes, AAPTypesNext
    <3>2. DrawnInv'
      BY <3>0, NoDraw
    <3>3. GenuineInv'
      BY <3>0 DEF GenuineInv, Genuine, Earned, Unix
    <3>4. FreshInv'
      BY <3>0 DEF FreshInv, Absent, Holds
    <3>5. OnceInv'
      BY <3>0 DEF OnceInv, Absent, Holds
    <3> QED BY <3>1, <3>2, <3>3, <3>4, <3>5 DEF AAPInv
  <2>2. CASE AAPNext
    <3>1. AAPTypeOK'
      BY <2>2, AAPTypeStep DEF AAPInv
    <3>2. ASSUME NEW g \in Issuances, Generate(g) \/ GenerateWithID(g) PROVE AAPInv'
      BY <3>1, <3>2, DrawStep DEF Generate, GenerateWithID
    <3> QED BY <2>2, <3>1, <3>2, AAPTickStep, StoreStep, VerifyBeginStep, LoadChallengeStep,
              ConsumeStep, VerifyEndStep DEF AAPNext
  <2> QED BY <2>1, <2>2
<1> QED BY <1>1, <1>2, PTL DEF AAPSpec

\* A challenge is accepted a second time only when two presentations read it
\* before either deleted it, or its Del failed.
THEOREM AcceptedOnceTheorem == AAPSpec => []AcceptedOnce
<1>1. AAPInv => AcceptedOnce
  <2> SUFFICES ASSUME AAPInv, NEW n \in DOMAIN accepted, n \notin excused
               PROVE  accepted[n] <= 1
    BY DEF AcceptedOnce
  <2>1. n \in Serials
    BY AAPTypes DEF AAPInv
  <2> QED BY <2>1 DEF AAPInv, OnceInv
<1> QED BY <1>1, AAPInvariant, PTL

\* A proof the middleware makes a user of rests on a handshake, its two forms
\* agree, and a good answer is refused only for cause.
THEOREM EarnedTheorem == AAPSpec => []ProofsAreEarned
<1>1. ASSUME AAPInv PROVE ProofsAreEarned
  <2>0. /\ AAPTypeOK /\ aapNow \in Nat /\ ProofTTL \in Nat /\ ChallengeTTL \in Nat
        /\ ResponseMaxTTL \in Nat
    BY <1>1, AAPTimesAssumption DEF AAPInv, AAPTypeOK
  <2>1. PICK when \in When : Genuine(when)
    BY <1>1 DEF AAPInv, GenuineInv, When
  <2>2. ASSUME NEW p \in proofs
        PROVE  /\ Earned(p, when) /\ p.signed \in Nat
               /\ ProofVerifies(p, aapNow) => aapNow < p.signed + ProofTTL
               /\ aapNow + 2 <= p.signed + ProofTTL => ProofVerifies(p, aapNow)
    <3>1. Earned(p, when) /\ p.signed \in Nat
      BY <2>0, <2>1, AAPTypes DEF Genuine
    <3>2. p.exp = Unix(p.signed + ProofTTL) /\ p.signed + ProofTTL \in Nat
      BY <2>0, <3>1 DEF Earned
    <3> QED BY <2>0, <3>1, <3>2, UnixOrder DEF ProofVerifies
  <2>3. ProofRestsOnHandshake
    <3> SUFFICES ASSUME NEW p \in proofs,
                        NEW req \in [skipped : BOOLEAN, tls : BOOLEAN, forwardedHTTPS : BOOLEAN],
                        Wrap([requireHTTPS |-> TRUE], req, p, aapNow) = "user"
                 PROVE  \E c \in handed :
                          /\ p.jti = c.ch.nonce /\ accepted[p.jti] > 0
                          /\ p.answered < c.ch.issued + ChallengeTTL
                          /\ aapNow < p.signed + ProofTTL
      BY DEF ProofRestsOnHandshake
    <3>1. ProofVerifies(p, aapNow)
      BY DEF Wrap
    <3>2. Earned(p, when) /\ aapNow < p.signed + ProofTTL
      BY <2>2, <3>1
    <3>3. PICK c \in handed : c.ch.nonce = p.jti
      BY <3>2 DEF Earned
    <3>4. Real(c.ch, c.id, drawn, when)
      BY <2>1 DEF Genuine
    <3>5. c.ch.issued = when[p.jti]
      BY <3>3, <3>4 DEF Real
    <3> QED BY <3>2, <3>3, <3>5 DEF Earned
  <2>4. ProofFormsAgree
    <3> SUFFICES ASSUME NEW p \in proofs
                 PROVE  /\ ProofVerifies(p, aapNow) => aapNow < p.signed + ProofTTL
                        /\ aapNow < p.signed + ProofTTL =>
                             aapNow + 2 > p.signed + ProofTTL \/ ProofVerifies(p, aapNow)
      BY DEF ProofFormsAgree, VerifyProof
    <3> QED BY <2>0, <2>2
  <2>5. GoodAnswerAccepted
    <3> SUFFICES ASSUME NEW v \in Presentations, NEW c \in handed,
                        NEW q, q = verifying[v], q.pc = "check", c.id = q.id,
                        q.resp = responsePayload(c, q.uuid),
                        q.at < c.ch.issued + ChallengeTTL, ChallengeTTL <= ResponseMaxTTL,
                        \A n \in DOMAIN drawn : drawn[n] = c.id => n = c.ch.nonce
                 PROVE  VerifyAccepts(q)
      BY DEF GoodAnswerAccepted
    <3>1. Real(q.ch, q.id, drawn, when) /\ Real(c.ch, c.id, drawn, when)
      BY <2>1 DEF Genuine
    <3>2. DOMAIN drawn = 1..Len(drawn)
      BY <2>0, AAPTypes
    <3>3. q.ch.nonce = c.ch.nonce
      BY <3>1, <3>2 DEF Real
    <3>4. q.ch.issued = c.ch.issued /\ q.ch.expires = q.ch.issued + ChallengeTTL
      BY <3>1, <3>3 DEF Real
    <3>5. q.at \in Nat /\ c.ch.issued \in Nat
      BY <2>0, AAPTypes DEF Verifying, ChallengeRecord
    <3>6. q.at < q.ch.expires /\ ~(q.at > q.ch.issued + ResponseMaxTTL)
      BY <2>0, <3>4, <3>5
    <3> QED BY <3>3, <3>4, <3>6 DEF VerifyAccepts, responsePayload
  <2> QED BY <2>3, <2>4, <2>5 DEF ProofsAreEarned
<1> QED BY <1>1, AAPInvariant, PTL

-----------------------------------------------------------------------------
(* RateLimiters. *)

\* The window of a second: a bucket, growing with the time, and Window seconds long.
LEMMA WindowOf ==
  ASSUME NEW t \in 0..RLMaxClock
  PROVE  /\ t \div Window \in Bucket
         /\ t % Window \in 0..(Window - 1)
         /\ t = (t \div Window) * Window + (t % Window)
         /\ \A u \in 0..RLMaxClock : u <= t => u \div Window <= t \div Window
<1>1. ASSUME NEW x \in Nat, NEW y \in Nat, x <= y, NEW W \in Nat \ {0}
      PROVE  /\ x \div W \in Nat /\ x % W \in 0..(W - 1) /\ x = (x \div W) * W + (x % W)
             /\ x \div W <= y \div W
  <2>1. x \div W \in Nat /\ x % W \in 0..(W - 1) /\ x = (x \div W) * W + (x % W)
    OBVIOUS
  <2>2. y \div W \in Nat /\ y % W \in 0..(W - 1) /\ y = (y \div W) * W + (y % W)
    OBVIOUS
  <2>3. x \div W <= y \div W
    BY <1>1, <2>1, <2>2, SMTT(30)
  <2> QED BY <2>1, <2>3
<1> QED BY <1>1, LimiterAssumption, RLBoundsAssumption DEF Bucket

Request == [at : 0..RLMaxClock, n : Nat]

\* The requests of a log in the window of bucket b.
At(log, b) == {i \in DOMAIN log : log[i].at \div Window = b}

\* They are finitely many, and one more when a request of b is appended.
LEMMA AtAppend ==
  ASSUME NEW log \in Seq(Request), NEW a \in Request, NEW b \in Int
  PROVE  /\ IsFiniteSet(At(log, b)) /\ Cardinality(At(log, b)) \in Nat
         /\ At(Append(log, a), b) =
              IF a.at \div Window = b THEN At(log, b) \cup {Len(log) + 1} ELSE At(log, b)
         /\ Cardinality(At(Append(log, a), b)) =
              IF a.at \div Window = b THEN Cardinality(At(log, b)) + 1 ELSE Cardinality(At(log, b))
<1> DEFINE S == At(log, b)  T == At(Append(log, a), b)
<1>1. IsFiniteSet(S) /\ Cardinality(S) \in Nat
  <2>1. IsFiniteSet(1..Len(log)) /\ S \subseteq 1..Len(log)
    BY FS_Interval DEF At
  <2> QED BY <2>1, FS_Subset, FS_CardinalityType
<1>2. DOMAIN Append(log, a) = DOMAIN log \cup {Len(log) + 1} /\ Len(log) + 1 \notin DOMAIN log
  OBVIOUS
<1>3. /\ \A i \in DOMAIN log : Append(log, a)[i] = log[i]
      /\ Append(log, a)[Len(log) + 1] = a
  OBVIOUS
<1>4. T = IF a.at \div Window = b THEN S \cup {Len(log) + 1} ELSE S
  BY <1>2, <1>3 DEF At
<1>5. Len(log) + 1 \notin S
  BY <1>2 DEF At
<1> QED BY <1>1, <1>4, <1>5, FS_AddElement

\* Requests that drew different counts of 1..m are at most m.
LEMMA Distinct ==
  ASSUME NEW log \in Seq(Request), NEW S \in SUBSET DOMAIN log, NEW m \in Nat,
         \A i \in S : log[i].n \in 1..m /\ \A j \in S \ {i} : log[j].n # log[i].n
  PROVE  IsFiniteSet(S) /\ Cardinality(S) <= m
<1> DEFINE f == [i \in S |-> log[i].n]
<1>1. f \in Injection(S, 1..m)
  BY DEF Injection, IsInjective
<1>2. IsFiniteSet(1..m) /\ Cardinality(1..m) = m
  BY FS_Interval
<1> HIDE DEF f
<1> QED BY <1>1, <1>2, FS_Injection

\* What Incr and its failures do to a bucket.
LEMMA IncrType ==
  ASSUME RLTypeOK, NEW k \in Bucket
  PROVE  /\ Incr(k) \in [Bucket -> [n : Nat, exp : Nat]]
         /\ Interrupted(k) \subseteq [Bucket -> [n : Nat, exp : Nat]]
         /\ Incr(k)[k].n = counters[k].n + 1
         /\ \A c \in Interrupted(k) \cup {Incr(k)} : \A b \in Bucket :
              /\ c[b].n >= counters[b].n
              /\ c[b].exp = counters[b].exp \/ (b = k /\ c[b].exp = rlNow + ttl)
<1>1. counters \in [Bucket -> [n : Nat, exp : Nat]] /\ rlNow \in Nat /\ ttl \in Nat
  BY LimiterAssumption, RLBoundsAssumption DEF RLTypeOK, ttl
<1>2. Incr(k) \in [Bucket -> [n : Nat, exp : Nat]] /\ Incr(k)[k].n = counters[k].n + 1
  BY <1>1 DEF Incr
<1>3. [counters EXCEPT ![k].n = @ + 1] \in [Bucket -> [n : Nat, exp : Nat]]
  BY <1>1
<1>4. \A c \in Interrupted(k) \cup {Incr(k)} : \A b \in Bucket :
        /\ c[b].n >= counters[b].n
        /\ c[b].exp = counters[b].exp \/ (b = k /\ c[b].exp = rlNow + ttl)
  BY <1>1 DEF Interrupted, Incr
<1> QED BY <1>1, <1>2, <1>3, <1>4 DEF Interrupted

\* It holds at the start.
LEMMA RLTypeInit == RLInit => RLTypeOK
<1> SUFFICES ASSUME RLInit PROVE RLTypeOK
  OBVIOUS
<1>1. 0 \in Bucket /\ 0 \in 0..RLMaxClock
  BY WindowOf, RLBoundsAssumption, LimiterAssumption DEF Bucket
<1>2. /\ counters \in [Bucket -> [n : Nat, exp : Nat]]
      /\ asking \in [Callers -> [pc : {"idle", "incr", "get"}, key : Bucket, at : 0..RLMaxClock, n : Nat]]
  BY <1>1 DEF RLInit, Missing, NotAsking
<1> QED BY <1>1, <1>2 DEF RLInit, RLTypeOK

\* Every step keeps the limiters' type invariant.
LEMMA RLTypeNext == RLTypeOK /\ [RLNext]_rlVars => RLTypeOK'
<1> SUFFICES ASSUME RLTypeOK, [RLNext]_rlVars PROVE RLTypeOK'
  OBVIOUS
<1> DEFINE Asking == [pc : {"idle", "incr", "get"}, key : Bucket, at : 0..RLMaxClock, n : Nat]
<1>0. /\ NotAsking \in Asking /\ Missing \in [n : Nat, exp : Nat] /\ 0 \in Bucket
      /\ LimiterAssumption /\ RLBoundsAssumption
  <2>1. 0 \in Bucket /\ 0 \in 0..RLMaxClock
    BY WindowOf, RLBoundsAssumption, LimiterAssumption DEF Bucket
  <2> QED BY <2>1, LimiterAssumption, RLBoundsAssumption DEF NotAsking, Missing
<1>1. ASSUME NEW c \in Callers, Done(c) PROVE asking' \in [Callers -> Asking] /\ late' \in Nat
  BY <1>1, <1>0 DEF Done, RLTypeOK
<1>2. ASSUME NEW c \in Callers, Admit(c) PROVE admitted' \in Seq([at : 0..RLMaxClock, n : Nat])
  BY <1>2 DEF Admit, RLTypeOK
<1>3. \A c \in Callers : /\ Incr(asking[c].key) \in [Bucket -> [n : Nat, exp : Nat]]
                         /\ Interrupted(asking[c].key) \subseteq [Bucket -> [n : Nat, exp : Nat]]
  BY IncrType DEF RLTypeOK
<1>4. ASSUME RLFault PROVE rlFaults' \in Nat
  BY <1>4 DEF RLFault, RLTypeOK
<1>5. CASE RLTick
  <2>1. rlNow' \in 0..RLMaxClock
    BY <1>5, <1>0 DEF RLTick, RLTypeOK, RLBoundsAssumption
  <2>2. counters' \in [Bucket -> [n : Nat, exp : Nat]]
    BY <1>5, <1>0 DEF RLTick, RLTypeOK
  <2> QED BY <1>5, <2>1, <2>2 DEF RLTick, RLTypeOK
<1>6. CASE Reset
  <2>1. counters' \in [Bucket -> [n : Nat, exp : Nat]]
    BY <1>6, <1>0 DEF Reset, RLTypeOK
  <2> QED BY <1>6, <2>1 DEF Reset, RLTypeOK
<1>7. ASSUME NEW c \in Callers, Ask(c) PROVE RLTypeOK'
  <2>1. keyOf(rlNow) \in Bucket
    BY <1>0, WindowOf DEF keyOf, RLTypeOK
  <2>2. asking' \in [Callers -> Asking]
    BY <1>7, <2>1 DEF Ask, RLTypeOK
  <2> QED BY <1>7, <2>2 DEF Ask, RLTypeOK
<1>8. ASSUME NEW c \in Callers, Allow(c) PROVE RLTypeOK'
  <2>1. Done(c) /\ (Admit(c) \/ admitted' = admitted) /\ counters' = Incr(asking[c].key)
    BY <1>8, Zenon DEF Allow
  <2> QED BY <1>8, <2>1, <1>1, <1>2, <1>3 DEF Allow, RLTypeOK
<1>9. ASSUME NEW c \in Callers, CheckIncr(c) PROVE RLTypeOK'
  <2>1. counters' = Incr(asking[c].key) /\ counters' \in [Bucket -> [n : Nat, exp : Nat]]
    BY <1>9, <1>3 DEF CheckIncr
  <2>2. asking' \in [Callers -> Asking]
    BY <1>9, <2>1 DEF CheckIncr, RLTypeOK
  <2> QED BY <1>9, <2>1, <2>2 DEF CheckIncr, RLTypeOK
<1>10. ASSUME NEW c \in Callers, CheckGet(c) PROVE RLTypeOK'
  <2>1. Done(c) /\ (Admit(c) \/ admitted' = admitted) /\ (rlFaults' = rlFaults \/ RLFault)
    BY <1>10, Zenon DEF CheckGet
  <2> QED BY <1>10, <2>1, <1>1, <1>2, <1>4 DEF CheckGet, RLTypeOK
<1>11. ASSUME NEW c \in Callers, IncrFails(c) PROVE RLTypeOK'
  <2>1. Done(c) /\ (Admit(c) \/ admitted' = admitted) /\ RLFault
    BY <1>11, Zenon DEF IncrFails
  <2> QED BY <1>11, <2>1, <1>1, <1>2, <1>3, <1>4 DEF IncrFails, RLTypeOK
<1>12. CASE UNCHANGED rlVars
  BY <1>12 DEF rlVars, RLTypeOK
<1> QED BY <1>5, <1>6, <1>7, <1>8, <1>9, <1>10, <1>11, <1>12 DEF RLNext

\* A request names its key in the second it is made.
LEMMA AskingNext == RLTypeOK /\ AskingInv /\ [RLNext]_rlVars => AskingInv'
<1> SUFFICES ASSUME RLTypeOK, AskingInv, [RLNext]_rlVars PROVE AskingInv'
  OBVIOUS
<1>1. ASSUME NEW c \in Callers, Done(c), UNCHANGED <<rlNow, limiter>> PROVE AskingInv'
  BY <1>1 DEF Done, AskingInv, RLTypeOK, NotAsking, keyOf
<1>2. CASE RLTick \/ Reset \/ UNCHANGED rlVars
  BY <1>2 DEF RLTick, Reset, rlVars, AskingInv, RLTypeOK, keyOf
<1>3. ASSUME NEW c \in Callers, Ask(c) PROVE AskingInv'
  BY <1>3 DEF Ask, AskingInv, RLTypeOK, keyOf
<1>4. ASSUME NEW c \in Callers, CheckIncr(c) PROVE AskingInv'
  BY <1>4 DEF CheckIncr, AskingInv, RLTypeOK, keyOf
<1>5. ASSUME NEW c \in Callers, Allow(c) \/ CheckGet(c) \/ IncrFails(c) PROVE AskingInv'
  BY <1>1, <1>5 DEF Allow, CheckGet, IncrFails
<1> QED BY <1>2, <1>3, <1>4, <1>5 DEF RLNext

\* A bucket gets its expiry after its window has begun.
LEMMA ExpiryNext == RLTypeOK /\ AskingInv /\ ExpiryInv /\ [RLNext]_rlVars => ExpiryInv'
<1> SUFFICES ASSUME RLTypeOK, AskingInv, ExpiryInv, [RLNext]_rlVars PROVE ExpiryInv'
  OBVIOUS
<1>1. ASSUME NEW c \in Callers, asking[c].pc # "idle", UNCHANGED limiter,
             counters' \in Interrupted(asking[c].key) \cup {Incr(asking[c].key)}
      PROVE  ExpiryInv'
  <2> SUFFICES ASSUME limiter # "with", NEW b \in Bucket, counters'[b].exp # 0
               PROVE  counters'[b].exp >= b * Window + ttl
    BY <1>1 DEF ExpiryInv, ttl
  <2>0. Window \in Nat /\ ttl \in Nat /\ rlNow \in Nat /\ b \in Nat /\ b * Window \in Nat
    <3>1. Window \in Nat /\ rlNow \in Nat /\ b \in Nat
      BY LimiterAssumption, RLBoundsAssumption DEF RLTypeOK, Bucket
    <3> QED BY <3>1 DEF ttl
  <2>1. asking[c].key \in Bucket /\ asking[c].at \in 0..RLMaxClock
        /\ asking[c].at <= rlNow /\ asking[c].key = asking[c].at \div Window
    BY <1>1 DEF AskingInv, RLTypeOK, keyOf
  <2>2. asking[c].key * Window <= rlNow
    <3>1. asking[c].at = asking[c].key * Window + (asking[c].at % Window)
          /\ asking[c].at % Window \in 0..(Window - 1)
      BY <2>1, WindowOf
    <3>2. asking[c].key * Window \in Nat /\ asking[c].at % Window \in Nat /\ asking[c].at \in Nat
      BY <2>1, <3>1, <2>0 DEF Bucket
    <3> QED BY <2>0, <2>1, <3>1, <3>2
  <2>3. counters'[b].exp = counters[b].exp \/ (b = asking[c].key /\ counters'[b].exp = rlNow + ttl)
    BY <1>1, <2>1, IncrType
  <2>4. CASE counters'[b].exp = counters[b].exp
    BY <2>4 DEF ExpiryInv
  <2>5. CASE b = asking[c].key /\ counters'[b].exp = rlNow + ttl
    BY <2>5, <2>2, <2>0
  <2> QED BY <2>3, <2>4, <2>5
<1>2. CASE RLTick \/ Reset \/ UNCHANGED rlVars
  BY <1>2 DEF RLTick, Reset, rlVars, ExpiryInv, RLTypeOK, ttl, Missing
<1>3. ASSUME NEW c \in Callers, Ask(c) \/ CheckGet(c) PROVE ExpiryInv'
  BY <1>3 DEF Ask, CheckGet, ExpiryInv, ttl
<1>4. ASSUME NEW c \in Callers, Allow(c) \/ CheckIncr(c) \/ IncrFails(c) PROVE ExpiryInv'
  BY <1>1, <1>4 DEF Allow, CheckIncr, IncrFails
<1> QED BY <1>2, <1>3, <1>4 DEF RLNext

\* A bucket is a natural number.
LEMMA BucketIsNat == \A b \in Bucket : b \in Nat /\ b \in Int
<1>1. 0 \in Nat /\ RLMaxClock \in 0..RLMaxClock
  BY RLBoundsAssumption
<1>2. RLMaxClock \div Window \in Int
  BY LimiterAssumption, RLBoundsAssumption
<1> QED BY <1>2 DEF Bucket

\* The limiter is fixed, and what costs it a count is never undone.
LEMMA RLMonotone ==
  ASSUME RLTypeOK, [RLNext]_rlVars
  PROVE  /\ limiter' = limiter /\ failOpen' = failOpen
         /\ rlFaults <= rlFaults' /\ late <= late' /\ resets <= resets'
<1> DEFINE Goal == /\ limiter' = limiter /\ failOpen' = failOpen
                   /\ rlFaults <= rlFaults' /\ late <= late' /\ resets <= resets'
<1>0. late \in Nat /\ rlFaults \in Nat /\ resets \in {0, 1}
  BY DEF RLTypeOK
<1>1. CASE RLTick \/ Reset \/ UNCHANGED rlVars
  BY <1>0, <1>1 DEF RLTick, Reset, rlVars
<1>2. ASSUME NEW c \in Callers, Ask(c) \/ CheckIncr(c) PROVE Goal
  BY <1>0, <1>2 DEF Ask, CheckIncr
<1>3. ASSUME NEW c \in Callers, Done(c) PROVE late <= late'
  BY <1>0, <1>3 DEF Done
<1>4. ASSUME NEW c \in Callers, Allow(c) PROVE Goal
  BY <1>0, <1>3, <1>4 DEF Allow
<1>5. ASSUME NEW c \in Callers, CheckGet(c) PROVE Goal
  BY <1>0, <1>3, <1>5 DEF CheckGet, RLFault
<1>6. ASSUME NEW c \in Callers, IncrFails(c) PROVE Goal
  BY <1>0, <1>3, <1>6 DEF IncrFails, RLFault
<1> QED BY <1>1, <1>2, <1>4, <1>5, <1>6 DEF RLNext

\* Letting a request through adds it to the bucket of its second.
LEMMA OfStep ==
  ASSUME RLTypeOK, NEW b \in Int
  PROVE  /\ IsFiniteSet(Of(b)) /\ Cardinality(Of(b)) \in Nat
         /\ admitted' = admitted => Of(b)' = Of(b)
         /\ \A c \in Callers : Admit(c) =>
              /\ Of(b)' = IF asking[c].at \div Window = b THEN Of(b) \cup {Len(admitted) + 1} ELSE Of(b)
              /\ Cardinality(Of(b)') =
                   IF asking[c].at \div Window = b THEN Cardinality(Of(b)) + 1 ELSE Cardinality(Of(b))
<1>1. admitted \in Seq(Request)
  BY DEF RLTypeOK, Request
<1>2. Of(b) = At(admitted, b) /\ Of(b)' = At(admitted', b)
  BY DEF Of, At
<1>3. IsFiniteSet(Of(b)) /\ Cardinality(Of(b)) \in Nat
  <2>1. [at |-> 0, n |-> 0] \in Request
    BY RLBoundsAssumption DEF Request
  <2> QED BY <1>1, <1>2, <2>1, AtAppend
<1>4. ASSUME NEW c \in Callers, Admit(c)
      PROVE  /\ Of(b)' = IF asking[c].at \div Window = b THEN Of(b) \cup {Len(admitted) + 1} ELSE Of(b)
             /\ Cardinality(Of(b)') =
                  IF asking[c].at \div Window = b THEN Cardinality(Of(b)) + 1 ELSE Cardinality(Of(b))
  <2> DEFINE a == [at |-> asking[c].at, n |-> asking[c].n]
  <2>1. a \in Request /\ a.at = asking[c].at
    BY DEF RLTypeOK, Request
  <2>2. admitted' = Append(admitted, a)
    BY <1>4 DEF Admit
  <2> HIDE DEF a
  <2> QED BY <1>1, <1>2, <2>1, <2>2, AtAppend
<1> QED BY <1>2, <1>3, <1>4

\* A tick drops no bucket that can still be asked for.
LEMMA KeptByTick ==
  ASSUME RLTypeOK, ExpiryInv, limiter # "with", RLTick, NEW b \in Bucket,
         rlNow' \div Window <= IF limiter = "check" THEN b + 1 ELSE b
  PROVE  counters'[b] = counters[b] /\ rlNow \div Window <= rlNow' \div Window
<1>0. rlNow \in 0..RLMaxClock /\ rlNow' \in 0..RLMaxClock /\ rlNow <= rlNow'
  BY RLBoundsAssumption DEF RLTick, RLTypeOK
<1>1. rlNow' < b * Window + ttl
  <2> DEFINE k == rlNow' \div Window
  <2>1. Window \in Nat \ {0} /\ b \in Nat /\ k \in Nat
    BY <1>0, WindowOf, BucketIsNat, LimiterAssumption
  <2>2. rlNow' < k * Window + Window
    <3>1. rlNow' = k * Window + (rlNow' % Window) /\ rlNow' % Window \in 0..(Window - 1)
      BY <1>0, WindowOf
    <3>2. k * Window \in Nat
      BY <2>1
    <3> HIDE DEF k
    <3> QED BY <2>1, <3>1, <3>2, <1>0
  <2>3. k <= IF limiter = "check" THEN b + 1 ELSE b
    OBVIOUS
  <2> HIDE DEF k
  <2>4. CASE limiter = "check"
    <3>1. k * Window <= (b + 1) * Window
      BY <2>1, <2>3, <2>4
    <3>2. (b + 1) * Window = b * Window + Window /\ b * Window \in Nat /\ k * Window \in Nat
      BY <2>1
    <3> QED BY <2>1, <2>2, <2>4, <3>1, <3>2, <1>0 DEF ttl
  <2>5. CASE limiter # "check"
    <3>1. k * Window <= b * Window
      BY <2>1, <2>3, <2>5
    <3>2. b * Window \in Nat /\ k * Window \in Nat
      BY <2>1
    <3> QED BY <2>1, <2>2, <2>5, <3>1, <3>2, <1>0 DEF ttl
  <2> QED BY <2>4, <2>5
<1>2. counters[b].exp \notin 1..rlNow'
  <2>1. counters[b].exp \in Nat /\ (counters[b].exp # 0 => counters[b].exp >= b * Window + ttl)
    BY DEF ExpiryInv, RLTypeOK
  <2>2. b * Window + ttl \in Int
    <3>1. b \in Nat /\ Window \in Nat
      BY LimiterAssumption, BucketIsNat
    <3> QED BY <3>1 DEF ttl
  <2> QED BY <1>0, <1>1, <2>1, <2>2
<1>3. counters'[b] = counters[b]
  BY <1>2 DEF RLTick
<1> QED BY <1>0, <1>3, WindowOf

\* The fixed window: a count in time raises the bucket, a late one is counted as late.
LEMMA CountNext ==
  RLTypeOK /\ AskingInv /\ ExpiryInv /\ CountInv /\ [RLNext]_rlVars => CountInv'
<1> SUFFICES ASSUME RLTypeOK, AskingInv, ExpiryInv, CountInv, [RLNext]_rlVars,
                    limiter' = "allow", Bounded', NEW b \in Bucket
             PROVE  /\ Cardinality(Of(b)') <= Limit + Limit * resets' + late'
                    /\ rlNow' \div Window <= b =>
                         /\ Cardinality(Of(b)') <= counters'[b].n + Limit * resets'
                         /\ Cardinality(Of(b)') <= Limit + Limit * resets'
  BY DEF CountInv
<1> DEFINE C == Cardinality(Of(b))  C2 == Cardinality(Of(b)')
           L == Limit * resets  L2 == Limit * resets'
           k == rlNow \div Window  k2 == rlNow' \div Window
           Goal == /\ C2 <= Limit + L2 + late'
                   /\ k2 <= b => C2 <= counters'[b].n + L2 /\ C2 <= Limit + L2
<1>0. /\ Limit \in Nat \ {0} /\ C \in Nat /\ b \in Int /\ b \in Nat
      /\ resets \in {0, 1} /\ late \in Nat
      /\ counters[b].n \in Nat
  <2>1. b \in Int /\ b \in Nat
    BY BucketIsNat
  <2> QED BY <2>1, OfStep, LimiterAssumption DEF RLTypeOK
<1>1. /\ limiter = "allow"
      /\ Bounded
  <2>1. rlFaults \in Nat /\ rlFaults' \in Nat
    BY RLTypeNext DEF RLTypeOK
  <2> QED BY <2>1, RLMonotone DEF Bounded
<1>2. /\ C <= Limit + L + late
      /\ k <= b => C <= counters[b].n + L /\ C <= Limit + L
  BY <1>1 DEF CountInv
<1>3. admitted' = admitted => C2 = C
  BY <1>0, OfStep
<1>4. \A c \in Callers : Admit(c) => C2 = IF asking[c].at \div Window = b THEN C + 1 ELSE C
  BY <1>0, OfStep
<1>5. /\ k \in Nat /\ k2 \in Nat /\ (rlNow' = rlNow => k2 = k)
      /\ \A c \in Callers : asking[c].at \div Window \in Nat
  BY WindowOf, BucketIsNat, RLTypeNext DEF RLTypeOK
<1>a. L \in Nat /\ (resets' = resets => L2 = L) /\ (resets = 0 => L = 0) /\ (resets' = 1 => L2 = Limit)
  BY <1>0
<1>b. \A c \in Callers : Done(c) /\ k > asking[c].at \div Window => late' = late + 1
  BY DEF Done
<1> HIDE DEF C, C2, L, L2, k, k2
<1>6. ASSUME NEW c \in Callers, asking[c].pc = "incr", Done(c), UNCHANGED <<rlNow, resets>>,
             counters' \in Interrupted(asking[c].key) \cup {Incr(asking[c].key)},
             \/ admitted' = admitted
             \/ Admit(c) /\ counters' = Incr(asking[c].key) /\ counters'[asking[c].key].n <= Limit
      PROVE  Goal
  <2>1. /\ asking[c].key \in Bucket /\ asking[c].key = asking[c].at \div Window
        /\ asking[c].at <= rlNow
    BY <1>6, <1>1 DEF AskingInv, RLTypeOK, keyOf
  <2>2. counters'[b].n \in Nat /\ counters'[b].n >= counters[b].n
    BY <1>6, <2>1, IncrType
  <2>3. late' \in Nat /\ late' >= late
    BY <1>6, <1>0 DEF Done
  <2>a. k2 = k /\ L2 = L /\ L \in Nat
    BY <1>a, <1>5, <1>6
  <2>4. CASE C2 = C
    BY <1>0, <1>2, <1>5, <2>a, <2>2, <2>3, <2>4
  <2>5. CASE C2 # C
    <3>1. Admit(c) /\ counters' = Incr(asking[c].key) /\ counters'[asking[c].key].n <= Limit
      BY <2>5, <1>3, <1>6
    <3>2. asking[c].key = b /\ C2 = C + 1
      BY <3>1, <2>1, <2>5, <1>4
    <3>3. counters'[b].n = counters[b].n + 1 /\ counters[b].n + 1 <= Limit
      BY <3>1, <3>2, <2>1, IncrType
    <3>4. CASE k <= b
      BY <1>0, <1>2, <1>5, <2>a, <2>3, <3>2, <3>3, <3>4
    <3>5. CASE ~(k <= b)
      <4>1. late' = late + 1
        BY <1>5, <1>6, <1>b, <1>0, <2>1, <3>2, <3>5
      <4> QED BY <1>0, <1>2, <1>5, <2>a, <3>2, <3>5, <4>1
    <3> QED BY <3>4, <3>5
  <2> QED BY <2>4, <2>5
<1>7. ASSUME RLTick PROVE Goal
  <2>1. ASSUME k2 <= b PROVE counters'[b] = counters[b] /\ k <= k2
    BY <1>1, <1>7, <2>1, KeptByTick DEF k, k2
  <2>3. C2 = C /\ resets' = resets /\ late' = late
    BY <1>3, <1>7 DEF RLTick
  <2> QED BY <1>0, <1>a, <1>2, <1>5, <2>1, <2>3
<1>8. ASSUME Reset PROVE Goal
  <2>1. C2 = C /\ resets = 0 /\ resets' = 1 /\ late' = late /\ rlNow' = rlNow
    BY <1>3, <1>8 DEF Reset
  <2>2. counters'[b].n \in Nat
    BY <1>8, RLTypeNext DEF RLTypeOK
  <2> QED BY <1>0, <1>a, <1>2, <1>5, <2>1, <2>2
<1>9. ASSUME NEW c \in Callers, Ask(c) PROVE Goal
  BY <1>0, <1>a, <1>2, <1>3, <1>5, <1>9 DEF Ask
<1>10. ASSUME NEW c \in Callers, Allow(c) PROVE Goal
  <2>1. asking[c].key \in Bucket /\ counters'[asking[c].key].n \in Nat
    BY <1>10, RLTypeNext DEF RLTypeOK
  <2> QED BY <1>6, <1>10, <2>1, LimiterAssumption DEF Allow
<1>11. ASSUME NEW c \in Callers, IncrFails(c) PROVE Goal
  <2>1. ~failOpen
    BY <1>11, RLTypeNext DEF IncrFails, RLFault, Bounded, RLTypeOK
  <2> QED BY <1>6, <1>11, <2>1 DEF IncrFails
<1>12. ASSUME NEW c \in Callers, CheckIncr(c) \/ CheckGet(c) PROVE Goal
  BY <1>1, <1>12 DEF CheckIncr, CheckGet, AskingInv
<1>13. ASSUME UNCHANGED rlVars PROVE Goal
  BY <1>0, <1>a, <1>2, <1>3, <1>5, <1>13 DEF rlVars
<1> QED BY <1>7, <1>8, <1>9, <1>10, <1>11, <1>12, <1>13 DEF RLNext, C2, L2, k2

\* An element of a sequence is one of the set it is over.
LEMMA SeqElement == \A S : \A s \in Seq(S) : \A j \in DOMAIN s : s[j] \in S
OBVIOUS

\* A request let through stays weighed while nothing is let through and no
\* bucket that can still be read loses a count.
LEMMA WeighedKept ==
  ASSUME RLTypeOK, RLTypeOK', NEW i \in DOMAIN admitted, Weighed(i),
         admitted' = admitted, rlNow <= rlNow',
         \A b \in Bucket : rlNow' \div Window <= b + 1 => counters'[b].n >= counters[b].n
  PROVE  Weighed(i)'
<1> DEFINE a == admitted[i]  b == a.at \div Window
           k == rlNow \div Window  k2 == rlNow' \div Window
<1>1. a \in [at : 0..RLMaxClock, n : Nat] /\ rlNow \in 0..RLMaxClock /\ rlNow' \in 0..RLMaxClock
  <2>1. admitted \in Seq([at : 0..RLMaxClock, n : Nat])
    BY DEF RLTypeOK
  <2>2. rlNow \in 0..RLMaxClock /\ rlNow' \in 0..RLMaxClock
    BY DEF RLTypeOK
  <2> QED BY <2>1, <2>2, SeqElement, Zenon
<1>2. b \in Bucket /\ k \in Nat /\ k2 \in Nat /\ k <= k2 /\ b \in Nat /\ b - 1 \in Int
  BY <1>1, WindowOf, BucketIsNat
<1>3. counters[b].n \in Nat /\ counters'[b].n \in Nat
  BY <1>2 DEF RLTypeOK
<1>4. Of(b - 1)' = Of(b - 1) /\ Of(b)' = Of(b)
  BY <1>2, OfStep
<1>5. /\ a.at <= rlNow /\ a.n \in 1..Limit
      /\ k <= b + 1 => a.n <= counters[b].n
      /\ Sliding(Cardinality(Of(b - 1)), a.n, a.at) <= Limit * Window
      /\ \A j \in Of(b) \ {i} : admitted[j].n # a.n
  BY DEF Weighed
<1>6. a.at <= rlNow'
  <2>1. a.at \in Nat /\ rlNow \in Nat /\ rlNow' \in Nat
    BY <1>1, RLBoundsAssumption
  <2> QED BY <2>1, <1>5
<1>7. k2 <= b + 1 => a.n <= counters'[b].n
  <2> HAVE k2 <= b + 1
  <2>1. counters'[b].n >= counters[b].n
    BY <1>2
  <2>2. a.n \in Nat
    BY <1>1
  <2> HIDE DEF a, b, k, k2
  <2> QED BY <1>2, <1>3, <1>5, <2>1, <2>2
<1>8. admitted'[i] = a
  OBVIOUS
<1> QED BY <1>4, <1>5, <1>6, <1>7, <1>8 DEF Weighed

\* A request in hand keeps what it drew on the same terms.
LEMMA DrewKept ==
  ASSUME RLTypeOK, RLTypeOK', AskingInv, NEW c \in Callers, Drew(c),
         admitted' = admitted, rlNow <= rlNow',
         \A d \in Callers : asking'[d].pc = "get" => asking'[d] = asking[d],
         \A b \in Bucket : rlNow' \div Window <= b + 1 => counters'[b].n >= counters[b].n
  PROVE  Drew(c)'
<1> SUFFICES ASSUME asking'[c].pc = "get", rlNow' \div Window = asking'[c].key
             PROVE  /\ asking'[c].n \in 1..counters'[asking'[c].key].n
                    /\ \A i \in At(admitted', asking'[c].key) : admitted'[i].n # asking'[c].n
                    /\ \A d \in Callers \ {c} :
                         asking'[d].pc = "get" /\ asking'[d].key = asking'[c].key =>
                           asking'[d].n # asking'[c].n
  BY DEF Drew, Of, At
<1> DEFINE q == asking[c]  b == q.key
<1>1. asking'[c] = q /\ q.pc = "get"
  OBVIOUS
<1>2. /\ q.at <= rlNow /\ b = q.at \div Window /\ b \in Bucket /\ q.n \in Nat
      /\ q.at \in 0..RLMaxClock /\ rlNow \in 0..RLMaxClock /\ rlNow' \in 0..RLMaxClock
  BY <1>1 DEF AskingInv, RLTypeOK, keyOf
<1>3. rlNow \div Window = b /\ b \in Nat
  <2>1. b <= rlNow \div Window /\ rlNow \div Window <= rlNow' \div Window
    BY <1>2, WindowOf
  <2>2. rlNow \div Window \in Nat /\ rlNow' \div Window \in Nat /\ b \in Nat
    BY <1>2, WindowOf, BucketIsNat
  <2> QED BY <1>1, <2>1, <2>2
<1>4. /\ q.n \in 1..counters[b].n
      /\ \A i \in Of(b) : admitted[i].n # q.n
      /\ \A d \in Callers \ {c} : asking[d].pc = "get" /\ asking[d].key = b => asking[d].n # q.n
  BY <1>1, <1>3 DEF Drew
<1>5. counters'[b].n >= counters[b].n /\ counters[b].n \in Nat /\ counters'[b].n \in Nat
  <2>1. counters \in [Bucket -> [n : Nat, exp : Nat]] /\ counters' \in [Bucket -> [n : Nat, exp : Nat]]
    BY DEF RLTypeOK
  <2>2. counters[b].n \in Nat /\ counters'[b].n \in Nat
    BY <1>2, <2>1
  <2>3. rlNow' \div Window = b /\ b <= b + 1
    BY <1>1, <1>3
  <2>4. counters'[b].n >= counters[b].n
    BY <1>2, <2>3
  <2> QED BY <2>2, <2>4
<1>6. At(admitted', b) = Of(b)
  BY DEF At, Of
<1>7. q.n \in 1..counters'[b].n
  BY <1>2, <1>4, <1>5
<1>8. \A d \in Callers : asking'[d].pc = "get" => asking'[d] = asking[d]
  OBVIOUS
<1> QED BY <1>1, <1>4, <1>6, <1>7, <1>8

\* The estimate grows with the previous count; what it admits is within the limit.
LEMMA SlidingWeighs ==
  ASSUME NEW p \in Nat, NEW prev \in Nat, prev <= p, NEW n \in Nat, NEW t \in 0..RLMaxClock,
         Sliding(p, n, t) <= Limit * Window
  PROVE  Sliding(prev, n, t) <= Limit * Window /\ n <= Limit
<1>1. ASSUME NEW w \in Nat, NEW W \in Nat \ {0}, NEW L \in Nat, p * w + n * W <= L * W
      PROVE  prev * w + n * W <= L * W /\ n <= L
  <2>1. prev * w <= p * w /\ prev * w \in Nat /\ p * w \in Nat /\ n * W \in Nat /\ L * W \in Nat
    OBVIOUS
  <2>2. prev * w + n * W <= L * W /\ n * W <= L * W
    BY <1>1, <2>1
  <2>3. n <= L
    <3> SUFFICES ASSUME n >= L + 1 PROVE FALSE
      OBVIOUS
    <3>1. n * W >= (L + 1) * W /\ (L + 1) * W = L * W + W
      OBVIOUS
    <3> QED BY <2>1, <2>2, <3>1
  <2> QED BY <2>2, <2>3
<1>2. Window - (t % Window) \in Nat /\ Window \in Nat \ {0} /\ Limit \in Nat
  <2>1. t % Window \in 0..(Window - 1)
    BY WindowOf
  <2> QED BY <2>1, LimiterAssumption
<1> DEFINE w == Window - (t % Window)
<1>3. p * w + n * Window <= Limit * Window
  BY DEF Sliding
<1> HIDE DEF w
<1>4. prev * w + n * Window <= Limit * Window /\ n <= Limit
  BY <1>1, <1>2, <1>3 DEF w
<1> QED BY <1>4 DEF Sliding, w

\* What the bucket before a request was let through is at most what it counts.
LEMMA PreviousCounts ==
  ASSUME RLTypeOK, AskingInv, SlideInv, Exact, NEW c \in Callers, asking[c].pc = "get",
         rlNow \div Window = asking[c].key
  PROVE  /\ Previous(asking[c]) \in Nat
         /\ Cardinality(Of(asking[c].key - 1)) <= Previous(asking[c])
<1> DEFINE q == asking[c]  S == Of(q.key - 1)
<1>1. q.key \in Bucket /\ q.key \in Nat /\ admitted \in Seq(Request)
  BY BucketIsNat DEF RLTypeOK, Request
<1>2. \A i \in DOMAIN admitted : Weighed(i)
  BY DEF SlideInv
<1>3. S \subseteq DOMAIN admitted /\ \A i \in S : admitted[i].at \div Window = q.key - 1
  BY DEF Of
<1>4. CASE q.key = 0
  <2>1. \A i \in DOMAIN admitted : admitted[i].at \div Window \in Nat
    <3>1. \A i \in DOMAIN admitted : admitted[i] \in Request
      BY <1>1, SeqElement, Zenon
    <3> QED BY <3>1, WindowOf, BucketIsNat DEF Request
  <2>2. S = {}
    BY <1>3, <1>4, <2>1
  <2> QED BY <1>4, <2>2, FS_EmptySet DEF Previous
<1>5. CASE q.key # 0
  <2> DEFINE b == q.key - 1
  <2>1. b \in Bucket
    <3>1. \A x \in Bucket : x # 0 => x - 1 \in Bucket
      <4>1. RLMaxClock \div Window \in Int
        BY LimiterAssumption, RLBoundsAssumption
      <4> QED BY <4>1 DEF Bucket
    <3> QED BY <1>1, <1>5, <3>1
  <2>2. counters[b].n \in Nat
    BY <2>1 DEF RLTypeOK
  <2>3. ASSUME NEW i \in S
        PROVE  admitted[i].n \in 1..counters[b].n /\ \A j \in S \ {i} : admitted[j].n # admitted[i].n
    <3>1. Weighed(i) /\ admitted[i].at \div Window = b
      BY <1>2, <1>3
    <3>2. rlNow \div Window <= b + 1
      BY <1>1
    <3>3. /\ admitted[i].n \in 1..Limit /\ admitted[i].n <= counters[b].n
          /\ \A j \in Of(b) \ {i} : admitted[j].n # admitted[i].n
      BY <3>1, <3>2, Zenon DEF Weighed
    <3> QED BY <2>2, <3>3, LimiterAssumption
  <2>4. Cardinality(S) <= counters[b].n
    BY <1>1, <1>3, <2>2, <2>3, Distinct
  <2> QED BY <1>5, <2>2, <2>4 DEF Previous
<1> QED BY <1>4, <1>5

\* Check lets a request through: it has been weighed, and the others still are.
LEMMA SlideAdmit ==
  ASSUME RLTypeOK, RLTypeOK', AskingInv, SlideInv, Exact, NEW c \in Callers, asking[c].pc = "get",
         Sliding(Previous(asking[c]), asking[c].n, asking[c].at) <= Limit * Window,
         Admit(c), Done(c), UNCHANGED <<rlNow, counters, late>>
  PROVE  (\A i \in DOMAIN admitted' : Weighed(i)') /\ (\A d \in Callers : Drew(d)')
<1> DEFINE q == asking[c]  k == rlNow \div Window  new == Len(admitted) + 1
           a == [at |-> q.at, n |-> q.n]
<1>1. /\ q.at \in 0..RLMaxClock /\ q.n \in Nat /\ q.key \in Bucket /\ q.key = q.at \div Window
      /\ q.at <= rlNow /\ rlNow \in 0..RLMaxClock
  BY DEF RLTypeOK, AskingInv, Exact, keyOf
<1>2. k = q.key /\ k \in Nat /\ k \in Bucket
  <2>1. q.key <= k /\ k \in Nat /\ k \in Bucket /\ q.key \in Nat
    BY <1>1, WindowOf, BucketIsNat
  <2>2. late \in Nat /\ (k > q.key => late' = late + 1)
    BY <1>1 DEF Done, RLTypeOK
  <2> QED BY <2>1, <2>2
<1>3. /\ q.n \in 1..counters[k].n
      /\ \A i \in Of(k) : admitted[i].n # q.n
      /\ \A d \in Callers \ {c} : asking[d].pc = "get" /\ asking[d].key = k => asking[d].n # q.n
  BY <1>2 DEF SlideInv, Drew
<1>4. Sliding(Cardinality(Of(k - 1)), q.n, q.at) <= Limit * Window /\ q.n <= Limit
  <2>1. Previous(q) \in Nat /\ Cardinality(Of(k - 1)) <= Previous(q)
    BY <1>2, PreviousCounts
  <2>2. Cardinality(Of(k - 1)) \in Nat
    BY <1>2, OfStep
  <2> QED BY <1>1, <2>1, <2>2, SlidingWeighs
<1>5. /\ DOMAIN admitted' = DOMAIN admitted \cup {new} /\ new \notin DOMAIN admitted
      /\ \A i \in DOMAIN admitted : admitted'[i] = admitted[i]
      /\ admitted'[new] = a
  <2>1. admitted \in Seq(Request) /\ admitted' = Append(admitted, a)
    BY DEF RLTypeOK, Request, Admit
  <2> HIDE DEF a
  <2> QED BY <2>1
<1>6. \A b \in Int : At(admitted', b) = IF b = k THEN At(admitted, b) \cup {new} ELSE At(admitted, b)
  BY <1>1, <1>2, <1>5 DEF At
<1>7. \A b \in Int : b # k => Cardinality(At(admitted', b)) = Cardinality(At(admitted, b))
  BY <1>6
<1>8. \A b : Of(b) = At(admitted, b)
  BY DEF Of, At
<1>9. ASSUME NEW i \in DOMAIN admitted PROVE Weighed(i)'
  <2> DEFINE e == admitted[i]  b == e.at \div Window
  <2>1. Weighed(i) /\ admitted'[i] = e
    BY <1>5 DEF SlideInv
  <2>2. e.at \in 0..RLMaxClock /\ b \in Nat /\ b <= k
    <3>1. e \in Request
      BY SeqElement, Zenon DEF RLTypeOK, Request
    <3>2. e.at \in 0..RLMaxClock
      BY <3>1 DEF Request
    <3>3. e.at <= rlNow
      BY <2>1 DEF Weighed
    <3> QED BY <1>1, <3>2, <3>3, WindowOf, BucketIsNat
  <2>3. /\ e.at <= rlNow /\ e.n \in 1..Limit
        /\ k <= b + 1 => e.n <= counters[b].n
        /\ Sliding(Cardinality(At(admitted, b - 1)), e.n, e.at) <= Limit * Window
        /\ \A j \in At(admitted, b) \ {i} : admitted[j].n # e.n
    BY <2>1, <1>8 DEF Weighed
  <2>4. Cardinality(At(admitted', b - 1)) = Cardinality(At(admitted, b - 1))
    BY <1>2, <1>7, <2>2
  <2>5. ASSUME NEW j \in At(admitted', b) \ {i} PROVE admitted'[j].n # e.n
    <3>1. CASE j \in At(admitted, b)
      BY <1>5, <2>3, <3>1 DEF At
    <3>2. CASE j \notin At(admitted, b)
      <4>1. j = new /\ b = k
        BY <1>6, <2>2, <3>2
      <4>2. i \in Of(k)
        BY <4>1, <1>8 DEF At
      <4> QED BY <1>3, <1>5, <4>1, <4>2
    <3> QED BY <3>1, <3>2
  <2>6. rlNow' = rlNow /\ counters' = counters
    OBVIOUS
  <2> HIDE DEF e, b, k
  <2>7. /\ e.at <= rlNow' /\ e.n \in 1..Limit
        /\ rlNow' \div Window <= b + 1 => e.n <= counters'[b].n
        /\ Sliding(Cardinality(At(admitted', b - 1)), e.n, e.at) <= Limit * Window
        /\ \A j \in At(admitted', b) \ {i} : admitted'[j].n # e.n
    BY <2>3, <2>4, <2>5, <2>6 DEF k
  <2> QED BY <2>1, <2>7 DEF Weighed, Of, At, b
<1>10. ASSUME NEW i, i = new PROVE Weighed(i)'
  <2>1. Cardinality(At(admitted', k - 1)) = Cardinality(At(admitted, k - 1))
    BY <1>2, <1>7
  <2>2. ASSUME NEW j \in At(admitted', k) \ {new} PROVE admitted'[j].n # q.n
    <3>1. j \in Of(k) /\ j \in DOMAIN admitted
      BY <1>2, <1>6, <1>8, <2>2 DEF At
    <3> QED BY <1>3, <1>5, <3>1
  <2>3. q.n <= counters[k].n /\ q.n \in 1..Limit
    BY <1>3, <1>4, <1>1, LimiterAssumption
  <2>4. /\ a.at <= rlNow' /\ a.n \in 1..Limit
        /\ rlNow' \div Window <= k + 1 => a.n <= counters'[k].n
        /\ Sliding(Cardinality(At(admitted', k - 1)), a.n, a.at) <= Limit * Window
        /\ \A j \in At(admitted', k) \ {i} : admitted'[j].n # a.n
        /\ a.at \div Window = k
    BY <1>1, <1>2, <1>4, <1>8, <1>10, <2>1, <2>2, <2>3
  <2>5. admitted'[i] = a
    BY <1>5, <1>10
  <2> HIDE DEF a, k, new
  <2> QED BY <2>4, <2>5 DEF Weighed, Of, At
<1>11. ASSUME NEW d \in Callers PROVE Drew(d)'
  <2> SUFFICES ASSUME asking'[d].pc = "get", k = asking'[d].key
               PROVE  /\ asking'[d].n \in 1..counters'[asking'[d].key].n
                      /\ \A i \in At(admitted', asking'[d].key) : admitted'[i].n # asking'[d].n
                      /\ \A e \in Callers \ {d} :
                           asking'[e].pc = "get" /\ asking'[e].key = asking'[d].key =>
                             asking'[e].n # asking'[d].n
    BY DEF Drew, Of, At
  <2>1. asking' = [asking EXCEPT ![c] = NotAsking] /\ NotAsking.pc # "get"
    BY DEF Done, NotAsking
  <2>2. d # c /\ asking'[d] = asking[d] /\ \A e \in Callers : asking'[e].pc = "get" => asking'[e] = asking[e]
    BY <2>1 DEF RLTypeOK
  <2>3. /\ asking[d].n \in 1..counters[k].n
        /\ \A i \in Of(k) : admitted[i].n # asking[d].n
        /\ \A e \in Callers \ {d} : asking[e].pc = "get" /\ asking[e].key = k => asking[e].n # asking[d].n
    BY <2>2 DEF SlideInv, Drew
  <2>4. asking[d].n # q.n
    BY <1>3, <2>2
  <2>5. ASSUME NEW i \in At(admitted', k) PROVE admitted'[i].n # asking[d].n
    <3>1. CASE i = new
      BY <1>5, <2>4, <3>1
    <3>2. CASE i # new
      <4>1. i \in Of(k) /\ i \in DOMAIN admitted
        BY <1>2, <1>6, <1>8, <3>2 DEF At
      <4> QED BY <1>5, <2>3, <4>1
    <3> QED BY <3>1, <3>2
  <2> QED BY <2>2, <2>3, <2>5
<1> QED BY <1>5, <1>9, <1>10, <1>11

\* The sliding window: every step keeps what was let through weighed.
LEMMA SlideNext ==
  RLTypeOK /\ AskingInv /\ ExpiryInv /\ SlideInv /\ [RLNext]_rlVars => SlideInv'
<1> SUFFICES ASSUME RLTypeOK, AskingInv, ExpiryInv, SlideInv, [RLNext]_rlVars, Exact'
             PROVE  (\A i \in DOMAIN admitted' : Weighed(i)') /\ (\A c \in Callers : Drew(c)')
  BY DEF SlideInv
<1> DEFINE Goal == (\A i \in DOMAIN admitted' : Weighed(i)') /\ (\A c \in Callers : Drew(c)')
<1>0. RLTypeOK'
  BY RLTypeNext
<1>1. Exact /\ late' = late /\ rlFaults' = rlFaults /\ resets' = resets
  <2>1. /\ rlFaults \in Nat /\ late \in Nat /\ resets \in {0, 1}
        /\ rlFaults' \in Nat /\ late' \in Nat /\ resets' \in {0, 1}
    BY <1>0 DEF RLTypeOK
  <2>2. rlFaults' = 0 /\ late' = 0 /\ resets' = 0 /\ limiter' = "check"
    BY DEF Exact
  <2> QED BY <2>1, <2>2, RLMonotone DEF Exact
<1>2. ASSUME admitted' = admitted, rlNow <= rlNow',
             \A d \in Callers : asking'[d].pc = "get" => asking'[d] = asking[d],
             \A b \in Bucket : rlNow' \div Window <= b + 1 => counters'[b].n >= counters[b].n
      PROVE  Goal
  <2>1. (\A i \in DOMAIN admitted : Weighed(i)) /\ (\A c \in Callers : Drew(c))
    BY <1>1 DEF SlideInv
  <2>2. \A i \in DOMAIN admitted : Weighed(i)'
    BY <1>0, <1>2, <2>1, WeighedKept
  <2>3. \A c \in Callers : Drew(c)'
    BY <1>0, <1>2, <2>1, DrewKept
  <2> QED BY <1>2, <2>2, <2>3
<1>3. rlNow \in Nat /\ \A b \in Bucket : counters[b].n \in Nat
  BY RLBoundsAssumption DEF RLTypeOK
<1>4. ASSUME RLTick PROVE Goal
  <2>1. rlNow <= rlNow'
    BY <1>3, <1>4 DEF RLTick
  <2>2. ASSUME NEW b \in Bucket, rlNow' \div Window <= b + 1 PROVE counters'[b].n >= counters[b].n
    <3>1. limiter = "check"
      BY <1>1 DEF Exact
    <3>2. counters'[b] = counters[b]
      BY <1>4, <2>2, <3>1, KeptByTick
    <3> QED BY <1>3, <3>2
  <2> QED BY <1>2, <1>4, <2>1, <2>2 DEF RLTick
<1>5. ASSUME Reset PROVE Goal
  BY <1>1, <1>5 DEF Reset
<1>6. ASSUME NEW c \in Callers, Ask(c) PROVE Goal
  <2>1. \A d \in Callers : asking'[d].pc = "get" => asking'[d] = asking[d]
    BY <1>6 DEF Ask, RLTypeOK
  <2> QED BY <1>2, <1>3, <1>6, <2>1 DEF Ask
<1>7. ASSUME NEW c \in Callers, Allow(c) \/ IncrFails(c) PROVE Goal
  BY <1>1, <1>3, <1>7 DEF Allow, IncrFails, RLFault, Exact, RLTypeOK
<1>8. ASSUME NEW c \in Callers, CheckIncr(c) PROVE Goal
  <2> DEFINE k == asking[c].key  n == counters[k].n + 1
  <2>1. k \in Bucket /\ k \in Nat /\ asking[c].pc = "incr" /\ admitted' = admitted /\ rlNow' = rlNow
    BY <1>8, BucketIsNat DEF CheckIncr, RLTypeOK
  <2>2. counters' = Incr(k) /\ counters'[k].n = n /\ \A b \in Bucket : counters'[b].n >= counters[b].n
    BY <1>8, <2>1, IncrType DEF CheckIncr
  <2>3. /\ asking'[c].pc = "get" /\ asking'[c].n = n /\ asking'[c].key = k
        /\ \A d \in Callers \ {c} : asking'[d] = asking[d]
    BY <1>8, <2>2 DEF CheckIncr, RLTypeOK
  <2>4. (\A i \in DOMAIN admitted : Weighed(i)) /\ (\A d \in Callers : Drew(d))
    BY <1>1 DEF SlideInv
  <2>5. \A i \in DOMAIN admitted : Weighed(i)'
    BY <1>0, <1>3, <2>1, <2>2, <2>4, WeighedKept
  <2>6. ASSUME rlNow \div Window = k
        PROVE  /\ \A i \in Of(k) : admitted[i].n # n
               /\ \A d \in Callers \ {c} : asking[d].pc = "get" /\ asking[d].key = k => asking[d].n # n
    <3>1. ASSUME NEW i \in Of(k) PROVE admitted[i].n # n
      <4>1. Weighed(i) /\ admitted[i].at \div Window = k
        BY <2>4 DEF Of
      <4>2. k <= k + 1 /\ counters[k].n \in Nat
        BY <1>3, <2>1
      <4>3. admitted[i].n <= counters[k].n /\ admitted[i].n \in 1..Limit
        BY <2>6, <4>1, <4>2 DEF Weighed
      <4> QED BY <4>2, <4>3, LimiterAssumption
    <3>2. ASSUME NEW d \in Callers \ {c}, asking[d].pc = "get", asking[d].key = k PROVE asking[d].n # n
      <4>1. asking[d].n \in 1..counters[k].n
        BY <2>4, <2>6, <3>2 DEF Drew
      <4> QED BY <1>3, <2>1, <4>1
    <3> QED BY <3>1, <3>2
  <2>7. At(admitted', k) = Of(k)
    BY <2>1 DEF Of, At
  <2>8. n \in 1..counters'[k].n
    BY <1>3, <2>1, <2>2
  <2>9. Drew(c)'
    <3> SUFFICES ASSUME rlNow' \div Window = asking'[c].key
                 PROVE  /\ asking'[c].n \in 1..counters'[asking'[c].key].n
                        /\ \A i \in At(admitted', asking'[c].key) : admitted'[i].n # asking'[c].n
                        /\ \A d \in Callers \ {c} :
                             asking'[d].pc = "get" /\ asking'[d].key = asking'[c].key =>
                               asking'[d].n # asking'[c].n
      BY DEF Drew, Of, At
    <3> HIDE DEF k, n
    <3> QED BY <2>1, <2>3, <2>6, <2>7, <2>8
  <2>10. ASSUME NEW d \in Callers \ {c} PROVE Drew(d)'
    <3> SUFFICES ASSUME asking'[d].pc = "get", rlNow' \div Window = asking'[d].key
                 PROVE  /\ asking'[d].n \in 1..counters'[asking'[d].key].n
                        /\ \A i \in At(admitted', asking'[d].key) : admitted'[i].n # asking'[d].n
                        /\ \A e \in Callers \ {d} :
                             asking'[e].pc = "get" /\ asking'[e].key = asking'[d].key =>
                               asking'[e].n # asking'[d].n
      BY DEF Drew, Of, At
    <3> DEFINE b == asking[d].key
    <3>1. asking'[d] = asking[d] /\ b \in Bucket /\ rlNow \div Window = b /\ asking[d].n \in Nat
      BY <2>1, <2>3 DEF RLTypeOK
    <3>2. /\ asking[d].n \in 1..counters[b].n
          /\ \A i \in Of(b) : admitted[i].n # asking[d].n
          /\ \A e \in Callers \ {d} : asking[e].pc = "get" /\ asking[e].key = b => asking[e].n # asking[d].n
      BY <2>4, <3>1 DEF Drew
    <3>3. At(admitted', b) = Of(b)
      BY <2>1 DEF Of, At
    <3>4. asking[d].n \in 1..counters'[b].n
      <4>1. counters'[b].n >= counters[b].n /\ counters[b].n \in Nat /\ counters'[b].n \in Nat
        BY <1>0, <1>3, <2>2, <3>1 DEF RLTypeOK
      <4> QED BY <3>1, <3>2, <4>1
    <3>5. b = k => asking[d].n # n
      BY <2>6, <3>1
    <3> HIDE DEF n, k, b
    <3>6. /\ asking'[d].key = b /\ asking'[d].n = asking[d].n
          /\ asking'[d].pc = "get"
      BY <3>1 DEF b
    <3>7. ASSUME NEW e \in Callers \ {d}, asking'[e].pc = "get", asking'[e].key = b
          PROVE  asking'[e].n # asking[d].n
      BY <2>3, <3>2, <3>5, <3>7
    <3> QED BY <2>1, <3>2, <3>3, <3>4, <3>6, <3>7
  <2> QED BY <2>1, <2>5, <2>9, <2>10
<1>9. ASSUME NEW c \in Callers, CheckGet(c) PROVE Goal
  <2> DEFINE q == asking[c]
  <2>1. /\ q.pc = "get" /\ Done(c) /\ UNCHANGED <<rlNow, counters>>
        /\ IF Sliding(Previous(q), q.n, q.at) > Limit * Window THEN UNCHANGED admitted ELSE Admit(c)
    <3>1. ~RLFault
      BY <1>1, <1>3 DEF RLFault, Exact
    <3> QED BY <1>9, <3>1, Zenon DEF CheckGet
  <2>2. CASE Sliding(Previous(q), q.n, q.at) > Limit * Window
    <3>1. \A d \in Callers : asking'[d].pc = "get" => asking'[d] = asking[d]
      BY <2>1 DEF Done, NotAsking, RLTypeOK
    <3> QED BY <1>2, <1>3, <2>1, <2>2, <3>1
  <2>3. CASE ~(Sliding(Previous(q), q.n, q.at) > Limit * Window)
    <3>1. Sliding(Previous(q), q.n, q.at) <= Limit * Window
      <4>1. Previous(q) \in Nat /\ q.n \in Nat /\ q.at \in 0..RLMaxClock
        <5>1. q.key \in Bucket /\ q.n \in Nat /\ q.at \in 0..RLMaxClock
          BY DEF RLTypeOK
        <5>2. q.key # 0 => q.key - 1 \in Bucket
          <6>1. RLMaxClock \div Window \in Int
            BY LimiterAssumption, RLBoundsAssumption
          <6> QED BY <5>1, <6>1 DEF Bucket
        <5> QED BY <1>3, <5>1, <5>2 DEF Previous
      <4>2. Sliding(Previous(q), q.n, q.at) \in Int /\ Limit * Window \in Int
        BY <4>1, LimiterAssumption, WindowOf DEF Sliding
      <4> QED BY <2>3, <4>2
    <3> QED BY <1>0, <1>1, <2>1, <2>3, <3>1, SlideAdmit
  <2> QED BY <2>2, <2>3
<1>10. ASSUME UNCHANGED rlVars PROVE Goal
  <2>1. \A b \in Bucket : counters'[b].n >= counters[b].n
    BY <1>3, <1>10 DEF rlVars
  <2> QED BY <1>2, <1>3, <1>10, <2>1 DEF rlVars
<1> QED BY <1>4, <1>5, <1>6, <1>7, <1>8, <1>9, <1>10 DEF RLNext

\* At the start nothing has been let through.
LEMMA RLInvInit == RLInit => RLInv
<1> SUFFICES ASSUME RLInit PROVE RLInv
  OBVIOUS
<1>1. RLTypeOK
  BY RLTypeInit
<1>2. AskingInv
  BY DEF RLInit, NotAsking, AskingInv
<1>3. ExpiryInv
  BY DEF RLInit, Missing, ExpiryInv
<1>4. \A b : Of(b) = {}
  BY DEF RLInit, Of
<1>5. CountInv
  <2>1. \A b \in Bucket : Cardinality(Of(b)) = 0 /\ counters[b].n = 0
    BY <1>4, FS_EmptySet DEF RLInit, Missing
  <2>2. Limit \in Nat /\ resets = 0 /\ late = 0 /\ Limit * resets = 0
    BY LimiterAssumption DEF RLInit
  <2> QED BY <2>1, <2>2 DEF CountInv
<1>6. SlideInv
  BY DEF RLInit, NotAsking, SlideInv, Drew
<1> QED BY <1>1, <1>2, <1>3, <1>5, <1>6 DEF RLInv

\* Every step keeps the invariant.
LEMMA RLInvNext == RLInv /\ [RLNext]_rlVars => RLInv'
BY RLTypeNext, AskingNext, ExpiryNext, CountNext, SlideNext DEF RLInv

\* The fixed window's limit, read off the invariant.
LEMMA WindowLimited == RLInv => AllowPerWindow
<1> SUFFICES ASSUME RLInv, limiter = "allow", Bounded, NEW b \in Bucket
             PROVE  Passed(b * Window, b * Window + Window - 1) <= Limit + Limit * resets + late
  BY DEF AllowPerWindow
<1>1. Cardinality(Of(b)) <= Limit + Limit * resets + late
  BY DEF RLInv, CountInv
<1>2. ASSUME NEW i \in DOMAIN admitted
      PROVE  admitted[i].at \in (b * Window)..(b * Window + Window - 1) <=> admitted[i].at \div Window = b
  <2>1. admitted[i].at \in 0..RLMaxClock
    <3>1. admitted[i] \in Request
      BY SeqElement, Zenon DEF RLInv, RLTypeOK, Request
    <3> QED BY <3>1 DEF Request
  <2> DEFINE at == admitted[i].at  k == at \div Window  r == at % Window
  <2>2. k \in Nat /\ r \in 0..(Window - 1) /\ at = k * Window + r /\ at \in Nat
    BY <2>1, WindowOf, BucketIsNat
  <2>3. Window \in Nat \ {0} /\ b \in Nat
    BY LimiterAssumption, BucketIsNat
  <2> HIDE DEF at, k, r
  <2>4. CASE k = b
    <3>1. b * Window \in Nat
      BY <2>3
    <3> QED BY <2>2, <2>3, <2>4, <3>1 DEF at, k
  <2>5. CASE k < b
    <3>1. k * Window + Window <= b * Window /\ k * Window \in Nat /\ b * Window \in Nat
      <4>1. (k + 1) * Window <= b * Window /\ (k + 1) * Window = k * Window + Window
        BY <2>2, <2>3, <2>5
      <4> QED BY <2>2, <2>3, <4>1
    <3>2. at < b * Window /\ k # b
      BY <2>2, <2>3, <2>5, <3>1
    <3> QED BY <2>2, <3>1, <3>2 DEF at, k
  <2>6. CASE k > b
    <3>1. b * Window + Window <= k * Window /\ k * Window \in Nat /\ b * Window \in Nat
      <4>1. (b + 1) * Window <= k * Window /\ (b + 1) * Window = b * Window + Window
        BY <2>2, <2>3, <2>6
      <4> QED BY <2>2, <2>3, <4>1
    <3>2. at > b * Window + Window - 1 /\ k # b
      BY <2>2, <2>3, <2>6, <3>1
    <3> QED BY <2>2, <2>3, <3>1, <3>2 DEF at, k
  <2> QED BY <2>2, <2>3, <2>4, <2>5, <2>6
<1>3. Passed(b * Window, b * Window + Window - 1) = Cardinality(Of(b))
  BY <1>2 DEF Passed, Of
<1> QED BY <1>1, <1>3

\* Sums of the excess: x of the bucket before and y of this one, r seconds into it.
LEMMA ExcessSum ==
  ASSUME NEW W \in Nat \ {0}, NEW L \in Nat, NEW x \in Nat, NEW y \in Nat, NEW r \in 0..(W - 1),
         x <= L, x * (W - r) + y * W <= L * W
  PROVE  W * (x + y) <= L * W + L * r
<1>1. x * (W - r) = x * W - x * r /\ W * (x + y) = x * W + y * W
  OBVIOUS
<1>2. x * r <= L * r
  OBVIOUS
<1>3. x * W \in Nat /\ y * W \in Nat /\ x * r \in Nat /\ L * r \in Nat /\ L * W \in Nat /\ r \in Nat
  OBVIOUS
<1> QED BY <1>1, <1>2, <1>3

\* What was weighed later and counted higher bounds what came before it.
LEMMA ExcessBelow ==
  ASSUME NEW W \in Nat \ {0}, NEW L \in Nat, NEW x \in Nat, NEW y \in Nat, NEW r \in 0..(W - 1),
         NEW c \in Nat, NEW n \in Nat, NEW s \in 0..r, x <= c, y <= n, c * (W - s) + n * W <= L * W
  PROVE  x * (W - r) + y * W <= L * W
<1>1. x * (W - r) <= c * (W - r)
  OBVIOUS
<1>2. c * (W - r) <= c * (W - s)
  OBVIOUS
<1>3. y * W <= n * W
  OBVIOUS
<1>4. /\ x * (W - r) \in Int /\ c * (W - r) \in Int /\ c * (W - s) \in Int
      /\ y * W \in Int /\ n * W \in Int /\ L * W \in Int
  OBVIOUS
<1> QED BY <1>1, <1>2, <1>3, <1>4

\* The sliding window's excess: an interval of one window meets two buckets, and
\* the request that drew the highest count of the second weighed the first.
LEMMA ExcessBounded == RLInv => SlidingExcessBounded
<1> SUFFICES ASSUME RLInv, Exact, NEW t \in (Window - 1)..RLMaxClock
             PROVE  Window * Passed(t + 1 - Window, t) <= Limit * Window + Limit * (t % Window)
  BY DEF SlidingExcessBounded, Exact
<1> DEFINE b == t \div Window  r == t % Window
           A == {i \in DOMAIN admitted : admitted[i].at \in (t + 1 - Window)..t}
           A1 == {i \in A : admitted[i].at \div Window = b - 1}
           A2 == {i \in A : admitted[i].at \div Window = b}
<1>0. Window \in Nat \ {0} /\ Limit \in Nat \ {0} /\ t \in 0..RLMaxClock /\ t \in Nat
  BY LimiterAssumption, RLBoundsAssumption
<1>1. b \in Nat /\ r \in 0..(Window - 1) /\ t = b * Window + r
  BY <1>0, WindowOf, BucketIsNat
<1>2. /\ RLTypeOK /\ admitted \in Seq(Request)
      /\ \A i \in DOMAIN admitted : Weighed(i)
  BY DEF RLInv, RLTypeOK, SlideInv, Request
<1>3. \A i \in DOMAIN admitted : admitted[i].at \in 0..RLMaxClock /\ admitted[i].at \in Nat
  <2>1. \A i \in DOMAIN admitted : admitted[i] \in Request
    BY <1>2, SeqElement, Zenon
  <2> QED BY <2>1, RLBoundsAssumption DEF Request
<1>4. A = A1 \cup A2 /\ A1 \cap A2 = {}
  <2>1. ASSUME NEW i \in A PROVE i \in A1 \/ i \in A2
    <3> DEFINE at == admitted[i].at  k == at \div Window  s == at % Window
    <3>1. at \in 0..RLMaxClock /\ at \in Nat /\ at <= t /\ at >= t + 1 - Window
      BY <1>0, <1>3
    <3>2. k \in Nat /\ s \in 0..(Window - 1) /\ at = k * Window + s /\ k <= b
      BY <1>0, <3>1, WindowOf, BucketIsNat
    <3> HIDE DEF at, k, s, b, r
    <3>3. k >= b - 1
      <4> SUFFICES ASSUME k <= b - 2 PROVE FALSE
        BY <1>1, <3>2
      <4>1. (k + 2) * Window <= b * Window /\ (k + 2) * Window = k * Window + Window + Window
        BY <1>0, <1>1, <3>2
      <4>2. k * Window \in Nat /\ b * Window \in Nat
        BY <1>0, <1>1, <3>2
      <4> QED BY <1>0, <1>1, <3>1, <3>2, <4>1, <4>2
    <3>4. k = b - 1 \/ k = b
      BY <1>1, <3>2, <3>3
    <3> QED BY <3>4 DEF k, at
  <2>2. b - 1 # b
    BY <1>1
  <2> QED BY <2>1, <2>2
<1>5. A1 \subseteq Of(b - 1) /\ A2 \subseteq Of(b)
  BY DEF Of
<1> DEFINE x == Cardinality(A1)  y == Cardinality(A2)  c == Cardinality(Of(b - 1))
<1>6. /\ IsFiniteSet(A1) /\ IsFiniteSet(A2) /\ x \in Nat /\ y \in Nat /\ c \in Nat
      /\ x <= c /\ Cardinality(A) = x + y
  <2>1. /\ IsFiniteSet(Of(b)) /\ IsFiniteSet(Of(b - 1)) /\ c \in Nat
    <3>1. \A z \in Int : IsFiniteSet(Of(z)) /\ Cardinality(Of(z)) \in Nat
      BY <1>2, OfStep
    <3>2. b \in Int /\ b - 1 \in Int
      BY <1>1
    <3> QED BY <3>1, <3>2
  <2>2. IsFiniteSet(A1) /\ IsFiniteSet(A2) /\ x <= c
    BY <1>5, <2>1, FS_Subset
  <2>3. x \in Nat /\ y \in Nat
    BY <2>2, FS_CardinalityType
  <2>4. Cardinality(A1 \cup A2) = x + y - Cardinality(A1 \cap A2)
    BY <2>2, FS_Union
  <2> HIDE DEF A, A1, A2, c, b
  <2>5. Cardinality(A1 \cap A2) = 0
    BY <1>4, FS_EmptySet
  <2> QED BY <1>4, <2>1, <2>2, <2>3, <2>4, <2>5
<1>7. c <= Limit
  <2>1. ASSUME NEW i \in Of(b - 1)
        PROVE  admitted[i].n \in 1..Limit /\ \A j \in Of(b - 1) \ {i} : admitted[j].n # admitted[i].n
    BY <1>2, <2>1 DEF Weighed, Of
  <2>2. Of(b - 1) \subseteq DOMAIN admitted
    BY DEF Of
  <2> HIDE DEF b
  <2> QED BY <1>0, <1>2, <2>1, <2>2, Distinct
<1>8. x * (Window - r) + y * Window <= Limit * Window
  <2>1. CASE y = 0
    <3>1. x * (Window - r) <= Limit * Window
      <4>1. x <= Limit /\ Window - r \in Nat /\ Window - r <= Window
        BY <1>0, <1>1, <1>6, <1>7
      <4>2. x * (Window - r) <= Limit * (Window - r)
        BY <1>0, <1>6, <4>1
      <4>3. Limit * (Window - r) <= Limit * Window
        BY <1>0, <4>1
      <4>4. x * (Window - r) \in Nat /\ Limit * (Window - r) \in Nat /\ Limit * Window \in Nat
        BY <1>0, <1>6, <4>1
      <4> HIDE DEF x, r
      <4> QED BY <4>2, <4>3, <4>4
    <3>2. y * Window = 0 /\ x * (Window - r) \in Int
      BY <1>0, <1>1, <1>6, <2>1
    <3> HIDE DEF x, y, r
    <3> QED BY <3>1, <3>2
  <2>2. CASE y # 0
    <3>1. \E i \in A2 : admitted[i].n >= y
      <4> SUFFICES ASSUME \A i \in A2 : ~(admitted[i].n >= y) PROVE FALSE
        OBVIOUS
      <4>1. ASSUME NEW i \in A2
            PROVE  admitted[i].n \in 1..(y - 1) /\ \A j \in A2 \ {i} : admitted[j].n # admitted[i].n
        <5>1. Weighed(i) /\ i \in Of(b)
          BY <1>2, <1>5
        <5>2. admitted[i].n \in 1..Limit /\ \A j \in Of(b) \ {i} : admitted[j].n # admitted[i].n
          BY <5>1 DEF Weighed, Of
        <5>3. admitted[i].n \in 1..(y - 1)
          BY <1>0, <1>6, <5>2
        <5> HIDE DEF A2
        <5> QED BY <1>5, <5>2, <5>3
      <4>2. A2 \subseteq DOMAIN admitted /\ y - 1 \in Nat
        BY <1>6, <2>2
      <4> HIDE DEF A2
      <4>3. Cardinality(A2) <= y - 1
        BY <1>2, <4>1, <4>2, Distinct
      <4> QED BY <1>6, <4>3
    <3>2. PICK i \in A2 : admitted[i].n >= y
      BY <3>1
    <3> DEFINE at == admitted[i].at  s == at % Window  n == admitted[i].n
    <3>3. c * (Window - s) + n * Window <= Limit * Window /\ n \in Nat
      <4>1. Weighed(i) /\ at \div Window = b
        BY <1>2
      <4>2. Sliding(c, n, at) <= Limit * Window /\ n \in 1..Limit
        BY <4>1 DEF Weighed
      <4> QED BY <1>0, <4>2 DEF Sliding
    <3>4. s \in 0..r
      <4>1. at \in 0..RLMaxClock /\ at \in Nat /\ at <= t /\ at \div Window = b
        BY <1>0, <1>3
      <4>2. s \in 0..(Window - 1) /\ at = b * Window + s
        BY <4>1, WindowOf
      <4>3. b * Window \in Nat
        <5>1. \A p \in Nat : p * Window \in Nat
          BY LimiterAssumption
        <5> HIDE DEF b
        <5> QED BY <1>1, <5>1
      <4> HIDE DEF at, s, b, r
      <4> QED BY <1>0, <1>1, <4>1, <4>2, <4>3
    <3> HIDE DEF x, y, c, r, s, n
    <3> QED BY <1>0, <1>1, <1>6, <3>2, <3>3, <3>4, ExcessBelow DEF n
  <2> QED BY <2>1, <2>2
<1>9. Window * (x + y) <= Limit * Window + Limit * r
  <2>1. x <= Limit
    BY <1>0, <1>6, <1>7
  <2> HIDE DEF x, y, c, r
  <2> QED BY <1>0, <1>1, <1>6, <1>8, <2>1, ExcessSum
<1>10. Passed(t + 1 - Window, t) = x + y
  BY <1>6 DEF Passed
<1> HIDE DEF x, y
<1> QED BY <1>9, <1>10

\* Both limiters hold their limit whatever callers, the clock and the cache do
\* (aap/ratelimit.go Allow, ratelimit/limiter.go Check).
THEOREM LimitsTheorem == RLSpec => []LimitsHold
<1>1. RLInv => LimitsHold
  BY WindowLimited, ExcessBounded DEF LimitsHold
<1> QED BY <1>1, RLInvInit, RLInvNext, PTL DEF RLSpec

-----------------------------------------------------------------------------
(* LevelTemplates. *)

\* The bits of the first i digits of s: those of the number the digits write.
DigitsRead(s, i) == {b \in RBACBits : b < 4 * i /\ b % 4 \in DigitBits(s[i - b \div 4])}

MaskLoop(s, v) ==
  v = [i \in 0..Len(s) |->
         IF i = 0 THEN {}
         ELSE ({b + 4 : b \in v[i - 1]} \cap RBACBits) \cup DigitBits(s[i])]

LEMMA NothingRead ==
  ASSUME NEW s PROVE DigitsRead(s, 0) = {}
<1>1. \A b \in RBACBits : ~(b < 0)
  BY DEF RBACBits
<1>2. 4 * 0 = 0
  OBVIOUS
<1> QED BY <1>1, <1>2 DEF DigitsRead

\* One more digit: the bits read move up by four and the digit's come in.
LEMMA DigitComesIn ==
  ASSUME NEW s \in Seq(0..16), Len(s) <= 16, NEW i \in 1..Len(s)
  PROVE  DigitsRead(s, i) = ({b + 4 : b \in DigitsRead(s, i - 1)} \cap RBACBits) \cup DigitBits(s[i])
<1> DEFINE Up == {b + 4 : b \in DigitsRead(s, i - 1)} \cap RBACBits
<1>0. Len(s) \in Nat /\ i \in Nat /\ i >= 1 /\ i <= 16
  OBVIOUS
<1>1. ASSUME NEW b \in DigitsRead(s, i), b < 4
      PROVE  b \in DigitBits(s[i])
  <2>1. b \in 0..63 /\ b \div 4 = 0 /\ b % 4 = b
    BY <1>1 DEF DigitsRead, RBACBits
  <2>2. i - b \div 4 = i
    BY <2>1, <1>0
  <2> QED BY <2>1, <2>2, <1>1 DEF DigitsRead
<1>2. ASSUME NEW b \in DigitsRead(s, i), b >= 4
      PROVE  b \in Up
  <2> DEFINE c == b - 4
  <2>1. b \in 0..63 /\ c \in 0..63 /\ c + 4 = b
    BY <1>2 DEF DigitsRead, RBACBits
  <2>2. c \div 4 = b \div 4 - 1 /\ c % 4 = b % 4 /\ b \div 4 \in Nat
    BY <2>1
  <2>3. b < 4 * i /\ b % 4 \in DigitBits(s[i - b \div 4])
    BY <1>2 DEF DigitsRead
  <2>4. c < 4 * (i - 1)
    BY <2>1, <2>3, <1>0
  <2>5. (i - 1) - c \div 4 = i - b \div 4
    BY <2>2, <1>0
  <2>6. c \in DigitsRead(s, i - 1)
    BY <2>1, <2>2, <2>3, <2>4, <2>5 DEF DigitsRead, RBACBits
  <2> QED BY <2>1, <2>6 DEF RBACBits
<1>3. ASSUME NEW c \in DigitsRead(s, i - 1), c + 4 \in RBACBits
      PROVE  c + 4 \in DigitsRead(s, i)
  <2> DEFINE b == c + 4
  <2>1. b \in 0..63 /\ c \in 0..63 /\ b = c + 4
    BY <1>3 DEF DigitsRead, RBACBits
  <2>2. c \div 4 = b \div 4 - 1 /\ c % 4 = b % 4 /\ b \div 4 \in Nat
    BY <2>1
  <2>3. c < 4 * (i - 1) /\ c % 4 \in DigitBits(s[(i - 1) - c \div 4])
    BY <1>3 DEF DigitsRead
  <2>4. b < 4 * i
    BY <2>1, <2>3, <1>0
  <2>5. (i - 1) - c \div 4 = i - b \div 4
    BY <2>2, <1>0
  <2> QED BY <2>1, <2>2, <2>3, <2>4, <2>5 DEF DigitsRead, RBACBits
<1>4. ASSUME NEW b \in DigitBits(s[i])
      PROVE  b \in DigitsRead(s, i)
  <2>1. b \in 0..3
    BY <1>4 DEF DigitBits
  <2>2. b \div 4 = 0 /\ b % 4 = b /\ b \in 0..63
    BY <2>1
  <2>3. i - b \div 4 = i /\ b < 4 * i
    BY <2>1, <2>2, <1>0
  <2> QED BY <2>2, <2>3, <1>4 DEF DigitsRead, RBACBits
<1>5. \A b \in DigitsRead(s, i) : b < 4 \/ b >= 4
  BY DEF DigitsRead, RBACBits
<1>6. DigitsRead(s, i) \subseteq Up \cup DigitBits(s[i])
  BY <1>1, <1>2, <1>5
<1>7. Up \subseteq DigitsRead(s, i)
  BY <1>3
<1>8. DigitBits(s[i]) \subseteq DigitsRead(s, i)
  BY <1>4
<1> QED BY <1>6, <1>7, <1>8

\* The loop of parseHexMask has a value for every prefix of the digits, the
\* bits of the number they write.
LEMMA LoopReadsDigits ==
  ASSUME NEW s \in Seq(0..16), Len(s) <= 16, NEW v, MaskLoop(s, v)
  PROVE  \A i \in 0..Len(s) : v[i] = DigitsRead(s, i)
<1> DEFINE Wrong == {i \in Nat : i <= Len(s) /\ v[i] # DigitsRead(s, i)}
<1>0. Len(s) \in Nat
  OBVIOUS
<1>1. SUFFICES ASSUME Wrong # {} PROVE FALSE
  BY <1>0
<1>2. PICK i \in Wrong : \A j \in Wrong : ~(<<j, i>> \in OpToRel(<, Nat))
  BY <1>1, WFMin, NatLessThanWellFounded, Zenon
<1>3. \A j \in Nat : j < i => j \notin Wrong
  BY <1>2 DEF OpToRel
<1>4. i \in 0..Len(s) /\ v[i] # DigitsRead(s, i)
  BY <1>0
<1>5. CASE i = 0
  <2>1. v[i] = {}
    BY <1>4, <1>5 DEF MaskLoop
  <2>2. DigitsRead(s, 0) = {}
    BY NothingRead
  <2> QED BY <2>1, <2>2, <1>4, <1>5
<1>6. CASE i # 0
  <2>0. i \in 1..Len(s) /\ i - 1 \in 0..Len(s)
    BY <1>0, <1>4, <1>6
  <2>1. v[i - 1] = DigitsRead(s, i - 1)
    BY <2>0, <1>0, <1>3
  <2>2. v[i] = ({b + 4 : b \in v[i - 1]} \cap RBACBits) \cup DigitBits(s[i])
    BY <1>4, <1>6 DEF MaskLoop
  <2>3. DigitsRead(s, i) = ({b + 4 : b \in DigitsRead(s, i - 1)} \cap RBACBits) \cup DigitBits(s[i])
    BY <2>0, DigitComesIn
  <2> QED BY <2>1, <2>2, <2>3, <1>4
<1> QED BY <1>5, <1>6

LEMMA LoopExists ==
  ASSUME NEW s \in Seq(0..16), Len(s) <= 16
  PROVE  \E v : MaskLoop(s, v)
<1> DEFINE g == [i \in 0..Len(s) |-> DigitsRead(s, i)]
<1>1. ASSUME NEW i \in 0..Len(s)
      PROVE  g[i] = IF i = 0 THEN {}
                    ELSE ({b + 4 : b \in g[i - 1]} \cap RBACBits) \cup DigitBits(s[i])
  <2>1. CASE i = 0
    BY <2>1, NothingRead
  <2>2. CASE i # 0
    <3>1. i \in 1..Len(s) /\ i - 1 \in 0..Len(s)
      BY <2>2
    <3>2. g[i - 1] = DigitsRead(s, i - 1)
      BY <3>1
    <3> QED BY <3>1, <3>2, <2>2, DigitComesIn
  <2> QED BY <2>1, <2>2
<1>2. g = [i \in 0..Len(s) |->
         IF i = 0 THEN {}
         ELSE ({b + 4 : b \in g[i - 1]} \cap RBACBits) \cup DigitBits(s[i])]
  BY <1>1
<1>3. MaskLoop(s, g)
  BY <1>2 DEF MaskLoop
<1> QED BY <1>3

\* parseHexMask yields the number that its digits write in base 16.
LEMMA MaskIsNumber ==
  ASSUME NEW s \in Seq(0..16), HexMaskOK(s)
  PROVE  parseHexMask(s) = {b \in RBACBits : HexBit(s, b)}
<1>0. Len(s) <= 16 /\ Len(s) \in Nat
  BY DEF HexMaskOK
<1>1. PICK v : v = CHOOSE w : MaskLoop(s, w)
  OBVIOUS
<1>2. MaskLoop(s, v)
  BY <1>0, <1>1, LoopExists
<1>3. parseHexMask(s) = v[Len(s)]
  BY <1>1 DEF parseHexMask, MaskLoop
<1>4. v[Len(s)] = DigitsRead(s, Len(s))
  BY <1>0, <1>2, LoopReadsDigits
<1> QED BY <1>3, <1>4 DEF DigitsRead, HexBit

LEMMA DefaultsAreMasks ==
  ASSUME NEW l \in RBACLevels PROVE DefaultMaxPermissions(l) \subseteq RBACBits
BY DEF DefaultMaxPermissions, RBACBits, RBACLevels

\* What file f says of level l.
Says(f, l, max) ==
  \/ /\ \A e \in f.entries : parseLevelName(e.name) # l
     /\ max = DefaultMaxPermissions(l)
  \/ \E e \in f.entries : parseLevelName(e.name) = l /\ max = {b \in RBACBits : HexBit(e.mask, b)}

LEMMA GoodMasks ==
  ASSUME NEW f \in GoodFiles, NEW e \in f.entries
  PROVE  parseHexMask(e.mask) = {b \in RBACBits : HexBit(e.mask, b)}
<1>1. f \in LevelFiles /\ LevelFileOK(f)
  BY DEF GoodFiles, NoEntries
<1>2. e.mask \in Seq(0..16) /\ HexMaskOK(e.mask)
  BY <1>1, RBACAssumption DEF LevelFileOK
<1> QED BY <1>2, MaskIsNumber

\* Every template built from a file says at each level what the file says.
LEMMA BuiltFromFile ==
  ASSUME NEW f \in GoodFiles, NEW tpl \in BuildTemplate(f)
  PROVE  /\ tpl \in [RBACLevels -> SUBSET RBACBits]
         /\ \A l \in RBACLevels : Says(f, l, tpl[l])
<1> DEFINE named == {parseLevelName(e.name) : e \in f.entries}
<1>1. PICK w \in [named -> f.entries] :
        /\ \A l \in named : parseLevelName(w[l].name) = l
        /\ tpl = [l \in RBACLevels |-> IF l \in named THEN parseHexMask(w[l].mask)
                                       ELSE NewDefaultLevelTemplate[l]]
  BY DEF BuildTemplate
<1>2. ASSUME NEW l \in RBACLevels
      PROVE  tpl[l] \subseteq RBACBits /\ Says(f, l, tpl[l])
  <2>1. CASE l \in named
    <3>1. w[l] \in f.entries /\ parseLevelName(w[l].name) = l
      BY <1>1, <2>1
    <3>2. tpl[l] = {b \in RBACBits : HexBit(w[l].mask, b)}
      BY <1>1, <2>1, <3>1, GoodMasks
    <3> QED BY <3>1, <3>2 DEF Says
  <2>2. CASE l \notin named
    <3>1. tpl[l] = DefaultMaxPermissions(l)
      BY <1>1, <2>2 DEF NewDefaultLevelTemplate
    <3>2. \A e \in f.entries : parseLevelName(e.name) # l
      BY <2>2
    <3> QED BY <3>1, <3>2, DefaultsAreMasks DEF Says
  <2> QED BY <2>1, <2>2
<1> QED BY <1>1, <1>2

LEMMA DefaultsFromNoEntries == NewDefaultLevelTemplate \in BuildTemplate(NoEntries)
<1> DEFINE w == [l \in {} |-> {}]
<1> DEFINE named == {parseLevelName(e.name) : e \in NoEntries.entries}
<1>1. named = {}
  BY DEF NoEntries
<1>2. w \in [named -> NoEntries.entries] /\ \A l \in named : parseLevelName(w[l].name) = l
  BY <1>1
<1>3. [l \in RBACLevels |-> IF l \in named THEN parseHexMask(w[l].mask)
                            ELSE NewDefaultLevelTemplate[l]] = NewDefaultLevelTemplate
  BY <1>1 DEF NewDefaultLevelTemplate
<1> HIDE DEF w
<1> QED BY <1>2, <1>3 DEF BuildTemplate

LEMMA BuiltIsOneFile ==
  ASSUME NEW f \in GoodFiles, NEW tpl \in BuildTemplate(f)
  PROVE  FromOneFile(tpl)
BY BuiltFromFile DEF FromOneFile

\* An engine with a template that comes from one file decides by one file.
LEMMA OneFileDecides ==
  ASSUME NEW t \in DOMAIN templates, FromOneFile(templates[t].max)
  PROVE  \E f \in GoodFiles : \A l \in RBACLevels : maxFor(t, l) = {} \/ DecidesBy(t, f, l)
<1>0. PICK f \in GoodFiles : \E tpl \in BuildTemplate(f) : \A l \in RBACLevels :
        templates[t].max[l] = tpl[l] \/ templates[t].max[l] = {}
  BY DEF FromOneFile
<1>1. PICK tpl \in BuildTemplate(f) : \A l \in RBACLevels :
        templates[t].max[l] = tpl[l] \/ templates[t].max[l] = {}
  BY <1>0
<1>2. ASSUME NEW l \in RBACLevels, maxFor(t, l) # {}
      PROVE  DecidesBy(t, f, l)
  <2>1. maxFor(t, l) = tpl[l]
    BY <1>1, <1>2 DEF maxFor
  <2>2. Says(f, l, maxFor(t, l))
    BY <2>1, BuiltFromFile
  <2>3. CASE /\ \A e \in f.entries : parseLevelName(e.name) # l
             /\ maxFor(t, l) = DefaultMaxPermissions(l)
    <3>1. AllowedBits(t, l) = DefaultMaxPermissions(l)
      BY <2>3, DefaultsAreMasks DEF AllowedBits
    <3> QED BY <3>1, <2>3 DEF DecidesBy
  <2>4. ASSUME NEW e \in f.entries, parseLevelName(e.name) = l,
               maxFor(t, l) = {b \in RBACBits : HexBit(e.mask, b)}
        PROVE  DecidesBy(t, f, l)
    <3>1. \A b \in RBACBits : Check(t, b, l) <=> HexBit(e.mask, b)
      BY <2>4 DEF Check
    <3> QED BY <3>1, <2>4 DEF DecidesBy
  <2> QED BY <2>2, <2>3, <2>4 DEF Says
<1> QED BY <1>2

LEMMA EveryTemplate ==
  ASSUME RBACInv
  PROVE  /\ \A t \in DOMAIN templates : templates[t] \in Template
         /\ \A t \in DOMAIN templates : templates[t].from \in Nat
         /\ \A r \in Reloaders : reloading[r].file \in Nat
         /\ levelFile.edits \in Nat
<1>1. \A S : \A s \in Seq(S) : \A j \in DOMAIN s : s[j] \in S
  OBVIOUS
<1>2. templates \in Seq(Template) /\ levelFile.edits \in Nat
      /\ \A r \in Reloaders : reloading[r].file \in Nat
  BY DEF RBACInv, RBACTypeOK
<1>3. \A t \in DOMAIN templates : templates[t] \in Template
  BY <1>1, <1>2, Zenon
<1> QED BY <1>2, <1>3 DEF Template

LEMMA RBACInitInv == RBACInit => RBACInv
<1> SUFFICES ASSUME RBACInit PROVE RBACInv
  OBVIOUS
<1> DEFINE first == NewTemplate(NewDefaultLevelTemplate, 0)
<1>0. NoEntries \in GoodFiles
  BY DEF GoodFiles
<1>1. FromOneFile(NewDefaultLevelTemplate)
  BY <1>0, DefaultsFromNoEntries, BuiltIsOneFile
<1>2. NewDefaultLevelTemplate \in [RBACLevels -> SUBSET RBACBits]
  BY <1>1 DEF FromOneFile
<1>3. first \in Template /\ first.max = NewDefaultLevelTemplate /\ first.from = 0
  BY <1>2 DEF NewTemplate, Template
<1> HIDE DEF first
<1>4. templates = <<first>>
  BY DEF RBACInit, first
<1>5. DOMAIN templates = {1} /\ templates[1] = first
      /\ templates \in Seq(Template)
  BY <1>3, <1>4
<1>6. /\ DOMAIN reloading = Reloaders
      /\ \A r \in Reloaders : reloading[r].file = 0 /\ reloading[r].pc = "idle"
  BY DEF RBACInit, NotReloading
<1>7. levelFile \in [content : LevelFiles, edits : Nat] /\ levelFile.edits = 1
  BY DEF RBACInit
<1>8. RBACTypeOK
  <2>1. loaderTpl = 1 /\ engineTpl = 1 /\ overlapped \in BOOLEAN
    BY DEF RBACInit
  <2> QED BY <2>1, <1>5, <1>6, <1>7 DEF RBACTypeOK
<1>9. TemplatesInv
  BY <1>1, <1>3, <1>5, <1>6 DEF TemplatesInv
<1>10. NewestInv
  BY <1>3, <1>5, <1>6, <1>7 DEF NewestInv
<1>11. NewestReloadWins
  BY <1>3, <1>5 DEF NewestReloadWins, RBACInit
<1> QED BY <1>8, <1>9, <1>10, <1>11 DEF RBACInv

\* A reload stores a new template.
LEMMA StoreKeeps ==
  ASSUME RBACInv, NEW r \in Reloaders, ReloadStore(r) PROVE RBACInv'
<1> DEFINE tpl == NewTemplate(reloading[r].tpl, reloading[r].file)
<1> DEFINE n == Len(templates)
<1>0. reloading[r].pc = "store" /\ levelFile' = levelFile /\ engineTpl' = engineTpl
  BY DEF ReloadStore
<1>1. FromOneFile(reloading[r].tpl) /\ reloading[r].file \in Nat
  BY <1>0 DEF RBACInv, RBACTypeOK, TemplatesInv
<1>2. tpl \in Template /\ tpl.max = reloading[r].tpl /\ tpl.from = reloading[r].file
  BY <1>1 DEF NewTemplate, FromOneFile, Template
<1>3. templates \in Seq(Template) /\ n \in Nat
  BY DEF RBACInv, RBACTypeOK
<1> HIDE DEF tpl
<1>4. templates' = Append(templates, tpl)
  BY DEF ReloadStore, tpl
<1>5. /\ templates' \in Seq(Template) /\ DOMAIN templates' = 1..(n + 1) /\ DOMAIN templates = 1..n
      /\ loaderTpl' = n + 1 /\ templates'[n + 1] = tpl
      /\ \A t \in 1..n : templates'[t] = templates[t]
  BY <1>2, <1>3, <1>4 DEF ReloadStore
<1> HIDE DEF n
<1>6. /\ DOMAIN reloading' = Reloaders
      /\ reloading'[r] = NotReloading
      /\ \A q \in Reloaders \ {r} : reloading'[q] = reloading[q]
  BY DEF ReloadStore, RBACInv, RBACTypeOK
<1>7. \A q \in Reloaders : /\ reloading'[q].pc = "store" => q # r /\ reloading[q].pc = "store"
                           /\ reloading'[q].file = reloading[q].file \/ reloading'[q].file = 0
  BY <1>6 DEF NotReloading
<1>8. ~overlapped' => ~overlapped /\ \A q \in Reloaders \ {r} : reloading[q].pc # "store"
  BY DEF ReloadStore
<1>9. RBACTypeOK'
  <2>1. loaderTpl' \in DOMAIN templates' /\ engineTpl' \in DOMAIN templates'
    BY <1>0, <1>3, <1>5 DEF RBACInv, RBACTypeOK
  <2>2. overlapped' \in BOOLEAN
    BY DEF ReloadStore, RBACInv, RBACTypeOK
  <2>3. \A q \in Reloaders : reloading'[q].file \in Nat
    BY <1>7 DEF RBACInv, RBACTypeOK
  <2> QED BY <1>0, <1>5, <1>6, <2>1, <2>2, <2>3 DEF RBACInv, RBACTypeOK
<1>10. TemplatesInv'
  <2>1. \A t \in 1..n : FromOneFile(templates'[t].max)
    BY <1>5 DEF RBACInv, TemplatesInv
  <2>2. FromOneFile(templates'[n + 1].max)
    BY <1>1, <1>2, <1>5
  <2>3. \A q \in Reloaders : reloading'[q].pc = "store" => FromOneFile(reloading'[q].tpl)
    BY <1>6, <1>7 DEF RBACInv, TemplatesInv
  <2>4. \A t \in 1..(n + 1) : t \in 1..n \/ t = n + 1
    BY <1>3
  <2> QED BY <2>1, <2>2, <2>3, <2>4, <1>5 DEF TemplatesInv
<1>11. levelFile.edits \in Nat /\ \A t \in DOMAIN templates : templates[t].from \in Nat
  BY EveryTemplate
<1>12. \A t \in 1..(n + 1) : t \in 1..n \/ t = n + 1
  BY <1>3
<1>13. NewestInv'
  <2>1. \A t \in DOMAIN templates' : templates'[t].from <= levelFile'.edits
    BY <1>0, <1>2, <1>5, <1>12 DEF RBACInv, NewestInv
  <2>2. \A q \in Reloaders : reloading'[q].file <= levelFile'.edits
    BY <1>0, <1>7, <1>11 DEF RBACInv, NewestInv
  <2>3. \A q \in Reloaders : ~overlapped' => reloading'[q].pc # "store"
    BY <1>7, <1>8
  <2> QED BY <2>1, <2>2, <2>3 DEF NewestInv
<1>14. NewestReloadWins'
  <2>1. SUFFICES ASSUME ~overlapped', NEW t \in DOMAIN templates'
                 PROVE  templates'[t].from <= templates'[loaderTpl'].from
    BY DEF NewestReloadWins
  <2>2. templates'[loaderTpl'].from = reloading[r].file
    BY <1>2, <1>5
  <2>3. CASE t \in 1..n
    BY <2>1, <2>2, <2>3, <1>0, <1>5, <1>8 DEF RBACInv, NewestInv
  <2>4. CASE t = n + 1
    BY <2>2, <2>4, <1>1, <1>2, <1>5
  <2> QED BY <2>1, <2>3, <2>4, <1>5, <1>12
<1> QED BY <1>9, <1>10, <1>13, <1>14 DEF RBACInv

\* A reload reads the file of the moment, which is as new as every template.
LEMMA ReadKeeps ==
  ASSUME RBACInv, NEW r \in Reloaders, ReloadRead(r) PROVE RBACInv'
<1>1. /\ levelFile' = levelFile /\ templates' = templates /\ loaderTpl' = loaderTpl
      /\ engineTpl' = engineTpl /\ overlapped' = overlapped
  BY DEF ReloadRead
<1>2. CASE reloading' = reloading
  BY <1>1, <1>2 DEF RBACInv, RBACTypeOK, TemplatesInv, NewestInv, NewestReloadWins
<1>3. ASSUME LevelFileOK(levelFile.content), NEW tpl \in BuildTemplate(levelFile.content),
             reloading' = [reloading EXCEPT ![r] =
               [pc |-> "store", file |-> levelFile.edits, tpl |-> tpl]]
      PROVE  RBACInv'
  <2>1. levelFile.content \in GoodFiles /\ levelFile.edits \in Nat
    BY <1>3 DEF RBACInv, RBACTypeOK, GoodFiles
  <2>2. FromOneFile(tpl)
    BY <2>1, BuiltIsOneFile
  <2>3. /\ DOMAIN reloading' = Reloaders
        /\ reloading'[r].file = levelFile.edits /\ reloading'[r].tpl = tpl
        /\ \A q \in Reloaders \ {r} : reloading'[q] = reloading[q]
    BY <1>3 DEF RBACInv, RBACTypeOK
  <2>4. RBACTypeOK'
    BY <1>1, <2>1, <2>3 DEF RBACInv, RBACTypeOK
  <2>5. TemplatesInv'
    BY <1>1, <2>2, <2>3 DEF RBACInv, TemplatesInv
  <2>6. NewestInv'
    BY <1>1, <2>1, <2>3 DEF RBACInv, NewestInv
  <2>7. NewestReloadWins'
    BY <1>1 DEF RBACInv, NewestReloadWins
  <2> QED BY <2>4, <2>5, <2>6, <2>7 DEF RBACInv
<1> QED BY <1>2, <1>3 DEF ReloadRead

\* Set empties one mask of one template.
LEMMA SetKeeps == ASSUME RBACInv, SetLevel PROVE RBACInv'
<1>0. /\ levelFile' = levelFile /\ loaderTpl' = loaderTpl /\ engineTpl' = engineTpl
      /\ reloading' = reloading /\ overlapped' = overlapped
  BY DEF SetLevel
<1>1. templates \in Seq(Template) /\ loaderTpl \in DOMAIN templates
  BY DEF RBACInv, RBACTypeOK
<1>2. \A t \in DOMAIN templates : templates[t] \in Template
  BY EveryTemplate
<1> DEFINE old == templates[loaderTpl]
<1> DEFINE new == [old EXCEPT !.max[3] = {}]
<1>3. templates' = [templates EXCEPT ![loaderTpl] = new]
  BY DEF SetLevel
<1>4. old \in Template
  BY <1>1, <1>2
<1>5. /\ new \in Template /\ new.from = old.from /\ new.max[3] = {}
      /\ \A l \in RBACLevels : l # 3 => new.max[l] = old.max[l]
  BY <1>4 DEF RBACLevels, Template
<1>6. FromOneFile(old.max)
  BY <1>1 DEF RBACInv, TemplatesInv
<1> HIDE DEF new, old
<1>7. FromOneFile(new.max)
  <2>1. PICK f \in GoodFiles : \E tpl \in BuildTemplate(f) : \A l \in RBACLevels :
          old.max[l] = tpl[l] \/ (l = 3 /\ old.max[l] = {})
    BY <1>6 DEF FromOneFile
  <2>2. PICK tpl \in BuildTemplate(f) : \A l \in RBACLevels :
          old.max[l] = tpl[l] \/ (l = 3 /\ old.max[l] = {})
    BY <2>1
  <2>3. \A l \in RBACLevels : new.max[l] = tpl[l] \/ (l = 3 /\ new.max[l] = {})
    BY <2>2, <1>5
  <2>4. new.max \in [RBACLevels -> SUBSET RBACBits]
    BY <1>5 DEF Template
  <2> QED BY <2>3, <2>4 DEF FromOneFile
<1>8. /\ templates' \in Seq(Template) /\ DOMAIN templates' = DOMAIN templates
      /\ templates'[loaderTpl] = new
      /\ \A t \in DOMAIN templates : t # loaderTpl => templates'[t] = templates[t]
  BY <1>1, <1>3, <1>5
<1>9. \A t \in DOMAIN templates : templates'[t].from = templates[t].from
  BY <1>5, <1>8 DEF old
<1>10. RBACTypeOK'
  BY <1>0, <1>8 DEF RBACInv, RBACTypeOK
<1>11. TemplatesInv'
  BY <1>0, <1>7, <1>8 DEF RBACInv, TemplatesInv
<1>12. NewestInv'
  BY <1>0, <1>8, <1>9 DEF RBACInv, NewestInv
<1>13. NewestReloadWins'
  BY <1>0, <1>1, <1>8, <1>9 DEF RBACInv, NewestReloadWins
<1> QED BY <1>10, <1>11, <1>12, <1>13 DEF RBACInv

LEMMA RBACStep == RBACInv /\ [RBACNext]_rbacVars => RBACInv'
<1> SUFFICES ASSUME RBACInv, [RBACNext]_rbacVars PROVE RBACInv'
  OBVIOUS
<1>1. CASE EditFile
  <2>1. /\ templates' = templates /\ loaderTpl' = loaderTpl /\ engineTpl' = engineTpl
        /\ reloading' = reloading /\ overlapped' = overlapped
    BY <1>1 DEF EditFile
  <2>2. levelFile.edits \in Nat /\ levelFile' \in [content : LevelFiles, edits : Nat]
        /\ levelFile'.edits = levelFile.edits + 1
    BY <1>1 DEF EditFile, RBACInv, RBACTypeOK
  <2>3. RBACTypeOK'
    BY <2>1, <2>2 DEF RBACInv, RBACTypeOK
  <2>4. TemplatesInv' /\ NewestReloadWins'
    BY <2>1 DEF RBACInv, TemplatesInv, NewestReloadWins
  <2>5. (\A t \in DOMAIN templates : templates[t].from \in Nat)
        /\ \A r \in Reloaders : reloading[r].file \in Nat
    BY EveryTemplate
  <2>6. NewestInv'
    BY <2>1, <2>2, <2>5 DEF RBACInv, NewestInv
  <2> QED BY <2>3, <2>4, <2>6 DEF RBACInv
<1>2. CASE NewEngine
  BY <1>2 DEF NewEngine, RBACInv, RBACTypeOK, TemplatesInv, NewestInv, NewestReloadWins
<1>3. CASE SetLevel
  BY <1>3, SetKeeps
<1>4. CASE \E r \in Reloaders : ReloadRead(r) \/ ReloadStore(r)
  BY <1>4, ReadKeeps, StoreKeeps
<1>5. CASE UNCHANGED rbacVars
  BY <1>5 DEF rbacVars, RBACInv, RBACTypeOK, TemplatesInv, NewestInv, NewestReloadWins
<1> QED BY <1>1, <1>2, <1>3, <1>4, <1>5 DEF RBACNext

\* However reloads, edits of the file and new engines interleave, an engine
\* decides by what one file says at all levels, hex masks included, and only
\* overlapping reloads bring an older file back.
THEOREM ReloadTheorem == RBACSpec => []ReloadIsAtomic
<1>1. RBACInv => ReloadIsAtomic
  BY OneFileDecides DEF RBACInv, RBACTypeOK, TemplatesInv, ReloadIsAtomic, EngineDecidesByOneFile
<1> QED BY <1>1, RBACInitInv, RBACStep, PTL DEF RBACSpec

-----------------------------------------------------------------------------
(* MoltCaptcha: sums. *)

\* A set of numbers has a least element.
LEMMA LeastOf ==
  ASSUME NEW T \in SUBSET Nat, T # {}
  PROVE  \E m \in T : \A j \in Nat : j < m => j \notin T
<1>1. PICK m \in T : \A j \in T : ~(<<j, m>> \in OpToRel(<, Nat))
  BY NatLessThanWellFounded, WFMin
<1>2. \A j \in Nat : j < m => j \notin T
  BY <1>1 DEF OpToRel
<1> QED BY <1>2

\* What the recursive function in SumOf is, on the first n elements of w.
Sums(w, n, sum) == sum = [i \in 0..n |-> IF i = 0 THEN 0 ELSE sum[i - 1] + w[i]]

LEMMA SumsNext ==
  ASSUME NEW w, NEW n \in Nat, NEW sum, Sums(w, n, sum)
  PROVE  \E more : Sums(w, n + 1, more)
<1> DEFINE more == [i \in 0..(n + 1) |-> IF i <= n THEN sum[i] ELSE sum[n] + w[n + 1]]
<1>1. ASSUME NEW i \in 0..(n + 1)
      PROVE  more[i] = IF i = 0 THEN 0 ELSE more[i - 1] + w[i]
  <2>0. i \in Nat /\ n \in Nat
    OBVIOUS
  <2>1. CASE i = n + 1
    <3>1. more[i] = sum[n] + w[n + 1]
      BY <2>1
    <3>2. more[n] = sum[n]
      OBVIOUS
    <3> QED BY <2>1, <3>1, <3>2
  <2>2. CASE i # n + 1
    <3>1. i \in 0..n /\ more[i] = sum[i]
      BY <2>2
    <3>2. sum[i] = IF i = 0 THEN 0 ELSE sum[i - 1] + w[i]
      BY <3>1 DEF Sums
    <3>3. i # 0 => more[i - 1] = sum[i - 1]
      BY <3>1
    <3> QED BY <3>1, <3>2, <3>3
  <2> QED BY <2>1, <2>2
<1>2. more = [i \in 0..(n + 1) |-> IF i = 0 THEN 0 ELSE more[i - 1] + w[i]]
  BY <1>1
<1> QED BY <1>2 DEF Sums

\* The recursive definition of SumOf has a solution.
LEMMA SumsExist == ASSUME NEW w, NEW n \in Nat PROVE \E sum : Sums(w, n, sum)
<1> DEFINE Wrong == {m \in Nat : ~\E sum : Sums(w, m, sum)}
<1>1. SUFFICES ASSUME Wrong # {} PROVE FALSE
  OBVIOUS
<1>2. Wrong \in SUBSET Nat
  OBVIOUS
<1>3. PICK m \in Wrong : \A j \in Nat : j < m => j \notin Wrong
  BY <1>1, <1>2, LeastOf, Zenon
<1>4. CASE m = 0
  <2>1. Sums(w, 0, [i \in 0..0 |-> 0])
    BY DEF Sums
  <2> QED BY <2>1, <1>4
<1>5. CASE m # 0
  <2>1. m - 1 \in Nat /\ m - 1 < m /\ (m - 1) + 1 = m
    BY <1>5
  <2>2. PICK sum : Sums(w, m - 1, sum)
    BY <2>1, <1>3
  <2> QED BY <2>1, <2>2, SumsNext
<1> QED BY <1>4, <1>5

LEMMA SumsAreNumbers ==
  ASSUME NEW w \in Seq(Nat), NEW sum, Sums(w, Len(w), sum)
  PROVE  \A i \in 0..Len(w) : sum[i] \in Nat
<1> DEFINE Wrong == {m \in Nat : m <= Len(w) /\ sum[m] \notin Nat}
<1>0. Len(w) \in Nat
  OBVIOUS
<1>1. SUFFICES ASSUME Wrong # {} PROVE FALSE
  BY <1>0
<1>2. Wrong \in SUBSET Nat
  OBVIOUS
<1>3. PICK m \in Wrong : \A j \in Nat : j < m => j \notin Wrong
  BY <1>1, <1>2, LeastOf, Zenon
<1>4. sum[m] = IF m = 0 THEN 0 ELSE sum[m - 1] + w[m]
  BY <1>0 DEF Sums
<1>5. CASE m = 0
  BY <1>4, <1>5
<1>6. CASE m # 0
  <2>1. sum[m - 1] \in Nat
    BY <1>0, <1>3, <1>6
  <2>2. w[m] \in Nat
    BY <1>0, <1>6
  <2> QED BY <2>1, <2>2, <1>4, <1>6
<1> QED BY <1>5, <1>6

LEMMA SumOfSums ==
  ASSUME NEW w \in Seq(Nat)
  PROVE  \E sum : Sums(w, Len(w), sum) /\ SumOf(w) = sum[Len(w)]
<1>0. Len(w) \in Nat
  OBVIOUS
<1>1. PICK sum : sum = CHOOSE x : Sums(w, Len(w), x)
  OBVIOUS
<1>2. Sums(w, Len(w), sum)
  BY <1>0, <1>1, SumsExist
<1>3. SumOf(w) = sum[Len(w)]
  BY <1>1 DEF SumOf, Sums
<1> QED BY <1>2, <1>3

LEMMA SumOfType == ASSUME NEW w \in Seq(Nat) PROVE SumOf(w) \in Nat
<1>1. PICK sum : Sums(w, Len(w), sum) /\ SumOf(w) = sum[Len(w)]
  BY SumOfSums
<1>2. Len(w) \in 0..Len(w)
  OBVIOUS
<1> QED BY <1>1, <1>2, SumsAreNumbers

\* h times the same number.
LEMMA SumOfRepeated ==
  ASSUME NEW h \in 1..4, NEW x \in Nat
  PROVE  SumOf([i \in 1..h |-> x]) = h * x
<1> DEFINE w == [i \in 1..h |-> x]
<1>1. w \in Seq(Nat) /\ Len(w) = h /\ \A i \in 1..h : w[i] = x
  OBVIOUS
<1>2. PICK sum : Sums(w, Len(w), sum) /\ SumOf(w) = sum[Len(w)]
  BY <1>1, SumOfSums
<1>3. SumOf(w) = sum[h]
  BY <1>1, <1>2
<1>4. \A i \in 0..h : sum[i] = IF i = 0 THEN 0 ELSE sum[i - 1] + x
  BY <1>1, <1>2 DEF Sums
<1> HIDE DEF w
<1>5. sum[0] = 0 /\ sum[1] = x
  BY <1>4
<1>6. h >= 2 => sum[2] = x + x
  BY <1>4, <1>5
<1>7. h >= 3 => sum[3] = x + x + x
  BY <1>4, <1>6
<1>8. h >= 4 => sum[4] = x + x + x + x
  BY <1>4, <1>7
<1>9. h = 1 \/ h = 2 \/ h = 3 \/ h = 4
  OBVIOUS
<1>10. SumOf(w) = h * x
  BY <1>3, <1>5, <1>6, <1>7, <1>8, <1>9
<1> QED BY <1>10 DEF w

\* Every task has an answer.
LEMMA TopicSolves ==
  ASSUME NEW c, c.hops \in 1..4, c.topic \in Seq(Alphabet),
         ASCIIOffset = 0, TrimSpace(c.topic) = c.topic, c.topic # <<>>,
         totalCharsMin(c) <= c.hops * Len(c.topic), c.hops * Len(c.topic) <= totalCharsMax(c),
         commonCharCount(c.topic, c.topic) >= SemanticMinOverlap
  PROVE  RulesAccept(c, [h \in 1..c.hops |-> c.topic])
<1>1. PICK topic : topic = c.topic
  OBVIOUS
<1>2. PICK n \in 1..4 : n = c.hops
  OBVIOUS
<1>3. PICK words : words = [h \in 1..n |-> topic]
  OBVIOUS
<1>4. Len(words) = n /\ DOMAIN words = 1..n /\ \A i \in 1..n : words[i] = topic
  BY <1>3
<1>5. TrimSpace(topic) = topic /\ Len(topic) \in Nat /\ topic \in Seq(Nat)
  BY <1>1 DEF Alphabet
<1>6. totalChars(words) = n * Len(topic)
  <2>1. [i \in DOMAIN words |-> Len(TrimSpace(words[i]))] = [i \in 1..n |-> Len(topic)]
    BY <1>4, <1>5
  <2> QED BY <2>1, <1>5, SumOfRepeated DEF totalChars
<1>7. asciiSum(words) = n * SumOf(topic) /\ SumOf(topic) \in Nat
  <2>1. [i \in DOMAIN words |-> SumOf(TrimSpace(words[i]))] = [i \in 1..n |-> SumOf(topic)]
    BY <1>4, <1>5
  <2>2. SumOf(topic) \in Nat
    BY <1>5, SumOfType
  <2> QED BY <2>1, <2>2, SumOfRepeated DEF asciiSum
<1>8. totalCharsOK(c, words)
  BY <1>1, <1>2, <1>6 DEF totalCharsOK
<1>9. asciiSum(words) = expectedASCIISum(c)
  <2>1. expectedASCIISum(c) = SumOf(topic) * n + 0
    BY <1>1, <1>2 DEF expectedASCIISum
  <2>2. PICK x \in Nat : x = SumOf(topic)
    BY <1>7
  <2>3. x * n + 0 = n * x
    OBVIOUS
  <2> QED BY <2>1, <2>2, <2>3, <1>7
<1>10. checkCharPositions(c, words)
  <2>1. topic # <<>>
    BY <1>1
  <2>2. words[1] = topic /\ words[Len(words)] = topic
    BY <1>4
  <2> QED BY <2>1, <2>2, <1>1, <1>5 DEF checkCharPositions
<1>11. checkSemantic(words)
  <2>1. \A i \in 1..(Len(words) - 1) : words[i] = topic /\ words[i + 1] = topic
    BY <1>4
  <2> QED BY <2>1, <1>1, <1>5 DEF checkSemantic
<1>12. RulesAccept(c, words)
  BY <1>2, <1>4, <1>8, <1>9, <1>10, <1>11 DEF RulesAccept
<1> QED BY <1>1, <1>2, <1>3, <1>12

-----------------------------------------------------------------------------
(* MoltCaptcha: the Matcher. *)

Text == Seq(Alphabet)

LEMMA LowerTypes ==
  /\ \A c \in Alphabet : lower(c) \in Alphabet /\ (lower(c) = 0 <=> c = 0)
  /\ lower(0) = 0
BY DEF lower, Alphabet

LEMMA ToLowerText ==
  ASSUME NEW w \in Text
  PROVE  /\ ToLower(w) \in Text /\ Len(ToLower(w)) = Len(w)
         /\ \A i \in 1..Len(w) : ToLower(w)[i] = lower(w[i])
<1>1. \A i \in DOMAIN w : lower(w[i]) \in Alphabet
  BY LowerTypes DEF Text
<1>2. DOMAIN w = 1..Len(w) /\ Len(w) \in Nat
  BY DEF Text
<1> QED BY <1>1, <1>2 DEF ToLower, Text

\* b stands in a, from position o on.
Inside(a, b, o) ==
  /\ o \in Nat /\ o + Len(b) <= Len(a)
  /\ \A i \in 1..Len(b) : a[o + i] = b[i]

LEMMA InsideLower ==
  ASSUME NEW a \in Text, NEW b \in Text, NEW o, Inside(a, b, o)
  PROVE  Inside(ToLower(a), ToLower(b), o)
<1>1. Len(a) \in Nat /\ Len(b) \in Nat /\ o \in Nat /\ o + Len(b) <= Len(a)
  BY DEF Inside, Text
<1>2. ASSUME NEW i \in 1..Len(b)
      PROVE  ToLower(a)[o + i] = ToLower(b)[i]
  <2>1. o + i \in 1..Len(a)
    BY <1>1
  <2> QED BY <2>1, ToLowerText DEF Inside
<1> QED BY <1>1, <1>2, ToLowerText DEF Inside

\* What is found in a part is found in the whole.
LEMMA FoundInWhole ==
  ASSUME NEW a \in Text, NEW b \in Text, NEW o, Inside(a, b, o), NEW k \in Text,
         HasSubstring(b, k)
  PROVE  HasSubstring(a, k)
<1>1. /\ Len(a) \in Nat /\ Len(b) \in Nat /\ Len(k) \in Nat /\ o \in Nat
      /\ o + Len(b) <= Len(a)
  BY DEF Inside, Text
<1>2. PICK i \in 0..(Len(b) - Len(k)) : \A j \in 1..Len(k) : b[i + j] = k[j]
  BY DEF HasSubstring
<1>3. o + i \in 0..(Len(a) - Len(k))
  BY <1>1
<1>4. ASSUME NEW j \in 1..Len(k) PROVE a[(o + i) + j] = k[j]
  <2>1. i + j \in 1..Len(b) /\ o + (i + j) = (o + i) + j
    BY <1>1
  <2>2. a[o + (i + j)] = b[i + j]
    BY <2>1 DEF Inside
  <2> QED BY <2>1, <2>2, <1>2
<1> QED BY <1>3, <1>4 DEF HasSubstring

\* A sequence and what follows it.
LEMMA Concatenation ==
  ASSUME NEW S, NEW s \in Seq(S), NEW t \in Seq(S)
  PROVE  /\ s \o t \in Seq(S) /\ Len(s \o t) = Len(s) + Len(t)
         /\ \A i \in 1..Len(s) : (s \o t)[i] = s[i]
         /\ \A i \in 1..Len(t) : (s \o t)[Len(s) + i] = t[i]
<1>0. Len(s) \in Nat /\ Len(t) \in Nat
  OBVIOUS
<1>1. /\ s \o t \in Seq(S) /\ Len(s \o t) = Len(s) + Len(t)
      /\ \A i \in 1..(Len(s) + Len(t)) :
           (s \o t)[i] = IF i <= Len(s) THEN s[i] ELSE t[i - Len(s)]
  BY ConcatProperties
<1> DEFINE st == s \o t
<1> DEFINE ls == Len(s)
<1> DEFINE lt == Len(t)
<1> HIDE DEF st, ls, lt
<1>2. /\ ls \in Nat /\ lt \in Nat
      /\ \A i \in 1..(ls + lt) : st[i] = IF i <= ls THEN s[i] ELSE t[i - ls]
  BY <1>0, <1>1 DEF st, ls, lt
<1>3. \A i \in 1..ls : st[i] = s[i]
  BY <1>2
<1>4. \A i \in 1..lt : st[ls + i] = t[i]
  <2> TAKE i \in 1..lt
  <2>1. ls + i \in 1..(ls + lt) /\ ~(ls + i <= ls) /\ (ls + i) - ls = i
    BY <1>2
  <2> QED BY <2>1, <1>2
<1> QED BY <1>1, <1>3, <1>4 DEF st, ls, lt

\* The words between a and b are a, one space, b.
Spaced(a, b) == a \o <<0>> \o b

LEMMA SpacedText ==
  ASSUME NEW a \in Text, NEW b \in Text
  PROVE  /\ Spaced(a, b) \in Text
         /\ Len(Spaced(a, b)) = Len(a) + 1 + Len(b)
         /\ \A i \in 1..Len(a) : Spaced(a, b)[i] = a[i]
         /\ Spaced(a, b)[Len(a) + 1] = 0
         /\ \A i \in 1..Len(b) : Spaced(a, b)[(Len(a) + 1) + i] = b[i]
<1>1. <<0>> \in Text /\ Len(<<0>>) = 1 /\ <<0>>[1] = 0
  BY DEF Text, Alphabet
<1>2. PICK z \in Text : z = <<0>>
  BY <1>1
<1>3. Len(z) = 1 /\ z[1] = 0
  BY <1>1, <1>2
<1>4. PICK az : az = a \o z
  OBVIOUS
<1>5. /\ az \in Text /\ Len(az) = Len(a) + 1
      /\ (\A i \in 1..Len(a) : az[i] = a[i]) /\ az[Len(a) + 1] = 0
  <2>1. /\ az \in Text /\ Len(az) = Len(a) + Len(z)
        /\ (\A i \in 1..Len(a) : az[i] = a[i]) /\ \A i \in 1..Len(z) : az[Len(a) + i] = z[i]
    BY <1>4, Concatenation DEF Text
  <2>2. 1 \in 1..Len(z)
    BY <1>3
  <2> QED BY <2>1, <2>2, <1>3
<1>6. PICK sp : sp = az \o b
  OBVIOUS
<1>11. Spaced(a, b) = sp
  BY <1>2, <1>4, <1>6 DEF Spaced
<1>7. /\ Len(a) \in Nat /\ Len(b) \in Nat
  BY DEF Text
<1>8. /\ sp \in Text /\ Len(sp) = Len(az) + Len(b)
      /\ \A i \in 1..Len(az) : sp[i] = az[i]
      /\ \A i \in 1..Len(b) : sp[Len(az) + i] = b[i]
  <2>1. az \in Text
    BY <1>5
  <2> QED BY <2>1, <1>6, Concatenation DEF Text
<1>9. \A i \in 1..Len(a) : i \in 1..Len(az)
  BY <1>5, <1>7
<1>10. Len(a) + 1 \in 1..Len(az)
  BY <1>5, <1>7
<1> QED BY <1>5, <1>7, <1>8, <1>9, <1>10, <1>11

LEMMA SpacedInside ==
  ASSUME NEW a \in Text, NEW b \in Text
  PROVE  Inside(Spaced(a, b), a, 0) /\ Inside(Spaced(a, b), b, Len(a) + 1)
<1>1. Len(a) \in Nat /\ Len(b) \in Nat
  BY DEF Text
<1>2. PICK s \in Text :
        /\ s = Spaced(a, b) /\ Len(s) = Len(a) + 1 + Len(b)
        /\ \A i \in 1..Len(a) : s[i] = a[i]
        /\ \A i \in 1..Len(b) : s[(Len(a) + 1) + i] = b[i]
  BY SpacedText
<1>3. \A i \in 1..Len(a) : 0 + i = i
  OBVIOUS
<1>4. Inside(s, a, 0)
  BY <1>1, <1>2, <1>3 DEF Inside
<1>5. Inside(s, b, Len(a) + 1)
  BY <1>1, <1>2 DEF Inside
<1> QED BY <1>2, <1>4, <1>5

\* A word without a space that is found in the whole is found in a part.
LEMMA FoundInPart ==
  ASSUME NEW a \in Text, NEW b \in Text, NEW k \in Text,
         \A j \in 1..Len(k) : k[j] # 0,
         HasSubstring(ToLower(Spaced(a, b)), k)
  PROVE  HasSubstring(ToLower(a), k) \/ HasSubstring(ToLower(b), k)
<1> DEFINE A == Len(a)
<1> DEFINE B == Len(b)
<1> DEFINE K == Len(k)
<1>0. A \in Nat /\ B \in Nat /\ K \in Nat
  BY DEF Text
<1>1. PICK s \in Text :
        /\ s = Spaced(a, b) /\ Len(s) = A + 1 + B
        /\ \A i \in 1..A : s[i] = a[i]
        /\ s[A + 1] = 0
        /\ \A i \in 1..B : s[(A + 1) + i] = b[i]
  BY SpacedText
<1> DEFINE ls == ToLower(s)
<1> DEFINE la == ToLower(a)
<1> DEFINE lb == ToLower(b)
<1>2. /\ Len(ls) = A + 1 + B /\ Len(la) = A /\ Len(lb) = B
      /\ \A i \in 1..A : ls[i] = la[i]
      /\ ls[A + 1] = 0
      /\ \A i \in 1..B : ls[(A + 1) + i] = lb[i]
  <2>1. /\ Len(ls) = A + 1 + B /\ Len(la) = A /\ Len(lb) = B
        /\ \A i \in 1..(A + 1 + B) : ls[i] = lower(s[i])
    BY <1>1, ToLowerText
  <2>2. \A i \in 1..A : la[i] = lower(a[i])
    BY ToLowerText
  <2>3. \A i \in 1..B : lb[i] = lower(b[i])
    BY ToLowerText
  <2> HIDE DEF ls, la, lb
  <2>4. \A i \in 1..A : i \in 1..(A + 1 + B)
    BY <1>0
  <2>5. \A i \in 1..B : (A + 1) + i \in 1..(A + 1 + B)
    BY <1>0
  <2>6. A + 1 \in 1..(A + 1 + B)
    BY <1>0
  <2> HIDE DEF A, B
  <2> QED BY <2>1, <2>2, <2>3, <2>4, <2>5, <2>6, <1>1, LowerTypes
<1>3. HasSubstring(ls, k)
  BY <1>1
<1> HIDE DEF ls, la, lb
<1>4. PICK i \in 0..(Len(ls) - K) : \A j \in 1..K : ls[i + j] = k[j]
  BY <1>3 DEF HasSubstring
<1>5. \A j \in 1..K : k[j] # 0
  OBVIOUS
<1> HIDE DEF A, B, K
<1>6. i \in Nat /\ i + K <= A + 1 + B
  BY <1>0, <1>2, <1>4
<1>7. CASE i + K <= A
  <2>1. i \in 0..(A - K)
    BY <1>0, <1>6, <1>7
  <2>2. ASSUME NEW j \in 1..K PROVE la[i + j] = k[j]
    <3>1. i + j \in 1..A
      BY <1>0, <1>6, <1>7
    <3> QED BY <3>1, <1>2, <1>4
  <2>3. HasSubstring(la, k)
    BY <2>1, <2>2, <1>2 DEF HasSubstring, K
  <2> QED BY <2>3 DEF la
<1>8. CASE i > A
  <2>1. PICK o \in Nat : i = (A + 1) + o
    <3>1. i - (A + 1) \in Nat /\ i = (A + 1) + (i - (A + 1))
      BY <1>0, <1>6, <1>8
    <3> QED BY <3>1
  <2>2. o \in 0..(B - K)
    BY <1>0, <1>6, <2>1
  <2>3. ASSUME NEW j \in 1..K PROVE lb[o + j] = k[j]
    <3>1. o + j \in 1..B /\ (A + 1) + (o + j) = i + j
      BY <1>0, <1>6, <2>1
    <3> QED BY <3>1, <1>2, <1>4
  <2>4. HasSubstring(lb, k)
    BY <2>2, <2>3, <1>2 DEF HasSubstring, K
  <2> QED BY <2>4 DEF lb
<1>9. CASE i <= A /\ i + K > A
  <2>1. (A + 1) - i \in 1..K /\ i + ((A + 1) - i) = A + 1
    BY <1>0, <1>6, <1>9
  <2>2. ls[A + 1] = k[(A + 1) - i]
    BY <2>1, <1>4
  <2> QED BY <2>1, <2>2, <1>2, <1>5
<1> QED BY <1>0, <1>6, <1>7, <1>8, <1>9

\* What the recursive function in Joined is, on the first n words.
Joins(words, n, join) ==
  join = [i \in 0..n |->
    CASE i = 0 -> <<>> [] i = 1 -> words[1] [] OTHER -> join[i - 1] \o <<0>> \o words[i]]

LEMMA JoinsAt ==
  ASSUME NEW words, NEW n \in Nat, NEW join, Joins(words, n, join), NEW i \in 0..n
  PROVE  /\ i = 0 => join[i] = <<>>
         /\ i = 1 => join[i] = words[1]
         /\ i > 1 => join[i] = Spaced(join[i - 1], words[i])
<1>1. PICK none : none = <<>>
  OBVIOUS
<1>2. PICK more : more = join[i - 1] \o <<0>> \o words[i]
  OBVIOUS
<1>3. join[i] = CASE i = 0 -> none [] i = 1 -> words[1] [] OTHER -> more
  BY <1>1, <1>2 DEF Joins
<1>4. i > 1 => ~(i = 0) /\ ~(i = 1)
  OBVIOUS
<1>5. /\ i = 0 => join[i] = none
      /\ i = 1 => join[i] = words[1]
      /\ i > 1 => join[i] = more
  BY <1>3, <1>4
<1> QED BY <1>1, <1>2, <1>5 DEF Spaced

LEMMA JoinsNext ==
  ASSUME NEW words, NEW n \in Nat, NEW join, Joins(words, n, join)
  PROVE  \E more : Joins(words, n + 1, more)
<1> DEFINE last == IF n = 0 THEN words[1] ELSE Spaced(join[n], words[n + 1])
<1> DEFINE more == [i \in 0..(n + 1) |-> IF i <= n THEN join[i] ELSE last]
<1>1. ASSUME NEW i \in 0..(n + 1)
      PROVE  more[i] = CASE i = 0 -> <<>> [] i = 1 -> words[1]
                         [] OTHER -> more[i - 1] \o <<0>> \o words[i]
  <2>0. i \in Nat /\ n \in Nat
    OBVIOUS
  <2>1. CASE i = n + 1
    <3>1. more[i] = last /\ i # 0
      BY <2>1
    <3>2. more[n] = join[n] /\ i - 1 = n
      BY <2>1
    <3>3. CASE i = 1
      BY <2>1, <3>1, <3>3
    <3>4. CASE i # 1
      <4>1. more[i] = Spaced(join[n], words[n + 1])
        BY <2>1, <3>1, <3>4
      <4>2. more[i] = more[i - 1] \o <<0>> \o words[i]
        BY <4>1, <3>2, <2>1 DEF Spaced
      <4> HIDE DEF more
      <4> QED BY <4>2, <3>1, <3>4
    <3> QED BY <3>3, <3>4
  <2>2. CASE i # n + 1
    <3>1. i \in 0..n /\ more[i] = join[i]
      BY <2>2
    <3>2. join[i] = CASE i = 0 -> <<>> [] i = 1 -> words[1]
                      [] OTHER -> join[i - 1] \o <<0>> \o words[i]
      BY <3>1 DEF Joins
    <3>3. i # 0 => more[i - 1] = join[i - 1]
      BY <3>1
    <3> HIDE DEF more
    <3>4. CASE i = 0
      BY <3>1, <3>2, <3>4
    <3>5. CASE i # 0
      BY <3>1, <3>2, <3>3, <3>5
    <3> QED BY <3>4, <3>5
  <2> QED BY <2>1, <2>2
<1>2. more = [i \in 0..(n + 1) |-> CASE i = 0 -> <<>> [] i = 1 -> words[1]
                                     [] OTHER -> more[i - 1] \o <<0>> \o words[i]]
  <2> DEFINE F(i) == CASE i = 0 -> <<>> [] i = 1 -> words[1]
                       [] OTHER -> more[i - 1] \o <<0>> \o words[i]
  <2>1. \A i \in 0..(n + 1) : more[i] = F(i)
    BY <1>1
  <2>2. more = [i \in 0..(n + 1) |-> more[i]]
    OBVIOUS
  <2> HIDE DEF more, F
  <2>3. more = [i \in 0..(n + 1) |-> F(i)]
    BY <2>1, <2>2
  <2> QED BY <2>3 DEF F
<1> HIDE DEF more
<1> QED BY <1>2 DEF Joins

\* The recursive definition of Joined has a solution.
LEMMA JoinsExist == ASSUME NEW words, NEW n \in Nat PROVE \E join : Joins(words, n, join)
<1> DEFINE Wrong == {m \in Nat : ~\E join : Joins(words, m, join)}
<1>1. SUFFICES ASSUME Wrong # {} PROVE FALSE
  OBVIOUS
<1>2. Wrong \in SUBSET Nat
  OBVIOUS
<1>3. PICK m \in Wrong : \A j \in Nat : j < m => j \notin Wrong
  BY <1>1, <1>2, LeastOf, Zenon
<1>4. CASE m = 0
  <2>1. Joins(words, 0, [i \in 0..0 |-> <<>>])
    BY DEF Joins
  <2> QED BY <2>1, <1>4
<1>5. CASE m # 0
  <2>1. m - 1 \in Nat /\ m - 1 < m /\ (m - 1) + 1 = m
    BY <1>5
  <2>2. PICK join : Joins(words, m - 1, join)
    BY <2>1, <1>3
  <2> QED BY <2>1, <2>2, JoinsNext
<1> QED BY <1>4, <1>5

LEMMA JoinedJoins ==
  ASSUME NEW words \in Seq(Text)
  PROVE  \E join : Joins(words, Len(words), join) /\ Joined(words) = join[Len(words)]
<1>0. Len(words) \in Nat
  OBVIOUS
<1>1. PICK join : join = CHOOSE x : Joins(words, Len(words), x)
  OBVIOUS
<1>2. Joins(words, Len(words), join)
  BY <1>0, <1>1, JoinsExist
<1>3. Joined(words) = join[Len(words)]
  BY <1>1 DEF Joined, Joins
<1> QED BY <1>2, <1>3

\* Every one of the first i words stands in what they are joined to, and a word
\* without a space that is found there is found in one of them.
JoinedWell(words, join, i) ==
  /\ join[i] \in Text
  /\ \A m \in 1..i : \E o : Inside(join[i], words[m], o)
  /\ \A k \in Text :
       (\A j \in 1..Len(k) : k[j] # 0) /\ HasSubstring(ToLower(join[i]), k)
         => \E m \in 1..i : HasSubstring(ToLower(words[m]), k)

LEMMA JoinedFirst ==
  ASSUME NEW words \in Seq(Text), NEW join, 1 <= Len(words), Joins(words, Len(words), join)
  PROVE  JoinedWell(words, join, 1)
<1>1. Len(words) \in Nat /\ 1 \in 0..Len(words) /\ 1 \in DOMAIN words
  <2>1. Len(words) \in Nat /\ DOMAIN words = 1..Len(words)
    OBVIOUS
  <2> QED BY <2>1
<1>2. join[1] = words[1]
  <2>1. \A i \in 0..Len(words) : i = 1 => join[i] = words[1]
    BY <1>1, JoinsAt, Zenon
  <2> QED BY <2>1, <1>1
<1>3. \A S : \A s \in Seq(S) : \A j \in DOMAIN s : s[j] \in S
  OBVIOUS
<1>4. words[1] \in Text
  BY <1>1, <1>3, Zenon
<1>5. Inside(words[1], words[1], 0)
  <2>1. Len(words[1]) \in Nat
    BY <1>4 DEF Text
  <2>2. \A i \in 1..Len(words[1]) : 0 + i = i
    OBVIOUS
  <2> QED BY <2>1, <2>2 DEF Inside
<1>6. 1..1 = {1}
  OBVIOUS
<1> QED BY <1>2, <1>4, <1>5, <1>6 DEF JoinedWell

LEMMA JoinedNext ==
  ASSUME NEW words \in Seq(Text), NEW join, Joins(words, Len(words), join),
         NEW i \in Nat, i >= 1, i + 1 <= Len(words), JoinedWell(words, join, i)
  PROVE  JoinedWell(words, join, i + 1)
<1>0. Len(words) \in Nat /\ i + 1 \in 0..Len(words) /\ i + 1 \in DOMAIN words /\ (i + 1) - 1 = i
  OBVIOUS
<1>1. \A S : \A s \in Seq(S) : \A j \in DOMAIN s : s[j] \in S
  OBVIOUS
<1>2. PICK b \in Text : b = words[i + 1]
  BY <1>0, <1>1, Zenon
<1>3. PICK a \in Text : a = join[i]
  BY DEF JoinedWell
<1>4. PICK c \in Text : c = Spaced(a, b)
  BY SpacedText
<1>5. join[i + 1] = c
  <2>1. i + 1 > 1
    OBVIOUS
  <2> QED BY <2>1, <1>0, <1>2, <1>3, <1>4, JoinsAt
<1>6. Inside(c, a, 0) /\ Inside(c, b, Len(a) + 1)
  BY <1>4, SpacedInside
<1>7. \A m \in 1..(i + 1) : m \in 1..i \/ m = i + 1
  OBVIOUS
<1>8. ASSUME NEW m \in 1..i PROVE \E o : Inside(c, words[m], o)
  <2>1. PICK o : Inside(a, words[m], o)
    BY <1>3 DEF JoinedWell
  <2>2. m \in DOMAIN words
    BY <1>0
  <2>3. PICK w \in Text : w = words[m]
    BY <2>2, <1>1, Zenon
  <2>4. Len(w) \in Nat /\ Len(a) \in Nat /\ Len(c) \in Nat /\ o \in Nat
    BY <2>1 DEF Inside, Text
  <2>5. Inside(c, w, o)
    <3>1. o + Len(w) <= Len(c)
      BY <2>1, <2>3, <2>4, <1>6 DEF Inside
    <3>2. ASSUME NEW j \in 1..Len(w) PROVE c[o + j] = w[j]
      <4>1. o + j \in 1..Len(a) /\ 0 + (o + j) = o + j
        BY <2>1, <2>3, <2>4 DEF Inside
      <4>2. c[0 + (o + j)] = a[o + j]
        BY <4>1, <1>6 DEF Inside
      <4> QED BY <4>1, <4>2, <2>1, <2>3 DEF Inside
    <3> QED BY <3>1, <3>2, <2>4 DEF Inside
  <2> QED BY <2>3, <2>5
<1>9. ASSUME NEW k \in Text, \A j \in 1..Len(k) : k[j] # 0, HasSubstring(ToLower(c), k)
      PROVE  \E m \in 1..(i + 1) : HasSubstring(ToLower(words[m]), k)
  <2>1. HasSubstring(ToLower(a), k) \/ HasSubstring(ToLower(b), k)
    BY <1>4, <1>9, FoundInPart
  <2>2. CASE HasSubstring(ToLower(a), k)
    <3>1. PICK m \in 1..i : HasSubstring(ToLower(words[m]), k)
      BY <2>2, <1>3, <1>9 DEF JoinedWell
    <3>2. m \in 1..(i + 1)
      OBVIOUS
    <3> QED BY <3>1, <3>2
  <2>3. CASE HasSubstring(ToLower(b), k)
    <3>1. i + 1 \in 1..(i + 1)
      OBVIOUS
    <3> QED BY <3>1, <2>3, <1>2
  <2> QED BY <2>1, <2>2, <2>3
<1> QED BY <1>2, <1>5, <1>6, <1>7, <1>8, <1>9 DEF JoinedWell

LEMMA JoinedIsWell ==
  ASSUME NEW words \in Seq(Text), words # <<>>
  PROVE  \E join : Joined(words) = join[Len(words)] /\ JoinedWell(words, join, Len(words))
<1>0. Len(words) \in Nat /\ Len(words) >= 1
  OBVIOUS
<1>1. PICK join : Joins(words, Len(words), join) /\ Joined(words) = join[Len(words)]
  BY JoinedJoins
<1> DEFINE n == Len(words)
<1> DEFINE Wrong == {i \in Nat : 1 <= i /\ i <= n /\ ~JoinedWell(words, join, i)}
<1>2. Wrong = {}
  <2>1. SUFFICES ASSUME Wrong # {} PROVE FALSE
    OBVIOUS
  <2>2. Wrong \in SUBSET Nat
    OBVIOUS
  <2>3. PICK i \in Wrong : \A j \in Nat : j < i => j \notin Wrong
    BY <2>1, <2>2, LeastOf, Zenon
  <2>4. CASE i = 1
    BY <2>4, <1>0, <1>1, JoinedFirst
  <2>5. CASE i # 1
    <3>1. i - 1 \in Nat /\ i - 1 >= 1 /\ i - 1 < i /\ i - 1 <= n /\ (i - 1) + 1 = i
      BY <2>5, <1>0
    <3>2. JoinedWell(words, join, i - 1)
      BY <3>1, <2>3
    <3>3. JoinedWell(words, join, (i - 1) + 1)
      BY <3>1, <3>2, <1>1, JoinedNext
    <3> QED BY <3>1, <3>3
  <2> QED BY <2>4, <2>5
<1>3. JoinedWell(words, join, n)
  BY <1>0, <1>2
<1> QED BY <1>1, <1>3

\* The Matcher's questions about a non-empty answer agree.
LEMMA QuestionsAgree ==
  ASSUME NEW words \in Seq(Text), words # <<>>, NEW topic
  PROVE  /\ ContainsAny(words, topic) => MatchedKeywords(words, topic) # {}
         /\ ContainsAll(words, topic) /\ (\A k \in KeywordsFor(topic) : 0 \notin ToSet(k))
              => KeywordsFor(topic) = {} \/ ContainsAny(words, topic)
<1>0. Len(words) \in Nat /\ DOMAIN words = 1..Len(words)
  OBVIOUS
<1>1. PICK join : Joined(words) = join[Len(words)] /\ JoinedWell(words, join, Len(words))
  BY JoinedIsWell
<1>2. PICK all \in Text : all = Joined(words)
  BY <1>1 DEF JoinedWell
<1>3. KeywordsFor(topic) \subseteq Text
  BY MoltAssumption DEF KeywordsFor, Text
<1>4. \A S : \A s \in Seq(S) : \A j \in DOMAIN s : s[j] \in S
  OBVIOUS
<1>5. ASSUME ContainsAny(words, topic) PROVE MatchedKeywords(words, topic) # {}
  <2>1. PICK k \in KeywordsFor(topic), i \in DOMAIN words : HasSubstring(ToLower(words[i]), k)
    BY <1>5 DEF ContainsAny
  <2>2. PICK w \in Text : w = words[i]
    BY <1>4, Zenon
  <2>3. PICK o : Inside(all, w, o)
    BY <1>0, <1>1, <1>2, <2>2 DEF JoinedWell
  <2>4. Inside(ToLower(all), ToLower(w), o)
    BY <2>3, InsideLower
  <2>5. ToLower(all) \in Text /\ ToLower(w) \in Text
    BY ToLowerText
  <2>6. HasSubstring(ToLower(all), k)
    BY <1>3, <2>1, <2>2, <2>4, <2>5, FoundInWhole
  <2> QED BY <2>6, <1>2 DEF MatchedKeywords
<1>6. ASSUME ContainsAll(words, topic), \A k \in KeywordsFor(topic) : 0 \notin ToSet(k),
             KeywordsFor(topic) # {}
      PROVE  ContainsAny(words, topic)
  <2>1. PICK k \in KeywordsFor(topic) : TRUE
    BY <1>6
  <2>2. HasSubstring(ToLower(all), k)
    BY <1>2, <1>6 DEF ContainsAll, MatchedKeywords
  <2>3. \A j \in 1..Len(k) : k[j] # 0
    <3>1. DOMAIN k = 1..Len(k)
      BY <1>3 DEF Text
    <3> QED BY <3>1, <1>6 DEF ToSet
  <2>4. PICK m \in 1..Len(words) : HasSubstring(ToLower(words[m]), k)
    BY <1>1, <1>2, <1>3, <2>2, <2>3 DEF JoinedWell
  <2> QED BY <2>4, <1>0 DEF ContainsAny
<1> QED BY <1>5, <1>6

-----------------------------------------------------------------------------
(* MoltCaptcha: one try, in time. *)

\* Challenge with the list of challenges as a parameter.
ChallengeIn(list, id) == list[CHOOSE i \in DOMAIN list : list[i].id = id]

LEMMA ChallengeFound ==
  ASSUME NEW list, \A i, j \in DOMAIN list : list[i].id = list[j].id => i = j,
         NEW i \in DOMAIN list
  PROVE  ChallengeIn(list, list[i].id) = list[i]
<1>1. PICK k : k = CHOOSE j \in DOMAIN list : list[j].id = list[i].id
  OBVIOUS
<1>2. k \in DOMAIN list /\ list[k].id = list[i].id
  BY <1>1
<1>3. k = i
  BY <1>2
<1> QED BY <1>1, <1>3 DEF ChallengeIn

LEMMA EveryCaptcha ==
  ASSUME MoltInv
  PROVE  \A i \in DOMAIN captchas : captchas[i] \in Captcha
<1>1. \A S : \A s \in Seq(S) : \A j \in DOMAIN s : s[j] \in S
  OBVIOUS
<1>2. captchas \in Seq(Captcha)
  BY DEF MoltInv, MoltTypeOK
<1> QED BY <1>1, <1>2, Zenon

\* What the caller of a pending or finished call tries was generated.
LEMMA TriedChallenge ==
  ASSUME MoltInv, NEW s \in Solvers, solving[s].pc # "idle"
  PROVE  /\ \E i \in DOMAIN captchas : captchas[i].id = solving[s].id
         /\ Challenge(solving[s].id) \in Captcha
         /\ Challenge(solving[s].id).expires = Challenge(solving[s].id).issued + MoltTTL
         /\ solving[s].id \in Captchas
<1>1. PICK i \in DOMAIN captchas : captchas[i].id = solving[s].id
  BY DEF MoltInv, GeneratedInv, Generated
<1>2. ChallengeIn(captchas, captchas[i].id) = captchas[i]
  BY ChallengeFound DEF MoltInv, GeneratedInv
<1>3. Challenge(solving[s].id) = captchas[i]
  BY <1>1, <1>2 DEF Challenge, ChallengeIn
<1>4. captchas[i] \in Captcha /\ captchas[i].id \in Captchas
  BY EveryCaptcha DEF Captcha
<1> QED BY <1>1, <1>3, <1>4 DEF MoltInv, GeneratedInv

\* AcceptedInTime of one call, with the state as parameters.
AcceptedFor(list, call) ==
  call.pc = "done" /\ call.verdict =>
    LET c == ChallengeIn(list, call.id) IN
    /\ call.began < c.cached + MoltTTL
    /\ ~call.stamped => call.began <= c.issued + c.limit /\ call.began < c.issued + MoltTTL

LEMMA AcceptedForAll ==
  /\ AcceptedInTime <=> \A s \in Solvers : AcceptedFor(captchas, solving[s])
  /\ AcceptedInTime' <=> \A s \in Solvers : AcceptedFor(captchas', solving'[s])
BY DEF AcceptedInTime, AcceptedFor, Challenge, ChallengeIn

\* A call's step leaves what the others were told.
LEMMA AcceptedStays ==
  ASSUME NEW s \in Solvers, AcceptedInTime, captchas' = captchas,
         \A q \in Solvers : q # s => solving'[q] = solving[q],
         AcceptedFor(captchas, solving'[s])
  PROVE  AcceptedInTime'
BY AcceptedForAll

LEMMA MoltInitInv == MoltInit => MoltInv
<1> SUFFICES ASSUME MoltInit PROVE MoltInv
  OBVIOUS
<1>1. /\ DOMAIN solving = Solvers
      /\ \A s \in Solvers : solving[s] = NotSolving
  BY DEF MoltInit
<1>2. /\ DOMAIN captchas = {} /\ captchas \in Seq(Captcha) /\ inCache = {} /\ moltNow = 0
      /\ judged \in [Captchas -> Nat] /\ \A c \in Captchas : judged[c] = 0
  BY DEF MoltInit
<1>3. \A s \in Solvers : /\ solving[s].pc = "idle" /\ solving[s].at = 0
                         /\ solving[s].began = 0 /\ solving[s].words = <<>>
  BY <1>1 DEF NotSolving
<1>stamp. \A s \in Solvers : solving[s].stamped \in BOOLEAN
  <2>1. NotSolving.stamped = FALSE
    BY DEF NotSolving
  <2> QED BY <2>1, <1>1
<1>4. MoltTypeOK
  BY <1>1, <1>2, <1>3, <1>stamp DEF MoltTypeOK
<1>5. GeneratedInv
  BY <1>2, <1>3 DEF GeneratedInv, Generated
<1>6. MoltOnceInv
  BY <1>2, <1>3 DEF MoltOnceInv, Tries
<1>7. MoltTimeInv /\ KeptInv /\ AcceptedInTime
  BY <1>2, <1>3 DEF MoltTimeInv, KeptInv, AcceptedInTime
<1>8. VerdictsAreFinal
  BY <1>1 DEF VerdictsAreFinal, NotSolving
<1> QED BY <1>4, <1>5, <1>6, <1>7, <1>8 DEF MoltInv

LEMMA MoltTickKeeps == ASSUME MoltInv, MoltTick PROVE MoltInv'
<1>1. /\ moltNow' = moltNow + 1 /\ captchas' = captchas /\ solving' = solving
      /\ judged' = judged /\ moltExcused' = moltExcused /\ inCache' \subseteq inCache
  BY DEF MoltTick
<1>2. MoltTypeOK'
  BY <1>1 DEF MoltInv, MoltTypeOK
<1>3. GeneratedInv'
  BY <1>1 DEF MoltInv, GeneratedInv, Generated
<1>4. MoltOnceInv'
  BY <1>1 DEF MoltInv, MoltOnceInv, Tries
<1>5. MoltTimeInv'
  BY <1>1 DEF MoltInv, MoltTimeInv, MoltTypeOK
<1>6. AcceptedInTime'
  BY <1>1 DEF MoltInv, AcceptedInTime, Challenge
<1>7. VerdictsAreFinal'
  BY <1>1 DEF MoltInv, VerdictsAreFinal
<1>8. \A i \in DOMAIN captchas : captchas[i].id \in inCache' => moltNow' < captchas[i].cached + MoltTTL
  <2>1. SUFFICES ASSUME NEW i \in DOMAIN captchas, captchas[i].id \in inCache'
                 PROVE  moltNow' < captchas[i].cached + MoltTTL
    OBVIOUS
  <2>2. ChallengeIn(captchas, captchas[i].id) = captchas[i]
    BY ChallengeFound DEF MoltInv, GeneratedInv
  <2>3. moltNow' < Challenge(captchas[i].id).cached + MoltTTL
    BY <2>1 DEF MoltTick
  <2> QED BY <2>2, <2>3 DEF Challenge, ChallengeIn
<1>9. KeptInv'
  BY <1>1, <1>8 DEF MoltInv, KeptInv, Tries
<1> QED BY <1>2, <1>3, <1>4, <1>5, <1>6, <1>7, <1>9 DEF MoltInv

\* A new challenge: no call knows it yet.
LEMMA GenerateKeeps ==
  ASSUME MoltInv, NEW id \in Captchas, GenerateWithDifficulty(id) PROVE MoltInv'
<1>1. PICK d \in Asked, topic \in Topics, issued \in {t \in 0..moltNow : moltNow - t <= MaxSet} :
        captchas' = Append(captchas, [id |-> id, topic |-> topic, hops |-> Hops(d),
                                      limit |-> TimeLimit(d), issued |-> issued,
                                      expires |-> issued + MoltTTL, cached |-> moltNow])
  BY DEF GenerateWithDifficulty
<1> DEFINE new == [id |-> id, topic |-> topic, hops |-> Hops(d), limit |-> TimeLimit(d),
                   issued |-> issued, expires |-> issued + MoltTTL, cached |-> moltNow]
<1>2. Hops(d) \in 1..4 /\ TimeLimit(d) \in Nat
  BY MoltAssumption DEF Hops, TimeLimit, Difficulties
<1>3. moltNow \in Nat /\ issued \in Nat /\ captchas \in Seq(Captcha) /\ MoltTTL \in Nat \ {0}
  BY MoltAssumption DEF MoltInv, MoltTypeOK
<1>4. /\ new \in Captcha /\ new.id = id /\ new.expires = new.issued + MoltTTL
      /\ new.cached = moltNow
  BY <1>2, <1>3 DEF Captcha
<1> DEFINE n == Len(captchas)
<1>5. captchas' = Append(captchas, new)
  BY <1>1
<1> HIDE DEF new
<1>6. /\ captchas' \in Seq(Captcha) /\ DOMAIN captchas' = 1..(n + 1) /\ DOMAIN captchas = 1..n
      /\ captchas'[n + 1] = new /\ n \in Nat
      /\ \A i \in 1..n : captchas'[i] = captchas[i]
  BY <1>3, <1>4, <1>5
<1> HIDE DEF n
<1>7. /\ moltNow' = moltNow /\ solving' = solving /\ judged' = judged
      /\ moltExcused' = moltExcused /\ inCache' = inCache \cup {id}
      /\ \A i \in DOMAIN captchas : captchas[i].id # id
  BY DEF GenerateWithDifficulty
<1>8. \A i \in 1..(n + 1) : i \in 1..n \/ i = n + 1
  BY <1>6
<1>9. Generated' = Generated \cup {id}
  <2>1. n + 1 \in 1..(n + 1) /\ \A i \in 1..n : i \in 1..(n + 1)
    BY <1>6
  <2> QED BY <2>1, <1>4, <1>6, <1>8 DEF Generated
<1>10. id \notin Generated
  BY <1>7 DEF Generated
<1>11. MoltTypeOK'
  BY <1>6, <1>7 DEF MoltInv, MoltTypeOK
<1>12. \A i, j \in DOMAIN captchas' : captchas'[i].id = captchas'[j].id => i = j
  BY <1>4, <1>6, <1>7, <1>8 DEF MoltInv, GeneratedInv
<1>13. GeneratedInv'
  <2>1. \A i \in DOMAIN captchas' : captchas'[i].expires = captchas'[i].issued + MoltTTL
    BY <1>4, <1>6, <1>8 DEF MoltInv, GeneratedInv
  <2> QED BY <2>1, <1>7, <1>9, <1>12 DEF MoltInv, GeneratedInv
<1>14. judged[id] = 0 /\ \A s \in Solvers : ~Tries(s, id)
  BY <1>10 DEF MoltInv, GeneratedInv, Tries
<1>15. MoltOnceInv'
  BY <1>7, <1>14 DEF MoltInv, MoltOnceInv, Tries
<1>16. MoltTimeInv'
  BY <1>7 DEF MoltInv, MoltTimeInv
<1>17. ASSUME NEW s \in Solvers, solving[s].pc # "idle"
       PROVE  Challenge(solving[s].id)' = Challenge(solving[s].id)
  <2>1. PICK i \in DOMAIN captchas : captchas[i].id = solving[s].id
    BY <1>17, TriedChallenge
  <2>2. i \in DOMAIN captchas' /\ captchas'[i] = captchas[i]
    BY <2>1, <1>6
  <2>3. ChallengeIn(captchas, captchas[i].id) = captchas[i]
    BY ChallengeFound DEF MoltInv, GeneratedInv
  <2>4. ChallengeIn(captchas', captchas'[i].id) = captchas'[i]
    BY <2>2, <1>12, ChallengeFound
  <2> QED BY <2>1, <2>2, <2>3, <2>4, <1>7 DEF Challenge, ChallengeIn
<1>18. AcceptedInTime'
  BY <1>7, <1>17 DEF MoltInv, AcceptedInTime
<1>19. VerdictsAreFinal'
  BY <1>7 DEF MoltInv, VerdictsAreFinal
<1>20. KeptInv'
  <2>1. ASSUME NEW i \in DOMAIN captchas'
        PROVE  /\ captchas'[i].id \in inCache' => moltNow' < captchas'[i].cached + MoltTTL
               /\ \A s \in Solvers :
                    solving'[s].pc \in {"del", "judge"} /\ solving'[s].id = captchas'[i].id
                      => solving'[s].began < captchas'[i].cached + MoltTTL
    <3>1. CASE i = n + 1
      <4>1. captchas'[i].id = id /\ captchas'[i].cached = moltNow
        BY <3>1, <1>4, <1>6
      <4>2. moltNow < moltNow + MoltTTL
        BY <1>3
      <4> QED BY <4>1, <4>2, <1>7, <1>14 DEF Tries
    <3>2. CASE i \in 1..n
      <4>1. i \in DOMAIN captchas /\ captchas'[i] = captchas[i] /\ captchas[i].id # id
        BY <3>2, <1>6, <1>7
      <4> QED BY <4>1, <1>7 DEF MoltInv, KeptInv, Tries
    <3> QED BY <2>1, <3>1, <3>2, <1>6, <1>8
  <2> QED BY <2>1 DEF KeptInv, Tries
<1> QED BY <1>11, <1>13, <1>15, <1>16, <1>18, <1>19, <1>20 DEF MoltInv

\* A step of one call: the others stay, and so do the challenges.
LEMMA CallStep ==
  ASSUME NEW s \in Solvers, DOMAIN solving = Solvers, DOMAIN solving[s] = DOMAIN NotSolving,
         NEW next, solving' = [solving EXCEPT ![s] = next]
  PROVE  DOMAIN solving' = Solvers /\ solving'[s] = next
         /\ \A q \in Solvers : q # s => solving'[q] = solving[q]
OBVIOUS

LEMMA VerifyKeeps ==
  ASSUME MoltInv, NEW s \in Solvers, MoltVerify(s) PROVE MoltInv'
<1>1. PICK i \in DOMAIN captchas, w \in Answers, sub \in Submitted :
        solving' = [solving EXCEPT ![s] =
          [NotSolving EXCEPT !.pc = "get", !.id = captchas[i].id, !.words = w,
                             !.stamped = sub.stamped, !.at = sub.at, !.began = moltNow]]
  BY DEF MoltVerify
<1>sub. sub.stamped \in BOOLEAN /\ sub.at \in Nat
  <2>1. CASE sub = [stamped |-> FALSE, at |-> 0]
    BY <2>1
  <2>2. CASE \E t \in Stamps : sub = [stamped |-> TRUE, at |-> t]
    BY <2>2, MoltAssumption
  <2> QED BY <2>1, <2>2 DEF Submitted
<1> DEFINE next ==
      [NotSolving EXCEPT !.pc = "get", !.id = captchas[i].id, !.words = w,
                         !.stamped = sub.stamped, !.at = sub.at, !.began = moltNow]
<1>2. /\ DOMAIN next = DOMAIN NotSolving /\ next.pc = "get" /\ next.id = captchas[i].id
      /\ next.words = w /\ next.began = moltNow /\ next.at \in Nat /\ next.stamped \in BOOLEAN
      /\ ~next.verdict
  BY <1>sub DEF NotSolving
<1>3. solving' = [solving EXCEPT ![s] = next]
  BY <1>1
<1> HIDE DEF next
<1>4. DOMAIN solving = Solvers /\ moltNow \in Nat
  BY DEF MoltInv, MoltTypeOK
<1>5. /\ DOMAIN solving' = Solvers /\ solving'[s] = next
      /\ \A q \in Solvers : q # s => solving'[q] = solving[q]
  BY <1>3, <1>4
<1>6. /\ moltNow' = moltNow /\ captchas' = captchas /\ inCache' = inCache
      /\ judged' = judged /\ moltExcused' = moltExcused
  BY DEF MoltVerify
<1>7. MoltTypeOK'
  BY <1>2, <1>4, <1>5, <1>6 DEF MoltInv, MoltTypeOK
<1>8. GeneratedInv'
  BY <1>2, <1>5, <1>6 DEF MoltInv, GeneratedInv, Generated
<1>9. \A q \in Solvers, c \in Captchas : Tries(q, c)' => Tries(q, c) /\ q # s
  BY <1>2, <1>5 DEF Tries
<1>10. MoltOnceInv'
  BY <1>5, <1>6, <1>9 DEF MoltInv, MoltOnceInv
<1>11. MoltTimeInv'
  BY <1>2, <1>4, <1>5, <1>6 DEF MoltInv, MoltTimeInv
<1>12. AcceptedInTime'
  BY <1>2, <1>5, <1>6 DEF MoltInv, AcceptedInTime, Challenge
<1>13. VerdictsAreFinal'
  BY <1>2, <1>5 DEF MoltInv, VerdictsAreFinal
<1>14. \A q \in Solvers : \A c : Tries(q, c)' => Tries(q, c) /\ q # s
  BY <1>2, <1>5 DEF Tries
<1>15. KeptInv'
  BY <1>5, <1>6, <1>14 DEF MoltInv, KeptInv
<1> QED BY <1>7, <1>8, <1>10, <1>11, <1>12, <1>13, <1>15 DEF MoltInv

LEMMA LoadKeeps ==
  ASSUME MoltInv, NEW s \in Solvers, MoltLoadChallenge(s) PROVE MoltInv'
<1> DEFINE id == solving[s].id
<1>0. /\ DOMAIN solving = Solvers /\ moltNow \in Nat /\ DOMAIN solving[s] = DOMAIN NotSolving
      /\ solving[s].pc = "get"
  BY DEF MoltInv, MoltTypeOK, MoltLoadChallenge
<1>1. /\ moltNow' = moltNow /\ captchas' = captchas /\ inCache' = inCache
      /\ judged' = judged /\ moltExcused \subseteq moltExcused'
  BY DEF MoltLoadChallenge
<1> DEFINE Load(p) ==
      /\ solving' = [solving EXCEPT ![s].pc = p]
      /\ p = "del" =>
           /\ id \in inCache
           /\ (\E q \in Solvers \ {s} : solving[q].pc = "del" /\ solving[q].id = id) => id \in moltExcused'
<1>2. PICK p \in {"del", "done"} : Load(p)
  <2>1. Load("del") \/ Load("done")
    BY DEF MoltLoadChallenge
  <2> HIDE DEF Load
  <2> QED BY <2>1
<1>3. /\ DOMAIN solving' = Solvers
      /\ \A q \in Solvers : q # s => solving'[q] = solving[q]
  BY <1>0, <1>2
<1>call. solving'[s] = [solving[s] EXCEPT !.pc = p]
  BY <1>0, <1>2
<1>4. /\ DOMAIN solving'[s] = DOMAIN NotSolving /\ solving'[s].pc = p
      /\ solving'[s].id = id /\ solving'[s].words = solving[s].words /\ solving'[s].at = solving[s].at
      /\ solving'[s].began = solving[s].began /\ solving'[s].stamped = solving[s].stamped
  BY <1>0, <1>call DEF NotSolving
<1>5. MoltTypeOK'
  BY <1>1, <1>3, <1>4 DEF MoltInv, MoltTypeOK
<1>6. GeneratedInv'
  BY <1>0, <1>1, <1>3, <1>4 DEF MoltInv, GeneratedInv, Generated
<1>7. MoltOnceInv'
  <2>1. SUFFICES ASSUME NEW c \in Captchas, c \notin moltExcused'
                 PROVE  /\ judged[c] <= 1
                        /\ c \in inCache => judged[c] = 0
                             /\ \A q \in Solvers : Tries(q, c)' => solving'[q].pc = "del"
                        /\ \A q, r \in Solvers : Tries(q, c)' /\ Tries(r, c)' => q = r
                        /\ judged[c] = 1 => \A q \in Solvers : ~Tries(q, c)'
    BY <1>1 DEF MoltOnceInv
  <2>2. c \notin moltExcused
    BY <2>1, <1>1
  <2>3. \A q \in Solvers : q # s => (Tries(q, c)' <=> Tries(q, c))
    BY <1>3 DEF Tries
  <2>4. Tries(s, c)' => p = "del" /\ c = id
    BY <1>4 DEF Tries
  <2>5. CASE ~Tries(s, c)'
    BY <2>2, <2>3, <2>5, <1>3 DEF MoltInv, MoltOnceInv
  <2>6. CASE Tries(s, c)'
    <3>1. p = "del" /\ c = id /\ c \in inCache
      BY <2>4, <2>6, <1>2
    <3>2. judged[c] = 0 /\ \A q \in Solvers : Tries(q, c) => solving[q].pc = "del"
      BY <3>1, <2>2 DEF MoltInv, MoltOnceInv
    <3>3. \A q \in Solvers : q # s => ~Tries(q, c)
      BY <3>1, <3>2, <2>1, <1>2 DEF Tries
    <3> QED BY <3>1, <3>2, <3>3, <2>3, <1>4
  <2> QED BY <2>5, <2>6
<1>8. MoltTimeInv'
  BY <1>1, <1>3, <1>4 DEF MoltInv, MoltTimeInv
<1>9. ~solving'[s].verdict
  <2>1. ~solving[s].verdict
    BY <1>0 DEF MoltInv, VerdictsAreFinal
  <2> QED BY <2>1, <1>0, <1>call DEF NotSolving
<1>10. VerdictsAreFinal'
  BY <1>3, <1>9 DEF MoltInv, VerdictsAreFinal
<1>11. AcceptedInTime'
  <2>1. AcceptedFor(captchas, solving'[s])
    BY <1>9 DEF AcceptedFor
  <2> QED BY <2>1, <1>1, <1>3, AcceptedStays DEF MoltInv
<1>12. KeptInv'
  <2>1. ASSUME NEW i \in DOMAIN captchas, NEW q \in Solvers,
               solving'[q].pc \in {"del", "judge"}, solving'[q].id = captchas[i].id
        PROVE  solving'[q].began < captchas[i].cached + MoltTTL
    <3>1. CASE q # s
      BY <2>1, <3>1, <1>3 DEF MoltInv, KeptInv, Tries
    <3>2. CASE q = s
      <4>1. captchas[i].id \in inCache
        BY <2>1, <3>2, <1>2, <1>4
      <4>2. captchas[i].cached \in Nat /\ MoltTTL \in Nat /\ solving[s].began \in Nat
        BY EveryCaptcha, MoltAssumption DEF Captcha, MoltInv, MoltTypeOK
      <4> QED BY <3>2, <4>1, <4>2, <1>0, <1>4 DEF MoltInv, KeptInv, MoltTimeInv
    <3> QED BY <3>1, <3>2
  <2> QED BY <2>1, <1>1 DEF MoltInv, KeptInv, Tries
<1> QED BY <1>5, <1>6, <1>7, <1>8, <1>10, <1>11, <1>12 DEF MoltInv

LEMMA ConsumeKeeps ==
  ASSUME MoltInv, NEW s \in Solvers, MoltConsume(s) PROVE MoltInv'
<1> DEFINE id == solving[s].id
<1>0. /\ DOMAIN solving = Solvers /\ moltNow \in Nat /\ DOMAIN solving[s] = DOMAIN NotSolving
      /\ solving[s].pc = "del" /\ solving[s].began \in Nat
  BY DEF MoltInv, MoltTypeOK, MoltConsume
<1>1. /\ moltNow' = moltNow /\ captchas' = captchas /\ inCache' \subseteq inCache
      /\ judged' = judged /\ moltExcused \subseteq moltExcused'
      /\ id \notin inCache' \/ id \in moltExcused'
  BY DEF MoltConsume
<1>at. PICK at \in Nat : at = SubmittedAt(s)
  BY DEF MoltInv, MoltTypeOK, SubmittedAt
<1>2. solving' = [solving EXCEPT ![s].pc = "judge", ![s].at = at]
  BY <1>at DEF MoltConsume
<1>3. /\ DOMAIN solving' = Solvers
      /\ \A q \in Solvers : q # s => solving'[q] = solving[q]
  BY <1>0, <1>2
<1>call. solving'[s] = [solving[s] EXCEPT !.pc = "judge", !.at = at]
  BY <1>0, <1>2
<1>4. /\ DOMAIN solving'[s] = DOMAIN NotSolving /\ solving'[s].pc = "judge"
      /\ solving'[s].id = id /\ solving'[s].words = solving[s].words /\ solving'[s].at = at
      /\ solving'[s].began = solving[s].began /\ solving'[s].stamped = solving[s].stamped
      /\ ~solving[s].stamped => at = moltNow
  BY <1>0, <1>at, <1>call DEF NotSolving, SubmittedAt
<1>5. MoltTypeOK'
  BY <1>0, <1>1, <1>3, <1>4 DEF MoltInv, MoltTypeOK
<1>6. GeneratedInv'
  BY <1>0, <1>1, <1>3, <1>4 DEF MoltInv, GeneratedInv, Generated
<1>7. \A q \in Solvers : \A c : Tries(q, c)' <=> Tries(q, c)
  BY <1>0, <1>3, <1>4 DEF Tries
<1>8. MoltOnceInv'
  <2>1. SUFFICES ASSUME NEW c \in Captchas, c \notin moltExcused'
                 PROVE  /\ judged[c] <= 1
                        /\ c \in inCache' => judged[c] = 0
                             /\ \A q \in Solvers : Tries(q, c)' => solving'[q].pc = "del"
                        /\ \A q, r \in Solvers : Tries(q, c)' /\ Tries(r, c)' => q = r
                        /\ judged[c] = 1 => \A q \in Solvers : ~Tries(q, c)'
    BY <1>1 DEF MoltOnceInv
  <2>2. c \notin moltExcused /\ (c \in inCache' => c \in inCache /\ c # id)
    BY <2>1, <1>1
  <2>3. c # id => ~Tries(s, c)
    BY DEF Tries
  <2> QED BY <2>2, <2>3, <1>3, <1>7 DEF MoltInv, MoltOnceInv
<1>9. MoltTimeInv'
  BY <1>0, <1>1, <1>3, <1>4 DEF MoltInv, MoltTimeInv
<1>10. AcceptedInTime'
  <2>1. AcceptedFor(captchas, solving'[s])
    BY <1>4 DEF AcceptedFor
  <2> QED BY <2>1, <1>1, <1>3, AcceptedStays DEF MoltInv
<1>11. VerdictsAreFinal'
  <2>1. ~solving[s].verdict
    BY <1>0 DEF MoltInv, VerdictsAreFinal
  <2>2. ~solving'[s].verdict
    BY <2>1, <1>0, <1>call DEF NotSolving
  <2> QED BY <2>2, <1>3 DEF MoltInv, VerdictsAreFinal
<1>12. \A q \in Solvers : solving'[q].began = solving[q].began
  BY <1>3, <1>4
<1>13. KeptInv'
  BY <1>1, <1>7, <1>12 DEF MoltInv, KeptInv
<1> QED BY <1>5, <1>6, <1>8, <1>9, <1>10, <1>11, <1>13 DEF MoltInv

\* The one call that tries a challenge judges it.
LEMMA JudgeKeeps ==
  ASSUME MoltInv, NEW s \in Solvers, MoltJudge(s) PROVE MoltInv'
<1> DEFINE id == solving[s].id
           c == Challenge(id)
<1>0. /\ DOMAIN solving = Solvers /\ DOMAIN solving[s] = DOMAIN NotSolving
      /\ solving[s].pc = "judge" /\ solving[s].began \in Nat /\ solving[s].at \in Nat
      /\ judged \in [Captchas -> Nat]
  BY DEF MoltInv, MoltTypeOK, MoltJudge
<1>1. /\ moltNow' = moltNow /\ captchas' = captchas /\ inCache' = inCache
      /\ judged' = [judged EXCEPT ![id] = @ + 1] /\ moltExcused' = moltExcused
  BY DEF MoltJudge
<1>2. PICK verdict \in BOOLEAN : verdict = (InTime(c, solving[s].at) /\ RulesAccept(c, solving[s].words))
  OBVIOUS
<1>3. solving' = [solving EXCEPT ![s].pc = "done", ![s].at = 0, ![s].verdict = verdict]
  BY <1>2 DEF MoltJudge
<1>4. /\ DOMAIN solving' = Solvers
      /\ \A q \in Solvers : q # s => solving'[q] = solving[q]
  BY <1>0, <1>3
<1>call. solving'[s] = [solving[s] EXCEPT !.pc = "done", !.at = 0, !.verdict = verdict]
  BY <1>0, <1>3
<1>5. /\ DOMAIN solving'[s] = DOMAIN NotSolving /\ solving'[s].pc = "done"
      /\ solving'[s].id = id /\ solving'[s].words = solving[s].words /\ solving'[s].at = 0
      /\ solving'[s].began = solving[s].began /\ solving'[s].stamped = solving[s].stamped
  BY <1>0, <1>call DEF NotSolving
<1>6. id \in Captchas /\ id \in Generated
  BY <1>0, TriedChallenge DEF MoltInv, GeneratedInv
<1>7. /\ judged' \in [Captchas -> Nat] /\ judged'[id] = judged[id] + 1
      /\ \A d \in Captchas : d # id => judged'[d] = judged[d]
  BY <1>0, <1>1, <1>6
<1>8. MoltTypeOK'
  <2>1. \A q \in Solvers :
          /\ DOMAIN solving'[q] = DOMAIN NotSolving
          /\ solving'[q].pc \in {"idle", "get", "del", "judge", "done"}
          /\ solving'[q].at \in Nat /\ solving'[q].began \in Nat /\ solving'[q].stamped \in BOOLEAN
          /\ solving'[q].words \in Answers \cup {<<>>}
    BY <1>0, <1>4, <1>5 DEF MoltInv, MoltTypeOK
  <2>2. moltNow' \in Nat /\ captchas' \in Seq(Captcha)
    BY <1>1 DEF MoltInv, MoltTypeOK
  <2> QED BY <2>1, <2>2, <1>4, <1>7 DEF MoltTypeOK
<1>9. GeneratedInv'
  <2>1. Generated' = Generated
    BY <1>1 DEF Generated
  <2>2. \A d \in Captchas \ Generated : judged'[d] = 0
    BY <1>6, <1>7 DEF MoltInv, GeneratedInv
  <2>3. \A q \in Solvers : solving'[q].pc # "idle" => solving'[q].id \in Generated
    BY <1>4, <1>5, <1>6 DEF MoltInv, GeneratedInv
  <2> QED BY <2>1, <2>2, <2>3, <1>1 DEF MoltInv, GeneratedInv
<1>10. \A q \in Solvers, d \in Captchas : Tries(q, d)' <=> Tries(q, d) /\ q # s
  BY <1>0, <1>4, <1>5 DEF Tries
<1>11. Tries(s, id) /\ solving[s].pc # "del"
  BY <1>0 DEF Tries
<1>12. MoltOnceInv'
  <2>1. SUFFICES ASSUME NEW d \in Captchas, d \notin moltExcused
                 PROVE  /\ judged'[d] <= 1
                        /\ d \in inCache => judged'[d] = 0
                             /\ \A q \in Solvers : Tries(q, d)' => solving'[q].pc = "del"
                        /\ \A q, r \in Solvers : Tries(q, d)' /\ Tries(r, d)' => q = r
                        /\ judged'[d] = 1 => \A q \in Solvers : ~Tries(q, d)'
    BY <1>1 DEF MoltOnceInv
  <2>2. /\ judged[d] <= 1 /\ judged[d] \in Nat
        /\ d \in inCache => judged[d] = 0 /\ \A q \in Solvers : Tries(q, d) => solving[q].pc = "del"
        /\ \A q, r \in Solvers : Tries(q, d) /\ Tries(r, d) => q = r
        /\ judged[d] = 1 => \A q \in Solvers : ~Tries(q, d)
    BY <2>1, <1>0 DEF MoltInv, MoltOnceInv
  <2>3. CASE d = id
    <3>1. judged[d] = 0 /\ d \notin inCache
      BY <2>2, <2>3, <1>11
    <3> QED BY <3>1, <2>2, <2>3, <1>7, <1>10, <1>11
  <2>4. CASE d # id
    BY <2>2, <2>4, <1>4, <1>7, <1>10
  <2> QED BY <2>3, <2>4
<1>13. MoltTimeInv'
  BY <1>0, <1>1, <1>4, <1>5 DEF MoltInv, MoltTimeInv
<1>14. AcceptedInTime'
  <2>1. /\ c.issued \in Nat /\ c.limit \in Nat /\ c.expires = c.issued + MoltTTL /\ MoltTTL \in Nat
    BY <1>0, TriedChallenge, MoltAssumption DEF Captcha
  <2>2. ~solving[s].stamped => solving[s].began <= solving[s].at
    BY <1>0 DEF MoltInv, MoltTimeInv
  <2>3. verdict => solving[s].at < c.expires /\ ~(solving[s].at - c.issued > c.limit)
    BY <1>2 DEF InTime
  <2>4. verdict /\ ~solving[s].stamped =>
          solving[s].began <= c.issued + c.limit /\ solving[s].began < c.issued + MoltTTL
    BY <2>1, <2>2, <2>3, <1>0
  <2>5. solving'[s].verdict = verdict
    BY <1>0, <1>call DEF NotSolving
  <2>6. ChallengeIn(captchas, id) = c
    BY DEF Challenge, ChallengeIn
  <2>7. solving[s].began < c.cached + MoltTTL
    <3>1. PICK i \in DOMAIN captchas : captchas[i].id = id
      BY <1>0, TriedChallenge
    <3>2. ChallengeIn(captchas, captchas[i].id) = captchas[i]
      BY ChallengeFound DEF MoltInv, GeneratedInv
    <3>3. c = captchas[i]
      BY <2>6, <3>1, <3>2
    <3>4. Tries(s, captchas[i].id)
      BY <1>0, <3>1 DEF Tries
    <3> QED BY <3>3, <3>4 DEF MoltInv, KeptInv
  <2>8. AcceptedFor(captchas, solving'[s])
    <3> HIDE DEF c
    <3>1. SUFFICES ASSUME solving'[s].verdict
                   PROVE  /\ solving'[s].began < c.cached + MoltTTL
                          /\ ~solving'[s].stamped =>
                               solving'[s].began <= c.issued + c.limit /\ solving'[s].began < c.issued + MoltTTL
      BY <2>6, <1>5 DEF AcceptedFor
    <3>2. verdict
      BY <3>1, <2>5
    <3> QED BY <3>2, <2>4, <2>7, <1>5
  <2> QED BY <2>8, <1>1, <1>4, AcceptedStays DEF MoltInv
<1>15. VerdictsAreFinal'
  BY <1>4, <1>5 DEF MoltInv, VerdictsAreFinal
<1>16. KeptInv'
  <2>1. \A q \in Solvers : \A d : Tries(q, d)' => Tries(q, d)
    BY <1>0, <1>4, <1>5 DEF Tries
  <2>2. \A q \in Solvers : solving'[q].began = solving[q].began
    BY <1>4, <1>5
  <2> QED BY <2>1, <2>2, <1>1 DEF MoltInv, KeptInv
<1> QED BY <1>8, <1>9, <1>12, <1>13, <1>14, <1>15, <1>16 DEF MoltInv

LEMMA MoltStep == MoltInv /\ [MoltNext]_moltVars => MoltInv'
<1> SUFFICES ASSUME MoltInv, [MoltNext]_moltVars PROVE MoltInv'
  OBVIOUS
<1>1. CASE UNCHANGED moltVars
  <2>1. /\ moltNow' = moltNow /\ captchas' = captchas /\ inCache' = inCache /\ solving' = solving
        /\ judged' = judged /\ moltExcused' = moltExcused
    BY <1>1 DEF moltVars
  <2>2. MoltTypeOK' /\ GeneratedInv' /\ MoltOnceInv' /\ MoltTimeInv' /\ KeptInv'
    BY <2>1 DEF MoltInv, MoltTypeOK, GeneratedInv, Generated, MoltOnceInv, Tries, MoltTimeInv, KeptInv
  <2>3. AcceptedInTime'
    BY <2>1 DEF MoltInv, AcceptedInTime, Challenge
  <2>4. VerdictsAreFinal'
    BY <2>1 DEF MoltInv, VerdictsAreFinal
  <2> QED BY <2>2, <2>3, <2>4 DEF MoltInv
<1>2. CASE MoltTick
  BY <1>2, MoltTickKeeps
<1>3. ASSUME NEW c \in Captchas, GenerateWithDifficulty(c) PROVE MoltInv'
  BY <1>3, GenerateKeeps
<1>4. ASSUME NEW s \in Solvers, MoltVerify(s) PROVE MoltInv'
  BY <1>4, VerifyKeeps
<1>5. ASSUME NEW s \in Solvers, MoltLoadChallenge(s) PROVE MoltInv'
  BY <1>5, LoadKeeps
<1>6. ASSUME NEW s \in Solvers, MoltConsume(s) PROVE MoltInv'
  BY <1>6, ConsumeKeeps
<1>7. ASSUME NEW s \in Solvers, MoltJudge(s) PROVE MoltInv'
  BY <1>7, JudgeKeeps
<1> QED BY <1>1, <1>2, <1>3, <1>4, <1>5, <1>6, <1>7 DEF MoltNext

-----------------------------------------------------------------------------
(* MoltCaptcha: the four promises. *)

\* A captcha has one try at a task that can be done, in time by the clock that
\* times it, and while the cache keeps the challenge whoever times it; the
\* Matcher's answers agree with each other.  For all topics, answers, keywords,
\* submission times and limits of the length.
THEOREM CaptchaTheorem == MoltSpec => []CaptchaIsFair
<1>1. MoltInit => MoltInv
  BY MoltInitInv
<1>2. MoltInv /\ [MoltNext]_moltVars => MoltInv'
  BY MoltStep
<1>3. MoltInv => CaptchaIsFair
  <2> SUFFICES ASSUME MoltInv PROVE CaptchaIsFair
    OBVIOUS
  <2>1. OneTryPerCaptcha
    BY DEF MoltInv, MoltOnceInv, OneTryPerCaptcha
  <2>2. AcceptedInTime
    BY DEF MoltInv
  <2>3. Solvable
    <3>1. ASSUME NEW i \in DOMAIN captchas
          PROVE  captchas[i].hops \in 1..4 /\ captchas[i].topic \in Seq(Alphabet)
      BY EveryCaptcha, MoltAssumption DEF Captcha
    <3> QED BY <3>1, TopicSolves DEF Solvable
  <2>4. MatcherAgrees
    <3>1. ASSUME NEW s \in Solvers, solving[s].words # <<>>
          PROVE  solving[s].words \in Seq(Text)
      BY <3>1, MoltAssumption DEF MoltInv, MoltTypeOK, Text
    <3> QED BY <3>1, QuestionsAgree DEF MatcherAgrees
  <2> QED BY <2>1, <2>2, <2>3, <2>4 DEF CaptchaIsFair
<1> QED BY <1>1, <1>2, <1>3, PTL DEF MoltSpec

=============================================================================
