-------------------------- MODULE A2ARevokerProofs --------------------------
(***************************************************************************)
(* A2ARevoker for every set of tokens, agents, revocations and checks.     *)
(***************************************************************************)
EXTENDS A2ARevoker, TLAPS

Calls == [pc : {"idle", "next", "set", "untrack"}, todo : SUBSET Tokens,
          j : Tokens \cup {NoToken}, ttl : Nat]

\* Initially nothing is issued, so nothing has to be shown.
LEMMA InitIInv == Init => IInv
<1>. SUFFICES ASSUME Init PROVE IInv
  OBVIOUS
<1>. USE BoundsAssumption DEF Init
<1>1. NoCall \in Calls /\ NoCheck \in [pc : {"idle", "verified", "accepted"}, j : Tokens \cup {NoToken}]
  BY DEF NoCall, NoCheck, Calls
<1>2. TypeOK
  BY <1>1 DEF TypeOK, Calls
<1>3. CallInv
  BY DEF CallInv, NoCall
<1>4. StageInv
  BY NoTokenAssumption DEF StageInv, NoCall, NoCheck
<1>. QED BY <1>2, <1>3, <1>4 DEF IInv, IndexInv, MarkInv, NothingSlips

\* A call that is over, or goes on with its next token, is well typed, holds
\* no token and works on no new one.
LEMMA FinishCall ==
  ASSUME IInv, NEW c \in Revokers, Finish(c)
  PROVE  /\ revoke' \in [Revokers -> Calls]
         /\ \A d \in Revokers :
              \/ revoke'[d] = revoke[d]
              \/ /\ revoke'[d].pc \in {"idle", "next"} /\ revoke'[d].j = NoToken
                 /\ revoke'[d].todo \subseteq revoke[d].todo
<1>1. revoke \in [Revokers -> Calls]
  BY DEF IInv, TypeOK, Calls
<1>. QED BY <1>1 DEF Finish, NoCall, Pending, Calls

\* The clock moves on.
LEMMA TickStep == IInv /\ Tick => IInv'
<1>. SUFFICES ASSUME IInv, Tick PROVE IInv'
  OBVIOUS
<1>. USE DEF IInv, Tick, tokenVars
<1>1. TypeOK'
  BY DEF TypeOK
<1>2. IndexInv'
  BY DEF TypeOK, IndexInv
<1>3. CallInv'
  BY TimesAssumption DEF TypeOK, CallInv
<1>4. MarkInv'
  BY TimesAssumption DEF TypeOK, MarkInv
<1>5. NothingSlips' /\ StageInv'
  BY DEF TypeOK, NothingSlips, StageInv
<1>. QED BY <1>1, <1>2, <1>3, <1>4, <1>5

\* A token is signed: it is neither tracked nor revoked yet.
LEMMA SignStep ==
  ASSUME IInv, NEW j \in Tokens, NEW t \in TTLs, Sign(j, t)
  PROVE  IInv'
<1>. USE TimesAssumption DEF IInv, Sign
<1>1. TypeOK'
  BY DEF TypeOK
<1>2. StageInv'
  BY DEF TypeOK, StageInv
<1>3. IndexInv'
  BY DEF TypeOK, IndexInv, StageInv
<1>4. CallInv'
  BY NoTokenAssumption DEF TypeOK, CallInv, StageInv
<1>5. MarkInv' /\ NothingSlips'
  BY DEF TypeOK, MarkInv, NothingSlips, StageInv
<1>. QED BY <1>1, <1>2, <1>3, <1>4, <1>5

\* A token is tracked until its expiry at the earliest.
LEMMA TrackStep ==
  ASSUME IInv, NEW j \in Tokens, Track(j)
  PROVE  IInv'
<1>. USE DEF IInv, Track
<1>1. TypeOK'
  BY DEF TypeOK
<1>2. StageInv'
  BY DEF TypeOK, StageInv
<1>3. IndexInv'
  BY DEF TypeOK, IndexInv
<1>4. CallInv' /\ MarkInv'
  BY DEF TypeOK, CallInv, MarkInv
<1>5. NothingSlips'
  BY DEF TypeOK, NothingSlips
<1>. QED BY <1>1, <1>2, <1>3, <1>4, <1>5

\* A revocation of handed-out tokens begins.
LEMMA BeginStep ==
  ASSUME IInv, NEW c \in Revokers, NEW S \in SUBSET Tokens, Begin(c, S),
         \A j \in S : stage[j] = "issued"
  PROVE  IInv'
<1>. USE DEF IInv, Begin, tokenVars
<1>1. Pending(S) \in Calls /\ Pending(S).pc = "next" /\ Pending(S).todo = S /\ Pending(S).j = NoToken
  BY DEF Pending, Calls
<1>2. TypeOK'
  BY <1>1 DEF TypeOK, Calls
<1>3. StageInv'
  BY <1>1, NoTokenAssumption DEF TypeOK, StageInv
<1>4. CallInv'
  BY <1>1 DEF TypeOK, CallInv
<1>5. IndexInv' /\ MarkInv' /\ NothingSlips'
  BY DEF IndexInv, MarkInv, NothingSlips
<1>. QED BY <1>2, <1>3, <1>4, <1>5

\* The time to live covers the token, or is MaxTTL; without one the token has
\* expired.
LEMMA ComputeStep ==
  ASSUME IInv, NEW c \in Revokers, NEW j \in Tokens, ComputeTTL(c, j)
  PROVE  IInv'
<1>. DEFINE s == [pc |-> "set", todo |-> revoke[c].todo \ {j}, j |-> j, ttl |-> computeTTL(j)]
            d == [pc |-> "untrack", todo |-> revoke[c].todo \ {j}, j |-> j, ttl |-> 0]
<1>. USE TimesAssumption DEF IInv, tokenVars
<1>1. /\ computeTTL(j) \in Int /\ (computeTTL(j) <= 0 => exp[j] <= now)
      /\ computeTTL(j) >= MaxTTL \/ now + computeTTL(j) >= exp[j]
  BY DEF computeTTL, TypeOK, IndexInv
<1>2. revoke[c] \in Calls /\ stage[j] = "issued" /\ now \in Nat \ {0}
  BY DEF ComputeTTL, TypeOK, StageInv, Calls
<1>3. IndexInv'
  BY DEF ComputeTTL, IndexInv
<1>4. ASSUME computeTTL(j) > 0, revoke' = [revoke EXCEPT ![c] = s], acked' = acked
      PROVE  IInv'
  <2>1. s.todo = revoke[c].todo \ {j} /\ s.j = j /\ s.ttl = computeTTL(j) /\ s.pc = "set"
    OBVIOUS
  <2>2. s \in Calls
    BY <1>1, <1>2, <1>4 DEF Calls
  <2>. HIDE DEF s
  <2>3. TypeOK'
    BY <1>4, <2>2 DEF ComputeTTL, TypeOK, Calls
  <2>4. StageInv'
    BY <1>2, <1>4, <2>1 DEF ComputeTTL, TypeOK, StageInv
  <2>5. CallInv'
    BY <1>1, <1>2, <1>4, <2>1 DEF ComputeTTL, TypeOK, CallInv
  <2>6. MarkInv' /\ NothingSlips'
    BY <1>4 DEF ComputeTTL, MarkInv, NothingSlips
  <2>. QED BY <1>3, <2>3, <2>4, <2>5, <2>6
<1>5. ASSUME computeTTL(j) <= 0, revoke' = [revoke EXCEPT ![c] = d],
             acked' = [acked EXCEPT ![j] = now]
      PROVE  IInv'
  <2>1. d.todo = revoke[c].todo \ {j} /\ d.j = j /\ d.pc = "untrack"
    OBVIOUS
  <2>2. d \in Calls
    BY <1>2 DEF Calls
  <2>. HIDE DEF d
  <2>3. TypeOK'
    BY <1>2, <1>5, <2>2 DEF ComputeTTL, TypeOK, Calls
  <2>4. StageInv'
    BY <1>2, <1>5, <2>1 DEF ComputeTTL, TypeOK, StageInv
  <2>5. CallInv'
    BY <1>2, <1>5, <2>1 DEF ComputeTTL, TypeOK, CallInv
  <2>6. MarkInv'
    BY <1>1, <1>2, <1>5 DEF ComputeTTL, TypeOK, MarkInv
  <2>7. NothingSlips'
    BY <1>2, <1>5 DEF ComputeTTL, TypeOK, NothingSlips
  <2>. QED BY <1>3, <2>3, <2>4, <2>5, <2>6, <2>7
<1>. QED BY <1>4, <1>5 DEF ComputeTTL

\* The marker is set: it lasts for MaxTTL or until the token expires.
LEMMA SetMarkerStep ==
  ASSUME IInv, NEW c \in Revokers, SetMarker(c)
  PROVE  IInv'
<1>. DEFINE k == revoke[c].j
<1>. USE TimesAssumption DEF IInv, SetMarker, tokenVars
<1>1. /\ k \in Tokens /\ stage[k] = "issued" /\ revoke[c] \in Calls /\ now \in Nat \ {0}
      /\ revoke[c].ttl >= MaxTTL \/ now + revoke[c].ttl >= exp[k]
  BY DEF TypeOK, StageInv, CallInv, Calls
<1>2. TypeOK'
  BY <1>1 DEF TypeOK, Calls
<1>3. StageInv'
  BY <1>1 DEF TypeOK, StageInv
<1>4. IndexInv'
  BY DEF IndexInv
<1>5. CallInv'
  BY <1>1 DEF TypeOK, CallInv
<1>6. MarkInv'
  BY <1>1 DEF TypeOK, MarkInv, Calls
<1>7. NothingSlips'
  BY <1>1 DEF TypeOK, NothingSlips
<1>. QED BY <1>2, <1>3, <1>4, <1>5, <1>6, <1>7

\* The call ends, and at most a token that is revoked leaves the index.
LEMMA FinishStep ==
  ASSUME IInv, NEW c \in Revokers, Finish(c), index' \in [Tokens -> Nat],
         \A j \in Tokens : index'[j] = index[j] \/ (index'[j] = 0 /\ acked[j] # 0),
         mark' \in [Tokens -> Nat], MarkInv', faults' \in 0..MaxFaults,
         UNCHANGED <<now, tokenVars, check, acked, live>>
  PROVE  IInv'
<1>. USE DEF IInv, tokenVars
<1>1. /\ revoke' \in [Revokers -> Calls]
      /\ \A d \in Revokers :
           \/ revoke'[d] = revoke[d]
           \/ /\ revoke'[d].pc \in {"idle", "next"} /\ revoke'[d].j = NoToken
              /\ revoke'[d].todo \subseteq revoke[d].todo
  BY FinishCall
<1>2. TypeOK'
  BY <1>1 DEF TypeOK, Calls
<1>3. StageInv'
  BY <1>1, NoTokenAssumption DEF TypeOK, StageInv
<1>4. IndexInv'
  BY DEF TypeOK, IndexInv
<1>5. CallInv'
  BY <1>1 DEF CallInv
<1>6. NothingSlips'
  BY DEF TypeOK, NothingSlips
<1>. QED BY <1>2, <1>3, <1>4, <1>5, <1>6

\* A failed marker may have reached the cache; it covers the token all the same.
LEMMA SetFailsStep ==
  ASSUME IInv, NEW c \in Revokers, SetFails(c)
  PROVE  IInv'
<1>. DEFINE k == revoke[c].j
<1>1. faults' \in 0..MaxFaults /\ index' \in [Tokens -> Nat]
  BY BoundsAssumption DEF IInv, TypeOK, SetFails, Fault
<1>2. /\ k \in Tokens /\ revoke[c] \in Calls /\ now \in Nat \ {0}
      /\ revoke[c].ttl >= MaxTTL \/ now + revoke[c].ttl >= exp[k]
  BY DEF IInv, TypeOK, CallInv, Calls, SetFails
<1>3. mark' \in [Tokens -> Nat]
  BY <1>2 DEF IInv, TypeOK, Calls, SetFails
<1>4. MarkInv'
  BY <1>2, TimesAssumption DEF IInv, TypeOK, MarkInv, Calls, SetFails, tokenVars
<1>. QED BY <1>1, <1>3, <1>4, FinishStep DEF SetFails

\* Only a revoked token is untracked.
LEMMA UntrackStep ==
  ASSUME IInv, NEW c \in Revokers, Untrack(c)
  PROVE  IInv'
<1>1. /\ faults' \in 0..MaxFaults /\ index' \in [Tokens -> Nat]
      /\ \A j \in Tokens : index'[j] = index[j] \/ (index'[j] = 0 /\ acked[j] # 0)
  BY DEF IInv, TypeOK, CallInv, Untrack
<1>2. mark' \in [Tokens -> Nat] /\ MarkInv'
  BY DEF IInv, TypeOK, MarkInv, Untrack, tokenVars
<1>. QED BY <1>1, <1>2, FinishStep DEF Untrack

\* GC drops entries of expired tokens only.
LEMMA GCStep == IInv /\ GC => IInv'
<1>. SUFFICES ASSUME IInv, GC PROVE IInv'
  OBVIOUS
<1>. USE DEF IInv, GC, tokenVars
<1>1. TypeOK'
  BY DEF TypeOK
<1>2. IndexInv' /\ StageInv'
  BY DEF TypeOK, IndexInv, StageInv
<1>3. CallInv' /\ MarkInv'
  BY DEF CallInv, MarkInv
<1>4. NothingSlips'
  BY DEF TypeOK, NothingSlips, IndexInv
<1>. QED BY <1>1, <1>2, <1>3, <1>4

\* A restart loses the index and every call; what the cache holds stays.
LEMMA RestartStep == IInv /\ Restart => IInv'
<1>. SUFFICES ASSUME IInv, Restart PROVE IInv'
  OBVIOUS
<1>. USE DEF IInv, Restart
<1>1. /\ NoCall \in Calls /\ NoCall.pc = "idle" /\ NoCall.todo = {} /\ NoCall.j = NoToken
      /\ NoCheck \in [pc : {"idle", "verified", "accepted"}, j : Tokens \cup {NoToken}]
  BY DEF NoCall, NoCheck, Calls
<1>2. TypeOK'
  BY <1>1, BoundsAssumption DEF TypeOK, Calls, Fault
<1>3. StageInv'
  BY <1>1, NoTokenAssumption DEF TypeOK, StageInv, NoCheck
<1>4. IndexInv'
  BY DEF TypeOK, IndexInv
<1>5. CallInv'
  BY <1>1 DEF CallInv
<1>6. MarkInv' /\ NothingSlips'
  BY DEF MarkInv, NothingSlips
<1>. QED BY <1>2, <1>3, <1>4, <1>5, <1>6

\* The verify handler changes no token, entry or marker.
LEMMA CheckStepInv ==
  ASSUME IInv, NEW v \in Checkers, CheckStep(v)
  PROVE  IInv'
<1>. USE DEF IInv, tokenVars
<1>1. CASE IsRevoked(v)
  <2>1. TypeOK'
    BY <1>1, BoundsAssumption DEF IsRevoked, Answer, Fault, TypeOK
  <2>2. StageInv'
    BY <1>1 DEF IsRevoked, Answer, StageInv, TypeOK
  <2>. QED BY <1>1, <2>1, <2>2 DEF IsRevoked, IndexInv, CallInv, MarkInv, NothingSlips
<1>2. ASSUME NEW j \in Tokens, Verify(v, j) PROVE IInv'
  <2>1. TypeOK'
    BY <1>2 DEF Verify, TypeOK
  <2>2. StageInv'
    BY <1>2 DEF Verify, StageInv, TypeOK
  <2>. QED BY <1>2, <2>1, <2>2 DEF Verify, IndexInv, CallInv, MarkInv, NothingSlips
<1>. QED BY <1>1, <1>2 DEF CheckStep

\* One step of a revocation.
LEMMA RevokeStepInv ==
  ASSUME IInv, NEW c \in Revokers, RevokeStep(c)
  PROVE  IInv'
<1>1. ASSUME NEW j \in Tokens, stage[j] = "issued", Begin(c, {j}) PROVE IInv'
  BY <1>1, BeginStep
<1>2. ASSUME NEW a \in Agents, Begin(c, Bucket(a)) PROVE IInv'
  <2>1. Bucket(a) \in SUBSET Tokens /\ \A j \in Bucket(a) : stage[j] = "issued"
    BY DEF Bucket, IInv, StageInv
  <2>. QED BY <1>2, <2>1, BeginStep
<1>. QED BY <1>1, <1>2, ComputeStep, SetMarkerStep, SetFailsStep, UntrackStep DEF RevokeStep

\* The invariant holds of every reachable state.
THEOREM A2AInvariant == Spec => []IInv
<1>1. ASSUME IInv, [Next]_vars PROVE IInv'
  <2>1. CASE UNCHANGED vars
    BY <1>1, <2>1 DEF vars, IInv, TypeOK, StageInv, IndexInv, CallInv, MarkInv, NothingSlips
  <2>2. ASSUME NEW j \in Tokens, Track(j) \/ \E t \in TTLs : Sign(j, t) PROVE IInv'
    BY <1>1, <2>2, TrackStep, SignStep
  <2>. QED BY <1>1, <2>1, <2>2, TickStep, RevokeStepInv, CheckStepInv, GCStep, RestartStep DEF Next
<1>. QED BY <1>1, InitIInv, PTL DEF Spec

\* The invariant gives the property of the markers.
LEMMA HoldsInState == IInv => RevocationHolds
BY TimesAssumption DEF IInv, TypeOK, MarkInv, RevocationHolds

\* A revocation that took effect leaves a marker that covers the token's
\* remaining life, or MaxTTL of it, through races, cache failures and restarts.
THEOREM MarkerTheorem == Spec => []RevocationHolds
BY HoldsInState, A2AInvariant, PTL

\* A bulk revocation that fails half way leaves every token it did not revoke
\* within reach of the next one.
THEOREM ReachTheorem == Spec => []NothingSlips
<1>1. IInv => NothingSlips
  BY DEF IInv
<1>. QED BY <1>1, A2AInvariant, PTL

\* The verify handler, without a cache failure, accepts no revoked token
\* before it expires.
THEOREM RefusalTheorem == Spec => RevokedIsRefused
<1>. DEFINE Refused ==
       \A v \in Checkers :
         LET j == check[v].j IN
         check[v].pc = "verified" /\ check'[v].pc = "accepted" /\ faults' = faults =>
           acked[j] = 0 \/ now >= exp[j] \/ now >= acked[j] + MaxTTL
<1>1. ASSUME IInv, [Next]_vars PROVE [Refused]_vars
  <2>. SUFFICES ASSUME NEW v \in Checkers, check[v].pc = "verified",
                       check'[v].pc = "accepted", faults' = faults, Next
                PROVE  LET j == check[v].j IN
                       acked[j] = 0 \/ now >= exp[j] \/ now >= acked[j] + MaxTTL
    BY <1>1 DEF vars
  <2>1. check' # check
    OBVIOUS
  <2>2. PICK w \in Checkers : CheckStep(w) \/ Restart
    BY <2>1 DEF Next, Tick, Track, Sign, RevokeStep, Begin, ComputeTTL, SetMarker, SetFails,
                Untrack, GC
  <2>3. ~Restart
    BY DEF Restart, NoCheck
  <2>4. ASSUME NEW j \in Tokens, Verify(w, j) PROVE FALSE
    BY <1>1, <2>4 DEF IInv, TypeOK, Verify
  <2>5. IsRevoked(w)
    BY <2>2, <2>3, <2>4 DEF CheckStep
  <2>6. faults' # faults + 1
    BY <1>1 DEF IInv, TypeOK
  <2>7. w = v
    BY <1>1, <2>5 DEF IsRevoked, Answer, IInv, TypeOK
  <2>8. Answer(v, now >= mark[check[v].j])
    BY <2>5, <2>6, <2>7 DEF IsRevoked, Fault
  <2>9. now >= mark[check[v].j]
    BY <1>1, <2>8 DEF Answer, IInv, TypeOK
  <2>10. /\ check[v].j \in Tokens /\ RevocationHolds
         /\ now \in Nat /\ mark[check[v].j] \in Nat /\ exp[check[v].j] \in Nat
         /\ acked[check[v].j] \in Nat
    BY <1>1, HoldsInState DEF IInv, TypeOK, StageInv
  <2>. QED BY <2>9, <2>10, TimesAssumption DEF RevocationHolds
<1>. QED BY <1>1, A2AInvariant, PTL DEF Spec, RevokedIsRefused

=============================================================================
