------------------------------ MODULE A2ARevoker ------------------------------
(***************************************************************************)
(* The life of an A2A token in one gateway process: Negotiate signs it and *)
(* tracks it in the Revoker's in-memory index, Revoke and RevokeByAgent    *)
(* write a marker with a time to live into the cache, Verify checks the    *)
(* expiry with leeway and then the marker.  The index is guarded by r.mu   *)
(* for single accesses only: computeTTL, Cache.Set and untrack are three   *)
(* steps.  A restart of the process empties the index and keeps the cache. *)
(*                                                                         *)
(* Signatures, issuer and audience do not depend on time or order and are  *)
(* left out: every token here is well formed.  Time is in seconds.         *)
(***************************************************************************)
EXTENDS Integers, FiniteSets

CONSTANTS Tokens,      \* jtis
          Agents,
          Subject,     \* Subject[j]: the agent token j is issued to
          TTLs,        \* times to live a NegotiateRequest may ask for
          MaxTTL,      \* RevokerConfig.MaxTTL
          Leeway,      \* VerifierConfig.LeewaySeconds, never 0
          Revokers,    \* goroutines inside Revoke or RevokeByAgent
          Checkers,    \* goroutines inside the verify handler
          MaxFaults,   \* bound on cache failures and restarts
          MaxTime,     \* bound on time
          NoToken

ASSUME SubjectAssumption == Subject \in [Tokens -> Agents]
ASSUME TimesAssumption ==
  /\ TTLs \subseteq Nat \ {0} /\ MaxTTL \in Nat \ {0} /\ Leeway \in Nat \ {0}
ASSUME BoundsAssumption == MaxFaults \in Nat /\ MaxTime \in Nat
ASSUME NoTokenAssumption == NoToken \notin Tokens

VARIABLES now,      \* the clock, from 1
          stage,    \* stage[j]: "none", "signed", "issued" or "dropped"
          life,     \* life[j]: the ttl Negotiate passes from Sign to Track
          exp,      \* exp[j]: the claim exp, 0 before it is signed
          index,    \* index[j]: expiresAt of its entry in r.index, 0 without one
          mark,     \* mark[j]: when its marker in the cache expires, 0 without one
          revoke,   \* revoke[c]: the revocation c is in
          check,    \* check[v]: the verification v is in
          acked,    \* history: when a revocation of j last took effect, or 0
          live,     \* history: tokens tracked since the last restart
          faults

tokenVars == <<stage, life, exp>>

vars == <<now, stage, life, exp, index, mark, revoke, check, acked, live, faults>>

NoCall == [pc |-> "idle", todo |-> {}, j |-> NoToken, ttl |-> 0]

Pending(todo) == [pc |-> "next", todo |-> todo, j |-> NoToken, ttl |-> 0]

NoCheck == [pc |-> "idle", j |-> NoToken]

Init ==
  /\ now = 1
  /\ stage = [j \in Tokens |-> "none"]
  /\ life = [j \in Tokens |-> 0]
  /\ exp = [j \in Tokens |-> 0]
  /\ index = [j \in Tokens |-> 0]
  /\ mark = [j \in Tokens |-> 0]
  /\ revoke = [c \in Revokers |-> NoCall]
  /\ check = [v \in Checkers |-> NoCheck]
  /\ acked = [j \in Tokens |-> 0]
  /\ live = {}
  /\ faults = 0

Fault == faults < MaxFaults /\ faults' = faults + 1

Tick ==
  /\ now < MaxTime
  /\ now' = now + 1
  /\ UNCHANGED <<tokenVars, index, mark, revoke, check, acked, live, faults>>

-----------------------------------------------------------------------------
(* Negotiate. *)

Sign(j, t) ==
  /\ stage[j] = "none"
  /\ stage' = [stage EXCEPT ![j] = "signed"]
  /\ life' = [life EXCEPT ![j] = t]
  /\ exp' = [exp EXCEPT ![j] = now + t]
  /\ UNCHANGED <<now, index, mark, revoke, check, acked, live, faults>>

\* Track, with an expiry computed after Sign, and the answer to the client.
Track(j) ==
  /\ stage[j] = "signed"
  /\ stage' = [stage EXCEPT ![j] = "issued"]
  /\ index' = [index EXCEPT ![j] = now + life[j]]
  /\ life' = [life EXCEPT ![j] = 0]
  /\ live' = live \cup {j}
  /\ UNCHANGED <<now, exp, mark, revoke, check, acked, faults>>

-----------------------------------------------------------------------------
(* Revoke of one token; RevokeByAgent calls it for each token of a snapshot. *)

Bucket(a) == {j \in Tokens : Subject[j] = a /\ index[j] # 0}

Begin(c, todo) ==
  /\ revoke[c] = NoCall
  /\ todo # {}
  /\ revoke' = [revoke EXCEPT ![c] = Pending(todo)]
  /\ UNCHANGED <<now, tokenVars, index, mark, check, acked, live, faults>>

computeTTL_MissIsOne(j) ==
  IF index[j] = 0 THEN 1
  ELSE IF index[j] - now > MaxTTL THEN MaxTTL ELSE index[j] - now

\* The time left by the index, at most MaxTTL; MaxTTL for an unknown token.
computeTTL(j) ==
  IF index[j] = 0 \/ index[j] - now > MaxTTL THEN MaxTTL ELSE index[j] - now

\* Revoke up to the cache call: nothing to mark once the entry has expired.
ComputeTTL(c, j) ==
  /\ revoke[c].pc = "next" /\ j \in revoke[c].todo
  /\ \/ /\ computeTTL(j) > 0
        /\ revoke' = [revoke EXCEPT ![c] = [pc |-> "set", todo |-> @.todo \ {j},
                                            j |-> j, ttl |-> computeTTL(j)]]
        /\ UNCHANGED acked
     \/ /\ computeTTL(j) <= 0
        /\ revoke' = [revoke EXCEPT ![c] = [pc |-> "untrack", todo |-> @.todo \ {j},
                                            j |-> j, ttl |-> 0]]
        /\ acked' = [acked EXCEPT ![j] = now]
  /\ UNCHANGED <<now, tokenVars, index, mark, check, live, faults>>

\* The call is done with its token.
Finish(c) ==
  revoke' = [revoke EXCEPT ![c] = IF @.todo = {} THEN NoCall ELSE Pending(@.todo)]

\* Cache.Set of the marker.
SetMarker(c) ==
  LET r == revoke[c] IN
  /\ r.pc = "set"
  /\ mark' = [mark EXCEPT ![r.j] = now + r.ttl]
  /\ acked' = [acked EXCEPT ![r.j] = now]
  /\ revoke' = [revoke EXCEPT ![c].pc = "untrack"]
  /\ UNCHANGED <<now, tokenVars, index, check, live, faults>>

SetFails_Untracks(c) ==
  /\ revoke[c].pc = "set"
  /\ Fault
  /\ index' = [index EXCEPT ![revoke[c].j] = 0]
  /\ Finish(c)
  /\ UNCHANGED <<now, tokenVars, mark, check, acked, live>>

\* It fails, or only its answer is lost: the token stays tracked, a bulk
\* revocation goes on with the next.
SetFails(c) ==
  LET r == revoke[c] IN
  /\ r.pc = "set"
  /\ Fault
  /\ mark' \in {mark, [mark EXCEPT ![r.j] = now + r.ttl]}
  /\ Finish(c)
  /\ UNCHANGED <<now, tokenVars, index, check, acked, live>>

Untrack(c) ==
  /\ revoke[c].pc = "untrack"
  /\ index' = [index EXCEPT ![revoke[c].j] = 0]
  /\ Finish(c)
  /\ UNCHANGED <<now, tokenVars, mark, check, acked, live, faults>>

\* GC drops the entries that have expired.
GC ==
  /\ \E j \in Tokens : index[j] # 0 /\ now >= index[j]
  /\ index' = [j \in Tokens |-> IF now >= index[j] THEN 0 ELSE index[j]]
  /\ UNCHANGED <<now, tokenVars, mark, revoke, check, acked, live, faults>>

\* The process dies and comes back with an empty index.
Restart ==
  /\ Fault
  /\ index' = [j \in Tokens |-> 0]
  /\ stage' = [j \in Tokens |-> IF stage[j] = "signed" THEN "dropped" ELSE stage[j]]
  /\ revoke' = [c \in Revokers |-> NoCall]
  /\ check' = [v \in Checkers |-> NoCheck]
  /\ live' = {}
  /\ UNCHANGED <<now, life, exp, mark, acked>>

-----------------------------------------------------------------------------
(* The verify handler. *)

\* Verifier.Verify: refused, without any effect, once exp + leeway is reached.
Verify(v, j) ==
  /\ check[v].pc # "verified"
  /\ stage[j] = "issued"
  /\ now < exp[j] + Leeway
  /\ check' = [check EXCEPT ![v] = [pc |-> "verified", j |-> j]]
  /\ UNCHANGED <<now, tokenVars, index, mark, revoke, acked, live, faults>>

Answer(v, ok) ==
  check' = [check EXCEPT ![v] = [pc |-> IF ok THEN "accepted" ELSE "idle", j |-> NoToken]]

IsRevoked_WrongKey(v) ==
  /\ check[v].pc = "verified"
  /\ Answer(v, TRUE)
  /\ UNCHANGED <<now, tokenVars, index, mark, revoke, acked, live, faults>>

\* Revoker.IsRevoked and the answer; a cache failure counts as not revoked.
IsRevoked(v) ==
  /\ check[v].pc = "verified"
  /\ \/ Answer(v, now >= mark[check[v].j]) /\ UNCHANGED faults
     \/ Fault /\ Answer(v, TRUE)
  /\ UNCHANGED <<now, tokenVars, index, mark, revoke, acked, live>>

-----------------------------------------------------------------------------

RevokeStep(c) ==
  \/ \E j \in Tokens : stage[j] = "issued" /\ Begin(c, {j})
  \/ \E a \in Agents : Begin(c, Bucket(a))
  \/ \E j \in Tokens : ComputeTTL(c, j)
  \/ SetMarker(c) \/ SetFails(c) \/ Untrack(c)

CheckStep(v) == IsRevoked(v) \/ \E j \in Tokens : Verify(v, j)

Next ==
  \/ Tick
  \/ \E j \in Tokens : Track(j) \/ \E t \in TTLs : Sign(j, t)
  \/ \E c \in Revokers : RevokeStep(c)
  \/ \E v \in Checkers : CheckStep(v)
  \/ GC
  \/ Restart

Spec == Init /\ [][Next]_vars

-----------------------------------------------------------------------------

TypeOK ==
  /\ now \in Nat \ {0}
  /\ stage \in [Tokens -> {"none", "signed", "issued", "dropped"}]
  /\ life \in [Tokens -> Nat]
  /\ exp \in [Tokens -> Nat]
  /\ index \in [Tokens -> Nat]
  /\ mark \in [Tokens -> Nat]
  /\ revoke \in [Revokers -> [pc : {"idle", "next", "set", "untrack"}, todo : SUBSET Tokens,
                              j : Tokens \cup {NoToken}, ttl : Nat]]
  /\ check \in [Checkers -> [pc : {"idle", "verified", "accepted"},
                             j : Tokens \cup {NoToken}]]
  /\ acked \in [Tokens -> Nat]
  /\ live \subseteq Tokens
  /\ faults \in 0..MaxFaults

\* A revocation that took effect lasts: the marker is there until the token
\* expires or, for a token that lives longer than MaxTTL, for MaxTTL; racing
\* revocations, a lost index and a slow cache only make it last longer.
RevocationHolds ==
  \A j \in Tokens :
    acked[j] # 0 /\ now < exp[j] /\ now < acked[j] + MaxTTL => now < mark[j]

\* No token slips out of reach of RevokeByAgent: a token tracked since the last
\* restart that has not expired is still in the index unless it was revoked,
\* whatever revocations failed half way.
NothingSlips ==
  \A j \in live : now < exp[j] => index[j] # 0 \/ acked[j] # 0

\* The verify handler, without a cache failure, accepts no token whose
\* revocation took effect, before that token expires.
RevokedIsRefused ==
  [][\A v \in Checkers :
       LET j == check[v].j IN
       check[v].pc = "verified" /\ check'[v].pc = "accepted" /\ faults' = faults =>
         acked[j] = 0 \/ now >= exp[j] \/ now >= acked[j] + MaxTTL]_vars

\* The comment in Revoke: a marker is not needed beyond exp, the verifier
\* refuses expired tokens.  So a revoked token is never accepted again.
ExpiredNeedsNoMarker ==
  [][\A v \in Checkers :
       check[v].pc = "verified" /\ check'[v].pc = "accepted" =>
         acked[check[v].j] = 0]_vars

-----------------------------------------------------------------------------
(* The inductive invariant. *)

\* Only a token that Negotiate has handed out is tracked, revoked or checked.
StageInv ==
  /\ \A j \in Tokens : stage[j] # "issued" => index[j] = 0 /\ acked[j] = 0 /\ j \notin live
  /\ \A c \in Revokers, j \in Tokens :
       j \in revoke[c].todo \/ j = revoke[c].j => stage[j] = "issued"
  /\ \A v \in Checkers : check[v].pc = "verified" => check[v].j \in Tokens

\* An index entry never expires before its token.
IndexInv ==
  \A j \in Tokens : /\ stage[j] = "signed" => exp[j] <= now + life[j]
                    /\ index[j] # 0 => index[j] >= exp[j]

\* A marker about to be set covers the token or lasts for MaxTTL; a token
\* about to be untracked is revoked or has expired.
CallInv ==
  \A c \in Revokers :
    LET r == revoke[c] IN
    /\ r.pc \in {"set", "untrack"} => r.j \in Tokens
    /\ r.pc = "set" => r.ttl >= MaxTTL \/ now + r.ttl >= exp[r.j]
    /\ r.pc = "untrack" => acked[r.j] # 0

\* A revocation that took effect left a marker, or found the token expired.
MarkInv ==
  \A j \in Tokens :
    /\ acked[j] <= now
    /\ acked[j] # 0 => mark[j] >= exp[j] \/ mark[j] >= acked[j] + MaxTTL \/ exp[j] <= now

IInv == TypeOK /\ StageInv /\ IndexInv /\ CallInv /\ MarkInv /\ NothingSlips
=============================================================================
