---------------------------- MODULE AAPHandshake ----------------------------
(***************************************************************************)
(* The AAP handshake of internal/authz/aap: Generator hands out challenges *)
(* and keeps them in the cache, Verifier consumes one per response,        *)
(* IssueProof and ProofSigner.Sign make the two forms of a proof, and the  *)
(* middleware checks the proof of every later request.  internal/cli signs *)
(* and submits the responses.                                              *)
(*                                                                         *)
(* Time counts half seconds, because a proof's claims keep whole seconds.  *)
(* A nonce is the serial number of the challenge.  A signature is the      *)
(* payload it covers.  Every cache call is a step of its own.              *)
(***************************************************************************)
EXTENDS Naturals, Sequences, FiniteSets

CONSTANTS ChallengeIDs,      \* values of challenge_id
          AgentUUIDs,        \* agent_uuid of a response
          Issuances,         \* calls of Generate and GenerateWithID
          Presentations,     \* calls of Verify
          ChallengeTTL, ResponseMaxTTL, ProofTTL,   \* in half seconds
          AAPMaxClock,       \* bound on time
          AAPMaxFaults       \* bound on failed cache calls

ASSUME AAPTimesAssumption ==
  /\ ChallengeTTL \in Nat \ {0} /\ ResponseMaxTTL \in Nat \ {0} /\ ProofTTL \in Nat \ {0}
  /\ AAPMaxClock \in Nat /\ AAPMaxFaults \in Nat

ASSUME AAPCallsAssumption == IsFiniteSet(Issuances)

VARIABLES aapNow,
          store,      \* the cache: the challenge under each id, with its eviction time
          drawn,      \* history: the id of each nonce
          issuing,    \* the Generate calls under way
          handed,     \* challenges returned to clients
          verifying,  \* the Verify calls under way
          accepted,   \* history: successful verifications of each nonce
          excused,    \* history: nonces read twice before a Del, or whose Del failed
          proofs,     \* proofs that were issued
          aapFaults

aapVars == <<aapNow, store, drawn, issuing, handed, verifying, accepted, excused, proofs,
             aapFaults>>

NoChallenge == [nonce |-> 0, issued |-> 0, expires |-> 0, evict |-> 0]

NotIssuing == [pc |-> "idle", id |-> "none", ch |-> NoChallenge]

\* Stands for every response whose signature does not verify.
Forged == [nonce |-> 0, issued |-> 0, uuid |-> "none"]

NotVerifying == [pc |-> "idle", id |-> "none", at |-> 0, resp |-> Forged, uuid |-> "none",
                 ch |-> NoChallenge]

Finished == [NotVerifying EXCEPT !.pc = "done"]

AAPInit ==
  /\ aapNow = 0
  /\ store = [i \in ChallengeIDs |-> NoChallenge]
  /\ drawn = <<>>
  /\ issuing = [g \in Issuances |-> NotIssuing]
  /\ handed = {}
  /\ verifying = [v \in Presentations |-> NotVerifying]
  /\ accepted = [n \in 1..Cardinality(Issuances) |-> 0]
  /\ excused = {}
  /\ proofs = {}
  /\ aapFaults = 0

AAPFault == aapFaults < AAPMaxFaults /\ aapFaults' = aapFaults + 1

\* Time passes, and the cache drops what has reached its TTL.
AAPTick ==
  /\ aapNow < AAPMaxClock
  /\ aapNow' = aapNow + 1
  /\ store' = [i \in ChallengeIDs |->
                 IF store[i].nonce # 0 /\ store[i].evict <= aapNow' THEN NoChallenge ELSE store[i]]
  /\ UNCHANGED <<drawn, issuing, handed, verifying, accepted, excused, proofs, aapFaults>>

-----------------------------------------------------------------------------
(* Generator. *)

\* The id, nonce and times of a challenge; nothing is stored yet.
Draw(g, i) ==
  /\ drawn' = Append(drawn, i)
  /\ issuing' = [issuing EXCEPT ![g] =
       [pc |-> "set", id |-> i,
        ch |-> [nonce |-> Len(drawn'), issued |-> aapNow, expires |-> aapNow + ChallengeTTL,
                evict |-> 0]]]
  /\ UNCHANGED <<aapNow, store, handed, verifying, accepted, excused, proofs, aapFaults>>

\* Generate: the id is random, so it is one nobody else has.
Generate(g) ==
  \E i \in ChallengeIDs :
    /\ issuing[g].pc = "idle"
    /\ \A n \in DOMAIN drawn : drawn[n] # i
    /\ Draw(g, i)

\* GenerateWithID: the id is the caller's; Exists is checked first.
GenerateWithID(g) ==
  \E i \in ChallengeIDs : issuing[g].pc = "idle" /\ store[i] = NoChallenge /\ Draw(g, i)

\* encodeChallenge and decodeChallenge: RFC3339Nano keeps every time exactly.
encodeChallenge(c) == [c EXCEPT !.issued = @, !.expires = @]

\* storeChallenge: Set with the TTL counted from now, then the challenge is
\* returned.  When Set fails the caller gets an error and no challenge, but the
\* cache may have it.
storeChallenge(g) ==
  LET q == issuing[g]
      set == [store EXCEPT ![q.id] =
                [encodeChallenge(q.ch) EXCEPT !.evict = aapNow + ChallengeTTL]] IN
  /\ q.pc = "set"
  /\ \/ store' = set /\ handed' = handed \cup {[id |-> q.id, ch |-> q.ch]} /\ UNCHANGED aapFaults
     \/ AAPFault /\ store' \in {store, set} /\ UNCHANGED handed
  /\ issuing' = [issuing EXCEPT ![g] = [NotIssuing EXCEPT !.pc = "done"]]
  /\ UNCHANGED <<aapNow, drawn, verifying, accepted, excused, proofs>>

-----------------------------------------------------------------------------
(* Verifier. *)

\* responsePayload of the challenge a client holds.
responsePayload(c, u) == [nonce |-> c.ch.nonce, issued |-> c.ch.issued, uuid |-> u]

\* internal/cli signs the challenge without the agent_uuid.
cliPayload(c) == [nonce |-> c.ch.nonce, issued |-> c.ch.issued, uuid |-> "none"]

\* Verify as far as the parsing of the public key.  Now is sampled here.  A
\* malformed request returns before anything is consumed and is left out.
VerifyBegin(v) ==
  /\ verifying[v].pc = "idle"
  /\ \E c \in handed, u \in AgentUUIDs :
       \E r \in {responsePayload(c, u), cliPayload(c), Forged} :
         verifying' = [verifying EXCEPT ![v] =
           [pc |-> "get", id |-> c.id, at |-> aapNow, resp |-> r, uuid |-> u,
            ch |-> NoChallenge]]
  /\ UNCHANGED <<aapNow, store, drawn, issuing, handed, accepted, excused, proofs, aapFaults>>

\* LoadChallenge.  A miss or a failed call ends Verify.
LoadChallenge(v) ==
  LET q == verifying[v] IN
  /\ q.pc = "get"
  /\ \/ /\ store[q.id] # NoChallenge
        /\ verifying' = [verifying EXCEPT ![v].pc = "del", ![v].ch = store[q.id]]
        /\ excused' = IF \E w \in Presentations \ {v} :
                            verifying[w].pc = "del" /\ verifying[w].ch.nonce = store[q.id].nonce
                      THEN excused \cup {store[q.id].nonce} ELSE excused
        /\ UNCHANGED aapFaults
     \/ /\ store[q.id] = NoChallenge
        /\ verifying' = [verifying EXCEPT ![v] = Finished]
        /\ UNCHANGED <<excused, aapFaults>>
     \/ AAPFault /\ verifying' = [verifying EXCEPT ![v] = Finished] /\ UNCHANGED excused
  /\ UNCHANGED <<aapNow, store, drawn, issuing, handed, accepted, proofs>>

ConsumeChallenge_KeepsIt(v) ==
  LET q == verifying[v] IN
  /\ q.pc = "del"
  /\ verifying' = [verifying EXCEPT ![v].pc = "check"]
  /\ UNCHANGED <<aapNow, store, drawn, issuing, handed, accepted, excused, proofs, aapFaults>>

\* The rest of ConsumeChallenge: Del by id, its error ignored.
ConsumeChallenge(v) ==
  LET q == verifying[v] IN
  /\ q.pc = "del"
  /\ \/ store' = [store EXCEPT ![q.id] = NoChallenge] /\ UNCHANGED <<excused, aapFaults>>
     \/ AAPFault /\ excused' = excused \cup {q.ch.nonce} /\ UNCHANGED store
  /\ verifying' = [verifying EXCEPT ![v].pc = "check"]
  /\ UNCHANGED <<aapNow, drawn, issuing, handed, accepted, proofs>>

VerifyAccepts_CacheExpires(q) ==
  /\ ~(q.at > q.ch.issued + ResponseMaxTTL)
  /\ q.resp = [nonce |-> q.ch.nonce, issued |-> q.ch.issued, uuid |-> q.uuid]

\* The time window, judged at the sampled Now, and the signature over the
\* stored challenge and the agent_uuid of the request.
VerifyAccepts(q) ==
  /\ q.at < q.ch.expires
  /\ ~(q.at > q.ch.issued + ResponseMaxTTL)
  /\ q.resp = [nonce |-> q.ch.nonce, issued |-> q.ch.issued, uuid |-> q.uuid]

\* Unix seconds.
Unix(t) == t \div 2

\* ProofSigner.Sign; IssueProof makes the same proof with exact times.
Sign(u, n, at, t) ==
  [jti |-> n, sub |-> u, answered |-> at, signed |-> t, exp |-> Unix(t + ProofTTL)]

\* The end of Verify; on success the caller issues the proof.
VerifyEnd(v) ==
  LET q == verifying[v] IN
  /\ q.pc = "check"
  /\ \/ /\ VerifyAccepts(q)
        /\ accepted' = [accepted EXCEPT ![q.ch.nonce] = @ + 1]
        /\ proofs' = proofs \cup {Sign(q.uuid, q.ch.nonce, q.at, aapNow)}
     \/ ~VerifyAccepts(q) /\ UNCHANGED <<accepted, proofs>>
  /\ verifying' = [verifying EXCEPT ![v] = Finished]
  /\ UNCHANGED <<aapNow, store, drawn, issuing, handed, excused, aapFaults>>

-----------------------------------------------------------------------------
(* The middleware. *)

\* ProofSigner.Verify of a proof this issuer signed.
ProofVerifies(p, t) == p.exp > Unix(t)

\* VerifyProof: the same proof in its other form, which keeps exact times.
VerifyProof(p, t) == t < p.signed + ProofTTL

\* Middleware.Wrap: the handler runs with the user context of the proof.
\* Skipped paths run without one.  Without a proof or with a bad one the error
\* handler answers 401, over plain HTTP when HTTPS is required 426.
Wrap(cfg, req, p, t) ==
  CASE req.skipped -> "next"
    [] ~req.skipped /\ cfg.requireHTTPS /\ ~req.tls /\ ~req.forwardedHTTPS -> "426"
    [] OTHER -> IF ProofVerifies(p, t) THEN "user" ELSE "401"

AAPNext ==
  \/ AAPTick
  \/ \E g \in Issuances : Generate(g) \/ GenerateWithID(g) \/ storeChallenge(g)
  \/ \E v \in Presentations :
       VerifyBegin(v) \/ LoadChallenge(v) \/ ConsumeChallenge(v) \/ VerifyEnd(v)

AAPSpec == AAPInit /\ [][AAPNext]_aapVars

-----------------------------------------------------------------------------

\* Verify is one-time: a challenge is accepted a second time only when two
\* presentations read it before either deleted it, or a Del failed.
AcceptedOnce ==
  \A n \in DOMAIN accepted : n \notin excused => accepted[n] <= 1

\* Whatever is replayed, raced, evicted or overwritten: a proof the middleware
\* still makes a user of was signed less than ProofTTL ago, for an accepted answer given
\* within ChallengeTTL of the challenge it answers.
ProofRestsOnHandshake ==
  \A p \in proofs, req \in [skipped : BOOLEAN, tls : BOOLEAN, forwardedHTTPS : BOOLEAN] :
    Wrap([requireHTTPS |-> TRUE], req, p, aapNow) = "user" =>
      \E c \in handed :
        /\ p.jti = c.ch.nonce /\ accepted[p.jti] > 0
        /\ p.answered < c.ch.issued + ChallengeTTL
        /\ aapNow < p.signed + ProofTTL

\* The two forms of one proof agree: the JWT never outlives the exact form
\* and ends less than a second before it.
ProofFormsAgree ==
  \A p \in proofs :
    /\ ProofVerifies(p, aapNow) => VerifyProof(p, aapNow)
    /\ VerifyProof(p, aapNow) => aapNow + 2 > p.signed + ProofTTL \/ ProofVerifies(p, aapNow)

\* A good answer is refused only for cause: a presentation that signs what it
\* was handed, in time, and finds a challenge is accepted, unless the id was
\* issued again under it.
GoodAnswerAccepted ==
  \A v \in Presentations, c \in handed :
    LET q == verifying[v] IN
    /\ q.pc = "check"
    /\ c.id = q.id /\ q.resp = responsePayload(c, q.uuid)
    /\ q.at < c.ch.issued + ChallengeTTL /\ ChallengeTTL <= ResponseMaxTTL
    /\ \A n \in DOMAIN drawn : drawn[n] = c.id => n = c.ch.nonce
    => VerifyAccepts(q)

\* Proofs are what they claim: signed for a handshake that took place, the same
\* in both forms, and never withheld from a good answer.
ProofsAreEarned == ProofRestsOnHandshake /\ ProofFormsAgree /\ GoodAnswerAccepted

-----------------------------------------------------------------------------
(* The inductive invariant. *)

ChallengeRecord == [nonce : Nat, issued : Nat, expires : Nat, evict : Nat]

Serials == 1..Cardinality(Issuances)

AAPTypeOK ==
  /\ aapNow \in 0..AAPMaxClock
  /\ store \in [ChallengeIDs -> ChallengeRecord]
  /\ drawn \in Seq(ChallengeIDs)
  /\ issuing \in [Issuances -> [pc : {"idle", "set", "done"}, id : ChallengeIDs \cup {"none"},
                                ch : ChallengeRecord]]
  /\ handed \subseteq [id : ChallengeIDs, ch : ChallengeRecord]
  /\ verifying \in [Presentations ->
       [pc : {"idle", "get", "del", "check", "done"}, id : ChallengeIDs \cup {"none"}, at : Nat,
        resp : [nonce : Nat, issued : Nat, uuid : AgentUUIDs \cup {"none"}],
        uuid : AgentUUIDs \cup {"none"}, ch : ChallengeRecord]]
  /\ accepted \in [Serials -> Nat]
  /\ excused \subseteq Nat
  /\ proofs \subseteq [jti : Nat, sub : AgentUUIDs \cup {"none"}, answered : Nat, signed : Nat,
                       exp : Nat]
  /\ aapFaults \in 0..AAPMaxFaults

\* Every call of the Generator draws one nonce.
DrawnInv == Len(drawn) = Cardinality({g \in Issuances : issuing[g].pc # "idle"})

\* c is the challenge its serial number was drawn for, under id i: when[n] is
\* the time of serial number n.
Real(c, i, d, when) ==
  /\ c.nonce \in 1..Len(d)
  /\ d[c.nonce] = i
  /\ c.issued = when[c.nonce]
  /\ c.expires = c.issued + ChallengeTTL

\* p rests on a challenge that was handed out and accepted.
Earned(p, when) ==
  /\ p.jti \in Serials /\ accepted[p.jti] > 0
  /\ \E c \in handed : c.ch.nonce = p.jti
  /\ p.answered < when[p.jti] + ChallengeTTL
  /\ p.exp = Unix(p.signed + ProofTTL)

Genuine(when) ==
  /\ \A i \in ChallengeIDs : store[i] = NoChallenge \/ Real(store[i], i, drawn, when)
  /\ \A g \in Issuances :
       issuing[g].pc = "set" => Real(issuing[g].ch, issuing[g].id, drawn, when)
  /\ \A c \in handed : Real(c.ch, c.id, drawn, when)
  /\ \A v \in Presentations :
       /\ verifying[v].pc \in {"get", "del", "check"} => verifying[v].id \in ChallengeIDs
       /\ verifying[v].pc \in {"del", "check"} =>
            Real(verifying[v].ch, verifying[v].id, drawn, when)
       /\ \/ verifying[v].resp = Forged
          \/ \E c \in handed : c.ch.nonce = verifying[v].resp.nonce
  /\ \A p \in proofs : Earned(p, when)

\* Whatever is stored, held or handed out is what was drawn.
GenuineInv == \E when \in [Serials -> 0..AAPMaxClock] : Genuine(when)

Holds(v, n) == verifying[v].pc \in {"del", "check"} /\ verifying[v].ch.nonce = n

Absent(n) == \A i \in ChallengeIDs : store[i].nonce # n

\* A challenge that is not stored yet is nowhere else, one not drawn was never
\* accepted.
FreshInv ==
  /\ \A n \in Serials : n > Len(drawn) => accepted[n] = 0
  /\ \A g \in Issuances : issuing[g].pc = "set" =>
       LET n == issuing[g].ch.nonce IN
       /\ Absent(n) /\ accepted[n] = 0
       /\ \A v \in Presentations : ~Holds(v, n)
       /\ \A h \in Issuances \ {g} : issuing[h].pc = "set" => issuing[h].ch.nonce # n

\* A challenge is in the cache, with one presentation, or used up: never two of
\* these, except between the read and the Del of one presentation.
OnceInv ==
  \A n \in Serials \ excused :
    /\ accepted[n] <= 1
    /\ accepted[n] > 0 => Absent(n)
    /\ \A v \in Presentations : Holds(v, n) =>
         /\ accepted[n] = 0
         /\ verifying[v].pc = "check" => Absent(n)
         /\ \A w \in Presentations \ {v} : ~Holds(w, n)

AAPInv == AAPTypeOK /\ DrawnInv /\ GenuineInv /\ FreshInv /\ OnceInv
=============================================================================
