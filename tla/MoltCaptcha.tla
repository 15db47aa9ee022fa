---------------------------- MODULE MoltCaptcha ----------------------------
(***************************************************************************)
(* internal/authz/moltcaptcha: a generator stores challenges in the cache  *)
(* and a verifier consumes one per answer and judges its words by a chain  *)
(* of rules.  Time is in units of five seconds.                            *)
(*                                                                         *)
(* A character is a number: 0 a space, 1 and 2 small letters, 3 and 4 the  *)
(* same as capitals, 5 neither letter nor digit.  Its code is the number.  *)
(***************************************************************************)
EXTENDS Integers, Sequences, FiniteSets, SequencesExt

CONSTANTS Topics,          \* TopicPool, sequences of characters
          Answers,         \* word lists clients submit
          Asked,           \* difficulties that are asked for
          Captchas,        \* challenge ids, one per call of Generate
          Solvers,         \* concurrent calls of Verify
          Keywords,        \* the Matcher's table: a set of words per topic
          MoltTTL,         \* GeneratorConfig.DefaultTTL
          MinWordLen, MaxWordLen, SemanticMinOverlap, ASCIIOffset,   \* VerifierConfig
          TotalCharsMin, TotalCharsMax,   \* the same; 0 leaves the default
          Stamps,          \* submission times callers put into their VerifyInput
          MaxSet,          \* bound: how long the cache may take to store a challenge
          MoltMaxClock, MoltMaxFaults   \* bounds

Difficulties == {"easy", "medium", "hard", "extreme"}

Alphabet == 0..5

\* The minima are positive, as NewVerifier makes them.
ASSUME MoltAssumption ==
  /\ Asked \subseteq Difficulties
  /\ MoltTTL \in Nat \ {0} /\ MoltMaxClock \in Nat /\ MoltMaxFaults \in Nat
  /\ Topics \subseteq Seq(Alphabet) /\ Answers \subseteq Seq(Seq(Alphabet))
  /\ DOMAIN Keywords \subseteq Seq(Alphabet)
  /\ \A t \in DOMAIN Keywords : Keywords[t] \subseteq Seq(Alphabet)
  /\ MinWordLen \in Nat \ {0} /\ MaxWordLen \in Nat /\ SemanticMinOverlap \in Nat \ {0}
  /\ TotalCharsMin \in Nat /\ TotalCharsMax \in Nat
  /\ Stamps \subseteq Nat /\ MaxSet \in Nat
  /\ ASCIIOffset \in Int

VARIABLES moltNow,
          captchas,    \* every challenge that was generated
          inCache,     \* the ids the cache holds
          solving,     \* the Verify calls under way
          judged,      \* history: answers judged, per challenge
          moltExcused, \* history: challenges read twice before a Del, or whose Del failed
          moltFaults

moltVars == <<moltNow, captchas, inCache, solving, judged, moltExcused, moltFaults>>

Hops(d) == CASE d = "easy" -> 1 [] d = "medium" -> 2 [] d = "hard" -> 3 [] d = "extreme" -> 4

\* 30, 20, 15 and 10 seconds.
TimeLimit(d) == CASE d = "easy" -> 6 [] d = "medium" -> 4 [] d = "hard" -> 3 [] d = "extreme" -> 2

NotSolving ==
  [pc |-> "idle", id |-> "none", words |-> <<>>, stamped |-> FALSE, at |-> 0, began |-> 0,
   verdict |-> FALSE]

MoltInit ==
  /\ moltNow = 0
  /\ captchas = <<>>
  /\ inCache = {}
  /\ solving = [s \in Solvers |-> NotSolving]
  /\ judged = [c \in Captchas |-> 0]
  /\ moltExcused = {}
  /\ moltFaults = 0

MoltFault == moltFaults < MoltMaxFaults /\ moltFaults' = moltFaults + 1

\* The cached challenge, which decodes to what was encoded.
Challenge(id) == captchas[CHOOSE i \in DOMAIN captchas : captchas[i].id = id]

MoltTick ==
  /\ moltNow < MoltMaxClock
  /\ moltNow' = moltNow + 1
  /\ inCache' = {c \in inCache : moltNow' < Challenge(c).cached + MoltTTL}
  /\ UNCHANGED <<captchas, solving, judged, moltExcused, moltFaults>>

\* GenerateWithDifficulty: the topic hangs on the random id.  The clock is read
\* before the Set, whose TTL starts to run when the cache has stored the entry.
\* A failed Set returns no challenge, though the cache may have it.
GenerateWithDifficulty(id) ==
  /\ \A i \in DOMAIN captchas : captchas[i].id # id
  /\ \E d \in Asked, topic \in Topics, issued \in {t \in 0..moltNow : moltNow - t <= MaxSet} :
       captchas' = Append(captchas, [id |-> id, topic |-> topic, hops |-> Hops(d),
                                     limit |-> TimeLimit(d), issued |-> issued,
                                     expires |-> issued + MoltTTL, cached |-> moltNow])
  /\ inCache' = inCache \cup {id}
  /\ UNCHANGED <<moltNow, solving, judged, moltExcused, moltFaults>>

-----------------------------------------------------------------------------
(* Verifier. *)

\* What a caller of Verify gives as SubmittedAt; the zero time says nothing.
Submitted == {[stamped |-> FALSE, at |-> 0]} \cup {[stamped |-> TRUE, at |-> t] : t \in Stamps}

\* Verify up to the cache; an empty answer is refused before it.
MoltVerify(s) ==
  /\ solving[s].pc = "idle"
  /\ \E i \in DOMAIN captchas, w \in Answers, sub \in Submitted :
       /\ w # <<>>
       /\ solving' = [solving EXCEPT ![s] =
            [NotSolving EXCEPT !.pc = "get", !.id = captchas[i].id, !.words = w,
                               !.stamped = sub.stamped, !.at = sub.at, !.began = moltNow]]
  /\ UNCHANGED <<moltNow, captchas, inCache, judged, moltExcused, moltFaults>>

MoltLoadChallenge(s) ==
  LET id == solving[s].id IN
  /\ solving[s].pc = "get"
  /\ \/ /\ id \in inCache
        /\ solving' = [solving EXCEPT ![s].pc = "del"]
        /\ moltExcused' = IF \E q \in Solvers \ {s} : solving[q].pc = "del" /\ solving[q].id = id
                          THEN moltExcused \cup {id} ELSE moltExcused
        /\ UNCHANGED moltFaults
     \/ /\ id \notin inCache \/ moltFaults < MoltMaxFaults
        /\ moltFaults' = IF id \in inCache THEN moltFaults + 1 ELSE moltFaults
        /\ solving' = [solving EXCEPT ![s].pc = "done"]
        /\ UNCHANGED moltExcused
  /\ UNCHANGED <<moltNow, captchas, inCache, judged>>

\* SubmittedAt is taken from the caller; only the zero time is replaced, by the
\* verifier's clock.
SubmittedAt(s) == IF solving[s].stamped THEN solving[s].at ELSE moltNow

MoltConsume_OnSuccess(s) ==
  /\ solving[s].pc = "del"
  /\ solving' = [solving EXCEPT ![s].pc = "judge", ![s].at = SubmittedAt(s)]
  /\ UNCHANGED <<moltNow, captchas, inCache, judged, moltExcused, moltFaults>>

\* Del, its error ignored; the verifier's clock is read after it.
MoltConsume(s) ==
  /\ solving[s].pc = "del"
  /\ \/ inCache' = inCache \ {solving[s].id} /\ UNCHANGED <<moltExcused, moltFaults>>
     \/ MoltFault /\ moltExcused' = moltExcused \cup {solving[s].id} /\ UNCHANGED inCache
  /\ solving' = [solving EXCEPT ![s].pc = "judge", ![s].at = SubmittedAt(s)]
  /\ UNCHANGED <<moltNow, captchas, judged>>

lower(c) == IF c \in {3, 4} THEN c - 2 ELSE c

\* strings.TrimSpace.
TrimSpace(w) ==
  LET chars == {i \in DOMAIN w : w[i] # 0} IN
  IF chars = {} THEN <<>> ELSE SubSeq(w, Min(chars), Max(chars))

SumOf(w) ==
  LET sum[i \in 0..Len(w)] == IF i = 0 THEN 0 ELSE sum[i - 1] + w[i] IN sum[Len(w)]

totalChars(words) == SumOf([i \in DOMAIN words |-> Len(TrimSpace(words[i]))])
asciiSum(words) == SumOf([i \in DOMAIN words |-> SumOf(TrimSpace(words[i]))])

totalCharsMin(c) == IF TotalCharsMin > 0 THEN TotalCharsMin ELSE c.hops * MinWordLen
totalCharsMax(c) == IF TotalCharsMax > 0 THEN TotalCharsMax ELSE c.hops * MaxWordLen

totalCharsOK(c, words) ==
  LET n == totalChars(words) IN totalCharsMin(c) <= n /\ n <= totalCharsMax(c)

expectedASCIISum(c) == SumOf(c.topic) * c.hops + ASCIIOffset

checkCharPositions(c, words) ==
  LET topic == TrimSpace(c.topic)
      first == TrimSpace(words[1])
      last == TrimSpace(words[Len(words)]) IN
  /\ topic # <<>> /\ first # <<>> /\ last # <<>>
  /\ lower(Head(first)) = lower(Head(topic))
  /\ lower(Last(last)) = lower(Last(topic))

\* The letters and digits the words share, small and capital alike.
commonCharCount(a, b) ==
  Cardinality({lower(c) : c \in ToSet(a) \ {0, 5}} \cap {lower(c) : c \in ToSet(b) \ {0, 5}})

checkSemantic(words) ==
  \A i \in 1..(Len(words) - 1) :
    commonCharCount(TrimSpace(words[i]), TrimSpace(words[i + 1])) >= SemanticMinOverlap

RulesAccept(c, words) ==
  /\ Len(words) = c.hops
  /\ totalCharsOK(c, words)
  /\ asciiSum(words) = expectedASCIISum(c)
  /\ checkCharPositions(c, words)
  /\ checkSemantic(words)

InTime(c, t) == t < c.expires /\ ~(t - c.issued > c.limit)

MoltJudge(s) ==
  LET q == solving[s]
      c == Challenge(q.id) IN
  /\ q.pc = "judge"
  /\ judged' = [judged EXCEPT ![q.id] = @ + 1]
  /\ solving' = [solving EXCEPT ![s].pc = "done", ![s].at = 0,
                                ![s].verdict = InTime(c, q.at) /\ RulesAccept(c, q.words)]
  /\ UNCHANGED <<moltNow, captchas, inCache, moltExcused, moltFaults>>

MoltNext ==
  \/ MoltTick
  \/ \E c \in Captchas : GenerateWithDifficulty(c)
  \/ \E s \in Solvers : MoltVerify(s) \/ MoltLoadChallenge(s) \/ MoltConsume(s) \/ MoltJudge(s)

-----------------------------------------------------------------------------
(* Matcher. *)

\* strings.Contains.
HasSubstring(w, k) == \E i \in 0..(Len(w) - Len(k)) : \A j \in 1..Len(k) : w[i + j] = k[j]

ToLower(w) == [i \in DOMAIN w |-> lower(w[i])]

\* strings.Join(words, " ").
Joined(words) ==
  LET join[i \in 0..Len(words)] ==
        CASE i = 0 -> <<>> [] i = 1 -> words[1] [] OTHER -> join[i - 1] \o <<0>> \o words[i] IN
  join[Len(words)]

KeywordsFor(topic) == LET t == ToLower(TrimSpace(topic)) IN
  IF t \in DOMAIN Keywords THEN Keywords[t] ELSE {}

ContainsAny(words, topic) ==
  \E k \in KeywordsFor(topic), i \in DOMAIN words : HasSubstring(ToLower(words[i]), k)

MatchedKeywords(words, topic) == {k \in KeywordsFor(topic) : HasSubstring(ToLower(Joined(words)), k)}

ContainsAll(words, topic) ==
  ToLower(TrimSpace(topic)) \in DOMAIN Keywords
    /\ MatchedKeywords(words, topic) = KeywordsFor(topic)

-----------------------------------------------------------------------------

\* A challenge can be tried once, right or wrong: a second answer is judged
\* only when two calls read the challenge before either deleted it, or a Del
\* failed.
OneTryPerCaptcha == \A c \in Captchas : c \notin moltExcused => judged[c] <= 1

\* Whatever time its caller gives, an accepted answer reached the verifier while
\* the cache kept the challenge.  When the verifier's clock times the answer, it
\* came within the time limit of the difficulty and before the challenge expired,
\* however long its calls took.  A stamp is believed: for a caller that gives one,
\* the difficulty's time limit bounds nothing.
AcceptedInTime ==
  \A s \in Solvers :
    solving[s].pc = "done" /\ solving[s].verdict =>
      LET c == Challenge(solving[s].id) IN
      /\ solving[s].began < c.cached + MoltTTL
      /\ ~solving[s].stamped =>
           solving[s].began <= c.issued + c.limit /\ solving[s].began < c.issued + MoltTTL

\* Every challenge has an answer: without an ASCIIOffset, the topic repeated
\* once per hop passes the whole chain of rules, if that is as long as an answer
\* may be and the topic has enough different letters.
Solvable ==
  \A i \in DOMAIN captchas :
    LET c == captchas[i]
        topic == c.topic IN
    /\ ASCIIOffset = 0 /\ TrimSpace(topic) = topic /\ topic # <<>>
    /\ totalCharsMin(c) <= c.hops * Len(topic) /\ c.hops * Len(topic) <= totalCharsMax(c)
    /\ commonCharCount(topic, topic) >= SemanticMinOverlap
    => RulesAccept(c, [h \in 1..c.hops |-> topic])

\* The Matcher's three questions about one answer agree: a keyword found in
\* one word is found in the whole answer, and all of them are there only if
\* any is.  A keyword with a space may be found in the whole answer alone.
MatcherAgrees ==
  \A s \in Solvers, i \in DOMAIN captchas :
    LET words == solving[s].words
        topic == captchas[i].topic IN
    words # <<>> =>
      /\ ContainsAny(words, topic) => MatchedKeywords(words, topic) # {}
      /\ ContainsAll(words, topic) /\ (\A k \in KeywordsFor(topic) : 0 \notin ToSet(k))
         => KeywordsFor(topic) = {} \/ ContainsAny(words, topic)

\* What a captcha promises: one try, in time, at a task that can be done, and
\* keyword questions that agree with each other.
CaptchaIsFair == OneTryPerCaptcha /\ AcceptedInTime /\ Solvable /\ MatcherAgrees

-----------------------------------------------------------------------------
(* The inductive invariant. *)

Captcha ==
  [id : Captchas, topic : Topics, hops : 1..4, limit : Nat, issued : Nat, expires : Nat,
   cached : Nat]

MoltTypeOK ==
  /\ moltNow \in Nat
  /\ captchas \in Seq(Captcha)
  /\ DOMAIN solving = Solvers
  /\ \A s \in Solvers :
       /\ DOMAIN solving[s] = DOMAIN NotSolving
       /\ solving[s].pc \in {"idle", "get", "del", "judge", "done"}
       /\ solving[s].at \in Nat /\ solving[s].began \in Nat /\ solving[s].stamped \in BOOLEAN
       /\ solving[s].words \in Answers \cup {<<>>}
  /\ judged \in [Captchas -> Nat]

Generated == {captchas[i].id : i \in DOMAIN captchas}

\* Every id is generated once, before it is cached, tried or judged.
GeneratedInv ==
  /\ \A i, j \in DOMAIN captchas : captchas[i].id = captchas[j].id => i = j
  /\ \A i \in DOMAIN captchas : captchas[i].expires = captchas[i].issued + MoltTTL
  /\ inCache \subseteq Generated
  /\ \A s \in Solvers : solving[s].pc # "idle" => solving[s].id \in Generated
  /\ \A c \in Captchas \ Generated : judged[c] = 0

\* s has taken challenge c and has not judged its answer.
Tries(s, c) == solving[s].pc \in {"del", "judge"} /\ solving[s].id = c

\* A challenge is in the cache, with one call, or judged; the cache may have
\* it together with the one call that is about to delete it.
MoltOnceInv ==
  \A c \in Captchas \ moltExcused :
    /\ judged[c] <= 1
    /\ c \in inCache => judged[c] = 0 /\ \A s \in Solvers : Tries(s, c) => solving[s].pc = "del"
    /\ \A s, q \in Solvers : Tries(s, c) /\ Tries(q, c) => s = q
    /\ judged[c] = 1 => \A s \in Solvers : ~Tries(s, c)

\* The time an answer is judged by is not before its call began.
MoltTimeInv ==
  \A s \in Solvers :
    /\ solving[s].began <= moltNow
    /\ solving[s].pc = "judge" /\ ~solving[s].stamped => solving[s].began <= solving[s].at

\* The cache keeps a challenge for its TTL, and a call that took one began before
\* it was gone.
KeptInv ==
  \A i \in DOMAIN captchas :
    /\ captchas[i].id \in inCache => moltNow < captchas[i].cached + MoltTTL
    /\ \A s \in Solvers :
         Tries(s, captchas[i].id) => solving[s].began < captchas[i].cached + MoltTTL

VerdictsAreFinal == \A s \in Solvers : solving[s].verdict => solving[s].pc = "done"

MoltInv ==
  /\ MoltTypeOK /\ GeneratedInv /\ MoltOnceInv /\ MoltTimeInv /\ KeptInv
  /\ VerdictsAreFinal /\ AcceptedInTime

MoltSpec == MoltInit /\ [][MoltNext]_moltVars
=============================================================================
