------------------------------ MODULE MCAuthz ------------------------------
(***************************************************************************)
(* The authorisation packages for TLC.  They share no state, so a          *)
(* behaviour exercises the one its scene names.                            *)
(***************************************************************************)
EXTENDS AAPHandshake, RateLimiters, JWKSHandler, LevelTemplates, MoltCaptcha, TrustLevel, TLC

VARIABLE scene

authzVars == <<scene, aapVars, rlVars, jwksVars, rbacVars, moltVars, trustVars>>

Entry(n, m) == [name |-> n, mask |-> m]

MCLevelFiles ==
  {[readable |-> TRUE, entries |-> es] :
     es \in {{Entry("basic", <<15, 0>>)},
             {Entry("level1", <<1>>), Entry("pro", <<2, 0, 1>>)},
             {Entry("test", <<3>>), Entry("0", <<5>>)},
             {Entry("root", <<1>>)}}}

MCTopics == {<<1, 2>>, <<3, 5, 2>>}
MCAnswers == {<<<<1, 2>>, <<1, 2>>>>, <<<<1, 2>>, <<1, 2>>, <<1, 2>>, <<1, 2, 0>>>>}
MCKeywords == [t \in {<<1, 2>>} |-> {<<1, 2>>, <<2, 0, 1>>}]

\* Calls, presentations and the ids drawn are interchangeable.  The goroutines
\* of the other modules have the same names as the calls that issue a
\* challenge, for only one module moves in a behaviour (safety runs only).
MCSymmetry ==
  Permutations(ChallengeIDs) \cup Permutations(Issuances) \cup Permutations(Presentations)

Init ==
  /\ scene \in {"aap", "limits", "jwks", "levels", "captcha", "trust"}
  /\ AAPInit /\ JWKSInit /\ MoltInit /\ TrustInit
  /\ IF scene = "limits" THEN RLInit ELSE RLInit /\ limiter = "allow" /\ failOpen
  /\ IF scene = "levels" THEN RBACInit
     ELSE RBACInit /\ levelFile.content = CHOOSE f \in LevelFiles : TRUE

Next ==
  \/ scene = "aap" /\ AAPNext
     /\ UNCHANGED <<scene, rlVars, jwksVars, rbacVars, moltVars, trustVars>>
  \/ scene = "limits" /\ RLNext
     /\ UNCHANGED <<scene, aapVars, jwksVars, rbacVars, moltVars, trustVars>>
  \/ scene = "jwks" /\ JWKSNext
     /\ UNCHANGED <<scene, aapVars, rlVars, rbacVars, moltVars, trustVars>>
  \/ scene = "levels" /\ RBACNext
     /\ UNCHANGED <<scene, aapVars, rlVars, jwksVars, moltVars, trustVars>>
  \/ scene = "captcha" /\ MoltNext
     /\ UNCHANGED <<scene, aapVars, rlVars, jwksVars, rbacVars, trustVars>>
  \/ scene = "trust" /\ TrustNext
     /\ UNCHANGED <<scene, aapVars, rlVars, jwksVars, rbacVars, moltVars>>

Spec == Init /\ [][Next]_authzVars
=============================================================================
