---------------------------- MODULE MCHybridLive ----------------------------
(***************************************************************************)
(* HybridBackend with its syncer running, the life cycle of the syncer,    *)
(* and LocalBackend on its own, for TLC; a behaviour exercises the one its *)
(* scene names.                                                            *)
(***************************************************************************)
EXTENDS HybridBackend, SyncerLifecycle

VARIABLE scene

\* The default interval and a disabled syncer.
MCSyncIntervals == {0, -1}

LiveInit ==
  /\ scene \in {"hybrid", "syncer", "local"}
  /\ Init
  /\ SLInit /\ (scene # "syncer" => interval = DefaultInterval)

\* Clients may stop calling at any time; that no call gets stuck is what
\* CallsReturn says.
NoCall == UNCHANGED localVars

LiveNext ==
  \/ scene = "hybrid" /\ Next /\ UNCHANGED <<scene, slVars>>
  \/ scene = "syncer" /\ SLNext /\ UNCHANGED <<scene, vars>>
  \/ scene = "local" /\ (LocalNext \/ NoCall) /\ UNCHANGED <<scene, chain, read, sync, held, slVars>>

\* HybridBackend's Fairness, confined to its own scenes: in the syncer's the
\* ticker's next pass would be enabled and never taken.  A call inside LocalBackend
\* has one step at a time to take, so for the goroutines of LocalBackend on its own
\* this is LocalFairness.
HybridFairness ==
  /\ \A w \in Writers : SF_vars(scene # "syncer" /\ WriterStep(w))
  /\ \A r \in Readers : WF_vars(scene = "hybrid" /\ ReaderStep(r))
  /\ \A s \in Syncers : WF_vars(scene = "hybrid" /\ SyncStep(s))

LiveSpec ==
  /\ LiveInit /\ [][LiveNext]_<<scene, vars, slVars>>
  /\ SLFairness /\ HybridFairness
=============================================================================
