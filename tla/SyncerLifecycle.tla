-------------------------- MODULE SyncerLifecycle --------------------------
(***************************************************************************)
(* Start and Close of core/backend/hybrid.go with the goroutine of         *)
(* backgroundSyncer.  Any number of goroutines call either; `started' is   *)
(* an atomic flag and stopOnce a sync.Once, but the fields cancel and      *)
(* stopped of the syncer are read and written without a lock, so each      *)
(* access is a step.  What a pass does is in HybridBackend.                *)
(***************************************************************************)
EXTENDS Integers

CONSTANTS Callers,          \* goroutines that call Start or Close
          SyncIntervals     \* values of HybridConfig.SyncInterval

ASSUME SyncIntervalsAssumption == SyncIntervals \subseteq Int

VARIABLES interval,     \* cfg.SyncInterval after NewHybridBackend
          started,
          stopOnce,     \* "new", "running" or "done"
          cancel,       \* s.cancel is set
          stopped,      \* s.stopped: "nil", "open" or "closed"
          cancelled,    \* the loop's context is cancelled
          loop,         \* the goroutine: "none", "select", "pass" or "ended"
          doing,        \* doing[g]: where goroutine g is
          closes,       \* history: the first Close has begun, has closed the backends
          raced         \* history: a Start was not over when a Close began

slVars == <<interval, started, stopOnce, cancel, stopped, cancelled, loop, doing, closes, raced>>

DefaultInterval == 5

\* NewHybridBackend replaces 0 by the default.
NewHybridBackend == interval \in {IF i = 0 THEN DefaultInterval ELSE i : i \in SyncIntervals}

SLInit ==
  /\ NewHybridBackend
  /\ started = FALSE /\ stopOnce = "new"
  /\ cancel = FALSE /\ stopped = "nil"
  /\ cancelled = FALSE /\ loop = "none"
  /\ doing = [g \in Callers |-> "idle"]
  /\ closes = "none" /\ raced = FALSE

Is(g, pc) == doing[g] = pc
Go(g, pc) == doing' = [doing EXCEPT ![g] = pc]

Starting == {"syncer", "set_cancel", "set_stopped"}

-----------------------------------------------------------------------------
(* Start *)

\* HybridBackend.Start: only the first call goes on, and not with an interval
\* below zero.
Start(g) ==
  /\ Is(g, "idle")
  /\ started' = TRUE
  /\ Go(g, IF ~started /\ interval > 0 THEN "syncer" ELSE "idle")
  /\ raced' = (raced \/ (~started /\ interval > 0 /\ closes # "none"))
  /\ UNCHANGED <<interval, stopOnce, cancel, stopped, cancelled, loop, closes>>

\* backgroundSyncer.Start: the test of s.stopped ...
SyncerStart(g) ==
  /\ Is(g, "syncer")
  /\ Go(g, IF stopped = "nil" THEN "set_cancel" ELSE "idle")
  /\ UNCHANGED <<interval, started, stopOnce, cancel, stopped, cancelled, loop, closes, raced>>

\* ... the first assignment ...
SetCancel(g) ==
  /\ Is(g, "set_cancel")
  /\ cancel' = TRUE
  /\ Go(g, "set_stopped")
  /\ UNCHANGED <<interval, started, stopOnce, stopped, cancelled, loop, closes, raced>>

\* ... and the second, with the goroutine.
SetStopped(g) ==
  /\ Is(g, "set_stopped")
  /\ stopped' = "open" /\ loop' = "select"
  /\ Go(g, "idle")
  /\ UNCHANGED <<interval, started, stopOnce, cancel, cancelled, closes, raced>>

-----------------------------------------------------------------------------
(* The loop *)

\* select takes the tick, also when the context is done as well; runOnce.
Tick ==
  /\ loop = "select"
  /\ loop' = "pass"
  /\ UNCHANGED <<interval, started, stopOnce, cancel, stopped, cancelled, doing, closes, raced>>

PassEnds ==
  /\ loop = "pass"
  /\ loop' = "select"
  /\ UNCHANGED <<interval, started, stopOnce, cancel, stopped, cancelled, doing, closes, raced>>

\* select takes ctx.Done; the deferred close(s.stopped).
LoopEnds ==
  /\ loop = "select" /\ cancelled
  /\ loop' = "ended" /\ stopped' = "closed"
  /\ UNCHANGED <<interval, started, stopOnce, cancel, cancelled, doing, closes, raced>>

\* The caller of Start cancels the context it passed.
ParentCancelled ==
  /\ started /\ ~cancelled
  /\ cancelled' = TRUE
  /\ UNCHANGED <<interval, started, stopOnce, cancel, stopped, loop, doing, closes, raced>>

-----------------------------------------------------------------------------
(* Close *)

\* stopOnce.Do: the first caller runs Stop, the others wait until it has.
Close(g) ==
  /\ Is(g, "idle")
  /\ Go(g, IF stopOnce = "new" THEN "stop_cancel" ELSE "once")
  /\ stopOnce' = IF stopOnce = "new" THEN "running" ELSE stopOnce
  /\ closes' = IF closes = "none" THEN "begun" ELSE closes
  /\ raced' = (raced \/ \E h \in Callers : doing[h] \in Starting)
  /\ UNCHANGED <<interval, started, cancel, stopped, cancelled, loop>>

OnceDone(g) ==
  /\ Is(g, "once") /\ stopOnce = "done"
  /\ Go(g, "close")
  /\ UNCHANGED <<interval, started, stopOnce, cancel, stopped, cancelled, loop, closes, raced>>

StopCancel_Skipped(g) ==
  /\ Is(g, "stop_cancel")
  /\ Go(g, "stop_wait")
  /\ UNCHANGED <<interval, started, stopOnce, cancel, stopped, cancelled, loop, closes, raced>>

\* Stop calls s.cancel when it is set ...
StopCancel(g) ==
  /\ Is(g, "stop_cancel")
  /\ cancelled' = (cancelled \/ cancel)
  /\ Go(g, "stop_wait")
  /\ UNCHANGED <<interval, started, stopOnce, cancel, stopped, loop, closes, raced>>

StopWait_DoesNot(g) ==
  /\ Is(g, "stop_wait")
  /\ stopOnce' = "done"
  /\ Go(g, "close")
  /\ UNCHANGED <<interval, started, cancel, stopped, cancelled, loop, closes, raced>>

\* ... and waits for the loop when s.stopped is set.  The channel is read
\* once: a nil one found here is not waited for.
StopWait(g) ==
  /\ Is(g, "stop_wait")
  /\ \/ stopped \in {"nil", "closed"} /\ stopOnce' = "done" /\ Go(g, "close")
     \/ stopped = "open" /\ Go(g, "stop_waits") /\ UNCHANGED stopOnce
  /\ UNCHANGED <<interval, started, cancel, stopped, cancelled, loop, closes, raced>>

StopWoken(g) ==
  /\ Is(g, "stop_waits") /\ stopped = "closed"
  /\ stopOnce' = "done"
  /\ Go(g, "close")
  /\ UNCHANGED <<interval, started, cancel, stopped, cancelled, loop, closes, raced>>

\* chain.Close and local.Close, which do not fail.
CloseBackends(g) ==
  /\ Is(g, "close")
  /\ closes' = "closed"
  /\ Go(g, "idle")
  /\ UNCHANGED <<interval, started, stopOnce, cancel, stopped, cancelled, loop, raced>>

CallStep(g) ==
  \/ SyncerStart(g) \/ SetCancel(g) \/ SetStopped(g)
  \/ OnceDone(g) \/ StopCancel(g) \/ StopWait(g) \/ StopWoken(g) \/ CloseBackends(g)

SLNext ==
  \/ \E g \in Callers : Start(g) \/ Close(g) \/ CallStep(g)
  \/ Tick \/ PassEnds \/ LoopEnds \/ ParentCancelled

\* Goroutines run on and passes end (their context has a timeout).  select
\* chooses at random between a tick and ctx.Done, so Done is taken some time.
SLFairness ==
  /\ \A g \in Callers : WF_slVars(CallStep(g))
  /\ WF_slVars(PassEnds) /\ SF_slVars(LoopEnds)

SLSpec == SLInit /\ [][SLNext]_slVars /\ SLFairness

-----------------------------------------------------------------------------

\* When the sub-backends have been closed no pass is running and none will,
\* unless a Start was under way when Close began, or came later: then the loop
\* outlives Close (hybrid.go:112, 125).
StoppedBeforeClosed == closes = "closed" /\ ~raced => loop \in {"none", "ended"}

\* Every Close returns, unless it races with a Start: Stop may then miss
\* s.cancel, find s.stopped and wait for a loop nobody stops
\* (hybrid.go:341-348).
CloseReturns ==
  \A g \in Callers : Is(g, "stop_cancel") ~> (Is(g, "idle") \/ raced)

-----------------------------------------------------------------------------
(* The inductive invariant. *)

Stopping == {"stop_cancel", "stop_wait", "stop_waits", "once", "close"}

SLTypeOK ==
  /\ doing \in [Callers -> {"idle"} \cup Starting \cup Stopping]
  /\ stopOnce \in {"new", "running", "done"}
  /\ stopped \in {"nil", "open", "closed"}
  /\ loop \in {"none", "select", "pass", "ended"}
  /\ closes \in {"none", "begun", "closed"}
  /\ raced \in BOOLEAN

\* s.stopped tells what the loop does; a Close is remembered from its first
\* step; without a race no Start is under way once a Close has begun, and from
\* the moment Stop has returned there is no loop to pass.
SLInv ==
  /\ SLTypeOK
  /\ stopped = "nil" <=> loop = "none"
  /\ stopped = "closed" <=> loop = "ended"
  /\ stopOnce # "new" \/ (\E g \in Callers : doing[g] \in Stopping) => closes # "none"
  /\ closes # "none" /\ ~raced => \A g \in Callers : doing[g] \notin Starting
  /\ (stopOnce = "done" \/ (\E g \in Callers : doing[g] = "close") \/ closes = "closed") /\ ~raced
       => loop \in {"none", "ended"}
=============================================================================
