\* Liveness: two writers and a syncer on one agent; one failure; and three
\* goroutines that start and close the backend; two goroutines on LocalBackend.
SPECIFICATION LiveSpec
CONSTANTS
  Agents = {a1}
  Levels = {1, 2}
  Writers = {w1, w2}
  Readers = {}
  Syncers = {s1}
  MaxFaults = 1
  MaxClock = 3
  Free = Free
  Callers = {g1, g2, g3}
  SyncIntervals <- MCSyncIntervals
INVARIANT StoppedBeforeClosed
PROPERTIES ChainFollowsLifecycle LagRepaired CloseReturns CallsReturn
