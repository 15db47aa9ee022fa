\* Two replicas, nothing fails: is an event consumed twice?
SPECIFICATION MCSpec
CONSTANTS
  Events = {e1, e2}
  Poison = {e2}
  Verbose = {}
  Spare = {}
  Pollers = {p1, p2}
  BatchSize = 1
  MaxRetries = 3
  BackoffBase = 1
  BackoffMax = 2
  MaxFaults = 0
  NoEvent = NoEvent
INVARIANT NoDuplicateConsumption
\* The outbox may drain: nothing more is written.
CHECK_DEADLOCK FALSE
