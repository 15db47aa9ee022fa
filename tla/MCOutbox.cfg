\* One replica with three events, or two with two: batches of two, an event that
\* cannot be delivered and one whose error does not fit its column.
SPECIFICATION MCSpec
CONSTANTS
  Events = {e1, e2, e3}
  Poison = {e2, e3}
  Verbose = {e3}
  Spare = {e3}
  Pollers = {p1, p2}
  BatchSize = 2
  MaxRetries = 3
  BackoffBase = 1
  BackoffMax = 2
  MaxFaults = 3
  NoEvent = NoEvent
INVARIANTS PublishedWasSent DuplicatesNeedFaults RetryBudget
PROPERTIES OutcomeIsFinal EveryEventSettles
\* The outbox may drain: nothing more is written.
CHECK_DEADLOCK FALSE
