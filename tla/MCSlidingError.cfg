\* Nothing fails: is the sliding estimate as good as its package comment says?
SPECIFICATION RLSpec
CONSTANTS
  Limit = 4
  Window = 4
  Callers = {g1}
  RLMaxClock = 7
  RLMaxRequests = 8
  RLMaxFaults = 0
INVARIANT SlidingErrorOnePercent
CHECK_DEADLOCK FALSE
