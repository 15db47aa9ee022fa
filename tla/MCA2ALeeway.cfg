\* Nothing fails and no token outlives a marker: is a revocation final?
SPECIFICATION Spec
CONSTANTS
  Tokens = {j1}
  Agents = {g1}
  Subject <- OneAgent
  TTLs = {2}
  MaxTTL = 3
  Leeway = 1
  Revokers = {c1}
  Checkers = {v1}
  MaxFaults = 0
  MaxTime = 6
  NoToken = NoToken
PROPERTY ExpiredNeedsNoMarker
CHECK_DEADLOCK FALSE
