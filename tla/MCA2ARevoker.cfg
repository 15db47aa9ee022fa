\* Two tokens, some longer lived than a marker; two revocations at a time.
SPECIFICATION Spec
CONSTANTS
  Tokens = {j1, j2}
  Agents = {g1}
  Subject <- OneAgent
  TTLs = {1, 3}
  MaxTTL = 2
  Leeway = 1
  Revokers = {c1, c2}
  Checkers = {v1}
  MaxFaults = 1
  MaxTime = 4
  NoToken = NoToken
INVARIANTS RevocationHolds NothingSlips
PROPERTY RevokedIsRefused
SYMMETRY Symmetry
\* Time is bounded by MaxTime.
CHECK_DEADLOCK FALSE
