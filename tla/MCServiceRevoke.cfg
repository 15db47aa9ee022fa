\* One request after the other, nothing fails: is a revocation permanent?
SPECIFICATION Spec
CONSTANTS
  Agents = {a1}
  Levels = {0, 1}
  Masks = {0}
  Clients = {c1}
  MaxFaults = 0
  MaxCalls = 5
PROPERTY RevokeIsPermanent
CHECK_DEADLOCK FALSE
