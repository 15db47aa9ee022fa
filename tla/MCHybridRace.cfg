\* Two writers, a reader and a syncer on two agents; two failures.
SPECIFICATION Spec
CONSTANTS
  Agents = {a1, a2}
  Levels = {1, 2}
  Writers = {w1, w2}
  Readers = {r1}
  Syncers = {s1}
  MaxFaults = 2
  MaxClock = 3
  Free = Free
INVARIANTS MirrorShowsOnlyChainHistory NoFalseRevocation EqualStampsAgree AuditNeverAheadOfChain
SYMMETRY Symmetry
