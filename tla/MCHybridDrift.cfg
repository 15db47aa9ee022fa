\* One writer and the syncer, no failure: does the local store converge?
SPECIFICATION Spec
CONSTANTS
  Agents = {a1}
  Levels = {1, 2}
  Writers = {w1}
  Readers = {}
  Syncers = {s1}
  MaxFaults = 0
  MaxClock = 7
  Free = Free
PROPERTY DriftRepaired
