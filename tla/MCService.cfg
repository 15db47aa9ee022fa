\* Two requests at a time on one UUID, with a chain and without, two failures;
\* one builder with two calls on each table; two builders of a query.
SPECIFICATION ServiceSpec
CONSTANTS
  Agents = {a1}
  Levels = {1, 2, 3}
  Masks = {0, 2}
  Clients = {c1, c2}
  MaxFaults = 2
  MaxCalls = 4
  Null = Null
  AgentIDs = {2}
  LogIDs = {1}
  EntMaxStatements = 1
  EntMaxCalls = 2
  EntMaxTrouble = 1
  QueryAgents = {a1, a2}
  QueryLogs = {l1, l2}
  QueryMaxRuns = 3
  QueryMaxWrites = 1
  Observers = {c1, c2}
  Durations = {1, 3}
  Bounds <- MCBounds
  Threshold = 2
  Percents = {50, 100}
  SQMaxCalls = 4
INVARIANTS StoreLeadsChain PermsWithinLevel OneRegistrationWins BarredStaysDenied
           SavedAsAsked SavesAreAtomic AnswersAreWhole StatsExactWhenQuiet
SYMMETRY Symmetry
\* Requests, statements and runs are bounded by MaxCalls and the other bounds.
CHECK_DEADLOCK FALSE
