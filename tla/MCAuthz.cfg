SPECIFICATION Spec
CONSTANTS
  ChallengeIDs = {i1, i2}
  AgentUUIDs = {a1}
  Issuances = {g1, g2}
  Presentations = {v1, v2}
  ChallengeTTL = 2
  ResponseMaxTTL = 2
  ProofTTL = 2
  AAPMaxClock = 3
  AAPMaxFaults = 1
  Limit = 2
  Window = 2
  Callers = {g1, g2}
  RLMaxClock = 3
  RLMaxRequests = 4
  RLMaxFaults = 1
  Kids = {k1, k2}
  BadKids = {k2}
  Readers = {g1, g2}
  RefreshInterval = 1
  MaxFetch = 1
  JWKSMaxClock = 3
  JWKSMaxCalls = 3
  LevelFiles <- MCLevelFiles
  Reloaders = {g1, g2}
  RBACMaxEdits = 1
  RBACMaxReloads = 3
  Topics <- MCTopics
  Answers <- MCAnswers
  Keywords <- MCKeywords
  Asked = {"medium", "extreme"}
  Captchas = {m1}
  Solvers = {g1, g2}
  MoltTTL = 3
  MinWordLen = 2
  MaxWordLen = 3
  SemanticMinOverlap = 1
  ASCIIOffset = 0
  TotalCharsMin = 3
  TotalCharsMax = 0
  Stamps = {0}
  MaxSet = 1
  MoltMaxClock = 4
  MoltMaxFaults = 1
  TrustLevels = {0, 1, 2, 3, 4, 5}
INVARIANTS AcceptedOnce ProofsAreEarned LimitsHold KeySetFollowsSource ReloadIsAtomic CaptchaIsFair
PROPERTY CatchingUpKeepsTrust
SYMMETRY MCSymmetry
CHECK_DEADLOCK FALSE
