\* Rows that are read in one statement and written in another: two checkouts with two
\* handlers of events, overlapping installations by one user, two transactions that
\* write entities; and the groups of up to four sentences.
SPECIFICATION ServicesSpec
CONSTANTS
  Servers = {s1}
  Requests = {r1}
  RedisMax = 1
  MemoryMax = 1
  WindowTime = 1
  Cooldown = 1
  MaxTime = 1
  MaxArrivals = 1
  Extractors = {e1}
  Chunks = {k1}
  Providers = 1
  GatewayRetries = 0
  Repairs = 0
  MaxDailyCalls = 1
  MaxExtractions = 1
  LastDay = 0
  Files = {f1}
  MaxFileChanges = 1
  Checkouts = {c1, c2}
  Handlers = {h1, h2}
  MaxStripeEvents = 4
  MaxRedeliveries = 1
  Members = {m1}
  Plugins = {p1, p2, p3}
  PluginRequests = {q1, q2}
  InstallLimit = 1
  MaxDoubled = 1
  NumSegments = 1
  LongestSegment = 1
  MaxTokens = 1
  OverlapTokens = 0
  MinChunkTokens = 1
  JoinerTokens = {0, 1}
  NumSentences = 4
  LongestSentence = 4
  GroupMaxTokens = 3
  GroupMinTokens = 2
  MinGap = 2
  BlankTokens = 1
  Names = {"n1", "n2", "n3"}
  Similar <- MCSimilar
  TextChunks = {k1, k2}
  Transactions = {x1, x2}
  MaxBatches = 3
  Callers = {b1}
  FailureThreshold = 3
  MaxRetries = 1
  CanReset = FALSE
  InFocus = {"billing", "marketplace", "coherence", "dedup"}
SYMMETRY HandlerSymmetry
INVARIANTS
  ServicesTypeOK
  MirrorsStripe
  ProWasPaid
  InstallsBounded
  InstallCountExplained
  GroupsPartition
  MentionsCounted
  DuplicatesExplained
\* Every component may end or run out of its bounds.
CHECK_DEADLOCK FALSE
