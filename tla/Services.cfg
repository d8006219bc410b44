\* The limits per minute and per day, the vault watcher, the chunks of a text, and the
\* breaker with one caller.
SPECIFICATION ServicesSpec
CONSTANTS
  Servers = {s1}
  Requests = {r1, r2}
  RedisMax = 1
  MemoryMax = 1
  WindowTime = 2
  Cooldown = 1
  MaxTime = 3
  MaxArrivals = 5
  Extractors = {e1, e2}
  Chunks = {k1}
  Providers = 2
  GatewayRetries = 1
  Repairs = 1
  MaxDailyCalls = 1
  MaxExtractions = 4
  LastDay = 1
  Files = {f1}
  MaxFileChanges = 6
  Checkouts = {c1, c2}
  Handlers = {h1, h2}
  MaxStripeEvents = 4
  MaxRedeliveries = 1
  Members = {m1}
  Plugins = {p1, p2, p3}
  PluginRequests = {q1, q2}
  InstallLimit = 1
  MaxDoubled = 1
  NumSegments = 4
  LongestSegment = 5
  MaxTokens = 4
  OverlapTokens = 4
  MinChunkTokens = 2
  JoinerTokens = {0, 1}
  NumSentences = 4
  LongestSentence = 4
  GroupMaxTokens = 3
  GroupMinTokens = 2
  MinGap = 2
  BlankTokens = 1
  Names = {"n1", "n2", "n3"}
  Similar <- MCSimilar
  TextChunks = {k1, k2}
  Transactions = {x1, x2}
  MaxBatches = 3
  Callers = {b1}
  FailureThreshold = 3
  MaxRetries = 6
  CanReset = FALSE
  InFocus = {"rate", "llm", "watcher", "breaker", "chunking"}
INVARIANTS
  ServicesTypeOK
  AdmittedBounded
  CountsOwnWindow
  OvershootBounded
  DeletionAccounted
  ChunksCover
PROPERTIES
  ExtractionEnds
  ChunkingEnds
  ImplementsContract
\* Every component may end or run out of its bounds.
CHECK_DEADLOCK FALSE
