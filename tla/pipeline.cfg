SPECIFICATION MCSpec
CONSTANTS
  None = None
  Parts = {"stream", "iq", "repair", "altitude", "output", "counters", "clients"}
  RatePairs <- MCRatePairs
  DesiredInputBufferSize = 8192
  FlushIntervalMicros = 10000
  SharpeningCubic = TRUE
  MaxBlocks = 7
  Pipelines <- MCPipelines
  RawValues <- MCRawValues
  TileSizes = {1, 2, 3}
  ChunkSize = 2
  Neon = TRUE
  Lanes = 2
  DcWindow = 2
  MaxSamples = 7
  ShortFrame = 56
  LongFrame = 112
  DFBits = 5
  WordBits = 64
  DF11Slots = 469
  DF17Slots = 6790
  CandidateCount = 9
  MaxFlips = 3
  MaxGuesses = 20
  Ranks = 6
  Payloads <- MCPayloads
  Confidences <- MCConfidences
  HitBits = {0, 1, 3, 10, 12, 23, 25, 50, 63, 64, 95, 106, 107}
  MaxHits = 3
  StreamCounts = {2, 8, 12, 16, 20, 36, 48}
  SampleIndexes = {7, 1710618}
  TimeBytes = 3
  ShortBytes = 7
  LongBytes = 14
  Bytes = {26, 50}
  EncodedSize = 64
  BufferSize = 96
  MaxSent = 2
  BlockIterations = 2
  TickIterations = 11
  PublishInterval = 5
  CounterRange = 64
  EndOnly = FALSE
  prompt = prompt
  slow = slow
  Scrapers = {prompt, slow}
  Prompt = {prompt}
  MaxPieces = 2
  MaxServiceRuns = 2
  MaxMetricBlocks = 8
INVARIANTS SamplesInStep BranchesExact RepairsExact AltitudesExact FramesReadBack SnapshotFresh
PROPERTY NobodyHoldsServer
CHECK_DEADLOCK FALSE
