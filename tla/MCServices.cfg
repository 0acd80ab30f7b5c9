SPECIFICATION ServicesSpec
CONSTANTS
  W = 2
  Parties = {n0, n1}
  Executions = {e1, e2}
  MpcMaxFaults = 1
  P = 5
  N = 2
  Draws = {0, 3}
  MaxSlots = 4
  Members = {1, 2, 3, 4, 5}
  Invites <- MCInvites
  Buyers = {5}
  Sales = {1}
  MaxRequests = 1
  LoyaltyMaxFaults = 1
  Fans = {f1, f2}
  PromoMaxUses = 1
  MaxActivations = 2
  Replicas = {r1, r2}
  MaxDay = 4
  WTxs = {1, 2}
  BatchSize = 2
  Lookback = 1
  MaxRows = 1
  MaxRefresh = 0
  MaxClock = 2
  WalletMaxFaults = 1
  Browsers = {c1, c2}
  Scores = {0, 90}
  ScoreThreshold = 50
  HubQueue = 1
  ClientQueue = 1
  MaxUpdates = 2
  Plain58 <- MCPlain58
  Messages <- MCMessages
  Updates <- MCUpdates
  TxHistories <- MCTxHistories
  HourlyVolumes <- MCHourlyVolumes
  HoursPerDay = 3
  FeatureNow = 6
  SignalLevels = {400, 1000}
  FlowTrades <- MCFlowTrades
  ProbTables <- MCProbTables
  Offsets = {1, 2}
  PairOf <- MCPairOf
  FlowBatch = 2
  SeqLen = 1
  MaxTicks = 1
  FlowMaxFaults = 1
  Short = 1
  Long = 2
  Jumps <- MCJumps
  BurstLength = 1
  Attempts = 2
  ScoreBatch = 2
  MaxTxs = 3
  MaxHour = 5
  AnomalyMaxFaults = 1
  Prices = {0, 1, 3, 10}
  MaxExtras = 2
  Asks = {a1, a2}
  Retries = 1
  BatchLimit = 1
  MaxRewrites = 2
  n0 = n0
  n1 = n1
  e1 = e1
  e2 = e2
  a1 = a1
  a2 = a2
  c1 = c1
  c2 = c2
  line1 = line1
  line2 = line2
  line3 = line3
  Sockets = {line1, line2, line3}
  Script <- MCScript
  MaxConnections = 2
  SendSpace = 4
  Limit = 2
  WindowLength = 2
  Minute = 2
  Skews = {0, 1}
  MaxSeconds = 7
  MaxCalls = 5
INVARIANT DecodedAsMeant
INVARIANT ComputationHonest
INVARIANT LoyaltyLedger
INVARIANT CommunityCounts
INVARIANT WalletPipelineSound
INVARIANT AlertsSound
 
INVARIANT ReportsSound
INVARIANT LimitsSound
PROPERTY FinalUnlessWaiting
CHECK_DEADLOCK FALSE
