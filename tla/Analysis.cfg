SPECIFICATION Spec
CONSTANTS
  Brief = 2  Lengthy = 3  WindowSec = 2  BinSec = 1  MinPoints = 2
  ChunkSize = 2  Overlap = 1  MaxPackets = 4
  Gap = 3  Direction <- Directions  Stored <- Capture  Received <- Feeds
  Tenant = {acme, globex}
  Domain = {gnss, network, endpoint}
  Offered <- Observed  Demands <- Demand
  Window = 2  MaxClockSkew = 1  Threshold = 650  MinSignalScore = 500  MinDomains = 2
  EngineMinPoints = 12  DetectionThreshold = 200  MaxCandidates = 21  RuleThreshold = 2  Trace <- Signals
  Pack = {p, q}  Version = {v1, v2}  Content = {c1, c2}  MaxHeld = 3
  Call = {r1, r2}  Request <- Asked  MaxCommits = 3
  Thread = {r1, r2}  RATE_LIMIT = 2  RATE_WINDOW_SECONDS = 2  MaxTime = 3  MaxAdmitted = 3
  Flow = {f1, f2}  window_size = 2  min_points = 2  MaxSeen = 4  Producer = {r1, r2}  maxsize = 1  MaxEvents = 4
  Pattern = {p1, p2, p3}  window_sec = 2  max_cache = 2  MaxClock = 4  MaxSends = 2
  Full = 4  Question <- Questions
SYMMETRY Symmetry
INVARIANTS
  ArrivalDoesNotMatter
  PrimaryIsTop
  FadeIsLocated
  PacketsBinnedOnce
  ChunksKeepContinuity
  DeployedWasValidated
  SignalFollowsFeed
  EventsExplainRows
  RateBounded
  NothingMiscounted
  SuppressedHadAlert
  ReturnedWasSent
  EvaluatedApart
  ThresholdIsBest
CHECK_DEADLOCK FALSE
