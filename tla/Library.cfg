SPECIFICATION Spec
CONSTANTS
  KeyThreads = {t1,t2,t3}
  t1 = t1
  t2 = t2
  t3 = t3
  KeyDevices = {d1,d2}
  d1 = d1
  d2 = d2
  NoThread = NoThread
  MaxEvictions = 2
  Devices = {1}
  RoutingKeys = {1, 3}
  LengthRange = 3
  MaxPayload = 4
  QueueCounts = {0, 3}
  NoMessage = NoMessage
  MaxRouted = 2
  Names = {1, 2}
  Labels = {0, 1}
  Helps = {"help"}
  Deltas <- MCDeltas
  MaxValue = 2
  Replicas = {0, 1, 2, 3}
  Usages = {50, 81, 96}
  NaN = NaN
  MaxId = 4
  Senders = {1, 2, 3}
  Sizes = {1, 4}
  Latencies = {100, 101, 250}
  Represented <- MCRepresented
  Rank <- MCRank
  NoLatency = NoLatency
  SketchRows = {1, 2}
  Columns = {1, 2}
  Column <- MCColumn
  MaxPackets = 4
  Crates = {"app", "mid", "leaf"}
  Packages <- MCPackages
  Resolves <- MCResolves
  Advisories = {1, 2}
  Crate <- MCCrate
  Kind <- MCKind
  Patched <- MCPatched
  HoldDays = {0, 1}
  MaxHolds = 2
  MaxDay = 2
  Bare = Bare
CHECK_DEADLOCK FALSE
INVARIANTS
  NoStaleInsert
  DerivedOncePerEviction
  DecodedIsSent
  KeyAffinity
  ScrapeParsesBack
  SharedIdsSharedHistory
  EstimateNeverUnder
  SummaryCoherent
  HidesNothing
PROPERTIES
  CountersMonotone
