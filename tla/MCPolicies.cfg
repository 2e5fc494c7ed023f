SPECIFICATION PolicySpec
CONSTANTS
  Focus = {"residency", "headroom", "readiness", "elastic", "n3", "telemetry", "service", "dashboard", "migration"}
  Latencies <- MCLatencies
  LatencyMult = 2
  Consecutive = 3
  Interval = 3
  Baseline = 4
  Settle = 2
  MaxBudget = 3
  SafetyMargin = 1
  ConstrainedSamples = 2
  RecoverySamples = 2
  MaxU64 = 48
  MinMargin = 3
  VramSizes <- MCVramSizes
  FreeSizes <- MCFreeSizes
  EcChunks = {c1, c2, c3}
  EcOffsets = {o1}
  EcMaxChunks = 2
  EcMaxValue = 1
  Leases <- MCLeases
  Observations <- MCObservations
  Grants <- MCGrants
  Revokes <- MCRevokes
  RestartRecords <- MCRecords
  MaxNow = 1
  MaxCapacity = 4
  Alignment = 2
  MaxAge = 1
  MaxInFlight = 1
  MaxEvents = 1
  MaxHistory = 1
  CarefulScrub = TRUE
  TlTenants = {t1}
  TlSlices = {s1, s2}
  TolPercent = 10
  ReconStreak = 2
  ZeroRetryError = 2
  MaxDemotes = 1
  MnMax = 2
  MnSamples = 4
  MnRate = 3
  MnFloor = 1
  MnGap = 2
  MnMoved = 10
  MnReadsFail = FALSE
  LmPids = {a, b}
  LmMaxProcs = 2
  SwapsReturn = FALSE
 
PROPERTIES PoliciesContract    LmContract
CHECK_DEADLOCK FALSE
