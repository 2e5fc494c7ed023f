SPECIFICATION DriverSpec
CONSTANTS
  Focus = {"storport", "ring", "linux"}
  Srbs = {r, w}
  Readers = {r}
  QueueDepth = 1
  NoSrb = NoSrb
  Depth = 4
  Wrap = 8
  MaxSubmits = 8
  Window = 3
  Cpus = {c1, c2}
  CapLimit = 1
  MaxBrokerLives = 2
  MaxLeaseId = 2
  MaxRuns = 1
  FormatsDuringStop = FALSE
  DismountWrites = FALSE
  BrokerStops = TRUE
  MaxLines = 2
  MaxSessions = 2
  PipeRoom = 4
  LineCap = 3
  Installers = {p1, p2}
  Versions = {v1, v2}
  RtMaxRuns = 2
  LossMidway = FALSE
INVARIANT RqSafe
PROPERTIES SpContract ImplementsQueues 
CHECK_DEADLOCK FALSE
