SPECIFICATION PressureSpec
CONSTANTS
  Focus = {"supervisor", "stress"}
  QueueDepth = 2
  Blocks = {b1, b2}
  OperatorRaces = FALSE
  BdChanCap = 1
  MaxErrors = 2
  ReplacedEarly = FALSE
  Units = {"batch", "shell"}
  Class <- MCClass
  Memory <- MCMemory
  Reserve = 8
  GiB = 2
  SvAvailable = {3, 5, 10}
  Psi = {0, 10}
  GuardedAt = 1
  CriticalAt = 1
  EmergencyAt = 2
  HealthyAt = 1
  Grace = 1
  MaxInvocations = 1
  RecycleRaces = FALSE
  StCommands <- MCStCommands
  StAvailable = 250
  OnePct = 50
  UpperTiers = 32
  Tier3 = 64
  SwapStep = 32
  MaxIdle = 2
  MaxDamp = 2
  MaxRecover = 2
  LevelCap = 12
  StallsTouching = FALSE
  AgSlices = {s1}
  MaxPending = 2
  Deadline = 2
  MaxBackoff = 1
  DropsAnyTime = FALSE
  CrMaxAge = 2
  Callers = {"cli", "daemon", "wait"}
PROPERTIES SvContract StContract
CHECK_DEADLOCK FALSE
