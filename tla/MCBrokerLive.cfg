SPECIFICATION FairBrokerSpec
CONSTANTS
  Focus = {"system"}
  Slices = {0}
  Faults = {"queue", "zero"}
  MaxFaults = 1
  a = a
  b = b
  NoTenant = NoTenant
  Tenants = {a, b}
  SwapTenants = {a, b}
  Order <- MCOrder
  Mounts <- MCMounts
  Sizes = {1}
  LeaseTtl = 1
  MaxLeaseId = 2
  ZeroGrace = 1
  ZeroError = 1
  Pressures = {0, 2}
  DeltaPsi = 1
  PsiFloor = 1
  CfFactor = 2
  Streak = 1
  Cooldown = 2
  CfWindow = 1
  CfCooldown = 1
  CursorWrap = 2
  LeaseSizes = {1}
  ZeroCap = 2
  Rebalancing = TRUE
  PromptWorker = TRUE
PROPERTY SystemLive
