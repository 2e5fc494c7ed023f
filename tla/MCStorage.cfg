SPECIFICATION StorageSpec
CONSTANTS
  Focus = {"cache", "gpucache", "isolated", "vulkan"}
  Sectors <- MCSectors
  Values <- MCValues
  Ranges <- MCRanges
  Blocks <- MCBlocks
  Chunks <- MCChunks
  BlockOf <- MCBlockOf
  ChunkOf <- MCChunkOf
  Zero = 0
  ProbesToReady = 2
  ProbeSyncMayLose = FALSE
  GcChunks <- MCGcChunks
  GcSamples <- MCGcSamples
  Pauses = {1, 3}
  MinReserve = 1
  HealthyToGrow = 3
  RestrictedToReclaim = 3
  GrowthInterval = 2
  StuckAfter = 2
  IsoBlocks = {b1}
  IsoValues = {v0, v1}
  IsoNothing = IsoNothing
  Capacity = 2
  IsoProbesToReady = 2
  VkRegions = {r1, r2}
  VkMaxLen = 2
  VkStaging = 1
  VkMaxTotal = 3
  VkHeap = 2
  VkWaitFails = FALSE
INVARIANTS Inv IsoSafe
PROPERTIES ImplementsBlockDevice IsoImplementsBlockDevice IsoContract GcContract VkContract
VIEW StorageView
