SPECIFICATION RerunSpec
CONSTANTS
  f = f g = g pA = pA pB = pB  muon = muon 
  Missing = Missing Empty = Empty Garbled = Garbled None = None
  Runners = {r1}
  Plans = {pA, pB}
  Modes = {"parallel"}
  Sources = {f, g}
  Remote = {}
  Kernels = {muon}
  Inputs <- MCInputs
  ChunkSize <- MCChunkSize
  KernelOf <- OneKernel
  Events <- ShrinkingEvents
  MaxVersion = 1
  MaxSlots = 3
  MaxRuns = 3
  MaxCrashes = 0
INVARIANTS TypeOK CacheCoherent RerunIsNoOp OnlyAffectedRecomputed AffectedRecomputed
PROPERTY CacheIsInvisible
CHECK_DEADLOCK FALSE
