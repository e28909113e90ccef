SPECIFICATION DistSpec
CONSTANTS
  f = f g = g pA = pA pB = pB muon = muon
  Missing = Missing Empty = Empty Garbled = Garbled None = None
  Runners = {r1}
  Plans = {pB}
  Modes = {"serial"}
  Sources = {g}
  Remote = {}
  Kernels = {muon}
  Inputs <- MCInputs
  ChunkSize <- OneEventChunks
  KernelOf <- OneKernel
  Events <- MCEvents
  MaxVersion = 1
  MaxSlots = 3
  MaxRuns = 2
  MaxCrashes = 0
  MaxJobs = 1
  MaxAttempts = 2
CONSTRAINT Apart
INVARIANTS MergedIsFresh MergeAfterMaps
CHECK_DEADLOCK FALSE
