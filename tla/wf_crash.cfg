SPECIFICATION FairSpec
CONSTANTS
  f = f g = g pA = pA pB = pB muon = muon other = other
  Missing = Missing Empty = Empty Garbled = Garbled None = None
  Runners = {r1}
  Plans = {pA}
  Modes = {"serial", "parallel"}
  Sources = {f, g}
  Remote = {}
  Kernels = {muon}
  Inputs <- MCInputs
  ChunkSize <- MCChunkSize
  KernelOf <- OneKernel
  Events <- StableEvents
  MaxVersion = 1
  MaxSlots = 3
  MaxRuns = 3
  MaxCrashes = 1
INVARIANTS FreshResult PublishedIsReported
PROPERTY EveryRunEnds
CHECK_DEADLOCK FALSE
