SPECIFICATION Spec
CONSTANTS
  f = f g = g pA = pA pB = pB muon = muon other = other
  Missing = Missing Empty = Empty Garbled = Garbled None = None
  Runners = {r1, r2}
  Plans = {pA}
  Modes = {"parallel"}
  Sources = {f, g}
  Remote = {}
  Kernels = {muon}
  Inputs <- MCInputs
  ChunkSize <- MCChunkSize
  KernelOf <- OneKernel
  Events <- StableEvents
  MaxVersion = 0
  MaxSlots = 2
  MaxRuns = 3
  MaxCrashes = 1
INVARIANT FreshResult
CHECK_DEADLOCK FALSE
