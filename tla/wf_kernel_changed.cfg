SPECIFICATION Spec
CONSTANTS
  f = f g = g pA = pA pB = pB muon = muon other = other
  Missing = Missing Empty = Empty Garbled = Garbled None = None
  Runners = {r1}
  Plans = {pA, pB}
  Modes = {"serial"}
  Sources = {f}
  Remote = {}
  Kernels = {muon, other}
  Inputs <- SameInputs
  ChunkSize <- SameSize
  KernelOf <- KernelPerPlan
  Events <- ShrinkingEvents
  MaxVersion = 0
  MaxSlots = 2
  MaxRuns = 2
  MaxCrashes = 0
INVARIANT FreshResult
CHECK_DEADLOCK FALSE
