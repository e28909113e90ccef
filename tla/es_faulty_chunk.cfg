\* A chunk that does not start at the first entry is read while a fetch fails.
SPECIFICATION Spec
CONSTANTS
  Layouts <- Trees
  Specs <- MuonSpecs
  NoCounter = "none"
  MaxFaults = 1
  WindowSizes = {2}
  Requests <- Chunks
INVARIANTS ChunkIsItsRange
CHECK_DEADLOCK FALSE
