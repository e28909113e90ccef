SPECIFICATION FairSpec
CONSTANTS
  Layouts <- TreesOneBroken
  Specs <- MuonSpecs
  NoCounter = "none"
  MaxFaults = 2
  WindowSizes = {0, 2, 4, 9}
  Requests <- Chunks
INVARIANTS ColumnsAreSlices FetchedOnce EventsAreTheirOwn SteadyChunkIsItsRange
PROPERTY ChunkEnds
CHECK_DEADLOCK FALSE
