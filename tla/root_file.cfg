SPECIFICATION FairSpec
CONSTANTS
  Contents <- AllContents
  TreeChars = 6
  Remote = TRUE
  MaxRedirects = 1
  Windows <- AllWindows
  MaxWrites = 2
INVARIANTS OpenedIsWhole ReadsBack ChunksAreSlices
PROPERTY ReaderEnds
CHECK_DEADLOCK FALSE
