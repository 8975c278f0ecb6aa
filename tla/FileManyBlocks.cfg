\* With pieces of several blocks, a piece is reported verified while the file
\* holds only its last block, at the wrong place.
SPECIFICATION PMSpec
CONSTANTS
  NumPieces = 2
  NumBlocks <- TwoByTwo
  HasTracker = FALSE
  StreamFaults = {"failed"}
  Answers = {}
INVARIANT FinishedPiecesOnDisk
