\* Arbitrary callers, a file that may be closed or fail, and data of any
\* extent.
SPECIFICATION PMSpec
CONSTANTS
  NumPieces = 2
  NumBlocks <- ThreeAndOne
  HasTracker = TRUE
  StreamFaults = {"closed", "failed"}
  Answers = {"long", "short", "inside"}
INVARIANTS
  PMTypeOK
  NoBlockLost
  AnswersAreCounted
  UnfinishedPieceCanProgress
  CompletionAgrees
  OnlyVerifiedBytesOnDisk
  OneBlockPiecesOnDisk
PROPERTIES
  FinishedIsFinal
  ManagerCompletes
