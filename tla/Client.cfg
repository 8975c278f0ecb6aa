\* The whole run: sizes, missing keys and tracker answers, then sessions that
\* finish pieces beside the waiting and the printing thread.  2^32 is cut down
\* to 4, hashes and peers have two bytes.
SPECIFICATION ClientSpec
CONSTANTS
  Torrents <- TestTorrents
  Responses <- TestResponses
  ValidUrls <- Urls
  HashLength = 2
  PeerLength = 2
  Word = 4
  Peers = {p1, p2, p3}
  MaxPieces = 3
INVARIANTS
  ClientTypeOK
  HashIsOwnIfUsual
  PiecesMakeUpTheFile
  StopsOnlyWhenComplete
  ProgressIsHonest
  SuccessMeansComplete
  StopsWithEveryByteVerified
  SessionsAreTheTrackersPeers
PROPERTIES
  SleeperIsWoken
  ThreadsComplete
CHECK_DEADLOCK FALSE
