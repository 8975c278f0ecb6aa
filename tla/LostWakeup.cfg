\* The last notification can fall between the main thread's check and its
\* wait, and is lost.
SPECIFICATION OrchFairSpec
CONSTANTS
  Peers = {p1, p2, p3}
  MaxPieces = 3
PROPERTY CompletionIsNoticed
CHECK_DEADLOCK FALSE
