\* A failed request write leaves its block reserved for good, with no session
\* behind it.
SPECIFICATION PSSpec
CONSTANTS
  NumPieces = 2
  NumBlocks <- TwoAndOne
  HasTracker = TRUE
  StreamFaults = {}
  Answers = {}
  s1 = s1
  s2 = s2
  s3 = s3
  Sessions <- TwoSessions
  MaxPipeline = 2
  PeerHas <- Seeds
  Faults = {"lost", "reset"}
INVARIANT PeerHasNothingWeWant
CHECK_DEADLOCK FALSE
