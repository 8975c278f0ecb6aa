\* With serving peers whose connections may break, blocks are leased to one
\* session at a time, reservations resolve, broken sessions end, waiting
\* sessions wait for an answer, and lasting connections bring the download to
\* its end.
SPECIFICATION PSFairSpec
CONSTANTS
  NumPieces = 2
  NumBlocks <- ThreeAndOne
  HasTracker = TRUE
  StreamFaults = {}
  Answers = {}
  s1 = s1
  s2 = s2
  s3 = s3
  Sessions <- TwoSessions
  MaxPipeline = 2
  PeerHas <- SeedAndPartial
  Faults = {"lost"}
INVARIANT HeldBlocksAreAsked
PROPERTIES
  SessionsLeaseBlocks
  ReservationsResolve
  BrokenSessionsEnd
  LastingLinksComplete
CHECK_DEADLOCK FALSE
