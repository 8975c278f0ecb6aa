\* With connections that stay up and honest peers that may choke, a block
\* is leased to one session at a time, never asked for again once received,
\* and counted once.
SPECIFICATION PSSpec
CONSTANTS
  NumPieces = 2
  NumBlocks <- ThreeAndOne
  HasTracker = TRUE
  StreamFaults = {}
  Answers = {}
  s1 = s1
  s2 = s2
  s3 = s3
  Sessions <- ThreeSessions
  MaxPipeline = 2
  PeerHas <- Seeds
  Faults = {"choke"}
INVARIANTS
  HoldersOwnTheirBlocks
  CountsAreExact
PROPERTIES
  SessionsLeaseBlocks
CHECK_DEADLOCK FALSE
