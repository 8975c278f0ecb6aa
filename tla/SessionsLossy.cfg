\* With broken connections, chokes, bad and repeated answers, every
\* reservation is some living session's and a refused request means there is
\* nothing to ask for.
SPECIFICATION PSSpec
CONSTANTS
  NumPieces = 1
  NumBlocks <- OneOfTwo
  HasTracker = TRUE
  StreamFaults = {}
  Answers = {}
  s1 = s1
  s2 = s2
  s3 = s3
  Sessions <- TwoSessions
  MaxPipeline = 2
  PeerHas <- Seeds
  Faults = {"lost", "choke", "corrupt", "repeat"}
INVARIANTS
  ReservationsHaveAHolder
  PeerHasNothingWeWant
SYMMETRY SessionSymmetry
CHECK_DEADLOCK FALSE
