\* One peer that does whatever it likes, failing writes, answers without bytes
\* and an output file that may be closed: its session keeps within its
\* pipeline, and the manager counts right.
SPECIFICATION PSSpec
CONSTANTS
  NumPieces = 2
  NumBlocks <- TwoAndOne
  HasTracker = TRUE
  StreamFaults = {"closed"}
  Answers = {"empty"}
  s1 = s1
  s2 = s2
  s3 = s3
  Sessions <- OneSession
  MaxPipeline = 2
  PeerHas <- Seeds
  Faults = {"lost", "reset", "choke", "corrupt", "repeat", "unasked", "nobitfield", "malformed", "short"}
INVARIANTS
  PSTypeOK
  PipelineIsBounded
  AnswersAreCounted
CHECK_DEADLOCK FALSE
