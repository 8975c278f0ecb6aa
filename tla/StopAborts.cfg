\* stop() joins a thread that was never started, and unwinding ends in
\* std::terminate.
SPECIFICATION OrchFairSpec
CONSTANTS
  Peers = {p1, p2, p3}
  MaxPieces = 3
INVARIANT ExceptionsAreHandled
CHECK_DEADLOCK FALSE
