------------------------- MODULE OrchestratorProofs -------------------------
(* Safety of the main thread's wait and of the printed progress, for every  *)
(* set of peers and every number of pieces.                                 *)
EXTENDS Orchestrator, TLAPS

\* The exact value fills the bar for the last piece and for no other.
LEMMA PercentIsExact ==
  ASSUME NEW n \in Nat, NEW k \in Nat, n > 0, k <= n
  PROVE  /\ (100 * k) \div n \in 0 .. 100
         /\ (100 * k) \div n = 100 <=> k = n
  <1> DEFINE q == (100 * k) \div n
             r == (100 * k) % n
  <1>1. q \in Int /\ r \in 0 .. n - 1 /\ 100 * k = n * q + r
    OBVIOUS
  <1> HIDE DEF q, r
  <1>2. q >= 0
    <2>1. ASSUME q <= -1 PROVE FALSE
      <3>1. n * q <= n * (-1)
        BY <2>1, <1>1
      <3>2. QED
        BY <3>1, <1>1
    <2>2. QED
      BY <2>1, <1>1
  <1>3. q <= 100
    <2>1. ASSUME q >= 101 PROVE FALSE
      <3>1. n * q >= n * 101
        BY <2>1, <1>1
      <3>2. QED
        BY <3>1, <1>1
    <2>2. QED
      BY <2>1, <1>1
  <1>4. q = 100 => k = n
    BY <1>1
  <1>5. k = n => q = 100
    <2>1. ASSUME k = n, q <= 99 PROVE FALSE
      <3>1. n * q <= n * 99
        BY <2>1, <1>1
      <3>2. QED
        BY <3>1, <2>1, <1>1
    <2>2. QED
      BY <2>1, <1>1, <1>3
  <1>6. QED
    BY <1>1, <1>2, <1>3, <1>4, <1>5 DEF q

\* So does what the doubles make of it: where they come to one less, the exact
\* value is neither 0 nor 100.
LEMMA PercentsAreRight ==
  ASSUME OrchTypeOK, numPieces > 0, progress <= numPieces
  PROVE  /\ Percents \subseteq 0 .. 100
         /\ \A b \in Percents : b = 100 <=> progress = numPieces
  <1> DEFINE n == numPieces
             k == progress
             q == (100 * k) \div n
  <1>1. n \in Nat /\ k \in Nat /\ n > 0 /\ k <= n
    BY DEF OrchTypeOK
  <1>2. q \in 0 .. 100 /\ (q = 100 <=> k = n)
    BY <1>1, PercentIsExact
  <1>3. ASSUME (100 * k) % n = 0, k # 0 PROVE q >= 1
    <2>1. 100 * k = n * q
      BY <1>1, <1>3
    <2> HIDE DEF q
    <2>2. ASSUME q = 0 PROVE FALSE
      <3>1. n * q = 0
        BY <1>1, <2>2
      <3>2. QED
        BY <1>1, <1>3, <2>1, <3>1
    <2>3. QED
      BY <1>2, <2>2
  <1>4. CASE (100 * k) % n = 0 /\ k \notin {0, n}
    <2>1. Percents = {q - 1, q}
      BY <1>4 DEF Percents
    <2> HIDE DEF q
    <2>2. QED
      BY <1>2, <1>3, <1>4, <2>1
  <1>5. CASE ~((100 * k) % n = 0 /\ k \notin {0, n})
    <2>1. Percents = {q}
      BY <1>5 DEF Percents
    <2>2. QED
      BY <1>2, <2>1
  <1>6. QED
    BY <1>4, <1>5

\* The tracker is only gone when the sessions are, so nothing it counts moves
\* after its last word; and a full bar is the last piece's.  The notification
\* is sent once, at the end of the last delivery.
TrackerInv ==
  /\ tracker = "joined" => live = {} /\ main \in {"unwinding", "aborted", "terminated"}
  /\ tracker = "none" => progress = 0
  /\ numPieces = 0 => bar = 0
  /\ delivering # {} => piecesFinished > 0
  /\ notifications = IF numPieces > 0 /\ IsComplete /\ delivering = {} THEN 1 ELSE 0

OrchInv ==
  /\ OrchTypeOK
  /\ StopsOnlyWhenComplete
  /\ ProgressIsHonest
  /\ SuccessMeansComplete
  /\ TrackerInv

LEMMA OrchInvInit == OrchInit => OrchInv
  BY OrchestratorAssumption
     DEF OrchInit, OrchInv, OrchTypeOK, StopsOnlyWhenComplete, ProgressIsHonest,
         SuccessMeansComplete, TrackerInv, IsComplete

\* What the printing thread computes is exact for the pieces reported.
LEMMA PercentOfReported ==
  ASSUME OrchTypeOK, ProgressIsHonest, numPieces > 0, tracker # "none"
  PROVE  /\ progress <= piecesFinished
         /\ Percents \subseteq 0 .. 100
         /\ \A b \in Percents : b = 100 <=> progress = numPieces
  <1>1. progress <= piecesFinished /\ piecesFinished <= numPieces
    BY DEF OrchTypeOK, ProgressIsHonest
  <1>2. QED
    BY <1>1, PercentsAreRight DEF OrchTypeOK

LEMMA OrchInvStep == OrchInv /\ [OrchNext]_orchVars => OrchInv'
  <1> SUFFICES ASSUME OrchInv, [OrchNext]_orchVars
               PROVE  OrchInv'
    OBVIOUS
  <1> USE OrchestratorAssumption
      DEF OrchInv, OrchTypeOK, StopsOnlyWhenComplete, ProgressIsHonest,
          SuccessMeansComplete, TrackerInv, IsComplete
  <1>1. ASSUME NEW p \in Peers, CountPiece(p)
        PROVE  OrchInv'
    BY <1>1 DEF CountPiece, printVars
  <1>2. ASSUME NEW p \in Peers, EndSession(p)
        PROVE  OrchInv'
    BY <1>2 DEF EndSession, printVars
  <1>3. CASE NotifyProgress
    BY <1>3 DEF NotifyProgress, Reported, poolVars
  <1>4. CASE NotifyOne
    BY <1>4 DEF NotifyOne, Reported, printVars
  <1>5. CASE Tick
    <2>1. CASE numPieces > 0
      BY <1>5, <2>1, PercentOfReported DEF Tick, LogProgress, poolVars, Running
    <2>2. CASE numPieces = 0
      BY <1>5, <2>2 DEF Tick, LogProgress, poolVars, Running
    <2>3. QED
      BY <2>1, <2>2
  <1>6. CASE Check \/ Block \/ WakeSpuriously
    BY <1>6 DEF Check, Block, WakeSpuriously, poolVars, printVars
  <1>7. CASE StopThrows \/ Unwind
    BY <1>7 DEF StopThrows, Unwind, poolVars, printVars
  <1>8. CASE DestroyTracker
    <2>1. delivering = {} /\ progress = piecesFinished /\ piecesFinished = numPieces
      BY <1>8 DEF DestroyTracker
    <2>2. CASE numPieces > 0
      BY <1>8, <2>1, <2>2, PercentOfReported
         DEF DestroyTracker, LogProgress, poolVars
    <2>3. CASE numPieces = 0
      BY <1>8, <2>1, <2>3 DEF DestroyTracker, LogProgress, poolVars
    <2>4. QED
      BY <2>2, <2>3
  <1>9. CASE UNCHANGED orchVars
    BY <1>9 DEF orchVars, poolVars, printVars
  <1>10. QED
    BY <1>1, <1>2, <1>3, <1>4, <1>5, <1>6, <1>7, <1>8, <1>9
       DEF OrchNext, MainStep, DeliveryStep

\* The threads' invariant holds of every reachable state.
THEOREM OrchInvariant == OrchSpec => []OrchInv
  BY OrchInvInit, OrchInvStep, PTL DEF OrchSpec

\* Spurious wake-ups and lost notifications included, the main thread leaves
\* its wait only when every piece has been finished.
THEOREM StopsWhenComplete == OrchSpec => []StopsOnlyWhenComplete
  <1>1. OrchInv => StopsOnlyWhenComplete
    BY DEF OrchInv
  <1>2. QED
    BY <1>1, OrchInvariant, PTL

\* The printed progress is never ahead of what is verified, and its bar is full
\* for the last piece only, wherever the printing thread's reads fall.
THEOREM ProgressStaysHonest == OrchSpec => []ProgressIsHonest
  <1>1. OrchInv => ProgressIsHonest
    BY DEF OrchInv
  <1>2. QED
    BY <1>1, OrchInvariant, PTL

\* The tracker's last word is said below a full bar.
THEOREM SuccessIsTrue == OrchSpec => []SuccessMeansComplete
  <1>1. OrchInv => SuccessMeansComplete
    BY DEF OrchInv
  <1>2. QED
    BY <1>1, OrchInvariant, PTL

LEMMA CompletionInit == OrchInit => Watched!Init
  BY OrchestratorAssumption DEF OrchInit, Watched!Init

\* Each step of the threads is a step of Completion or none of its business.
LEMMA CompletionStep ==
  OrchInv /\ OrchInv' /\ [OrchNext]_orchVars => [Watched!Next]_(Watched!vars)
  <1> SUFFICES ASSUME OrchInv, OrchInv', [OrchNext]_orchVars
               PROVE  Watched!Next \/ UNCHANGED Watched!vars
    OBVIOUS
  <1> USE DEF OrchInv, OrchTypeOK, ProgressIsHonest, TrackerInv, IsComplete,
              Watched!Next, Watched!Settle, Watched!Finish, Watched!Report,
              Watched!Announce, Watched!vars
  <1>1. ASSUME NEW p \in Peers, CountPiece(p)
        PROVE  Watched!Next
    BY <1>1 DEF CountPiece, printVars
  <1>2. ASSUME NEW p \in Peers, EndSession(p)
        PROVE  UNCHANGED Watched!vars
    BY <1>2 DEF EndSession, printVars
  <1>3. CASE NotifyProgress
    BY <1>3 DEF NotifyProgress, Reported, poolVars
  <1>4. CASE NotifyOne
    BY <1>4 DEF NotifyOne, Reported, printVars
  <1>5. CASE Tick \/ DestroyTracker
    BY <1>5 DEF Tick, DestroyTracker, poolVars
  <1>6. CASE Check \/ Block \/ WakeSpuriously \/ StopThrows \/ Unwind
    BY <1>6 DEF Check, Block, WakeSpuriously, StopThrows, Unwind, poolVars, printVars
  <1>7. CASE UNCHANGED orchVars
    BY <1>7 DEF orchVars, poolVars, printVars
  <1>8. QED
    BY <1>1, <1>2, <1>3, <1>4, <1>5, <1>6, <1>7 DEF OrchNext, MainStep, DeliveryStep

\* The delivery as the other threads see it, cut in three, implements the same
\* abstract specification as the manager's one locked step.
THEOREM ThreadsImplementCompletion == OrchSpec => ThreadsComplete
  BY CompletionInit, CompletionStep, OrchInvariant, PTL
     DEF OrchSpec, ThreadsComplete, Watched!Spec
=============================================================================
