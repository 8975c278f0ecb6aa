---------------------------- MODULE Orchestrator ----------------------------
(***************************************************************************)
(* The main thread (TorrentOrchestrator::download, main) beside the peer   *)
(* sessions that finish pieces on the PeerManager's threads and the        *)
(* ProgressTracker's printing thread.                                      *)
(*                                                                         *)
(* The main thread waits on a condition variable under _completionMutex;   *)
(* the session that finishes the last piece calls notify_one under the     *)
(* PieceManager's own mutex and never takes _completionMutex.  The         *)
(* printing thread takes no mutex at all.  So what is one step of          *)
(* PieceManager is cut here where the other threads can see it: the        *)
(* counter goes up, the tracker is told, the notification is sent.         *)
(*                                                                         *)
(* _threadPool(4) makes four std::thread objects that run nothing, and     *)
(* start() appends four that run the io_context.  stop() joins them in     *)
(* order and so meets one that cannot be joined first: the join of a       *)
(* running thread, and a normal return from download(), are never reached  *)
(* and have no action.                                                     *)
(***************************************************************************)
EXTENDS Integers

CONSTANTS
  Peers,       \* the peers sessions are spawned for
  MaxPieces    \* bound on the number of piece hashes

ASSUME OrchestratorAssumption == MaxPieces \in Nat

VARIABLES
  main,            \* where the main thread stands; "terminated" by the pool's
                   \* threads when it unwinds, "aborted" by anything else
  numPieces,       \* _metadata.info.pieceHashes.size()
  piecesFinished,  \* PieceManager::_piecesFinished
  delivering,      \* the session between that counter and the end of
                   \* deliverBlock, in a set, or none
  live,            \* peers whose session has not ended
  notifications,   \* calls of notify_one so far
  tracker,         \* ProgressTracker: "none" when verbose, "running", "joined"
  progress,        \* ProgressTracker::_finishedPieces
  bar              \* number of '#' last printed

poolVars  == <<piecesFinished, delivering, live, notifications>>
printVars == <<tracker, progress, bar>>
orchVars  == <<main, numPieces, poolVars, printVars>>

\* download() has made the managers, spawned the sessions, started their
\* threads.
OrchInit ==
  /\ main = "check"
  /\ numPieces \in 0 .. MaxPieces
  /\ piecesFinished = 0
  /\ delivering = {}
  /\ live = Peers
  /\ notifications = 0
  /\ tracker \in {"none", "running"}
  /\ progress = 0
  /\ bar = 0

Running == main \notin {"aborted", "terminated"}

\* A faulty variant: one piece short.
AllButOne == piecesFinished >= numPieces - 1

IsComplete == piecesFinished >= numPieces

-----------------------------------------------------------------------------
(* The sessions: deliverBlock once a piece is verified.  Its caller has     *)
(* _mutex, so no other delivery runs before it is over.                     *)

CountPiece(p) ==
  /\ Running
  /\ p \in live
  /\ delivering = {}
  /\ piecesFinished < numPieces
  /\ piecesFinished' = piecesFinished + 1
  /\ delivering' = {p}
  /\ UNCHANGED <<main, numPieces, live, notifications, printVars>>

\* The tracker of this delivery's piece has been told, or there is none.
Reported == tracker = "none" \/ progress = piecesFinished

\* A faulty variant: the tracker is told of every delivery.
NotifyEveryBlock ==
  /\ Running
  /\ live # {}
  /\ tracker # "none"
  /\ progress < numPieces
  /\ progress' = progress + 1
  /\ UNCHANGED <<main, numPieces, poolVars, tracker, bar>>

NotifyProgress ==
  /\ Running
  /\ delivering # {}
  /\ ~Reported
  /\ progress' = progress + 1
  /\ UNCHANGED <<main, numPieces, poolVars, tracker, bar>>

\* A faulty variant: the notification is left out.
NoNotify ==
  /\ Running
  /\ delivering # {}
  /\ Reported
  /\ delivering' = {}
  /\ UNCHANGED <<main, numPieces, piecesFinished, live, notifications, printVars>>

\* notify_one after the last piece wakes the main thread if it is waiting and
\* is lost otherwise.  By then the main thread may have seen the counter and be
\* unwinding: the condition variable it is called on may be gone.
NotifyOne ==
  /\ Running
  /\ delivering # {}
  /\ Reported
  /\ delivering' = {}
  /\ notifications' = IF IsComplete THEN notifications + 1 ELSE notifications
  /\ \/ main' = IF main = "waiting" /\ IsComplete THEN "check" ELSE main
     \/ IsComplete /\ main = "unwinding" /\ main' = "aborted"
  /\ UNCHANGED <<numPieces, piecesFinished, live, printVars>>

\* A session's coroutine ends: its peer is gone.
EndSession(p) ==
  /\ Running
  /\ p \in live \ delivering
  /\ live' = live \ {p}
  /\ UNCHANGED <<main, numPieces, piecesFinished, delivering, notifications, printVars>>

-----------------------------------------------------------------------------
(* The printing thread *)

\* amountHash: the cast drops what is behind the point.  The quotient and the
\* product are doubles: where the exact value is a whole number, what is rounded
\* may lie just below it (29 of 100 pieces print 28 marks); 0 and 100 are exact.
Percents ==
  LET exact == (100 * progress) \div numPieces
  IN  IF (100 * progress) % numPieces = 0 /\ progress \notin {0, numPieces}
      THEN {exact - 1, exact} ELSE {exact}

\* _logProgress: with no pieces it casts 0.0 / 0 to int, which on one machine
\* is 0 and on another a negative length that throws out of the thread.
LogProgress ==
  IF numPieces > 0 THEN bar' \in Percents /\ UNCHANGED main
  ELSE \/ bar' = 0 /\ UNCHANGED main
       \/ main' = "aborted" /\ UNCHANGED bar

Tick ==
  /\ Running
  /\ tracker = "running"
  /\ LogProgress
  /\ UNCHANGED <<numPieces, poolVars, tracker, progress>>

-----------------------------------------------------------------------------
(* The main thread *)

\* cv.wait(lock, pred) evaluates pred, and only then blocks.
Check ==
  /\ main = "check"
  /\ main' = IF IsComplete THEN "stop" ELSE "block"
  /\ UNCHANGED <<numPieces, poolVars, printVars>>

Block ==
  /\ main = "block"
  /\ main' = "waiting"
  /\ UNCHANGED <<numPieces, poolVars, printVars>>

\* The standard lets a wait end without a notification.
WakeSpuriously ==
  /\ main = "waiting"
  /\ main' = "check"
  /\ UNCHANGED <<numPieces, poolVars, printVars>>

\* stop(): join() on the first, empty thread object throws.
StopThrows ==
  /\ main = "stop"
  /\ main' = "unwinding"
  /\ UNCHANGED <<numPieces, poolVars, printVars>>

\* A faulty variant: the destructor does not print.
JoinTracker ==
  /\ main = "unwinding"
  /\ tracker = "running"
  /\ live = {}
  /\ tracker' = "joined"
  /\ UNCHANGED <<main, numPieces, poolVars, progress, bar>>

\* Unwinding drops the orchestrator's PieceManager.  When no session is left to
\* keep it alive its tracker goes as well, prints once more and says
\* "[SUCCESS] Download session finalized."; if the last session ends late its
\* own thread does that, and the end of the process may come first.
DestroyTracker ==
  /\ main = "unwinding"
  /\ tracker = "running"
  /\ live = {}
  /\ tracker' = "joined"
  /\ LogProgress
  /\ UNCHANGED <<numPieces, poolVars, progress>>

\* Unwinding then destroys the joinable threads of the pool: std::terminate.
Unwind ==
  /\ main = "unwinding"
  /\ main' = "terminated"
  /\ UNCHANGED <<numPieces, poolVars, printVars>>

-----------------------------------------------------------------------------
MainStep == Check \/ Block \/ StopThrows \/ DestroyTracker \/ Unwind

DeliveryStep == NotifyProgress \/ NotifyOne

OrchNext ==
  \/ MainStep
  \/ WakeSpuriously
  \/ DeliveryStep
  \/ Tick
  \/ \E p \in Peers : CountPiece(p) \/ EndSession(p)

OrchSpec == OrchInit /\ [][OrchNext]_orchVars

\* The threads are scheduled; a spurious wake-up is owed to nobody, and nor
\* are peers that go on serving.
OrchFairSpec == OrchSpec /\ WF_orchVars(MainStep) /\ WF_orchVars(DeliveryStep)

-----------------------------------------------------------------------------
(* Properties *)

AfterWait == main \in {"stop", "unwinding", "aborted", "terminated"}

\* Type invariant; main is "starting" before download() has set up its part.
OrchTypeOK ==
  /\ main \in {"starting", "check", "block", "waiting", "stop", "unwinding",
              "aborted", "terminated"}
  /\ numPieces \in Nat
  /\ piecesFinished \in 0 .. numPieces
  /\ delivering \subseteq live
  /\ live \subseteq Peers
  /\ notifications \in Nat
  /\ tracker \in {"none", "running", "joined"}
  /\ progress \in Nat
  /\ bar \in 0 .. 100

\* Whatever wakes the main thread, it stops the peers only when every piece
\* has been finished.
StopsOnlyWhenComplete ==
  main \in {"stop", "unwinding"} => piecesFinished = numPieces

\* A main thread that is already waiting when the last piece is finished
\* gets to stop.
SleeperIsWoken ==
  main = "waiting" /\ delivering # {} /\ IsComplete ~> AfterWait

\* The display never runs ahead of what is verified, lags the counter by the
\* one delivery in progress at most, and its bar is full only when no piece is
\* missing, whenever the printing thread reads.
ProgressIsHonest ==
  /\ tracker # "none" =>
       progress = piecesFinished \/ (delivering # {} /\ progress + 1 = piecesFinished)
  /\ bar = 100 => piecesFinished = numPieces

\* "[SUCCESS] Download session finalized." is printed below a full bar.
SuccessMeansComplete ==
  tracker = "joined" /\ numPieces > 0 =>
    bar = 100 /\ piecesFinished = numPieces

Watched == INSTANCE Completion WITH
  total <- numPieces, done <- piecesFinished,
  reported <- progress, announced <- notifications

\* Cut where the other threads can see it, the delivery is still an
\* implementation of Completion, as the manager's locked call is.  That each
\* notification is sent says nothing of who hears it: see CompletionIsNoticed.
ThreadsComplete == Watched!Spec

\* "Wake up torren orchestrator": once every piece is finished, the main
\* thread leaves its wait.
CompletionIsNoticed ==
  numPieces > 0 /\ piecesFinished = numPieces ~> AfterWait

\* "Fatal error: {}.": the exception that stop() throws at the end of a download
\* reaches main()'s handler, and the process is not terminated on the way.
ExceptionsAreHandled == numPieces > 0 => main # "terminated"
=============================================================================
