---------------------------- MODULE PieceManager ----------------------------
(***************************************************************************)
(* The shared download state of the client: class PieceManager             *)
(* (src/src/app/piece_manager.cpp) with the FileHandler it writes to and   *)
(* the ProgressTracker counter it bumps.  Every public method takes        *)
(* _mutex for its whole body, so each of them is one atomic step.  The     *)
(* callers, the peer sessions, are left arbitrary here: any request, any   *)
(* delivery and any return may come at any time, which is what two or      *)
(* more sessions on the four worker threads can amount to.                 *)
(*                                                                         *)
(* Offsets are counted in blocks.  _nextOffsets only ever holds a block    *)
(* boundary or the length of the piece, so block number b stands for the   *)
(* offset b * BLOCK_LEN and NumBlocks[p] for the end of piece p.  What is  *)
(* delivered may begin and end anywhere in the piece, see Data.            *)
(***************************************************************************)
EXTENDS Integers, Sequences, FiniteSets

CONSTANTS
  NumPieces,      \* number of piece hashes in the metadata
  NumBlocks,      \* blocks of each piece: ceil(_getPieceLength / BLOCK_LEN)
  HasTracker,     \* TRUE iff a ProgressTracker was passed in (not verbose)
  StreamFaults,   \* what may go wrong with the output file
  Answers         \* what callers deliver besides one whole block

Pieces == 0 .. NumPieces - 1

ASSUME GeometryAssumption ==
  /\ NumPieces \in Nat \ {0}
  /\ NumBlocks \in [Pieces -> Nat \ {0}]

ASSUME EnvironmentAssumption ==
  /\ HasTracker \in BOOLEAN
  /\ StreamFaults \subseteq {"closed", "failed"}
  /\ Answers \subseteq {"long", "short", "inside", "empty"}

Blocks(p) == 0 .. NumBlocks[p] - 1

\* struct Block; its operator< compares (pieceIndex, offset) only, so the
\* length is no part of its identity.
Block == UNION {{p} \X Blocks(p) : p \in Pieces}

(***************************************************************************)
(* The bytes at one block position.  b stands for the bytes the torrent    *)
(* has at block b of the piece, Blank for a zeroed buffer or a file region *)
(* nobody wrote, Corrupt for any other bytes.  Part, in data and in the    *)
(* file, is bytes of the piece that are no whole block of it.              *)
(***************************************************************************)
Blank == -1
Corrupt == -2
Part == -3
Content(p) == Blocks(p) \cup {Blank, Corrupt}

(***************************************************************************)
(* The data of an answer, with its offset: it begins with block `first`,   *)
(* or inside of it, and has `bytes` for that position and the ones behind. *)
(* Answers says what there may be besides one whole block: data that       *)
(* reaches into further blocks (long), stops within one (short), begins    *)
(* within one (inside), or has no bytes at all (empty).                    *)
(***************************************************************************)
Data(p) ==
  [first : Blocks(p), inside : BOOLEAN,
   bytes : UNION {[1 .. n -> Blocks(p) \cup {Part, Corrupt}] : n \in 0 .. NumBlocks[p]}]

\* A part of a block is found at the ends of the data only.
InPlace(d, i) ==
  LET begins == d.inside /\ i = 1
  IN  \/ d.bytes[i] = Corrupt
      \/ d.bytes[i] = d.first + i - 1 /\ ~begins
      \/ d.bytes[i] = Part /\ (begins \/ i = Len(d.bytes))

Allowed(d) ==
  /\ Len(d.bytes) = 0 => "empty" \in Answers
  /\ Len(d.bytes) > 1 => "long" \in Answers
  /\ d.inside => "inside" \in Answers
  /\ (\E i \in DOMAIN d.bytes : d.bytes[i] = Part) => "short" \in Answers \/ d.inside

\* The data that stays within its piece.
AnswersTo ==
  [p \in Pieces |->
     {d \in Data(p) : /\ d.first + Len(d.bytes) <= NumBlocks[p]
                      /\ \A i \in DOMAIN d.bytes : InPlace(d, i)
                      /\ Allowed(d)}]

\* The block that has the answer's piece and offset, if there is one.
Answered(p, d) == IF d.inside THEN {} ELSE {<<p, d.first>>}

VARIABLES
  pendingBlocks,   \* _pendingBlocks: blocks handed out and not yet back
  nextOffsets,     \* _nextOffsets: first block never handed out, per piece
  pendingPieces,   \* _pendingPieces: map from piece to its PendingPiece
  finished,        \* _finished, as the set of pieces whose entry is true
  bitfield,        \* _bitfield, as the set of pieces whose bit is set
  piecesFinished,  \* _piecesFinished
  progress,        \* ProgressTracker::_finishedPieces
  notifications,   \* calls of _completionCV.notify_one so far
  file,            \* the output file, by piece and block position
  stream           \* FileHandler::_fileStream: "open", "failed" or "closed"

allocVars  == <<pendingBlocks, nextOffsets>>
resultVars == <<finished, bitfield, piecesFinished, progress, notifications>>
fileVars   == <<file, stream>>
pmVars     == <<pendingBlocks, nextOffsets, pendingPieces, finished, bitfield,
                piecesFinished, progress, notifications, file, stream>>

\* The FileHandler's stream is closed for good when both opens failed.
PMInit ==
  /\ pendingBlocks = {}
  /\ nextOffsets = [p \in Pieces |-> 0]
  /\ pendingPieces = << >>
  /\ finished = {}
  /\ bitfield = {}
  /\ piecesFinished = 0
  /\ progress = 0
  /\ notifications = 0
  /\ file = [p \in Pieces |-> [b \in Blocks(p) |-> Blank]]
  /\ stream \in {"open"} \cup (StreamFaults \cap {"closed"})

IsComplete == piecesFinished >= NumPieces

-----------------------------------------------------------------------------
(* requestBlock *)

\* A faulty variant: the next offset is not looked at.
AnyBlockNotOut(p) == {b \in Blocks(p) : <<p, b>> \notin pendingBlocks}

\* The blocks _getNextBlockForPiece may return: from the next offset up to
\* the end of the piece, those not handed out.
FreeBlocks(p) ==
  {b \in Blocks(p) : b >= nextOffsets[p] /\ <<p, b>> \notin pendingBlocks}

\* Pieces the peer has, we have not, and that still have a block to ask for.
Wanted(have) == {p \in have \ bitfield : FreeBlocks(p) # {}}

\* requestBlock returns the first free block of the first wanted piece.
RequestBlock(have, blk) ==
  LET p == blk[1]
      b == blk[2]
  IN  /\ p \in Wanted(have)
      /\ \A q \in Wanted(have) : p <= q
      /\ b \in FreeBlocks(p)
      /\ \A c \in FreeBlocks(p) : b <= c
      /\ pendingBlocks' = pendingBlocks \cup {blk}
      /\ nextOffsets' = [nextOffsets EXCEPT ![p] = b + 1]
      /\ UNCHANGED <<pendingPieces, resultVars, fileVars>>

\* requestBlock returns nullopt and changes nothing.
RequestNothing(have) == Wanted(have) = {} /\ UNCHANGED pmVars

-----------------------------------------------------------------------------
(* deliverBlock *)

\* struct PendingPiece.
PendingPiece(p) == [data : [Blocks(p) -> Content(p)], blocksReceived : Nat]

FreshPiece(p) ==
  [data |-> [b \in Blocks(p) |-> Blank], blocksReceived |-> 0]

\* The PendingPiece of p, created on first use.
PieceBuffer(p) ==
  IF p \in DOMAIN pendingPieces THEN pendingPieces[p] ELSE FreshPiece(p)

\* What block position b holds once the data is copied in.  A part of a block
\* adds to what is there; where that is not the whole of the block, Corrupt
\* data does the same.
Copied(p, d, b) ==
  LET old == PieceBuffer(p).data[b]
      i   == b - d.first + 1
  IN  IF i \notin DOMAIN d.bytes THEN old
      ELSE IF d.bytes[i] # Part THEN d.bytes[i]
      ELSE IF old = Blank THEN Corrupt ELSE b

\* The PendingPiece afterwards.  Every delivery counts for one, whatever is in
\* it.  Counts above totalBlocksNeeded all behave alike, so the model lets
\* them stop one above it.
WithData(p, d) ==
  LET count == PieceBuffer(p).blocksReceived
  IN  [data |-> [b \in Blocks(p) |-> Copied(p, d, b)],
       blocksReceived |-> IF count > NumBlocks[p] THEN count ELSE count + 1]

\* _pendingPieces[p] = pending, and _pendingPieces.erase(p).
PutPending(p, pending) ==
  [q \in DOMAIN pendingPieces \cup {p} |->
     IF q = p THEN pending ELSE pendingPieces[q]]

ErasePending(p) == [q \in DOMAIN pendingPieces \ {p} |-> pendingPieces[q]]

\* A faulty variant: one delivery too many is asked for.
IsOverfull(p, pending) == pending.blocksReceived > NumBlocks[p]

IsFinished(p, pending) == pending.blocksReceived = NumBlocks[p]

\* A faulty variant: only the last block is hashed.
VerifyLastBlock(p, pending) ==
  pending.data[NumBlocks[p] - 1] = NumBlocks[p] - 1

\* SHA-1 taken as injective: the hash matches iff all the bytes are right.
VerifyHash(p, pending) == \A b \in Blocks(p) : pending.data[b] = b

\* The file's region for p with the data at its start.
Region(p, d) ==
  [b \in Blocks(p) |->
     IF b >= Len(d.bytes) THEN file[p][b]
     ELSE IF d.inside THEN Part ELSE d.bytes[b + 1]]

\* A faulty variant: the bytes land one piece further on.
WriteNextPiece(p, d) ==
  /\ stream = "open"
  /\ LET q == (p + 1) % NumPieces
     IN  file' = [file EXCEPT ![q] =
                    [b \in Blocks(q) |-> IF b < Len(d.bytes)
                                         THEN d.bytes[b + 1] ELSE @[b]]]
  /\ UNCHANGED stream

(***************************************************************************)
(* FileHandler::writePiece: the bytes go to the start of the piece's       *)
(* region.  The stream's error state is never read, so a failed write (and *)
(* every write after it) goes unnoticed.                                   *)
(***************************************************************************)
WritePiece(p, d) ==
  /\ stream # "closed"
  /\ \/ /\ stream = "open"
        /\ file' = [file EXCEPT ![p] = Region(p, d)]
        /\ UNCHANGED stream
     \/ /\ stream = "failed" \/ "failed" \in StreamFaults
        /\ stream' = "failed"
        /\ UNCHANGED file

\* A faulty variant: the early return is missing.
NeverDone(p) == FALSE

\* The early return of deliverBlock.
AlreadyDone(p) == p \in finished

\* A delivery for a piece already finished is dropped and reported as taken.
DeliverFinished(p) == AlreadyDone(p) /\ UNCHANGED pmVars

\* A delivery past the end of the piece is refused; its PendingPiece stays.
DeliverOutOfBounds(p) ==
  /\ ~AlreadyDone(p)
  /\ pendingPieces' = PutPending(p, PieceBuffer(p))
  /\ UNCHANGED <<allocVars, resultVars, fileVars>>

\* An answer that leaves its piece short of totalBlocksNeeded deliveries.
DeliverPartial(p, d) ==
  LET pending == WithData(p, d)
  IN  /\ ~AlreadyDone(p)
      /\ ~IsFinished(p, pending)
      /\ pendingPieces' = PutPending(p, pending)
      /\ pendingBlocks' = pendingBlocks \ Answered(p, d)
      /\ UNCHANGED <<nextOffsets, resultVars, fileVars>>

\* _setPiece, and ProgressTracker::notifyProgress if there is a tracker.
SetPiece(p) == bitfield' = bitfield \cup {p}

NotifyProgress == progress' = IF HasTracker THEN progress + 1 ELSE progress

\* The last delivery of a piece whose hash matches.  writePiece is given the
\* delivered data, not the assembled piece.
DeliverVerified(p, d) ==
  LET pending == WithData(p, d)
  IN  /\ ~AlreadyDone(p)
      /\ IsFinished(p, pending)
      /\ VerifyHash(p, pending)
      /\ WritePiece(p, d)
      /\ finished' = finished \cup {p}
      /\ pendingPieces' = ErasePending(p)
      /\ SetPiece(p)
      /\ piecesFinished' = piecesFinished + 1
      /\ NotifyProgress
      /\ notifications' = IF piecesFinished + 1 >= NumPieces
                          THEN notifications + 1 ELSE notifications
      /\ pendingBlocks' = pendingBlocks \ Answered(p, d)
      /\ UNCHANGED nextOffsets

\* The same when the stream never opened: writePiece throws, and the full
\* PendingPiece is left in the map.
DeliverThrows(p, d) ==
  LET pending == WithData(p, d)
  IN  /\ ~AlreadyDone(p)
      /\ IsFinished(p, pending)
      /\ VerifyHash(p, pending)
      /\ stream = "closed"
      /\ pendingPieces' = PutPending(p, pending)
      /\ pendingBlocks' = pendingBlocks \ Answered(p, d)
      /\ UNCHANGED <<nextOffsets, resultVars, fileVars>>

\* The last delivery of a piece whose hash differs: the piece is discarded
\* and handed out again from its start.
DeliverMismatch(p, d) ==
  LET pending == WithData(p, d)
  IN  /\ ~AlreadyDone(p)
      /\ IsFinished(p, pending)
      /\ ~VerifyHash(p, pending)
      /\ pendingPieces' = ErasePending(p)
      /\ nextOffsets' = [nextOffsets EXCEPT ![p] = 0]
      /\ pendingBlocks' = pendingBlocks \ Answered(p, d)
      /\ UNCHANGED <<resultVars, fileVars>>

\* deliverBlock by what it gives its caller: true, false or an exception.
Accepted(p, d) == DeliverFinished(p) \/ DeliverPartial(p, d) \/ DeliverVerified(p, d)

Refused(p, d) == DeliverMismatch(p, d)

-----------------------------------------------------------------------------
(* returnBlock *)

\* Two faulty variants: no rewind, and a rewind to the block before.
NoRewind(offset, b) == offset

RewindTooFar(offset, b) == IF b < offset THEN b - 1 ELSE offset

\* The next offset of a piece after its block b came back.
RewindTo(offset, b) == IF b < offset THEN b ELSE offset

\* Takes a pending block back and rewinds the piece's next offset to it.
ReturnBlock(blk) ==
  /\ blk \in pendingBlocks
  /\ nextOffsets' = [nextOffsets EXCEPT ![blk[1]] = RewindTo(@, blk[2])]
  /\ pendingBlocks' = pendingBlocks \ {blk}
  /\ UNCHANGED <<pendingPieces, resultVars, fileVars>>

\* A block that is not pending is refused and nothing changes.
ReturnRefused(blk) == blk \notin pendingBlocks /\ UNCHANGED pmVars

-----------------------------------------------------------------------------
(* The component under arbitrary callers *)

\* One call of deliverBlock: the data lies within its piece or reaches out of
\* it.
Deliver ==
  \E p \in Pieces :
    \/ DeliverFinished(p)
    \/ DeliverOutOfBounds(p)
    \/ \E d \in AnswersTo[p] :
         DeliverPartial(p, d) \/ DeliverVerified(p, d)
           \/ DeliverThrows(p, d) \/ DeliverMismatch(p, d)

Request ==
  \E have \in SUBSET Pieces :
    RequestNothing(have) \/ \E blk \in Block : RequestBlock(have, blk)

Return == \E blk \in Block : ReturnBlock(blk) \/ ReturnRefused(blk)

PMNext == Request \/ Deliver \/ Return

PMSpec == PMInit /\ [][PMNext]_pmVars

-----------------------------------------------------------------------------
(* Properties *)

\* Type invariant of the manager's state.
PMTypeOK ==
  /\ pendingBlocks \subseteq Block
  /\ nextOffsets \in [Pieces -> Nat]
  /\ \A p \in Pieces : nextOffsets[p] <= NumBlocks[p]
  /\ DOMAIN pendingPieces \subseteq Pieces
  /\ pendingPieces = [p \in DOMAIN pendingPieces |-> pendingPieces[p]]
  /\ \A p \in DOMAIN pendingPieces : pendingPieces[p] \in PendingPiece(p)
  /\ finished \subseteq Pieces
  /\ bitfield \subseteq Pieces
  /\ piecesFinished \in Nat
  /\ progress \in Nat
  /\ notifications \in Nat
  /\ DOMAIN file = Pieces
  /\ \A p \in Pieces : file[p] \in [Blocks(p) -> Content(p) \cup {Part}]
  /\ stream \in {"open", "failed", "closed"}

\* Block positions of p whose bytes have been delivered since the piece was
\* last discarded.
Received(p) == {b \in Blocks(p) : PieceBuffer(p).data[b] # Blank}

\* No block gets lost: below the next offset of an unfinished piece, every
\* block is either out with some session or already in the buffer, so each
\* block that is neither will be handed out again (requestBlock only looks
\* from the next offset on; returnBlock and a discarded piece rewind it).
\* An answer without bytes would take its block off _pendingBlocks and bring
\* nothing.
NoBlockLost ==
  \A p \in Pieces \ finished : \A b \in Blocks(p) :
    b < nextOffsets[p] => <<p, b>> \in pendingBlocks \/ b \in Received(p)

\* Blocks of p that were handed out and are with nobody any more.
Settled(p) ==
  {b \in Blocks(p) : b < nextOffsets[p] /\ <<p, b>> \notin pendingBlocks}

\* blocksReceived counts deliveries, not blocks, and one delivery may fill
\* several blocks or none.  Still there is one for each block of an unfinished
\* piece that has left _pendingBlocks for good, whatever came back or was
\* discarded in between; and while the file is usable the count is below
\* totalBlocksNeeded: isFinished's == is never skipped.
AnswersAreCounted ==
  \A p \in Pieces \ finished :
    /\ Cardinality(Settled(p)) <= PieceBuffer(p).blocksReceived
    /\ stream # "closed" => PieceBuffer(p).blocksReceived < NumBlocks[p]

\* A piece is never stuck with all its blocks delivered and no hash check:
\* while the file is usable, some block of every unfinished piece is out or
\* can be handed out (isFinished compares with ==, so a count that skipped
\* totalBlocksNeeded would never be checked again).
UnfinishedPieceCanProgress ==
  stream # "closed" =>
    \A p \in Pieces \ finished :
      \E b \in Blocks(p) : <<p, b>> \in pendingBlocks \/ b \in FreeBlocks(p)

\* The counters, the bitfield and the finished vector agree, and the waiting
\* orchestrator is notified exactly once, at the step that finishes the last
\* piece.
CompletionAgrees ==
  /\ bitfield = finished
  /\ piecesFinished = Cardinality(finished)
  /\ progress = IF HasTracker THEN piecesFinished ELSE 0
  /\ notifications = IF finished = Pieces THEN 1 ELSE 0

\* Nothing unverified reaches the file: only a finished piece's region is
\* ever written, and only with bytes of that piece.
OnlyVerifiedBytesOnDisk ==
  \A p \in Pieces : \A b \in Blocks(p) :
    file[p][b] # Blank => p \in finished /\ file[p][b] # Corrupt

\* What the log line "Piece {} downloaded and verified." promises with a
\* writePiece call before it: the file holds every finished piece.
FinishedPiecesOnDisk ==
  stream = "open" =>
    \A p \in finished : \A b \in Blocks(p) : file[p][b] = b

\* Where a piece is no longer than a block, the file does hold it once it is
\* finished, whatever else is written and as long as the stream is good.
OneBlockPiecesOnDisk ==
  stream = "open" =>
    \A p \in finished : NumBlocks[p] = 1 => file[p][0] = 0

\* The manager is an implementation of Completion: however the callers
\* interleave, pieces are finished one by one and never more of them than there
\* are, progress is not reported ahead, and the end is announced once and last.
Watched == INSTANCE Completion WITH
  total <- NumPieces, done <- piecesFinished,
  reported <- progress, announced <- notifications

ManagerCompletes == Watched!Spec

\* A finished piece is final: its region of the file and its bit never
\* change again, whatever is delivered or returned late.
FinishedIsFinal ==
  [][\A p \in finished :
       p \in finished' /\ p \in bitfield' /\ file'[p] = file[p]]_pmVars
=============================================================================
