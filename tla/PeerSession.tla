---------------------------- MODULE PeerSession ----------------------------
(***************************************************************************)
(* The peer sessions (class PeerSession, src/src/app/peer_session.cpp, and *)
(* the coroutine of PeerManager::start that runs each of them) on top of   *)
(* the PieceManager they share.  Sessions run on four threads of one       *)
(* io_context; what a session keeps is its own, so sessions interleave at  *)
(* their calls of the manager (each one a locked, atomic step) and at      *)
(* their I/O.  One step of this module is therefore one manager call, one  *)
(* write or one message read, with the local code up to the next of them.  *)
(*                                                                         *)
(* Keep-alive, HAVE and unknown messages change nothing in the code and    *)
(* have no action.  The handlers take their message whenever the session   *)
(* reads, as the code does.  The peer and the TCP connection are external: *)
(* what they send and when is said under "What peers send", by Faults and  *)
(* by Answers.                                                             *)
(***************************************************************************)
EXTENDS PieceManager

CONSTANTS
  Sessions,       \* one session for each peer of the tracker's list
  MaxPipeline,    \* MAX_PIPELINE_SIZE (32 in the code)
  PeerHas,        \* the pieces each peer has
  Faults          \* what peers and connections may do besides serving

(***************************************************************************)
(* lost: a connection fails to open or breaks, reads then fail.            *)
(* reset: writes to a broken connection fail as well.                      *)
(* choke: a peer chokes, dropping what it was asked for, and unchokes.     *)
(* corrupt: an answer has wrong bytes, another extent, or overruns its     *)
(*          piece.                                                         *)
(* repeat: a request is answered more than once.                           *)
(* unasked: UNCHOKE, bitfields and pieces come at any time, the bitfields  *)
(*          with any pieces, the pieces with any data.                     *)
(* nobitfield: the optional bitfield message is not sent.                  *)
(* malformed: the bitfield message has the wrong size.                     *)
(* short: a piece message ends before the block's index and offset do.     *)
(***************************************************************************)
ASSUME SessionAssumption ==
  /\ MaxPipeline \in Nat \ {0}
  /\ PeerHas \in [Sessions -> SUBSET Pieces]
  /\ Faults \subseteq {"lost", "reset", "choke", "corrupt", "repeat",
                       "unasked", "nobitfield", "malformed", "short"}

VARIABLES
  session,   \* the PeerSession objects and where their coroutines stand
  link,      \* state of each TCP connection: "up" or "down"
  asked,     \* requests that have reached each peer, not yet answered
  crashed    \* the process has died

psVars == <<pmVars, session, link, asked, crashed>>

\* A session's pc: "connect" and "handshake" are the first two coroutines,
\* "read" is the head of run()'s loop, "fill" the request loop of
\* _handleMessage, "write" the write in _requestBlock, "returning" the loop
\* of _returnBlocks, "done" the end of the coroutine.
NewSession ==
  [pc |-> "connect",
   state |-> "CONNECTING",     \* _state
   choking |-> TRUE,           \* _peer_choking
   loaded |-> FALSE,           \* _peerBitfield is not empty
   has |-> {},                 \* the pieces whose bits it has
   held |-> {},                \* _pendingBlocks
   current |-> {},             \* the block _requestBlock is writing
   needed |-> 0,               \* iterations left of the request loop
   toReturn |-> {}]            \* blocks left of the loop in _returnBlocks

\* The session object goes with its coroutine.
EndedSession == [NewSession EXCEPT !.pc = "done"]

PSInit ==
  /\ PMInit
  /\ session = [s \in Sessions |-> NewSession]
  /\ link = [s \in Sessions |-> "down"]
  /\ asked = [s \in Sessions |-> {}]
  /\ crashed = FALSE

At(s, pc) == ~crashed /\ session[s].pc = pc

-----------------------------------------------------------------------------
(* Connecting *)

\* connect() only records a failure in _state; doHandshake() runs next
\* whatever happened and overwrites it.
Connect(s) ==
  /\ At(s, "connect")
  /\ \E l \in {"up"} \cup (IF "lost" \in Faults THEN {"down"} ELSE {}) :
       link' = [link EXCEPT ![s] = l]
  /\ session' = [session EXCEPT ![s].pc = "handshake",
                                ![s].state = "HANDSHAKING"]
  /\ UNCHANGED <<pmVars, asked, crashed>>

\* doHandshake() also only records a failure (of the connection, or of
\* verifyHandshake), and run() starts by setting BITFIELD_WAIT: the session
\* goes on to read messages in either case.
Handshake(s) ==
  /\ At(s, "handshake")
  /\ session' = [session EXCEPT ![s].pc = "read",
                                ![s].state = "BITFIELD_WAIT"]
  /\ UNCHANGED <<pmVars, link, asked, crashed>>

\* The connection breaks after the answer was read: remote_endpoint() in the
\* success message throws and the coroutine ends.
HandshakeThrows(s) ==
  /\ At(s, "handshake")
  /\ "lost" \in Faults
  /\ link[s] = "up"
  /\ link' = [link EXCEPT ![s] = "down"]
  /\ session' = [session EXCEPT ![s] = EndedSession]
  /\ UNCHANGED <<pmVars, asked, crashed>>

-----------------------------------------------------------------------------
(* Messages.  run() reads one, and handles it before the next. *)

Reading(s) == At(s, "read") /\ session[s].state # "ERROR"

\* A faulty variant: one iteration too many.
LoopPcOnceMore(n) == IF n >= 0 THEN "fill" ELSE "read"

\* Where the request loop goes when n iterations are left.
LoopPc(n) == IF n > 0 THEN "fill" ELSE "read"

\* A faulty variant: the blocks in flight are not subtracted.
FullRoom(held) == MaxPipeline

\* MAX_PIPELINE_SIZE - _pendingBlocks.size(), a negative difference running
\* the loop no more than 0 does.
Room(held) == IF Cardinality(held) < MaxPipeline
              THEN MaxPipeline - Cardinality(held) ELSE 0

\* _handleBitfield assigns the vector when the message has the expected size,
\* and leaves it as it was otherwise.
Loaded(s, loads) == loads \/ session[s].loaded

\* _handleBitfield and the INTERESTED answer.  A wrong size sets ERROR, and
\* the next line of the caller replaces it by READY.
ReceiveBitfield(s, loads, bits) ==
  /\ Reading(s)
  /\ session' = [session EXCEPT ![s].loaded = Loaded(s, loads),
                                ![s].has = IF loads THEN bits ELSE @,
                                ![s].state = "READY"]
  /\ UNCHANGED <<pmVars, link, asked, crashed>>

\* UNCHOKE fills the pipeline.
ReceiveUnchoke(s) ==
  /\ Reading(s)
  /\ session' = [session EXCEPT ![s].choking = FALSE,
                                ![s].needed = Room(session[s].held),
                                ![s].pc = LoopPc(Room(session[s].held))]
  /\ UNCHANGED <<pmVars, link, asked, crashed>>

\* CHOKE sets a flag that nothing reads.  The peer drops its queue.
ReceiveChoke(s) ==
  /\ Reading(s)
  /\ session' = [session EXCEPT ![s].choking = TRUE]
  /\ asked' = [asked EXCEPT ![s] = {}]
  /\ UNCHANGED <<pmVars, link, crashed>>

\* Two faulty variants: no refill, and a refill that keeps the block.
NoRefill(s, answered) ==
  session' = [session EXCEPT ![s].held = @ \ answered]

RefillWithoutErase(s, answered) ==
  session' = [session EXCEPT ![s].needed = Room(session[s].held),
                             ![s].pc = LoopPc(Room(session[s].held))]

\* After data that was taken: erase its block and refill the pipeline.
Refill(s, answered) ==
  LET held == session[s].held \ answered
  IN  session' = [session EXCEPT ![s].held = held,
                                 ![s].needed = Room(held),
                                 ![s].pc = LoopPc(Room(held))]

\* PIECE: the data goes to the manager, asked for or not.  If it is refused,
\* that ends the handler at once, with the block still in the session's set
\* and no request made.  An exception ends the coroutine, returning nothing.
ReceivePiece(s, p, d) ==
  /\ Reading(s)
  /\ \/ Accepted(p, d) /\ Refill(s, Answered(p, d))
     \/ Refused(p, d) /\ UNCHANGED session
     \/ DeliverThrows(p, d) /\ session' = [session EXCEPT ![s] = EndedSession]
  /\ UNCHANGED <<link, crashed>>

\* PIECE, with data that reaches out of its piece.
ReceiveOverrun(s, p) ==
  /\ Reading(s)
  /\ DeliverOutOfBounds(p)
  /\ UNCHANGED <<session, link, crashed>>

\* PIECE, with less than the index and the offset: the ByteReader throws,
\* and the coroutine ends without returning its blocks.
ReceiveShortPiece(s) ==
  /\ Reading(s)
  /\ session' = [session EXCEPT ![s] = EndedSession]
  /\ UNCHANGED <<pmVars, link, asked, crashed>>

-----------------------------------------------------------------------------
(* What peers send *)

\* A peer's first message is its bitfield, of the right size unless malformed.
SendsBitfield(s) ==
  /\ link[s] = "up"
  /\ session[s].state = "BITFIELD_WAIT"
  /\ \/ ReceiveBitfield(s, TRUE, PeerHas[s])
     \/ "malformed" \in Faults /\ ReceiveBitfield(s, FALSE, {})

\* It unchokes a session it chokes, and chokes one it does not.
SendsUnchoke(s) ==
  /\ link[s] = "up"
  /\ session[s].choking
  /\ session[s].state = "READY" \/ "nobitfield" \in Faults
  /\ ReceiveUnchoke(s)

SendsChoke(s) ==
  /\ "choke" \in Faults
  /\ link[s] = "up"
  /\ ~session[s].choking
  /\ ReceiveChoke(s)

\* The data a peer may answer a request with.
AnswersFor(blk) ==
  {d \in AnswersTo[blk[1]] :
     /\ Answered(blk[1], d) = {blk}
     /\ d.bytes = <<blk[2]>> \/ "corrupt" \in Faults}

\* It answers what it was asked for, once.  An answer may still be read after
\* the connection broke.
SendsAnswer(s, blk) ==
  /\ blk \in asked[s]
  /\ \/ asked' = [asked EXCEPT ![s] = @ \ {blk}]
     \/ "repeat" \in Faults /\ UNCHANGED asked
  /\ \/ \E d \in AnswersFor(blk) : ReceivePiece(s, blk[1], d)
     \/ "corrupt" \in Faults /\ ReceiveOverrun(s, blk[1])

\* What no protocol allows it to send now.
SendsUnasked(s) ==
  /\ "unasked" \in Faults
  /\ link[s] = "up"
  /\ \/ ReceiveUnchoke(s)
     \/ \E bits \in SUBSET Pieces : ReceiveBitfield(s, TRUE, bits)
     \/ /\ UNCHANGED asked
        /\ \E p \in Pieces :
             \/ ReceiveOverrun(s, p)
             \/ \E d \in AnswersTo[p] : ReceivePiece(s, p, d)

SendsShortPiece(s) ==
  "short" \in Faults /\ link[s] = "up" /\ ReceiveShortPiece(s)

-----------------------------------------------------------------------------
(* The request loop: _requestBlock, `needed` times *)

\* The next block to ask for, if the manager has one; without one the
\* iteration is over.
Fill(s) ==
  /\ At(s, "fill")
  /\ session[s].loaded
  /\ \/ /\ \E blk \in Block :
             /\ RequestBlock(session[s].has, blk)
             /\ session' = [session EXCEPT ![s].current = {blk}, ![s].pc = "write"]
     \/ /\ RequestNothing(session[s].has)
        /\ session' = [session EXCEPT ![s].needed = @ - 1,
                                      ![s].pc = LoopPc(session[s].needed - 1)]
  /\ UNCHANGED <<link, asked, crashed>>

\* Without a bitfield requestBlock reads the first byte of an empty vector,
\* whose data() is null: the process dies.
FillWithoutBitfield(s) ==
  /\ At(s, "fill")
  /\ ~session[s].loaded
  /\ crashed' = TRUE
  /\ UNCHANGED <<pmVars, session, link, asked>>

\* The write succeeds (a broken connection may still take it) and the block
\* joins the session's set.
WriteSucceeds(s) ==
  /\ At(s, "write")
  /\ session' = [session EXCEPT ![s].held = @ \cup session[s].current,
                                ![s].current = {},
                                ![s].needed = @ - 1,
                                ![s].pc = LoopPc(session[s].needed - 1)]
  /\ asked' = [asked EXCEPT ![s] =
                 IF link[s] = "up" THEN @ \cup session[s].current ELSE @]
  /\ UNCHANGED <<pmVars, link, crashed>>

\* _returnBlocks gives back the session's set, which it leaves as it is.
ReturnPc(s, after) == IF session[s].held = {} THEN after ELSE "returning"

\* The write fails: everything held is given back but the block at hand,
\* and the loop goes on.
WriteFails(s) ==
  /\ At(s, "write")
  /\ "reset" \in Faults
  /\ link[s] = "down"
  /\ session' = [session EXCEPT ![s].current = {},
                                ![s].needed = @ - 1,
                                ![s].toReturn = session[s].held,
                                ![s].pc = ReturnPc(s, LoopPc(session[s].needed - 1))]
  /\ UNCHANGED <<pmVars, link, asked, crashed>>

-----------------------------------------------------------------------------
(* The end of a session *)

\* The connection breaks.
Break(s) ==
  /\ "lost" \in Faults
  /\ ~crashed
  /\ link[s] = "up"
  /\ link' = [link EXCEPT ![s] = "down"]
  /\ UNCHANGED <<pmVars, session, asked, crashed>>

\* A faulty variant: nothing is given back.
ReadFailsForgets(s) ==
  /\ Reading(s)
  /\ link[s] = "down"
  /\ session' = [session EXCEPT ![s] = EndedSession]
  /\ UNCHANGED <<pmVars, link, asked, crashed>>

\* A read fails: everything held is given back and the session ends.
ReadFails(s) ==
  /\ Reading(s)
  /\ link[s] = "down"
  /\ session' = [session EXCEPT
       ![s] = IF session[s].held = {} THEN EndedSession
              ELSE [@ EXCEPT !.state = "ERROR",
                             !.toReturn = session[s].held,
                             !.pc = "returning"]]
  /\ UNCHANGED <<pmVars, link, asked, crashed>>

\* std::set iterates in the order of Block's operator<.
Precedes(blk, c) == blk[1] < c[1] \/ (blk[1] = c[1] /\ blk[2] <= c[2])

\* A faulty variant: run() goes on reading.
AfterReturnReadAgain(s) ==
  [session[s] EXCEPT !.state = "READY", !.toReturn = {}, !.pc = "read"]

\* Where the coroutine goes after its last returned block: run() has set
\* ERROR before a final return, _requestBlock has not.
AfterReturn(s) ==
  IF session[s].state = "ERROR" THEN EndedSession
  ELSE [session[s] EXCEPT !.toReturn = {}, !.pc = LoopPc(session[s].needed)]

\* One iteration of _returnBlocks, whatever the manager answers.
Returning(s) ==
  /\ At(s, "returning")
  /\ \E blk \in session[s].toReturn :
       /\ \A c \in session[s].toReturn : Precedes(blk, c)
       /\ ReturnBlock(blk) \/ ReturnRefused(blk)
       /\ session' = [session EXCEPT
            ![s] = IF session[s].toReturn = {blk} THEN AfterReturn(s)
                   ELSE [@ EXCEPT !.toReturn = session[s].toReturn \ {blk}]]
  /\ UNCHANGED <<link, asked, crashed>>

-----------------------------------------------------------------------------
(* Specification *)

\* Steps the io_context's threads take on their own.
SessionStep(s) ==
  \/ Connect(s) \/ Handshake(s)
  \/ Fill(s) \/ FillWithoutBitfield(s) \/ WriteSucceeds(s) \/ WriteFails(s)
  \/ ReadFails(s) \/ Returning(s)

\* Messages a serving peer owes the session.
PeerServes(s) ==
  \/ SendsBitfield(s) \/ SendsUnchoke(s)
  \/ \E blk \in Block : SendsAnswer(s, blk)

\* What the environment may do and owes nobody.
Disturbance(s) ==
  \/ HandshakeThrows(s) \/ Break(s)
  \/ SendsChoke(s) \/ SendsUnasked(s) \/ SendsShortPiece(s)

PSNext == \E s \in Sessions : SessionStep(s) \/ PeerServes(s) \/ Disturbance(s)

PSSpec == PSInit /\ [][PSNext]_psVars

\* The threads never stop running ready coroutines, and every peer goes on
\* serving what it was asked for.
PSFairSpec ==
  /\ PSSpec
  /\ \A s \in Sessions : WF_psVars(SessionStep(s)) /\ WF_psVars(PeerServes(s))

-----------------------------------------------------------------------------
(* Properties *)

States == {"CONNECTING", "HANDSHAKING", "BITFIELD_WAIT", "READY", "ERROR"}

Pcs == {"connect", "handshake", "read", "fill", "write", "returning", "done"}

SessionRecord ==
  [pc : Pcs, state : States, choking : BOOLEAN, loaded : BOOLEAN,
   has : SUBSET Pieces, held : SUBSET Block, current : SUBSET Block,
   needed : 0 .. MaxPipeline, toReturn : SUBSET Block]

\* Type invariant of the sessions and their connections.
PSTypeOK ==
  /\ PMTypeOK
  /\ session \in [Sessions -> SessionRecord]
  /\ link \in [Sessions -> {"up", "down"}]
  /\ asked \in [Sessions -> SUBSET Block]
  /\ crashed \in BOOLEAN

\* What a session answers for: the blocks it holds and the one it is
\* writing; while it gives blocks back, those it has not given back yet.
Owed(s) == IF session[s].pc = "returning" THEN session[s].toReturn
           ELSE session[s].held \cup session[s].current

\* Who has each block: nobody, a session, or the manager for good.
Holder(blk) ==
  IF blk[1] \in finished \/ blk[2] \in Received(blk[1]) THEN "got"
  ELSE IF \E s \in Sessions : blk \in Owed(s)
       THEN CHOOSE s \in Sessions : blk \in Owed(s)
       ELSE "free"

PieceOf(blk) == blk[1]

Leases == INSTANCE BlockLease WITH
  Free <- "free", Got <- "got",
  owner <- [blk \in Block |-> Holder(blk)], final <- finished

\* Manager and sessions implement the lease of blocks: between a request's
\* two awaits, a delivery, and the loop that gives blocks back, a block never
\* has two takers, none is fetched twice, and a piece is verified with its last
\* block and not before.
SessionsLeaseBlocks == Leases!Spec

\* Every reservation in the manager's _pendingBlocks is answered for by a
\* session that is still there: no block of an unfinished piece is withheld
\* from all peers for good.  (Not so after a failed write, a short message or
\* an exception of the file: these forget what the session had.)
ReservationsHaveAHolder ==
  \A blk \in pendingBlocks : blk[1] \notin finished =>
    \E s \in Sessions : blk \in Owed(s)

\* No two sessions answer for one block, and none answers for a block the
\* manager believes to be free: nothing is fetched twice at the same time.
\* Stated for honest peers; a returned block rewinds its piece, so where
\* connections break, each piece of several blocks must have one server.
HoldersOwnTheirBlocks ==
  \A s \in Sessions :
    /\ Owed(s) \subseteq pendingBlocks
    /\ \A t \in Sessions \ {s} : Owed(s) \cap Owed(t) = {}

\* blocksReceived counts different blocks, so the hash of a piece is only
\* taken when the whole piece is there.  Stated for the same peers.
CountsAreExact ==
  \A p \in Pieces \ finished :
    PieceBuffer(p).blocksReceived = Cardinality(Received(p))

\* A session that waits for its peer waits for an answer: each block in its
\* set is still in the queue of the peer.  Stated for the same peers, if they
\* do not choke: a choke drops the queue and leaves the set as it is.
HeldBlocksAreAsked ==
  \A s \in Sessions :
    session[s].pc = "read" /\ link[s] = "up" => session[s].held \subseteq asked[s]

\* A session holds no more than MAX_PIPELINE_SIZE blocks, the one being
\* written and those its loop has yet to request included.
PipelineIsBounded ==
  \A s \in Sessions :
    Cardinality(session[s].held) + session[s].needed <= MaxPipeline

\* "Peer has nothing we want": when requestBlock has no block for a peer, each
\* block of that peer's pieces is of a finished piece, in the buffer, or a
\* session answers for it.
PeerHasNothingWeWant ==
  \A s \in Sessions : Wanted(session[s].has) = {} =>
    \A p \in session[s].has \ finished : \A b \in Blocks(p) :
      b \in Received(p) \/ \E t \in Sessions : <<p, b>> \in Owed(t)

\* A connection that opened and has not broken.
LinkLasts(s) == session[s].pc # "connect" => link[s] = "up"

\* Serving peers whose connections open and never break bring the download
\* to its end: no session stops asking while there is something to ask for.
LastingLinksComplete ==
  [](\A s \in Sessions : LinkLasts(s)) => <>(finished = Pieces)

\* With peers that answer until their connection breaks, no block of an
\* unfinished piece stays reserved: it is delivered, given back, or its piece
\* is finished without it.  (A finished piece's entries may stay in
\* _pendingBlocks: late answers do not reach the erase.)
ReservationsResolve ==
  \A blk \in Block :
    blk \in pendingBlocks ~> blk \notin pendingBlocks \/ blk[1] \in finished

\* A session whose connection broke ends.
BrokenSessionsEnd ==
  \A s \in Sessions :
    session[s].pc # "connect" /\ link[s] = "down" ~> session[s].pc = "done"
=============================================================================
