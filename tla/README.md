# A TLA+ development of the BitTorrent client

This directory models the download core of the client in `src/`, checks it with
TLC and proves the main results about its shared state with TLAPS. File names
below are relative to `src/`; line numbers of every definition are in
`PROJECT.json` ("map").

## 1. The system

| component | state | operations | talks to |
|---|---|---|---|
| `main`, `TorrentOrchestrator` | the metadata, `_completionMutex`, `cv` | load, announce, `download`, wait, stop | everything below |
| torrent metadata loader | none (pure) | `loadTorrentFile`, `parseRootDict`, `parseInfoDict`, `calculateInfoHash` | bencode codec |
| bencode codec | none (pure) | `parse`, `encode` | - |
| tracker communicator | none | `announceAndGetPeers` and its helpers | tracker (HTTP), bencode codec |
| `PeerManager` | `_ctx`, `_threadPool` | `start` (one coroutine per peer, four threads), `stop` | sessions |
| `PeerSession` | `_state`, `_peer_choking`, `_peerBitfield`, `_pendingBlocks` | `connect`, `doHandshake`, `run`, one handler per message | a peer (TCP), `PieceManager` |
| `PieceManager` | `_pendingBlocks`, `_nextOffsets`, `_pendingPieces`, `_finished`, `_bitfield`, `_piecesFinished` | `requestBlock`, `deliverBlock`, `returnBlock`, `isComplete` | `FileHandler`, `ProgressTracker`, `cv` |
| `FileHandler` | the output stream | `writePiece` | the file |
| `ProgressTracker` | `_finishedPieces` | `notifyProgress`, a printing thread | stdout |
| handshake codec, byte reader and writer | a cursor or a buffer | serialise and check messages | sessions |

The sessions run as coroutines of one `io_context` on four threads and share one
`PieceManager`, whose three operations take `_mutex` for their whole body. The
main thread waits on `cv` under a different mutex for the session that finishes
the last piece.

What is hard here: sessions interleave at every manager call and every
`co_await`; connections break between a reservation and its answer; a peer may
choke, answer twice, or send bad bytes; a piece can be discarded while some of
its blocks are still out; the completion is signalled across two mutexes; and
threads are joined that never ran. `PROJECT.json` ("hazards") lists each place.

What makes each component correct:

- piece manager: no block is lost, none is leased twice, a finished piece is
  verified, final and on disk, and the completion state agrees with itself;
- sessions: the pipeline is bounded, every reservation has a living holder, a
  session that ends gives back what it held, and serving peers bring the
  download to its end;
- orchestrator and progress display: the main thread stops only with the whole
  file verified, is woken, and ends normally; the display never claims more than
  is verified;
- handshake and messages: a peer is verified exactly when it serves the torrent,
  what is handled is what was sent, and the peer understands what it is sent;
- codec: `parse` undoes `encode`, and refuses what was cut off;
- loader and tracker: the info hash is the torrent's, and the pieces make up the
  file.

## 2. The modules

`PieceManager.tla` - the manager with its file and counter. One action per
outcome of an operation: `RequestBlock`, `RequestNothing`, the six outcomes of
`deliverBlock` (`DeliverFinished`, `DeliverOutOfBounds`, `DeliverPartial`,
`DeliverVerified`, `DeliverThrows`, `DeliverMismatch`), `ReturnBlock`,
`ReturnRefused`. `PMNext` lets arbitrary callers call them in any order. Offsets
are counted in blocks; a piece's bytes are one value per block position (`b` for
the torrent's block `b`, `Blank`, `Corrupt`); `VerifyHash` takes SHA-1 as
injective. `deliverBlock` checks its data against the end of the piece only, so
what is delivered (`Data`) may begin at a block or inside of one and reach over
any number of blocks, or carry no bytes; `Answers` says which of these a run
has. Each delivery adds one to `blocksReceived` whatever it covers. `Blank` in
the file means "not written in this run", so a file that was there before is
covered.

`PeerSession.tla` EXTENDS it with the sessions. A session is a record holding the
object's members and where its coroutine stands; each step is one manager call,
one write or one message read with the local code around it. The actions of
the manager are conjoined to the session's, so every manager call in the
composition is one of the manager's own actions. A handler (`Receive...`) takes
its message whenever the session reads, as the code does; what a peer sends and
when is kept apart from it (`Sends...`). Peers and connections
are external: `Faults` says what they may do besides serving (`lost`, `reset`,
`choke`, `corrupt`, `repeat`, `unasked`, `nobitfield`, `malformed`, `short`), where
`unasked` is a peer that sends bitfields, UNCHOKE and pieces whenever it likes.
Keep-alive, HAVE and unknown messages change nothing in the code and have no
action.

`Orchestrator.tla` - the main thread beside the sessions that finish pieces and
the thread that prints the progress. The manager's atomic delivery is cut in
three (`CountPiece`, `NotifyProgress`, `NotifyOne`), because neither of these
threads takes `_mutex`; the wait is cut at the evaluation of its predicate
(`Check`, `Block`), because the notifier does not take `_completionMutex`;
`notifications` counts the calls of `notify_one`. `stop`
throws at the first of the pool's four empty threads, so its normal end has no
action; unwinding destroys the tracker if no session keeps it, and then ends in
`std::terminate` at the threads that are still joinable.

`BencodeValues.tla` and `BencodeParser.tla` - values, `Encode`, and `parse` as a
stack machine: a frame is a call of `parseList` or `parseDict`, the number of
frames is the `depth` argument. The operators that look at the text (`StringAt`,
`IntAt`) return a set of at most one result; the empty set is the throw. A string's
length is what `std::stoul` makes of the bytes before the colon (`Stoul`: blanks, a
sign, digits, and anything behind them), and where the string ends is computed in a
`size_t` of `MaxSize` (`StringEnd`).

`Startup.tla` - from the torrent file to the spawned sessions: the checks of the
loader and the tracker communicator in set form (a function that may throw
is a set of at most one result), the info hash, and `_getPieceLength` in its
32-bit arithmetic (`Word`).

`Client.tla` EXTENDS `Startup` and `Orchestrator` and puts them in sequence: the
whole run from the torrent file to the end of the process. The number of pieces
and of sessions is what loading and announcing came to, and a piece can only be
finished (`FinishPiece`) if the client hashes as many bytes as the piece really
has; a piece length that is zero in 32 bits kills the process
(`DivideByZero`).

`Bytes.tla` and `Wire.tla` - the connection byte by byte: `doHandshake`, the
framing of `run`, the decoding and encoding of messages, with the layout of the
68 bytes as written (`Packed`) and as read (`VerifyHandshake`). The peer sends one of
`Scripts`, the connection delivers it in any portions and may close anywhere.
`PeerSession` starts where this module ends, with whole messages.

Two abstract specifications are implemented by the modules above:

- `Completion.tla`: pieces are finished one at a time, the progress reported
  never overtakes them, the end is announced once and after the last.
  `PieceManager` implements it with one locked call (`ManagerCompletes`),
  `Orchestrator` with the steps the other threads see (`ThreadsComplete`); in
  both the announcement is the call of `notify_one`. That the main thread hears of
  it is no part of `Completion`: `SleeperIsWoken` and the `LostWakeup` run are about
  that;
- `BlockLease.tla`: a block is free, leased to one session, or received for
  good; a piece is verified with its last block. `PeerSession` implements it
  while peers are honest (`SessionsLeaseBlocks`): the lease-holder of a block is
  the session that has it in its set, is writing it, or has yet to give it back.

`MCPieceManager`, `MCPeerSession`, `MCBencodeParser`, `MCClient`, `MCWire` give
the constants their finite values. The theorems are in `PieceManagerProofs`,
`PeerSessionProofs`, `OrchestratorProofs` and on top of it `ClientProofs`, `WireProofs`,
`EncodingProofs` and on top of it `ParserProofs`, and the lemmas several of them need
in `LibraryProofs`. Definitions whose comment says "a faulty variant"
are plausible bugs; they are used only to show that each property notices one.

## 3. Runs

Passing (each explores its whole state space):

| cfg | instance | shows |
|---|---|---|
| `PieceManager` | pieces of 3 and 1 blocks, arbitrary callers, data of one or more blocks or of parts of blocks, file may be closed or fail | types, `NoBlockLost`, `AnswersAreCounted`, `UnfinishedPieceCanProgress`, `CompletionAgrees`, `OnlyVerifiedBytesOnDisk`, `OneBlockPiecesOnDisk`, `FinishedIsFinal`; the manager implements `Completion` |
| `SessionsReliable` | 3 sessions, pieces of 3 and 1 blocks, pipeline 2; connections stay up, peers may choke | leases are exclusive, counts are exact, `BlockLease` is implemented |
| `SessionsLossy` | 2 sessions, one piece of 2 blocks; broken links, chokes, corrupt and repeated answers | every reservation has a living holder; "nothing to request" is true |
| `SessionsFaulty` | 1 session, pieces of 2 and 1 blocks, pipeline 2, all faults: broken links, failing writes, messages out of turn, missing and malformed bitfields, short messages, wrong, repeated and empty answers, a closed file | types, the bounded pipeline, `AnswersAreCounted` |
| `SessionsRecover` | a seed and a peer with the last piece, pieces of 3 and 1 blocks, pipeline 2, links may break, fair | `BlockLease` is implemented although blocks come back; reservations resolve, broken sessions end, waiting sessions wait for an answer, lasting links complete the download |
| `BencodeParser` | all encodings of some 200 nested values cut off at every byte, all texts of up to 4 tokens, and keys with 10 odd lengths; `int64_t` is -12..11, `size_t` 0..63 | `parse` undoes `encode`, the depth guard, truncation is refused, no length leads out of the text |
| `Client` | piece lengths -1..6, file lengths -1..10, 0..9 bytes of hashes (2 each), 2^32 as 4, missing, mistyped and additional keys, 14 tracker answers, up to 3 peers and 4 pieces | the info hash is the torrent's exactly where the dict has the four known keys; lengths are right; sessions are the tracker's peers; the progress is honest; a client that stops has verified the whole file; a sleeping main thread is woken; `Completion` is implemented across threads |
| `Wire` | a handshake that fits and 7 that do not, one of which begins as a short message does; scripts of up to 2 of 9 messages, 2 requests, closing at every byte | where the session's handshake went out, messages are handled as sent and all of them in the end, and the peer understands; the verdict on the peer is right |

Four more runs (`expect: violation`) show a statement of the repository that the
code does not keep; `PROJECT.json` ("findings") quotes each:

| cfg | statement | what happens |
|---|---|---|
| `FileManyBlocks` | "downloaded and verified" | only the block delivered last is written, at the start of the piece |
| `WriteFailureLeaks` | "Peer has nothing we want" | a reservation whose write failed is never returned |
| `LostWakeup` | "Wake up torren orchestrator" | the notification falls before the wait |
| `StopAborts` | "Fatal error: {}." | the last piece is counted, `stop()` throws at an empty thread, and unwinding destroys joinable ones: `std::terminate` before the handler |

The models contain further behaviour of that kind, which the properties are stated
around:

- after a returned block the manager hands out received blocks above it again;
  their second delivery is counted, the hash is taken too early, and a piece
  of nothing but right bytes is discarded. `CountsAreExact`, `HoldersOwnTheirBlocks`
  and `SessionsLeaseBlocks` are therefore checked on connections that stay up, and
  `HeldBlocksAreAsked` (with the lease again) where one session at a time serves
  a piece: with two seeds, a block that was asked for twice and comes late finds
  its piece finished, and its entry stays in `_pendingBlocks`. `ReservationsResolve`
  speaks of unfinished pieces, whose blocks somebody may still wait for;
- a delivery that covers several blocks counts once, so the hash is taken when as
  many answers have come as the piece has blocks, not when its bytes are there:
  `AnswersAreCounted` says what holds instead of an exact count;
- after a failed write the session's blocks are given back twice, the second time
  when they may be another session's: no property claims exclusive leases there;
- requests dropped by a choke stay in the session's set, so an unchoked session
  may find no room and ask for nothing; a refused delivery ends its handler
  without a refill;
- `run` replaces the ERROR of a failed `connect` or `doHandshake` by
  BITFIELD_WAIT, and the handler replaces that of a bad bitfield by READY;
- an unchoke from a peer whose bitfield did not arrive indexes an empty vector
  (`FillWithoutBitfield`); a URL that cannot be parsed is used before it is
  checked (`AnnounceToBadUrl`); a piece length that is a multiple of 2^32 divides
  by zero (`DivideByZero`);
- a closed file or a short message ends a session without a return of its
  blocks, and a failed write loses one, so `ReservationsHaveAHolder` is checked
  without these;
- after a failed handshake write the peer's handshake is read as messages
  (`SendFails`): one of this protocol begins with a length of some 300 MB, which
  the session then waits for, another may begin with a message that is handled.
  `HandledAreSent` and `PeerUnderstands` speak of sessions whose handshake went out;
- a torrent of no pieces casts a NaN to int in the display (`LogProgress`), and the
  display's destructor prints success whatever its counter says, so
  `SuccessMeansComplete` rests on who destroys it and when;
- a silent peer keeps its reservations: there is no timeout;
- the info hash is that of a dict rebuilt from four keys: `HashIsOwnIfUsual` says
  exactly when it is the torrent's own, which it is not for one with a `private`
  key (`tests/hash_calc.py` hashes the dict as it is);
- an answer without bytes takes its block out of `_pendingBlocks` and leaves
  nothing in the buffer until the piece is hashed and reset, so `NoBlockLost` and
  `PeerHasNothingWeWant` are checked without them;
- the number of hashes is not compared with the file's length;
- what stands between a string's length and its colon is ignored; blanks and a
  sign before it are taken, and with `-` the length wraps.

### Bounds

- `blocksReceived` stops one above the number of blocks; all counts above behave
  alike (`isFinished` compares with `==`).
- Two sessions are enough for every conflict over a block, three for a third
  party to one; two or three blocks
  per piece for a first, an inner and a last block, a second piece for the order
  of pieces. A pipeline of 2 is all there is to ask for in the one-piece runs and
  less in the others. One session is enough for what `SessionsFaulty` asks: its
  pipeline is its own affair, and the counts are checked for any callers in
  `PieceManager`. The proofs lift these bounds for what they cover.
- `Answers` is empty in the sessions' runs but `SessionsFaulty`, which has answers
  without bytes: a block is answered by one value there, right or wrong, or
  overruns its piece. Data of any other extent is what the manager's own run has,
  for arbitrary callers.
- `MAX_RECURSION_DEPTH` is 2, `int64_t` is -12..11 and `size_t` 0..63 in the parser's
  instance, with values and texts on both sides of the limits; no text is longer
  than a `size_t` can say, and the lengths in them reach up to 63 and beyond.
- `Word` is 4 in `Client`, with piece and file lengths on both sides of it and
  multiples of it; there may be more hashes than `MaxPieces` (which bounds
  `Orchestrator` alone) and more or fewer than the file has pieces.
- In `Wire` two messages are enough for a boundary between messages to be
  wrong; fields are 0, values with four different bytes, and 16384. The
  theorems of `WireProofs` are about all values.
- `SYMMETRY` is used where both peers have the same pieces and no liveness is
  checked.

`CHECK_DEADLOCK FALSE`: the system does stop. Sessions end or wait for peers
that owe nothing, the process may die, the parser returns and main ends. The
manager under arbitrary callers never stops, and is checked for deadlock.

### Fairness

`PSFairSpec` has weak fairness of `SessionStep` for every session (the
`io_context`'s threads run ready coroutines, and a TCP operation completes)
and of `PeerServes` (a peer that was asked sends its answer, unchokes and sends
its bitfield; an assumption about peers, needed because the client has no
timeout). Nothing is assumed of `Disturbance`. `OrchFairSpec` and `ClientSpec`
have weak fairness of the main thread and of a delivery that has begun (both
are running threads), none of peers, of finishing pieces, of the printing
thread or of spurious wake-ups. `WireSpec` has weak fairness of the session's
coroutine and of TCP's delivery; `EverythingIsHandled` is stated for
connections that are not closed.

## 4. Proofs

`PieceManagerProofs` proves for every number of pieces, blocks per piece and
set of file faults, under `GeometryAssumption` and `EnvironmentAssumption`:

- `PMTypeCorrect`: `PMSpec => []PMTypeOK`;
- `PMInvariant`: the inductive invariant `IInv`, the conjunction of `PMTypeOK`,
  `AnswersAreCounted`, `CompletionAgrees` and `OnlyVerifiedBytesOnDisk`. The
  conjuncts need each other: counts are about buffers the type invariant
  describes, a count stays below its limit because a piece with all its answers is
  hashed in the same step, and the file's regions stay as they are because
  `finished` and `bitfield` agree. There is one lemma per operation and outcome,
  for data of any extent;
- from it `BlocksAreNeverLost` (where no answer is without bytes),
  `AnswersAreRightlyCounted`, `CompletionIsConsistent`,
  `FileHoldsVerifiedBytes`, `PiecesCanProgress` (a counting argument: where fewer
  answers were counted than there are blocks, one is out or free),
  `FinishedPiecesAreFinal`, `OneBlockPiecesReachDisk` (the delivered block
  is the piece, whose hash matched), and the refinement
  `ManagerImplementsCompletion`: `IInv` says that counter, progress and
  notification move together, so each outcome of a delivery is a step of
  `Completion` or none.

`PeerSessionProofs` proves for every set of sessions, pipeline size, bitfields
and faults, with `SessionAssumption` in addition:

- `SessionsInvariant` and from it `PipelineStaysBounded`. The invariant relates
  a session's set, the block it is writing, the iterations its loop has left
  and its pc;
- `SessionsKeepTheManagerSound` (sessions are callers of the manager, so its
  invariant `IInv` holds in the composition) and `SessionsTypeCorrect`, with the
  types of sessions and connections.

The second half of `PeerSessionProofs` proves who has each block, for every
number of peers, pieces and blocks. Each session's steps are first reduced to
what they do to the blocks it answers for (`Effect`: asks, gives back, hands
over, dies, or nothing), so the invariants are shown against five effects
instead of fifteen actions. `ShapeInvariant` (`ShapeOK`: a session holds nothing
before it reads and after it ended, writes one block at a time, returns blocks
only after a connection was lost) is the ground for the rest. The hypotheses are
those the code needs; each is a set of faults it does not survive, and the runs
of section 3 show what happens outside of them:

- `ReservationsAreAnsweredFor` and `RefusedMeansNothingToAsk`, under
  `NothingForgets`: with lost connections, chokes, corrupt, repeated and unasked
  answers every reservation has a living holder, and (where answers have bytes)
  "nothing to request" is true. A failed write, a short message and a closed file
  lose reservations for good;
- `LeaseInvariant` and from it `BlocksHaveOneHolder` and `DeliveriesAreCountedOnce`,
  under `PeersAreHonest` (answers are right, asked for, and come once) and
  `OneServerPerPiece`: where connections break, a piece of
  several blocks has one server, since a returned block rewinds its piece and
  what was received behind it is asked for again. `LeaseInv` needs all its
  parts: that what a peer was asked for is held (`AskedAreHeld`) and served by it
  (`OwedAreServed`) identifies the session of an answer; that reserved blocks are
  missing and received ones are not handed out again (`ReservedAreMissing`,
  `NeverAskedAgain`) keeps the count exact; that received bytes are right
  (`BytesAreRight`) makes a full buffer verify;
- `SessionsImplementLeases`: `PSSpec` implements `BlockLease`, with `NothingIsDropped`
  in addition (no session dies with its blocks). The map sends a block to its
  holder;
- `WaitingSessionsAreServed`: under the same hypotheses and without chokes, a session
  that waits has been promised each block it holds.

`OrchestratorProofs` proves for every set of peers and number of pieces, from
the invariant `OrchInvariant` (types; the tracker is at most one delivery behind;
a full bar means that all were finished; past its wait the main thread has seen the
last piece; a tracker that is gone leaves no session behind that could finish
another):

- `StopsWhenComplete`, `ProgressStaysHonest`, `SuccessIsTrue`. The bar's marks are
  computed in doubles, which may fall one short of the exact quotient
  (`Percents`) but reach 100 no earlier than `progress` reaches `numPieces`;
- `ThreadsImplementCompletion`: `OrchSpec` implements `Completion`, cut as it is.

`ClientProofs` proves the same of the whole run, and what the start adds, for all
torrents, tracker answers and widths of the arithmetic. The invariant `ClientInv` is
that of the orchestrator, with `LoadedInv` (what was loaded is `ParseTorrentData` of
the torrent, and there before anything is announced) and `LaunchedInv` (nothing
is running before the tracker's answer; then the pieces are the torrent's, the
sessions the answer's, and as many pieces are finished as the client can verify at
most):

- `ClientTypeCorrect`, `SessionsComeFromTheTracker`, `ClientStopsWhenComplete`,
  `ClientShowsTheTruth`, `ClientImplementsCompletion`;
- `HashIsTheDictsOwn`: the info hash is the torrent's exactly when its info dict has
  the four keys the code knows and no other, without a hypothesis about the
  torrents;
- `PiecesAreTheFile`: the lengths of `_getPieceLength` add up to the file, by
  Euclidean division and a sum of equal terms. 32 bits do no harm when the file
  is shorter than `Word`, or `Word` is a multiple of the piece length;
- `StopsWithEveryByte`: without that condition a client that stops still has
  verified every byte of the file, because pieces of a wrong length are never
  verified. What is in the file is the manager's matter (`FileManyBlocks`).

`WireProofs` proves under `WireAssumption` (the lengths of the constant byte
strings, that handshakes and messages are values of their types):

- `ReadUndoesWrite`: `readU32` reads what `write_u32` wrote, for every 32-bit
  value (by repeated division by 256);
- `VerifyReadsTheFields`: the offsets of `verifyHandshake` are those of the
  struct's fields, for every handshake: a lemma on slices of concatenations, used
  once per field;
- `SessionShape` and from it `WireTypeCorrect` and `VerdictsAreRight`: a session never
  reads more than arrived, writes only bytes, and judges a peer by its own 68
  bytes, whatever is sent and wherever it is cut;
- `SessionsKeepInStep`, `MessagesAreHandledAsSent`, `PeersUnderstandTheClient`, for
  every peer, script and cut: the invariant `WireInv` says of a session whose
  handshake went out (`Greeted`) that for some k the first k messages are handled, and
  that `run` stands at the beginning of frame k + 1 or behind its length
  (`InStep(k)`), or that the peer's handshake was cut off and there is nothing left to
  read (`Lost`); and that what was written is the encoding of what was meant
  (`AsMeant`). A session that is not greeted has written nothing, and of what it
  handles nothing is claimed. The length of a stream is not bounded.

`EncodingProofs` proves what `encode` writes, for every value, under
`BytesAssumption`, `ValuesAssumption` and `DepthAssumption` (a text is a sequence of
the bytes the syntax needs and any others; values are finite trees):

- `KeysAreSorted`: the keys of a dict are written in byte order, each once. The order is
  total, and a set of keys with one more has an order if the smaller set has (the
  last key is taken out). `SortedKeys` is a choice, which the theorem justifies;
- `NumbersAreRecovered`: the digits that `std::to_string` writes are those of the number,
  for every integer, by the number of digits;
- where the parts of a container stand in its text (`Offsets`, `PartStands`), and that
  the first byte of a value tells its kind (`FirstByte`), as `parse` supposes.

`ParserProofs` proves of `parse`, for every text, recursion limit and integer range
(`ParserAssumption`: `encode` was given integers of that range, and no text or
encoding is longer than the largest `size_t`):

- `ParserTypeCorrect`: the position stays in the text or one behind it, also where
  a length wraps around `size_t`, no more than
  `MAX_RECURSION_DEPTH + 1` containers are open, and there is a value exactly when
  `parse` has returned. The invariant `ParserInv` adds that the stack is one of frames
  and that there is no value before the end;
- `ParseUndoesEncode` and `CutOffIsRefused`. The invariant `RoundTrip` says of every value
  whose encoding agrees with the text as far as both go: there is a path from
  the value down to the part that is parsed now, with one container for each
  frame of the stack; each frame holds the first k elements of its container
  (`Holds`), the next one on the path is element k + 1 (`Inside`), and it stands at the
  sum of the lengths before it. The position is the beginning of the last value on
  the path (`AtValue`), or behind the k-th element of the innermost container
  (`AtLoop`). At the end the path has length one, so the value is the one encoded.
  A text that was cut off ends inside of something, and each reader then throws:
  a number misses its `e`, a string its `:` or its bytes, a container its `e`. The
  path also counts the depth, which is why a value nested deeper than the limit
  is refused and no other is.

`LibraryProofs` has the lemmas about operators of the community modules that are
defined by recursion: `MapThenSumSet` (the sum does not depend on the order of the
choices, equal terms multiply) and `FlattenSeq` (of a longer sequence, of two behind
each other, its type); and `Recursion`: a function defined by recursion that looks at
arguments of a smaller rank only (`LooksDown`) exists and satisfies its equation, from
which `Encode` and `NatText` are resolved. Induction is done by hand: a set
of counterexamples that is not empty has a least one, and the element below it leads
to a contradiction.

Every invariant and every action property of the passing runs is stated by a
theorem, some of them under the hypotheses named above. Only model-checked: liveness
under fairness, which needs ENABLED (both out of the prover's reach):
`ReservationsResolve`, `BrokenSessionsEnd`, `LastingLinksComplete`, `SleeperIsWoken` and
`EverythingIsHandled`.

## 5. Not modelled

Messages for piece indices beyond the torrent and spare bits of the last bitfield
byte; what is left of a request on a connection whose write failed half way; the
HTTP exchange with the tracker and the random peer id; peers' addresses and ports,
which are only copied; logging and argument parsing; the data race on
`_piecesFinished` beyond reading the old or the new value; HAVE as a change of what
a peer has (the code ignores the message, which `Wire` shows it to read past); a
block's position in the file below the block (data that is no whole block appears
there as `Part`); build files and tests.

## 6. Plan

Done, in order: the manager and its proofs, the sessions on top, the
refinement of the manager, the orchestrator, the parser, the startup; then the
abstract specifications `Completion` and `BlockLease` with their refinements,
the whole run composed in `Client` with the printing thread, and the bytes on the
wire; then the theorems about leases, the whole run, the framing, and the parser's
round trip. Left:

1. Messages for piece indices beyond the torrent, where the code indexes its
   vectors without a check.
2. A reference grammar for the texts `parse` accepts.
