-------------------------------- MODULE Wire --------------------------------
(***************************************************************************)
(* The bytes between a session and its peer: doHandshake() and the framing *)
(* of run() in src/src/app/peer_session.cpp, the handshake's layout in     *)
(* src/src/core/peer_communicator.cpp.  PeerSession takes messages as      *)
(* given; here they are made of what the connection delivers, byte by      *)
(* byte, until the peer closes it at any place.                            *)
(*                                                                         *)
(* The peer is external.  It sends a handshake and messages laid out as    *)
(* the protocol says.  What the manager makes of a block, and what a       *)
(* session does besides reading and writing, is PeerSession's.             *)
(***************************************************************************)
EXTENDS Bytes, SequencesExt

CONSTANTS
  Protocol,   \* the 19 bytes of msg::PROTOCOL
  InfoHash,   \* the torrent's hash
  PeerId,     \* the client's id
  Scripts,    \* what peers may send: [handshake, messages]
  Requests    \* the blocks requestBlock will hand to this session, in order

Repeat(byte, n) == [i \in 1 .. n |-> byte]

HandshakeLength == 68

VARIABLES
  script,    \* what this peer sends
  stream,    \* its bytes
  arrived,   \* how many of them the connection has delivered
  closed,    \* the connection is closed
  pc,        \* what the coroutine does next: "hello", or wait in async_read for
             \* a "handshake", a "length", a "body", or "done"
  taken,     \* bytes of the stream that its reads have consumed
  length,    \* run()'s len
  verdict,   \* what verifyHandshake returned, in a set, empty before
  handled,   \* calls of _handleMessage, decoded as far as it does
  sent,      \* the client's bytes
  meant      \* the messages the client put into them

peerVars == <<script, stream, arrived, closed>>
wireVars == <<peerVars, pc, taken, length, verdict, handled, sent, meant>>

-----------------------------------------------------------------------------
(* Layouts *)

\* struct HandshakePacket.
Packed(h) == <<h.pstrlen>> \o h.pstr \o h.reserved \o h.infoHash \o h.peerId

\* serializeHandshake.
OwnHandshake ==
  [pstrlen |-> 19, pstr |-> Protocol, reserved |-> Repeat(0, 8),
   infoHash |-> InfoHash, peerId |-> PeerId]

\* A faulty variant: the hash is looked for where the reserved bytes are.
VerifyBeforeReserved(bytes) ==
  bytes[1] = 19 /\ Slice(bytes, 1, 19) = Protocol /\ Slice(bytes, 20, 20) = InfoHash

\* verifyHandshake.
VerifyHandshake(bytes) ==
  bytes[1] = 19 /\ Slice(bytes, 1, 19) = Protocol /\ Slice(bytes, 28, 20) = InfoHash

\* Message ids; a keep-alive has none.
KEEP_ALIVE == -1
UNCHOKE == 1
INTERESTED == 2
BITFIELD == 5
REQUEST == 6
PIECE == 7

\* A message is its id, its 32-bit fields and the bytes behind them.
Message(id, fields, data) == [id |-> id, fields |-> fields, data |-> data]

Payload(m) == FlattenSeq([i \in DOMAIN m.fields |-> WriteU32(m.fields[i])]) \o m.data

\* The protocol's frame: a length, an id, a payload.
Frame(m) ==
  IF m.id = KEEP_ALIVE THEN WriteU32(0)
  ELSE WriteU32(Len(Payload(m)) + 1) \o <<m.id>> \o Payload(m)

Frames(messages) == FlattenSeq([i \in DOMAIN messages |-> Frame(messages[i])])

ByteStrings(n) == {s \in Seq(Byte) : Len(s) = n}

\* struct HandshakePacket's values.
Handshakes ==
  [pstrlen : Byte, pstr : ByteStrings(19), reserved : ByteStrings(8),
   infoHash : ByteStrings(20), peerId : ByteStrings(20)]

\* The numbers write_u32 takes.
U32 == {n \in Nat : n \div 16777216 \in Byte}

\* A PIECE has two fields, or is cut short before the second.
CutShort(m) == m.id = PIECE /\ Len(Payload(m)) < 8

Messages ==
  {m \in [id : Byte \cup {KEEP_ALIVE}, fields : Seq(U32), data : Seq(Byte)] :
     /\ Len(Payload(m)) + 1 \in U32
     /\ m.id = PIECE => Len(m.fields) = 2 \/ CutShort(m)}

ASSUME WireAssumption ==
  /\ Protocol \in ByteStrings(19) /\ InfoHash \in ByteStrings(20)
  /\ PeerId \in ByteStrings(20)
  /\ \A s \in Scripts : s.handshake \in Handshakes /\ s.messages \in Seq(Messages)
  /\ Requests \in Seq([pieceIndex : U32, offset : U32, length : U32])

-----------------------------------------------------------------------------
(* The peer and the connection *)

WireInit ==
  /\ script \in Scripts
  /\ stream = Packed(script.handshake) \o Frames(script.messages)
  /\ arrived = 0
  /\ closed = FALSE
  /\ pc = "hello"
  /\ taken = 0
  /\ length = 0
  /\ verdict = {}
  /\ handled = << >>
  /\ sent = << >>
  /\ meant = << >>

Arrive ==
  /\ ~closed
  /\ arrived < Len(stream)
  /\ arrived' = arrived + 1
  /\ UNCHANGED <<script, stream, closed, pc, taken, length, verdict, handled, sent, meant>>

Close ==
  /\ ~closed
  /\ closed' = TRUE
  /\ UNCHANGED <<script, stream, arrived, pc, taken, length, verdict, handled, sent, meant>>

-----------------------------------------------------------------------------
(* Reading: async_read takes exactly the bytes asked for, or what is left of *)
(* a connection that is closed, with an error.                              *)

\* A faulty variant: a read that comes back with fewer bytes.
SomeAvailable(n) == arrived - taken >= n - 1

Available(n) == arrived - taken >= n

Fails(n) == closed /\ ~Available(n)

-----------------------------------------------------------------------------
(* doHandshake *)

\* A write on a closed connection may still be taken.
SendHandshake ==
  /\ pc = "hello"
  /\ sent' = Packed(OwnHandshake)
  /\ pc' = "handshake"
  /\ UNCHANGED <<peerVars, taken, length, verdict, handled, meant>>

\* After a failed write the answer is not read, and run() takes what is there
\* of it for messages.  It may be a whole one.
SendFails ==
  /\ pc = "hello"
  /\ closed
  /\ pc' = "length"
  /\ UNCHANGED <<peerVars, taken, length, verdict, handled, sent, meant>>

\* run() comes next whatever verifyHandshake says.
ReadHandshake ==
  /\ pc = "handshake"
  /\ Available(HandshakeLength)
  /\ verdict' = {VerifyHandshake(Slice(stream, taken, HandshakeLength))}
  /\ taken' = taken + HandshakeLength
  /\ pc' = "length"
  /\ UNCHANGED <<peerVars, length, handled, sent, meant>>

ReadHandshakeFails ==
  /\ pc = "handshake"
  /\ Fails(HandshakeLength)
  /\ taken' = arrived
  /\ pc' = "length"
  /\ UNCHANGED <<peerVars, length, verdict, handled, sent, meant>>

-----------------------------------------------------------------------------
(* run *)

\* A faulty variant: a message without a payload is skipped as a keep-alive is.
SkipsShort(n) == IF n <= 1 THEN "length" ELSE "body"

\* `continue` on a keep-alive.
AfterLength(n) == IF n = 0 THEN "length" ELSE "body"

\* _readMsgLen.
ReadMsgLen ==
  /\ pc = "length"
  /\ Available(4)
  /\ \E n \in ReadU32(Slice(stream, taken, 4), 0) : length' = n /\ pc' = AfterLength(n)
  /\ taken' = taken + 4
  /\ UNCHANGED <<peerVars, verdict, handled, sent, meant>>

\* A read error ends the session.
ReadFails ==
  /\ \/ pc = "length" /\ Fails(4)
     \/ pc = "body" /\ Fails(length)
  /\ pc' = "done"
  /\ taken' = arrived
  /\ UNCHANGED <<peerVars, length, verdict, handled, sent, meant>>

\* A faulty variant: the fields of a PIECE the other way round.
DecodeSwapped(id, payload) ==
  IF id = PIECE
  THEN {Message(id, fields, ReadRemaining(payload, 8)) :
          fields \in ReadU32(payload, 4) \X ReadU32(payload, 0)}
  ELSE {Message(id, << >>, payload)}

\* The messages _handleMessage makes of a payload: the two fields of a PIECE,
\* or none where the reader throws; the others' payloads stay as they are.
Decode(id, payload) ==
  IF id = PIECE
  THEN {Message(id, fields, ReadRemaining(payload, 8)) :
          fields \in ReadU32(payload, 0) \X ReadU32(payload, 4)}
  ELSE {Message(id, << >>, payload)}

\* A faulty variant: the length of the payload alone.
RequestWithoutId(block) ==
  WriteU32(12) \o <<REQUEST>> \o WriteU32(block.pieceIndex)
    \o WriteU32(block.offset) \o WriteU32(block.length)

\* _requestBlock's bytes.
RequestBytes(block) ==
  WriteU32(13) \o <<REQUEST>> \o WriteU32(block.pieceIndex)
    \o WriteU32(block.offset) \o WriteU32(block.length)

RequestMessage(block) ==
  Message(REQUEST, <<block.pieceIndex, block.offset, block.length>>, << >>)

Asked == Cardinality({i \in DOMAIN meant : meant[i].id = REQUEST})

\* The handshake went out.  A connection that refused it refuses every write.
Greeted == sent # << >>

\* The request loop: as many blocks as the manager has and the pipeline takes.
Fill ==
  \E n \in 0 .. Len(Requests) - Asked :
    LET blocks == SubSeq(Requests, Asked + 1, Asked + n)
    IN  /\ n > 0 => Greeted
        /\ sent' = sent \o FlattenSeq([i \in DOMAIN blocks |-> RequestBytes(blocks[i])])
        /\ meant' = meant \o [i \in DOMAIN blocks |-> RequestMessage(blocks[i])]

\* What a message is answered with.  A write that fails is not counted, nor
\* the part of it that may have left: nobody reads it any more.
Answer(id) ==
  CASE id \in {UNCHOKE, PIECE} -> Fill
    [] id = BITFIELD -> \/ /\ Greeted
                           /\ sent' = sent \o WriteU32(1) \o <<INTERESTED>>
                           /\ meant' = Append(meant, Message(INTERESTED, << >>, << >>))
                        \/ closed /\ UNCHANGED <<sent, meant>>
    [] OTHER -> UNCHANGED <<sent, meant>>

\* The whole body is there: its first byte is the id, the rest the payload.
ReadBody ==
  /\ pc = "body"
  /\ Available(length)
  /\ LET id      == stream[taken + 1]
         payload == Slice(stream, taken + 1, length - 1)
     IN  IF Decode(id, payload) = {}
         THEN pc' = "done" /\ UNCHANGED <<handled, sent, meant>>
         ELSE /\ \E m \in Decode(id, payload) : handled' = Append(handled, m)
              /\ Answer(id)
              /\ pc' = "length"
  /\ taken' = taken + length
  /\ UNCHANGED <<peerVars, length, verdict>>

-----------------------------------------------------------------------------
Session ==
  \/ SendHandshake \/ SendFails \/ ReadHandshake \/ ReadHandshakeFails
  \/ ReadMsgLen \/ ReadBody \/ ReadFails

WireNext == Session \/ Arrive \/ Close

\* The connection delivers what was sent, and the session goes on reading.
WireSpec ==
  WireInit /\ [][WireNext]_wireVars /\ WF_wireVars(Session) /\ WF_wireVars(Arrive)

-----------------------------------------------------------------------------
(* Properties *)

WireTypeOK ==
  /\ arrived \in 0 .. Len(stream)
  /\ taken \in 0 .. arrived
  /\ pc \in {"hello", "handshake", "length", "body", "done"}
  /\ length \in Nat
  /\ \A i \in DOMAIN sent : sent[i] \in Byte

\* A message as the session is to see it.
SeenAs(m) == IF m.id = PIECE THEN m ELSE Message(m.id, << >>, Payload(m))

\* What message i is to be handled as: not at all if the code skips it, or if
\* a PIECE too short to decode has ended the session.
Heard(i) ==
  LET m == script.messages[i]
  IN  IF m.id = KEEP_ALIVE \/ \E j \in 1 .. i : CutShort(script.messages[j])
      THEN << >> ELSE <<SeenAs(m)>>

Readable == FlattenSeq([i \in DOMAIN script.messages |-> Heard(i)])

\* Wherever the connection is cut once the handshake went out, the session
\* handles the messages the peer sent, in their order and with their fields, and
\* nothing else: no part of one, and no part of a handshake that was cut off.
\* After a handshake that failed to go out nothing of the kind holds: the peer's
\* own handshake is then read as messages.
HandledAreSent == Greeted => IsPrefix(handled, Readable)

\* A session's peer is verified exactly when it speaks the protocol and serves
\* the torrent, whatever its reserved bytes and its id are, and however its
\* handshake arrived.
VerifiedIsTheSameTorrent ==
  \A v \in verdict :
    v <=> /\ script.handshake.pstrlen = 19
          /\ script.handshake.pstr = Protocol
          /\ script.handshake.infoHash = InfoHash

\* A peer that reads the client's bytes by the protocol gets a handshake it
\* verifies and the very messages the client meant: the lengths written by
\* hand fit, the fields are in order, and nothing is between them.
PeerUnderstands ==
  Greeted =>
    /\ VerifyHandshake(Slice(sent, 0, HandshakeLength))
    /\ sent = Packed(OwnHandshake) \o Frames(meant)

\* A peer that keeps the connection open is heard out: every message is handled
\* in the end, unless one of them made the session throw.
EverythingIsHandled ==
  []~closed => <>(handled = Readable)
=============================================================================
