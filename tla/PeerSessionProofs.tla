------------------------- MODULE PeerSessionProofs -------------------------
(***************************************************************************)
(* Theorems about the sessions on top of the manager, for every number of  *)
(* peers, every pipeline size and every set of faults.                     *)
(***************************************************************************)
EXTENDS PeerSession, PieceManagerProofs

-----------------------------------------------------------------------------
(* Facts about blocks, sets of blocks and the room they leave *)

\* A torrent has finitely many blocks.
LEMMA BlockIsFinite == IsFiniteSet(Block)
  <1>1. \A p \in Pieces : IsFiniteSet({p} \X Blocks(p))
    <2> SUFFICES ASSUME NEW p \in Pieces
                 PROVE  IsFiniteSet({p} \X Blocks(p))
      OBVIOUS
    <2>1. IsFiniteSet({p})
      BY FS_Singleton
    <2>2. IsFiniteSet(Blocks(p))
      BY SettledFacts
    <2>3. QED
      BY <2>1, <2>2, FS_Product
  <1>2. IsFiniteSet({{p} \X Blocks(p) : p \in Pieces})
    <2> DEFINE f == [p \in Pieces |-> {p} \X Blocks(p)]
    <2>1. f \in Surjection(Pieces, {{p} \X Blocks(p) : p \in Pieces})
      BY DEF Surjection
    <2>2. QED
      BY <2>1, PiecesFacts, FS_Surjection DEF ExistsSurjection
  <1>3. \A S \in {{p} \X Blocks(p) : p \in Pieces} : IsFiniteSet(S)
    BY <1>1
  <1>4. QED
    BY <1>2, <1>3, FS_UNION DEF Block

\* Sets of blocks have a size; adding a block adds at most one, and taking
\* some out adds nothing.
LEMMA BlockSetFacts ==
  ASSUME NEW held \in SUBSET Block
  PROVE  /\ IsFiniteSet(held)
         /\ Cardinality(held) \in Nat
         /\ \A blk \in Block : Cardinality(held \cup {blk}) <= Cardinality(held) + 1
         /\ \A gone : /\ Cardinality(held \ gone) <= Cardinality(held)
                      /\ Cardinality(held \ gone) \in Nat
  <1>1. IsFiniteSet(held) /\ Cardinality(held) \in Nat
    BY BlockIsFinite, FS_Subset, FS_CardinalityType
  <1>2. ASSUME NEW blk \in Block
        PROVE  Cardinality(held \cup {blk}) <= Cardinality(held) + 1
    <2>1. Cardinality(held \cup {blk}) =
            IF blk \in held THEN Cardinality(held) ELSE Cardinality(held) + 1
      BY <1>1, FS_AddElement, Zenon
    <2>2. QED
      BY <1>1, <2>1
  <1>3. ASSUME NEW gone
        PROVE  /\ Cardinality(held \ gone) <= Cardinality(held)
               /\ Cardinality(held \ gone) \in Nat
    <2>1. /\ Cardinality(held \ gone) <= Cardinality(held)
          /\ IsFiniteSet(held \ gone)
      BY <1>1, FS_Subset
    <2>2. QED
      BY <2>1, FS_CardinalityType
  <1>4. QED
    BY <1>1, <1>2, <1>3

\* Room never asks for more than the pipeline takes.
LEMMA RoomFacts ==
  ASSUME NEW held \in SUBSET Block, Cardinality(held) <= MaxPipeline
  PROVE  /\ Room(held) \in 0 .. MaxPipeline
         /\ Cardinality(held) + Room(held) <= MaxPipeline
  BY BlockSetFacts, SessionAssumption DEF Room

-----------------------------------------------------------------------------
(* The sessions' own state *)

\* The fields of one session: the request loop only runs with iterations
\* left, it writes one block at a time, and what it holds and has yet to
\* request fits the pipeline.
SessionOK(r) ==
  /\ r \in SessionRecord
  /\ \E blk \in Block : r.current \subseteq {blk}
  /\ r.pc \in {"fill", "write"} => r.needed > 0
  /\ Cardinality(r.held) + r.needed <= MaxPipeline

SessionsOK ==
  /\ session \in [Sessions -> SessionRecord]
  /\ \A s \in Sessions : SessionOK(session[s])

\* Block is not empty.
LEMMA SomeBlock == \E blk \in Block : TRUE
  <1>1. 0 \in Pieces
    BY GeometryAssumption DEF Pieces
  <1>2. 0 \in Blocks(0)
    BY <1>1, BlocksFacts
  <1>3. QED
    BY <1>1, <1>2, BlockFacts

\* A session starts out good, and so does what is left of one that ended.
LEMMA NewSessionOK == SessionOK(NewSession) /\ SessionOK(EndedSession)
  <1>1. 0 \in 0 .. MaxPipeline
    BY SessionAssumption
  <1>2. NewSession \in SessionRecord
    BY <1>1 DEF NewSession, SessionRecord, Pcs, States
  <1>3. EndedSession \in SessionRecord
    BY <1>1 DEF NewSession, EndedSession, SessionRecord, Pcs, States
  <1>4. ASSUME NEW r \in {NewSession, EndedSession}
        PROVE  /\ r.current = {}
               /\ r.pc \notin {"fill", "write"}
               /\ r.held = {}
               /\ r.needed = 0
    BY DEF NewSession, EndedSession
  <1>5. Cardinality({}) + 0 <= MaxPipeline
    BY FS_EmptySet, SessionAssumption
  <1>6. QED
    BY <1>2, <1>3, <1>4, <1>5, SomeBlock DEF SessionOK

\* Replacing one session by a good one keeps all good.
LEMMA OneSession ==
  ASSUME SessionsOK, NEW s \in Sessions, NEW r, SessionOK(r),
         session' = [session EXCEPT ![s] = r]
  PROVE  SessionsOK'
  BY DEF SessionsOK, SessionOK

\* Where the request loop stands is consistent with its counter.
LEMMA LoopPcFacts ==
  ASSUME NEW n \in Int
  PROVE  /\ LoopPc(n) \in {"fill", "read"}
         /\ LoopPc(n) = "fill" => n > 0
  BY DEF LoopPc

-----------------------------------------------------------------------------
(* What may arrive, by what the session does with it *)

\* A bitfield message, with the peer's own pieces where peers keep to the
\* protocol.
Bitfields(s) ==
  \E loads \in BOOLEAN : \E bits \in SUBSET Pieces :
    /\ ReceiveBitfield(s, loads, bits)
    /\ "unasked" \in Faults \/ bits \subseteq PeerHas[s]

\* The peer's queue stays or loses one block.
QueueShrinks(s) ==
  asked' = asked \/ \E blk \in asked[s] : asked' = [asked EXCEPT ![s] = @ \ {blk}]

\* A PIECE message that reaches out of its piece.
Overruns(s) ==
  /\ Faults \cap {"corrupt", "unasked"} # {}
  /\ QueueShrinks(s)
  /\ \E p \in Pieces : ReceiveOverrun(s, p)

\* The data is the block it begins with.
IsRight(d) == ~d.inside /\ d.bytes = <<d.first>>

\* A PIECE message within its piece.  It answers a request, unless peers send
\* what nobody asked for.
Gives(s, p, d) ==
  /\ ReceivePiece(s, p, d)
  /\ QueueShrinks(s)
  /\ "unasked" \notin Faults =>
       /\ <<p, d.first>> \in asked[s]
       /\ "corrupt" \notin Faults => IsRight(d)
       /\ "repeat" \notin Faults =>
            asked' = [asked EXCEPT ![s] = @ \ {<<p, d.first>>}]

LEMMA Arrivals ==
  ASSUME NEW s \in Sessions, PeerServes(s) \/ Disturbance(s)
  PROVE  \/ HandshakeThrows(s) \/ Break(s) \/ Bitfields(s) \/ ReceiveUnchoke(s)
         \/ ReceiveChoke(s) /\ "choke" \in Faults
         \/ ReceiveShortPiece(s) /\ "short" \in Faults
         \/ Overruns(s)
         \/ \E p \in Pieces : \E d \in AnswersTo[p] : Gives(s, p, d)
  <1>1. CASE SendsBitfield(s)
    <2>1. PeerHas[s] \in SUBSET Pieces /\ {} \in SUBSET Pieces
      BY SessionAssumption
    <2>2. QED
      BY <1>1, <2>1 DEF SendsBitfield, Bitfields
  <1>2. ASSUME NEW blk \in Block, SendsAnswer(s, blk)
        PROVE  Overruns(s) \/ \E p \in Pieces : \E d \in AnswersTo[p] : Gives(s, p, d)
    <2>1. /\ blk \in asked[s]
          /\ blk[1] \in Pieces
          /\ QueueShrinks(s)
          /\ "repeat" \notin Faults => asked' = [asked EXCEPT ![s] = @ \ {blk}]
      BY <1>2, BlockFacts DEF SendsAnswer, QueueShrinks
    <2>2. CASE "corrupt" \in Faults /\ ReceiveOverrun(s, blk[1])
      BY <2>1, <2>2 DEF Overruns
    <2>3. ASSUME NEW d \in AnswersFor(blk), ReceivePiece(s, blk[1], d)
          PROVE  d \in AnswersTo[blk[1]] /\ Gives(s, blk[1], d)
      <3>1. /\ d \in AnswersTo[blk[1]]
            /\ Answered(blk[1], d) = {blk}
            /\ d.bytes = <<blk[2]>> \/ "corrupt" \in Faults
        BY DEF AnswersFor
      <3>2. d.inside \in BOOLEAN
        BY <2>1, <3>1, AnswerFacts
      <3>3. ~d.inside /\ blk = <<blk[1], d.first>>
        BY <3>1, <3>2 DEF Answered
      <3>4. "corrupt" \notin Faults => IsRight(d)
        BY <3>1, <3>3 DEF IsRight
      <3>5. QED
        BY <2>1, <2>3, <3>1, <3>3, <3>4 DEF Gives
    <2>4. QED
      BY <1>2, <2>1, <2>2, <2>3 DEF SendsAnswer
  <1>3. CASE SendsUnasked(s)
    <2>1. CASE ReceiveUnchoke(s)
      BY <2>1
    <2>2. CASE \E bits \in SUBSET Pieces : ReceiveBitfield(s, TRUE, bits)
      BY <1>3, <2>2 DEF SendsUnasked, Bitfields
    <2>3. ASSUME UNCHANGED asked, NEW p \in Pieces, ReceiveOverrun(s, p)
          PROVE  Overruns(s)
      BY <1>3, <2>3 DEF SendsUnasked, Overruns, QueueShrinks
    <2>4. ASSUME UNCHANGED asked, NEW p \in Pieces, NEW d \in AnswersTo[p],
                 ReceivePiece(s, p, d)
          PROVE  Gives(s, p, d)
      BY <1>3, <2>4 DEF SendsUnasked, Gives, QueueShrinks
    <2>5. QED
      BY <1>3, <2>1, <2>2, <2>3, <2>4 DEF SendsUnasked
  <1>4. QED
    BY <1>1, <1>2, <1>3 DEF PeerServes, Disturbance, SendsUnchoke, SendsChoke,
       SendsShortPiece

\* What a bitfield message changes of a session.
LEMMA BitfieldMoves ==
  ASSUME SessionsOK, NEW s \in Sessions, Bitfields(s)
  PROVE  \E ok \in BOOLEAN, bits \in SUBSET Pieces :
           /\ session' = [session EXCEPT
                ![s] = [session[s] EXCEPT !.loaded = ok, !.has = bits,
                                          !.state = "READY"]]
           /\ "unasked" \in Faults \/ bits \subseteq PeerHas[s] \cup session[s].has
  <1> DEFINE r == session[s]
  <1>1. PICK loads \in BOOLEAN, new \in SUBSET Pieces :
          /\ ReceiveBitfield(s, loads, new)
          /\ "unasked" \in Faults \/ new \subseteq PeerHas[s]
    BY DEF Bitfields
  <1>2. r \in SessionRecord
    BY DEF SessionsOK
  <1> DEFINE ok == loads \/ r.loaded
             bits == IF loads THEN new ELSE r.has
  <1>3. session' = [session EXCEPT ![s] = [r EXCEPT !.loaded = ok, !.has = bits,
                                                    !.state = "READY"]]
    BY <1>1 DEF ReceiveBitfield, Loaded, SessionsOK
  <1>4. ok \in BOOLEAN /\ bits \in SUBSET Pieces
    BY <1>2 DEF SessionRecord
  <1>5. "unasked" \in Faults \/ bits \subseteq PeerHas[s] \cup r.has
    BY <1>1
  <1> HIDE DEF ok, bits
  <1>6. QED
    BY <1>3, <1>4, <1>5

-----------------------------------------------------------------------------
(* Each step keeps the sessions' records *)

\* Connecting, handshaking, the bitfield, CHOKE, and the lost connections:
\* nothing of the pipeline changes.
LEMMA PipelineUntouched ==
  ASSUME SessionsOK, NEW s \in Sessions,
         \/ Connect(s) \/ Handshake(s) \/ HandshakeThrows(s) \/ Break(s)
         \/ Bitfields(s) \/ ReceiveChoke(s) \/ ReceiveShortPiece(s)
         \/ Overruns(s) \/ FillWithoutBitfield(s)
  PROVE  SessionsOK'
  <1> DEFINE r == session[s]
  <1>1. SessionOK(r) /\ r \in SessionRecord
    BY DEF SessionsOK
  <1>2. CASE Connect(s)
    <2>1. session' = [session EXCEPT ![s] = [r EXCEPT !.pc = "handshake",
                                                      !.state = "HANDSHAKING"]]
      BY <1>2 DEF Connect, SessionsOK
    <2>2. SessionOK([r EXCEPT !.pc = "handshake", !.state = "HANDSHAKING"])
      BY <1>1 DEF SessionOK, SessionRecord, Pcs, States
    <2>3. QED
      BY <2>1, <2>2, OneSession
  <1>3. CASE Handshake(s)
    <2>1. session' = [session EXCEPT ![s] = [r EXCEPT !.pc = "read",
                                                      !.state = "BITFIELD_WAIT"]]
      BY <1>3 DEF Handshake, SessionsOK
    <2>2. SessionOK([r EXCEPT !.pc = "read", !.state = "BITFIELD_WAIT"])
      BY <1>1 DEF SessionOK, SessionRecord, Pcs, States
    <2>3. QED
      BY <2>1, <2>2, OneSession
  <1>4. CASE HandshakeThrows(s) \/ ReceiveShortPiece(s)
    BY <1>4, NewSessionOK, OneSession DEF HandshakeThrows, ReceiveShortPiece
  <1>5. CASE Break(s) \/ Overruns(s) \/ FillWithoutBitfield(s)
    BY <1>5 DEF Break, Overruns, ReceiveOverrun, FillWithoutBitfield, SessionsOK
  <1>6. CASE Bitfields(s)
    <2>1. PICK ok \in BOOLEAN, bits \in SUBSET Pieces :
            session' = [session EXCEPT ![s] = [r EXCEPT !.loaded = ok,
                                                        !.has = bits,
                                                        !.state = "READY"]]
      BY <1>1, <1>6, BitfieldMoves
    <2>2. SessionOK([r EXCEPT !.loaded = ok, !.has = bits, !.state = "READY"])
      BY <1>1 DEF SessionOK, SessionRecord, Pcs, States
    <2>3. QED
      BY <2>1, <2>2, OneSession
  <1>7. CASE ReceiveChoke(s)
    <2>1. session' = [session EXCEPT ![s] = [r EXCEPT !.choking = TRUE]]
      BY <1>7 DEF ReceiveChoke, SessionsOK
    <2>2. SessionOK([r EXCEPT !.choking = TRUE])
      BY <1>1 DEF SessionOK, SessionRecord
    <2>3. QED
      BY <2>1, <2>2, OneSession
  <1>8. QED
    BY <1>2, <1>3, <1>4, <1>5, <1>6, <1>7

\* The pipeline is refilled to MAX_PIPELINE_SIZE, never beyond.
LEMMA PipelineRefilled ==
  ASSUME SessionsOK, NEW s \in Sessions,
         ReceiveUnchoke(s) \/ \E p \in Pieces : \E d \in AnswersTo[p] : Gives(s, p, d)
  PROVE  SessionsOK'
  <1> DEFINE r == session[s]
  <1>1. SessionOK(r) /\ r \in SessionRecord
    BY DEF SessionsOK
  <1>2. /\ r.held \in SUBSET Block
        /\ Cardinality(r.held) \in Nat
        /\ r.needed \in Nat
        /\ MaxPipeline \in Nat
        /\ Cardinality(r.held) <= MaxPipeline
    <2>1. r.held \in SUBSET Block /\ r.needed \in Nat
      BY <1>1, SessionAssumption DEF SessionRecord
    <2>2. QED
      BY <1>1, <2>1, BlockSetFacts, SessionAssumption DEF SessionOK
  <1>3. ASSUME NEW held \in SUBSET Block, Cardinality(held) <= MaxPipeline,
               NEW choking \in BOOLEAN
        PROVE  SessionOK([r EXCEPT !.held = held, !.choking = choking,
                                   !.needed = Room(held),
                                   !.pc = LoopPc(Room(held))])
    <2>1. /\ Room(held) \in 0 .. MaxPipeline
          /\ Cardinality(held) + Room(held) <= MaxPipeline
      BY <1>3, RoomFacts
    <2>2. /\ LoopPc(Room(held)) \in Pcs \ {"write"}
          /\ LoopPc(Room(held)) = "fill" => Room(held) > 0
      BY <2>1, LoopPcFacts, SessionAssumption DEF Pcs
    <2> DEFINE n == Room(held)
               pc == LoopPc(Room(held))
    <2> HIDE DEF n, pc
    <2>3. SessionOK([r EXCEPT !.held = held, !.choking = choking,
                              !.needed = n, !.pc = pc])
      BY <1>1, <2>1, <2>2 DEF SessionOK, SessionRecord, n, pc
    <2>4. QED
      BY <2>3 DEF n, pc
  <1>4. CASE ReceiveUnchoke(s)
    <2>1. session' = [session EXCEPT
            ![s] = [r EXCEPT !.held = r.held, !.choking = FALSE,
                             !.needed = Room(r.held),
                             !.pc = LoopPc(Room(r.held))]]
      BY <1>1, <1>4 DEF ReceiveUnchoke, SessionsOK, SessionRecord
    <2>2. QED
      BY <1>2, <1>3, <2>1, OneSession
  <1>5. ASSUME NEW p \in Pieces, NEW d \in AnswersTo[p], Gives(s, p, d)
        PROVE  SessionsOK'
    <2> DEFINE gone == Answered(p, d)
    <2>1. \/ Refill(s, gone)
          \/ UNCHANGED session
          \/ session' = [session EXCEPT ![s] = EndedSession]
      BY <1>5 DEF Gives, ReceivePiece
    <2> HIDE DEF gone
    <2>2. CASE Refill(s, gone)
      <3> DEFINE held == r.held \ gone
      <3>1. held \in SUBSET Block /\ Cardinality(held) <= MaxPipeline
        <4>1. /\ Cardinality(r.held \ gone) <= Cardinality(r.held)
              /\ Cardinality(r.held \ gone) \in Nat
          BY <1>2, BlockSetFacts
        <4>2. Cardinality(held) <= MaxPipeline
          BY <1>2, <4>1
        <4>3. held \in SUBSET Block
          BY <1>2
        <4>4. QED
          BY <4>2, <4>3
      <3>2. session' = [session EXCEPT
              ![s] = [r EXCEPT !.held = held, !.choking = r.choking,
                               !.needed = Room(held),
                               !.pc = LoopPc(Room(held))]]
        BY <1>1, <2>2 DEF Refill, SessionsOK, SessionRecord
      <3>3. r.choking \in BOOLEAN
        BY <1>1 DEF SessionRecord
      <3>4. QED
        BY <1>3, <3>1, <3>2, <3>3, OneSession
    <2>3. CASE UNCHANGED session
      BY <2>3 DEF SessionsOK
    <2>4. QED
      BY <2>1, <2>2, <2>3, NewSessionOK, OneSession
  <1>6. QED
    BY <1>4, <1>5

\* One iteration of the request loop: a block joins what is held only as one
\* iteration less is left.
LEMMA PipelineLoop ==
  ASSUME SessionsOK, NEW s \in Sessions,
         Fill(s) \/ WriteSucceeds(s) \/ WriteFails(s)
  PROVE  SessionsOK'
  <1> DEFINE r == session[s]
             n == r.needed - 1
  <1>1. SessionOK(r) /\ r \in SessionRecord
    BY DEF SessionsOK
  <1>2. /\ r.held \in SUBSET Block
        /\ Cardinality(r.held) \in Nat
        /\ r.needed \in Nat
        /\ MaxPipeline \in Nat
        /\ r.pc \in {"fill", "write"}
        /\ r.needed > 0
        /\ Cardinality(r.held) + r.needed <= MaxPipeline
    <2>1. r.held \in SUBSET Block /\ r.needed \in Nat
      BY <1>1, SessionAssumption DEF SessionRecord
    <2>2. r.pc \in {"fill", "write"}
      BY DEF Fill, WriteSucceeds, WriteFails, At
    <2>3. QED
      BY <1>1, <2>1, <2>2, BlockSetFacts, SessionAssumption DEF SessionOK
  <1>3. /\ n \in 0 .. MaxPipeline
        /\ LoopPc(n) \in {"fill", "read"}
        /\ LoopPc(n) = "fill" => n > 0
    BY <1>2, LoopPcFacts
  <1>4. PICK c \in Block : r.current \subseteq {c}
    BY <1>1 DEF SessionOK
  <1>5. CASE Fill(s)
    <2>1. CASE session' = [session EXCEPT ![s] = [r EXCEPT !.needed = n,
                                                           !.pc = LoopPc(n)]]
      <3> DEFINE pc == LoopPc(n)
      <3> HIDE DEF n, pc
      <3>1. /\ n \in 0 .. MaxPipeline
            /\ pc \in {"fill", "read"}
            /\ pc = "fill" => n > 0
            /\ Cardinality(r.held) + n <= MaxPipeline
        BY <1>2, <1>3 DEF n, pc
      <3>2. SessionOK([r EXCEPT !.needed = n, !.pc = pc])
        BY <1>1, <3>1 DEF SessionOK, SessionRecord, Pcs
      <3>3. QED
        BY <2>1, <3>2, OneSession DEF n, pc
    <2>2. CASE \E blk \in Block :
                 session' = [session EXCEPT ![s] = [r EXCEPT !.current = {blk},
                                                             !.pc = "write"]]
      <3>1. PICK blk \in Block :
                 session' = [session EXCEPT ![s] = [r EXCEPT !.current = {blk},
                                                             !.pc = "write"]]
        BY <2>2
      <3>2. SessionOK([r EXCEPT !.current = {blk}, !.pc = "write"])
        BY <1>1, <1>2 DEF SessionOK, SessionRecord, Pcs
      <3>3. QED
        BY <3>1, <3>2, OneSession
    <2>3. QED
      BY <1>5, <2>1, <2>2 DEF Fill, SessionsOK
  <1>6. CASE WriteSucceeds(s)
    <2> DEFINE held == r.held \cup r.current
               pc == LoopPc(n)
    <2>1. /\ held \in SUBSET Block
          /\ Cardinality(held) + n <= MaxPipeline
      <3>1. held = r.held \/ held = r.held \cup {c}
        BY <1>4
      <3> HIDE DEF held
      <3>2. Cardinality(held) <= Cardinality(r.held) + 1
        <4>1. Cardinality(r.held \cup {c}) <= Cardinality(r.held) + 1
          BY <1>2, BlockSetFacts
        <4>2. Cardinality(r.held) <= Cardinality(r.held) + 1
          BY <1>2
        <4>3. QED
          BY <3>1, <4>1, <4>2
      <3>3. held \in SUBSET Block
        BY <1>2, <3>1
      <3>4. Cardinality(held) \in Nat
        BY <3>3, BlockSetFacts
      <3>5. QED
        BY <1>2, <3>2, <3>3, <3>4
    <2>2. session' = [session EXCEPT ![s] = [r EXCEPT !.held = held,
                                                      !.current = {},
                                                      !.needed = n, !.pc = pc]]
      BY <1>6 DEF WriteSucceeds, SessionsOK
    <2> HIDE DEF held, n, pc
    <2>3. /\ n \in 0 .. MaxPipeline
          /\ pc \in {"fill", "read"}
          /\ pc = "fill" => n > 0
      BY <1>3 DEF n, pc
    <2>4. SessionOK([r EXCEPT !.held = held, !.current = {}, !.needed = n,
                              !.pc = pc])
      BY <1>1, <1>4, <2>1, <2>3 DEF SessionOK, SessionRecord, Pcs
    <2>5. QED
      BY <2>2, <2>4, OneSession
  <1>7. CASE WriteFails(s)
    <2> DEFINE pc == ReturnPc(s, LoopPc(n))
    <2>1. session' = [session EXCEPT ![s] = [r EXCEPT !.current = {},
                                                      !.needed = n,
                                                      !.toReturn = r.held,
                                                      !.pc = pc]]
      BY <1>7 DEF WriteFails, SessionsOK
    <2>2. /\ pc \in {"fill", "read", "returning"}
          /\ pc = "fill" => n > 0
      BY <1>3 DEF ReturnPc
    <2> HIDE DEF n, pc
    <2>3. /\ n \in 0 .. MaxPipeline
          /\ Cardinality(r.held) + n <= MaxPipeline
      BY <1>2, <1>3 DEF n
    <2>4. SessionOK([r EXCEPT !.current = {}, !.needed = n,
                              !.toReturn = r.held, !.pc = pc])
      BY <1>1, <1>2, <1>4, <2>2, <2>3 DEF SessionOK, SessionRecord, Pcs
    <2>5. QED
      BY <2>1, <2>4, OneSession
  <1>8. QED
    BY <1>5, <1>6, <1>7

\* Giving blocks back leaves the session's set as it is.
LEMMA PipelineReturned ==
  ASSUME SessionsOK, NEW s \in Sessions, ReadFails(s) \/ Returning(s)
  PROVE  SessionsOK'
  <1> DEFINE r == session[s]
  <1>1. SessionOK(r) /\ r \in SessionRecord
    BY DEF SessionsOK
  <1>2. r.held \in SUBSET Block /\ r.toReturn \in SUBSET Block /\ r.needed \in Int
    BY <1>1, SessionAssumption DEF SessionRecord
  <1>3. CASE ReadFails(s)
    <2>1. SessionOK([r EXCEPT !.state = "ERROR", !.toReturn = r.held,
                              !.pc = "returning"])
      BY <1>1, <1>2 DEF SessionOK, SessionRecord, Pcs, States
    <2>2. \/ session' = [session EXCEPT ![s] = EndedSession]
          \/ session' = [session EXCEPT
               ![s] = [r EXCEPT !.state = "ERROR", !.toReturn = r.held,
                                !.pc = "returning"]]
      BY <1>3 DEF ReadFails, SessionsOK
    <2>3. QED
      BY <2>1, <2>2, NewSessionOK, OneSession
  <1>4. CASE Returning(s)
    <2>1. PICK blk \in r.toReturn :
            session' = [session EXCEPT
              ![s] = IF r.toReturn = {blk} THEN AfterReturn(s)
                     ELSE [r EXCEPT !.toReturn = r.toReturn \ {blk}]]
      BY <1>4 DEF Returning, SessionsOK
    <2>2. SessionOK([r EXCEPT !.toReturn = r.toReturn \ {blk}])
      BY <1>1, <1>2 DEF SessionOK, SessionRecord
    <2>3. SessionOK([r EXCEPT !.toReturn = {}, !.pc = LoopPc(r.needed)])
      <3> DEFINE pc == LoopPc(r.needed)
      <3>1. pc \in {"fill", "read"} /\ (pc = "fill" => r.needed > 0)
        BY <1>2, LoopPcFacts
      <3> HIDE DEF pc
      <3>2. SessionOK([r EXCEPT !.toReturn = {}, !.pc = pc])
        BY <1>1, <3>1 DEF SessionOK, SessionRecord, Pcs
      <3>3. QED
        BY <3>2 DEF pc
    <2>4. SessionOK(AfterReturn(s))
      BY <2>3, NewSessionOK DEF AfterReturn
    <2>5. QED
      BY <2>1, <2>2, <2>4, OneSession
  <1>5. QED
    BY <1>3, <1>4

\* The sessions' invariant holds of every reachable state.
THEOREM SessionsInvariant == PSSpec => []SessionsOK
  <1>1. PSInit => SessionsOK
    BY NewSessionOK DEF PSInit, SessionsOK, SessionOK
  <1>2. SessionsOK /\ [PSNext]_psVars => SessionsOK'
    <2>1. CASE UNCHANGED psVars
      BY <2>1 DEF psVars, SessionsOK
    <2>2. CASE PSNext
      BY <2>2, Arrivals, PipelineUntouched, PipelineRefilled, PipelineLoop,
         PipelineReturned
         DEF PSNext, SessionStep
    <2>3. QED
      BY <2>1, <2>2
  <1>3. QED
    BY <1>1, <1>2, PTL DEF PSSpec

\* However the messages and failures interleave, no session exceeds
\* MAX_PIPELINE_SIZE.
THEOREM PipelineStaysBounded == PSSpec => []PipelineIsBounded
  <1>1. SessionsOK => PipelineIsBounded
    BY DEF SessionsOK, SessionOK, PipelineIsBounded
  <1>2. QED
    BY <1>1, SessionsInvariant, PTL

-----------------------------------------------------------------------------
(* The sessions drive the manager as its specification allows *)

\* A PIECE message is one delivery.
LEMMA PieceIsDelivery ==
  ASSUME NEW s \in Sessions
  PROVE  /\ Overruns(s) => Deliver
         /\ \A p \in Pieces : \A d \in AnswersTo[p] : Gives(s, p, d) => Deliver
  <1>1. Overruns(s) => Deliver
    BY DEF Overruns, ReceiveOverrun, Deliver
  <1>2. ASSUME NEW p \in Pieces, NEW d \in AnswersTo[p], Gives(s, p, d)
        PROVE  Deliver
    <2>1. Accepted(p, d) \/ Refused(p, d) \/ DeliverThrows(p, d)
      BY <1>2 DEF Gives, ReceivePiece
    <2>2. QED
      BY <2>1 DEF Deliver, Accepted, Refused
  <1>3. QED
    BY <1>1, <1>2

\* Each step of the composition is a step of the manager or leaves it alone.
LEMMA StepIsManagerStep ==
  ASSUME SessionsOK, PSNext
  PROVE  [PMNext]_pmVars
  <1>1. PICK s \in Sessions : SessionStep(s) \/ PeerServes(s) \/ Disturbance(s)
    BY DEF PSNext
  <1>2. CASE Connect(s) \/ Handshake(s) \/ HandshakeThrows(s) \/ Break(s)
             \/ Bitfields(s) \/ ReceiveUnchoke(s) \/ ReceiveChoke(s)
             \/ ReceiveShortPiece(s)
    BY <1>2 DEF Connect, Handshake, HandshakeThrows, Break, Bitfields, ReceiveBitfield,
       ReceiveUnchoke, ReceiveChoke, ReceiveShortPiece
  <1>3. CASE FillWithoutBitfield(s) \/ WriteSucceeds(s) \/ WriteFails(s)
             \/ ReadFails(s)
    BY <1>3 DEF FillWithoutBitfield, WriteSucceeds, WriteFails, ReadFails
  <1>4. CASE Overruns(s) \/ \E p \in Pieces : \E d \in AnswersTo[p] : Gives(s, p, d)
    BY <1>4, PieceIsDelivery DEF PMNext
  <1>5. CASE Fill(s)
    <2>1. session[s].has \in SUBSET Pieces
      BY DEF SessionsOK, SessionRecord
    <2>2. \/ \E blk \in Block : RequestBlock(session[s].has, blk)
          \/ RequestNothing(session[s].has)
      BY <1>5 DEF Fill
    <2>3. QED
      BY <2>1, <2>2 DEF Request, PMNext
  <1>6. CASE Returning(s)
    <2>1. session[s].toReturn \subseteq Block
      BY DEF SessionsOK, SessionRecord
    <2>2. QED
      BY <1>6, <2>1 DEF Returning, Return, PMNext
  <1>7. QED
    BY <1>1, <1>2, <1>3, <1>4, <1>5, <1>6, Arrivals DEF SessionStep

\* So whatever is proved of the manager under arbitrary callers holds with the
\* sessions as its callers.
LEMMA SessionsAreCallers == PSSpec => PMSpec
  <1>1. PSInit => PMInit
    BY DEF PSInit
  <1>2. SessionsOK /\ [PSNext]_psVars => [PMNext]_pmVars
    <2>1. UNCHANGED psVars => UNCHANGED pmVars
      BY DEF psVars
    <2>2. QED
      BY <2>1, StepIsManagerStep
  <1>3. QED
    BY <1>1, <1>2, SessionsInvariant, PTL DEF PSSpec, PMSpec

-----------------------------------------------------------------------------
(* The type invariant *)

\* A peer is only asked for blocks of the torrent, and a connection is up or
\* down.
ConnectionsOK ==
  /\ link \in [Sessions -> {"up", "down"}]
  /\ asked \in [Sessions -> SUBSET Block]
  /\ crashed \in BOOLEAN

\* Each step keeps the connections' types; the only block that joins a
\* peer's queue is the one the session has just written.
LEMMA ConnectionsStep ==
  ASSUME SessionsOK, ConnectionsOK, PSNext
  PROVE  ConnectionsOK'
  <1>1. PICK s \in Sessions : SessionStep(s) \/ PeerServes(s) \/ Disturbance(s)
    BY DEF PSNext
  <1>2. CASE Connect(s) \/ HandshakeThrows(s) \/ Break(s)
    BY <1>2 DEF Connect, HandshakeThrows, Break, ConnectionsOK
  <1>3. CASE ReceiveChoke(s)
    BY <1>3 DEF ReceiveChoke, ConnectionsOK
  <1>4. CASE Overruns(s) \/ \E p \in Pieces : \E d \in AnswersTo[p] : Gives(s, p, d)
    BY <1>4 DEF Overruns, ReceiveOverrun, Gives, ReceivePiece, QueueShrinks, ConnectionsOK
  <1>5. CASE WriteSucceeds(s)
    <2>1. session[s].current \subseteq Block
      BY DEF SessionsOK, SessionRecord
    <2>2. QED
      BY <1>5, <2>1 DEF WriteSucceeds, ConnectionsOK
  <1>6. CASE FillWithoutBitfield(s)
    BY <1>6 DEF FillWithoutBitfield, ConnectionsOK
  <1>7. CASE \/ Handshake(s) \/ Fill(s) \/ WriteFails(s) \/ ReadFails(s)
             \/ Returning(s) \/ Bitfields(s) \/ ReceiveUnchoke(s)
             \/ ReceiveShortPiece(s)
    BY <1>7 DEF Handshake, Fill, WriteFails, ReadFails, Returning, Bitfields,
       ReceiveBitfield, ReceiveUnchoke, ReceiveShortPiece, ConnectionsOK
  <1>8. QED
    BY <1>1, <1>2, <1>3, <1>4, <1>5, <1>6, <1>7, Arrivals DEF SessionStep

\* The manager's inductive invariant holds with the sessions on top of it.
THEOREM SessionsKeepTheManagerSound == PSSpec => []IInv
  BY SessionsAreCallers, PMInvariant, PTL

\* Every variable of the composition keeps its type, whatever the peers and
\* connections do.
THEOREM SessionsTypeCorrect == PSSpec => []PSTypeOK
  <1>1. PSInit => ConnectionsOK
    BY DEF PSInit, ConnectionsOK
  <1>2. SessionsOK /\ ConnectionsOK /\ [PSNext]_psVars => ConnectionsOK'
    <2>1. UNCHANGED psVars /\ ConnectionsOK => ConnectionsOK'
      BY DEF psVars, ConnectionsOK
    <2>2. QED
      BY <2>1, ConnectionsStep
  <1>3. PSSpec => []ConnectionsOK
    BY <1>1, <1>2, SessionsInvariant, PTL DEF PSSpec
  <1>4. IInv /\ SessionsOK /\ ConnectionsOK => PSTypeOK
    BY DEF IInv, SessionsOK, ConnectionsOK, PSTypeOK
  <1>5. QED
    BY <1>3, <1>4, SessionsKeepTheManagerSound, SessionsInvariant, PTL

-----------------------------------------------------------------------------
(* What a step does to the blocks a session answers for *)

\* Owed, as a function of the session's record.
Owing(r) == IF r.pc = "returning" THEN r.toReturn ELSE r.held \cup r.current

\* A session holds nothing before it reads and after its end, writes one
\* block at a time, and gives blocks back only once it is in ERROR, after a
\* connection was lost: no write fails before a read does.
HolderOK(r) ==
  /\ r.pc \in {"connect", "handshake", "done"} => r.held = {}
  /\ r.pc # "write" => r.current = {}
  /\ r.pc = "returning" => r.state = "ERROR" /\ "lost" \in Faults

HoldersOK == \A s \in Sessions : HolderOK(session[s])

\* A session that makes no more requests.
IsRetired(r) == r.pc \in {"returning", "done"}

\* The step leaves the manager and the session's blocks as they are.
Quiet(s) == UNCHANGED pmVars /\ Owed(s)' = Owed(s)

\* The manager hands blk out to s.
Asks(s, blk) ==
  /\ ~IsRetired(session[s])
  /\ RequestBlock(session[s].has, blk)
  /\ Owed(s)' = Owed(s) \cup {blk}

\* s gives blk back.
GivesBack(s, blk) ==
  /\ blk \in Owed(s)
  /\ ReturnBlock(blk) \/ ReturnRefused(blk)
  /\ "lost" \in Faults
  /\ IsRetired(session[s])
  /\ Owed(s)' = Owed(s) \ {blk}

\* s hands what it received to the manager, which takes it, refuses it or
\* throws.
Hands(s, p, d) ==
  /\ session[s].pc = "read"
  /\ "unasked" \notin Faults =>
       /\ <<p, d.first>> \in asked[s]
       /\ "corrupt" \notin Faults => IsRight(d)
  /\ \/ Accepted(p, d) /\ Owed(s)' = Owed(s) \ Answered(p, d)
     \/ Refused(p, d) /\ Owed(s)' = Owed(s)
     \/ DeliverThrows(p, d) /\ Owed(s)' = {}

\* The manager refuses what reaches out of its piece.
Spills(s) ==
  /\ Faults \cap {"corrupt", "unasked"} # {}
  /\ \E p \in Pieces : DeliverOutOfBounds(p)
  /\ Owed(s)' = Owed(s)

\* s dies with its blocks.
Dies(s) == "short" \in Faults /\ UNCHANGED pmVars /\ Owed(s)' = {}

Effect(s) ==
  \/ Quiet(s) \/ Dies(s) \/ Spills(s)
  \/ \E blk \in Block : Asks(s, blk) \/ GivesBack(s, blk)
  \/ \E p \in Pieces : \E d \in AnswersTo[p] : Hands(s, p, d)

\* What all steps of s have in common: the others' sessions stay, s stays
\* well formed, and once retired it stays retired.
OnlyMoves(s) ==
  /\ \A t \in Sessions \ {s} :
       session'[t] = session[t] /\ Owed(t)' = Owed(t)
  /\ HolderOK(session'[s])
  /\ IsRetired(session[s]) => IsRetired(session'[s])

\* Nothing of a step is seen by the other sessions.
LEMMA OneOwes ==
  ASSUME SessionsOK, NEW s \in Sessions, NEW r, HolderOK(r),
         IsRetired(session[s]) => IsRetired(r),
         session' = [session EXCEPT ![s] = r]
  PROVE  /\ OnlyMoves(s)
         /\ Owed(s)' = Owing(r)
         /\ Owed(s) = Owing(session[s])
  BY DEF SessionsOK, OnlyMoves, Owed, Owing

\* A session whose record does not change owes what it owed.
LEMMA NoneOwes ==
  ASSUME HoldersOK, NEW s \in Sessions, UNCHANGED session
  PROVE  OnlyMoves(s) /\ Owed(s)' = Owed(s)
  BY DEF HoldersOK, OnlyMoves, Owed

\* What a session that ended owes.
LEMMA EndedOwes ==
  /\ HolderOK(EndedSession)
  /\ IsRetired(EndedSession)
  /\ Owing(EndedSession) = {}
  BY DEF EndedSession, NewSession, HolderOK, IsRetired, Owing

\* Connecting, the messages without blocks, and what breaks a connection.
LEMMA QuietEffect ==
  ASSUME SessionsOK, HoldersOK, NEW s \in Sessions,
         \/ Connect(s) \/ Handshake(s) \/ HandshakeThrows(s) \/ Break(s)
         \/ Bitfields(s) \/ ReceiveChoke(s) \/ ReceiveUnchoke(s)
         \/ FillWithoutBitfield(s)
  PROVE  OnlyMoves(s) /\ Quiet(s)
  <1> DEFINE r == session[s]
  <1>1. r \in SessionRecord /\ HolderOK(r)
    BY DEF SessionsOK, HoldersOK
  <1>2. UNCHANGED pmVars
    BY DEF Connect, Handshake, HandshakeThrows, Break, Bitfields, ReceiveBitfield,
       ReceiveChoke, ReceiveUnchoke, FillWithoutBitfield
  <1>3. CASE Connect(s)
    <2>1. session' = [session EXCEPT ![s] = [r EXCEPT !.pc = "handshake",
                                                      !.state = "HANDSHAKING"]]
      BY <1>3 DEF Connect, SessionsOK
    <2>2. r.pc = "connect"
      BY <1>3 DEF Connect, At
    <2> DEFINE new == [r EXCEPT !.pc = "handshake", !.state = "HANDSHAKING"]
    <2>3. HolderOK(new) /\ Owing(new) = Owing(r) /\ ~IsRetired(r)
      BY <1>1, <2>2 DEF HolderOK, Owing, IsRetired, SessionRecord
    <2>4. QED
      BY <1>2, <2>1, <2>3, OneOwes DEF Quiet
  <1>4. CASE Handshake(s)
    <2> DEFINE new == [r EXCEPT !.pc = "read", !.state = "BITFIELD_WAIT"]
    <2>1. session' = [session EXCEPT ![s] = new]
      BY <1>4 DEF Handshake, SessionsOK
    <2>2. r.pc = "handshake"
      BY <1>4 DEF Handshake, At
    <2>3. HolderOK(new) /\ Owing(new) = Owing(r) /\ ~IsRetired(r)
      BY <1>1, <2>2 DEF HolderOK, Owing, IsRetired, SessionRecord
    <2>4. QED
      BY <1>2, <2>1, <2>3, OneOwes DEF Quiet
  <1>5. CASE HandshakeThrows(s)
    <2>1. r.pc = "handshake" /\ session' = [session EXCEPT ![s] = EndedSession]
      BY <1>5 DEF HandshakeThrows, At
    <2>2. Owing(r) = {}
      BY <1>1, <2>1 DEF HolderOK, Owing
    <2>3. QED
      BY <1>2, <2>1, <2>2, OneOwes, EndedOwes DEF Quiet
  <1>6. CASE Break(s) \/ FillWithoutBitfield(s)
    BY <1>2, <1>6, NoneOwes DEF Break, FillWithoutBitfield, Quiet
  <1>7. CASE Bitfields(s)
    <2>1. PICK ok \in BOOLEAN, bits \in SUBSET Pieces :
            session' = [session EXCEPT ![s] = [r EXCEPT !.loaded = ok,
                                                        !.has = bits,
                                                        !.state = "READY"]]
      BY <1>7, BitfieldMoves
    <2> DEFINE new == [r EXCEPT !.loaded = ok, !.has = bits, !.state = "READY"]
    <2>2. r.pc = "read"
      BY <1>7 DEF Bitfields, ReceiveBitfield, Reading, At
    <2>3. HolderOK(new) /\ Owing(new) = Owing(r) /\ ~IsRetired(r)
      BY <1>1, <2>2 DEF HolderOK, Owing, IsRetired, SessionRecord
    <2>4. QED
      BY <1>2, <2>1, <2>3, OneOwes DEF Quiet
  <1>8. CASE ReceiveChoke(s)
    <2> DEFINE new == [r EXCEPT !.choking = TRUE]
    <2>1. session' = [session EXCEPT ![s] = new]
      BY <1>8 DEF ReceiveChoke, SessionsOK
    <2>2. HolderOK(new) /\ Owing(new) = Owing(r) /\ (IsRetired(r) => IsRetired(new))
      BY <1>1 DEF HolderOK, Owing, IsRetired, SessionRecord
    <2>3. QED
      BY <1>2, <2>1, <2>2, OneOwes DEF Quiet
  <1>9. CASE ReceiveUnchoke(s)
    <2> DEFINE pc == LoopPc(Room(r.held))
               new == [r EXCEPT !.choking = FALSE, !.needed = Room(r.held),
                                !.pc = pc]
    <2>1. session' = [session EXCEPT ![s] = new]
      BY <1>9 DEF ReceiveUnchoke, SessionsOK
    <2>2. r.pc = "read"
      BY <1>9 DEF ReceiveUnchoke, Reading, At
    <2>3. pc \in {"fill", "read"}
      BY DEF LoopPc
    <2>4. HolderOK(new) /\ Owing(new) = Owing(r) /\ ~IsRetired(r)
      BY <1>1, <2>2, <2>3 DEF HolderOK, Owing, IsRetired, SessionRecord
    <2>5. QED
      BY <1>2, <2>1, <2>4, OneOwes DEF Quiet
  <1>10. QED
    BY <1>3, <1>4, <1>5, <1>6, <1>7, <1>8, <1>9

\* A PIECE message: the block leaves the session's set exactly when the
\* manager took the data.
LEMMA PieceEffect ==
  ASSUME SessionsOK, HoldersOK, NEW s \in Sessions,
         NEW p \in Pieces, NEW d \in AnswersTo[p], Gives(s, p, d)
  PROVE  OnlyMoves(s) /\ Hands(s, p, d)
  <1> DEFINE r == session[s]
             gone == Answered(p, d)
  <1>1. r \in SessionRecord /\ HolderOK(r)
    BY DEF SessionsOK, HoldersOK
  <1>2. /\ r.pc = "read"
        /\ "unasked" \notin Faults =>
             /\ <<p, d.first>> \in asked[s]
             /\ "corrupt" \notin Faults => IsRight(d)
    BY DEF Gives, ReceivePiece, Reading, At
  <1>3. \/ Accepted(p, d) /\ Refill(s, gone)
        \/ Refused(p, d) /\ UNCHANGED session
        \/ /\ DeliverThrows(p, d)
           /\ session' = [session EXCEPT ![s] = EndedSession]
    BY DEF Gives, ReceivePiece
  <1> HIDE DEF gone
  <1>4. CASE Accepted(p, d) /\ Refill(s, gone)
    <2> DEFINE held == r.held \ gone
               pc == LoopPc(Room(held))
               new == [r EXCEPT !.held = held, !.needed = Room(held), !.pc = pc]
    <2>1. session' = [session EXCEPT ![s] = new]
      BY <1>4 DEF Refill, SessionsOK
    <2>2. pc \in {"fill", "read"}
      BY DEF LoopPc
    <2>3. HolderOK(new) /\ Owing(new) = Owing(r) \ gone /\ ~IsRetired(r)
      BY <1>1, <1>2, <2>2 DEF HolderOK, Owing, IsRetired, SessionRecord
    <2>4. OnlyMoves(s) /\ Owed(s)' = Owed(s) \ gone
      BY <2>1, <2>3, OneOwes
    <2>5. QED
      BY <1>2, <1>4, <2>4 DEF Hands, gone
  <1>5. CASE Refused(p, d) /\ UNCHANGED session
    BY <1>2, <1>5, NoneOwes DEF Hands
  <1>6. CASE DeliverThrows(p, d) /\ session' = [session EXCEPT ![s] = EndedSession]
    <2>1. OnlyMoves(s) /\ Owed(s)' = {}
      BY <1>6, OneOwes, EndedOwes
    <2>2. QED
      BY <1>2, <1>6, <2>1 DEF Hands
  <1>7. QED
    BY <1>3, <1>4, <1>5, <1>6 DEF gone

\* One that reaches out of its piece changes nothing of the session.
LEMMA OverrunEffect ==
  ASSUME HoldersOK, NEW s \in Sessions, Overruns(s)
  PROVE  OnlyMoves(s) /\ Spills(s)
  BY NoneOwes DEF Overruns, ReceiveOverrun, Spills

\* The request loop: what requestBlock hands out is owed from then on, before
\* and after the write.
LEMMA LoopEffect ==
  ASSUME SessionsOK, HoldersOK, NEW s \in Sessions,
         Fill(s) \/ WriteSucceeds(s)
  PROVE  OnlyMoves(s) /\ Effect(s)
  <1> DEFINE r == session[s]
             pc == LoopPc(r.needed - 1)
  <1>1. r \in SessionRecord /\ HolderOK(r)
    BY DEF SessionsOK, HoldersOK
  <1>2. pc \in {"fill", "read"}
    BY DEF LoopPc
  <1>3. CASE Fill(s)
    <2>1. r.pc = "fill"
      BY <1>3 DEF Fill, At
    <2>2. CASE \E blk \in Block :
                 /\ RequestBlock(session[s].has, blk)
                 /\ session' = [session EXCEPT ![s].current = {blk}, ![s].pc = "write"]
      <3>1. PICK blk \in Block :
                 /\ RequestBlock(session[s].has, blk)
                 /\ session' = [session EXCEPT ![s].current = {blk}, ![s].pc = "write"]
        BY <2>2
      <3> DEFINE new == [r EXCEPT !.current = {blk}, !.pc = "write"]
      <3>2. session' = [session EXCEPT ![s] = new]
        BY <3>1 DEF SessionsOK
      <3>3. HolderOK(new) /\ Owing(new) = Owing(r) \cup {blk} /\ ~IsRetired(r)
        BY <1>1, <2>1 DEF HolderOK, Owing, IsRetired, SessionRecord
      <3>4. OnlyMoves(s) /\ Owed(s)' = Owed(s) \cup {blk}
        BY <3>2, <3>3, OneOwes
      <3>5. QED
        BY <3>1, <3>3, <3>4 DEF Effect, Asks
    <2>3. CASE /\ RequestNothing(session[s].has)
               /\ session' = [session EXCEPT ![s].needed = @ - 1, ![s].pc = pc]
      <3> DEFINE new == [r EXCEPT !.needed = r.needed - 1, !.pc = pc]
      <3>1. session' = [session EXCEPT ![s] = new]
        BY <2>3 DEF SessionsOK
      <3>2. HolderOK(new) /\ Owing(new) = Owing(r) /\ ~IsRetired(r)
        BY <1>1, <1>2, <2>1 DEF HolderOK, Owing, IsRetired, SessionRecord
      <3>3. UNCHANGED pmVars
        BY <2>3 DEF RequestNothing
      <3>4. QED
        BY <3>1, <3>2, <3>3, OneOwes DEF Effect, Quiet
    <2>4. QED
      BY <1>3, <2>2, <2>3 DEF Fill
  <1>4. CASE WriteSucceeds(s)
    <2> DEFINE new == [r EXCEPT !.held = r.held \cup r.current, !.current = {},
                                !.needed = r.needed - 1, !.pc = pc]
    <2>1. session' = [session EXCEPT ![s] = new]
      BY <1>4 DEF WriteSucceeds, SessionsOK
    <2>2. r.pc = "write" /\ UNCHANGED pmVars
      BY <1>4 DEF WriteSucceeds, At
    <2>3. HolderOK(new) /\ Owing(new) = Owing(r) /\ ~IsRetired(r)
      BY <1>1, <1>2, <2>2 DEF HolderOK, Owing, IsRetired, SessionRecord
    <2>4. QED
      BY <2>1, <2>2, <2>3, OneOwes DEF Effect, Quiet
  <1>5. QED
    BY <1>3, <1>4

\* The ends of a session: a failed read keeps every block owed until the
\* loop of _returnBlocks has given it back; a message cut short does not.
LEMMA EndEffect ==
  ASSUME SessionsOK, HoldersOK, NEW s \in Sessions,
         \/ ReadFails(s) /\ "lost" \in Faults
         \/ Returning(s)
         \/ ReceiveShortPiece(s) /\ "short" \in Faults
  PROVE  OnlyMoves(s) /\ Effect(s)
  <1> DEFINE r == session[s]
  <1>1. r \in SessionRecord /\ HolderOK(r)
    BY DEF SessionsOK, HoldersOK
  <1>2. CASE ReadFails(s) /\ "lost" \in Faults
    <2> DEFINE new == [r EXCEPT !.state = "ERROR", !.toReturn = r.held,
                                !.pc = "returning"]
    <2>1. r.pc = "read" /\ UNCHANGED pmVars
      BY <1>2 DEF ReadFails, Reading, At
    <2>2. Owing(r) = r.held
      BY <1>1, <2>1 DEF HolderOK, Owing
    <2>3. \/ r.held = {} /\ session' = [session EXCEPT ![s] = EndedSession]
          \/ session' = [session EXCEPT ![s] = new]
      BY <1>2 DEF ReadFails, SessionsOK
    <2>4. HolderOK(new) /\ Owing(new) = Owing(r) /\ ~IsRetired(r)
      BY <1>1, <1>2, <2>1, <2>2 DEF HolderOK, Owing, IsRetired, SessionRecord
    <2>5. OnlyMoves(s) /\ Owed(s)' = Owed(s)
      BY <2>2, <2>3, <2>4, OneOwes, EndedOwes
    <2>6. QED
      BY <2>1, <2>5 DEF Effect, Quiet
  <1>3. CASE Returning(s)
    <2>1. r.pc = "returning" /\ "lost" \in Faults
      BY <1>1, <1>3 DEF Returning, At, HolderOK
    <2>2. Owing(r) = r.toReturn /\ r.toReturn \subseteq Block /\ IsRetired(r)
      BY <1>1, <2>1 DEF Owing, SessionRecord, IsRetired
    <2>3. PICK blk \in r.toReturn :
            /\ ReturnBlock(blk) \/ ReturnRefused(blk)
            /\ session' = [session EXCEPT
                 ![s] = IF r.toReturn = {blk} THEN AfterReturn(s)
                        ELSE [r EXCEPT !.toReturn = r.toReturn \ {blk}]]
      BY <1>3 DEF Returning, SessionsOK
    <2> DEFINE new == [r EXCEPT !.toReturn = r.toReturn \ {blk}]
    <2>4. HolderOK(new) /\ Owing(new) = Owing(r) \ {blk} /\ IsRetired(new)
      BY <1>1, <2>1, <2>2 DEF HolderOK, Owing, IsRetired, SessionRecord
    <2>5. AfterReturn(s) = EndedSession
      BY <1>1, <2>1 DEF AfterReturn, HolderOK
    <2>6. OnlyMoves(s) /\ Owed(s)' = Owed(s) \ {blk}
      BY <2>2, <2>3, <2>4, <2>5, OneOwes, EndedOwes
    <2>7. blk \in Owed(s) /\ blk \in Block
      BY <2>1, <2>2, <2>3 DEF Owed
    <2>8. QED
      BY <2>1, <2>2, <2>3, <2>6, <2>7 DEF Effect, GivesBack
  <1>4. CASE ReceiveShortPiece(s) /\ "short" \in Faults
    <2>1. OnlyMoves(s) /\ Owed(s)' = {}
      BY <1>4, OneOwes, EndedOwes DEF ReceiveShortPiece
    <2>2. QED
      BY <1>4, <2>1 DEF ReceiveShortPiece, Effect, Dies
  <1>5. QED
    BY <1>2, <1>3, <1>4

\* Without lost connections every opened connection is up.
LinksLast ==
  "lost" \notin Faults =>
    \A s \in Sessions : session[s].pc # "connect" => link[s] = "up"

LEMMA LinksLastStep ==
  ASSUME SessionsOK, ConnectionsOK, LinksLast, PSNext
  PROVE  LinksLast'
  <1> SUFFICES ASSUME "lost" \notin Faults,
                      NEW t \in Sessions, session'[t].pc # "connect"
               PROVE  link'[t] = "up"
    BY DEF LinksLast
  <1>1. PICK s \in Sessions : SessionStep(s) \/ PeerServes(s) \/ Disturbance(s)
    BY DEF PSNext
  <1>2. CASE Connect(s)
    <2>1. /\ link' = [link EXCEPT ![s] = "up"]
          /\ t # s => session'[t] = session[t]
      BY <1>2 DEF Connect, SessionsOK
    <2>2. QED
      BY <2>1 DEF LinksLast, ConnectionsOK
  <1>3. CASE HandshakeThrows(s) \/ Break(s)
    BY <1>3 DEF HandshakeThrows, Break
  <1>4. CASE FillWithoutBitfield(s)
    BY <1>4 DEF FillWithoutBitfield, LinksLast
  <1>5. CASE \/ Handshake(s) \/ Fill(s) \/ WriteFails(s) \/ ReadFails(s)
             \/ Returning(s) \/ Bitfields(s) \/ ReceiveUnchoke(s)
             \/ ReceiveShortPiece(s) \/ ReceiveChoke(s) \/ WriteSucceeds(s)
             \/ Overruns(s) \/ \E p \in Pieces : \E d \in AnswersTo[p] : Gives(s, p, d)
    <2>1. link' = link /\ session[s].pc # "connect"
      BY <1>5 DEF Handshake, Fill, WriteFails, ReadFails, Returning, Bitfields,
         ReceiveBitfield, ReceiveUnchoke, ReceiveShortPiece, ReceiveChoke,
         WriteSucceeds, Overruns, ReceiveOverrun, Gives, ReceivePiece, Reading, At
    <2>2. t # s => session'[t] = session[t]
      BY <1>5 DEF SessionsOK, Handshake, Fill, WriteFails, ReadFails, Returning,
         Bitfields, ReceiveBitfield, ReceiveUnchoke, ReceiveShortPiece, ReceiveChoke,
         WriteSucceeds, Overruns, ReceiveOverrun, Gives, ReceivePiece, Refill
    <2>3. QED
      BY <2>1, <2>2 DEF LinksLast
  <1>6. QED
    BY <1>1, <1>2, <1>3, <1>4, <1>5, Arrivals DEF SessionStep

\* Where peers keep to the protocol, a session's bitfield has its peer's pieces.
BitfieldsAreTrue ==
  "unasked" \notin Faults => \A s \in Sessions : session[s].has \subseteq PeerHas[s]

LEMMA BitfieldsAreTrueStep ==
  ASSUME SessionsOK, BitfieldsAreTrue, PSNext
  PROVE  BitfieldsAreTrue'
  <1> SUFFICES ASSUME "unasked" \notin Faults, NEW t \in Sessions
               PROVE  session'[t].has \subseteq PeerHas[t]
    BY DEF BitfieldsAreTrue
  <1>0. /\ session \in [Sessions -> SessionRecord]
        /\ \A s \in Sessions : session[s].has \subseteq PeerHas[s]
    BY DEF SessionsOK, BitfieldsAreTrue
  <1>1. PICK s \in Sessions : SessionStep(s) \/ PeerServes(s) \/ Disturbance(s)
    BY DEF PSNext
  <1> DEFINE r == session[s]
  <1>2. r \in SessionRecord
    BY <1>0
  <1>3. EndedSession.has = {}
    BY DEF EndedSession, NewSession
  <1>4. ASSUME NEW new, session' = [session EXCEPT ![s] = new], new.has \subseteq PeerHas[s]
        PROVE  session'[t].has \subseteq PeerHas[t]
    BY <1>0, <1>4
  <1>5. CASE Bitfields(s)
    <2>1. PICK ok \in BOOLEAN, bits \in SUBSET Pieces :
            /\ session' = [session EXCEPT ![s] = [r EXCEPT !.loaded = ok, !.has = bits,
                                                           !.state = "READY"]]
            /\ bits \subseteq PeerHas[s] \cup r.has
      BY <1>5, BitfieldMoves
    <2>2. [r EXCEPT !.loaded = ok, !.has = bits, !.state = "READY"].has = bits
      BY <1>2 DEF SessionRecord
    <2>3. QED
      BY <1>0, <1>4, <2>1, <2>2
  <1>6. ASSUME ~Bitfields(s)
        PROVE  \/ UNCHANGED session
               \/ session' = [session EXCEPT ![s] = EndedSession]
               \/ \E new : /\ session' = [session EXCEPT ![s] = new]
                           /\ new.has = r.has
    <2>1. CASE Connect(s) \/ Handshake(s) \/ ReceiveUnchoke(s) \/ ReceiveChoke(s)
      BY <1>0, <1>2, <2>1 DEF Connect, Handshake, ReceiveUnchoke, ReceiveChoke, SessionRecord
    <2>2. CASE Fill(s) \/ WriteSucceeds(s) \/ WriteFails(s)
      <3> DEFINE n == r.needed - 1
                 pc == LoopPc(n)
                 held == r.held \cup r.current
                 to == ReturnPc(s, pc)
      <3>1. \/ \E blk : session' = [session EXCEPT
                            ![s] = [r EXCEPT !.current = {blk}, !.pc = "write"]]
            \/ session' = [session EXCEPT ![s] = [r EXCEPT !.needed = n, !.pc = pc]]
            \/ session' = [session EXCEPT
                 ![s] = [r EXCEPT !.held = held, !.current = {}, !.needed = n, !.pc = pc]]
            \/ session' = [session EXCEPT
                 ![s] = [r EXCEPT !.current = {}, !.needed = n, !.toReturn = r.held,
                                  !.pc = to]]
        BY <1>0, <2>2 DEF Fill, WriteSucceeds, WriteFails
      <3> HIDE DEF n, pc, held, to
      <3>2. /\ \A blk : [r EXCEPT !.current = {blk}, !.pc = "write"].has = r.has
            /\ [r EXCEPT !.needed = n, !.pc = pc].has = r.has
            /\ [r EXCEPT !.held = held, !.current = {}, !.needed = n, !.pc = pc].has = r.has
            /\ [r EXCEPT !.current = {}, !.needed = n, !.toReturn = r.held,
                         !.pc = to].has = r.has
        BY <1>2 DEF SessionRecord
      <3>3. QED
        BY <3>1, <3>2
    <2>3. CASE ReadFails(s) \/ Returning(s)
      <3> DEFINE pc == LoopPc(r.needed)
      <3>1. \/ session' = [session EXCEPT ![s] = EndedSession]
            \/ session' = [session EXCEPT
                 ![s] = [r EXCEPT !.state = "ERROR", !.toReturn = r.held,
                                  !.pc = "returning"]]
            \/ session' = [session EXCEPT ![s] = [r EXCEPT !.toReturn = {}, !.pc = pc]]
            \/ \E left : session' = [session EXCEPT ![s] = [r EXCEPT !.toReturn = left]]
        BY <1>0, <2>3 DEF ReadFails, Returning, AfterReturn
      <3> HIDE DEF pc
      <3>2. /\ [r EXCEPT !.state = "ERROR", !.toReturn = r.held,
                         !.pc = "returning"].has = r.has
            /\ [r EXCEPT !.toReturn = {}, !.pc = pc].has = r.has
            /\ \A left : [r EXCEPT !.toReturn = left].has = r.has
        BY <1>2 DEF SessionRecord
      <3>3. QED
        BY <3>1, <3>2
    <2>4. ASSUME NEW p \in Pieces, NEW d \in AnswersTo[p], Gives(s, p, d)
          PROVE  \/ UNCHANGED session
                 \/ session' = [session EXCEPT ![s] = EndedSession]
                 \/ \E new : /\ session' = [session EXCEPT ![s] = new]
                             /\ new.has = r.has
      BY <1>0, <1>2, <2>4 DEF Gives, ReceivePiece, Refill, SessionRecord
    <2>5. CASE \/ HandshakeThrows(s) \/ Break(s) \/ ReceiveShortPiece(s)
               \/ Overruns(s) \/ FillWithoutBitfield(s)
      BY <2>5 DEF HandshakeThrows, Break, ReceiveShortPiece, Overruns, ReceiveOverrun,
         FillWithoutBitfield
    <2>6. QED
      BY <1>1, <1>6, <2>1, <2>2, <2>3, <2>4, <2>5, Arrivals DEF SessionStep
  <1>7. QED
    BY <1>0, <1>3, <1>4, <1>5, <1>6

\* Each step of the composition has one of the effects above.
LEMMA StepEffect ==
  ASSUME "reset" \notin Faults, SessionsOK, HoldersOK, LinksLast, PSNext
  PROVE  HoldersOK' /\ \E s \in Sessions : OnlyMoves(s) /\ Effect(s)
  <1>1. PICK s \in Sessions : SessionStep(s) \/ PeerServes(s) \/ Disturbance(s)
    BY DEF PSNext
  <1>2. ~WriteFails(s)
    BY DEF WriteFails
  <1>3. ReadFails(s) => "lost" \in Faults
    BY DEF ReadFails, Reading, At, LinksLast
  <1>4. OnlyMoves(s) /\ Effect(s)
    BY <1>1, <1>2, <1>3, Arrivals, QuietEffect, PieceEffect, OverrunEffect,
       LoopEffect, EndEffect DEF SessionStep, Effect
  <1>5. HoldersOK'
    BY <1>4 DEF OnlyMoves, HoldersOK
  <1>6. QED
    BY <1>4, <1>5

\* All of them together.
ShapeOK == SessionsOK /\ ConnectionsOK /\ LinksLast /\ HoldersOK /\ BitfieldsAreTrue

LEMMA ShapeInit == PSInit => ShapeOK
  <1> SUFFICES ASSUME PSInit PROVE ShapeOK
    OBVIOUS
  <1>1. SessionsOK
    BY NewSessionOK DEF PSInit, SessionsOK, SessionOK
  <1>2. ConnectionsOK /\ LinksLast /\ HoldersOK /\ BitfieldsAreTrue
    BY DEF PSInit, ConnectionsOK, LinksLast, HoldersOK, HolderOK, BitfieldsAreTrue, NewSession
  <1>3. QED
    BY <1>1, <1>2 DEF ShapeOK

LEMMA ShapeStep ==
  ASSUME "reset" \notin Faults, ShapeOK, SessionsOK', [PSNext]_psVars
  PROVE  ShapeOK'
  <1>1. CASE PSNext
    BY <1>1, ConnectionsStep, LinksLastStep, BitfieldsAreTrueStep, StepEffect DEF ShapeOK
  <1>2. CASE UNCHANGED psVars
    BY <1>2 DEF psVars, ShapeOK, SessionsOK, ConnectionsOK, LinksLast, HoldersOK,
       BitfieldsAreTrue
  <1>3. QED
    BY <1>1, <1>2

\* While no write fails, sessions hold blocks only where they should.
THEOREM ShapeInvariant ==
  ASSUME "reset" \notin Faults
  PROVE  PSSpec => []ShapeOK
  <1>1. ShapeOK /\ SessionsOK' /\ [PSNext]_psVars => ShapeOK'
    BY ShapeStep
  <1>2. QED
    BY <1>1, ShapeInit, SessionsInvariant, PTL DEF PSSpec

-----------------------------------------------------------------------------
(* Reservations *)

\* What loses a reservation for good: a failed write forgets the block at
\* hand, a short PIECE message and a failed file end a session with its
\* blocks.
NothingForgets == Faults \cap {"reset", "short"} = {} /\ "closed" \notin StreamFaults

\* A delivery takes at most its own block out of the manager's set, and a
\* piece that is finished stays so.
LEMMA DeliveryFrees ==
  ASSUME NEW p, NEW d,
         Accepted(p, d) \/ Refused(p, d) \/ DeliverThrows(p, d)
  PROVE  /\ pendingBlocks' \subseteq pendingBlocks
         /\ finished \subseteq finished'
         /\ Accepted(p, d) =>
              p \in finished \/ pendingBlocks' = pendingBlocks \ Answered(p, d)
         /\ DeliverThrows(p, d) => stream = "closed"
  BY DEF Accepted, Refused, DeliverFinished, AlreadyDone, DeliverPartial,
     DeliverVerified, DeliverMismatch, DeliverThrows, pmVars, resultVars

\* Only the initial state closes the stream for good.
LEMMA StreamStep ==
  ASSUME [PMNext]_pmVars
  PROVE  stream' = "closed" => stream = "closed"
  <1>1. CASE Request \/ Return \/ UNCHANGED pmVars
    BY <1>1 DEF Request, RequestBlock, RequestNothing, Return, ReturnBlock,
       ReturnRefused, pmVars, resultVars, fileVars
  <1>2. CASE Deliver
    <2>1. ASSUME NEW p, NEW d, DeliverVerified(p, d)
          PROVE  stream' = stream \/ stream' = "failed"
      BY <2>1 DEF DeliverVerified, WritePiece
    <2>2. QED
      BY <1>2, <2>1 DEF Deliver, DeliverFinished, DeliverOutOfBounds,
         DeliverPartial, DeliverThrows, DeliverMismatch, pmVars, fileVars
  <1>3. QED
    BY <1>1, <1>2 DEF PMNext

LEMMA ReservationsStep ==
  ASSUME NothingForgets, ShapeOK, ReservationsHaveAHolder, stream # "closed",
         PSNext
  PROVE  ReservationsHaveAHolder'
  <1>1. PICK s \in Sessions : OnlyMoves(s) /\ Effect(s)
    BY StepEffect DEF NothingForgets, ShapeOK
  <1>2. /\ \A t \in Sessions \ {s} : Owed(t)' = Owed(t)
        /\ ~Dies(s)
    BY <1>1 DEF OnlyMoves, Dies, NothingForgets
  <1> SUFFICES ASSUME NEW blk \in pendingBlocks', blk[1] \notin finished'
               PROVE  \E t \in Sessions : blk \in Owed(t)'
    BY DEF ReservationsHaveAHolder
  \* It is enough that the block was reserved before, and that s still owes it
  \* if it did.
  <1>3. ASSUME blk \in pendingBlocks, blk[1] \notin finished,
               blk \in Owed(s) => blk \in Owed(s)'
        PROVE  \E t \in Sessions : blk \in Owed(t)'
    BY <1>2, <1>3 DEF ReservationsHaveAHolder
  <1>4. CASE Quiet(s)
    BY <1>3, <1>4 DEF Quiet, pmVars
  <1>5. ASSUME NEW c \in Block, Asks(s, c)
        PROVE  \E t \in Sessions : blk \in Owed(t)'
    <2>1. pendingBlocks' = pendingBlocks \cup {c} /\ finished' = finished
      BY <1>5 DEF Asks, RequestBlock, resultVars
    <2>2. Owed(s)' = Owed(s) \cup {c}
      BY <1>5 DEF Asks
    <2>3. QED
      BY <1>3, <2>1, <2>2
  <1>6. ASSUME NEW c \in Block, GivesBack(s, c)
        PROVE  \E t \in Sessions : blk \in Owed(t)'
    <2>1. pendingBlocks' = pendingBlocks \ {c} /\ finished' = finished
      BY <1>6 DEF GivesBack, ReturnBlock, ReturnRefused, resultVars, pmVars
    <2>2. Owed(s)' = Owed(s) \ {c}
      BY <1>6 DEF GivesBack
    <2>3. QED
      BY <1>3, <2>1, <2>2
  <1>7. ASSUME NEW p \in Pieces, NEW d \in AnswersTo[p], Hands(s, p, d)
        PROVE  \E t \in Sessions : blk \in Owed(t)'
    <2>1. \/ Accepted(p, d) /\ Owed(s)' = Owed(s) \ Answered(p, d)
          \/ Refused(p, d) /\ Owed(s)' = Owed(s)
          \/ DeliverThrows(p, d)
      BY <1>7 DEF Hands
    <2>2. /\ pendingBlocks' \subseteq pendingBlocks
          /\ finished \subseteq finished'
          /\ Accepted(p, d) =>
               p \in finished \/ pendingBlocks' = pendingBlocks \ Answered(p, d)
          /\ ~DeliverThrows(p, d)
      BY <2>1, DeliveryFrees
    <2>3. blk \in pendingBlocks /\ blk[1] \notin finished
      BY <2>2
    <2>4. blk \in Answered(p, d) => blk[1] = p
      BY DEF Answered
    <2>5. blk \in Owed(s) => blk \in Owed(s)'
      BY <2>1, <2>2, <2>3, <2>4
    <2>6. QED
      BY <1>3, <2>3, <2>5
  <1>8. CASE Spills(s)
    <2>1. pendingBlocks' = pendingBlocks /\ finished' = finished /\ Owed(s)' = Owed(s)
      BY <1>8 DEF Spills, DeliverOutOfBounds, allocVars, resultVars
    <2>2. QED
      BY <1>3, <2>1
  <1>9. QED
    BY <1>1, <1>2, <1>4, <1>5, <1>6, <1>7, <1>8 DEF Effect

\* No block is withheld from all peers for good: with lost connections,
\* chokes, wrong, repeated and missing answers, each reservation of an
\* unfinished piece is some living session's.
THEOREM ReservationsAreAnsweredFor ==
  ASSUME NothingForgets
  PROVE  PSSpec => []ReservationsHaveAHolder
  <1> DEFINE Inv == ReservationsHaveAHolder /\ stream # "closed"
  <1>1. PSInit => Inv
    BY DEF PSInit, PMInit, ReservationsHaveAHolder, NothingForgets
  <1>2. SessionsOK /\ ShapeOK /\ Inv /\ [PSNext]_psVars => Inv'
    <2> SUFFICES ASSUME SessionsOK, ShapeOK, Inv, [PSNext]_psVars
                 PROVE  Inv'
      OBVIOUS
    <2>1. CASE UNCHANGED psVars
      BY <2>1 DEF psVars, pmVars, ReservationsHaveAHolder, Owed
    <2>2. CASE PSNext
      BY <2>2, ReservationsStep, StepIsManagerStep, StreamStep
    <2>3. QED
      BY <2>1, <2>2
  <1>3. PSSpec => []ShapeOK
    BY ShapeInvariant DEF NothingForgets
  <1>4. QED
    BY <1>1, <1>2, <1>3, SessionsInvariant, PTL DEF PSSpec

\* A peer is told "nothing we want" only when there is nothing: each block
\* of its pieces is on disk, in the buffer or some session's to answer for.
THEOREM RefusedMeansNothingToAsk ==
  ASSUME NothingForgets, "empty" \notin Answers
  PROVE  PSSpec => []PeerHasNothingWeWant
  <1>1. IInv /\ NoBlockLost /\ SessionsOK /\ ReservationsHaveAHolder
          => PeerHasNothingWeWant
    <2> SUFFICES ASSUME IInv, NoBlockLost, SessionsOK, ReservationsHaveAHolder,
                        NEW s \in Sessions, Wanted(session[s].has) = {},
                        NEW p \in session[s].has \ finished, NEW b \in Blocks(p)
                 PROVE  b \in Received(p) \/ \E t \in Sessions : <<p, b>> \in Owed(t)
      BY DEF PeerHasNothingWeWant
    <2>1. p \in Pieces
      BY DEF SessionsOK, SessionRecord
    <2>2. FreeBlocks(p) = {}
      BY DEF Wanted, IInv, CompletionAgrees
    <2>3. b < nextOffsets[p] \/ <<p, b>> \in pendingBlocks
      <3>1. b \in Nat /\ nextOffsets[p] \in Nat
        BY <2>1, BlocksFacts DEF IInv, PMTypeOK
      <3>2. QED
        BY <2>2, <3>1 DEF FreeBlocks
    <2>4. <<p, b>> \in pendingBlocks \/ b \in Received(p)
      BY <2>1, <2>3 DEF NoBlockLost
    <2>5. QED
      BY <2>4 DEF ReservationsHaveAHolder
  <1>2. PMSpec => []NoBlockLost
    BY BlocksAreNeverLost
  <1>3. PSSpec => []ReservationsHaveAHolder
    BY ReservationsAreAnsweredFor
  <1>4. QED
    BY <1>1, <1>2, <1>3, SessionsAreCallers, SessionsInvariant,
       SessionsKeepTheManagerSound, PTL

-----------------------------------------------------------------------------
(* Leases: who has a block while the peers are honest *)

\* Writes do not fail, and a peer answers what it was asked for, once and with
\* the right bytes.
PeersAreHonest == Faults \cap {"reset", "corrupt", "repeat", "unasked"} = {}

\* Giving a block back rewinds its piece, and the next requests ask again for
\* what was received after it.  Where connections break, then, a piece of
\* several blocks has one peer to serve it.
OneServerPerPiece ==
  "lost" \in Faults =>
    \A p \in Pieces :
      \/ NumBlocks[p] = 1
      \/ \A s, t \in Sessions : p \in PeerHas[s] \cap PeerHas[t] => s = t

\* What a peer was asked for and has not answered is in the session's set.
AskedAreHeld ==
  \A s \in Sessions :
    ~IsRetired(session[s]) => asked[s] \subseteq session[s].held

\* Sessions owe blocks of pieces their peers have.
OwedAreServed ==
  \A s \in Sessions : \A blk \in Owed(s) : blk[1] \in PeerHas[s]

\* A reserved block is not yet received.
ReservedAreMissing ==
  \A blk \in pendingBlocks :
    blk[1] \notin finished /\ blk[2] \notin Received(blk[1])

NoneAsksFor(p) ==
  \A s \in Sessions : p \in PeerHas[s] => IsRetired(session[s])

\* A block reserved or received is below the next offset, or no session will
\* ask for its piece any more.
NeverAskedAgain ==
  \A p \in Pieces \ finished : \A b \in Blocks(p) :
    <<p, b>> \in pendingBlocks \/ b \in Received(p) =>
      b < nextOffsets[p] \/ NoneAsksFor(p)

\* A piece's buffer has its own bytes.
BytesAreRight ==
  \A p \in Pieces \ finished : \A b \in Received(p) : PieceBuffer(p).data[b] = b

LeaseInv ==
  /\ AskedAreHeld
  /\ OwedAreServed
  /\ HoldersOwnTheirBlocks
  /\ ReservedAreMissing
  /\ NeverAskedAgain
  /\ BytesAreRight
  /\ CountsAreExact

LEMMA LeaseInit == PSInit => LeaseInv
  <1> SUFFICES ASSUME PSInit PROVE LeaseInv
    OBVIOUS
  <1>1. \A s \in Sessions : Owed(s) = {} /\ asked[s] = {}
    BY DEF PSInit, Owed, NewSession
  <1>2. pendingBlocks = {}
    BY DEF PSInit, PMInit
  <1>3. \A p \in Pieces : PieceBuffer(p) = FreshPiece(p)
    BY DEF PSInit, PMInit, PieceBuffer
  <1>4. \A p \in Pieces : Received(p) = {}
    BY <1>3, FreshPieceFacts DEF Received
  <1>5. CountsAreExact
    BY <1>3, <1>4, FreshPieceFacts, FS_EmptySet DEF CountsAreExact
  <1>6. QED
    BY <1>1, <1>2, <1>4, <1>5 DEF LeaseInv, AskedAreHeld, OwedAreServed,
       HoldersOwnTheirBlocks, ReservedAreMissing, NeverAskedAgain, BytesAreRight

\* A piece has no more received blocks than it has blocks.
LEMMA ReceivedFacts ==
  ASSUME NEW p \in Pieces
  PROVE  /\ Received(p) \subseteq Blocks(p)
         /\ IsFiniteSet(Received(p))
         /\ Cardinality(Received(p)) \in Nat
         /\ Cardinality(Received(p)) <= NumBlocks[p]
  <1>1. Received(p) \subseteq Blocks(p)
    BY DEF Received
  <1>2. QED
    BY <1>1, SettledFacts, FS_Subset, FS_CardinalityType

\* The right bytes of a block change its position only.
LEMMA RightBytes ==
  ASSUME NEW p \in Pieces, NEW d \in AnswersTo[p], IsRight(d)
  PROVE  /\ Copied(p, d, d.first) = d.first
         /\ \A c \in Blocks(p) \ {d.first} : Copied(p, d, c) = PieceBuffer(p).data[c]
         /\ Answered(p, d) = {<<p, d.first>>}
  <1>1. DOMAIN d.bytes = {1} /\ d.bytes[1] = d.first
    BY DEF IsRight
  <1>2. /\ d.first \in Blocks(p)
        /\ d.first \in Int
        /\ d.first # Part
        /\ d.first - d.first + 1 = 1
    BY AnswerFacts, BlocksFacts
  <1>3. Copied(p, d, d.first) = d.first
    BY <1>1, <1>2 DEF Copied
  <1>4. ASSUME NEW c \in Blocks(p) \ {d.first}
        PROVE  Copied(p, d, c) = PieceBuffer(p).data[c]
    <2>1. c \in Int /\ c # d.first
      BY BlocksFacts
    <2>2. c - d.first + 1 # 1
      BY <1>2, <2>1
    <2>3. QED
      BY <1>1, <2>2 DEF Copied
  <1>5. QED
    BY <1>3, <1>4 DEF Answered, IsRight

\* The right bytes of a block still missing: one more is counted, and the
\* count reaches totalBlocksNeeded with the whole piece, which verifies.
LEMMA RightDelivery ==
  ASSUME PMTypeOK, CountsAreExact, BytesAreRight,
         NEW p \in Pieces \ finished, NEW d \in AnswersTo[p], IsRight(d),
         d.first \notin Received(p)
  PROVE  LET with == WithData(p, d)
             now  == Received(p) \cup {d.first}
         IN  /\ with \in PendingPiece(p)
             /\ with.blocksReceived = Cardinality(now)
             /\ \A c \in Blocks(p) : with.data[c] # Blank <=> c \in now
             /\ \A c \in now : with.data[c] = c
             /\ IsFinished(p, with) <=> now = Blocks(p)
             /\ IsFinished(p, with) => VerifyHash(p, with)
  <1> DEFINE with == WithData(p, d)
             b == d.first
             now  == Received(p) \cup {b}
  <1> HIDE DEF with
  <1>1. b \in Blocks(p) /\ b # Blank
    BY AnswerFacts, BlocksFacts
  <1>2. /\ PieceBuffer(p).blocksReceived = Cardinality(Received(p))
        /\ \A c \in Received(p) : PieceBuffer(p).data[c] = c
    BY DEF CountsAreExact, BytesAreRight
  <1>3. /\ IsFiniteSet(Blocks(p))
        /\ Cardinality(Blocks(p)) = NumBlocks[p]
        /\ IsFiniteSet(Received(p))
        /\ Cardinality(Received(p)) \in Nat
        /\ Cardinality(Received(p)) <= NumBlocks[p]
        /\ NumBlocks[p] \in Nat
    BY ReceivedFacts, SettledFacts, GeometryAssumption
  <1>4. Cardinality(now) = Cardinality(Received(p)) + 1
    BY <1>3, FS_AddElement, Zenon
  <1>5. /\ with \in PendingPiece(p)
        /\ with.data[b] = b
        /\ \A c \in Blocks(p) \ {b} : with.data[c] = PieceBuffer(p).data[c]
        /\ with.blocksReceived = IF PieceBuffer(p).blocksReceived > NumBlocks[p]
                                 THEN PieceBuffer(p).blocksReceived
                                 ELSE PieceBuffer(p).blocksReceived + 1
    BY <1>1, RightBytes, WithDataFacts DEF with
  <1>11. with.blocksReceived = Cardinality(now)
    BY <1>2, <1>3, <1>4, <1>5
  <1>6. \A c \in Blocks(p) : with.data[c] # Blank <=> c \in now
    BY <1>1, <1>5 DEF Received
  <1>7. \A c \in now : with.data[c] = c
    <2>1. Received(p) \subseteq Blocks(p)
      BY DEF Received
    <2>2. QED
      BY <1>2, <1>5, <2>1
  <1>8. IsFinished(p, with) <=> now = Blocks(p)
    <2>1. now \subseteq Blocks(p)
      BY <1>1 DEF Received
    <2>2. Cardinality(now) = NumBlocks[p] => now = Blocks(p)
      BY <1>3, <2>1, FS_Subset
    <2>3. QED
      BY <1>3, <1>11, <2>2 DEF IsFinished
  <1>9. IsFinished(p, with) => VerifyHash(p, with)
    BY <1>7, <1>8 DEF VerifyHash
  <1>10. QED
    BY <1>5, <1>6, <1>7, <1>8, <1>9, <1>11 DEF with

\* What a delivery of the right bytes leaves of the piece: the block is in
\* the buffer, or the piece is finished with it.
Taken(p, d) ==
  /\ pendingBlocks' = pendingBlocks \ {<<p, d.first>>}
  /\ nextOffsets' = nextOffsets
  /\ \A q \in Pieces \ {p} : PieceBuffer(q)' = PieceBuffer(q)
  /\ \/ /\ finished' = finished
        /\ PieceBuffer(p)' = WithData(p, d)
     \/ /\ finished' = finished \cup {p}
        /\ Received(p) \cup {d.first} = Blocks(p)

LEMMA DeliveryTakes ==
  ASSUME PMTypeOK, CountsAreExact, BytesAreRight,
         NEW p \in Pieces \ finished, NEW d \in AnswersTo[p], IsRight(d),
         d.first \notin Received(p),
         Accepted(p, d) \/ Refused(p, d) \/ DeliverThrows(p, d)
  PROVE  Taken(p, d) /\ ~Refused(p, d)
  <1> DEFINE with == WithData(p, d)
             b == d.first
  <1>1. /\ with \in PendingPiece(p)
        /\ IsFinished(p, with) => Received(p) \cup {b} = Blocks(p)
        /\ IsFinished(p, with) => VerifyHash(p, with)
        /\ Answered(p, d) = {<<p, b>>}
    BY RightDelivery, RightBytes
  <1>2. ~Refused(p, d) /\ ~DeliverFinished(p)
    BY <1>1 DEF Refused, DeliverMismatch, DeliverFinished, AlreadyDone
  <1>3. CASE DeliverPartial(p, d) \/ DeliverThrows(p, d)
    <2>1. pendingPieces' = PutPending(p, with)
      BY <1>3 DEF DeliverPartial, DeliverThrows
    <2>2. /\ PieceBuffer(p)' = with
          /\ \A q \in Pieces \ {p} : PieceBuffer(q)' = PieceBuffer(q)
      BY <1>1, <2>1, PutPendingFacts
    <2>3. QED
      BY <1>1, <1>2, <1>3, <2>2 DEF Taken, DeliverPartial, DeliverThrows, resultVars
  <1>4. CASE DeliverVerified(p, d)
    <2>1. pendingPieces' = ErasePending(p) /\ Received(p) \cup {b} = Blocks(p)
      BY <1>1, <1>4 DEF DeliverVerified
    <2>2. \A q \in Pieces \ {p} : PieceBuffer(q)' = PieceBuffer(q)
      BY <2>1, ErasePendingFacts
    <2>3. QED
      BY <1>1, <1>2, <1>4, <2>1, <2>2 DEF Taken, DeliverVerified
  <1>5. QED
    BY <1>2, <1>3, <1>4 DEF Accepted

\* A step in which nothing of the manager's leases changes and no session
\* owes more than before.
LEMMA LeaseQuiet ==
  ASSUME LeaseInv, NEW s \in Sessions, OnlyMoves(s), AskedAreHeld',
         UNCHANGED pmVars, Owed(s)' \subseteq Owed(s)
  PROVE  LeaseInv'
  <1>1. \A t \in Sessions : /\ Owed(t)' \subseteq Owed(t)
                            /\ IsRetired(session[t]) => IsRetired(session'[t])
    BY DEF OnlyMoves
  <1>2. /\ pendingBlocks' = pendingBlocks /\ nextOffsets' = nextOffsets
        /\ finished' = finished /\ pendingPieces' = pendingPieces
    BY DEF pmVars
  <1>3. \A p \in Pieces : PieceBuffer(p)' = PieceBuffer(p)
    BY <1>2 DEF PieceBuffer
  <1>4. \A p \in Pieces : Received(p)' = Received(p)
    BY <1>3, OtherPieces
  <1>5. OwedAreServed' /\ HoldersOwnTheirBlocks'
    BY <1>1, <1>2 DEF LeaseInv, OwedAreServed, HoldersOwnTheirBlocks
  <1>6. ReservedAreMissing'
    BY <1>2, <1>4, BlockFacts DEF LeaseInv, ReservedAreMissing, Received, PieceBuffer
  <1>7. NeverAskedAgain'
    BY <1>1, <1>2, <1>4 DEF LeaseInv, NeverAskedAgain, NoneAsksFor
  <1>8. BytesAreRight' /\ CountsAreExact'
    BY <1>2, <1>3, <1>4 DEF LeaseInv, BytesAreRight, CountsAreExact
  <1>9. QED
    BY <1>5, <1>6, <1>7, <1>8 DEF LeaseInv

\* requestBlock: what it hands out is neither reserved nor received, for a
\* piece that s asks for has them all below its next offset.
LEMMA RequestIsFresh ==
  ASSUME PeersAreHonest, ShapeOK, IInv, LeaseInv, NEW s \in Sessions,
         NEW blk \in Block, Asks(s, blk)
  PROVE  /\ blk[1] \in Pieces \ finished
         /\ blk[2] \in Blocks(blk[1]) \ Received(blk[1])
         /\ blk \notin pendingBlocks
         /\ blk[1] \in PeerHas[s]
         /\ ~NoneAsksFor(blk[1])
         /\ nextOffsets[blk[1]] <= blk[2]
         /\ nextOffsets[blk[1]] \in Nat /\ blk[2] \in Nat
  <1> DEFINE p == blk[1]
             b == blk[2]
  <1>1. blk = <<p, b>> /\ p \in Pieces /\ b \in Blocks(p)
    BY BlockFacts
  <1>2. /\ p \in PeerHas[s] \ bitfield
        /\ b >= nextOffsets[p]
        /\ <<p, b>> \notin pendingBlocks
    BY DEF Asks, RequestBlock, Wanted, FreeBlocks, PeersAreHonest, ShapeOK, BitfieldsAreTrue
  <1>3. p \notin finished
    BY <1>2 DEF IInv, CompletionAgrees
  <1>4. ~NoneAsksFor(p)
    BY <1>2 DEF Asks, NoneAsksFor
  <1>5. nextOffsets[p] \in Nat /\ b \in Nat
    BY <1>1, BlocksFacts DEF IInv, PMTypeOK
  <1>6. b \notin Received(p)
    BY <1>1, <1>2, <1>3, <1>4, <1>5 DEF LeaseInv, NeverAskedAgain
  <1>7. QED
    BY <1>1, <1>2, <1>3, <1>4, <1>5, <1>6

LEMMA LeaseAsks ==
  ASSUME PeersAreHonest, ShapeOK, IInv, LeaseInv, NEW s \in Sessions, OnlyMoves(s), AskedAreHeld',
         NEW blk \in Block, Asks(s, blk)
  PROVE  LeaseInv'
  <1> DEFINE p == blk[1]
             b == blk[2]
  <1>1. /\ blk = <<p, b>>
        /\ p \in Pieces \ finished
        /\ b \in Blocks(p) \ Received(p)
        /\ blk \notin pendingBlocks
        /\ p \in PeerHas[s]
        /\ ~NoneAsksFor(p)
        /\ nextOffsets[p] <= b
        /\ nextOffsets[p] \in Nat /\ b \in Nat
    BY RequestIsFresh, BlockFacts
  <1>2. /\ pendingBlocks' = pendingBlocks \cup {blk}
        /\ nextOffsets' = [nextOffsets EXCEPT ![p] = b + 1]
        /\ finished' = finished /\ pendingPieces' = pendingPieces
    BY DEF Asks, RequestBlock, resultVars
  <1>3. Owed(s)' = Owed(s) \cup {blk}
    BY DEF Asks
  <1>4. \A q \in Pieces : PieceBuffer(q)' = PieceBuffer(q)
    BY <1>2 DEF PieceBuffer
  <1>5. \A q \in Pieces : Received(q)' = Received(q)
    BY <1>4, OtherPieces
  <1>6. \A t \in Sessions \ {s} : session'[t] = session[t] /\ Owed(t)' = Owed(t)
    BY DEF OnlyMoves
  <1>7. OwedAreServed'
    BY <1>1, <1>3, <1>6 DEF LeaseInv, OwedAreServed
  <1>8. HoldersOwnTheirBlocks'
    BY <1>1, <1>2, <1>3, <1>6 DEF LeaseInv, HoldersOwnTheirBlocks
  <1>9. ReservedAreMissing'
    <2>1. \A c \in pendingBlocks' : c[1] \notin finished /\ c[2] \notin Received(c[1])
      BY <1>1, <1>2 DEF LeaseInv, ReservedAreMissing
    <2>2. \A c \in pendingBlocks' : c \in Block
      BY <1>2 DEF IInv, PMTypeOK
    <2>3. QED
      BY <1>2, <1>5, <2>1, <2>2, BlockFacts DEF ReservedAreMissing, Received, PieceBuffer
  <1>10. NeverAskedAgain'
    <2> SUFFICES ASSUME NEW q \in Pieces \ finished, NEW c \in Blocks(q),
                        <<q, c>> \in pendingBlocks' \/ c \in Received(q)
                 PROVE  c < nextOffsets'[q] \/ NoneAsksFor(q)'
      BY <1>2, <1>5 DEF NeverAskedAgain
    <2>1. NoneAsksFor(q) => NoneAsksFor(q)'
      BY <1>6 DEF NoneAsksFor, OnlyMoves
    <2>2. nextOffsets \in [Pieces -> Nat] /\ c \in Nat
      BY BlocksFacts DEF IInv, PMTypeOK
    <2>3. CASE q # p
      BY <1>2, <2>1, <2>2, <2>3, <1>1 DEF LeaseInv, NeverAskedAgain
    <2>4. CASE q = p
      <3>1. nextOffsets'[p] = b + 1
        BY <1>1, <1>2, <2>2
      <3>2. c = b \/ c < nextOffsets[p]
        BY <1>1, <1>2, <2>4 DEF LeaseInv, NeverAskedAgain
      <3>3. QED
        BY <1>1, <2>2, <2>4, <3>1, <3>2
    <2>5. QED
      BY <2>3, <2>4
  <1>11. BytesAreRight' /\ CountsAreExact'
    BY <1>2, <1>4, <1>5 DEF LeaseInv, BytesAreRight, CountsAreExact
  <1>12. QED
    BY <1>7, <1>8, <1>9, <1>10, <1>11 DEF LeaseInv

\* returnBlock: the rewind exposes received blocks only of a piece nobody
\* will ask for.
LEMMA LeaseGivesBack ==
  ASSUME OneServerPerPiece, IInv, LeaseInv, NEW s \in Sessions, OnlyMoves(s),
         AskedAreHeld', NEW blk \in Block, GivesBack(s, blk)
  PROVE  LeaseInv' /\ ReturnBlock(blk)
  <1> DEFINE p == blk[1]
             b == blk[2]
  <1>1. /\ blk = <<p, b>>
        /\ p \in Pieces
        /\ b \in Blocks(p)
    BY BlockFacts
  <1>2. blk \in Owed(s) /\ blk \in pendingBlocks /\ ReturnBlock(blk)
    BY DEF GivesBack, LeaseInv, HoldersOwnTheirBlocks, ReturnRefused
  <1>3. /\ pendingBlocks' = pendingBlocks \ {blk}
        /\ nextOffsets' = [nextOffsets EXCEPT ![p] = RewindTo(@, b)]
        /\ finished' = finished /\ pendingPieces' = pendingPieces
    BY <1>2 DEF ReturnBlock, resultVars
  <1>4. Owed(s)' = Owed(s) \ {blk}
    BY DEF GivesBack
  <1>5. \A q \in Pieces : PieceBuffer(q)' = PieceBuffer(q)
    BY <1>3 DEF PieceBuffer
  <1>6. \A q \in Pieces : Received(q)' = Received(q)
    BY <1>5, OtherPieces
  <1>7. /\ \A t \in Sessions \ {s} : session'[t] = session[t] /\ Owed(t)' = Owed(t)
        /\ IsRetired(session[s]) /\ IsRetired(session'[s])
    BY DEF OnlyMoves, GivesBack
  <1>8. OwedAreServed'
    BY <1>4, <1>7 DEF LeaseInv, OwedAreServed
  <1>9. HoldersOwnTheirBlocks'
    BY <1>2, <1>3, <1>4, <1>7 DEF LeaseInv, HoldersOwnTheirBlocks
  <1>10. ReservedAreMissing'
    <2>1. \A c \in pendingBlocks' : c \in Block
      BY <1>3 DEF IInv, PMTypeOK
    <2>2. QED
      BY <1>3, <1>6, <2>1, BlockFacts DEF LeaseInv, ReservedAreMissing, Received, PieceBuffer
  <1>11. NeverAskedAgain'
    <2> SUFFICES ASSUME NEW q \in Pieces \ finished, NEW c \in Blocks(q),
                        <<q, c>> \in pendingBlocks' \/ c \in Received(q)
                 PROVE  c < nextOffsets'[q] \/ NoneAsksFor(q)'
      BY <1>3, <1>6 DEF NeverAskedAgain
    <2>1. NoneAsksFor(q) => NoneAsksFor(q)'
      BY <1>7 DEF NoneAsksFor
    <2>2. <<q, c>> \in pendingBlocks \/ c \in Received(q)
      BY <1>3
    <2>3. CASE q # p
      <3>1. nextOffsets'[q] = nextOffsets[q]
        BY <1>3, <2>3 DEF IInv, PMTypeOK
      <3>2. QED
        BY <2>1, <2>2, <3>1 DEF LeaseInv, NeverAskedAgain
    <2>4. CASE q = p
      <3>1. p \in PeerHas[s] /\ p \in Pieces
        BY <1>1, <1>2 DEF LeaseInv, OwedAreServed
      <3>2. CASE NumBlocks[p] = 1
        <4>1. c = 0 /\ b = 0
          BY <1>1, <2>4, <3>2 DEF Blocks
        <4>2. blk \in pendingBlocks => b \notin Received(p)
          BY DEF LeaseInv, ReservedAreMissing
        <4>3. QED
          BY <1>1, <1>2, <1>3, <2>4, <4>1, <4>2
      <3>3. CASE \A t \in Sessions : p \in PeerHas[t] => t = s
        BY <1>7, <2>4, <3>3 DEF NoneAsksFor
      <3>4. "lost" \in Faults
        BY DEF GivesBack
      <3>5. QED
        BY <3>1, <3>2, <3>3, <3>4 DEF OneServerPerPiece
    <2>5. QED
      BY <2>3, <2>4
  <1>12. BytesAreRight' /\ CountsAreExact'
    BY <1>3, <1>5, <1>6 DEF LeaseInv, BytesAreRight, CountsAreExact
  <1>13. QED
    BY <1>2, <1>8, <1>9, <1>10, <1>11, <1>12 DEF LeaseInv

\* deliverBlock: what an honest peer answers was asked for, is owed and still
\* missing, and is taken.
LEMMA HandsTakes ==
  ASSUME PeersAreHonest, IInv, ShapeOK, LeaseInv, NEW s \in Sessions,
         NEW p \in Pieces, NEW d \in AnswersTo[p], Hands(s, p, d)
  PROVE  /\ p \notin finished
         /\ d.first \in Blocks(p) \ Received(p)
         /\ IsRight(d)
         /\ <<p, d.first>> \in Block
         /\ <<p, d.first>> \in Owed(s)
         /\ Taken(p, d)
         /\ ~Refused(p, d)
         /\ \/ Accepted(p, d) /\ Owed(s)' = Owed(s) \ {<<p, d.first>>}
            \/ DeliverThrows(p, d) /\ Owed(s)' = {}
  <1> DEFINE b == d.first
             blk == <<p, b>>
  <1>1. b \in Blocks(p) /\ blk \in Block
    BY AnswerFacts, BlockFacts
  <1>2. session[s].pc = "read" /\ blk \in asked[s] /\ IsRight(d)
    BY DEF Hands, PeersAreHonest
  <1>3. blk \in Owed(s)
    BY <1>2 DEF LeaseInv, AskedAreHeld, IsRetired, Owed
  <1>4. p \notin finished /\ b \notin Received(p)
    <2>1. blk \in pendingBlocks
      BY <1>3 DEF LeaseInv, HoldersOwnTheirBlocks
    <2>2. QED
      BY <2>1 DEF LeaseInv, ReservedAreMissing
  <1>5. \/ Accepted(p, d) /\ Owed(s)' = Owed(s) \ {blk}
        \/ Refused(p, d)
        \/ DeliverThrows(p, d) /\ Owed(s)' = {}
    BY <1>2, RightBytes DEF Hands
  <1>6. Taken(p, d) /\ ~Refused(p, d)
    BY <1>2, <1>4, <1>5, DeliveryTakes DEF IInv, LeaseInv
  <1>7. QED
    BY <1>1, <1>2, <1>3, <1>4, <1>5, <1>6

LEMMA LeaseHands ==
  ASSUME PeersAreHonest, IInv, ShapeOK, LeaseInv, NEW s \in Sessions,
         OnlyMoves(s), AskedAreHeld', NEW p \in Pieces, NEW d \in AnswersTo[p],
         Hands(s, p, d)
  PROVE  LeaseInv'
  <1> DEFINE b == d.first
             blk == <<p, b>>
             with == WithData(p, d)
  <1>1. /\ p \in Pieces \ finished
        /\ b \in Blocks(p) \ Received(p)
        /\ IsRight(d)
        /\ blk \in Owed(s)
        /\ Taken(p, d)
        /\ Owed(s)' \subseteq Owed(s) \ {blk}
    BY HandsTakes
  <1>2. /\ pendingBlocks' = pendingBlocks \ {blk}
        /\ nextOffsets' = nextOffsets
        /\ finished \subseteq finished' /\ finished' \subseteq finished \cup {p}
        /\ \A q \in Pieces \ {p} : PieceBuffer(q)' = PieceBuffer(q)
    BY <1>1 DEF Taken
  <1>3. \A q \in Pieces \ {p} : Received(q)' = Received(q)
    BY <1>2, OtherPieces
  <1>4. \/ /\ p \notin finished'
           /\ PieceBuffer(p)' = with
           /\ Received(p)' = Received(p) \cup {b}
           /\ PieceBuffer(p)'.blocksReceived = Cardinality(Received(p)')
           /\ \A c \in Received(p)' : PieceBuffer(p)'.data[c] = c
        \/ /\ p \in finished'
           /\ Received(p) \cup {b} = Blocks(p)
    <2>1. CASE finished' = finished /\ PieceBuffer(p)' = with
      <3>1. /\ with.blocksReceived = Cardinality(Received(p) \cup {b})
            /\ \A c \in Blocks(p) : with.data[c] # Blank <=> c \in Received(p) \cup {b}
            /\ \A c \in Received(p) \cup {b} : with.data[c] = c
        BY <1>1, RightDelivery DEF IInv, LeaseInv
      <3> HIDE DEF with
      <3>2. Received(p)' = Received(p) \cup {b}
        <4>1. Received(p)' = {c \in Blocks(p) : with.data[c] # Blank}
          BY <2>1 DEF Received
        <4>2. Received(p) \cup {b} \subseteq Blocks(p)
          BY <1>1 DEF Received
        <4>3. QED
          BY <3>1, <4>1, <4>2
      <3>3. QED
        BY <1>1, <2>1, <3>1, <3>2
    <2>2. QED
      BY <1>1, <2>1 DEF Taken
  <1>5. /\ \A t \in Sessions \ {s} : session'[t] = session[t] /\ Owed(t)' = Owed(t)
        /\ \A t \in Sessions : IsRetired(session[t]) => IsRetired(session'[t])
    BY DEF OnlyMoves
  <1>6. OwedAreServed'
    BY <1>1, <1>5 DEF LeaseInv, OwedAreServed
  <1>7. HoldersOwnTheirBlocks'
    BY <1>1, <1>2, <1>5 DEF LeaseInv, HoldersOwnTheirBlocks
  <1>8. ReservedAreMissing'
    <2> SUFFICES ASSUME NEW c \in pendingBlocks'
                 PROVE  c[1] \notin finished' /\ c[2] \notin Received(c[1])'
      BY DEF ReservedAreMissing
    <2>1. /\ c \in pendingBlocks /\ c # blk
          /\ c[1] \in Pieces /\ c[2] \in Blocks(c[1]) /\ c = <<c[1], c[2]>>
          /\ c[1] \notin finished /\ c[2] \notin Received(c[1])
      BY <1>2, BlockFacts DEF IInv, PMTypeOK, LeaseInv, ReservedAreMissing
    <2>2. CASE c[1] # p
      BY <1>2, <1>3, <2>1, <2>2
    <2>3. CASE c[1] = p
      <3>1. c[2] # b
        BY <2>1, <2>3
      <3>2. c[2] \notin Received(p) \cup {b} /\ c[2] \in Blocks(p)
        BY <2>1, <2>3, <3>1
      <3>3. QED
        BY <1>4, <2>3, <3>2
    <2>4. QED
      BY <2>2, <2>3
  <1>9. NeverAskedAgain'
    <2> SUFFICES ASSUME NEW q \in Pieces \ finished', NEW c \in Blocks(q),
                        <<q, c>> \in pendingBlocks' \/ c \in Received(q)'
                 PROVE  c < nextOffsets[q] \/ NoneAsksFor(q)'
      BY <1>2 DEF NeverAskedAgain
    <2>1. NoneAsksFor(q) => NoneAsksFor(q)'
      BY <1>5 DEF NoneAsksFor
    <2>2. blk \in pendingBlocks
      BY <1>1 DEF LeaseInv, HoldersOwnTheirBlocks
    <2>3. <<q, c>> \in pendingBlocks \/ c \in Received(q)
      BY <1>1, <1>2, <1>3, <1>4, <2>2
    <2>4. QED
      BY <1>2, <2>1, <2>3 DEF LeaseInv, NeverAskedAgain
  <1>10. BytesAreRight'
    BY <1>2, <1>3, <1>4 DEF LeaseInv, BytesAreRight
  <1>11. CountsAreExact'
    BY <1>2, <1>3, <1>4 DEF LeaseInv, CountsAreExact
  <1>12. QED
    BY <1>6, <1>7, <1>8, <1>9, <1>10, <1>11 DEF LeaseInv

\* The request loop changes no set before the write is done.
LEMMA FillKeepsHeld ==
  ASSUME SessionsOK, NEW s \in Sessions, NEW t \in Sessions, Fill(s)
  PROVE  session'[t].held = session[t].held
  <1> DEFINE r == session[s]
             n == r.needed - 1
             pc == LoopPc(n)
  <1>1. r \in SessionRecord /\ session \in [Sessions -> SessionRecord]
    BY DEF SessionsOK
  <1>2. CASE session' = [session EXCEPT ![s] = [r EXCEPT !.needed = n, !.pc = pc]]
    <2>1. [r EXCEPT !.needed = n, !.pc = pc].held = r.held
      BY <1>1 DEF SessionRecord
    <2>2. QED
      BY <1>1, <1>2, <2>1
  <1>3. ASSUME NEW blk \in Block,
               session' = [session EXCEPT
                 ![s] = [r EXCEPT !.current = {blk}, !.pc = "write"]]
        PROVE  session'[t].held = session[t].held
    <2>1. [r EXCEPT !.current = {blk}, !.pc = "write"].held = r.held
      BY <1>1 DEF SessionRecord
    <2>2. QED
      BY <1>1, <1>3, <2>1
  <1>4. QED
    BY <1>1, <1>2, <1>3 DEF Fill

\* A peer's queue loses what it answered together with the session's set.
LEMMA AskedStep ==
  ASSUME PeersAreHonest, ShapeOK, AskedAreHeld, PSNext
  PROVE  AskedAreHeld'
  <1> SUFFICES ASSUME NEW t \in Sessions, ~IsRetired(session'[t])
               PROVE  asked'[t] \subseteq session'[t].held
    BY DEF AskedAreHeld
  <1>0. /\ session \in [Sessions -> SessionRecord]
        /\ asked \in [Sessions -> SUBSET Block]
    BY DEF ShapeOK, SessionsOK, ConnectionsOK
  <1>1. PICK s \in Sessions : SessionStep(s) \/ PeerServes(s) \/ Disturbance(s)
    BY DEF PSNext
  <1>2. PICK u \in Sessions : OnlyMoves(u) /\ Effect(u)
    BY StepEffect DEF ShapeOK, PeersAreHonest
  <1>3. ~IsRetired(session[t])
    BY <1>2 DEF OnlyMoves
  <1>4. asked[t] \subseteq session[t].held
    BY <1>3 DEF AskedAreHeld
  <1>5. session[t] \in SessionRecord
    BY <1>0
  <1>6. CASE Connect(s) \/ Handshake(s) \/ Bitfields(s) \/ ReceiveUnchoke(s)
             \/ Fill(s)
    <2>1. asked' = asked
      BY <1>6 DEF Connect, Handshake, Bitfields, ReceiveBitfield, ReceiveUnchoke, Fill
    <2>2. session'[t].held = session[t].held
      <3>1. CASE Connect(s) \/ Handshake(s) \/ ReceiveUnchoke(s)
        BY <1>0, <1>5, <3>1 DEF Connect, Handshake, ReceiveUnchoke, SessionRecord
      <3>2. CASE Bitfields(s)
        <4>1. PICK ok \in BOOLEAN, bits \in SUBSET Pieces :
                session' = [session EXCEPT ![s] =
                  [session[s] EXCEPT !.loaded = ok, !.has = bits, !.state = "READY"]]
          BY <3>2, BitfieldMoves DEF ShapeOK
        <4>2. session[s] \in SessionRecord
          BY <1>0
        <4>3. [session[s] EXCEPT !.loaded = ok, !.has = bits, !.state = "READY"].held
                = session[s].held
          BY <4>2 DEF SessionRecord
        <4>4. QED
          BY <1>0, <4>1, <4>3
      <3>3. CASE Fill(s)
        BY <1>0, <3>3, FillKeepsHeld DEF ShapeOK
      <3>4. QED
        BY <1>6, <3>1, <3>2, <3>3
    <2>3. QED
      BY <1>4, <2>1, <2>2
  <1>7. CASE FillWithoutBitfield(s) \/ Break(s)
    BY <1>4, <1>7 DEF FillWithoutBitfield, Break
  <1>8. CASE HandshakeThrows(s) \/ ReceiveShortPiece(s)
    BY <1>0, <1>4, <1>8, EndedOwes DEF HandshakeThrows, ReceiveShortPiece
  <1>9. CASE ReceiveChoke(s)
    BY <1>0, <1>4, <1>5, <1>9 DEF ReceiveChoke, SessionRecord
  <1>10. CASE WriteSucceeds(s)
    BY <1>0, <1>4, <1>5, <1>10 DEF WriteSucceeds, SessionRecord
  <1>11. CASE WriteFails(s)
    BY <1>11 DEF WriteFails, PeersAreHonest
  <1>12. CASE ReadFails(s) \/ Returning(s)
    <2>1. t # s
      <3> DEFINE r == session[s]
      <3>1. CASE ReadFails(s)
        <4>1. session'[s] \in {EndedSession, [r EXCEPT !.state = "ERROR",
                                                       !.toReturn = r.held,
                                                       !.pc = "returning"]}
          BY <1>0, <3>1 DEF ReadFails
        <4>2. IsRetired(session'[s])
          BY <1>0, <4>1, EndedOwes DEF IsRetired, SessionRecord
        <4>3. QED
          BY <4>2
      <3>2. CASE Returning(s)
        <4>1. IsRetired(session[s])
          BY <3>2 DEF Returning, At, IsRetired
        <4>2. QED
          BY <1>3, <4>1
      <3>3. QED
        BY <1>12, <3>1, <3>2
    <2>2. session'[t] = session[t] /\ asked' = asked
      BY <1>0, <1>12, <2>1 DEF ReadFails, Returning
    <2>3. QED
      BY <1>4, <2>2
  <1>13. ASSUME NEW p \in Pieces, NEW d \in AnswersTo[p], Gives(s, p, d)
         PROVE  asked'[t] \subseteq session'[t].held
    <2> DEFINE blk == <<p, d.first>>
    <2>1. /\ asked' = [asked EXCEPT ![s] = asked[s] \ {blk}]
          /\ Answered(p, d) = {blk}
      BY <1>13, RightBytes DEF Gives, PeersAreHonest
    <2> HIDE DEF blk
    <2>2. \/ Refill(s, {blk})
          \/ session' = session
          \/ session' = [session EXCEPT ![s] = EndedSession]
      BY <1>13, <2>1 DEF Gives, ReceivePiece
    <2>3. CASE Refill(s, {blk})
      <3>1. session'[t].held = IF t = s THEN session[s].held \ {blk}
                               ELSE session[t].held
        BY <1>0, <1>5, <2>3 DEF Refill, SessionRecord
      <3>2. QED
        BY <1>0, <1>4, <2>1, <3>1
    <2>4. CASE session' = session
      BY <1>0, <1>4, <2>1, <2>4
    <2>5. CASE session' = [session EXCEPT ![s] = EndedSession]
      BY <1>0, <1>4, <2>1, <2>5, EndedOwes
    <2>6. QED
      BY <2>2, <2>3, <2>4, <2>5
  <1>14. ~Overruns(s)
    BY DEF Overruns, PeersAreHonest
  <1>15. QED
    BY <1>1, <1>6, <1>7, <1>8, <1>9, <1>10, <1>11, <1>12, <1>13, <1>14, Arrivals
       DEF SessionStep

LEMMA LeaseStep ==
  ASSUME PeersAreHonest, OneServerPerPiece, IInv, ShapeOK, LeaseInv, PSNext
  PROVE  LeaseInv'
  <1>1. AskedAreHeld'
    BY AskedStep DEF LeaseInv
  <1>2. PICK s \in Sessions : OnlyMoves(s) /\ Effect(s)
    BY StepEffect DEF ShapeOK, PeersAreHonest
  <1>3. ~Spills(s)
    BY DEF Spills, PeersAreHonest
  <1>4. QED
    BY <1>1, <1>2, <1>3, LeaseQuiet, LeaseAsks, LeaseGivesBack, LeaseHands
       DEF Effect, Quiet, Dies

\* The lease invariant holds of every reachable state.
THEOREM LeaseInvariant ==
  ASSUME PeersAreHonest, OneServerPerPiece
  PROVE  PSSpec => [](IInv /\ ShapeOK /\ LeaseInv)
  <1>1. IInv /\ ShapeOK /\ LeaseInv /\ [PSNext]_psVars => LeaseInv'
    <2>1. ASSUME LeaseInv, UNCHANGED psVars PROVE LeaseInv'
      BY <2>1 DEF psVars, pmVars, LeaseInv, AskedAreHeld, OwedAreServed,
         HoldersOwnTheirBlocks, ReservedAreMissing, NeverAskedAgain,
         BytesAreRight, CountsAreExact, NoneAsksFor, Owed, Received, PieceBuffer
    <2>2. QED
      BY <2>1, LeaseStep
  <1>2. PSSpec => []ShapeOK
    BY ShapeInvariant DEF PeersAreHonest
  <1>3. QED
    BY <1>1, <1>2, LeaseInit, SessionsKeepTheManagerSound, PTL DEF PSSpec

\* However requests, answers and returned blocks interleave, no block has two
\* takers and none is out that the manager believes to be free.
THEOREM BlocksHaveOneHolder ==
  ASSUME PeersAreHonest, OneServerPerPiece
  PROVE  PSSpec => []HoldersOwnTheirBlocks
  <1>1. LeaseInv => HoldersOwnTheirBlocks
    BY DEF LeaseInv
  <1>2. QED
    BY <1>1, LeaseInvariant, PTL

\* No delivery is counted twice: a piece is hashed with all of its blocks.
THEOREM DeliveriesAreCountedOnce ==
  ASSUME PeersAreHonest, OneServerPerPiece
  PROVE  PSSpec => []CountsAreExact
  <1>1. LeaseInv => CountsAreExact
    BY DEF LeaseInv
  <1>2. QED
    BY <1>1, LeaseInvariant, PTL

-----------------------------------------------------------------------------
(* The refinement of BlockLease *)

\* The block is in its piece's buffer or on disk.
Has(blk) == blk[1] \in finished \/ blk[2] \in Received(blk[1])

\* The owner each block is mapped to.
LEMMA HolderFacts ==
  HoldersOwnTheirBlocks /\ ReservedAreMissing =>
    \A blk \in Block :
      /\ Has(blk) => Holder(blk) = "got"
      /\ ~Has(blk) /\ (\A s \in Sessions : blk \notin Owed(s)) => Holder(blk) = "free"
      /\ \A s \in Sessions : blk \in Owed(s) => ~Has(blk) /\ Holder(blk) = s
  <1> SUFFICES ASSUME HoldersOwnTheirBlocks, ReservedAreMissing,
                      NEW blk \in Block, NEW s \in Sessions, blk \in Owed(s)
               PROVE  ~Has(blk) /\ Holder(blk) = s
    BY DEF Holder, Has
  <1>1. ~Has(blk)
    BY DEF HoldersOwnTheirBlocks, ReservedAreMissing, Has
  <1>2. \A t \in Sessions : blk \in Owed(t) => t = s
    BY DEF HoldersOwnTheirBlocks
  <1>3. QED
    BY <1>1, <1>2 DEF Holder, Has

\* A piece is verified exactly when all of its blocks are there.
FinishedIsWhole == finished = Leases!Whole([blk \in Block |-> Holder(blk)])

LEMMA WholeIsFinished ==
  IInv /\ CountsAreExact /\ stream # "closed" /\ "got" \notin Sessions => FinishedIsWhole
  <1> SUFFICES ASSUME IInv, CountsAreExact, stream # "closed", "got" \notin Sessions
               PROVE  finished = Leases!Whole([blk \in Block |-> Holder(blk)])
    BY DEF FinishedIsWhole
  <1> DEFINE own == [blk \in Block |-> Holder(blk)]
  <1>1. \A blk \in Block : own[blk] = "got" <=> Has(blk)
    BY DEF Holder, Has
  <1>2. \A p \in Pieces : p \in finished <=> \A b \in Blocks(p) : Has(<<p, b>>)
    <2> SUFFICES ASSUME NEW p \in Pieces \ finished,
                        \A b \in Blocks(p) : Has(<<p, b>>)
                 PROVE  FALSE
      BY DEF Has
    <2>1. Received(p) = Blocks(p)
      BY DEF Has, Received
    <2>2. /\ PieceBuffer(p).blocksReceived = Cardinality(Received(p))
          /\ PieceBuffer(p).blocksReceived < NumBlocks[p]
      BY DEF IInv, CountsAreExact, AnswersAreCounted
    <2>3. /\ Cardinality(Received(p)) = NumBlocks[p]
          /\ NumBlocks[p] \in Nat
      BY <2>1, SettledFacts, BlocksFacts
    <2>4. QED
      BY <2>2, <2>3
  <1> HIDE DEF own
  <1>3. \A p \in Pieces : \E b \in Blocks(p) : <<p, b>> \in Block
    BY BlocksFacts, BlockFacts
  <1>4. Leases!Whole(own) =
          {blk[1] : blk \in {b \in Block : \A c \in Block : c[1] = b[1] => own[c] = "got"}}
    BY DEF Leases!Whole, PieceOf
  <1>5. finished \subseteq Pieces
    BY DEF IInv, PMTypeOK
  <1>6. ASSUME NEW p \in finished
        PROVE  p \in Leases!Whole(own)
    <2>1. PICK b \in Blocks(p) : <<p, b>> \in Block
      BY <1>3, <1>5
    <2>2. \A c \in Block : c[1] = p => own[c] = "got"
      BY <1>1 DEF Has
    <2>3. QED
      BY <1>4, <2>1, <2>2
  <1>7. ASSUME NEW p \in Leases!Whole(own)
        PROVE  p \in finished
    <2>1. PICK blk \in Block : /\ p = blk[1]
                               /\ \A c \in Block : c[1] = blk[1] => own[c] = "got"
      BY <1>4
    <2>2. p \in Pieces /\ \A b \in Blocks(p) : Has(<<p, b>>)
      BY <1>1, <2>1, BlockFacts
    <2>3. QED
      BY <1>2, <2>2
  <1>8. QED
    BY <1>6, <1>7 DEF own

\* Where sessions end only with what they hold given back, and no session is
\* called like the owner of a received block.
NothingIsDropped ==
  "short" \notin Faults /\ "closed" \notin StreamFaults /\ "got" \notin Sessions

Owner == [blk \in Block |-> Holder(blk)]

\* The same facts about the next state.
LEMMA HolderFactsNext ==
  ASSUME LeaseInv, LeaseInv'
  PROVE  \A blk \in Block :
           /\ /\ Has(blk) => Holder(blk) = "got"
              /\ ~Has(blk) /\ (\A s \in Sessions : blk \notin Owed(s)) => Holder(blk) = "free"
              /\ \A s \in Sessions : blk \in Owed(s) => ~Has(blk) /\ Holder(blk) = s
           /\ /\ Has(blk)' => Holder(blk)' = "got"
              /\ ~Has(blk)' /\ (\A s \in Sessions : blk \notin Owed(s)') => Holder(blk)' = "free"
              /\ \A s \in Sessions : blk \in Owed(s)' => ~Has(blk)' /\ Holder(blk)' = s
  <1>1. /\ HoldersOwnTheirBlocks /\ ReservedAreMissing
        /\ HoldersOwnTheirBlocks' /\ ReservedAreMissing'
    BY DEF LeaseInv
  <1>2. (HoldersOwnTheirBlocks /\ ReservedAreMissing =>
           \A blk \in Block :
             /\ Has(blk) => Holder(blk) = "got"
             /\ ~Has(blk) /\ (\A s \in Sessions : blk \notin Owed(s)) => Holder(blk) = "free"
             /\ \A s \in Sessions : blk \in Owed(s) => ~Has(blk) /\ Holder(blk) = s)'
    BY HolderFacts, PTL
  <1>3. QED
    BY <1>1, <1>2, HolderFacts

\* A block that is not touched keeps its owner.
LEMMA OwnerKept ==
  ASSUME LeaseInv, LeaseInv', NEW blk \in Block,
         Has(blk)' = Has(blk),
         \A s \in Sessions : blk \in Owed(s)' <=> blk \in Owed(s)
  PROVE  Holder(blk)' = Holder(blk)
  <1>1. CASE Has(blk)
    BY <1>1, HolderFactsNext
  <1>2. CASE ~Has(blk) /\ \A s \in Sessions : blk \notin Owed(s)
    BY <1>2, HolderFactsNext
  <1>3. CASE \E s \in Sessions : blk \in Owed(s)
    BY <1>3, HolderFactsNext
  <1>4. QED
    BY <1>1, <1>2, <1>3

LEMMA LeasesKept ==
  ASSUME LeaseInv, LeaseInv', NEW s \in Sessions, OnlyMoves(s), Quiet(s)
  PROVE  UNCHANGED <<Owner, finished>>
  <1>1. finished' = finished /\ pendingPieces' = pendingPieces
    BY DEF Quiet, pmVars
  <1>2. \A blk \in Block : Has(blk)' = Has(blk)
    BY <1>1 DEF Has, Received, PieceBuffer
  <1>3. \A t \in Sessions : Owed(t)' = Owed(t)
    BY DEF OnlyMoves, Quiet
  <1>4. \A blk \in Block : Holder(blk)' = Holder(blk)
    BY <1>2, <1>3, OwnerKept
  <1>5. QED
    BY <1>1, <1>4 DEF Owner

LEMMA LeasesAsk ==
  ASSUME PeersAreHonest, ShapeOK, IInv, LeaseInv, LeaseInv', NEW s \in Sessions,
         OnlyMoves(s), NEW blk \in Block, Asks(s, blk)
  PROVE  Leases!Lease(s, blk)
  <1>1. finished' = finished /\ pendingPieces' = pendingPieces
    BY DEF Asks, RequestBlock, resultVars
  <1>2. \A c \in Block : Has(c)' = Has(c)
    BY <1>1 DEF Has, Received, PieceBuffer
  <1>3. /\ \A t \in Sessions \ {s} : Owed(t)' = Owed(t)
        /\ Owed(s)' = Owed(s) \cup {blk}
    BY DEF OnlyMoves, Asks
  <1>4. \A c \in Block \ {blk} : Holder(c)' = Holder(c)
    BY <1>2, <1>3, OwnerKept
  <1>5. Holder(blk) = "free"
    <2>1. ~Has(blk) /\ blk \notin pendingBlocks
      BY RequestIsFresh DEF Has
    <2>2. \A t \in Sessions : blk \notin Owed(t)
      BY <2>1 DEF LeaseInv, HoldersOwnTheirBlocks
    <2>3. QED
      BY <2>1, <2>2, HolderFactsNext
  <1>6. Holder(blk)' = s
    BY <1>3, HolderFactsNext
  <1>7. Owner' = [Owner EXCEPT ![blk] = s] /\ Owner[blk] = "free"
    BY <1>4, <1>5, <1>6 DEF Owner
  <1>8. QED
    BY <1>1, <1>7 DEF Leases!Lease, Owner

LEMMA LeasesGiveBack ==
  ASSUME LeaseInv, LeaseInv', NEW s \in Sessions, OnlyMoves(s),
         NEW blk \in Block, GivesBack(s, blk)
  PROVE  Leases!GiveBack(s, blk)
  <1>1. finished' = finished /\ pendingPieces' = pendingPieces
    BY DEF GivesBack, ReturnBlock, ReturnRefused, pmVars, resultVars
  <1>2. \A c \in Block : Has(c)' = Has(c)
    BY <1>1 DEF Has, Received, PieceBuffer
  <1>3. /\ \A t \in Sessions \ {s} : Owed(t)' = Owed(t)
        /\ Owed(s)' = Owed(s) \ {blk} /\ blk \in Owed(s)
    BY DEF OnlyMoves, GivesBack
  <1>4. \A c \in Block \ {blk} : Holder(c)' = Holder(c)
    BY <1>2, <1>3, OwnerKept
  <1>5. Holder(blk) = s /\ ~Has(blk)
    BY <1>3, HolderFactsNext
  <1>6. Holder(blk)' = "free"
    <2>1. \A t \in Sessions : blk \notin Owed(t)'
      BY <1>3 DEF LeaseInv, HoldersOwnTheirBlocks
    <2>2. QED
      BY <1>2, <1>5, <2>1, HolderFactsNext
  <1>7. Owner' = [Owner EXCEPT ![blk] = "free"] /\ Owner[blk] = s
    BY <1>4, <1>5, <1>6 DEF Owner
  <1>8. QED
    BY <1>1, <1>7 DEF Leases!GiveBack, Owner

\* A delivery receives its block, and verifies the piece with the last one.
LEMMA LeasesReceive ==
  ASSUME PeersAreHonest, NothingIsDropped, IInv, ShapeOK, LeaseInv, IInv', LeaseInv',
         stream # "closed", stream' # "closed", NEW s \in Sessions, OnlyMoves(s),
         NEW p \in Pieces, NEW d \in AnswersTo[p], Hands(s, p, d)
  PROVE  <<p, d.first>> \in Block /\ Leases!Receive(s, <<p, d.first>>)
  <1> DEFINE b == d.first
             blk == <<p, b>>
             with == WithData(p, d)
  <1>1. /\ blk \in Block
        /\ p \in Pieces \ finished
        /\ b \in Blocks(p) \ Received(p)
        /\ IsRight(d)
        /\ blk \in Owed(s)
        /\ Taken(p, d)
    BY HandsTakes
  <1>0. \A c \in Blocks(p) : with.data[c] # Blank <=> c \in Received(p) \cup {b}
    <2>1. PMTypeOK /\ CountsAreExact /\ BytesAreRight
      BY DEF IInv, LeaseInv
    <2>2. QED
      BY <1>1, <2>1, RightDelivery
  <1> HIDE DEF with
  <1>2. Owed(s)' = Owed(s) \ {blk}
    BY HandsTakes, DeliveryFrees
  <1>3. \A t \in Sessions \ {s} : Owed(t)' = Owed(t)
    BY DEF OnlyMoves
  <1>4. \A c \in Block \ {blk} : Has(c)' = Has(c)
    <2> SUFFICES ASSUME NEW c \in Block \ {blk}
                 PROVE  Has(c)' = Has(c)
      OBVIOUS
    <2>1. c = <<c[1], c[2]>> /\ c[1] \in Pieces /\ c[2] \in Blocks(c[1])
      BY BlockFacts
    <2>2. CASE c[1] # p
      <3>1. Received(c[1])' = Received(c[1])
        BY <1>1, <2>1, <2>2, OtherPieces DEF Taken
      <3>2. c[1] \in finished' <=> c[1] \in finished
        BY <1>1, <2>2 DEF Taken
      <3>3. QED
        BY <3>1, <3>2 DEF Has
    <2>3. CASE c[1] = p
      <3>1. c[2] # b
        BY <1>1, <2>1, <2>3
      <3>2. CASE finished' = finished /\ PieceBuffer(p)' = with
        <4>1. Received(p)' = {e \in Blocks(p) : with.data[e] # Blank}
          BY <3>2 DEF Received
        <4>2. c[2] \in Received(p)' <=> c[2] \in Received(p)
          BY <1>0, <2>1, <2>3, <3>1, <4>1
        <4>3. QED
          BY <2>3, <3>2, <4>2 DEF Has
      <3>3. CASE finished' = finished \cup {p} /\ Received(p) \cup {b} = Blocks(p)
        BY <2>1, <2>3, <3>1, <3>3 DEF Has
      <3>4. QED
        BY <1>1, <3>2, <3>3 DEF Taken, with
    <2>4. QED
      BY <2>2, <2>3
  <1>5. Has(blk)'
    <2>1. CASE finished' = finished /\ PieceBuffer(p)' = with
      BY <1>0, <1>1, <2>1 DEF Has, Received
    <2>2. CASE finished' = finished \cup {p}
      BY <2>2 DEF Has
    <2>3. QED
      BY <1>1, <2>1, <2>2 DEF Taken, with
  <1>6. \A c \in Block \ {blk} : Holder(c)' = Holder(c)
    BY <1>2, <1>3, <1>4, OwnerKept
  <1>7. Holder(blk) = s /\ Holder(blk)' = "got"
    BY <1>1, <1>5, HolderFactsNext
  <1>8. Owner' = [Owner EXCEPT ![blk] = "got"] /\ Owner[blk] = s
    BY <1>1, <1>6, <1>7 DEF Owner
  <1>9. finished' = Leases!Whole(Owner)'
    <2>1. (IInv /\ CountsAreExact /\ stream # "closed" /\ "got" \notin Sessions
             => FinishedIsWhole)'
      BY WholeIsFinished, PTL
    <2>2. FinishedIsWhole'
      BY <2>1 DEF NothingIsDropped, LeaseInv
    <2>3. QED
      BY <2>2 DEF Owner, FinishedIsWhole
  <1>10. QED
    BY <1>1, <1>8, <1>9 DEF Leases!Receive, Owner

\* The sessions and the manager implement the lease of blocks: each step of
\* a session is one of its operations or changes nothing of it.
THEOREM SessionsImplementLeases ==
  ASSUME PeersAreHonest, OneServerPerPiece, NothingIsDropped
  PROVE  PSSpec => SessionsLeaseBlocks
  <1> DEFINE Inv  == IInv /\ ShapeOK /\ LeaseInv
             Open == stream # "closed"
  <1>1. PSInit => Leases!Init
    <2> SUFFICES ASSUME PSInit PROVE Leases!Init
      OBVIOUS
    <2>1. finished = {}
      BY DEF PSInit, PMInit
    <2>2. \A p \in Pieces : Received(p) = {}
      BY FreshPieceFacts DEF PSInit, PMInit, PieceBuffer, Received
    <2>3. \A s \in Sessions : Owed(s) = {}
      BY DEF PSInit, Owed, NewSession
    <2>4. \A blk \in Block : Holder(blk) = "free"
      BY <2>1, <2>2, <2>3, BlockFacts DEF Holder
    <2>5. QED
      BY <2>1, <2>4 DEF Leases!Init
  <1>2. PSInit => Open
    BY DEF PSInit, PMInit, NothingIsDropped
  <1>3. Inv /\ Open /\ [PSNext]_psVars => Open'
    <2>1. UNCHANGED psVars => UNCHANGED pmVars
      BY DEF psVars
    <2>2. QED
      BY <2>1, StepIsManagerStep, StreamStep DEF ShapeOK
  <1>4. Inv /\ Inv' /\ Open /\ Open' /\ [PSNext]_psVars
          => [Leases!Next]_(Leases!vars)
    <2> SUFFICES ASSUME Inv, Inv', Open, Open', [PSNext]_psVars
                 PROVE  [Leases!Next]_(Leases!vars)
      OBVIOUS
    <2>1. UNCHANGED <<Owner, finished>> => UNCHANGED Leases!vars
      BY DEF Leases!vars, Owner
    <2>2. CASE UNCHANGED psVars
      <3>1. \A blk \in Block : Holder(blk)' = Holder(blk)
        BY <2>2 DEF psVars, pmVars, Holder, Owed, Received, PieceBuffer
      <3>2. QED
        BY <2>1, <2>2, <3>1 DEF psVars, pmVars, Owner
    <2>3. CASE PSNext
      <3>1. PICK s \in Sessions : OnlyMoves(s) /\ Effect(s)
        BY <2>3, StepEffect DEF ShapeOK, PeersAreHonest
      <3>2. CASE Quiet(s)
        BY <2>1, <3>1, <3>2, LeasesKept
      <3>3. ~Dies(s)
        BY DEF Dies, NothingIsDropped
      <3>4. ASSUME NEW blk \in Block, Asks(s, blk) \/ GivesBack(s, blk)
            PROVE  Leases!Next
        <4>1. Leases!Lease(s, blk) \/ Leases!GiveBack(s, blk)
          BY <3>1, <3>4, LeasesAsk, LeasesGiveBack
        <4>2. QED
          BY <4>1 DEF Leases!Next
      <3>5. ASSUME NEW p \in Pieces, NEW d \in AnswersTo[p], Hands(s, p, d)
            PROVE  Leases!Next
        BY <3>1, <3>5, LeasesReceive DEF Leases!Next
      <3>6. ~Spills(s)
        BY DEF Spills, PeersAreHonest
      <3>7. QED
        BY <3>1, <3>2, <3>3, <3>4, <3>5, <3>6 DEF Effect
    <2>4. QED
      BY <2>2, <2>3
  <1>5. PSSpec => []Inv
    BY LeaseInvariant
  <1> HIDE DEF Inv, Open
  <1>6. QED
    BY <1>1, <1>2, <1>3, <1>4, <1>5, PTL DEF PSSpec, SessionsLeaseBlocks, Leases!Spec

-----------------------------------------------------------------------------
(* Sessions wait for answers *)

\* While its connection is up, what a session holds is in the peer's queue,
\* in the request loop as well as while it reads.
HeldAreAsked ==
  \A s \in Sessions :
    ~IsRetired(session[s]) /\ link[s] = "up" => session[s].held \subseteq asked[s]

LEMMA HeldAreAskedStep ==
  ASSUME PeersAreHonest, "choke" \notin Faults, IInv, ShapeOK, LeaseInv,
         HeldAreAsked, PSNext
  PROVE  HeldAreAsked'
  <1> SUFFICES ASSUME NEW t \in Sessions, ~IsRetired(session'[t]), link'[t] = "up"
               PROVE  session'[t].held \subseteq asked'[t]
    BY DEF HeldAreAsked
  <1>0. /\ session \in [Sessions -> SessionRecord]
        /\ asked \in [Sessions -> SUBSET Block]
        /\ link \in [Sessions -> {"up", "down"}]
    BY DEF ShapeOK, SessionsOK, ConnectionsOK
  <1>1. PICK s \in Sessions : SessionStep(s) \/ PeerServes(s) \/ Disturbance(s)
    BY DEF PSNext
  <1>2. PICK u \in Sessions : OnlyMoves(u) /\ Effect(u)
    BY StepEffect DEF ShapeOK, PeersAreHonest
  <1>3. ~IsRetired(session[t])
    BY <1>2 DEF OnlyMoves
  <1>4. link[t] = "up" => session[t].held \subseteq asked[t]
    BY <1>3 DEF HeldAreAsked
  <1> DEFINE r == session[s]
             n == r.needed - 1
             pc == LoopPc(n)
  <1>5. r \in SessionRecord
    BY <1>0
  <1>6. CASE Connect(s)
    <2>1. asked' = asked /\ r.held = {}
      BY <1>6 DEF Connect, At, ShapeOK, HoldersOK, HolderOK
    <2>2. [r EXCEPT !.pc = "handshake", !.state = "HANDSHAKING"].held = r.held
      BY <1>5 DEF SessionRecord
    <2>3. QED
      BY <1>0, <1>4, <1>6, <2>1, <2>2 DEF Connect
  <1>7. CASE Handshake(s)
    <2>1. [r EXCEPT !.pc = "read", !.state = "BITFIELD_WAIT"].held = r.held
      BY <1>5 DEF SessionRecord
    <2>2. QED
      BY <1>0, <1>4, <1>7, <2>1 DEF Handshake
  <1>8. CASE Bitfields(s)
    <2>1. PICK ok, bits :
            session' = [session EXCEPT ![s] =
              [r EXCEPT !.loaded = ok, !.has = bits, !.state = "READY"]]
      BY <1>8, BitfieldMoves DEF ShapeOK
    <2>2. [r EXCEPT !.loaded = ok, !.has = bits, !.state = "READY"].held = r.held
      BY <1>5 DEF SessionRecord
    <2>3. QED
      BY <1>0, <1>4, <1>8, <2>1, <2>2 DEF Bitfields, ReceiveBitfield
  <1>9. CASE ReceiveUnchoke(s)
    <2> DEFINE m == Room(r.held)
               to == LoopPc(m)
    <2>1. [r EXCEPT !.choking = FALSE, !.needed = m, !.pc = to].held = r.held
      BY <1>5 DEF SessionRecord
    <2>2. QED
      BY <1>0, <1>4, <1>9, <2>1 DEF ReceiveUnchoke
  <1>10. CASE Fill(s)
    <2>1. session'[t].held = session[t].held
      BY <1>10, FillKeepsHeld DEF ShapeOK
    <2>2. QED
      BY <1>4, <1>10, <2>1 DEF Fill
  <1>11. CASE FillWithoutBitfield(s) \/ Break(s)
    BY <1>0, <1>4, <1>11 DEF FillWithoutBitfield, Break
  <1>12. CASE HandshakeThrows(s) \/ ReceiveShortPiece(s)
    BY <1>0, <1>4, <1>12, EndedOwes DEF HandshakeThrows, ReceiveShortPiece
  <1>13. CASE WriteSucceeds(s)
    <2> DEFINE held == r.held \cup r.current
    <2>1. [r EXCEPT !.held = held, !.current = {}, !.needed = n, !.pc = pc].held = held
      BY <1>5 DEF SessionRecord
    <2>2. session' = [session EXCEPT ![s] = [r EXCEPT !.held = held, !.current = {},
                                                      !.needed = n, !.pc = pc]]
      BY <1>0, <1>13 DEF WriteSucceeds
    <2>3. /\ link' = link
          /\ asked' = [asked EXCEPT ![s] = IF link[s] = "up"
                                           THEN asked[s] \cup r.current ELSE asked[s]]
      BY <1>13 DEF WriteSucceeds
    <2>4. QED
      BY <1>0, <1>4, <2>1, <2>2, <2>3
  <1>14. CASE WriteFails(s) \/ Overruns(s) \/ (ReceiveChoke(s) /\ "choke" \in Faults)
    BY <1>14 DEF WriteFails, Overruns, PeersAreHonest
  <1>15. CASE ReadFails(s) \/ Returning(s)
    <2>1. link'[s] = link[s] /\ asked' = asked /\ (t # s => session'[t] = session[t])
      BY <1>0, <1>15 DEF ReadFails, Returning
    <2>2. t # s
      <3>1. ReadFails(s) => link[s] = "down"
        BY DEF ReadFails
      <3>2. Returning(s) => IsRetired(session[s])
        BY DEF Returning, At, IsRetired
      <3>3. QED
        BY <1>3, <1>15, <2>1, <3>1, <3>2
    <2>3. link' = link
      BY <1>15 DEF ReadFails, Returning
    <2>4. QED
      BY <1>4, <2>1, <2>2, <2>3
  <1>16. ASSUME NEW p \in Pieces, NEW d \in AnswersTo[p], Gives(s, p, d)
         PROVE  session'[t].held \subseteq asked'[t]
    <2> DEFINE blk == <<p, d.first>>
    <2>1. /\ asked' = [asked EXCEPT ![s] = asked[s] \ {blk}] /\ link' = link
          /\ Answered(p, d) = {blk}
      BY <1>16, RightBytes DEF Gives, ReceivePiece, PeersAreHonest
    <2>2. ~Refused(p, d)
      BY <1>16, PieceEffect, HandsTakes DEF ShapeOK
    <2> HIDE DEF blk
    <2>4. Refill(s, {blk}) \/ session' = [session EXCEPT ![s] = EndedSession]
      BY <1>16, <2>1, <2>2 DEF Gives, ReceivePiece
    <2>5. CASE Refill(s, {blk})
      <3> DEFINE held == r.held \ {blk}
                 m == Room(held)
                 to == LoopPc(m)
      <3>1. [r EXCEPT !.held = held, !.needed = m, !.pc = to].held = held
        BY <1>5 DEF SessionRecord
      <3>2. session' = [session EXCEPT ![s] = [r EXCEPT !.held = held,
                                                        !.needed = m, !.pc = to]]
        BY <1>0, <2>5 DEF Refill
      <3>3. QED
        BY <1>0, <1>4, <2>1, <3>1, <3>2
    <2>6. CASE session' = [session EXCEPT ![s] = EndedSession]
      BY <1>0, <1>4, <2>1, <2>6, EndedOwes
    <2>7. QED
      BY <2>4, <2>5, <2>6
  <1>17. QED
    BY <1>1, <1>6, <1>7, <1>8, <1>9, <1>10, <1>11, <1>12, <1>13, <1>14,
       <1>15, <1>16, Arrivals DEF SessionStep

\* A session that waits for its peer waits for an answer that is still owed:
\* no session idles with its pipeline full of blocks nobody was asked for.
THEOREM WaitingSessionsAreServed ==
  ASSUME PeersAreHonest, OneServerPerPiece, "choke" \notin Faults
  PROVE  PSSpec => []HeldBlocksAreAsked
  <1> DEFINE Inv == IInv /\ ShapeOK /\ LeaseInv
  <1>1. PSInit => HeldAreAsked
    BY DEF PSInit, HeldAreAsked, NewSession
  <1>2. Inv /\ HeldAreAsked /\ [PSNext]_psVars => HeldAreAsked'
    <2>1. ASSUME HeldAreAsked, UNCHANGED psVars PROVE HeldAreAsked'
      BY <2>1 DEF psVars, HeldAreAsked
    <2>2. QED
      BY <2>1, HeldAreAskedStep
  <1>3. HeldAreAsked => HeldBlocksAreAsked
    BY DEF HeldAreAsked, HeldBlocksAreAsked, IsRetired
  <1>4. PSSpec => []Inv
    BY LeaseInvariant
  <1>5. QED
    BY <1>1, <1>2, <1>3, <1>4, PTL DEF PSSpec
=============================================================================
