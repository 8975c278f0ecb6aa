------------------------- MODULE PieceManagerProofs -------------------------
(***************************************************************************)
(* Theorems about PieceManager for every torrent geometry, any number of   *)
(* callers and every behaviour of the output file.                         *)
(***************************************************************************)
EXTENDS PieceManager, FiniteSetTheorems, TLAPS

-----------------------------------------------------------------------------
(* Facts about the operators the actions are built from *)

\* Blocks(p) is never empty and none of its members is Blank or Corrupt.
LEMMA BlocksFacts ==
  ASSUME NEW p \in Pieces
  PROVE  /\ NumBlocks[p] \in Nat \ {0}
         /\ Blocks(p) \subseteq Nat
         /\ 0 \in Blocks(p)
         /\ \A b \in Blocks(p) : b # Blank /\ b # Corrupt /\ b # Part /\ b < NumBlocks[p]
         /\ Blocks(p) \subseteq Content(p)
  BY GeometryAssumption DEF Blocks, Blank, Corrupt, Part, Content

\* A block is a pair of a piece and one of its block numbers.
LEMMA BlockFacts ==
  /\ \A blk \in Block : /\ blk[1] \in Pieces
                        /\ blk[2] \in Blocks(blk[1])
                        /\ blk = <<blk[1], blk[2]>>
  /\ \A p \in Pieces : \A b \in Blocks(p) : <<p, b>> \in Block
  BY DEF Block

\* Returning a block moves the next offset down to it, never up.
LEMMA RewindToFacts ==
  ASSUME NEW n \in Nat, NEW b \in Nat
  PROVE  /\ RewindTo(n, b) \in Nat
         /\ RewindTo(n, b) <= n
         /\ RewindTo(n, b) <= b
  BY DEF RewindTo

\* A buffer created on first use has no block yet.
LEMMA FreshPieceFacts ==
  ASSUME NEW p \in Pieces
  PROVE  /\ FreshPiece(p) \in PendingPiece(p)
         /\ FreshPiece(p).blocksReceived = 0
         /\ \A b \in Blocks(p) : FreshPiece(p).data[b] = Blank
  BY DEF FreshPiece, PendingPiece, Content

LEMMA BufferType ==
  ASSUME PMTypeOK, NEW p \in Pieces
  PROVE  PieceBuffer(p) \in PendingPiece(p)
  BY FreshPieceFacts DEF PMTypeOK, PieceBuffer

\* What is delivered is a sequence of blocks, parts and other bytes that stays
\* within its piece.
LEMMA AnswerFacts ==
  ASSUME NEW p \in Pieces, NEW d \in AnswersTo[p]
  PROVE  /\ d.first \in Blocks(p)
         /\ d.inside \in BOOLEAN
         /\ Len(d.bytes) \in Nat
         /\ DOMAIN d.bytes = 1 .. Len(d.bytes)
         /\ \A i \in DOMAIN d.bytes : d.bytes[i] \in Blocks(p) \cup {Part, Corrupt}
         /\ d.first + Len(d.bytes) <= NumBlocks[p]
         /\ Len(d.bytes) = 0 => "empty" \in Answers
         /\ d.bytes = <<d.bytes[1]>> \/ Len(d.bytes) # 1
         /\ \A i \in DOMAIN d.bytes : InPlace(d, i)
  <1>1. /\ d \in Data(p)
        /\ d.first + Len(d.bytes) <= NumBlocks[p]
        /\ \A i \in DOMAIN d.bytes : InPlace(d, i)
        /\ Allowed(d)
    BY DEF AnswersTo
  <1>2. PICK n \in 0 .. NumBlocks[p] : d.bytes \in [1 .. n -> Blocks(p) \cup {Part, Corrupt}]
    BY <1>1 DEF Data
  <1>3. n \in Nat
    BY BlocksFacts
  <1>4. d.bytes \in Seq(Blocks(p) \cup {Part, Corrupt})
    BY <1>2, <1>3
  <1>5. d.first \in Blocks(p) /\ d.inside \in BOOLEAN
    BY <1>1 DEF Data
  <1>6. Len(d.bytes) = 1 => d.bytes = <<d.bytes[1]>>
    BY <1>4
  <1>7. QED
    BY <1>1, <1>4, <1>5, <1>6 DEF Allowed

\* Copying data in counts for one, whatever the data; it blanks no position,
\* and leaves the ones it does not reach.
LEMMA WithDataFacts ==
  ASSUME PMTypeOK, NEW p \in Pieces, NEW d \in AnswersTo[p]
  PROVE  /\ WithData(p, d) \in PendingPiece(p)
         /\ WithData(p, d).blocksReceived =
              IF PieceBuffer(p).blocksReceived > NumBlocks[p]
              THEN PieceBuffer(p).blocksReceived
              ELSE PieceBuffer(p).blocksReceived + 1
         /\ \A b \in Blocks(p) : WithData(p, d).data[b] = Copied(p, d, b)
         /\ \A b \in Blocks(p) :
              PieceBuffer(p).data[b] # Blank => WithData(p, d).data[b] # Blank
         /\ Len(d.bytes) > 0 => WithData(p, d).data[d.first] # Blank
  <1>1. PieceBuffer(p) \in PendingPiece(p)
    BY BufferType
  <1>2. NumBlocks[p] \in Nat
    BY BlocksFacts
  <1>3. ASSUME NEW b \in Blocks(p)
        PROVE  /\ Copied(p, d, b) \in Content(p)
               /\ PieceBuffer(p).data[b] # Blank => Copied(p, d, b) # Blank
    <2>1. PieceBuffer(p).data[b] \in Content(p)
      BY <1>1 DEF PendingPiece
    <2>2. \A i \in DOMAIN d.bytes :
            d.bytes[i] = Part \/ d.bytes[i] \in Content(p) \ {Blank}
      BY AnswerFacts, BlocksFacts DEF Content, Blank, Corrupt
    <2>3. b \in Content(p) \ {Blank} /\ Corrupt \in Content(p) \ {Blank}
      BY BlocksFacts DEF Content, Blank, Corrupt
    <2>4. QED
      BY <2>1, <2>2, <2>3, Zenon DEF Copied
  <1>4. Len(d.bytes) > 0 => Copied(p, d, d.first) # Blank
    <2> SUFFICES ASSUME Len(d.bytes) > 0 PROVE Copied(p, d, d.first) # Blank
      OBVIOUS
    <2>1. d.first - d.first + 1 = 1 /\ 1 \in DOMAIN d.bytes
      BY AnswerFacts, BlocksFacts
    <2>2. d.bytes[1] = Part \/ d.bytes[1] \in Content(p) \ {Blank}
      BY <2>1, AnswerFacts, BlocksFacts DEF Content, Blank, Corrupt
    <2>3. d.first # Blank /\ Corrupt # Blank
      BY AnswerFacts, BlocksFacts DEF Blank, Corrupt
    <2>4. Copied(p, d, d.first) =
            IF d.bytes[1] # Part THEN d.bytes[1]
            ELSE IF PieceBuffer(p).data[d.first] = Blank THEN Corrupt ELSE d.first
      BY <2>1 DEF Copied
    <2>5. QED
      BY <2>2, <2>3, <2>4, Zenon
  <1>5. /\ WithData(p, d).data = [b \in Blocks(p) |-> Copied(p, d, b)]
        /\ WithData(p, d).blocksReceived =
             IF PieceBuffer(p).blocksReceived > NumBlocks[p]
             THEN PieceBuffer(p).blocksReceived
             ELSE PieceBuffer(p).blocksReceived + 1
        /\ WithData(p, d) =
             [data |-> WithData(p, d).data, blocksReceived |-> WithData(p, d).blocksReceived]
    BY DEF WithData
  <1>6. PieceBuffer(p).blocksReceived \in Nat
    BY <1>1 DEF PendingPiece
  <1>7. WithData(p, d).blocksReceived \in Nat
    BY <1>5, <1>6
  <1>8. WithData(p, d).data \in [Blocks(p) -> Content(p)]
    BY <1>3, <1>5
  <1>9. WithData(p, d) \in PendingPiece(p)
    BY <1>5, <1>7, <1>8, Zenon DEF PendingPiece
  <1>10. \A b \in Blocks(p) : WithData(p, d).data[b] = Copied(p, d, b)
    BY <1>5
  <1>11. Len(d.bytes) > 0 => WithData(p, d).data[d.first] # Blank
    BY <1>4, <1>10, AnswerFacts
  <1>12. QED
    BY <1>3, <1>5, <1>9, <1>10, <1>11

\* A piece whose hash matches was not completed by wrong bytes.
LEMMA VerifiedData ==
  ASSUME PMTypeOK, NEW p \in Pieces, NEW d \in AnswersTo[p],
         VerifyHash(p, WithData(p, d)), NEW i \in DOMAIN d.bytes
  PROVE  d.bytes[i] # Corrupt
  <1> SUFFICES ASSUME d.bytes[i] = Corrupt PROVE FALSE
    OBVIOUS
  <1>0. DOMAIN d.bytes = 1 .. Len(d.bytes)
    BY AnswerFacts
  <1>1. /\ i \in 1 .. Len(d.bytes)
        /\ Len(d.bytes) \in Nat
        /\ d.first + Len(d.bytes) <= NumBlocks[p]
        /\ d.first \in 0 .. NumBlocks[p] - 1
        /\ NumBlocks[p] \in Nat \ {0}
    BY <1>0, AnswerFacts, BlocksFacts DEF Blocks
  <1> DEFINE b == d.first + i - 1
  <1>2. b \in Blocks(p) /\ b - d.first + 1 = i
    BY <1>1 DEF Blocks
  <1>3. Corrupt # Part
    BY DEF Corrupt, Part
  <1>4. Copied(p, d, b) = Corrupt
    BY <1>2, <1>3 DEF Copied
  <1>5. WithData(p, d).data[b] = b
    BY <1>2 DEF VerifyHash
  <1>6. QED
    BY <1>2, <1>4, <1>5, WithDataFacts, BlocksFacts

\* What storing a PendingPiece does to the map.
LEMMA PutPendingFacts ==
  ASSUME PMTypeOK, NEW p \in Pieces, NEW pending \in PendingPiece(p),
         pendingPieces' = PutPending(p, pending)
  PROVE  /\ DOMAIN pendingPieces' \subseteq Pieces
         /\ pendingPieces' = [q \in DOMAIN pendingPieces' |-> pendingPieces'[q]]
         /\ \A q \in DOMAIN pendingPieces' : pendingPieces'[q] \in PendingPiece(q)
         /\ PieceBuffer(p)' = pending
         /\ \A q \in Pieces \ {p} : PieceBuffer(q)' = PieceBuffer(q)
  BY DEF PMTypeOK, PutPending, PieceBuffer, FreshPiece

\* What discarding a PendingPiece does to the map.
LEMMA ErasePendingFacts ==
  ASSUME PMTypeOK, NEW p \in Pieces,
         pendingPieces' = ErasePending(p)
  PROVE  /\ DOMAIN pendingPieces' \subseteq Pieces
         /\ pendingPieces' = [q \in DOMAIN pendingPieces' |-> pendingPieces'[q]]
         /\ \A q \in DOMAIN pendingPieces' : pendingPieces'[q] \in PendingPiece(q)
         /\ PieceBuffer(p)' = FreshPiece(p)
         /\ \A q \in Pieces \ {p} : PieceBuffer(q)' = PieceBuffer(q)
  BY DEF PMTypeOK, ErasePending, PieceBuffer, FreshPiece

\* A write changes at most its piece's region, and puts nothing but the data
\* there.
LEMMA WritePieceFacts ==
  ASSUME PMTypeOK, NEW p \in Pieces, NEW d \in AnswersTo[p], WritePiece(p, d)
  PROVE  /\ DOMAIN file' = Pieces
         /\ \A q \in Pieces : file'[q] \in [Blocks(q) -> Content(q) \cup {Part}]
         /\ \A q \in Pieces \ {p} : file'[q] = file[q]
         /\ \A b \in Blocks(p) :
              \/ file'[p][b] \in {Part, file[p][b]}
              \/ \E i \in DOMAIN d.bytes : file'[p][b] = d.bytes[i]
         /\ stream' \in {"open", "failed"}
  <1>1. CASE stream = "open" /\ UNCHANGED stream
             /\ file' = [file EXCEPT ![p] = Region(p, d)]
    <2>1. /\ DOMAIN file' = Pieces
          /\ \A q \in Pieces \ {p} : file'[q] = file[q]
          /\ file'[p] = Region(p, d)
      BY <1>1 DEF PMTypeOK
    <2>2. ASSUME NEW b \in Blocks(p)
          PROVE  \/ Region(p, d)[b] \in {Part, file[p][b]}
                 \/ \E i \in DOMAIN d.bytes : Region(p, d)[b] = d.bytes[i]
      <3>1. b >= Len(d.bytes) \/ b + 1 \in DOMAIN d.bytes
        BY AnswerFacts, BlocksFacts
      <3>2. QED
        BY <3>1 DEF Region
    <2>3. ASSUME NEW b \in Blocks(p)
          PROVE  Region(p, d)[b] \in Content(p) \cup {Part}
      <3>1. file[p][b] \in Content(p) \cup {Part}
        BY DEF PMTypeOK
      <3>2. \A i \in DOMAIN d.bytes : d.bytes[i] \in Content(p) \cup {Part}
        BY AnswerFacts DEF Content
      <3>3. QED
        BY <2>2, <3>1, <3>2
    <2>4. Region(p, d) \in [Blocks(p) -> Content(p) \cup {Part}]
      <3>1. Region(p, d) = [b \in Blocks(p) |-> Region(p, d)[b]]
        BY DEF Region
      <3>2. QED
        BY <2>3, <3>1
    <2>5. QED
      BY <1>1, <2>1, <2>2, <2>4 DEF PMTypeOK
  <1>2. CASE stream' = "failed" /\ UNCHANGED file
    BY <1>2 DEF PMTypeOK
  <1>3. QED
    BY <1>1, <1>2 DEF WritePiece

-----------------------------------------------------------------------------
(* Type correctness *)

LEMMA TypeStepRequest ==
  ASSUME PMTypeOK, Request
  PROVE  PMTypeOK'
  <1>1. CASE \E have \in SUBSET Pieces : RequestNothing(have)
    BY <1>1 DEF RequestNothing, pmVars, PMTypeOK, PieceBuffer
  <1>2. ASSUME NEW have \in SUBSET Pieces, NEW blk \in Block,
               RequestBlock(have, blk)
        PROVE  PMTypeOK'
    <2>1. /\ blk[1] \in Pieces
          /\ blk[2] \in Blocks(blk[1])
          /\ blk[2] + 1 \in Nat
          /\ blk[2] + 1 <= NumBlocks[blk[1]]
      BY BlockFacts, GeometryAssumption DEF Blocks
    <2>2. QED
      BY <1>2, <2>1 DEF RequestBlock, resultVars, fileVars, PMTypeOK
  <1>3. QED
    BY <1>1, <1>2 DEF Request

LEMMA TypeStepReturn ==
  ASSUME PMTypeOK, Return
  PROVE  PMTypeOK'
  <1>1. ASSUME NEW blk \in Block, ReturnBlock(blk)
        PROVE  PMTypeOK'
    <2>0. PICK p \in Pieces : blk \in {p} \X Blocks(p)
      BY DEF Block
    <2>1. PICK b \in Blocks(p) : blk = <<p, b>>
      BY <2>0
    <2>2. /\ nextOffsets[p] \in Nat
          /\ nextOffsets[p] <= NumBlocks[p]
          /\ RewindTo(nextOffsets[p], b) \in Nat
          /\ RewindTo(nextOffsets[p], b) <= NumBlocks[p]
      BY BlocksFacts, RewindToFacts DEF PMTypeOK
    <2>3. /\ nextOffsets' \in [Pieces -> Nat]
          /\ \A q \in Pieces : nextOffsets'[q] <= NumBlocks[q]
      <3>1. nextOffsets' = [nextOffsets EXCEPT ![p] =
                              RewindTo(nextOffsets[p], b)]
        BY <1>1, <2>1 DEF ReturnBlock
      <3>2. QED
        BY <2>2, <3>1 DEF PMTypeOK
    <2>4. QED
      BY <1>1, <2>3 DEF ReturnBlock, resultVars, fileVars, PMTypeOK
  <1>2. ASSUME NEW blk \in Block, ReturnRefused(blk)
        PROVE  PMTypeOK'
    BY <1>2 DEF ReturnRefused, pmVars, PMTypeOK
  <1>3. QED
    BY <1>1, <1>2 DEF Return

LEMMA TypeStepDeliver ==
  ASSUME PMTypeOK, Deliver
  PROVE  PMTypeOK'
  <1> SUFFICES ASSUME NEW p \in Pieces,
                      \/ DeliverFinished(p)
                      \/ DeliverOutOfBounds(p)
                      \/ \E d \in AnswersTo[p] :
                           \/ DeliverPartial(p, d)
                           \/ DeliverVerified(p, d)
                           \/ DeliverThrows(p, d)
                           \/ DeliverMismatch(p, d)
               PROVE  PMTypeOK'
    BY DEF Deliver
  <1>1. CASE DeliverFinished(p)
    BY <1>1 DEF DeliverFinished, pmVars, PMTypeOK
  <1>2. CASE DeliverOutOfBounds(p)
    BY <1>2, BufferType, PutPendingFacts
       DEF DeliverOutOfBounds, allocVars, resultVars, fileVars, PMTypeOK
  <1>4. ASSUME NEW d \in AnswersTo[p], DeliverPartial(p, d)
        PROVE  PMTypeOK'
    BY <1>4, WithDataFacts, PutPendingFacts
       DEF DeliverPartial, resultVars, fileVars, PMTypeOK
  <1>5. ASSUME NEW d \in AnswersTo[p], DeliverVerified(p, d)
        PROVE  PMTypeOK'
    <2>1. /\ DOMAIN file' = Pieces
          /\ \A q \in Pieces : file'[q] \in [Blocks(q) -> Content(q) \cup {Part}]
          /\ stream' \in {"open", "failed", "closed"}
      BY <1>5, WritePieceFacts DEF DeliverVerified
    <2>2. QED
      BY <1>5, <2>1, ErasePendingFacts
         DEF DeliverVerified, SetPiece, NotifyProgress, PMTypeOK
  <1>6. ASSUME NEW d \in AnswersTo[p], DeliverThrows(p, d)
        PROVE  PMTypeOK'
    BY <1>6, WithDataFacts, PutPendingFacts
       DEF DeliverThrows, resultVars, fileVars, PMTypeOK
  <1>7. ASSUME NEW d \in AnswersTo[p], DeliverMismatch(p, d)
        PROVE  PMTypeOK'
    BY <1>7, ErasePendingFacts, BlocksFacts
       DEF DeliverMismatch, resultVars, fileVars, PMTypeOK
  <1>8. QED
    BY <1>1, <1>2, <1>4, <1>5, <1>6, <1>7

\* Every reachable state of the manager is well typed.
THEOREM PMTypeCorrect == PMSpec => []PMTypeOK
  <1>1. PMInit => PMTypeOK
    BY BlocksFacts DEF PMInit, PMTypeOK, Content
  <1>2. PMTypeOK /\ [PMNext]_pmVars => PMTypeOK'
    <2>1. CASE UNCHANGED pmVars
      BY <2>1 DEF pmVars, PMTypeOK
    <2>2. QED
      BY <2>1, TypeStepRequest, TypeStepDeliver, TypeStepReturn DEF PMNext
  <1>3. QED
    BY <1>1, <1>2, PTL DEF PMSpec

-----------------------------------------------------------------------------
(* The inductive invariant *)

\* The buffer of an unfinished piece is blank until a delivery counts.
UncountedIsBlank ==
  \A p \in Pieces :
    PieceBuffer(p).blocksReceived = 0 => \A b \in Blocks(p) : PieceBuffer(p).data[b] = Blank

\* No conjunct is inductive alone: AnswersAreCounted speaks of buffers
\* PMTypeOK types, a delivery keeps the count below its limit only because a
\* full count is hashed at once, and a finished piece's file region stays as it
\* is only because finished and the bitfield agree.
IInv ==
  /\ PMTypeOK
  /\ AnswersAreCounted
  /\ UncountedIsBlank
  /\ CompletionAgrees
  /\ OnlyVerifiedBytesOnDisk

\* There are NumPieces pieces.
LEMMA PiecesFacts ==
  /\ NumPieces \in Nat \ {0}
  /\ IsFiniteSet(Pieces)
  /\ Cardinality(Pieces) = NumPieces
  <1>1. ASSUME NEW n \in Nat \ {0}
        PROVE  /\ IsFiniteSet(0 .. n - 1)
               /\ Cardinality(0 .. n - 1) = n
    <2>1. /\ 0 \in Int
          /\ n - 1 \in Int
          /\ ~(0 > n - 1)
          /\ (n - 1) - 0 + 1 = n
      OBVIOUS
    <2>2. QED
      BY <2>1, FS_Interval, Zenon
  <1>2. NumPieces \in Nat \ {0}
    BY GeometryAssumption
  <1>3. QED
    BY <1>1, <1>2, Zenon DEF Pieces

\* A piece has no more settled blocks than it has blocks.
LEMMA SettledFacts ==
  ASSUME NEW p \in Pieces
  PROVE  /\ IsFiniteSet(Blocks(p))
         /\ Cardinality(Blocks(p)) = NumBlocks[p]
         /\ Settled(p) \subseteq Blocks(p)
         /\ IsFiniteSet(Settled(p))
         /\ Cardinality(Settled(p)) \in Nat
         /\ Cardinality(Settled(p)) <= NumBlocks[p]
  <1>1. NumBlocks[p] \in Nat \ {0}
    BY BlocksFacts
  <1>2. /\ IsFiniteSet(Blocks(p))
        /\ Cardinality(Blocks(p)) = NumBlocks[p]
    <2>1. ASSUME NEW n \in Nat \ {0}
          PROVE  /\ IsFiniteSet(0 .. n - 1)
                 /\ Cardinality(0 .. n - 1) = n
      <3>1. /\ 0 \in Int
            /\ n - 1 \in Int
            /\ ~(0 > n - 1)
            /\ (n - 1) - 0 + 1 = n
        OBVIOUS
      <3>2. QED
        BY <3>1, FS_Interval, Zenon
    <2>2. QED
      BY <1>1, <2>1, Zenon DEF Blocks
  <1>3. Settled(p) \subseteq Blocks(p)
    BY DEF Settled
  <1>4. QED
    BY <1>1, <1>2, <1>3, FS_Subset, FS_CardinalityType

\* Settled blocks that do not become more stay covered by the same count.
LEMMA SettledStaysCovered ==
  ASSUME NEW p \in Pieces, NEW S, S \subseteq Settled(p), NEW n \in Nat,
         Cardinality(Settled(p)) <= n
  PROVE  Cardinality(S) <= n
  <1>1. /\ IsFiniteSet(Settled(p))
        /\ Cardinality(Settled(p)) \in Nat
    BY SettledFacts
  <1>2. /\ IsFiniteSet(S)
        /\ Cardinality(S) <= Cardinality(Settled(p))
    BY <1>1, FS_Subset
  <1>3. Cardinality(S) \in Nat
    BY <1>2, FS_CardinalityType
  <1>4. QED
    BY <1>1, <1>2, <1>3

\* A delivery settles at most the block it answers, and counts for one.
LEMMA DeliveryCounts ==
  ASSUME PMTypeOK, NEW p \in Pieces, NEW d \in AnswersTo[p],
         Cardinality(Settled(p)) <= PieceBuffer(p).blocksReceived,
         nextOffsets' = nextOffsets,
         pendingBlocks' = pendingBlocks \ Answered(p, d),
         PieceBuffer(p)' = WithData(p, d)
  PROVE  Cardinality(Settled(p)') <= PieceBuffer(p)'.blocksReceived
  <1>1. /\ IsFiniteSet(Settled(p))
        /\ Cardinality(Settled(p)) \in Nat
        /\ Cardinality(Settled(p)) <= NumBlocks[p]
    BY SettledFacts
  <1>2. Settled(p)' \subseteq Settled(p) \cup {d.first}
    <2>1. \A b \in Blocks(p) :
            <<p, b>> \notin pendingBlocks' /\ b # d.first => <<p, b>> \notin pendingBlocks
      BY DEF Answered
    <2>2. QED
      BY <2>1 DEF Settled
  <1>3. Settled(p)' \subseteq Blocks(p)
    BY DEF Settled
  <1>4. /\ Cardinality(Settled(p) \cup {d.first}) =
             IF d.first \in Settled(p) THEN Cardinality(Settled(p))
                                       ELSE Cardinality(Settled(p)) + 1
        /\ IsFiniteSet(Settled(p) \cup {d.first})
    BY <1>1, FS_AddElement, Zenon
  <1>5. /\ Cardinality(Settled(p)') \in Nat
        /\ Cardinality(Settled(p)') <= Cardinality(Settled(p)) + 1
        /\ Cardinality(Settled(p)') <= NumBlocks[p]
    <2>1. /\ IsFiniteSet(Settled(p)')
          /\ Cardinality(Settled(p)') <= Cardinality(Settled(p) \cup {d.first})
      BY <1>2, <1>4, FS_Subset
    <2>2. Cardinality(Settled(p)') <= NumBlocks[p]
      BY <1>3, SettledFacts, FS_Subset
    <2>3. Cardinality(Settled(p)') \in Nat
      BY <2>1, FS_CardinalityType
    <2>4. QED
      BY <1>1, <1>4, <2>1, <2>2, <2>3
  <1>6. PieceBuffer(p)'.blocksReceived =
          IF PieceBuffer(p).blocksReceived > NumBlocks[p]
          THEN PieceBuffer(p).blocksReceived
          ELSE PieceBuffer(p).blocksReceived + 1
    BY WithDataFacts
  <1>7. PieceBuffer(p).blocksReceived \in Nat /\ NumBlocks[p] \in Nat
    BY BufferType, BlocksFacts DEF PendingPiece
  <1>8. ASSUME NEW k \in Nat, NEW k2 \in Nat, NEW c \in Nat, NEW n \in Nat, NEW c2,
               k <= c, k2 <= k + 1, k2 <= n, c2 = IF c > n THEN c ELSE c + 1
        PROVE  k2 <= c2
    BY <1>8
  <1>9. QED
    BY <1>1, <1>5, <1>6, <1>7, <1>8, Zenon

\* What a step that disturbs at most one piece must establish for the counts.
LEMMA CountsOnePiece ==
  ASSUME PMTypeOK, AnswersAreCounted, NEW p \in Pieces,
         \A q \in Pieces \ {p} : /\ PieceBuffer(q)' = PieceBuffer(q)
                                 /\ Settled(q)' \subseteq Settled(q),
         finished \subseteq finished',
         stream' # "closed" => stream # "closed",
         p \notin finished' =>
           /\ Cardinality(Settled(p)') <= PieceBuffer(p)'.blocksReceived
           /\ stream' # "closed" => PieceBuffer(p)'.blocksReceived < NumBlocks[p]
  PROVE  AnswersAreCounted'
  <1>1. ASSUME NEW q \in Pieces \ finished', q # p
        PROVE  /\ Cardinality(Settled(q)') <= PieceBuffer(q)'.blocksReceived
               /\ stream' # "closed" => PieceBuffer(q)'.blocksReceived < NumBlocks[q]
    <2>1. /\ Cardinality(Settled(q)) <= PieceBuffer(q).blocksReceived
          /\ stream # "closed" => PieceBuffer(q).blocksReceived < NumBlocks[q]
      BY <1>1 DEF AnswersAreCounted
    <2>2. PieceBuffer(q).blocksReceived \in Nat
      BY BufferType DEF PendingPiece
    <2>3. Cardinality(Settled(q)') <= PieceBuffer(q).blocksReceived
      BY <1>1, <2>1, <2>2, SettledStaysCovered
    <2>4. QED
      BY <1>1, <2>1, <2>3
  <1>2. QED
    BY <1>1 DEF AnswersAreCounted

\* The blocks of other pieces are settled as before.
LEMMA OtherSettled ==
  ASSUME PMTypeOK, NEW p \in Pieces, NEW q \in Pieces \ {p}, NEW d,
         nextOffsets'[q] = nextOffsets[q],
         pendingBlocks' = pendingBlocks \ Answered(p, d)
  PROVE  Settled(q)' \subseteq Settled(q)
  <1>1. \A b : <<q, b>> \notin Answered(p, d)
    BY DEF Answered
  <1>2. QED
    BY <1>1 DEF Settled

\* The invariant holds initially.
LEMMA IInvInit == PMInit => IInv
  <1> SUFFICES ASSUME PMInit PROVE IInv
    OBVIOUS
  <1>1. PMTypeOK
    BY BlocksFacts DEF PMInit, PMTypeOK, Content
  <1>2. \A p \in Pieces : /\ PieceBuffer(p) = FreshPiece(p)
                          /\ Settled(p) = {}
    BY BlocksFacts DEF PMInit, PieceBuffer, Settled
  <1>3. UncountedIsBlank
    BY <1>2, FreshPieceFacts DEF UncountedIsBlank
  <1>4. AnswersAreCounted
    <2>1. \A p \in Pieces : Cardinality(Settled(p)) = 0
      BY <1>2, FS_EmptySet
    <2>2. \A p \in Pieces : PieceBuffer(p).blocksReceived = 0
      BY <1>2, FreshPieceFacts
    <2>3. QED
      BY <2>1, <2>2, BlocksFacts DEF AnswersAreCounted
  <1>5. CompletionAgrees
    <2>1. Pieces # {}
      BY GeometryAssumption DEF Pieces
    <2>2. QED
      BY <2>1, FS_EmptySet DEF PMInit, CompletionAgrees
  <1>6. OnlyVerifiedBytesOnDisk
    BY DEF PMInit, OnlyVerifiedBytesOnDisk
  <1>7. QED
    BY <1>1, <1>3, <1>4, <1>5, <1>6 DEF IInv

\* A step that leaves finished, the counters and the file alone.
LEMMA ResultsUntouched ==
  ASSUME CompletionAgrees, OnlyVerifiedBytesOnDisk,
         UNCHANGED <<resultVars, fileVars>>
  PROVE  CompletionAgrees' /\ OnlyVerifiedBytesOnDisk'
  BY DEF resultVars, fileVars, CompletionAgrees, OnlyVerifiedBytesOnDisk

\* A step that leaves the buffers alone, and settles no block, keeps the
\* invariant.
LEMMA AllocationKeepsCounts ==
  ASSUME IInv, UNCHANGED pendingPieces, UNCHANGED <<resultVars, fileVars>>,
         \A q \in Pieces : Settled(q)' \subseteq Settled(q)
  PROVE  /\ AnswersAreCounted'
         /\ UncountedIsBlank'
         /\ CompletionAgrees'
         /\ OnlyVerifiedBytesOnDisk'
  <1>1. \A q \in Pieces : PieceBuffer(q)' = PieceBuffer(q)
    BY DEF PieceBuffer
  <1>2. finished' = finished /\ stream' = stream
    BY DEF resultVars, fileVars
  <1>3. AnswersAreCounted'
    <2> SUFFICES ASSUME NEW q \in Pieces \ finished
                 PROVE  /\ Cardinality(Settled(q)') <= PieceBuffer(q).blocksReceived
                        /\ stream # "closed" => PieceBuffer(q).blocksReceived < NumBlocks[q]
      BY <1>1, <1>2 DEF AnswersAreCounted
    <2>1. /\ Cardinality(Settled(q)) <= PieceBuffer(q).blocksReceived
          /\ stream # "closed" => PieceBuffer(q).blocksReceived < NumBlocks[q]
      BY DEF IInv, AnswersAreCounted
    <2>2. PieceBuffer(q).blocksReceived \in Nat
      BY BufferType DEF IInv, PendingPiece
    <2>3. QED
      BY <2>1, <2>2, SettledStaysCovered
  <1>4. UncountedIsBlank'
    BY <1>1 DEF IInv, UncountedIsBlank
  <1>5. QED
    BY <1>3, <1>4, ResultsUntouched DEF IInv

\* requestBlock settles nothing: it skips only pending blocks, so the blocks
\* that the next offset jumps over are pending.  Nor does returnBlock: the
\* rewind leaves the returned block at or above the next offset.
LEMMA SettledByCallers ==
  ASSUME PMTypeOK, Request \/ Return
  PROVE  /\ \A q \in Pieces : Settled(q)' \subseteq Settled(q)
         /\ UNCHANGED pendingPieces
         /\ UNCHANGED finished
         /\ UNCHANGED <<resultVars, fileVars>>
  <1>1. ASSUME UNCHANGED pmVars
        PROVE  /\ \A q \in Pieces : Settled(q)' \subseteq Settled(q)
               /\ UNCHANGED pendingPieces
               /\ UNCHANGED finished
               /\ UNCHANGED <<resultVars, fileVars>>
    BY <1>1 DEF pmVars, resultVars, fileVars, Settled
  <1>2. ASSUME NEW have \in SUBSET Pieces, NEW blk \in Block, RequestBlock(have, blk)
        PROVE  /\ \A q \in Pieces : Settled(q)' \subseteq Settled(q)
               /\ UNCHANGED pendingPieces
               /\ UNCHANGED finished
               /\ UNCHANGED <<resultVars, fileVars>>
    <2>1. PICK p \in Pieces : blk \in {p} \X Blocks(p)
      BY DEF Block
    <2>2. PICK b \in Blocks(p) : blk = <<p, b>>
      BY <2>1
    <2>3. /\ pendingBlocks' = pendingBlocks \cup {<<p, b>>}
          /\ nextOffsets' = [nextOffsets EXCEPT ![p] = b + 1]
          /\ \A c \in FreeBlocks(p) : b <= c
          /\ UNCHANGED pendingPieces
          /\ UNCHANGED finished
          /\ UNCHANGED <<resultVars, fileVars>>
      BY <1>2, <2>2 DEF RequestBlock, resultVars, fileVars
    <2>4. ASSUME NEW q \in Pieces, NEW c \in Blocks(q),
                 c < nextOffsets'[q], <<q, c>> \notin pendingBlocks'
          PROVE  c < nextOffsets[q] /\ <<q, c>> \notin pendingBlocks
      <3>1. <<q, c>> \notin pendingBlocks /\ (q = p => c # b)
        BY <2>3, <2>4
      <3>2. CASE q # p
        BY <2>3, <2>4, <3>1, <3>2 DEF PMTypeOK
      <3>3. CASE q = p
        <4>1. c \in Nat /\ b \in Nat /\ nextOffsets[p] \in Nat
          BY <3>3, BlocksFacts DEF PMTypeOK
        <4>2. c < b + 1 /\ c # b
          BY <2>3, <2>4, <3>1, <3>3 DEF PMTypeOK
        <4>3. c \notin FreeBlocks(p)
          BY <2>3, <4>1, <4>2
        <4>4. QED
          BY <3>1, <3>3, <4>1, <4>3 DEF FreeBlocks
      <3>4. QED
        BY <3>2, <3>3
    <2>5. \A q \in Pieces : Settled(q)' \subseteq Settled(q)
      BY <2>4 DEF Settled
    <2>6. QED
      BY <2>3, <2>5
  <1>3. ASSUME NEW blk \in Block, ReturnBlock(blk)
        PROVE  /\ \A q \in Pieces : Settled(q)' \subseteq Settled(q)
               /\ UNCHANGED pendingPieces
               /\ UNCHANGED finished
               /\ UNCHANGED <<resultVars, fileVars>>
    <2>1. PICK p \in Pieces : blk \in {p} \X Blocks(p)
      BY DEF Block
    <2>2. PICK b \in Blocks(p) : blk = <<p, b>>
      BY <2>1
    <2>3. /\ pendingBlocks' = pendingBlocks \ {<<p, b>>}
          /\ nextOffsets' = [nextOffsets EXCEPT ![p] = RewindTo(nextOffsets[p], b)]
          /\ UNCHANGED pendingPieces
          /\ UNCHANGED finished
          /\ UNCHANGED <<resultVars, fileVars>>
      BY <1>3, <2>2 DEF ReturnBlock, resultVars, fileVars
    <2>4. ASSUME NEW q \in Pieces, NEW c \in Blocks(q),
                 c < nextOffsets'[q], <<q, c>> \notin pendingBlocks'
          PROVE  c < nextOffsets[q] /\ <<q, c>> \notin pendingBlocks
      <3>2. CASE q # p
        BY <2>3, <2>4, <3>2 DEF PMTypeOK
      <3>3. CASE q = p
        <4>1. /\ c \in Nat /\ b \in Nat /\ nextOffsets[p] \in Nat
              /\ c < RewindTo(nextOffsets[p], b)
          BY <2>3, <2>4, <3>3, BlocksFacts DEF PMTypeOK
        <4>2. c < nextOffsets[p] /\ c < b
          BY <4>1 DEF RewindTo
        <4>3. QED
          BY <2>3, <2>4, <3>3, <4>1, <4>2
      <3>4. QED
        BY <3>2, <3>3
    <2>5. \A q \in Pieces : Settled(q)' \subseteq Settled(q)
      BY <2>4 DEF Settled
    <2>6. QED
      BY <2>3, <2>5
  <1>4. QED
    BY <1>1, <1>2, <1>3 DEF Request, RequestNothing, Return, ReturnRefused

\* requestBlock and returnBlock keep the invariant.
LEMMA IInvCallers ==
  ASSUME IInv, Request \/ Return
  PROVE  IInv'
  <1>1. PMTypeOK'
    BY TypeStepRequest, TypeStepReturn DEF IInv
  <1>2. QED
    BY <1>1, SettledByCallers, AllocationKeepsCounts DEF IInv

\* A delivery that is counted and kept: the count covers what it settled, and
\* short of the limit it stays below it.
LEMMA CountsKept ==
  ASSUME IInv, NEW p \in Pieces, NEW d \in AnswersTo[p],
         p \notin finished, finished' = finished, stream' = stream,
         nextOffsets' = nextOffsets,
         pendingBlocks' = pendingBlocks \ Answered(p, d),
         pendingPieces' = PutPending(p, WithData(p, d)),
         stream = "closed" \/ ~IsFinished(p, WithData(p, d))
  PROVE  AnswersAreCounted' /\ UncountedIsBlank'
  <1>1. WithData(p, d) \in PendingPiece(p)
    BY WithDataFacts DEF IInv
  <1>2. /\ PieceBuffer(p)' = WithData(p, d)
        /\ \A q \in Pieces \ {p} : PieceBuffer(q)' = PieceBuffer(q)
    BY <1>1, PutPendingFacts DEF IInv
  <1>3. /\ Cardinality(Settled(p)) <= PieceBuffer(p).blocksReceived
        /\ stream # "closed" => PieceBuffer(p).blocksReceived < NumBlocks[p]
    BY DEF IInv, AnswersAreCounted
  <1>4. Cardinality(Settled(p)') <= PieceBuffer(p)'.blocksReceived
    BY <1>2, <1>3, DeliveryCounts DEF IInv
  <1>5. /\ PieceBuffer(p).blocksReceived \in Nat
        /\ NumBlocks[p] \in Nat
        /\ PieceBuffer(p)'.blocksReceived =
             IF PieceBuffer(p).blocksReceived > NumBlocks[p]
             THEN PieceBuffer(p).blocksReceived
             ELSE PieceBuffer(p).blocksReceived + 1
    BY <1>2, WithDataFacts, BufferType, BlocksFacts DEF IInv, PendingPiece
  <1>6. stream' # "closed" => PieceBuffer(p)'.blocksReceived < NumBlocks[p]
    <2> SUFFICES ASSUME stream # "closed"
                 PROVE  PieceBuffer(p)'.blocksReceived < NumBlocks[p]
      OBVIOUS
    <2>1. PieceBuffer(p)'.blocksReceived # NumBlocks[p]
      BY <1>2 DEF IsFinished
    <2>2. QED
      BY <1>3, <1>5, <2>1
  <1>7. AnswersAreCounted'
    <2>1. \A q \in Pieces \ {p} : Settled(q)' \subseteq Settled(q)
      BY OtherSettled DEF IInv
    <2>2. QED
      BY <1>2, <1>4, <1>6, <2>1, CountsOnePiece DEF IInv
  <1>8. UncountedIsBlank'
    BY <1>2, <1>5 DEF IInv, UncountedIsBlank
  <1>9. QED
    BY <1>7, <1>8

LEMMA IInvDeliverPartial ==
  ASSUME IInv, NEW p \in Pieces, NEW d \in AnswersTo[p], DeliverPartial(p, d)
  PROVE  /\ AnswersAreCounted'
         /\ UncountedIsBlank'
         /\ CompletionAgrees'
         /\ OnlyVerifiedBytesOnDisk'
  <1>1. /\ p \notin finished
        /\ nextOffsets' = nextOffsets
        /\ UNCHANGED <<resultVars, fileVars>>
        /\ finished' = finished
        /\ stream' = stream
        /\ pendingBlocks' = pendingBlocks \ Answered(p, d)
        /\ ~IsFinished(p, WithData(p, d))
        /\ pendingPieces' = PutPending(p, WithData(p, d))
    BY DEF DeliverPartial, resultVars, fileVars, AlreadyDone
  <1>2. QED
    BY <1>1, CountsKept, ResultsUntouched DEF IInv

LEMMA IInvDeliverThrows ==
  ASSUME IInv, NEW p \in Pieces, NEW d \in AnswersTo[p], DeliverThrows(p, d)
  PROVE  /\ AnswersAreCounted'
         /\ UncountedIsBlank'
         /\ CompletionAgrees'
         /\ OnlyVerifiedBytesOnDisk'
  <1>1. /\ p \notin finished
        /\ nextOffsets' = nextOffsets
        /\ UNCHANGED <<resultVars, fileVars>>
        /\ finished' = finished
        /\ stream' = stream
        /\ stream = "closed"
        /\ pendingBlocks' = pendingBlocks \ Answered(p, d)
        /\ pendingPieces' = PutPending(p, WithData(p, d))
    BY DEF DeliverThrows, resultVars, fileVars, AlreadyDone
  <1>2. QED
    BY <1>1, CountsKept, ResultsUntouched DEF IInv

\* A discarded piece starts from offset 0 again with nothing counted.
LEMMA IInvDeliverMismatch ==
  ASSUME IInv, NEW p \in Pieces, NEW d \in AnswersTo[p], DeliverMismatch(p, d)
  PROVE  /\ AnswersAreCounted'
         /\ UncountedIsBlank'
         /\ CompletionAgrees'
         /\ OnlyVerifiedBytesOnDisk'
  <1>1. /\ UNCHANGED <<resultVars, fileVars>>
        /\ finished' = finished
        /\ stream' = stream
        /\ nextOffsets' = [nextOffsets EXCEPT ![p] = 0]
        /\ pendingBlocks' = pendingBlocks \ Answered(p, d)
        /\ pendingPieces' = ErasePending(p)
    BY DEF DeliverMismatch, resultVars, fileVars
  <1>2. /\ PieceBuffer(p)' = FreshPiece(p)
        /\ \A q \in Pieces \ {p} : PieceBuffer(q)' = PieceBuffer(q)
    BY <1>1, ErasePendingFacts DEF IInv
  <1>3. /\ Cardinality(Settled(p)') = 0
        /\ PieceBuffer(p)'.blocksReceived = 0
    <2>1. nextOffsets'[p] = 0
      BY <1>1 DEF IInv, PMTypeOK
    <2>2. Settled(p)' = {}
      BY <2>1, BlocksFacts DEF Settled
    <2>3. QED
      BY <1>2, <2>2, FreshPieceFacts, FS_EmptySet
  <1>4. AnswersAreCounted'
    <2>1. ASSUME NEW q \in Pieces \ {p}
          PROVE  Settled(q)' \subseteq Settled(q)
      <3>1. nextOffsets'[q] = nextOffsets[q]
        BY <1>1 DEF IInv, PMTypeOK
      <3>2. QED
        BY <1>1, <3>1, OtherSettled DEF IInv
    <2>2. QED
      BY <1>1, <1>2, <1>3, <2>1, BlocksFacts, CountsOnePiece DEF IInv
  <1>5. UncountedIsBlank'
    BY <1>2, FreshPieceFacts DEF IInv, UncountedIsBlank
  <1>6. QED
    BY <1>1, <1>4, <1>5, ResultsUntouched DEF IInv

\* The step that finishes a piece: its hash has vouched for the data that is
\* written, and it is the last piece iff all pieces are now finished.
LEMMA IInvDeliverVerified ==
  ASSUME IInv, NEW p \in Pieces, NEW d \in AnswersTo[p], DeliverVerified(p, d)
  PROVE  /\ AnswersAreCounted'
         /\ UncountedIsBlank'
         /\ CompletionAgrees'
         /\ OnlyVerifiedBytesOnDisk'
  <1>1. /\ p \notin finished
        /\ VerifyHash(p, WithData(p, d))
        /\ WritePiece(p, d)
        /\ finished' = finished \cup {p}
        /\ pendingPieces' = ErasePending(p)
        /\ bitfield' = bitfield \cup {p}
        /\ piecesFinished' = piecesFinished + 1
        /\ progress' = IF HasTracker THEN progress + 1 ELSE progress
        /\ notifications' = IF piecesFinished + 1 >= NumPieces
                            THEN notifications + 1 ELSE notifications
        /\ pendingBlocks' = pendingBlocks \ Answered(p, d)
        /\ nextOffsets' = nextOffsets
    BY DEF DeliverVerified, AlreadyDone, SetPiece, NotifyProgress
  <1>3. /\ PieceBuffer(p)' = FreshPiece(p)
        /\ \A q \in Pieces \ {p} : PieceBuffer(q)' = PieceBuffer(q)
    BY <1>1, ErasePendingFacts DEF IInv
  <1>4. UncountedIsBlank'
    BY <1>3, FreshPieceFacts DEF IInv, UncountedIsBlank
  <1>5. AnswersAreCounted'
    <2>1. stream # "closed"
      BY <1>1 DEF WritePiece
    <2>2. \A q \in Pieces \ {p} : Settled(q)' \subseteq Settled(q)
      BY <1>1, OtherSettled DEF IInv
    <2>3. QED
      BY <1>1, <1>3, <2>1, <2>2, CountsOnePiece DEF IInv
  <1>6. CompletionAgrees'
    <2>1. /\ NumPieces \in Nat \ {0}
          /\ IsFiniteSet(Pieces)
          /\ Cardinality(Pieces) = NumPieces
      BY PiecesFacts
    <2>2. /\ IsFiniteSet(finished)
          /\ IsFiniteSet(finished')
          /\ finished' \subseteq Pieces
      BY <1>1, <2>1, FS_Subset DEF IInv, PMTypeOK
    <2>3. piecesFinished' = Cardinality(finished')
      <3>1. Cardinality(finished \cup {p}) = Cardinality(finished) + 1
        BY <1>1, <2>2, FS_AddElement
      <3>2. QED
        BY <1>1, <3>1 DEF IInv, CompletionAgrees
    <2>4. finished' = Pieces <=> piecesFinished + 1 >= NumPieces
      <3>1. /\ Cardinality(finished') <= NumPieces
            /\ Cardinality(finished') = NumPieces => finished' = Pieces
        BY <2>1, <2>2, FS_Subset
      <3>2. piecesFinished \in Nat
        BY DEF IInv, PMTypeOK
      <3>3. piecesFinished' = NumPieces <=> piecesFinished + 1 >= NumPieces
        BY <1>1, <2>1, <2>3, <3>1, <3>2
      <3>4. QED
        BY <2>1, <2>3, <3>1, <3>3
    <2>5. finished # Pieces /\ notifications = 0
      BY <1>1 DEF IInv, CompletionAgrees
    <2>6. /\ bitfield' = finished'
          /\ progress' = IF HasTracker THEN piecesFinished' ELSE 0
      BY <1>1, EnvironmentAssumption DEF IInv, CompletionAgrees
    <2>7. notifications' = IF finished' = Pieces THEN 1 ELSE 0
      BY <1>1, <2>4, <2>5
    <2>8. QED
      BY <2>3, <2>6, <2>7 DEF CompletionAgrees
  <1>7. OnlyVerifiedBytesOnDisk'
    <2>1. \A i \in DOMAIN d.bytes : d.bytes[i] # Corrupt
      BY <1>1, VerifiedData DEF IInv
    <2>2. /\ \A q \in Pieces \ {p} : file'[q] = file[q]
          /\ \A c \in Blocks(p) :
               \/ file'[p][c] \in {Part, file[p][c]}
               \/ \E i \in DOMAIN d.bytes : file'[p][c] = d.bytes[i]
      BY <1>1, WritePieceFacts DEF IInv
    <2>3. \A c \in Blocks(p) : file[p][c] = Blank
      BY <1>1 DEF IInv, OnlyVerifiedBytesOnDisk
    <2>4. \A c \in Blocks(p) : file'[p][c] # Corrupt
      <3>1. Part # Corrupt /\ Blank # Corrupt
        BY DEF Part, Blank, Corrupt
      <3>2. QED
        BY <2>1, <2>2, <2>3, <3>1
    <2>5. QED
      BY <1>1, <2>2, <2>4 DEF IInv, OnlyVerifiedBytesOnDisk
  <1>8. QED
    BY <1>4, <1>5, <1>6, <1>7

\* A refused delivery only makes sure that the piece has a buffer.
LEMMA IInvDeliverOutOfBounds ==
  ASSUME IInv, NEW p \in Pieces, DeliverOutOfBounds(p)
  PROVE  /\ AnswersAreCounted'
         /\ UncountedIsBlank'
         /\ CompletionAgrees'
         /\ OnlyVerifiedBytesOnDisk'
  <1>1. /\ UNCHANGED <<allocVars, resultVars, fileVars>>
        /\ UNCHANGED <<resultVars, fileVars>>
        /\ finished' = finished
        /\ stream' = stream
        /\ pendingBlocks' = pendingBlocks
        /\ nextOffsets' = nextOffsets
        /\ pendingPieces' = PutPending(p, PieceBuffer(p))
    BY DEF DeliverOutOfBounds, allocVars, resultVars, fileVars
  <1>2. \A q \in Pieces : PieceBuffer(q)' = PieceBuffer(q)
    BY <1>1, BufferType, PutPendingFacts DEF IInv
  <1>3. \A q \in Pieces : Settled(q)' = Settled(q)
    BY <1>1 DEF Settled
  <1>4. AnswersAreCounted' /\ UncountedIsBlank'
    BY <1>1, <1>2, <1>3 DEF IInv, AnswersAreCounted, UncountedIsBlank
  <1>5. QED
    BY <1>1, <1>4, ResultsUntouched DEF IInv

\* A step that changes nothing.
LEMMA IInvStutter ==
  ASSUME IInv, UNCHANGED pmVars
  PROVE  IInv'
  <1> USE DEF pmVars
  <1>1. PMTypeOK'
    BY DEF IInv, PMTypeOK
  <1>2. \A p \in Pieces : Settled(p)' = Settled(p)
    BY DEF Settled
  <1>3. QED
    BY <1>1, <1>2, AllocationKeepsCounts DEF IInv, resultVars, fileVars

LEMMA IInvDeliver ==
  ASSUME IInv, Deliver
  PROVE  IInv'
  <1>1. PMTypeOK'
    BY TypeStepDeliver DEF IInv
  <1>2. PICK p \in Pieces :
          \/ DeliverFinished(p)
          \/ DeliverOutOfBounds(p)
          \/ \E d \in AnswersTo[p] :
               \/ DeliverPartial(p, d)
               \/ DeliverVerified(p, d)
               \/ DeliverThrows(p, d)
               \/ DeliverMismatch(p, d)
    BY DEF Deliver
  <1>3. CASE DeliverFinished(p)
    BY <1>3, IInvStutter DEF DeliverFinished
  <1>4. CASE DeliverOutOfBounds(p)
    BY <1>1, <1>4, IInvDeliverOutOfBounds DEF IInv
  <1>5. ASSUME NEW d \in AnswersTo[p],
               \/ DeliverPartial(p, d)
               \/ DeliverVerified(p, d)
               \/ DeliverThrows(p, d)
               \/ DeliverMismatch(p, d)
        PROVE  IInv'
    BY <1>1, <1>5, IInvDeliverPartial, IInvDeliverVerified,
       IInvDeliverThrows, IInvDeliverMismatch DEF IInv
  <1>6. QED
    BY <1>2, <1>3, <1>4, <1>5

-----------------------------------------------------------------------------
(* The theorems *)

\* The conjunction of the manager's invariants is inductive.
THEOREM PMInvariant == PMSpec => []IInv
  <1>1. IInv /\ [PMNext]_pmVars => IInv'
    <2>1. CASE UNCHANGED pmVars
      BY <2>1, IInvStutter
    <2>2. QED
      BY <2>1, IInvCallers, IInvDeliver DEF PMNext
  <1>2. QED
    BY <1>1, IInvInit, PTL DEF PMSpec

\* Every block of an unfinished piece that left the pending set for good has
\* its delivery counted, and the count never passes the number at which the
\* hash is checked, whatever extent the deliveries have.
THEOREM AnswersAreRightlyCounted == PMSpec => []AnswersAreCounted
  <1>1. IInv => AnswersAreCounted
    BY DEF IInv
  <1>2. QED
    BY <1>1, PMInvariant, PTL

\* With a usable file, an unfinished piece always has a block out or to hand
\* out: if it had neither, all its blocks would be settled, and there are
\* fewer deliveries counted than it has blocks.
THEOREM PiecesCanProgress == PMSpec => []UnfinishedPieceCanProgress
  <1>1. IInv => UnfinishedPieceCanProgress
    <2> SUFFICES ASSUME IInv, stream # "closed", NEW p \in Pieces \ finished,
                        \A b \in Blocks(p) : /\ <<p, b>> \notin pendingBlocks
                                             /\ b \notin FreeBlocks(p)
                 PROVE  FALSE
      BY DEF UnfinishedPieceCanProgress
    <2>1. \A b \in Blocks(p) : b < nextOffsets[p]
      <3>1. nextOffsets[p] \in Nat /\ Blocks(p) \subseteq Nat
        BY BlocksFacts DEF IInv, PMTypeOK
      <3>2. \A b \in Blocks(p) : ~(b >= nextOffsets[p])
        BY DEF FreeBlocks
      <3>3. QED
        BY <3>1, <3>2
    <2>2. Settled(p) = Blocks(p)
      BY <2>1 DEF Settled
    <2>3. Cardinality(Settled(p)) = NumBlocks[p]
      BY <2>2, SettledFacts
    <2>4. /\ NumBlocks[p] <= PieceBuffer(p).blocksReceived
          /\ PieceBuffer(p).blocksReceived < NumBlocks[p]
      BY <2>3 DEF IInv, AnswersAreCounted
    <2>5. /\ NumBlocks[p] \in Nat
          /\ PieceBuffer(p).blocksReceived \in Nat
      BY BufferType, BlocksFacts DEF IInv, PendingPiece
    <2>6. QED
      BY <2>4, <2>5
  <1>2. QED
    BY <1>1, PMInvariant, PTL

\* The counters, the bitfield and the notification agree with the set of
\* finished pieces.
THEOREM CompletionIsConsistent == PMSpec => []CompletionAgrees
  <1>1. IInv => CompletionAgrees
    BY DEF IInv
  <1>2. QED
    BY <1>1, PMInvariant, PTL

\* Whatever the peers send, no byte that failed its hash reaches the file.
THEOREM FileHoldsVerifiedBytes == PMSpec => []OnlyVerifiedBytesOnDisk
  <1>1. IInv => OnlyVerifiedBytesOnDisk
    BY DEF IInv
  <1>2. QED
    BY <1>1, PMInvariant, PTL

\* No step changes a finished piece.
THEOREM FinishedPiecesAreFinal == PMSpec => FinishedIsFinal
  <1>1. IInv /\ [PMNext]_pmVars =>
          [\A p \in finished :
             p \in finished' /\ p \in bitfield' /\ file'[p] = file[p]]_pmVars
    <2> SUFFICES ASSUME IInv, PMNext, NEW p \in finished
                 PROVE  p \in finished' /\ p \in bitfield' /\ file'[p] = file[p]
      OBVIOUS
    <2>1. p \in bitfield /\ p \in Pieces
      BY DEF IInv, PMTypeOK, CompletionAgrees
    <2>2. CASE UNCHANGED <<finished, bitfield, file>>
      BY <2>1, <2>2
    <2>3. ASSUME NEW q \in Pieces, NEW d \in AnswersTo[q], DeliverVerified(q, d)
          PROVE  p \in finished' /\ p \in bitfield' /\ file'[p] = file[p]
      <3>1. /\ p # q
            /\ finished' = finished \cup {q}
            /\ bitfield' = bitfield \cup {q}
            /\ WritePiece(q, d)
        BY <2>3 DEF DeliverVerified, AlreadyDone, SetPiece
      <3>2. QED
        BY <2>1, <3>1, WritePieceFacts DEF IInv
    <2>4. QED
      BY <2>2, <2>3 DEF PMNext, Request, RequestNothing, RequestBlock, Deliver,
         DeliverFinished, DeliverOutOfBounds, DeliverPartial, DeliverThrows,
         DeliverMismatch, Return, ReturnBlock, ReturnRefused,
         pmVars, allocVars, resultVars, fileVars
  <1>2. QED
    BY <1>1, PMInvariant, PTL DEF PMSpec, FinishedIsFinal

\* Where a piece has one block, the data that makes its hash match is that
\* block: nothing was in the buffer before it.
LEMMA OneBlockData ==
  ASSUME IInv, NEW p \in Pieces, NumBlocks[p] = 1, NEW d \in AnswersTo[p],
         PieceBuffer(p).blocksReceived = 0, VerifyHash(p, WithData(p, d))
  PROVE  ~d.inside /\ d.bytes = << 0 >>
  <1>1. 0 \in Blocks(p) /\ \A b \in Blocks(p) : b = 0
    BY DEF Blocks
  <1>2. d.first = 0
    BY <1>1, AnswerFacts
  <1>3. Copied(p, d, 0) = 0
    BY <1>1, WithDataFacts DEF IInv, VerifyHash
  <1>4. PieceBuffer(p).data[0] = Blank
    BY <1>1 DEF IInv, UncountedIsBlank
  <1>5. 0 - d.first + 1 = 1
    BY <1>2
  <1>6. 1 \in DOMAIN d.bytes
    BY <1>3, <1>4, <1>5 DEF Copied, Blank
  <1>7. d.bytes[1] # Part
    BY <1>3, <1>4, <1>5, <1>6 DEF Copied, Corrupt
  <1>8. d.bytes[1] = 0
    BY <1>3, <1>5, <1>6, <1>7 DEF Copied
  <1>9. Len(d.bytes) = 1
    <2>1. Len(d.bytes) \in Nat /\ 0 + Len(d.bytes) <= 1 /\ 1 \in 1 .. Len(d.bytes)
      BY <1>2, <1>6, AnswerFacts
    <2>2. \A n \in Nat : 0 + n <= 1 /\ 1 \in 1 .. n => n = 1
      OBVIOUS
    <2>3. QED
      BY <2>1, <2>2, Zenon
  <1>10. d.bytes = << 0 >>
    BY <1>8, <1>9, AnswerFacts
  <1>11. ~d.inside
    <2>1. InPlace(d, 1)
      BY <1>6, AnswerFacts
    <2>2. QED
      BY <1>7, <1>8, <2>1 DEF InPlace, Corrupt
  <1>12. QED
    BY <1>10, <1>11

\* Writing a one-block piece to a good stream puts its bytes in place.
LEMMA WriteOneBlock ==
  ASSUME PMTypeOK, NEW p \in Pieces, NumBlocks[p] = 1, NEW d,
         ~d.inside, d.bytes = << 0 >>, WritePiece(p, d), stream' = "open"
  PROVE  file'[p][0] = 0
  <1>1. 0 \in Blocks(p)
    BY DEF Blocks
  <1>2. file' = [file EXCEPT ![p] = Region(p, d)]
    BY DEF WritePiece
  <1>3. file'[p] = Region(p, d)
    BY <1>2 DEF PMTypeOK
  <1>4. Len(<< 0 >>) = 1 /\ << 0 >>[1] = 0
    OBVIOUS
  <1>5. Region(p, d)[0] = d.bytes[1]
    BY <1>1, <1>4 DEF Region
  <1>6. QED
    BY <1>3, <1>4, <1>5

\* A finished piece of one block is in the file while the stream is good.
\* The data handed to writePiece is then the whole piece.
THEOREM OneBlockPiecesReachDisk == PMSpec => []OneBlockPiecesOnDisk
  <1>1. PMInit => OneBlockPiecesOnDisk
    BY DEF PMInit, OneBlockPiecesOnDisk
  <1>2. IInv /\ OneBlockPiecesOnDisk /\ [PMNext]_pmVars => OneBlockPiecesOnDisk'
    <2> SUFFICES ASSUME IInv, OneBlockPiecesOnDisk, [PMNext]_pmVars
                 PROVE  OneBlockPiecesOnDisk'
      OBVIOUS
    <2>1. CASE UNCHANGED <<finished, file, stream>>
      BY <2>1 DEF OneBlockPiecesOnDisk
    <2>2. ASSUME NEW q \in Pieces, NEW d \in AnswersTo[q], DeliverVerified(q, d)
          PROVE  OneBlockPiecesOnDisk'
      <3> SUFFICES ASSUME stream' = "open", NEW p \in finished', NumBlocks[p] = 1
                   PROVE  file'[p][0] = 0
        BY DEF OneBlockPiecesOnDisk
      <3>1. /\ q \notin finished
            /\ finished' = finished \cup {q}
            /\ VerifyHash(q, WithData(q, d))
            /\ WritePiece(q, d)
        BY <2>2 DEF DeliverVerified, AlreadyDone
      <3>2. PMTypeOK
        BY DEF IInv
      <3>3. CASE p = q
        <4>1. stream # "closed"
          BY <3>1 DEF WritePiece
        <4>2. PieceBuffer(q).blocksReceived \in Nat /\ PieceBuffer(q).blocksReceived < 1
          BY <3>1, <3>2, <3>3, <4>1, BufferType DEF IInv, AnswersAreCounted, PendingPiece
        <4>3. ~d.inside /\ d.bytes = << 0 >>
          BY <3>1, <3>3, <4>2, OneBlockData
        <4>4. QED
          BY <3>1, <3>2, <3>3, <4>3, WriteOneBlock
      <3>4. CASE p # q
        <4>1. p \in finished /\ p \in Pieces
          BY <3>1, <3>2, <3>4 DEF PMTypeOK
        <4>2. file'[p] = file[p]
          BY <3>1, <3>2, <3>4, <4>1, WritePieceFacts
        <4>3. stream = "open"
          BY <3>1 DEF WritePiece
        <4>4. QED
          BY <4>1, <4>2, <4>3 DEF OneBlockPiecesOnDisk
      <3>5. QED
        BY <3>3, <3>4
    <2>3. QED
      BY <2>1, <2>2 DEF PMNext, Request, RequestNothing, RequestBlock, Deliver,
         DeliverFinished, DeliverOutOfBounds, DeliverPartial, DeliverThrows,
         DeliverMismatch, Return, ReturnBlock, ReturnRefused,
         pmVars, allocVars, resultVars, fileVars
  <1>3. QED
    BY <1>1, <1>2, PMInvariant, PTL DEF PMSpec

-----------------------------------------------------------------------------
(* No block is lost, where every answer has bytes *)

\* A delivery with bytes in it covers the block it takes off the pending set.
LEMMA DeliveryReceives ==
  ASSUME PMTypeOK, "empty" \notin Answers, NEW p \in Pieces, NEW d \in AnswersTo[p],
         PieceBuffer(p)' = WithData(p, d)
  PROVE  Received(p) \cup {d.first} \subseteq Received(p)'
  <1>1. Len(d.bytes) > 0 /\ d.first \in Blocks(p)
    BY AnswerFacts
  <1>2. Received(p)' = {b \in Blocks(p) : WithData(p, d).data[b] # Blank}
    BY DEF Received
  <1>3. QED
    BY <1>1, <1>2, WithDataFacts DEF Received

\* The other pieces' buffers and the blocks received of them stay the same.
LEMMA OtherPieces ==
  ASSUME NEW q \in Pieces, PieceBuffer(q)' = PieceBuffer(q)
  PROVE  Received(q)' = Received(q)
  BY DEF Received

\* A step that leaves finished and the next offsets alone, and takes a block
\* of p out of pendingBlocks only when p has just received it.
LEMMA DeliveredNotLost ==
  ASSUME PMTypeOK, NoBlockLost, "empty" \notin Answers,
         NEW p \in Pieces, NEW d \in AnswersTo[p],
         pendingPieces' = PutPending(p, WithData(p, d)),
         nextOffsets' = nextOffsets, finished' = finished,
         pendingBlocks' = pendingBlocks \ Answered(p, d)
  PROVE  NoBlockLost'
  <1>1. WithData(p, d) \in PendingPiece(p)
    BY WithDataFacts
  <1>2. /\ PieceBuffer(p)' = WithData(p, d)
        /\ \A q \in Pieces \ {p} : PieceBuffer(q)' = PieceBuffer(q)
    BY <1>1, PutPendingFacts
  <1>3. Received(p) \cup {d.first} \subseteq Received(p)'
    BY <1>2, DeliveryReceives
  <1>4. \A q \in Pieces \ {p} : Received(q)' = Received(q)
    BY <1>2, OtherPieces
  <1>5. \A q \in Pieces : \A b \in Blocks(q) :
          <<q, b>> \in pendingBlocks => <<q, b>> \in pendingBlocks' \/ (q = p /\ b = d.first)
    BY DEF Answered
  <1>6. ASSUME NEW q \in Pieces \ finished, NEW b \in Blocks(q), b < nextOffsets[q]
        PROVE  <<q, b>> \in pendingBlocks' \/ b \in Received(q)'
    <2>1. <<q, b>> \in pendingBlocks \/ b \in Received(q)
      BY <1>6 DEF NoBlockLost
    <2>2. QED
      BY <1>3, <1>4, <1>5, <2>1
  <1>7. QED
    BY <1>6 DEF NoBlockLost

\* Of the steps that change no buffer, the request only skips pending blocks
\* and the return rewinds: neither settles a block.
LEMMA AllocationLosesNothing ==
  ASSUME NoBlockLost, UNCHANGED <<pendingPieces, finished>>,
         \A q \in Pieces : Settled(q)' \subseteq Settled(q)
  PROVE  NoBlockLost'
  <1>1. \A q \in Pieces : PieceBuffer(q)' = PieceBuffer(q)
    BY DEF PieceBuffer
  <1>2. \A q \in Pieces : Received(q)' = Received(q)
    BY <1>1, OtherPieces
  <1>3. ASSUME NEW q \in Pieces \ finished, NEW b \in Blocks(q), b < nextOffsets'[q]
        PROVE  <<q, b>> \in pendingBlocks' \/ b \in Received(q)
    <2>1. <<q, b>> \notin pendingBlocks' => b \in Settled(q)'
      BY <1>3 DEF Settled
    <2>2. b \in Settled(q) => b < nextOffsets[q] /\ <<q, b>> \notin pendingBlocks
      BY DEF Settled
    <2>3. QED
      BY <2>1, <2>2 DEF NoBlockLost
  <1>4. QED
    BY <1>2, <1>3 DEF NoBlockLost

LEMMA NoBlockLostStep ==
  ASSUME IInv, NoBlockLost, "empty" \notin Answers, [PMNext]_pmVars
  PROVE  NoBlockLost'
  <1> USE DEF IInv
  <1>1. CASE UNCHANGED pmVars
    BY <1>1, AllocationLosesNothing DEF pmVars, Settled
  <1>2. CASE Request \/ Return
    BY <1>2, SettledByCallers, AllocationLosesNothing
  <1>3. CASE Deliver
    <2>1. PICK p \in Pieces :
            \/ DeliverFinished(p)
            \/ DeliverOutOfBounds(p)
            \/ \E d \in AnswersTo[p] :
                 \/ DeliverPartial(p, d)
                 \/ DeliverVerified(p, d)
                 \/ DeliverThrows(p, d)
                 \/ DeliverMismatch(p, d)
      BY <1>3 DEF Deliver
    <2>2. CASE DeliverFinished(p)
      BY <2>2, AllocationLosesNothing DEF DeliverFinished, pmVars, Settled
    <2>3. CASE DeliverOutOfBounds(p)
      <3>1. /\ UNCHANGED <<finished, pendingBlocks, nextOffsets>>
            /\ pendingPieces' = PutPending(p, PieceBuffer(p))
        BY <2>3 DEF DeliverOutOfBounds, allocVars, resultVars
      <3>2. \A q \in Pieces : PieceBuffer(q)' = PieceBuffer(q)
        BY <3>1, BufferType, PutPendingFacts
      <3>3. \A q \in Pieces : Received(q)' = Received(q)
        BY <3>2, OtherPieces
      <3>4. QED
        BY <3>1, <3>3 DEF NoBlockLost
    <2>4. ASSUME NEW d \in AnswersTo[p], DeliverPartial(p, d) \/ DeliverThrows(p, d)
          PROVE  NoBlockLost'
      BY <2>4, DeliveredNotLost DEF DeliverPartial, DeliverThrows, resultVars
    <2>5. ASSUME NEW d \in AnswersTo[p], DeliverVerified(p, d) \/ DeliverMismatch(p, d)
          PROVE  NoBlockLost'
      <3>1. /\ pendingPieces' = ErasePending(p)
            /\ pendingBlocks' = pendingBlocks \ Answered(p, d)
            /\ nextOffsets' \in {nextOffsets, [nextOffsets EXCEPT ![p] = 0]}
            /\ finished \subseteq finished'
            /\ p \in finished' \/ nextOffsets' = [nextOffsets EXCEPT ![p] = 0]
        BY <2>5 DEF DeliverVerified, DeliverMismatch, resultVars
      <3>2. \A q \in Pieces \ {p} : Received(q)' = Received(q)
        BY <3>1, ErasePendingFacts, OtherPieces
      <3>3. ASSUME NEW q \in Pieces \ finished', NEW b \in Blocks(q), b < nextOffsets'[q]
            PROVE  <<q, b>> \in pendingBlocks' \/ b \in Received(q)'
        <4>1. q # p
          <5>1. \A c \in Blocks(p) : ~(c < 0)
            BY BlocksFacts
          <5>2. nextOffsets' = [nextOffsets EXCEPT ![p] = 0] => nextOffsets'[p] = 0
            BY DEF PMTypeOK
          <5>3. QED
            BY <3>1, <3>3, <5>1, <5>2
        <4>2. nextOffsets'[q] = nextOffsets[q]
          BY <3>1, <4>1 DEF PMTypeOK
        <4>3. <<q, b>> \in pendingBlocks => <<q, b>> \in pendingBlocks'
          BY <3>1, <4>1 DEF Answered
        <4>4. QED
          BY <3>1, <3>2, <3>3, <4>1, <4>2, <4>3 DEF NoBlockLost
      <3>4. QED
        BY <3>3 DEF NoBlockLost
    <2>6. QED
      BY <2>1, <2>2, <2>3, <2>4, <2>5
  <1>4. QED
    BY <1>1, <1>2, <1>3 DEF PMNext

\* No block below a piece's next offset is forgotten by the allocator, where
\* no answer comes without bytes.
THEOREM BlocksAreNeverLost ==
  ASSUME "empty" \notin Answers
  PROVE  PMSpec => []NoBlockLost
  <1>1. PMInit => NoBlockLost
    BY BlocksFacts DEF PMInit, NoBlockLost
  <1>2. IInv /\ NoBlockLost /\ [PMNext]_pmVars => NoBlockLost'
    BY NoBlockLostStep
  <1>3. QED
    BY <1>1, <1>2, PMInvariant, PTL DEF PMSpec

-----------------------------------------------------------------------------
(* The manager implements Completion *)

\* Counters that agree with the finished pieces fit Completion's bounds.
LEMMA CountedPieces ==
  ASSUME PMTypeOK, CompletionAgrees
  PROVE  piecesFinished \in 0 .. NumPieces
  <1>1. finished \subseteq Pieces
    BY DEF PMTypeOK
  <1>2. Cardinality(finished) \in Nat /\ Cardinality(finished) <= NumPieces
    BY <1>1, PiecesFacts, FS_Subset, FS_CardinalityType
  <1>3. QED
    BY <1>2, GeometryAssumption DEF CompletionAgrees

LEMMA CompletionInit == PMInit => Watched!Init
  BY GeometryAssumption DEF PMInit, Watched!Init

\* Only the delivery that verifies a piece is a step of Completion, and it is
\* all of its parts at once.
LEMMA CompletionStep ==
  IInv /\ IInv' /\ [PMNext]_pmVars => [Watched!Next]_(Watched!vars)
  <1> SUFFICES ASSUME IInv, IInv', [PMNext]_pmVars
               PROVE  Watched!Next \/ UNCHANGED Watched!vars
    OBVIOUS
  <1>1. CASE UNCHANGED <<piecesFinished, progress, notifications>>
    BY <1>1 DEF Watched!vars
  <1>2. ASSUME NEW q \in Pieces, NEW d \in AnswersTo[q], DeliverVerified(q, d)
        PROVE  Watched!Next
    <2>1. /\ piecesFinished' = piecesFinished + 1
          /\ progress' = progress \/ progress' = progress + 1
          /\ notifications' = notifications
               \/ (piecesFinished + 1 >= NumPieces /\ notifications' = notifications + 1)
      BY <1>2 DEF DeliverVerified, NotifyProgress
    <2>2. /\ piecesFinished \in 0 .. NumPieces /\ piecesFinished' \in 0 .. NumPieces
          /\ progress' <= piecesFinished'
          /\ notifications \in {0, 1} /\ notifications' \in {0, 1}
          /\ progress \in Nat
      <3>1. /\ piecesFinished \in 0 .. NumPieces
            /\ progress \in Nat /\ notifications \in {0, 1}
        BY CountedPieces DEF IInv, PMTypeOK, CompletionAgrees
      <3>2. piecesFinished' \in 0 .. NumPieces
        <4>1. finished' \subseteq Pieces /\ piecesFinished' = Cardinality(finished')
          BY DEF IInv, PMTypeOK, CompletionAgrees
        <4>2. QED
          BY <4>1, PiecesFacts, FS_Subset, FS_CardinalityType
      <3>3. notifications' \in {0, 1} /\ progress' <= piecesFinished'
        BY <3>2, GeometryAssumption DEF IInv, CompletionAgrees
      <3>4. QED
        BY <3>1, <3>2, <3>3
    <2>3. QED
      BY <2>1, <2>2, GeometryAssumption
         DEF Watched!Next, Watched!Settle, Watched!Finish, Watched!Report, Watched!Announce
  <1>3. QED
    BY <1>1, <1>2 DEF PMNext, Request, RequestNothing, RequestBlock, Deliver,
       DeliverFinished, DeliverOutOfBounds, DeliverPartial, DeliverThrows,
       DeliverMismatch, Return, ReturnBlock, ReturnRefused,
       pmVars, allocVars, resultVars, fileVars

\* The manager implements Completion, whatever its callers do.
THEOREM ManagerImplementsCompletion == PMSpec => ManagerCompletes
  BY CompletionInit, CompletionStep, PMInvariant, PTL
     DEF PMSpec, ManagerCompletes, Watched!Spec
=============================================================================
