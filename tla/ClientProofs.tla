---------------------------- MODULE ClientProofs ----------------------------
(* Theorems about the whole run, for every torrent, answer of the tracker,  *)
(* set of peers and width of the code's integers.                           *)
EXTENDS Client, OrchestratorProofs, LibraryProofs

-----------------------------------------------------------------------------
(* What the parsers return *)

\* A dict has at most one value for a key.
LEMMA ExtractFacts ==
  ASSUME NEW dict, NEW key, NEW type, NEW v \in Extract(dict, key, type)
  PROVE  key \in DOMAIN dict /\ v = dict[key] /\ v.type = type
  BY DEF Extract

\* An int is its number.
LEMMA ExtractedInt ==
  ASSUME NEW dict, Dict(dict), NEW key, NEW v \in Extract(dict, key, "int")
  PROVE  /\ key \in DOMAIN dict
         /\ dict[key] = IntValue(v.int)
         /\ v.int = dict[key].int
         /\ v.int \in Int
  BY DEF Extract, Dict

\* A length over a size is a natural number.
LEMMA DivideIsNat ==
  ASSUME NEW n \in Nat, NEW d \in Nat \ {0}
  PROVE  n \div d \in Nat
  <1> DEFINE q == n \div d
             r == n % d
  <1>1. q \in Int /\ r \in 0 .. d - 1 /\ n = d * q + r
    OBVIOUS
  <1> HIDE DEF q, r
  <1>2. ASSUME q <= -1 PROVE FALSE
    <2>1. d * q <= d * (-1)
      BY <1>1, <1>2
    <2>2. QED
      BY <2>1, <1>1
  <1>3. q \in Nat
    BY <1>1, <1>2
  <1>4. QED
    BY <1>3 DEF q

\* The members of Info, and what makes each of them acceptable.
InfoOf(dict) ==
  [pieceLength |-> dict[PIECE_LENGTH].int,
   rawPieces |-> dict[PIECES],
   pieceHashes |-> dict[PIECES].length \div HashLength,
   fileLength |-> dict[LENGTH].int,
   fileName |-> dict[NAME]]

\* What parseInfoDict builds its result from.
LEMMA ParsedFrom ==
  ASSUME NEW dict, NEW info \in ParseInfoDict(dict)
  PROVE  \E piece \in Extract(dict, PIECE_LENGTH, "int") :
         \E s \in Extract(dict, PIECES, "string") :
         \E file \in Extract(dict, LENGTH, "int") :
         \E name \in Extract(dict, NAME, "string") :
           /\ piece.int > 0
           /\ (s.length \div HashLength) * HashLength = s.length
           /\ file.int >= 0
           /\ info = [pieceLength |-> piece.int, rawPieces |-> s,
                      pieceHashes |-> s.length \div HashLength,
                      fileLength |-> file.int, fileName |-> name]
  <1>1. PICK v \in {l \in Extract(dict, PIECE_LENGTH, "int") : l.int > 0}
                    \X (UNION {{s} \X PieceHashes(s) : s \in Extract(dict, PIECES, "string")})
                    \X {l \in Extract(dict, LENGTH, "int") : l.int >= 0}
                    \X Extract(dict, NAME, "string") :
          info = [pieceLength |-> v[1].int, rawPieces |-> v[2][1],
                  pieceHashes |-> v[2][2], fileLength |-> v[3].int,
                  fileName |-> v[4]]
    BY DEF ParseInfoDict
  <1>2. PICK s \in Extract(dict, PIECES, "string") : v[2] \in {s} \X PieceHashes(s)
    BY <1>1
  <1>3. /\ v[1] \in Extract(dict, PIECE_LENGTH, "int") /\ v[1].int > 0
        /\ v[3] \in Extract(dict, LENGTH, "int") /\ v[3].int >= 0
        /\ v[4] \in Extract(dict, NAME, "string")
    BY <1>1
  <1>4. /\ v[2][1] = s
        /\ v[2][2] = s.length \div HashLength
        /\ (s.length \div HashLength) * HashLength = s.length
    BY <1>2 DEF PieceHashes
  <1>5. QED
    BY <1>1, <1>2, <1>3, <1>4

\* An info dict that is parsed has its four members, with their types and in
\* their ranges.
LEMMA InfoFacts ==
  ASSUME NEW dict, Dict(dict), NEW info \in ParseInfoDict(dict)
  PROVE  /\ info = InfoOf(dict)
         /\ {PIECE_LENGTH, PIECES, LENGTH, NAME} \subseteq DOMAIN dict
         /\ dict[PIECE_LENGTH] = IntValue(info.pieceLength)
         /\ dict[LENGTH] = IntValue(info.fileLength)
         /\ info.pieceLength \in Nat \ {0}
         /\ info.fileLength \in Nat
         /\ info.pieceHashes \in Nat
         /\ info.rawPieces.length = info.pieceHashes * HashLength
  <1>1. PICK piece \in Extract(dict, PIECE_LENGTH, "int"),
             s \in Extract(dict, PIECES, "string"),
             file \in Extract(dict, LENGTH, "int"),
             name \in Extract(dict, NAME, "string") :
          /\ piece.int > 0
          /\ (s.length \div HashLength) * HashLength = s.length
          /\ file.int >= 0
          /\ info = [pieceLength |-> piece.int, rawPieces |-> s,
                     pieceHashes |-> s.length \div HashLength,
                     fileLength |-> file.int, fileName |-> name]
    BY ParsedFrom
  <1>2. /\ NAME \in DOMAIN dict /\ name = dict[NAME]
        /\ PIECES \in DOMAIN dict /\ s = dict[PIECES] /\ s.length \in Nat
    BY DEF Extract, Dict
  <1>3. /\ PIECE_LENGTH \in DOMAIN dict
        /\ dict[PIECE_LENGTH] = IntValue(piece.int)
        /\ piece.int = dict[PIECE_LENGTH].int
        /\ piece.int \in Int
    BY ExtractedInt
  <1>4. /\ LENGTH \in DOMAIN dict
        /\ dict[LENGTH] = IntValue(file.int)
        /\ file.int = dict[LENGTH].int
        /\ file.int \in Int
    BY ExtractedInt
  <1>5. s.length \div HashLength \in Nat
    BY <1>2, DivideIsNat, StartupAssumption
  <1>6. piece.int \in Nat \ {0} /\ file.int \in Nat
    BY <1>1, <1>3, <1>4
  <1>7. info = InfoOf(dict)
    BY <1>1, <1>2, <1>3, <1>4 DEF InfoOf
  <1>8. /\ info.pieceLength = piece.int /\ info.fileLength = file.int
        /\ info.rawPieces = s /\ info.pieceHashes = s.length \div HashLength
    BY <1>1
  <1>9. QED
    BY <1>1, <1>2, <1>3, <1>4, <1>5, <1>6, <1>7, <1>8

\* parseRootMetadata's result is a function of the root dict.
MetadataOf(root) ==
  [announce |-> root[ANNOUNCE].text,
   info |-> InfoOf(root[INFO].map),
   infoHash |-> CalculateInfoHash(InfoOf(root[INFO].map))]

\* A root dict that is parsed has an info dict that is parsed.
LEMMA RootFacts ==
  ASSUME NEW root, NEW m \in ParseRootMetadata(root),
         \A k \in DOMAIN root : root[k].type = "dict" => Dict(root[k].map)
  PROVE  /\ m = MetadataOf(root)
         /\ INFO \in DOMAIN root
         /\ Dict(root[INFO].map)
         /\ m.info \in ParseInfoDict(root[INFO].map)
  <1>1. PICK v \in Extract(root, ANNOUNCE, "string")
                    \X Extract(root, COMMENT, "string")
                    \X Extract(root, CREATION_DATE, "int")
                    \X (UNION {ParseInfoDict(d.map) : d \in Extract(root, INFO, "dict")}) :
          m = [announce |-> v[1].text, info |-> v[4], infoHash |-> CalculateInfoHash(v[4])]
    BY DEF ParseRootMetadata
  <1>2. PICK d \in Extract(root, INFO, "dict") : v[4] \in ParseInfoDict(d.map)
    BY <1>1
  <1>3. INFO \in DOMAIN root /\ d = root[INFO] /\ d.type = "dict"
    BY ExtractFacts
  <1>4. Dict(root[INFO].map)
    BY <1>3
  <1>5. v[4] = InfoOf(root[INFO].map)
    BY <1>2, <1>3, <1>4, InfoFacts
  <1>6. v[1] = root[ANNOUNCE]
    <2>1. v[1] \in Extract(root, ANNOUNCE, "string")
      BY <1>1
    <2>2. QED
      BY <2>1, ExtractFacts
  <1>7. QED
    BY <1>1, <1>2, <1>3, <1>4, <1>5, <1>6 DEF MetadataOf

\* What is loaded is loaded from the torrent's own root and info dicts.
LEMMA MetadataFacts ==
  ASSUME torrent \in Torrents, NEW m \in ParseTorrentData
  PROVE  /\ m = MetadataOf(torrent.root.map)
         /\ INFO \in DOMAIN torrent.root.map
         /\ Dict(torrent.root.map[INFO].map)
         /\ m.info \in ParseInfoDict(torrent.root.map[INFO].map)
  <1>1. torrent.root.type = "dict" /\ m \in ParseRootMetadata(torrent.root.map)
    BY DEF ParseTorrentData, RootDict
  <1>2. \A k \in DOMAIN torrent.root.map :
          torrent.root.map[k].type = "dict" => Dict(torrent.root.map[k].map)
    BY <1>1, InputAssumption
  <1>3. QED
    BY <1>1, <1>2, RootFacts

\* An answer with peers is a good one, and its list has whole peers only.
LEMMA AnnouncedFacts ==
  ASSUME response \in Responses, NEW n \in AnnouncedPeers
  PROVE  /\ response.status = 200
         /\ response.body.map["peers"].length = PeerLength * n
         /\ n \in Nat
  <1>1. /\ response.status = 200 /\ response.body.type = "dict"
        /\ n \in ParseTrackerResponse(response.body.map)
    BY DEF AnnouncedPeers
  <1>2. PICK v \in Extract(response.body.map, "interval", "int")
                    \X Extract(response.body.map, "peers", "string") :
          n \in SixByteArrays(v[2])
    BY <1>1 DEF ParseTrackerResponse
  <1>3. PICK blob \in Extract(response.body.map, "peers", "string") : n \in SixByteArrays(blob)
    BY <1>2
  <1>4. Dict(response.body.map)
    BY <1>1, InputAssumption
  <1>5. blob = response.body.map["peers"] /\ blob.length \in Nat
    BY <1>4 DEF Extract, Dict
  <1>6. n = blob.length \div PeerLength /\ n * PeerLength = blob.length
    BY <1>3 DEF SixByteArrays
  <1>7. n \in Nat
    BY <1>5, <1>6, DivideIsNat, StartupAssumption
  <1>8. QED
    BY <1>1, <1>5, <1>6, <1>7, StartupAssumption

-----------------------------------------------------------------------------
(* The info hash *)

\* The dict that is hashed has the four keys and no other.
LEMMA HashedDict ==
  ASSUME NEW info
  PROVE  /\ DOMAIN CalculateInfoHash(info) = InfoKeys
         /\ CalculateInfoHash(info) = [k \in InfoKeys |-> CalculateInfoHash(info)[k]]
         /\ CalculateInfoHash(info)[PIECE_LENGTH] = IntValue(info.pieceLength)
         /\ CalculateInfoHash(info)[LENGTH] = IntValue(info.fileLength)
         /\ CalculateInfoHash(info)[NAME] = info.fileName
         /\ CalculateInfoHash(info)[PIECES] = info.rawPieces
  <1>1. /\ LENGTH # PIECE_LENGTH
        /\ NAME # PIECE_LENGTH /\ NAME # LENGTH
        /\ PIECES # PIECE_LENGTH /\ PIECES # LENGTH /\ PIECES # NAME
    BY Zenon DEF LENGTH, PIECE_LENGTH, NAME, PIECES
  <1>2. QED
    BY <1>1 DEF CalculateInfoHash, InfoKeys

\* The hash is the torrent's own exactly when the info dict has nothing that
\* the client does not know of.
LEMMA HashIsOwn ==
  ASSUME NEW dict, Dict(dict), NEW info \in ParseInfoDict(dict)
  PROVE  CalculateInfoHash(info) = dict <=> DOMAIN dict = InfoKeys
  <1>1. ASSUME DOMAIN dict = InfoKeys
        PROVE  CalculateInfoHash(info) = dict
    <2>1. dict = [k \in InfoKeys |-> dict[k]]
      BY <1>1 DEF Dict
    <2>2. info.fileName = dict[NAME] /\ info.rawPieces = dict[PIECES]
      BY InfoFacts DEF InfoOf
    <2>3. \A k \in InfoKeys : CalculateInfoHash(info)[k] = dict[k]
      BY <2>2, InfoFacts, HashedDict DEF InfoKeys
    <2>4. QED
      BY <2>1, <2>3, HashedDict
  <1>2. QED
    BY <1>1, HashedDict

-----------------------------------------------------------------------------
(* The inductive invariant *)

\* What was loaded is this torrent's, and a client past the load has it.
LoadedInv ==
  /\ torrent \in Torrents /\ response \in Responses
  /\ phase \in {"load", "announce", "started", "fatal", "crashed"}
  /\ metadata \subseteq ParseTorrentData
  /\ phase \in {"announce", "started", "crashed"} => metadata # {}
  /\ peers \in Nat

\* Nothing of download() has happened before the tracker's answer, and from
\* there on its pieces are the torrent's and its sessions the answer's.
LaunchedInv ==
  /\ phase # "started" =>
       /\ main = "starting" /\ tracker = "none" /\ live = {} /\ delivering = {}
       /\ notifications = 0
       /\ numPieces = 0 /\ piecesFinished = 0 /\ progress = 0 /\ bar = 0
  /\ phase = "started" =>
       /\ main # "starting"
       /\ Url \subseteq ValidUrls
       /\ peers \in AnnouncedPeers
       /\ IsFiniteSet(live) /\ Cardinality(live) <= peers
       /\ \A m \in metadata :
            /\ numPieces = m.info.pieceHashes
            /\ piecesFinished <= Cardinality(Verifiable(m.info))

ClientInv == OrchInv /\ LoadedInv /\ LaunchedInv

LEMMA ClientInvInit == ClientInit => ClientInv
  BY DEF ClientInit, StartupInit, ClientInv, OrchInv, OrchTypeOK, StopsOnlyWhenComplete,
         ProgressIsHonest, SuccessMeansComplete, TrackerInv, IsComplete, LoadedInv, LaunchedInv

\* The pieces there are hashes for.
LEMMA Hashes ==
  ASSUME LoadedInv, NEW m \in metadata
  PROVE  m.info.pieceHashes \in Nat
  BY MetadataFacts, InfoFacts DEF LoadedInv

LEMMA Indices ==
  ASSUME NEW n \in Nat
  PROVE  IsFiniteSet(0 .. n - 1) /\ Cardinality(0 .. n - 1) = n
  BY FS_Interval

\* Which of the pieces can be verified is a question of number.
LEMMA VerifiableIsFinite ==
  ASSUME NEW info, info.pieceHashes \in Nat
  PROVE  /\ IsFiniteSet(0 .. info.pieceHashes - 1)
         /\ Cardinality(0 .. info.pieceHashes - 1) = info.pieceHashes
         /\ IsFiniteSet(Verifiable(info))
         /\ Cardinality(Verifiable(info)) \in 0 .. info.pieceHashes
         /\ Cardinality(Verifiable(info)) = info.pieceHashes =>
              Verifiable(info) = 0 .. info.pieceHashes - 1
  <1>1. /\ IsFiniteSet(0 .. info.pieceHashes - 1)
        /\ Cardinality(0 .. info.pieceHashes - 1) = info.pieceHashes
    BY Indices
  <1>2. Verifiable(info) \in SUBSET (0 .. info.pieceHashes - 1)
    BY DEF Verifiable
  <1>3. QED
    BY <1>1, <1>2, FS_Subset, FS_CardinalityType

LEMMA LoadStep == ClientInv /\ Load => ClientInv'
  <1> SUFFICES ASSUME ClientInv, Load PROVE ClientInv'
    OBVIOUS
  <1>1. OrchInv'
    BY DEF ClientInv, Load, OrchInv, OrchTypeOK, StopsOnlyWhenComplete, ProgressIsHonest,
           SuccessMeansComplete, TrackerInv, IsComplete, orchVars, poolVars, printVars
  <1>2. LoadedInv'
    <2>1. UNCHANGED <<torrent, response, peers, ParseTorrentData>>
      BY DEF Load, LoadTorrent, ParseTorrentData, RootDict
    <2>2. /\ metadata' = ParseTorrentData
          /\ phase' = IF ParseTorrentData = {} THEN "fatal" ELSE "announce"
      BY DEF Load, LoadTorrent
    <2>3. QED
      BY <2>1, <2>2 DEF ClientInv, LoadedInv
  <1>3. LaunchedInv'
    BY DEF ClientInv, LaunchedInv, Load, LoadTorrent, orchVars, poolVars, printVars
  <1>4. QED
    BY <1>1, <1>2, <1>3 DEF ClientInv

LEMMA GiveUpStep == ClientInv /\ GiveUp => ClientInv'
  <1> SUFFICES ASSUME ClientInv, GiveUp PROVE ClientInv'
    OBVIOUS
  <1>1. OrchInv'
    BY DEF ClientInv, GiveUp, OrchInv, OrchTypeOK, StopsOnlyWhenComplete, ProgressIsHonest,
           SuccessMeansComplete, TrackerInv, IsComplete, orchVars, poolVars, printVars
  <1>2. phase = "announce" /\ phase' \in {"fatal", "crashed"}
    BY DEF GiveUp, AnnounceToBadUrl, Announce
  <1>3. UNCHANGED <<torrent, response, metadata, peers>>
    BY <1>2 DEF GiveUp, AnnounceToBadUrl, Announce
  <1>4. LoadedInv'
    BY <1>2, <1>3 DEF ClientInv, LoadedInv, ParseTorrentData, RootDict
  <1>5. LaunchedInv'
    BY <1>2 DEF ClientInv, LaunchedInv, GiveUp, orchVars, poolVars, printVars
  <1>6. QED
    BY <1>1, <1>4, <1>5 DEF ClientInv

\* The start: as many sessions as the answer has peers.
LEMMA LaunchStep == ClientInv /\ Launch => ClientInv'
  <1> SUFFICES ASSUME ClientInv, Launch PROVE ClientInv'
    OBVIOUS
  <1>1. /\ phase = "announce" /\ phase' = "started" /\ main' = "check"
        /\ Url \subseteq ValidUrls /\ peers' \in AnnouncedPeers
        /\ UNCHANGED <<torrent, response, metadata>>
    BY DEF Launch, Announce
  <1>2. /\ live' \subseteq Peers /\ IsFiniteSet(live') /\ Cardinality(live') = peers'
    BY PeersAssumption, FS_Subset DEF Launch, Spawn
  <1>3. peers' \in Nat
    BY <1>1, AnnouncedFacts DEF ClientInv, LoadedInv
  <1>4. PICK m \in metadata : TRUE
    BY <1>1 DEF ClientInv, LoadedInv
  <1>5. numPieces' = m.info.pieceHashes /\ numPieces' \in Nat
    BY <1>4, Hashes DEF Launch, ClientInv
  <1>6. piecesFinished = 0 /\ delivering = {} /\ notifications = 0 /\ progress = 0 /\ bar = 0
    BY <1>1 DEF ClientInv, LaunchedInv
  <1>7. OrchInv'
    BY <1>1, <1>2, <1>5, <1>6
       DEF Launch, OrchInv, OrchTypeOK, StopsOnlyWhenComplete, ProgressIsHonest,
           SuccessMeansComplete, TrackerInv, IsComplete
  <1>8. LoadedInv'
    BY <1>1, <1>3 DEF ClientInv, LoadedInv, ParseTorrentData, RootDict
  <1>9. \A k \in metadata : k.info.pieceHashes \in Nat
    BY Hashes DEF ClientInv
  <1>10. \A k \in metadata' : /\ numPieces' = k.info.pieceHashes
                             /\ piecesFinished' <= Cardinality(Verifiable(k.info))
    BY <1>1, <1>6, <1>9, VerifiableIsFinite DEF Launch
  <1>11. Url' \subseteq ValidUrls /\ peers' \in AnnouncedPeers'
    BY <1>1 DEF Url, AnnouncedPeers
  <1>12. LaunchedInv'
    BY <1>1, <1>2, <1>3, <1>10, <1>11 DEF LaunchedInv
  <1>13. QED
    BY <1>7, <1>8, <1>12 DEF ClientInv

\* From there on the torrent and the answer stay what they are.
LEMMA StartupStays ==
  ASSUME ClientInv, UNCHANGED startupVars, main # "starting"
  PROVE  /\ phase = "started" /\ LoadedInv'
         /\ main' # "starting" /\ UNCHANGED numPieces /\ live' \subseteq live
            /\ (\A m \in metadata : piecesFinished' <= Cardinality(Verifiable(m.info)))
            => LaunchedInv'
  <1>1. phase = "started"
    BY DEF ClientInv, LaunchedInv
  <1>2. LoadedInv'
    BY DEF ClientInv, LoadedInv, startupVars, ParseTorrentData, RootDict
  <1>3. ASSUME main' # "starting", UNCHANGED numPieces, live' \subseteq live,
               \A m \in metadata : piecesFinished' <= Cardinality(Verifiable(m.info))
        PROVE  LaunchedInv'
    <2>1. /\ IsFiniteSet(live') /\ Cardinality(live') \in Nat /\ Cardinality(live) \in Nat
          /\ Cardinality(live') <= Cardinality(live)
      BY <1>1, <1>3, FS_Subset, FS_CardinalityType DEF ClientInv, LaunchedInv
    <2>2. UNCHANGED <<phase, metadata, peers, Url, AnnouncedPeers>>
      BY DEF startupVars, Url, AnnouncedPeers
    <2>3. Cardinality(live') <= peers'
      BY <1>1, <2>1, <2>2 DEF ClientInv, LaunchedInv, LoadedInv
    <2>4. QED
      BY <1>1, <1>3, <2>1, <2>2, <2>3 DEF ClientInv, LaunchedInv
  <1>4. QED
    BY <1>1, <1>2, <1>3

LEMMA FinishStep ==
  ASSUME ClientInv, NEW p \in Peers, FinishPiece(p)
  PROVE  ClientInv'
  <1>1. OrchInv'
    BY OrchInvStep DEF FinishPiece, OrchNext, ClientInv
  <1>2. main # "starting"
    BY DEF FinishPiece, CountPiece, ClientInv, LaunchedInv
  <1>3. /\ UNCHANGED <<main, numPieces, live>> /\ piecesFinished' = piecesFinished + 1
        /\ \A m \in metadata : piecesFinished < Cardinality(Verifiable(m.info))
    BY DEF FinishPiece, CountPiece
  <1>4. \A m \in metadata : Cardinality(Verifiable(m.info)) \in Nat
    BY Hashes, VerifiableIsFinite DEF ClientInv
  <1>5. \A m \in metadata : piecesFinished' <= Cardinality(Verifiable(m.info))
    BY <1>3, <1>4 DEF ClientInv, OrchInv, OrchTypeOK
  <1>6. LoadedInv' /\ LaunchedInv'
    BY <1>2, <1>3, <1>5, StartupStays DEF FinishPiece
  <1>7. QED
    BY <1>1, <1>6 DEF ClientInv

LEMMA LeaveStep ==
  ASSUME ClientInv, NEW p \in Peers, Leave(p)
  PROVE  ClientInv'
  <1>1. OrchInv'
    BY OrchInvStep DEF Leave, OrchNext, ClientInv
  <1>2. main # "starting"
    BY DEF Leave, EndSession, ClientInv, LaunchedInv
  <1>3. UNCHANGED <<main, numPieces, piecesFinished>> /\ live' \subseteq live
    BY DEF Leave, EndSession
  <1>4. phase = "started"
    BY <1>2 DEF ClientInv, LaunchedInv
  <1>5. LoadedInv' /\ LaunchedInv'
    BY <1>2, <1>3, <1>4, StartupStays DEF Leave, ClientInv, LaunchedInv
  <1>6. QED
    BY <1>1, <1>5 DEF ClientInv

LEMMA DivideStep ==
  ASSUME ClientInv, NEW p \in Peers, DivideByZero(p)
  PROVE  ClientInv'
  <1>1. /\ main' = "aborted" /\ live # {}
        /\ UNCHANGED <<numPieces, piecesFinished, delivering, live, notifications,
                     tracker, progress, bar>>
    BY DEF DivideByZero, poolVars, printVars
  <1>2. OrchInv'
    BY <1>1 DEF ClientInv, OrchInv, OrchTypeOK, StopsOnlyWhenComplete, ProgressIsHonest,
                SuccessMeansComplete, TrackerInv, IsComplete
  <1>3. main # "starting" /\ phase = "started"
    BY <1>1 DEF ClientInv, LaunchedInv
  <1>4. LoadedInv' /\ LaunchedInv'
    BY <1>1, <1>3, StartupStays DEF DivideByZero, ClientInv, LaunchedInv
  <1>5. QED
    BY <1>2, <1>4 DEF ClientInv

LEMMA WaitStep == ClientInv /\ Wait => ClientInv'
  <1> SUFFICES ASSUME ClientInv, Wait PROVE ClientInv'
    OBVIOUS
  <1>1. OrchInv'
    BY OrchInvStep DEF Wait, OrchNext, ClientInv
  <1>2. main # "starting"
    BY DEF Wait, MainStep, DeliveryStep, Check, Block, StopThrows, DestroyTracker, Unwind,
           WakeSpuriously, NotifyProgress, NotifyOne, Tick, ClientInv, LaunchedInv
  <1>3. UNCHANGED <<numPieces, piecesFinished, live>>
    BY DEF Wait, MainStep, DeliveryStep, Check, Block, StopThrows, DestroyTracker, Unwind,
           WakeSpuriously, NotifyProgress, NotifyOne, Tick, poolVars, printVars
  <1>4. main' # "starting"
    BY <1>2 DEF Wait, MainStep, DeliveryStep, Check, Block, StopThrows, DestroyTracker,
                Unwind, WakeSpuriously, NotifyProgress, NotifyOne, Tick, LogProgress
  <1>5. phase = "started"
    BY <1>2 DEF ClientInv, LaunchedInv
  <1>6. LoadedInv' /\ LaunchedInv'
    BY <1>2, <1>3, <1>4, <1>5, StartupStays DEF Wait, ClientInv, LaunchedInv
  <1>7. QED
    BY <1>1, <1>6 DEF ClientInv

LEMMA ClientInvStep == ClientInv /\ [ClientNext]_clientVars => ClientInv'
  <1> SUFFICES ASSUME ClientInv, [ClientNext]_clientVars PROVE ClientInv'
    OBVIOUS
  <1>1. CASE UNCHANGED clientVars
    BY <1>1
       DEF clientVars, startupVars, orchVars, poolVars, printVars, ClientInv, OrchInv,
           OrchTypeOK, StopsOnlyWhenComplete, ProgressIsHonest, SuccessMeansComplete,
           TrackerInv, IsComplete, LoadedInv, LaunchedInv, ParseTorrentData, RootDict, Url,
           AnnouncedPeers
  <1>2. CASE ClientNext
    BY <1>2, LoadStep, GiveUpStep, LaunchStep, WaitStep, FinishStep, LeaveStep, DivideStep
       DEF ClientNext
  <1>3. QED
    BY <1>1, <1>2

\* What was loaded, announced and launched stays as it was, and the main thread,
\* the pool and the display keep to what they are about.
THEOREM ClientInvariant == ClientSpec => []ClientInv
  BY ClientInvInit, ClientInvStep, PTL DEF ClientSpec

-----------------------------------------------------------------------------
(* What follows for every run of the program *)

\* What is loaded is one Info with its members in their ranges.
LEMMA LoadedTypes == LoadedInv => StartupTypeOK
  <1> SUFFICES ASSUME LoadedInv PROVE StartupTypeOK
    OBVIOUS
  <1>1. \A m \in metadata : /\ m = MetadataOf(torrent.root.map)
                            /\ m.info.pieceLength \in Nat \ {0}
                            /\ m.info.fileLength \in Nat
                            /\ m.info.rawPieces.length = m.info.pieceHashes * HashLength
    BY MetadataFacts, InfoFacts DEF LoadedInv
  <1>2. Cardinality(metadata) <= 1
    <2>1. metadata \subseteq {MetadataOf(torrent.root.map)}
      BY <1>1
    <2>2. /\ IsFiniteSet({MetadataOf(torrent.root.map)})
          /\ Cardinality({MetadataOf(torrent.root.map)}) = 1
      BY FS_Singleton
    <2>3. QED
      BY <2>1, <2>2, FS_Subset
  <1>3. QED
    BY <1>1, <1>2 DEF LoadedInv, StartupTypeOK

\* Type correctness of the whole run, with the assertion of parseInfoDict that
\* there are as many hashes as the string of them is long.
THEOREM ClientTypeCorrect == ClientSpec => []ClientTypeOK
  <1>1. ClientInv => ClientTypeOK
    BY LoadedTypes DEF ClientInv, LaunchedInv, OrchInv, ClientTypeOK
  <1>2. QED
    BY <1>1, ClientInvariant, PTL

\* download() spawns sessions only with an answer of status 200 from a tracker
\* whose URL could be parsed, and one for each peer of its list at most.
THEOREM SessionsComeFromTheTracker == ClientSpec => []SessionsAreTheTrackersPeers
  <1>1. ClientInv => SessionsAreTheTrackersPeers
    BY AnnouncedFacts DEF ClientInv, LaunchedInv, LoadedInv, SessionsAreTheTrackersPeers
  <1>2. QED
    BY <1>1, ClientInvariant, PTL

LEMMA LoadedHash == LoadedInv => HashIsOwnIfUsual
  <1> SUFFICES ASSUME LoadedInv, NEW m \in metadata
               PROVE  m.infoHash = torrent.root.map[INFO].map
                        <=> DOMAIN torrent.root.map[INFO].map = InfoKeys
    BY DEF HashIsOwnIfUsual
  <1> DEFINE dict == torrent.root.map[INFO].map
  <1>1. /\ Dict(dict) /\ m.info \in ParseInfoDict(dict)
        /\ m = MetadataOf(torrent.root.map)
    BY MetadataFacts DEF LoadedInv
  <1>2. m.infoHash = CalculateInfoHash(m.info)
    BY <1>1 DEF MetadataOf
  <1>3. QED
    BY <1>1, <1>2, HashIsOwn

\* calculateInfoHash takes the hash of the torrent's own info dict exactly when
\* that dict has no key besides the four it rebuilds.
THEOREM HashIsTheDictsOwn == ClientSpec => []HashIsOwnIfUsual
  <1>1. ClientInv => HashIsOwnIfUsual
    BY LoadedHash DEF ClientInv
  <1>2. QED
    BY <1>1, ClientInvariant, PTL

\* With the number of pieces the torrent came to, the main thread leaves its
\* wait only when all of them are finished.
THEOREM ClientStopsWhenComplete == ClientSpec => []StopsOnlyWhenComplete
  <1>1. ClientInv => StopsOnlyWhenComplete
    BY DEF ClientInv, OrchInv
  <1>2. QED
    BY <1>1, ClientInvariant, PTL

\* What the display says is true of the torrent that was loaded: it is not ahead
\* of the verified pieces, and success stands below a full bar.
THEOREM ClientShowsTheTruth == ClientSpec => []ProgressIsHonest /\ []SuccessMeansComplete
  <1>1. ClientInv => ProgressIsHonest /\ SuccessMeansComplete
    BY DEF ClientInv, OrchInv
  <1>2. QED
    BY <1>1, ClientInvariant, PTL

\* Each step of the program is a step of Completion or none of its business;
\* Completion's total is settled when download() is launched.
LEMMA ClientCompletionStep ==
  ClientInv /\ ClientInv' /\ [ClientNext]_clientVars => [Watched!Next]_(Watched!vars)
  <1> SUFFICES ASSUME ClientInv, ClientInv', [ClientNext]_clientVars
               PROVE  [Watched!Next]_(Watched!vars)
    OBVIOUS
  <1>1. CASE Load \/ GiveUp \/ UNCHANGED clientVars
    BY <1>1 DEF Load, GiveUp, clientVars, orchVars, poolVars, printVars, Watched!vars
  <1>2. CASE Launch
    <2>1. /\ phase = "announce" /\ UNCHANGED <<piecesFinished, notifications, progress>>
      BY <1>2 DEF Launch, Announce
    <2>2. numPieces = 0 /\ piecesFinished = 0 /\ progress = 0
      BY <2>1 DEF ClientInv, LaunchedInv
    <2>3. numPieces' \in Nat
      BY DEF ClientInv, OrchInv, OrchTypeOK
    <2>4. notifications = 0
      BY <2>1 DEF ClientInv, LaunchedInv
    <2>5. QED
      BY <2>1, <2>2, <2>3, <2>4
         DEF Watched!Next, Watched!Settle, Watched!Finish, Watched!Report, Watched!Announce
  <1>3. ASSUME NEW p \in Peers, DivideByZero(p)
        PROVE  UNCHANGED Watched!vars
    BY <1>3 DEF DivideByZero, poolVars, printVars, Watched!vars
  <1>4. CASE Wait \/ \E p \in Peers : FinishPiece(p) \/ Leave(p)
    <2>1. OrchNext
      BY <1>4 DEF Wait, FinishPiece, Leave, OrchNext
    <2>2. QED
      BY <2>1, CompletionStep DEF ClientInv
  <1>5. QED
    BY <1>1, <1>2, <1>3, <1>4 DEF ClientNext

\* From the first line of main() on, the whole run implements Completion: the
\* pieces are counted up to the torrent's number, the display follows, and the
\* end is announced at the end.
THEOREM ClientImplementsCompletion == ClientSpec => ThreadsComplete
  <1>1. ClientInit => Watched!Init
    BY DEF ClientInit, Watched!Init
  <1>2. QED
    BY <1>1, ClientCompletionStep, ClientInvariant, PTL
       DEF ClientSpec, ThreadsComplete, Watched!Spec

-----------------------------------------------------------------------------
(* The bytes of the pieces *)

\* The sum of some pieces' lengths adds them up one by one.
LEMMA LengthsAddUp ==
  ASSUME NEW info, NEW S, IsFiniteSet(S)
  PROVE  \E f : /\ AddsUp(f, SUBSET S, [p \in S |-> PieceLength(info, p)])
                /\ BytesOf(info, S) = f[S]
  <1> DEFINE g == [p \in S |-> PieceLength(info, p)]
             Adds(f) == f = [s \in SUBSET S |->
                               IF s = {} THEN 0
                               ELSE PieceLength(info, Pick(s)) + f[s \ {Pick(s)}]]
             iter == CHOOSE f : Adds(f)
  <1>1. \A s \in SUBSET S : s # {} => g[Pick(s)] = PieceLength(info, Pick(s))
    BY PickIn
  <1> HIDE DEF g
  <1>2. \A f : AddsUp(f, SUBSET S, g) <=> Adds(f)
    BY <1>1 DEF AddsUp
  <1>3. \E f : Adds(f)
    BY <1>2, AddsUpExists
  <1>4. Adds(iter)
    <2> HIDE DEF Adds
    <2> QED
      BY <1>3
  <1>5. BytesOf(info, S) = iter[S]
    BY Zenon DEF BytesOf, MapThenSumSet, MapThenFoldSet, Pick
  <1> HIDE DEF iter, Adds
  <1>6. QED
    BY <1>2, <1>4, <1>5 DEF g

\* How many pieces a file is cut into: all but the last are full.
LEMMA PieceCount ==
  ASSUME NEW length \in Nat, NEW size \in Nat \ {0}
  PROVE  LET n == (length + size - 1) \div size
         IN  /\ n \in Nat
             /\ n * size >= length
             /\ (n - 1) * size < length
  <1> DEFINE m == length + size - 1
             n == m \div size
             r == m % size
  <1>1. m \in Nat /\ m = length + size - 1
    OBVIOUS
  <1> HIDE DEF m
  <1>2. n \in Int /\ r \in 0 .. size - 1 /\ m = size * n + r
    BY <1>1
  <1>3. n \in Nat
    BY <1>1, DivideIsNat
  <1> HIDE DEF n, r
  <1>4. n * size = m - r /\ size * n = n * size /\ (n - 1) * size = n * size - size
    BY <1>1, <1>2, <1>3
  <1>5. QED
    BY <1>1, <1>2, <1>3, <1>4 DEF m, n

\* How many bytes of the file the first k pieces are.
FirstBytes(info, k) ==
  IF k * info.pieceLength <= info.fileLength THEN k * info.pieceLength ELSE info.fileLength

\* Pieces of their true length, one for each the file is cut into, are the
\* whole file.
LEMMA TrueLengthsAreTheFile ==
  ASSUME NEW info, NEW n \in Nat, n = info.pieceHashes, n = NumberOfPieces(info),
         info.pieceLength \in Nat \ {0}, info.fileLength \in Nat,
         \A p \in 0 .. n - 1 : PieceLength(info, p) = TrueLength(info, p)
  PROVE  BytesOf(info, 0 .. n - 1) = info.fileLength
  <1> DEFINE S == 0 .. n - 1
             g == [p \in S |-> PieceLength(info, p)]
             pl == info.pieceLength
             fl == info.fileLength
  <1>1. IsFiniteSet(S)
    BY Indices
  <1>2. n * pl >= fl /\ (n - 1) * pl < fl
    BY PieceCount DEF NumberOfPieces
  <1>3. PICK f : /\ AddsUp(f, SUBSET S, g)
                 /\ BytesOf(info, S) = f[S]
    <2> HIDE DEF S
    <2> QED
      BY <1>1, LengthsAddUp, Zenon
  <1>4. \A p \in S : g[p] = IF fl - p * pl < pl THEN fl - p * pl ELSE pl
    BY DEF TrueLength
  <1>5. g \in [S -> Int]
    <2>1. \A p \in S : PieceLength(info, p) \in Int
      <3> TAKE p \in S
      <3>1. p * pl \in Int
        OBVIOUS
      <3>2. QED
        BY <3>1 DEF TrueLength
    <2>2. QED
      BY <2>1
  <1>6. /\ f[{}] = 0
        /\ \A s \in SUBSET S : f[s] \in Int /\ \A y \in s : f[s] = g[y] + f[s \ {y}]
    <2> HIDE DEF S, g
    <2>1. AddsUp(f, SUBSET S, g)
      BY <1>3
    <2>2. f[{}] = 0
      BY <1>1, <2>1, <1>5, AnyOrder
    <2>3. ASSUME NEW s \in SUBSET S
          PROVE  f[s] \in Int /\ \A y \in s : f[s] = g[y] + f[s \ {y}]
      BY <1>1, <2>1, <1>5, AnyOrder
    <2>4. QED
      BY <2>2, <2>3
  <1> HIDE DEF g
  <1>7. ASSUME NEW k \in Nat, k < n, f[0 .. k - 1] = FirstBytes(info, k)
        PROVE  f[0 .. k] = FirstBytes(info, k + 1)
    <2>1. /\ k \in S /\ k \in 0 .. k /\ 0 .. k \in SUBSET S
          /\ (0 .. k) \ {k} = 0 .. k - 1
      BY <1>7
    <2>2. f[0 .. k] = g[k] + f[0 .. k - 1]
      <3>1. f[0 .. k] = g[k] + f[(0 .. k) \ {k}]
        <4> HIDE DEF S
        <4> QED
          BY <1>6, <2>1
      <3>2. QED
        BY <2>1, <3>1
    <2>3. k * pl <= (n - 1) * pl /\ k * pl \in Nat /\ (n - 1) * pl \in Int
      BY <1>7
    <2>4. k * pl < fl
      BY <1>2, <2>3
    <2>5. f[0 .. k - 1] = k * pl
      BY <1>7, <2>4, <2>3 DEF FirstBytes
    <2>6. (k + 1) * pl = k * pl + pl
      BY <2>3
    <2>7. g[k] = IF fl - k * pl < pl THEN fl - k * pl ELSE pl
      BY <1>4, <2>1
    <2>8. g[k] + k * pl = IF k * pl + pl <= fl THEN k * pl + pl ELSE fl
      BY <2>3, <2>7
    <2>9. QED
      BY <2>2, <2>5, <2>6, <2>7, <2>8, <2>3 DEF FirstBytes
  <1> DEFINE Wrong == {k \in 0 .. n : f[0 .. k - 1] # FirstBytes(info, k)}
  <1>8. Wrong = {}
    <2> SUFFICES ASSUME Wrong # {} PROVE FALSE
      OBVIOUS
    <2>1. PICK k \in Wrong : \A j \in Wrong : k <= j
      <3> Wrong \in SUBSET Nat
        OBVIOUS
      <3> HIDE DEF Wrong
      <3> QED
        BY LeastNatural
    <2>2. k \in 0 .. n /\ f[0 .. k - 1] # FirstBytes(info, k)
      BY <2>1
    <2>3. k # 0
      <3>1. 0 .. 0 - 1 = {} /\ 0 * pl = 0
        OBVIOUS
      <3>2. FirstBytes(info, 0) = 0
        BY <3>1 DEF FirstBytes
      <3>3. QED
        BY <1>6, <2>2, <3>1, <3>2
    <2>4. k - 1 \in Nat /\ k - 1 < n /\ k - 1 \notin Wrong /\ k - 1 + 1 = k
      BY <2>1, <2>2, <2>3
    <2>5. f[0 .. k - 1 - 1] = FirstBytes(info, k - 1)
      BY <2>4
    <2>6. QED
      BY <1>7, <2>2, <2>4, <2>5
  <1>9. f[S] = FirstBytes(info, n)
    BY <1>8
  <1>10. n * pl \in Nat
    OBVIOUS
  <1>11. FirstBytes(info, n) = fl
    BY <1>2, <1>10 DEF FirstBytes
  <1>12. QED
    BY <1>3, <1>9, <1>11

\* Quotient and remainder are unique.
LEMMA DivisionIsUnique ==
  ASSUME NEW d \in Nat \ {0}, NEW a \in Int, NEW b \in Int,
         NEW r \in 0 .. d - 1, NEW t \in 0 .. d - 1, d * a + r = d * b + t
  PROVE  a = b /\ r = t
  <1>1. ASSUME a < b PROVE FALSE
    <2>1. d * (a + 1) <= d * b /\ d * (a + 1) = d * a + d
      BY <1>1
    <2>2. QED
      BY <2>1
  <1>2. ASSUME b < a PROVE FALSE
    <2>1. d * (b + 1) <= d * a /\ d * (b + 1) = d * b + d
      BY <1>2
    <2>2. QED
      BY <2>1
  <1>3. a = b
    BY <1>1, <1>2
  <1>4. QED
    BY <1>3

LEMMA DivideFacts ==
  ASSUME NEW n \in Nat, NEW d \in Nat \ {0}
  PROVE  n \div d \in Nat /\ n % d \in 0 .. d - 1 /\ n = d * (n \div d) + (n % d)
  <1> DEFINE q == n \div d
             r == n % d
  <1>1. q \in Int /\ r \in 0 .. d - 1 /\ n = d * q + r
    OBVIOUS
  <1>2. q \in Nat
    BY DivideIsNat
  <1> HIDE DEF q, r
  <1>3. q \in Nat /\ r \in 0 .. d - 1 /\ n = d * q + r
    BY <1>1, <1>2
  <1>4. QED
    BY <1>3 DEF q, r

LEMMA NothingRemains ==
  ASSUME NEW d \in Nat \ {0}, NEW a \in Int, NEW b \in Int,
         NEW r \in 0 .. d - 1, d * a + r = d * b
  PROVE  a = b /\ r = 0
  <1> DEFINE t == 0
  <1>1. t \in 0 .. d - 1 /\ d * b \in Int /\ d * a + r = d * b + t
    OBVIOUS
  <1> HIDE DEF t
  <1>2. a = b /\ r = t
    BY <1>1, DivisionIsUnique
  <1>3. QED
    BY <1>2 DEF t

\* A remainder may be taken of a multiple's remainder.
LEMMA RemainderOfRemainder ==
  ASSUME NEW n \in Nat, NEW d \in Nat \ {0}, NEW w \in Nat \ {0}, w % d = 0
  PROVE  (n % w) % d = n % d
  <1> DEFINE c == w \div d
             u == n \div w
             v == n % w
             k == v \div d
             t == v % d
             q == n \div d
             r == n % d
  <1>1. c \in Nat /\ w = d * c
    BY DivideFacts
  <1>2. u \in Nat /\ v \in Nat /\ n = w * u + v
    BY DivideFacts
  <1>3. k \in Nat /\ t \in 0 .. d - 1 /\ v = d * k + t
    BY <1>2, DivideFacts
  <1>4. q \in Nat /\ r \in 0 .. d - 1 /\ n = d * q + r
    BY DivideFacts
  <1> HIDE DEF c, u, v, k, t, q, r
  <1>5. c * u \in Nat /\ w * u = d * (c * u)
    BY <1>1, <1>2
  <1>6. c * u + k \in Int /\ d * (c * u + k) = d * (c * u) + d * k
    BY <1>3, <1>5
  <1>7. d * (c * u + k) + t = d * q + r
    BY <1>2, <1>3, <1>4, <1>5, <1>6
  <1>8. t = r
    <2> DEFINE a == c * u + k
    <2>1. a \in Int /\ q \in Int /\ d * a + t = d * q + r
      BY <1>4, <1>6, <1>7
    <2> HIDE DEF a
    <2>2. QED
      BY <1>3, <1>4, <2>1, DivisionIsUnique
  <1>9. QED
    BY <1>8 DEF t, v, r

\* With as many hashes as pieces, and lengths that 32 bits do not spoil, the
\* client asks for each piece's true length.
LEMMA LengthsAreTrue ==
  ASSUME NEW info, NEW n \in Nat, n = info.pieceHashes, n = NumberOfPieces(info),
         info.pieceLength \in Nat \ {0}, info.fileLength \in Nat,
         info.pieceLength < Word, info.fileLength < Word \/ Word % info.pieceLength = 0,
         NEW p \in 0 .. n - 1
  PROVE  PieceLength(info, p) = TrueLength(info, p)
  <1> DEFINE pl == info.pieceLength
             fl == info.fileLength
             q == fl \div pl
             r == fl % pl
  <1>1. pl % Word = pl
    BY StartupAssumption
  <1>2. (fl % Word) % pl = r
    <2>1. CASE fl < Word
      BY <2>1, StartupAssumption
    <2>2. CASE Word % pl = 0
      BY <2>2, StartupAssumption, RemainderOfRemainder
    <2>3. QED
      BY <2>1, <2>2
  <1>3. PieceLength(info, p) = IF p = n - 1 /\ r # 0 THEN r ELSE pl
    BY <1>1, <1>2 DEF PieceLength
  <1>4. q \in Nat /\ r \in 0 .. pl - 1 /\ fl = pl * q + r
    BY DivideFacts
  <1> HIDE DEF q, r
  <1>5. n * pl >= fl /\ (n - 1) * pl < fl
    BY PieceCount DEF NumberOfPieces
  <1>6. TrueLength(info, p) = IF fl - p * pl < pl THEN fl - p * pl ELSE pl
    BY DEF TrueLength
  <1> HIDE DEF pl, fl
  <1>7. pl \in Nat \ {0} /\ fl \in Nat /\ n * pl \in Nat /\ p * pl \in Nat
        /\ (n - 1) * pl = n * pl - pl
    BY DEF pl, fl
  <1>8. CASE p # n - 1
    <2>1. (p + 1) * pl <= (n - 1) * pl /\ (p + 1) * pl = p * pl + pl
      <3>1. p \in Nat /\ p + 1 <= n - 1
        BY <1>8
      <3>2. \A x \in Nat, y \in Nat, d \in Nat : x <= y => x * d <= y * d
        OBVIOUS
      <3>3. (p + 1) * pl <= (n - 1) * pl
        BY <1>7, <3>1, <3>2
      <3>4. (p + 1) * pl = p * pl + pl
        BY <1>7, <3>1
      <3>5. QED
        BY <3>3, <3>4
    <2>2. ~(fl - p * pl < pl)
      BY <2>1, <1>5, <1>7
    <2>3. QED
      BY <1>3, <1>6, <1>8, <2>2
  <1>9. CASE p = n - 1
    <2>1. p * pl = n * pl - pl
      BY <1>7, <1>9
    <2> DEFINE e == n * pl - fl
    <2>2. e \in 0 .. pl - 1 /\ fl = pl * n - e /\ pl * n = n * pl
      BY <1>5, <1>7
    <2>3. fl - p * pl = pl - e
      BY <1>7, <2>1, <2>2
    <2> HIDE DEF e
    <2>4. CASE r = 0
      <3>1. pl * q + e = pl * n
        BY <1>4, <1>7, <2>2, <2>4
      <3>2. e = 0
        <4>1. q \in Int /\ n \in Int /\ e \in 0 .. pl - 1 /\ pl \in Nat \ {0}
          BY <1>4, <1>7, <2>2
        <4>2. QED
          BY <3>1, <4>1, NothingRemains, Zenon
      <3>3. QED
        BY <1>3, <1>6, <1>7, <2>3, <2>4, <3>2
    <2>5. CASE r # 0
      <3>1. e # 0
        <4>1. ASSUME e = 0 PROVE pl * q + r = pl * n
          BY <1>4, <1>7, <2>2, <4>1
        <4>2. q \in Int /\ n \in Int
          BY <1>4, <1>7
        <4>3. QED
          BY <1>4, <1>7, <2>5, <4>1, <4>2, NothingRemains
      <3>2. pl - e \in 0 .. pl - 1 /\ n - 1 \in Int
        BY <1>7, <2>2, <3>1
      <3>3. pl * (n - 1) + (pl - e) = pl * q + r
        <4>1. pl * (n - 1) = pl * n - pl
          BY <1>7
        <4>2. pl * n = pl * q + r + e /\ pl * q \in Int
          BY <1>4, <1>7, <2>2
        <4>3. QED
          BY <1>4, <1>7, <2>2, <4>1, <4>2
      <3>4. pl - e = r
        <4> DEFINE a == n - 1
                   t == pl - e
        <4>1. a \in Int /\ t \in 0 .. pl - 1 /\ q \in Int /\ pl * a + t = pl * q + r
          BY <1>4, <3>2, <3>3
        <4> HIDE DEF a, t
        <4>2. t = r
          BY <1>4, <1>7, <4>1, DivisionIsUnique, ZenonT(40)
        <4>3. QED
          BY <4>2 DEF t
      <3>5. QED
        BY <1>3, <1>4, <1>6, <1>7, <1>9, <2>3, <2>5, <3>4
    <2>6. QED
      BY <2>4, <2>5
  <1>10. QED
    BY <1>8, <1>9

LEMMA LoadedInfo ==
  ASSUME LoadedInv, NEW m \in metadata
  PROVE  /\ m.info.pieceLength \in Nat \ {0}
         /\ m.info.fileLength \in Nat
         /\ m.info.pieceHashes \in Nat
  BY MetadataFacts, InfoFacts DEF LoadedInv

\* _getPieceLength cuts the file without a gap or an overlap, the last piece
\* and the 32-bit arithmetic included.
THEOREM PiecesAreTheFile == ClientSpec => []PiecesMakeUpTheFile
  <1>1. ClientInv => PiecesMakeUpTheFile
    <2> SUFFICES ASSUME LoadedInv, NEW m \in metadata,
                        m.info.pieceHashes = NumberOfPieces(m.info),
                        m.info.pieceLength < Word,
                        m.info.fileLength < Word \/ Word % m.info.pieceLength = 0
                 PROVE  BytesOf(m.info, 0 .. m.info.pieceHashes - 1) = m.info.fileLength
      BY DEF ClientInv, PiecesMakeUpTheFile
    <2>1. /\ m.info.pieceLength \in Nat \ {0} /\ m.info.fileLength \in Nat
          /\ m.info.pieceHashes \in Nat
      BY LoadedInfo
    <2>2. \A p \in 0 .. m.info.pieceHashes - 1 :
            PieceLength(m.info, p) = TrueLength(m.info, p)
      BY <2>1, LengthsAreTrue
    <2>3. QED
      BY <2>1, <2>2, TrueLengthsAreTheFile
  <1>2. QED
    BY <1>1, ClientInvariant, PTL

\* Whatever 32 bits made of the lengths: pieces only count once verified, and
\* the main thread only stops when all of them count, so what it has
\* verified by then is the whole file.
THEOREM StopsWithEveryByte == ClientSpec => []StopsWithEveryByteVerified
  <1>1. ClientInv => StopsWithEveryByteVerified
    <2> SUFFICES ASSUME ClientInv, main \in {"stop", "unwinding"}, NEW m \in metadata,
                        m.info.pieceHashes = NumberOfPieces(m.info)
                 PROVE  /\ piecesFinished = m.info.pieceHashes
                        /\ BytesOf(m.info, Verifiable(m.info)) = m.info.fileLength
      BY DEF StopsWithEveryByteVerified
    <2>1. /\ m.info.pieceLength \in Nat \ {0} /\ m.info.fileLength \in Nat
          /\ m.info.pieceHashes \in Nat
      BY LoadedInfo DEF ClientInv
    <2>2. /\ piecesFinished = m.info.pieceHashes
          /\ piecesFinished <= Cardinality(Verifiable(m.info))
      BY DEF ClientInv, OrchInv, StopsOnlyWhenComplete, LaunchedInv
    <2>3. Verifiable(m.info) = 0 .. m.info.pieceHashes - 1
      BY <2>1, <2>2, VerifiableIsFinite
    <2>4. \A p \in 0 .. m.info.pieceHashes - 1 :
            PieceLength(m.info, p) = TrueLength(m.info, p)
      BY <2>3 DEF Verifiable
    <2>5. QED
      BY <2>1, <2>2, <2>3, <2>4, TrueLengthsAreTheFile
  <1>2. QED
    BY <1>1, ClientInvariant, PTL
=============================================================================
