------------------------------ MODULE Startup ------------------------------
(***************************************************************************)
(* From main() to the first peer session: the torrent file is loaded and   *)
(* parsed (src/src/core/torrent_metadata_loader.cpp), the tracker asked    *)
(* for peers (src/src/core/tracker_communicator.cpp), and the piece and    *)
(* peer managers made.  Every exception on the way ends in main()'s        *)
(* handler.  What happens from there on is Orchestrator's, and Client puts *)
(* the two together.                                                       *)
(*                                                                         *)
(* The input is what bencode::parse returns.  A dict is a function from    *)
(* its keys, strings keep their length and stand for themselves otherwise, *)
(* and SHA-1 over encode() is taken as injective: the hash of a dict is    *)
(* that dict.                                                              *)
(***************************************************************************)
EXTENDS Integers, FiniteSets, FiniteSetsExt

CONSTANTS
  Torrents,     \* torrent files: [readable, root], root as parsed or NoValue
  Responses,    \* tracker answers: [status, body], body as parsed or NoValue
  ValidUrls,    \* the strings ada::parse takes for a URL
  HashLength,   \* HASH_LENGTH
  PeerLength,   \* bytes of a peer in the tracker's compact list
  Word          \* 2^32, the values of uint32_t

ASSUME StartupAssumption ==
  /\ HashLength \in Nat \ {0}
  /\ PeerLength \in Nat \ {0}
  /\ Word \in Nat \ {0}

\* Values of the variant; NoValue is a text bencode::parse throws for.
IntValue(n) == [type |-> "int", int |-> n]
StringValue(s, length) == [type |-> "string", text |-> s, length |-> length]
DictValue(map) == [type |-> "dict", map |-> map]
NoValue == [type |-> "none"]

\* DictKeys.
COMMENT == "comment"
ANNOUNCE == "announce"
INFO == "info"
PIECE_LENGTH == "piece length"
LENGTH == "length"
NAME == "name"
PIECES == "pieces"
CREATION_DATE == "creation date"

\* The values of a Dict: a function in which an int is nothing but its number
\* and a string has a length.
Dict(map) ==
  /\ map = [k \in DOMAIN map |-> map[k]]
  /\ \A k \in DOMAIN map :
       /\ map[k].type = "int" => map[k].int \in Int /\ map[k] = IntValue(map[k].int)
       /\ map[k].type = "string" => map[k].length \in Nat

ASSUME InputAssumption ==
  /\ \A t \in Torrents : t.root.type = "dict" =>
       /\ Dict(t.root.map)
       /\ \A k \in DOMAIN t.root.map :
            t.root.map[k].type = "dict" => Dict(t.root.map[k].map)
  /\ \A r \in Responses : r.body.type = "dict" => Dict(r.body.map)

VARIABLES
  phase,      \* where main() stands
  torrent,    \* the file at the given path
  response,   \* what the tracker answers
  metadata,   \* TorrentOrchestrator::_metadata, in a set, empty before
  peers       \* number of peer sessions spawned

startupVars == <<phase, torrent, response, metadata, peers>>

StartupInit ==
  /\ phase = "load"
  /\ torrent \in Torrents
  /\ response \in Responses
  /\ metadata = {}
  /\ peers = 0

\* extractValueFromDict: the value of a key if it is there with that type,
\* as a set of at most one value.
Extract(dict, key, type) ==
  {dict[k] : k \in {k \in DOMAIN dict : k = key /\ dict[k].type = type}}

-----------------------------------------------------------------------------
(* The torrent file *)

\* A faulty variant: bytes after the last whole hash are dropped.
WholeHashes(pieces) == {pieces.length \div HashLength}

\* parsePieceHashes: how many hashes there are.
PieceHashes(pieces) ==
  {n \in {pieces.length \div HashLength} : n * HashLength = pieces.length}

\* parseInfoDict: the members of TorrentMetadata::Info, if nothing throws.
ParseInfoDict(info) ==
  {[pieceLength |-> v[1].int, rawPieces |-> v[2][1], pieceHashes |-> v[2][2],
    fileLength |-> v[3].int, fileName |-> v[4]] :
     v \in {l \in Extract(info, PIECE_LENGTH, "int") : l.int > 0}
       \X (UNION {{s} \X PieceHashes(s) : s \in Extract(info, PIECES, "string")})
       \X {l \in Extract(info, LENGTH, "int") : l.int >= 0}
       \X Extract(info, NAME, "string")}

\* A faulty variant: the name is left out of the hash.
HashWithoutName(info) ==
  [k \in {PIECE_LENGTH, LENGTH, PIECES} |->
     CASE k = PIECE_LENGTH -> IntValue(info.pieceLength)
       [] k = LENGTH -> IntValue(info.fileLength)
       [] k = PIECES -> info.rawPieces]

\* calculateInfoHash rebuilds a dict from the four members it knows.
CalculateInfoHash(info) ==
  [k \in {PIECE_LENGTH, LENGTH, NAME, PIECES} |->
     CASE k = PIECE_LENGTH -> IntValue(info.pieceLength)
       [] k = LENGTH -> IntValue(info.fileLength)
       [] k = NAME -> info.fileName
       [] k = PIECES -> info.rawPieces]

\* parseRootMetadata; comment and creation date must be there but are only
\* logged.
ParseRootMetadata(root) ==
  {[announce |-> v[1].text, info |-> v[4], infoHash |-> CalculateInfoHash(v[4])] :
     v \in Extract(root, ANNOUNCE, "string")
       \X Extract(root, COMMENT, "string")
       \X Extract(root, CREATION_DATE, "int")
       \X (UNION {ParseInfoDict(d.map) : d \in Extract(root, INFO, "dict")})}

\* loadTorrentFile and parseRootDict: the root dict, if nothing throws.
RootDict == {r \in {torrent.root} : torrent.readable /\ r.type = "dict"}

ParseTorrentData == UNION {ParseRootMetadata(r.map) : r \in RootDict}

LoadTorrent ==
  /\ phase = "load"
  /\ metadata' = ParseTorrentData
  /\ phase' = IF ParseTorrentData = {} THEN "fatal" ELSE "announce"
  /\ UNCHANGED <<torrent, response, peers>>

-----------------------------------------------------------------------------
(* The tracker *)

\* A faulty variant: bytes after the last whole peer are dropped.
WholePeers(blob) == {blob.length \div PeerLength}

\* toSixByteArrays.
SixByteArrays(blob) ==
  {n \in {blob.length \div PeerLength} : n * PeerLength = blob.length}

\* parseTrackerResponse: how many peers there are.  The interval must be
\* there but is never used.
ParseTrackerResponse(body) ==
  UNION {SixByteArrays(v[2]) :
           v \in Extract(body, "interval", "int") \X Extract(body, "peers", "string")}

\* announceToTracker throws for any status but 200, and an answer that is no
\* dict is refused.
AnnouncedPeers ==
  IF response.status = 200 /\ response.body.type = "dict"
  THEN ParseTrackerResponse(response.body.map) ELSE {}

Url == {m.announce : m \in metadata}

\* With a usable URL; the managers are made and the sessions spawned.
Announce ==
  /\ phase = "announce"
  /\ Url \subseteq ValidUrls
  /\ IF AnnouncedPeers = {} THEN phase' = "fatal" /\ UNCHANGED peers
     ELSE phase' = "started" /\ peers' \in AnnouncedPeers
  /\ UNCHANGED <<torrent, response, metadata>>

\* buildTrackerUrl calls set_search through the result of ada::parse before
\* it looks whether there is one: the process dies or gets to the throw.
AnnounceToBadUrl ==
  /\ phase = "announce"
  /\ ~(Url \subseteq ValidUrls)
  /\ phase' \in {"fatal", "crashed"}
  /\ UNCHANGED <<torrent, response, metadata, peers>>

-----------------------------------------------------------------------------
(* The pieces the PieceManager makes of the metadata *)

\* A faulty variant: the last piece is as long as the others.
FullLastPiece(info, p) == info.pieceLength % Word

\* _getPieceLength: uint32_t throughout.
PieceLength(info, p) ==
  LET pieceLength == info.pieceLength % Word
      remainder == (info.fileLength % Word) % pieceLength
  IN  IF p = info.pieceHashes - 1 /\ remainder # 0 THEN remainder ELSE pieceLength

-----------------------------------------------------------------------------
(* Properties *)

\* Type invariant, with the assertion of parseInfoDict on the hash count.
StartupTypeOK ==
  /\ phase \in {"load", "announce", "started", "fatal", "crashed"}
  /\ Cardinality(metadata) <= 1
  /\ \A m \in metadata :
       /\ m.info.pieceLength > 0 /\ m.info.fileLength >= 0
       /\ m.info.rawPieces.length = m.info.pieceHashes * HashLength
  /\ peers \in Nat
  /\ phase \notin {"load", "fatal"} => metadata # {}

InfoKeys == {PIECE_LENGTH, LENGTH, NAME, PIECES}

\* The hash the tracker and the peers are given is that of the torrent's own
\* info dict exactly when the dict has nothing the loader does not know of.
HashIsOwnIfUsual ==
  \A m \in metadata :
    m.infoHash = torrent.root.map[INFO].map <=> DOMAIN torrent.root.map[INFO].map = InfoKeys

BytesOf(info, pieces) == MapThenSumSet(LAMBDA p : PieceLength(info, p), pieces)

NumberOfPieces(info) ==
  (info.fileLength + info.pieceLength - 1) \div info.pieceLength

\* The pieces the PieceManager downloads make up the file, if there is one
\* hash per piece, the piece length fits 32 bits, and the file either fits
\* them too or is cut into a power of two.
PiecesMakeUpTheFile ==
  \A m \in metadata :
    LET info == m.info
    IN  /\ info.pieceHashes = NumberOfPieces(info)
        /\ info.pieceLength < Word
        /\ info.fileLength < Word \/ Word % info.pieceLength = 0
        => BytesOf(info, 0 .. info.pieceHashes - 1) = info.fileLength
=============================================================================
