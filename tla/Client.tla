------------------------------- MODULE Client -------------------------------
(***************************************************************************)
(* The whole run of the program: Startup up to the point where download()  *)
(* has spawned its sessions, Orchestrator from there on, with the number   *)
(* of pieces and of peers the first part came to.  Which pieces can ever   *)
(* be verified is settled by the torrent too: the client hashes as many    *)
(* bytes as _getPieceLength says, the torrent's hashes are over the pieces *)
(* the file is really cut into.                                            *)
(***************************************************************************)
EXTENDS Startup, Orchestrator

\* A tracker's list is finite.
ASSUME PeersAssumption == IsFiniteSet(Peers)

clientVars == <<startupVars, orchVars>>

ClientInit ==
  /\ StartupInit
  /\ main = "starting"
  /\ numPieces = 0
  /\ piecesFinished = 0
  /\ delivering = {}
  /\ live = {}
  /\ notifications = 0
  /\ tracker = "none"
  /\ progress = 0
  /\ bar = 0

Load == LoadTorrent /\ UNCHANGED orchVars

GiveUp == (AnnounceToBadUrl \/ (Announce /\ phase' = "fatal")) /\ UNCHANGED orchVars

\* start() spawns a session for each peer of the list.
Spawn(n) == {S \in SUBSET Peers : Cardinality(S) = n}

\* The rest of download() before the wait; there is a tracker unless the user
\* asked for logs.
Launch ==
  /\ Announce
  /\ phase' = "started"
  /\ main' = "check"
  /\ \A m \in metadata : numPieces' = m.info.pieceHashes
  /\ live' \in Spawn(peers')
  /\ tracker' \in {"none", "running"}
  /\ UNCHANGED <<piecesFinished, delivering, notifications, progress, bar>>

-----------------------------------------------------------------------------
\* How long piece p of the file really is.
TrueLength(info, p) ==
  LET rest == info.fileLength - p * info.pieceLength
  IN  IF rest < info.pieceLength THEN rest ELSE info.pieceLength

Divides(info) == info.pieceLength % Word # 0

\* The pieces that hash right once all the client asks for is there.
Verifiable(info) ==
  {p \in 0 .. info.pieceHashes - 1 :
     Divides(info) /\ PieceLength(info, p) = TrueLength(info, p)}

\* A faulty variant: a piece counts whether its hash matches or not.
FinishAnyPiece(p) == CountPiece(p) /\ UNCHANGED startupVars

FinishPiece(p) ==
  /\ \A m \in metadata : piecesFinished < Cardinality(Verifiable(m.info))
  /\ CountPiece(p)
  /\ UNCHANGED startupVars

\* requestBlock comes to the last piece and takes the remainder by a length
\* that is zero in 32 bits: the process dies.
DivideByZero(p) ==
  /\ Running
  /\ p \in live
  /\ numPieces > 0
  /\ \A m \in metadata : ~Divides(m.info)
  /\ main' = "aborted"
  /\ UNCHANGED <<startupVars, numPieces, poolVars, printVars>>

Wait ==
  /\ MainStep \/ WakeSpuriously \/ DeliveryStep \/ Tick
  /\ UNCHANGED startupVars

Leave(p) == EndSession(p) /\ UNCHANGED startupVars

ClientNext ==
  \/ Load \/ GiveUp \/ Launch \/ Wait
  \/ \E p \in Peers : FinishPiece(p) \/ DivideByZero(p) \/ Leave(p)

\* The fairness of Orchestrator.
ClientSpec ==
  /\ ClientInit /\ [][ClientNext]_clientVars
  /\ WF_clientVars(MainStep /\ UNCHANGED startupVars)
  /\ WF_clientVars(DeliveryStep /\ UNCHANGED startupVars)

-----------------------------------------------------------------------------
(* Properties *)

\* Type invariant: of both parts, and the second begins where the first ends.
ClientTypeOK ==
  /\ StartupTypeOK
  /\ OrchTypeOK
  /\ main = "starting" <=> phase # "started"

\* What a client that stops has verified is the whole file: if the torrent has
\* one hash per piece, it counted each piece as finished, and the lengths it
\* hashed add up to the file's, however 32-bit arithmetic cut them.  It speaks of
\* the bytes that were hashed; what is in the file is PieceManager's matter.
StopsWithEveryByteVerified ==
  main \in {"stop", "unwinding"} =>
    \A m \in metadata :
      m.info.pieceHashes = NumberOfPieces(m.info) =>
        /\ piecesFinished = m.info.pieceHashes
        /\ BytesOf(m.info, Verifiable(m.info)) = m.info.fileLength

\* Sessions are only ever spawned for the peers of a good answer of a tracker
\* that could be asked, one for each six bytes of the list.
SessionsAreTheTrackersPeers ==
  main # "starting" =>
    /\ Url \subseteq ValidUrls
    /\ response.status = 200
    /\ response.body.map["peers"].length = PeerLength * peers
    /\ Cardinality(live) <= peers
=============================================================================
