--------------------------- MODULE MCPeerSession ---------------------------
(* Finite instances of PeerSession.                                         *)
EXTENDS PeerSession, TLC

CONSTANTS s1, s2, s3

TwoSessions == {s1, s2}
ThreeSessions == {s1, s2, s3}
OneSession == {s1}

\* The two sessions are alike when their peers have the same pieces.
SessionSymmetry == Permutations(TwoSessions)

\* One piece of two blocks; a three-block or a two-block piece and a one-block
\* piece.
OneOfTwo == [p \in 0 .. 0 |-> 2]
ThreeAndOne == [p \in 0 .. 1 |-> IF p = 0 THEN 3 ELSE 1]
TwoAndOne == [p \in 0 .. 1 |-> IF p = 0 THEN 2 ELSE 1]

\* All peers are seeds; or the second has only the last piece.
Seeds == [s \in Sessions |-> Pieces]
SeedAndPartial == [s \in TwoSessions |-> IF s = s1 THEN Pieces
                                         ELSE {NumPieces - 1}]
=============================================================================
