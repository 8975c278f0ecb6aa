--------------------------- MODULE MCPieceManager ---------------------------
(* Finite instances of PieceManager: two shapes of a small torrent.       *)
EXTENDS PieceManager

\* Two pieces of two blocks.
TwoByTwo == [p \in 0 .. 1 |-> 2]

\* A three-block piece and a last piece of one block.
ThreeAndOne == [p \in 0 .. 1 |-> IF p = 0 THEN 3 ELSE 1]
=============================================================================
