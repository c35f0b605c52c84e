--------------------------- MODULE MCP2PNetworkGui ---------------------------
(* Instance of P2PNetworkGui for TLC: a row of cells, a block to add. *)
EXTENDS P2PNetworkGui, Lattice

CONSTANTS b1, b2, b3

MCDir == Direction("SCLattice")

(* The enum Direction of the lattice. *)
MCDirOrder == [i \in 1..Cardinality(MCDir) |-> i - 1]

Row == GridCell(<<3, 1, 1>>)

RowOrder == SetToSeq(Row)

RowOpposite == OppositeDirections("SCLattice")

RowNeighbor == NeighborCells("SCLattice", <<3, 1, 1>>, NULL)

(* The third block is the one the user may add. *)
RowPlacement ==
  [b \in Block |-> IF b = b1 THEN <<0, 0, 0>> ELSE IF b = b2 THEN <<1, 0, 0>> ELSE NULL]
=============================================================================
