---------------------------- MODULE MCP2PNetwork ----------------------------
(* Instances of P2PNetwork for TLC, on the lattices of the simulator. *)
EXTENDS P2PNetwork, Lattice

CONSTANTS b1, b2, b3, LatticeKind, Size

MCDir == Direction(LatticeKind)

(* The enum Direction of the lattice. *)
MCDirOrder == [i \in 1..Cardinality(MCDir) |-> i - 1]

MCCell == GridCell(Size)

MCCellOrder == SetToSeq(MCCell)

MCOpposite == OppositeDirections(LatticeKind)

MCNeighbor == NeighborCells(LatticeKind, Size, NULL)

(* Blocks in a row and a free cell: b1 - b2 - b3. *)
Row == <<4, 1, 1>>

RowPlacement ==
  [b \in Block |-> IF b = b1 THEN <<0, 0, 0>> ELSE IF b = b2 THEN <<1, 0, 0>> ELSE <<2, 0, 0>>]

(* On the HLattice, two rows of two: b1, b2 and b3 touch each other, the   *)
(* free cell touches b2 and b3.                                            *)
Rhombus == <<2, 1, 2>>

RhombusPlacement ==
  [b \in Block |-> IF b = b1 THEN <<0, 0, 0>> ELSE IF b = b2 THEN <<1, 0, 0>> ELSE <<0, 0, 1>>]
=============================================================================
