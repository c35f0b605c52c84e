------------------------------ MODULE Lattice ------------------------------
(***************************************************************************)
(* The lattices: which cell is next to which, through which interface, and *)
(* where a cell is in the array Lattice::grid.  A cell is <<x, y, z>>; a   *)
(* kind is a subclass of Lattice.  The directions of a kind are numbered   *)
(* from 0 as in its enum Direction.  BCLattice, where every block hears    *)
(* every other, has no neighbour cells.  Coordinates are short in the code *)
(* and integers here: a sum that wraps leaves the grid in both.            *)
(***************************************************************************)
EXTENDS Integers, Sequences

Kind == {"SLattice", "HLattice", "FCCLattice", "SCLattice"}

Position == Int \X Int \X Int

(* Lattice::gridSize: the constructor throws unless it is positive. *)
GridSize == (Nat \ {0}) \X (Nat \ {0}) \X (Nat \ {0})

Direction(kind) == CASE kind = "SLattice"   -> 0..3
                     [] kind = "HLattice"   -> 0..5
                     [] kind = "FCCLattice" -> 0..11
                     [] kind = "SCLattice"  -> 0..5

IsEven(z) == z % 2 = 0

(***************************************************************************)
(* The tables of relative positions.  Where every other layer (FCCLattice) *)
(* or row (HLattice) is shifted, they depend on the parity of z.           *)
(***************************************************************************)
SCells == << <<0, 1, 0>>, <<1, 0, 0>>, <<0, -1, 0>>, <<-1, 0, 0>> >>

HCellsOdd == << <<1, 0, 0>>, <<1, 0, 1>>, <<0, 0, 1>>,
                <<-1, 0, 0>>, <<0, 0, -1>>, <<1, 0, -1>> >>

HCellsEven == << <<1, 0, 0>>, <<0, 0, 1>>, <<-1, 0, 1>>,
                 <<-1, 0, 0>>, <<-1, 0, -1>>, <<0, 0, -1>> >>

FCCCellsOdd ==
  << <<1, 0, 0>>, <<0, 1, 0>>, <<1, 1, 1>>, <<0, 1, 1>>, <<0, 0, 1>>, <<1, 0, 1>>,
     <<-1, 0, 0>>, <<0, -1, 0>>, <<0, 0, -1>>, <<1, 0, -1>>, <<1, 1, -1>>, <<0, 1, -1>> >>

FCCCellsEven ==
  << <<1, 0, 0>>, <<0, 1, 0>>, <<0, 0, 1>>, <<-1, 0, 1>>, <<-1, -1, 1>>, <<0, -1, 1>>,
     <<-1, 0, 0>>, <<0, -1, 0>>, <<-1, -1, -1>>, <<0, -1, -1>>, <<0, 0, -1>>, <<-1, 0, -1>> >>

SCCells == << <<0, 0, -1>>, <<0, 1, 0>>, <<1, 0, 0>>,
              <<0, -1, 0>>, <<-1, 0, 0>>, <<0, 0, 1>> >>

RelativeCells(kind, even) ==
  CASE kind = "SLattice"   -> SCells
    [] kind = "HLattice"   -> IF even THEN HCellsEven ELSE HCellsOdd
    [] kind = "FCCLattice" -> IF even THEN FCCCellsEven ELSE FCCCellsOdd
    [] kind = "SCLattice"  -> SCCells

RelativeConnectivity(kind, p) == RelativeCells(kind, IsEven(p[3]))

(* Bottom, Back, Right, Front, Left, Top. *)
SCOpposite == <<5, 3, 4, 1, 2, 0>>

OppositeDirection(kind, d) ==
  CASE kind = "SLattice"   -> (d + 2) % 4
    [] kind = "HLattice"   -> (d + 3) % 6
    [] kind = "FCCLattice" -> (d + 6) % 12
    [] kind = "SCLattice"  -> SCOpposite[d + 1]

-----------------------------------------------------------------------------
(* Cell3DPosition::operator+ *)
Plus(p, q) == <<p[1] + q[1], p[2] + q[2], p[3] + q[3]>>

(* What the worlds compute in linkBlock for direction d of the cell p. *)
NextCell(kind, p, d) == Plus(p, RelativeConnectivity(kind, p)[d + 1])

IsInGrid(size, p) ==
  p[1] \in 0..(size[1] - 1) /\ p[2] \in 0..(size[2] - 1) /\ p[3] \in 0..(size[3] - 1)

(* The place of p in the array of size[1] * size[2] * size[3] cells. *)
Index(size, p) == p[1] + (p[2] + p[3] * size[2]) * size[1]

GridCell(size) == (0..(size[1] - 1)) \X (0..(size[2] - 1)) \X (0..(size[3] - 1))

(* The topology of a grid, null standing for no cell (getBlock returns     *)
(* NULL outside the grid, as for a cell without a block).                  *)
NeighborCells(kind, size, null) ==
  [p \in GridCell(size) |->
     [d \in Direction(kind) |->
        IF IsInGrid(size, NextCell(kind, p, d)) THEN NextCell(kind, p, d) ELSE null]]

OppositeDirections(kind) == [d \in Direction(kind) |-> OppositeDirection(kind, d)]
=============================================================================
