--------------------------- MODULE LatticeProofs ---------------------------
(***************************************************************************)
(* The facts about the lattices that P2PNetwork assumes of its topology,   *)
(* for every kind of lattice and every size of the grid, and that the      *)
(* array Lattice::grid is a map from the cells of the grid to the blocks.  *)
(***************************************************************************)
EXTENDS Lattice, TLAPS

(* The direction opposite to the opposite of d is d, whatever the lattice  *)
(* (the switch of each getOppositeDirection).                              *)
THEOREM OppositeIsAnInvolution ==
  \A kind \in Kind : \A d \in Direction(kind) :
    /\ OppositeDirection(kind, d) \in Direction(kind)
    /\ OppositeDirection(kind, OppositeDirection(kind, d)) = d
<1> SUFFICES ASSUME NEW kind \in Kind, NEW d \in Direction(kind)
             PROVE  /\ OppositeDirection(kind, d) \in Direction(kind)
                    /\ OppositeDirection(kind, OppositeDirection(kind, d)) = d
    OBVIOUS
<1>1. CASE kind = "SLattice"
  BY <1>1 DEF Direction, OppositeDirection
<1>2. CASE kind = "HLattice"
  BY <1>2 DEF Direction, OppositeDirection
<1>3. CASE kind = "FCCLattice"
  BY <1>3 DEF Direction, OppositeDirection
<1>4. CASE kind = "SCLattice"
  BY <1>4 DEF Direction, OppositeDirection, SCOpposite
<1> QED  BY <1>1, <1>2, <1>3, <1>4 DEF Kind

(* One row or layer up or down is of the other parity (IS_EVEN).           *)
LEMMA StepChangesParity ==
  \A z \in Int : /\ IsEven(z) \in BOOLEAN
                 /\ IsEven(z + 1) <=> ~IsEven(z)
                 /\ IsEven(z + -1) <=> ~IsEven(z)
  BY DEF IsEven

(* The entry for d of a table and the entry for the opposite of d of the   *)
(* table of the cell it leads to are opposite vectors.                     *)
LEMMA TablesMatch ==
  ASSUME NEW kind \in Kind, NEW even \in BOOLEAN, NEW d \in Direction(kind)
  PROVE  LET t == RelativeCells(kind, even)[d + 1]
             u == RelativeCells(kind, IF t[3] = 0 THEN even ELSE ~even)
                    [OppositeDirection(kind, d) + 1]
         IN  /\ t \in Position
             /\ t # <<0, 0, 0>>
             /\ t[3] \in {-1, 0, 1}
             /\ u = <<-t[1], -t[2], -t[3]>>
<1> USE DEF RelativeCells, OppositeDirection, Position
<1>1. CASE kind = "SLattice"
  BY <1>1 DEF Direction, SCells
<1>2. CASE kind = "HLattice"
  <2>0. d \in {0, 1, 2} \/ d \in {3, 4, 5}
    BY <1>2 DEF Direction
  <2>1. CASE even
    <3>1. CASE d \in {0, 1, 2}
      BY <1>2, <2>1, <3>1 DEF HCellsEven, HCellsOdd
    <3>2. CASE d \in {3, 4, 5}
      BY <1>2, <2>1, <3>2 DEF HCellsEven, HCellsOdd
    <3> QED  BY <2>0, <3>1, <3>2
  <2>2. CASE ~even
    <3>1. CASE d \in {0, 1, 2}
      BY <1>2, <2>2, <3>1 DEF HCellsEven, HCellsOdd
    <3>2. CASE d \in {3, 4, 5}
      BY <1>2, <2>2, <3>2 DEF HCellsEven, HCellsOdd
    <3> QED  BY <2>0, <3>1, <3>2
  <2> QED  BY <2>1, <2>2
<1>3. CASE kind = "FCCLattice"
  <2>0. d \in {0, 1} \/ d \in {2, 3} \/ d \in {4, 5} \/ d \in {6, 7} \/ d \in {8, 9} \/ d \in {10, 11}
    BY <1>3 DEF Direction
  <2>1. CASE even
    <3>1. CASE d \in {0, 1}
      BY <1>3, <2>1, <3>1 DEF FCCCellsEven, FCCCellsOdd
    <3>2. CASE d \in {2, 3}
      BY <1>3, <2>1, <3>2 DEF FCCCellsEven, FCCCellsOdd
    <3>3. CASE d \in {4, 5}
      BY <1>3, <2>1, <3>3 DEF FCCCellsEven, FCCCellsOdd
    <3>4. CASE d \in {6, 7}
      BY <1>3, <2>1, <3>4 DEF FCCCellsEven, FCCCellsOdd
    <3>5. CASE d \in {8, 9}
      BY <1>3, <2>1, <3>5 DEF FCCCellsEven, FCCCellsOdd
    <3>6. CASE d \in {10, 11}
      BY <1>3, <2>1, <3>6 DEF FCCCellsEven, FCCCellsOdd
    <3> QED  BY <2>0, <3>1, <3>2, <3>3, <3>4, <3>5, <3>6
  <2>2. CASE ~even
    <3>1. CASE d \in {0, 1}
      BY <1>3, <2>2, <3>1 DEF FCCCellsEven, FCCCellsOdd
    <3>2. CASE d \in {2, 3}
      BY <1>3, <2>2, <3>2 DEF FCCCellsEven, FCCCellsOdd
    <3>3. CASE d \in {4, 5}
      BY <1>3, <2>2, <3>3 DEF FCCCellsEven, FCCCellsOdd
    <3>4. CASE d \in {6, 7}
      BY <1>3, <2>2, <3>4 DEF FCCCellsEven, FCCCellsOdd
    <3>5. CASE d \in {8, 9}
      BY <1>3, <2>2, <3>5 DEF FCCCellsEven, FCCCellsOdd
    <3>6. CASE d \in {10, 11}
      BY <1>3, <2>2, <3>6 DEF FCCCellsEven, FCCCellsOdd
    <3> QED  BY <2>0, <3>1, <3>2, <3>3, <3>4, <3>5, <3>6
  <2> QED  BY <2>1, <2>2
<1>4. CASE kind = "SCLattice"
  BY <1>4 DEF Direction, SCCells, SCOpposite
<1> QED  BY <1>1, <1>2, <1>3, <1>4 DEF Kind

(* If q is next to p in direction d, then p is next to q in the opposite   *)
(* direction: the two calls of linkBlock, for p and for q, connect the     *)
(* same two interfaces (linkBlock of every world; the tables of lattice.h  *)
(* differ for odd and even z, and a step up or down changes the parity).   *)
THEOREM NeighborsAreMutual ==
  \A kind \in Kind, p \in Position : \A d \in Direction(kind) :
    /\ NextCell(kind, p, d) \in Position
    /\ NextCell(kind, p, d) # p
    /\ NextCell(kind, NextCell(kind, p, d), OppositeDirection(kind, d)) = p
<1> SUFFICES ASSUME NEW kind \in Kind, NEW p \in Position, NEW d \in Direction(kind)
             PROVE  /\ NextCell(kind, p, d) \in Position
                    /\ NextCell(kind, p, d) # p
                    /\ NextCell(kind, NextCell(kind, p, d), OppositeDirection(kind, d)) = p
    OBVIOUS
<1> DEFINE even == IsEven(p[3])
           t == RelativeCells(kind, even)[d + 1]
           u == RelativeCells(kind, IF t[3] = 0 THEN even ELSE ~even)
                  [OppositeDirection(kind, d) + 1]
           q == NextCell(kind, p, d)
<1>1. p = <<p[1], p[2], p[3]>> /\ p[1] \in Int /\ p[2] \in Int /\ p[3] \in Int
  BY DEF Position
<1>2. even \in BOOLEAN
  BY <1>1, StepChangesParity
<1>3. /\ t \in Position /\ t # <<0, 0, 0>> /\ t[3] \in {-1, 0, 1}
      /\ u = <<-t[1], -t[2], -t[3]>>
  BY <1>2, TablesMatch
<1>4. t = <<t[1], t[2], t[3]>> /\ t[1] \in Int /\ t[2] \in Int /\ t[3] \in Int
  BY <1>3 DEF Position
<1> HIDE DEF t
<1>5. q = <<p[1] + t[1], p[2] + t[2], p[3] + t[3]>>
  BY DEF NextCell, RelativeConnectivity, Plus, t
<1>6. IsEven(q[3]) = (IF t[3] = 0 THEN even ELSE ~even)
  BY <1>1, <1>2, <1>3, <1>5, StepChangesParity
<1> HIDE DEF q
<1>7. NextCell(kind, q, OppositeDirection(kind, d)) = <<q[1] + u[1], q[2] + u[2], q[3] + u[3]>>
  BY <1>6 DEF NextCell, RelativeConnectivity, Plus
<1> HIDE DEF u
<1>8. NextCell(kind, q, OppositeDirection(kind, d)) = p
  BY <1>1, <1>3, <1>4, <1>5, <1>7
<1>9. q \in Position /\ q # p
  BY <1>1, <1>3, <1>4, <1>5 DEF Position
<1> QED  BY <1>8, <1>9 DEF q

(* The neighbours in the grid, with a null for the cells outside, are as   *)
(* P2PNetwork assumes (TopologyAssumption): the links that linkBlock makes *)
(* are those of a symmetric graph without loops, for every grid.           *)
THEOREM LatticeTopology ==
  ASSUME NEW kind \in Kind, NEW size \in GridSize, NEW null, null \notin GridCell(size)
  PROVE  LET N == NeighborCells(kind, size, null)
             O == OppositeDirections(kind)
         IN  /\ O \in [Direction(kind) -> Direction(kind)]
             /\ \A d \in Direction(kind) : O[O[d]] = d
             /\ N \in [GridCell(size) -> [Direction(kind) -> GridCell(size) \cup {null}]]
             /\ \A p \in GridCell(size), d \in Direction(kind) : N[p][d] # null =>
                  /\ N[N[p][d]][O[d]] = p
                  /\ N[p][d] # p
<1> DEFINE N == NeighborCells(kind, size, null)
           O == OppositeDirections(kind)
<1>1. GridCell(size) \subseteq Position
  BY DEF GridCell, Position, GridSize
<1>2. \A p \in Position : IsInGrid(size, p) <=> p \in GridCell(size)
  BY DEF IsInGrid, GridCell, Position, GridSize
<1>3. /\ O \in [Direction(kind) -> Direction(kind)]
      /\ \A d \in Direction(kind) : O[O[d]] = d
  BY OppositeIsAnInvolution DEF OppositeDirections
<1>4. ASSUME NEW p \in GridCell(size), NEW d \in Direction(kind)
      PROVE  N[p][d] = IF NextCell(kind, p, d) \in GridCell(size) THEN NextCell(kind, p, d) ELSE null
  BY <1>1, <1>2, NeighborsAreMutual DEF NeighborCells
<1>5. N \in [GridCell(size) -> [Direction(kind) -> GridCell(size) \cup {null}]]
  BY <1>1, <1>2, NeighborsAreMutual DEF NeighborCells
<1>6. ASSUME NEW p \in GridCell(size), NEW d \in Direction(kind), N[p][d] # null
      PROVE  N[N[p][d]][O[d]] = p /\ N[p][d] # p
  <2> DEFINE q == NextCell(kind, p, d)
  <2>1. q \in GridCell(size) /\ N[p][d] = q
    BY <1>4, <1>6
  <2>2. O[d] \in Direction(kind) /\ O[d] = OppositeDirection(kind, d)
    BY <1>3 DEF OppositeDirections
  <2>3. NextCell(kind, q, O[d]) = p /\ q # p
    BY <1>1, <2>2, NeighborsAreMutual
  <2>4. N[q][O[d]] = p
    BY <1>4, <2>1, <2>2, <2>3
  <2> QED  BY <2>1, <2>3, <2>4
<1> QED  BY <1>3, <1>5, <1>6

(* Multiples of w grow with the factor (the products of getIndex).         *)
LEMMA Monotone ==
  ASSUME NEW w \in Nat, NEW m \in Int, NEW n \in Int, m <= n
  PROVE  m * w <= n * w
<1>1. (n - m) * w >= 0
  OBVIOUS
<1>2. (n - m) * w = n * w - m * w
  OBVIOUS
<1>3. n * w \in Int /\ m * w \in Int
  OBVIOUS
<1> QED  BY <1>1, <1>2, <1>3

(* A digit below w and a multiple of w are determined by their sum (the    *)
(* terms of getIndex).                                                     *)
LEMMA Digits ==
  ASSUME NEW w \in Nat \ {0}, NEW a \in 0..(w - 1), NEW b \in 0..(w - 1),
         NEW m \in Int, NEW n \in Int, a + m * w = b + n * w
  PROVE  a = b /\ m = n
<1>1. ASSUME NEW i \in Int, NEW j \in Int, i < j PROVE i * w + w <= j * w
  <2>1. (i + 1) * w <= j * w
    BY <1>1, Monotone
  <2>2. (i + 1) * w = i * w + w
    OBVIOUS
  <2> QED  BY <2>1, <2>2
<1>2. m * w \in Int /\ n * w \in Int
  OBVIOUS
<1>3. ~(m < n)
  <2> SUFFICES ASSUME m < n PROVE FALSE
    OBVIOUS
  <2>1. m * w + w <= n * w
    BY <1>1
  <2> QED  BY <1>2, <2>1
<1>4. ~(n < m)
  <2> SUFFICES ASSUME n < m PROVE FALSE
    OBVIOUS
  <2>1. n * w + w <= m * w
    BY <1>1
  <2> QED  BY <1>2, <2>1
<1>5. m = n
  BY <1>3, <1>4
<1> QED  BY <1>2, <1>5

(* A digit below w and a number below h make a number below h * w (the     *)
(* terms of getIndex).                                                     *)
LEMMA DigitsBound ==
  ASSUME NEW w \in Nat \ {0}, NEW h \in Nat \ {0}, NEW a \in 0..(w - 1), NEW m \in 0..(h - 1)
  PROVE  a + m * w \in 0..(h * w - 1)
<1>1. 0 * w <= m * w /\ m * w <= (h - 1) * w
  BY Monotone
<1>2. (h - 1) * w = h * w - w /\ 0 * w = 0
  OBVIOUS
<1>3. m * w \in Int /\ h * w \in Int
  OBVIOUS
<1> QED  BY <1>1, <1>2, <1>3

(* No two cells of the grid share a place of the array Lattice::grid, and  *)
(* every place is in the array of gridSize[0] * gridSize[1] * gridSize[2]  *)
(* (Lattice::getIndex): insert, remove and getBlock are those of a map     *)
(* from cells to blocks.  Outside the grid nothing is promised.            *)
THEOREM IndexIsInjective ==
  ASSUME NEW size \in GridSize, NEW p \in GridCell(size), NEW q \in GridCell(size)
  PROVE  /\ Index(size, p) \in 0..(size[3] * size[2] * size[1] - 1)
         /\ Index(size, p) = Index(size, q) => p = q
<1> DEFINE w == size[1]
           h == size[2]
           l == size[3]
<1>1. w \in Nat \ {0} /\ h \in Nat \ {0} /\ l \in Nat \ {0}
  BY DEF GridSize
<1>2. ASSUME NEW r \in GridCell(size)
      PROVE  /\ r[1] \in 0..(w - 1) /\ r[2] \in 0..(h - 1) /\ r[3] \in 0..(l - 1)
             /\ r = <<r[1], r[2], r[3]>>
             /\ r[2] + r[3] * h \in 0..(l * h - 1)
             /\ Index(size, r) = r[1] + (r[2] + r[3] * h) * w
  <2>1. r[1] \in 0..(w - 1) /\ r[2] \in 0..(h - 1) /\ r[3] \in 0..(l - 1) /\ r = <<r[1], r[2], r[3]>>
    BY DEF GridCell
  <2>2. r[2] + r[3] * h \in 0..(l * h - 1)
    BY <1>1, <2>1, DigitsBound
  <2> QED  BY <2>1, <2>2 DEF Index
<1>3. l * h \in Nat \ {0}
  BY <1>1, <1>2
<1>4. Index(size, p) \in 0..(l * h * w - 1)
  BY <1>1, <1>2, <1>3, DigitsBound
<1>5. ASSUME Index(size, p) = Index(size, q) PROVE p = q
  <2>1. p[1] = q[1] /\ p[2] + p[3] * h = q[2] + q[3] * h
    BY <1>1, <1>2, <1>5, Digits
  <2>2. p[2] = q[2] /\ p[3] = q[3]
    BY <1>1, <1>2, <2>1, Digits
  <2> QED  BY <1>2, <2>1, <2>2
<1> QED  BY <1>4, <1>5
=============================================================================
