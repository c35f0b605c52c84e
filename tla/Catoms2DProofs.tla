--------------------------- MODULE Catoms2DProofs ---------------------------
(***************************************************************************)
(* The links of the 2D catoms follow their rotations, on every grid, from  *)
(* every placement, whatever is asked of them.                             *)
(***************************************************************************)
EXTENDS Catoms2D, LatticeProofs, FiniteSetTheorems

-----------------------------------------------------------------------------
(* The six cells around a cell, those of HCellsEven and HCellsOdd.         *)
LEMMA HexCells ==
  ASSUME NEW p \in Position
  PROVE  /\ NextCell("HLattice", p, 0) = <<p[1] + 1, p[2], p[3]>>
         /\ NextCell("HLattice", p, 3) = <<p[1] - 1, p[2], p[3]>>
         /\ p[3] % 2 = 0 =>
              /\ NextCell("HLattice", p, 1) = <<p[1], p[2], p[3] + 1>>
              /\ NextCell("HLattice", p, 2) = <<p[1] - 1, p[2], p[3] + 1>>
              /\ NextCell("HLattice", p, 4) = <<p[1] - 1, p[2], p[3] - 1>>
              /\ NextCell("HLattice", p, 5) = <<p[1], p[2], p[3] - 1>>
         /\ p[3] % 2 # 0 =>
              /\ NextCell("HLattice", p, 1) = <<p[1] + 1, p[2], p[3] + 1>>
              /\ NextCell("HLattice", p, 2) = <<p[1], p[2], p[3] + 1>>
              /\ NextCell("HLattice", p, 4) = <<p[1], p[2], p[3] - 1>>
              /\ NextCell("HLattice", p, 5) = <<p[1] + 1, p[2], p[3] - 1>>
<1>1. p[1] \in Int /\ p[2] \in Int /\ p[3] \in Int
  BY DEF Position
<1>2. CASE p[3] % 2 = 0
  <2>1. RelativeConnectivity("HLattice", p) = HCellsEven
    BY <1>2 DEF RelativeConnectivity, RelativeCells, IsEven
  <2>. QED BY <1>1, <1>2, <2>1 DEF NextCell, Plus, HCellsEven
<1>3. CASE p[3] % 2 # 0
  <2>1. RelativeConnectivity("HLattice", p) = HCellsOdd
    BY <1>3 DEF RelativeConnectivity, RelativeCells, IsEven
  <2>. QED BY <1>1, <1>3, <2>1 DEF NextCell, Plus, HCellsOdd
<1>. QED BY <1>2, <1>3

(* In half cells and rows the neighbours are the same in every row.        *)
HalfCells == <<<<2, 0>>, <<1, 1>>, <<-1, 1>>, <<-2, 0>>, <<-1, -1>>, <<1, -1>>>>

(* A step in direction d, as drawn (gridToWorldPosition).                  *)
LEMMA WorldStep ==
  ASSUME NEW p \in Position, NEW d \in Hex
  PROVE  LET q == NextCell("HLattice", p, d)
         IN  /\ q \in Position /\ q[2] = p[2]
             /\ ToWorld(q)[1] = ToWorld(p)[1] + HalfCells[d + 1][1]
             /\ ToWorld(q)[2] = ToWorld(p)[2] + HalfCells[d + 1][2]
<1>1. p[1] \in Int /\ p[2] \in Int /\ p[3] \in Int
  BY DEF Position
<1>2. d \in {0, 1, 2, 3, 4, 5}
  BY DEF Hex, Direction
<1>3. NextCell("HLattice", p, d) \in Position
  BY NeighborsAreMutual DEF Hex, Kind
<1>4. CASE p[3] % 2 = 0
  <2>1. (p[3] + 1) % 2 = 1 /\ (p[3] - 1) % 2 = 1
    BY <1>1, <1>4
  <2>2. CASE d = 0
    BY <1>1, <1>3, <1>4, <2>1, HexCells, <2>2 DEF ToWorld, HalfCells
  <2>3. CASE d = 1
    BY <1>1, <1>3, <1>4, <2>1, HexCells, <2>3 DEF ToWorld, HalfCells
  <2>4. CASE d = 2
    BY <1>1, <1>3, <1>4, <2>1, HexCells, <2>4 DEF ToWorld, HalfCells
  <2>5. CASE d = 3
    BY <1>1, <1>3, <1>4, <2>1, HexCells, <2>5 DEF ToWorld, HalfCells
  <2>6. CASE d = 4
    BY <1>1, <1>3, <1>4, <2>1, HexCells, <2>6 DEF ToWorld, HalfCells
  <2>7. CASE d = 5
    BY <1>1, <1>3, <1>4, <2>1, HexCells, <2>7 DEF ToWorld, HalfCells
  <2>. QED BY <1>2, <2>2, <2>3, <2>4, <2>5, <2>6, <2>7
<1>5. CASE p[3] % 2 # 0
  <2>1. p[3] % 2 = 1 /\ (p[3] + 1) % 2 = 0 /\ (p[3] - 1) % 2 = 0
    BY <1>1, <1>5
  <2>2. CASE d = 0
    BY <1>1, <1>3, <1>5, <2>1, HexCells, <2>2 DEF ToWorld, HalfCells
  <2>3. CASE d = 1
    BY <1>1, <1>3, <1>5, <2>1, HexCells, <2>3 DEF ToWorld, HalfCells
  <2>4. CASE d = 2
    BY <1>1, <1>3, <1>5, <2>1, HexCells, <2>4 DEF ToWorld, HalfCells
  <2>5. CASE d = 3
    BY <1>1, <1>3, <1>5, <2>1, HexCells, <2>5 DEF ToWorld, HalfCells
  <2>6. CASE d = 4
    BY <1>1, <1>3, <1>5, <2>1, HexCells, <2>6 DEF ToWorld, HalfCells
  <2>7. CASE d = 5
    BY <1>1, <1>3, <1>5, <2>1, HexCells, <2>7 DEF ToWorld, HalfCells
  <2>. QED BY <1>2, <2>2, <2>3, <2>4, <2>5, <2>6, <2>7
<1>. QED BY <1>4, <1>5

(* A cell is drawn in a place of its own, and found again from there.      *)
LEMMA WorldIsExact ==
  ASSUME NEW p \in Position
  PROVE  /\ ToWorld(p)[1] \in Int /\ ToWorld(p)[2] \in Int
         /\ p[2] = 0 => ToGrid(<<ToWorld(p)[1], ToWorld(p)[2]>>) = p
         /\ \A q \in Position : (q[2] = p[2] /\ ToWorld(q)[1] = ToWorld(p)[1] /\ ToWorld(q)[2] = ToWorld(p)[2]) => q = p
<1>1. p[1] \in Int /\ p[2] \in Int /\ p[3] \in Int /\ p = <<p[1], p[2], p[3]>>
  BY DEF Position
<1>2. ToWorld(p)[1] = 2 * p[1] + (p[3] % 2) /\ ToWorld(p)[2] = p[3] /\ p[3] % 2 \in Int
  BY <1>1 DEF ToWorld
<1>3. ASSUME p[2] = 0 PROVE ToGrid(<<ToWorld(p)[1], ToWorld(p)[2]>>) = p
  <2>1. ((2 * p[1] + (p[3] % 2)) - (p[3] % 2)) \div 2 = p[1]
    BY <1>1
  <2>. QED BY <1>1, <1>2, <1>3, <2>1 DEF ToGrid
<1>4. ASSUME NEW q \in Position, q[2] = p[2], ToWorld(q)[1] = ToWorld(p)[1], ToWorld(q)[2] = ToWorld(p)[2]
      PROVE  q = p
  <2>1. q[1] \in Int /\ q[3] \in Int /\ q = <<q[1], q[2], q[3]>>
    BY DEF Position
  <2>2. ToWorld(q)[1] = 2 * q[1] + (q[3] % 2) /\ ToWorld(q)[2] = q[3]
    BY DEF ToWorld
  <2>3. q[3] = p[3]
    BY <1>2, <1>4, <2>2
  <2>4. 2 * q[1] + (p[3] % 2) = 2 * p[1] + (p[3] % 2)
    BY <1>2, <1>4, <2>2, <2>3
  <2>5. q[1] = p[1]
    BY <1>1, <1>2, <2>1, <2>4
  <2>. QED BY <1>1, <1>4, <2>1, <2>3, <2>5
<1>5. \A q \in Position : (q[2] = p[2] /\ ToWorld(q)[1] = ToWorld(p)[1] /\ ToWorld(q)[2] = ToWorld(p)[2]) => q = p
  BY <1>4
<1>6. ToWorld(p)[1] \in Int /\ ToWorld(p)[2] \in Int
  BY <1>1, <1>2
<1>. QED BY <1>3, <1>5, <1>6

(* The six cells around a cell are six.                                    *)
LEMMA HexCellsDiffer ==
  ASSUME NEW p \in Position, NEW d \in Hex, NEW e \in Hex,
         NextCell("HLattice", p, d) = NextCell("HLattice", p, e)
  PROVE  d = e
<1>1. ToWorld(p)[1] \in Int /\ ToWorld(p)[2] \in Int
  BY WorldIsExact
<1>2. /\ ToWorld(p)[1] + HalfCells[d + 1][1] = ToWorld(p)[1] + HalfCells[e + 1][1]
      /\ ToWorld(p)[2] + HalfCells[d + 1][2] = ToWorld(p)[2] + HalfCells[e + 1][2]
  BY WorldStep
<1>3. d \in {0, 1, 2, 3, 4, 5} /\ e \in {0, 1, 2, 3, 4, 5}
  BY DEF Hex, Direction
<1>4. \A f \in {0, 1, 2, 3, 4, 5} : HalfCells[f + 1][1] \in Int /\ HalfCells[f + 1][2] \in Int
  BY DEF HalfCells
<1>5. /\ HalfCells[d + 1][1] \in Int /\ HalfCells[d + 1][2] \in Int
      /\ HalfCells[e + 1][1] \in Int /\ HalfCells[e + 1][2] \in Int
  BY <1>3, <1>4
<1>6. \A x, u, v \in Int : x + u = x + v => u = v
  OBVIOUS
<1>7. HalfCells[d + 1][1] = HalfCells[e + 1][1] /\ HalfCells[d + 1][2] = HalfCells[e + 1][2]
  BY <1>1, <1>2, <1>5, <1>6
<1>. QED BY <1>3, <1>7 DEF HalfCells

(* The six vectors: those on the two sides of one add up to it, and turned *)
(* by a sixth they give each other.                                        *)
LEMMA SixthsOfATurn ==
  ASSUME NEW d \in Hex, NEW s \in {CCW, CW}
  PROVE  LET v == HalfCells[d + 1]
             l == HalfCells[Ring(d - s) + 1]
             r == HalfCells[Ring(d + s) + 1]
             o == HalfCells[Ring(OppositeDirection("HLattice", d) + s) + 1]
         IN  /\ Ring(d - s) \in Hex /\ Ring(d + s) \in Hex
             /\ Ring(OppositeDirection("HLattice", d) + s) \in Hex
             /\ v[1] \in Int /\ v[2] \in Int /\ l[1] \in Int /\ l[2] \in Int
             /\ r[1] = v[1] - l[1] /\ r[2] = v[2] - l[2]
             /\ o[1] = l[1] - v[1] /\ o[2] = l[2] - v[2]
             /\ (3 * s * v[2] - v[1]) \div 2 = l[1] - v[1]
             /\ (-v[2] - s * v[1]) \div 2 = l[2] - v[2]
<1>1. d \in {0, 1, 2, 3, 4, 5} /\ s \in {1, -1}
  BY DEF Hex, Direction, CCW, CW
<1>2. CASE s = 1
  <2>1. CASE d = 0
    BY <1>2, <2>1 DEF Hex, Direction, Ring, OppositeDirection, HalfCells
  <2>2. CASE d = 1
    BY <1>2, <2>2 DEF Hex, Direction, Ring, OppositeDirection, HalfCells
  <2>3. CASE d = 2
    BY <1>2, <2>3 DEF Hex, Direction, Ring, OppositeDirection, HalfCells
  <2>4. CASE d = 3
    BY <1>2, <2>4 DEF Hex, Direction, Ring, OppositeDirection, HalfCells
  <2>5. CASE d = 4
    BY <1>2, <2>5 DEF Hex, Direction, Ring, OppositeDirection, HalfCells
  <2>6. CASE d = 5
    BY <1>2, <2>6 DEF Hex, Direction, Ring, OppositeDirection, HalfCells
  <2>. QED BY <1>1, <2>1, <2>2, <2>3, <2>4, <2>5, <2>6
<1>3. CASE s = -1
  <2>1. CASE d = 0
    BY <1>3, <2>1 DEF Hex, Direction, Ring, OppositeDirection, HalfCells
  <2>2. CASE d = 1
    BY <1>3, <2>2 DEF Hex, Direction, Ring, OppositeDirection, HalfCells
  <2>3. CASE d = 2
    BY <1>3, <2>3 DEF Hex, Direction, Ring, OppositeDirection, HalfCells
  <2>4. CASE d = 3
    BY <1>3, <2>4 DEF Hex, Direction, Ring, OppositeDirection, HalfCells
  <2>5. CASE d = 4
    BY <1>3, <2>5 DEF Hex, Direction, Ring, OppositeDirection, HalfCells
  <2>6. CASE d = 5
    BY <1>3, <2>6 DEF Hex, Direction, Ring, OppositeDirection, HalfCells
  <2>. QED BY <1>1, <2>1, <2>2, <2>3, <2>4, <2>5, <2>6
<1>. QED BY <1>1, <1>2, <1>3

(* Where the motion engine puts a catom that turns about another one.      *)
LandingFrom(p, q, s) ==
  LET x == ToWorld(p)[1] - ToWorld(q)[1]
      z == ToWorld(p)[2] - ToWorld(q)[2]
  IN  ToGrid(<<ToWorld(q)[1] + ((x - 3 * s * z) \div 2), ToWorld(q)[2] + ((s * x + z) \div 2)>>)

(* A catom in p that turns about its neighbour in direction d lands in the *)
(* next cell around it, and has it then in the next direction.             *)
LEMMA Roll ==
  ASSUME NEW p \in Position, NEW d \in Hex, NEW s \in {CCW, CW}
  PROVE  LET q == NextCell("HLattice", p, d)
             l == NextCell("HLattice", p, Ring(d - s))
         IN  /\ NextCell("HLattice", q, Ring(OppositeDirection("HLattice", d) + s)) = l
             /\ NextCell("HLattice", l, Ring(d + s)) = q
             /\ p[2] = 0 => LandingFrom(p, q, s) = l
<1>. DEFINE q == NextCell("HLattice", p, d)
            l == NextCell("HLattice", p, Ring(d - s))
            o == Ring(OppositeDirection("HLattice", d) + s)
            v == HalfCells[d + 1]
            u == HalfCells[Ring(d - s) + 1]
<1>1. /\ Ring(d - s) \in Hex /\ Ring(d + s) \in Hex /\ o \in Hex
      /\ v[1] \in Int /\ v[2] \in Int /\ u[1] \in Int /\ u[2] \in Int
      /\ HalfCells[Ring(d + s) + 1][1] = v[1] - u[1] /\ HalfCells[Ring(d + s) + 1][2] = v[2] - u[2]
      /\ HalfCells[o + 1][1] = u[1] - v[1] /\ HalfCells[o + 1][2] = u[2] - v[2]
      /\ (3 * s * v[2] - v[1]) \div 2 = u[1] - v[1]
      /\ (-v[2] - s * v[1]) \div 2 = u[2] - v[2]
  BY SixthsOfATurn
<1>2. /\ q \in Position /\ q[2] = p[2]
      /\ ToWorld(q)[1] = ToWorld(p)[1] + v[1] /\ ToWorld(q)[2] = ToWorld(p)[2] + v[2]
  BY WorldStep
<1>3. /\ l \in Position /\ l[2] = p[2]
      /\ ToWorld(l)[1] = ToWorld(p)[1] + u[1] /\ ToWorld(l)[2] = ToWorld(p)[2] + u[2]
  BY <1>1, WorldStep
<1>. HIDE DEF q, l, o, v, u
<1>4. ToWorld(p)[1] \in Int /\ ToWorld(p)[2] \in Int
  BY WorldIsExact
<1>5. NextCell("HLattice", q, o) = l
  <2>. DEFINE x == NextCell("HLattice", q, o)
  <2>1. /\ x \in Position /\ x[2] = q[2]
        /\ ToWorld(x)[1] = ToWorld(q)[1] + (u[1] - v[1]) /\ ToWorld(x)[2] = ToWorld(q)[2] + (u[2] - v[2])
    BY <1>1, <1>2, WorldStep
  <2>. HIDE DEF x
  <2>2. ToWorld(x)[1] = ToWorld(l)[1] /\ ToWorld(x)[2] = ToWorld(l)[2]
    BY <1>1, <1>2, <1>3, <1>4, <2>1
  <2>3. x = l
    BY <1>2, <1>3, <2>1, <2>2, WorldIsExact
  <2>. QED BY <2>3 DEF x
<1>6. NextCell("HLattice", l, Ring(d + s)) = q
  <2>. DEFINE x == NextCell("HLattice", l, Ring(d + s))
  <2>1. /\ x \in Position /\ x[2] = l[2]
        /\ ToWorld(x)[1] = ToWorld(l)[1] + (v[1] - u[1]) /\ ToWorld(x)[2] = ToWorld(l)[2] + (v[2] - u[2])
    BY <1>1, <1>3, WorldStep
  <2>. HIDE DEF x
  <2>2. ToWorld(x)[1] = ToWorld(q)[1] /\ ToWorld(x)[2] = ToWorld(q)[2]
    BY <1>1, <1>2, <1>3, <1>4, <2>1
  <2>3. x = q
    BY <1>2, <1>3, <2>1, <2>2, WorldIsExact
  <2>. QED BY <2>3 DEF x
<1>7. ASSUME p[2] = 0 PROVE LandingFrom(p, q, s) = l
  <2>. DEFINE x == ToWorld(p)[1] - ToWorld(q)[1]
              z == ToWorld(p)[2] - ToWorld(q)[2]
  <2>1. s = 1 \/ s = -1
    BY DEF CCW, CW
  <2>2. x = -v[1] /\ z = -v[2]
    BY <1>1, <1>2, <1>4
  <2>3. x - 3 * s * z = 3 * s * v[2] - v[1] /\ s * x + z = -v[2] - s * v[1]
    BY <1>1, <2>1, <2>2
  <2>4. /\ ToWorld(q)[1] + ((x - 3 * s * z) \div 2) = ToWorld(l)[1]
        /\ ToWorld(q)[2] + ((s * x + z) \div 2) = ToWorld(l)[2]
    <3>1. (x - 3 * s * z) \div 2 = u[1] - v[1] /\ (s * x + z) \div 2 = u[2] - v[2]
      BY <1>1, <2>3
    <3>. HIDE DEF x, z
    <3>. QED BY <1>1, <1>2, <1>3, <1>4, <3>1
  <2>5. LandingFrom(p, q, s) = ToGrid(<<ToWorld(l)[1], ToWorld(l)[2]>>)
    BY <2>4 DEF LandingFrom
  <2>. QED BY <1>3, <1>7, <2>5, WorldIsExact
<1>. QED BY <1>5, <1>6, <1>7 DEF q, l, o

-----------------------------------------------------------------------------
(* The interfaces of a catom that is turned by a whole number of sixths    *)
(* are the six directions, each once (Catoms2DBlock::getInterface), up to  *)
(* six turns counterclockwise.                                             *)
LEMMA IndexOfSide ==
  ASSUME NEW a, Whole(a), NEW d \in Hex
  PROVE  InterfaceIndex(a, d) \in Hex /\ (InterfaceIndex(a, d) + (a \div 60)) % 6 = d
<1>. DEFINE k == a \div 60
<1>1. a \in Int /\ k \in Int /\ a = 60 * k /\ k <= 6 /\ d \in 0..5
  BY DEF Whole, Hex, Direction
<1>. HIDE DEF k
<1>2. CASE d >= k
  <2>1. InterfaceIndex(a, d) = (d - k) % 6
    <3>1. d * 60 - a >= 0 /\ (d * 60 - a) \div 60 = d - k
      BY <1>1, <1>2
    <3>. QED BY <3>1 DEF InterfaceIndex
  <2>2. (d - k) % 6 \in 0..5 /\ (((d - k) % 6) + k) % 6 = d
    BY <1>1, <1>2
  <2>. QED BY <2>1, <2>2 DEF Hex, Direction, k
<1>3. CASE d < k
  <2>1. InterfaceIndex(a, d) = 6 + d - k
    <3>1. ~(d * 60 - a >= 0) /\ 360 + (d * 60 - a) >= 0 /\ (360 + (d * 60 - a)) \div 60 = 6 + d - k
      BY <1>1, <1>3
    <3>. QED BY <3>1 DEF InterfaceIndex, Truncated
  <2>2. 6 + d - k \in 0..5 /\ (6 + d - k + k) % 6 = d
    BY <1>1, <1>3
  <2>. QED BY <2>1, <2>2 DEF Hex, Direction, k
<1>. QED BY <1>1, <1>2, <1>3

(* Two interfaces of one catom are not on one side.                        *)
LEMMA SidesDiffer ==
  ASSUME NEW k \in Int, NEW i \in Hex, NEW j \in Hex, (i + k) % 6 = (j + k) % 6
  PROVE  i = j
<1>1. i \in 0..5 /\ j \in 0..5
  BY DEF Hex, Direction
<1>2. PICK m \in Int : (i + k) - (j + k) = 6 * m
  BY <1>1
<1>. QED BY <1>1, <1>2

(* And the converse: the interface on the side that interface i is on.     *)
LEMMA SideOfIndex ==
  ASSUME NEW a, Whole(a), NEW i \in Hex
  PROVE  (i + (a \div 60)) % 6 \in Hex /\ InterfaceIndex(a, (i + (a \div 60)) % 6) = i
<1>1. a \in Int /\ a \div 60 \in Int /\ i \in 0..5
  BY DEF Whole, Hex, Direction
<1>2. (i + (a \div 60)) % 6 \in Hex
  BY <1>1 DEF Hex, Direction
<1>. QED BY <1>1, <1>2, IndexOfSide, SidesDiffer

(* Whatever the angle, an interface is on one of the six sides.            *)
LEMMA SideIsDirection ==
  ASSUME NEW a \in Int, NEW i \in Hex
  PROVE  (i + (a \div 60)) % 6 \in Hex
<1>1. i \in Int /\ a \div 60 \in Int
  BY DEF Hex, Direction
<1>2. (i + (a \div 60)) % 6 \in 0..5
  BY <1>1
<1>. QED BY <1>2 DEF Hex, Direction

(* From the seventh turn on the index is out of the vector.                *)
LEMMA InRangeIsWhole ==
  ASSUME NEW a \in Int, a % 60 = 0, ~OutOfRange(a)
  PROVE  Whole(a)
<1>. DEFINE k == a \div 60
<1>1. k \in Int /\ a = 60 * k
  OBVIOUS
<1>. HIDE DEF k
<1>2. ASSUME k >= 7 PROVE FALSE
  <2>1. ~(0 * 60 - a >= 0) /\ ~(360 + (0 * 60 - a) >= 0)
    BY <1>1, <1>2
  <2>2. InterfaceIndex(a, 0) = -((-(360 + (0 * 60 - a))) \div 60)
    BY <2>1 DEF InterfaceIndex, Truncated
  <2>3. (-(360 + (0 * 60 - a))) \div 60 = k - 6
    BY <1>1
  <2>4. InterfaceIndex(a, 0) \notin Hex
    BY <1>1, <1>2, <2>2, <2>3 DEF Hex, Direction
  <2>. QED BY <2>4 DEF OutOfRange, Hex, Direction
<1>3. a <= 360
  BY <1>1, <1>2
<1>. QED BY <1>3 DEF Whole

-----------------------------------------------------------------------------
(* The cells of the plane and the array.                                   *)
LEMMA PlaneCells ==
  /\ \A c \in PlaneCell : c \in Position /\ c[2] = 0 /\ c \in GridCell(Grid) /\ IsInGrid(Grid, c)
  /\ \A c \in Position : (IsInGrid(Grid, c) /\ c[2] = 0) => c \in PlaneCell
  /\ \A c \in Position : IsInGrid(Grid, c) => c \in GridCell(Grid)
<1>1. \A c \in GridCell(Grid) : c \in Position /\ IsInGrid(Grid, c)
  BY Catoms2DAssumption DEF GridCell, GridSize, IsInGrid, Position
<1>2. \A c \in Position : IsInGrid(Grid, c) => c \in GridCell(Grid)
  BY Catoms2DAssumption DEF GridCell, GridSize, IsInGrid, Position
<1>. QED BY <1>1, <1>2 DEF PlaneCell

(* A catom stands in the lattice unless it turns, and is whole then.       *)
LEMMA Standers ==
  ASSUME TurnInv
  PROVE  /\ \A b \in Catom : (Standing(b) <=> InLattice(b)) /\ position[b] \in PlaneCell /\ position[b] \in Position
         /\ \A b \in Catom : Standing(b) => Whole(angle[b])
         /\ \A c \in Position : BlockAt(c) # NULL =>
              BlockAt(c) \in Catom /\ Standing(BlockAt(c)) /\ position[BlockAt(c)] = c
         /\ \A b \in Catom : Standing(b) => BlockAt(position[b]) = b
<1>. USE DEF TurnInv
<1>1. \A b \in Catom : position[b] \in PlaneCell /\ position[b] \in GridCell(Grid) /\ position[b] \in Position
                       /\ IsInGrid(Grid, position[b])
  BY PlaneCells DEF TypeOK
<1>2. \A b \in Catom : Standing(b) <=> InLattice(b)
  BY <1>1, Catoms2DAssumption DEF CellsAgree, Standing
<1>3. ASSUME NEW b \in Catom, InLattice(b) PROVE Whole(angle[b])
  <2>1. motion[b].sens * (FullTurn - motion[b].left) = 0
    <3>1. CASE motion[b].phase = "rest"
      BY <3>1 DEF PhasesAgree, AtRest, FullTurn, AngularStep
    <3>2. CASE motion[b].phase = "start"
      <4>1. motion[b].left = FullTurn /\ motion[b].sens \in {CW, 0, CCW}
        BY <3>2 DEF PhasesAgree, TypeOK
      <4>. QED BY <4>1 DEF FullTurn, AngularStep, CW, CCW
    <3>. QED BY <1>3, <3>1, <3>2 DEF InLattice
  <2>2. angle[b] \in Int
    BY DEF TypeOK
  <2>3. Base(b) = angle[b]
    BY <2>1, <2>2 DEF Base, AngularStep
  <2>. QED BY <2>3 DEF AnglesAreWhole
<1>4. ASSUME NEW c \in Position, BlockAt(c) # NULL
      PROVE  BlockAt(c) \in Catom /\ InLattice(BlockAt(c)) /\ position[BlockAt(c)] = c
  <2>1. IsInGrid(Grid, c) /\ BlockAt(c) = grid[c] /\ c \in GridCell(Grid)
    BY <1>4, PlaneCells DEF BlockAt
  <2>. QED BY <1>4, <2>1 DEF TypeOK, CellsAgree
<1>5. \A b \in Catom : Standing(b) => BlockAt(position[b]) = b
  BY <1>1 DEF Standing, BlockAt
<1>. QED BY <1>1, <1>2, <1>3, <1>4, <1>5

(* The links, by directions: those of a catom in the lattice.              *)
LEMMA LinkOf ==
  ASSUME TurnInv, NEW b \in Catom, Standing(b), NEW d \in Hex
  PROVE  /\ GetInterface(b, d) \in NI
         /\ connectedInterface[GetInterface(b, d)] = Wanted(b, d)
<1>1. Whole(angle[b])
  BY Standers
<1>2. InterfaceIndex(angle[b], d) \in Hex /\ Facing(GetInterface(b, d)) = d /\ GetInterface(b, d)[1] = b
  BY <1>1, IndexOfSide DEF Facing, GetInterface
<1>. QED BY <1>2 DEF TurnInv, LinksAgree, NI, GetInterface

(* The interface of the catom on the other side, when there is one.        *)
LEMMA WantedLink ==
  ASSUME TurnInv, NEW b \in Catom, Standing(b), NEW d \in Hex
  PROVE  /\ Next6(b, d) \in Position
         /\ Wanted(b, d) = NULL <=> BlockAt(Next6(b, d)) = NULL
         /\ BlockAt(Next6(b, d)) # NULL => Wanted(b, d) \in NI /\ Wanted(b, d)[1] = BlockAt(Next6(b, d))
<1>. DEFINE n == BlockAt(Next6(b, d))
            o == OppositeDirection("HLattice", d)
<1>1. Next6(b, d) \in Position /\ o \in Hex
  BY Standers, NeighborsAreMutual, OppositeIsAnInvolution DEF Next6, Hex, Kind
<1>2. ASSUME n # NULL
      PROVE  Wanted(b, d) = <<n, InterfaceIndex(angle[n], o)>> /\ <<n, InterfaceIndex(angle[n], o)>> \in NI
  <2>1. n \in Catom /\ Whole(angle[n])
    BY <1>1, <1>2, Standers
  <2>2. InterfaceIndex(angle[n], o) \in Hex
    BY <1>1, <2>1, IndexOfSide
  <2>. QED BY <1>2, <2>1, <2>2 DEF Wanted, NI
<1>3. NULL \notin NI
  BY Catoms2DAssumption DEF NI, Hex
<1>. QED BY <1>1, <1>2, <1>3 DEF Wanted

(* The two definitions of the links agree.                                 *)
LEMMA FacesFollow ==
  ASSUME TurnInv PROVE FacesAgree
<1> SUFFICES ASSUME NEW ni \in NI
             PROVE  LET n == BlockAt(Next6(ni[1], Facing(ni)))
                    IN  connectedInterface[ni] =
                          IF ~Standing(ni[1]) \/ n = NULL THEN NULL
                          ELSE CHOOSE other \in NI : other[1] = n /\ Facing(other) = (Facing(ni) + 3) % 6
    BY DEF FacesAgree
<1>. DEFINE b == ni[1]
            d == Facing(ni)
            n == BlockAt(Next6(b, d))
            o == OppositeDirection("HLattice", d)
<1>1. connectedInterface[ni] = Wanted(b, d)
  BY DEF TurnInv, LinksAgree
<1>2. b \in Catom /\ d \in Hex /\ o \in Hex /\ o = (d + 3) % 6
  <2>1. b \in Catom /\ ni[2] \in 0..5 /\ angle[b] \in Int
    BY DEF NI, Hex, Direction, TurnInv, TypeOK
  <2>2. (ni[2] + (angle[b] \div 60)) % 6 \in 0..5
    BY <2>1
  <2>3. d \in Hex
    BY <2>2 DEF Facing, Hex, Direction
  <2>. QED BY <2>1, <2>3, OppositeIsAnInvolution DEF OppositeDirection, Hex, Kind
<1>3. CASE ~Standing(b) \/ n = NULL
  BY <1>1, <1>3 DEF Wanted
<1>4. CASE Standing(b) /\ n # NULL
  <2>1. Next6(b, d) \in Position
    BY <1>2, Standers, NeighborsAreMutual DEF Next6, Hex, Kind
  <2>2. n \in Catom /\ Standing(n) /\ Whole(angle[n])
    BY <1>4, <2>1, Standers
  <2>. HIDE DEF n, b, d, o
  <2>. DEFINE peer == <<n, InterfaceIndex(angle[n], o)>>
  <2>3. peer \in NI /\ peer[1] = n /\ Facing(peer) = o
    BY <1>2, <2>2, IndexOfSide DEF Facing, NI
  <2>4. ASSUME NEW other \in NI, other[1] = n, Facing(other) = o
        PROVE  other = peer
    <3>1. other = <<n, other[2]>> /\ other[2] \in Hex
      BY <2>4 DEF NI
    <3>2. InterfaceIndex(angle[n], (other[2] + (angle[n] \div 60)) % 6) = other[2]
      BY <2>2, <3>1, SideOfIndex
    <3>. QED BY <2>4, <3>1, <3>2 DEF Facing
  <2>5. peer = CHOOSE other \in NI : other[1] = n /\ Facing(other) = o
    BY <2>3, <2>4
  <2>6. connectedInterface[ni] = peer
    BY <1>1, <1>4 DEF Wanted, n, o
  <2>. QED BY <1>2, <1>4, <2>5, <2>6 DEF n, b, d
<1>. QED BY <1>3, <1>4

-----------------------------------------------------------------------------
turnVars == <<grid, position, angle, connectedInterface, motion, contact>>

(* What depends on the cells, the angles and the links alone.              *)
LEMMA SameLinks ==
  ASSUME LinksAgree, UNCHANGED <<grid, position, angle, connectedInterface>>
  PROVE  LinksAgree'
  BY DEF LinksAgree, Wanted, Facing, Standing, BlockAt, Next6, InterfaceIndex

(* The menu, the clicks and a crash are no part of it.                     *)
LEMMA SameTurns ==
  ASSUME TurnInv, UNCHANGED turnVars
  PROVE  TurnInv'
<1>1. LinksAgree'
  BY SameLinks DEF TurnInv, turnVars
<1>2. TypeOK' /\ CellsAgree'
  BY DEF TurnInv, turnVars, TypeOK, CellsAgree, InLattice
<1>3. PhasesAgree' /\ AnglesAreWhole'
  BY DEF TurnInv, turnVars, PhasesAgree, AnglesAreWhole, Base, Landing
<1>4. PivotsStand'
  BY DEF TurnInv, turnVars, PivotsStand, OnPivot, Base, InLattice, Next6
<1>. QED BY <1>1, <1>2, <1>3, <1>4 DEF TurnInv

(* A rotation that is asked for about a catom that is linked, to a cell    *)
(* that is there (MenuChoice and AskMove).                                 *)
LEMMA StartMoveTurns ==
  ASSUME TurnInv, NEW b \in Catom, NEW pivot \in Catom, NEW sens \in {CCW, CW}, NEW d \in Hex,
         motion[b].phase = "rest",
         Linked(GetInterface(b, d)), connectedInterface[GetInterface(b, d)][1] = pivot,
         Next6(b, Ring(d - sens)) \in PlaneCell,
         StartMove(b, pivot, sens)
  PROVE  TurnInv'
<1>1. /\ motion' = [motion EXCEPT ![b] = [phase |-> "start", pivot |-> position[pivot],
                                          sens |-> sens, left |-> FullTurn]]
      /\ contact' = [contact EXCEPT ![b] =
           <<CHOOSE ni \in NI : ni[1] = b /\ Linked(ni) /\ connectedInterface[ni][1] = pivot, pivot>>]
      /\ UNCHANGED <<grid, position, angle, connectedInterface>>
  BY DEF StartMove
<1>2. TypeOK /\ CellsAgree /\ PhasesAgree /\ AnglesAreWhole /\ LinksAgree /\ PivotsStand
  BY DEF TurnInv
<1>3. InLattice(b) /\ Standing(b) /\ position[b] \in Position /\ position[b][2] = 0
  BY Standers, PlaneCells DEF InLattice
<1>4. ASSUME NEW e \in Hex, Linked(GetInterface(b, e)), connectedInterface[GetInterface(b, e)][1] = pivot
      PROVE  Next6(b, e) = position[pivot] /\ Standing(pivot)
  <2>1. connectedInterface[GetInterface(b, e)] = Wanted(b, e)
    BY <1>3, LinkOf
  <2>2. BlockAt(Next6(b, e)) # NULL /\ BlockAt(Next6(b, e)) = pivot
    BY <1>4, <2>1 DEF Wanted, Linked
  <2>3. Next6(b, e) \in Position
    BY <1>3, NeighborsAreMutual DEF Next6, Hex, Kind
  <2>. QED BY <2>2, <2>3, Standers
<1>5. LinksAgree'
  BY <1>1, <1>2, SameLinks
<1>6. /\ motion'[b] = [phase |-> "start", pivot |-> position[pivot], sens |-> sens, left |-> FullTurn]
      /\ \A a \in Catom : a # b => motion'[a] = motion[a] /\ contact'[a] = contact[a]
  BY <1>1, <1>2 DEF TypeOK
<1>7. PICK i \in Hex : /\ contact'[b] = <<<<b, i>>, pivot>>
                       /\ Linked(<<b, i>>) /\ connectedInterface[<<b, i>>][1] = pivot
  <2>. DEFINE P(ni) == ni[1] = b /\ Linked(ni) /\ connectedInterface[ni][1] = pivot
  <2>1. GetInterface(b, d) \in NI /\ P(GetInterface(b, d))
    BY <1>3, LinkOf DEF GetInterface
  <2>2. (CHOOSE ni \in NI : P(ni)) \in NI /\ P(CHOOSE ni \in NI : P(ni))
    BY <2>1
  <2>. DEFINE ni == CHOOSE ni \in NI : P(ni)
  <2>3. contact'[b] = <<ni, pivot>>
    BY <1>1, <1>2 DEF TypeOK
  <2>. HIDE DEF ni
  <2>4. ni = <<b, ni[2]>> /\ ni[2] \in Hex
    BY <2>2 DEF NI, ni
  <2>. QED BY <2>2, <2>3, <2>4 DEF ni
<1>8. TypeOK'
  <2>1. <<<<b, i>>, pivot>> \in NI \X Catom /\ position[pivot] \in Position
    BY Standers DEF NI
  <2>2. motion'[b] \in [phase : {"rest", "start", "step", "stop"}, pivot : Position,
                        sens : {CW, 0, CCW}, left : 0..FullTurn]
    BY <1>6, <2>1 DEF FullTurn, AngularStep
  <2>3. motion' \in [Catom -> [phase : {"rest", "start", "step", "stop"}, pivot : Position,
                               sens : {CW, 0, CCW}, left : 0..FullTurn]]
    BY <1>1, <1>2, <1>6, <2>2 DEF TypeOK
  <2>4. contact' \in [Catom -> (NI \X Catom) \cup {NULL}]
    BY <1>1, <1>2, <1>6, <1>7, <2>1 DEF TypeOK
  <2>. QED BY <1>1, <1>2, <2>3, <2>4 DEF TypeOK
<1>9. \A a \in Catom : InLattice(a)' <=> InLattice(a)
  BY <1>3, <1>6 DEF InLattice
<1>10. CellsAgree'
  BY <1>1, <1>2, <1>9 DEF CellsAgree, TypeOK
<1>11. Landing(b)' \in PlaneCell
  <2>1. position[pivot] = NextCell("HLattice", position[b], d)
    BY <1>4 DEF Next6
  <2>2. Landing(b)' = LandingFrom(position[b], position[pivot], sens)
    BY <1>1, <1>6 DEF Landing, LandingFrom
  <2>. QED BY <1>3, <2>1, <2>2, Roll DEF Next6
<1>12. PhasesAgree'
  <2>1. \A a \in Catom : a # b => Landing(a)' = Landing(a)
    BY <1>1, <1>6 DEF Landing
  <2>. QED BY <1>2, <1>6, <1>11, <2>1 DEF PhasesAgree
<1>13. Base(b)' = angle[b] /\ \A a \in Catom : a # b => Base(a)' = Base(a)
  <2>1. Base(b)' = angle[b] - AngularStep * (sens * (FullTurn - FullTurn)) /\ angle[b] \in Int
    BY <1>1, <1>2, <1>6 DEF Base, TypeOK
  <2>2. sens * (FullTurn - FullTurn) = 0
    BY DEF FullTurn, AngularStep, CCW, CW
  <2>3. Base(b)' = angle[b]
    BY <2>1, <2>2 DEF AngularStep
  <2>. QED BY <1>1, <1>6, <2>3 DEF Base
<1>14. AnglesAreWhole'
  BY <1>2, <1>3, <1>13, Standers DEF AnglesAreWhole
<1>15. PivotsStand'
  <2>1. ASSUME NEW a \in Catom, a # b, motion'[a].phase # "rest", contact'[a] # NULL
        PROVE  \E j, e \in Hex, p \in Catom : OnPivot(a, j, p, e)'
    <3>1. PICK j \in Hex, e \in Hex, p \in Catom : OnPivot(a, j, p, e)
      BY <1>2, <1>6, <2>1 DEF PivotsStand
    <3>2. OnPivot(a, j, p, e)'
      BY <1>1, <1>6, <1>9, <1>13, <2>1, <3>1 DEF OnPivot, Next6
    <3>. QED BY <3>2
  <2>2. \E j, e \in Hex, p \in Catom : OnPivot(b, j, p, e)'
    <3>1. Whole(angle[b])
      BY <1>3, Standers
    <3>2. PICK e \in Hex : e = (i + (angle[b] \div 60)) % 6 /\ GetInterface(b, e) = <<b, i>>
      BY <3>1, SideOfIndex DEF GetInterface
    <3>3. Next6(b, e) = position[pivot] /\ InLattice(pivot)
      BY <1>4, <1>7, <3>2, Standers
    <3>4. OnPivot(b, i, pivot, e)'
      BY <1>1, <1>6, <1>7, <1>9, <1>13, <3>2, <3>3 DEF OnPivot, Next6
    <3>. QED BY <3>4
  <2>. QED BY <2>1, <2>2 DEF PivotsStand
<1>. QED BY <1>5, <1>8, <1>10, <1>12, <1>14, <1>15 DEF TurnInv

(* A catom that leaves its cell takes its links with it, and is no pivot   *)
(* any more (Rotation2DStartEvent, World::disconnectBlock).                *)
LEMMA RotationStartTurns ==
  ASSUME TurnInv, NEW b \in Catom, RotationStart(b)
  PROVE  TurnInv'
<1>1. /\ motion[b].phase = "start"
      /\ connectedInterface' = Disconnected(b)
      /\ grid' = [grid EXCEPT ![position[b]] = NULL]
      /\ motion' = [motion EXCEPT ![b].phase = "step"]
      /\ contact' = [a \in Catom |-> IF contact[a] # NULL /\ contact[a][2] = b THEN NULL ELSE contact[a]]
      /\ UNCHANGED <<position, angle>>
  BY DEF RotationStart
<1>2. TypeOK /\ CellsAgree /\ PhasesAgree /\ AnglesAreWhole /\ LinksAgree /\ PivotsStand
  BY DEF TurnInv
<1>3. InLattice(b) /\ position[b] \in GridCell(Grid)
  BY <1>1, Standers, PlaneCells DEF InLattice
<1>4. /\ motion'[b] = [motion[b] EXCEPT !.phase = "step"]
      /\ motion'[b].phase = "step" /\ motion'[b].sens = motion[b].sens
      /\ motion'[b].left = motion[b].left /\ motion'[b].pivot = motion[b].pivot
      /\ \A a \in Catom : a # b => motion'[a] = motion[a]
  BY <1>1, <1>2 DEF TypeOK
<1>5. /\ ~InLattice(b)' /\ \A a \in Catom : a # b => (InLattice(a)' <=> InLattice(a))
  BY <1>4 DEF InLattice
<1>6. /\ grid'[position[b]] = NULL
      /\ \A c \in GridCell(Grid) : c # position[b] => grid'[c] = grid[c]
  BY <1>1, <1>2, <1>3 DEF TypeOK
<1>7. \A a \in Catom : a # b /\ InLattice(a) => position[a] # position[b]
  BY <1>2, <1>3 DEF CellsAgree
<1>8. TypeOK'
  <2>1. grid' \in [GridCell(Grid) -> Catom \cup {NULL}]
    BY <1>1, <1>2 DEF TypeOK
  <2>2. connectedInterface' \in [NI -> NI \cup {NULL}]
    BY <1>1, <1>2 DEF TypeOK, Disconnected
  <2>3. motion' \in [Catom -> [phase : {"rest", "start", "step", "stop"}, pivot : Position,
                               sens : {CW, 0, CCW}, left : 0..FullTurn]]
    BY <1>1, <1>2 DEF TypeOK
  <2>4. contact' \in [Catom -> (NI \X Catom) \cup {NULL}]
    BY <1>1, <1>2 DEF TypeOK
  <2>. QED BY <1>1, <1>2, <2>1, <2>2, <2>3, <2>4 DEF TypeOK
<1>9. CellsAgree'
  <2>1. ASSUME NEW a \in Catom, InLattice(a)' PROVE grid'[position'[a]] = a
    <3>1. a # b /\ InLattice(a) /\ position[a] # position[b] /\ position[a] \in GridCell(Grid)
      BY <1>5, <1>7, <2>1, Standers, PlaneCells
    <3>. QED BY <1>1, <1>2, <1>6, <3>1 DEF CellsAgree
  <2>2. ASSUME NEW c \in GridCell(Grid), grid'[c] # NULL
        PROVE  motion'[grid'[c]].phase \in {"rest", "start"} /\ position'[grid'[c]] = c
    <3>1. c # position[b] /\ grid'[c] = grid[c] /\ grid[c] \in Catom
      BY <1>2, <1>6, <2>2 DEF TypeOK
    <3>2. InLattice(grid[c]) /\ position[grid[c]] = c
      BY <1>2, <2>2, <3>1 DEF CellsAgree
    <3>3. motion'[grid'[c]].phase \in {"rest", "start"}
      BY <1>4, <3>1, <3>2 DEF InLattice
    <3>. QED BY <1>1, <3>1, <3>2, <3>3
  <2>. QED BY <2>1, <2>2 DEF CellsAgree, InLattice
<1>10. PhasesAgree'
  <2>1. \A a \in Catom : Landing(a)' = Landing(a)
    BY <1>1, <1>4 DEF Landing
  <2>. QED BY <1>1, <1>2, <1>4, <2>1 DEF PhasesAgree
<1>11. \A a \in Catom : Base(a)' = Base(a)
  BY <1>1, <1>4 DEF Base
<1>12. AnglesAreWhole'
  BY <1>2, <1>11 DEF AnglesAreWhole
<1>13. LinksAgree'
  <2> SUFFICES ASSUME NEW a \in Catom, NEW i \in Hex
               PROVE  connectedInterface'[<<a, i>>] = Wanted(a, Facing(<<a, i>>))'
      BY DEF LinksAgree, NI
  <2>1. PICK d \in Hex : d = Facing(<<a, i>>) /\ d = Facing(<<a, i>>)'
    BY <1>1, <1>2, SideIsDirection DEF TypeOK, Facing
  <2>2. <<a, i>> \in NI /\ connectedInterface[<<a, i>>] = Wanted(a, d)
    BY <1>2, <2>1 DEF LinksAgree, NI
  <2>3. connectedInterface'[<<a, i>>] =
          IF a = b \/ (Wanted(a, d) # NULL /\ Wanted(a, d)[1] = b) THEN NULL ELSE Wanted(a, d)
    BY <1>1, <2>2 DEF Disconnected, Linked
  <2>4. position[a] \in GridCell(Grid)
    BY Standers, PlaneCells
  <2>5. CASE a = b
    <3>1. ~Standing(b)'
      BY <1>1, <1>6, Catoms2DAssumption DEF Standing
    <3>. QED BY <2>3, <2>5, <3>1 DEF Wanted
  <2>6. CASE a # b /\ ~Standing(a)
    <3>1. ~Standing(a)'
      BY <1>1, <1>6, <2>4, <2>6, Catoms2DAssumption DEF Standing
    <3>. QED BY <2>3, <2>6, <3>1 DEF Wanted
  <2>7. CASE a # b /\ Standing(a)
    <3>1. Standing(a)'
      <4>1. InLattice(a) /\ position[a] # position[b]
        BY <1>7, <2>7, Standers
      <4>. QED BY <1>1, <1>6, <2>4, <2>7, <4>1 DEF Standing
    <3>2. PICK c \in Position : c = Next6(a, d) /\ c = Next6(a, d)'
      BY <1>1, <2>7, WantedLink DEF Next6
    <3>3. CASE c = position[b]
      <4>1. BlockAt(c) = b
        BY <1>3, <3>3, Standers
      <4>2. BlockAt(c)' = NULL
        BY <1>6, <3>3 DEF BlockAt
      <4>3. Wanted(a, d) # NULL /\ Wanted(a, d)[1] = b
        BY <2>7, <3>2, <4>1, WantedLink, Catoms2DAssumption
      <4>4. Wanted(a, d)' = NULL
        BY <3>2, <4>2 DEF Wanted
      <4>. QED BY <2>1, <2>3, <4>3, <4>4
    <3>4. CASE c # position[b]
      <4>1. BlockAt(c)' = BlockAt(c)
        BY <1>6, <3>4, PlaneCells DEF BlockAt
      <4>2. BlockAt(c) # b
        BY <3>4, Standers, Catoms2DAssumption
      <4>3. Wanted(a, d) = NULL \/ Wanted(a, d)[1] # b
        BY <2>7, <3>2, <4>2, WantedLink
      <4>4. Wanted(a, d)' = Wanted(a, d)
        BY <1>1, <2>7, <3>1, <3>2, <4>1 DEF Wanted
      <4>. QED BY <2>1, <2>3, <2>7, <4>3, <4>4
    <3>. QED BY <3>3, <3>4
  <2>. QED BY <2>5, <2>6, <2>7
<1>14. PivotsStand'
  <2> SUFFICES ASSUME NEW a \in Catom, motion'[a].phase # "rest", contact'[a] # NULL
               PROVE  \E i, d \in Hex, p \in Catom : OnPivot(a, i, p, d)'
      BY DEF PivotsStand
  <2>1. motion[a].phase # "rest" /\ contact[a] # NULL /\ contact'[a] = contact[a] /\ contact[a][2] # b
    BY <1>1, <1>4
  <2>2. PICK i \in Hex, d \in Hex, p \in Catom : OnPivot(a, i, p, d)
    BY <1>2, <2>1 DEF PivotsStand
  <2>3. contact[a][2] = p
    BY <2>2 DEF OnPivot
  <2>4. p # b /\ InLattice(p)
    BY <2>1, <2>2, <2>3 DEF OnPivot
  <2>5. InLattice(p)'
    BY <1>5, <2>4
  <2>6. motion'[a].pivot = motion[a].pivot
    BY <1>4
  <2>7. OnPivot(a, i, p, d)'
    BY <1>1, <1>11, <2>1, <2>2, <2>5, <2>6 DEF OnPivot, Next6
  <2>. QED BY <2>7
<1>. QED BY <1>8, <1>9, <1>10, <1>12, <1>13, <1>14 DEF TurnInv

(* While it turns a catom is linked with none (Rotation2DStepEvent).       *)
LEMMA RotationStepTurns ==
  ASSUME TurnInv, NEW b \in Catom, RotationStep(b)
  PROVE  TurnInv'
<1>. DEFINE s == motion[b].sens
            l == motion[b].left
<1>1. /\ motion[b].phase = "step"
      /\ UNCHANGED <<grid, position, connectedInterface, contact>>
      /\ \/ l = 0 /\ motion' = [motion EXCEPT ![b].phase = "stop"] /\ angle' = angle
         \/ l # 0 /\ motion' = [motion EXCEPT ![b].left = @ - 1]
                  /\ angle' = [angle EXCEPT ![b] = @ + AngularStep * s]
  BY DEF RotationStep
<1>2. TypeOK /\ CellsAgree /\ PhasesAgree /\ AnglesAreWhole /\ LinksAgree /\ PivotsStand
  BY DEF TurnInv
<1>3. ~InLattice(b) /\ ~Standing(b)
  BY <1>1, Standers DEF InLattice
<1>4. s \in {CCW, CW} /\ l \in 0..5 /\ angle[b] \in Int
  BY <1>1, <1>2 DEF PhasesAgree, TypeOK, FullTurn, AngularStep
<1>5. /\ motion'[b].phase \in {"step", "stop"} /\ motion'[b].sens = s /\ motion'[b].pivot = motion[b].pivot
      /\ motion'[b].phase = "stop" => motion'[b].left = 0
      /\ \A a \in Catom : a # b => motion'[a] = motion[a] /\ angle'[a] = angle[a]
  BY <1>1, <1>2 DEF TypeOK
<1>6. TypeOK'
  <2>1. motion' \in [Catom -> [phase : {"rest", "start", "step", "stop"}, pivot : Position,
                               sens : {CW, 0, CCW}, left : 0..FullTurn]]
    <3>1. CASE l = 0 /\ motion' = [motion EXCEPT ![b].phase = "stop"]
      BY <1>2, <3>1 DEF TypeOK
    <3>2. CASE l # 0 /\ motion' = [motion EXCEPT ![b].left = @ - 1]
      <4>1. l - 1 \in 0..FullTurn
        BY <1>4, <3>2 DEF FullTurn, AngularStep
      <4>2. motion[b] \in [phase : {"rest", "start", "step", "stop"}, pivot : Position,
                           sens : {CW, 0, CCW}, left : 0..FullTurn]
        BY <1>2 DEF TypeOK
      <4>3. [motion[b] EXCEPT !.left = l - 1] \in [phase : {"rest", "start", "step", "stop"}, pivot : Position,
                                                   sens : {CW, 0, CCW}, left : 0..FullTurn]
        BY <4>1, <4>2
      <4>. QED BY <1>2, <3>2, <4>3 DEF TypeOK
    <3>. QED BY <1>1, <3>1, <3>2
  <2>2. angle' \in [Catom -> Int]
    <3>1. angle[b] + AngularStep * s \in Int
      BY <1>4 DEF AngularStep, CCW, CW
    <3>. QED BY <1>1, <1>2, <3>1 DEF TypeOK
  <2>. QED BY <1>1, <1>2, <2>1, <2>2 DEF TypeOK
<1>7. \A a \in Catom : InLattice(a)' <=> InLattice(a)
  BY <1>3, <1>5 DEF InLattice
<1>8. CellsAgree'
  BY <1>1, <1>2, <1>7 DEF CellsAgree, TypeOK
<1>9. PhasesAgree'
  <2>1. \A a \in Catom : Landing(a)' = Landing(a)
    BY <1>1, <1>5 DEF Landing
  <2>. QED BY <1>1, <1>2, <1>5, <2>1 DEF PhasesAgree
<1>10. \A a \in Catom : Base(a)' = Base(a)
  <2>1. CASE l = 0 /\ motion' = [motion EXCEPT ![b].phase = "stop"] /\ angle' = angle
    BY <1>2, <2>1 DEF Base, TypeOK
  <2>2. CASE /\ l # 0 /\ motion' = [motion EXCEPT ![b].left = @ - 1]
             /\ angle' = [angle EXCEPT ![b] = @ + AngularStep * s]
    <3>1. angle'[b] = angle[b] + 12 * s /\ motion'[b].left = l - 1 /\ motion'[b].sens = s
      BY <1>2, <2>2 DEF TypeOK, AngularStep
    <3>2. (angle[b] + 12 * s) - 12 * (s * (5 - (l - 1))) = angle[b] - 12 * (s * (5 - l))
      <4>1. CASE s = 1
        BY <1>4, <4>1
      <4>2. CASE s = -1
        BY <1>4, <4>2
      <4>. QED BY <1>4, <4>1, <4>2 DEF CCW, CW
    <3>3. FullTurn = 5
      BY DEF FullTurn, AngularStep
    <3>4. Base(b)' = Base(b)
      BY <3>1, <3>2, <3>3 DEF Base, AngularStep
    <3>. QED BY <1>5, <3>4 DEF Base
  <2>. QED BY <1>1, <2>1, <2>2
<1>11. AnglesAreWhole'
  BY <1>2, <1>10 DEF AnglesAreWhole
<1>12. LinksAgree'
  <2> SUFFICES ASSUME NEW a \in Catom, NEW i \in Hex
               PROVE  connectedInterface[<<a, i>>] = Wanted(a, Facing(<<a, i>>))'
      BY <1>1 DEF LinksAgree, NI
  <2>1. <<a, i>> \in NI /\ connectedInterface[<<a, i>>] = Wanted(a, Facing(<<a, i>>))
    BY <1>2 DEF LinksAgree, NI
  <2>2. Standing(a)' <=> Standing(a)
    BY <1>1 DEF Standing
  <2>3. CASE ~Standing(a)
    BY <2>1, <2>2, <2>3 DEF Wanted
  <2>4. CASE Standing(a)
    <3>1. PICK d \in Hex : d = Facing(<<a, i>>) /\ d = Facing(<<a, i>>)'
      BY <1>2, <1>3, <1>5, <2>4, SideIsDirection DEF TypeOK, Facing
    <3>2. PICK c \in Position : c = Next6(a, d) /\ c = Next6(a, d)'
      BY <1>1, <2>4, WantedLink DEF Next6
    <3>3. BlockAt(c)' = BlockAt(c)
      BY <1>1 DEF BlockAt
    <3>4. BlockAt(c) # NULL => angle'[BlockAt(c)] = angle[BlockAt(c)]
      BY <1>3, <1>5, Standers
    <3>5. Wanted(a, d)' = Wanted(a, d)
      BY <2>2, <3>2, <3>3, <3>4 DEF Wanted
    <3>. QED BY <2>1, <3>1, <3>5
  <2>. QED BY <2>3, <2>4
<1>13. PivotsStand'
  <2> SUFFICES ASSUME NEW a \in Catom, motion'[a].phase # "rest", contact'[a] # NULL
               PROVE  \E i, d \in Hex, p \in Catom : OnPivot(a, i, p, d)'
      BY DEF PivotsStand
  <2>1. motion[a].phase # "rest" /\ contact[a] # NULL /\ motion'[a].pivot = motion[a].pivot
    BY <1>1, <1>5
  <2>2. PICK i \in Hex, d \in Hex, p \in Catom : OnPivot(a, i, p, d)
    BY <1>2, <2>1 DEF PivotsStand
  <2>3. OnPivot(a, i, p, d)'
    BY <1>1, <1>7, <1>10, <2>1, <2>2 DEF OnPivot, Next6
  <2>. QED BY <2>3
<1>. QED BY <1>6, <1>8, <1>9, <1>11, <1>12, <1>13 DEF TurnInv

-----------------------------------------------------------------------------
(* The links that a catom makes where it lands, on its own sides and on    *)
(* those of the catoms around (World::linkBlock, linkNeighbors).           *)
LEMMA LinksMade ==
  ASSUME TurnInv, NEW b \in Catom, ~Standing(b), Whole(angle[b]), NEW cell \in Position
  PROVE  LET Peer(d) == BlockAt(NextCell("HLattice", cell, d))
             o(d) == OppositeDirection("HLattice", d)
         IN  /\ \A d \in Hex : LinksOf(b, cell)[<<b, InterfaceIndex(angle[b], d)>>] =
                  IF Peer(d) = NULL THEN NULL ELSE <<Peer(d), InterfaceIndex(angle[Peer(d)], o(d))>>
             /\ \A a \in Catom, d \in Hex : (a # b /\ Standing(a)) =>
                  LinksOf(b, cell)[<<a, InterfaceIndex(angle[a], d)>>] =
                    IF Peer(o(d)) = a THEN <<b, InterfaceIndex(angle[b], o(d))>>
                    ELSE connectedInterface[<<a, InterfaceIndex(angle[a], d)>>]
             /\ \A ni \in NI : (ni[1] # b /\ ~Standing(ni[1])) => LinksOf(b, cell)[ni] = connectedInterface[ni]
<1>. DEFINE Peer(d) == BlockAt(NextCell("HLattice", cell, d))
            o(d) == OppositeDirection("HLattice", d)
            Own(d) == <<b, InterfaceIndex(angle[b], d)>>
            Other(d) == <<Peer(d), InterfaceIndex(angle[Peer(d)], o(d))>>
            Met == {d \in Hex : Peer(d) # NULL}
<1>1. \A ni \in NI : LinksOf(b, cell)[ni] =
         IF \E d \in Met : ni = Own(d) THEN Other(CHOOSE d \in Met : ni = Own(d))
         ELSE IF \E d \in Met : ni = Other(d) THEN Own(CHOOSE d \in Met : ni = Other(d))
         ELSE connectedInterface[ni]
  BY DEF LinksOf
<1>2. \A d \in Hex : o(d) \in Hex /\ o(o(d)) = d
  BY OppositeIsAnInvolution DEF Hex, Kind
<1>3. \A d \in Hex : NextCell("HLattice", cell, d) \in Position
  BY NeighborsAreMutual DEF Hex, Kind
<1>4. \A d \in Hex : Peer(d) # NULL => /\ Peer(d) \in Catom /\ Standing(Peer(d)) /\ Whole(angle[Peer(d)])
                                       /\ position[Peer(d)] = NextCell("HLattice", cell, d)
  BY <1>3, Standers
<1>5. \A d \in Hex : Own(d) \in NI /\ InterfaceIndex(angle[b], d) \in Hex
  BY IndexOfSide DEF NI
<1>6. \A d, e \in Hex : Own(d) = Own(e) => d = e
  BY IndexOfSide
<1>7. \A d \in Met : Other(d)[1] = Peer(d) /\ Peer(d) # b
  BY <1>4
<1>8. \A d, e \in Hex : NextCell("HLattice", cell, d) = NextCell("HLattice", cell, e) => d = e
  BY HexCellsDiffer
<1>9. \A d, e \in Met : Other(d) = Other(e) => d = e
  <2> SUFFICES ASSUME NEW d \in Met, NEW e \in Met, Other(d) = Other(e) PROVE d = e
    OBVIOUS
  <2>1. Peer(d) = Peer(e)
    OBVIOUS
  <2>. QED BY <1>4, <1>8, <2>1
<1>. HIDE DEF Peer, o
<1>10. ASSUME NEW d \in Hex
       PROVE  LinksOf(b, cell)[Own(d)] = IF Peer(d) = NULL THEN NULL ELSE Other(d)
  <2>1. CASE Peer(d) # NULL
    <3>1. d \in Met /\ \A e \in Met : Own(d) = Own(e) => e = d
      BY <1>6, <2>1
    <3>2. (CHOOSE e \in Met : Own(d) = Own(e)) = d
      BY <3>1
    <3>. QED BY <1>1, <1>5, <2>1, <3>1, <3>2
  <2>2. CASE Peer(d) = NULL
    <3>1. ~\E e \in Met : Own(d) = Own(e)
      BY <1>6, <2>2
    <3>2. ~\E e \in Met : Own(d) = Other(e)
      BY <1>7
    <3>3. connectedInterface[Own(d)] = NULL
      BY <1>5 DEF TurnInv, LinksAgree, Wanted
    <3>. QED BY <1>1, <1>5, <2>2, <3>1, <3>2, <3>3
  <2>. QED BY <2>1, <2>2
<1>11. ASSUME NEW a \in Catom, NEW d \in Hex, a # b, Standing(a)
       PROVE  LinksOf(b, cell)[<<a, InterfaceIndex(angle[a], d)>>] =
                IF Peer(o(d)) = a THEN Own(o(d)) ELSE connectedInterface[<<a, InterfaceIndex(angle[a], d)>>]
  <2>. DEFINE ni == <<a, InterfaceIndex(angle[a], d)>>
  <2>1. Whole(angle[a]) /\ InterfaceIndex(angle[a], d) \in Hex /\ ni \in NI
    BY <1>11, Standers, IndexOfSide DEF NI
  <2>2. ~\E e \in Met : ni = Own(e)
    BY <1>11
  <2>3. CASE Peer(o(d)) = a
    <3>1. o(d) \in Met /\ Other(o(d)) = ni
      BY <1>2, <2>3, Catoms2DAssumption
    <3>2. (CHOOSE e \in Met : ni = Other(e)) = o(d)
      BY <1>9, <3>1
    <3>. QED BY <1>1, <2>1, <2>2, <2>3, <3>1, <3>2
  <2>4. CASE Peer(o(d)) # a
    <3>1. ASSUME NEW e \in Met, ni = Other(e) PROVE FALSE
      <4>1. Peer(e) = a /\ InterfaceIndex(angle[a], d) = InterfaceIndex(angle[a], o(e))
        BY <3>1
      <4>2. d = o(e)
        BY <1>2, <2>1, <4>1, IndexOfSide
      <4>. QED BY <1>2, <2>4, <4>1, <4>2
    <3>. QED BY <1>1, <2>1, <2>2, <2>4, <3>1
  <2>. QED BY <2>3, <2>4
<1>12. ASSUME NEW ni \in NI, ni[1] # b, ~Standing(ni[1])
       PROVE  LinksOf(b, cell)[ni] = connectedInterface[ni]
  <2>1. ~\E e \in Met : ni = Own(e)
    BY <1>12
  <2>2. ~\E e \in Met : ni = Other(e)
    BY <1>4, <1>12
  <2>. QED BY <1>1, <2>1, <2>2
<1>. QED BY <1>10, <1>11, <1>12 DEF Peer, o

(* They are links between interfaces.                                      *)
LEMMA LinksType ==
  ASSUME TurnInv, NEW b \in Catom, ~Standing(b), Whole(angle[b]), NEW cell \in Position
  PROVE  LinksOf(b, cell) \in [NI -> NI \cup {NULL}]
<1>. DEFINE Peer(d) == BlockAt(NextCell("HLattice", cell, d))
            Own(d) == <<b, InterfaceIndex(angle[b], d)>>
            Other(d) == <<Peer(d), InterfaceIndex(angle[Peer(d)], OppositeDirection("HLattice", d))>>
            Met == {d \in Hex : Peer(d) # NULL}
<1>1. \A d \in Met : Own(d) \in NI /\ Other(d) \in NI
  <2> SUFFICES ASSUME NEW d \in Met PROVE Own(d) \in NI /\ Other(d) \in NI
      OBVIOUS
  <2>1. NextCell("HLattice", cell, d) \in Position /\ OppositeDirection("HLattice", d) \in Hex
    BY NeighborsAreMutual, OppositeIsAnInvolution DEF Hex, Kind
  <2>2. Peer(d) \in Catom /\ Whole(angle[Peer(d)])
    BY <2>1, Standers
  <2>. QED BY <2>1, <2>2, IndexOfSide DEF NI
<1>2. LinksOf(b, cell) =
       [ni \in NI |->
         IF \E d \in Met : ni = Own(d) THEN Other(CHOOSE d \in Met : ni = Own(d))
         ELSE IF \E d \in Met : ni = Other(d) THEN Own(CHOOSE d \in Met : ni = Other(d))
         ELSE connectedInterface[ni]]
  BY DEF LinksOf
<1>3. connectedInterface \in [NI -> NI \cup {NULL}]
  BY DEF TurnInv, TypeOK
<1>. HIDE DEF Own, Other, Met
<1>. QED BY <1>1, <1>2, <1>3

(* A catom that lands takes a free cell of the grid, a whole number of     *)
(* sixths further, and is linked there (Rotation2DStopEvent).              *)
LEMMA RotationStopTurns ==
  ASSUME TurnInv, NEW b \in Catom, RotationStop(b)
  PROVE  /\ TurnInv'
         /\ motion'[b].phase = "rest" /\ contact[b] # NULL =>
              \E d \in Hex : connectedInterface'[contact[b][1]] = <<contact[b][2], d>>
<1>1. motion[b].phase = "stop" /\ TypeOK /\ CellsAgree /\ PhasesAgree /\ AnglesAreWhole /\ LinksAgree /\ PivotsStand
  BY DEF RotationStop, TurnInv
<1>2. CASE UNCHANGED turnVars
  BY <1>1, <1>2, SameTurns DEF turnVars
<1>3. CASE ~UNCHANGED turnVars
  <2>. DEFINE s == motion[b].sens
  <2>1. PICK cell \in PlaneCell : cell = Landing(b)
    BY <1>1 DEF PhasesAgree
  <2>2. /\ grid[cell] = NULL /\ ~OutOfRange(angle[b])
        /\ position' = [position EXCEPT ![b] = cell]
        /\ grid' = [grid EXCEPT ![cell] = b]
        /\ connectedInterface' = LinksOf(b, cell)
        /\ motion' = [motion EXCEPT ![b] = AtRest]
        /\ contact' = [contact EXCEPT ![b] = NULL]
        /\ angle' = angle
    BY <1>3, <2>1 DEF RotationStop, Fail, turnVars
  <2>3. /\ ~InLattice(b) /\ ~Standing(b)
        /\ cell \in PlaneCell /\ cell \in Position /\ cell \in GridCell(Grid) /\ IsInGrid(Grid, cell)
        /\ s \in {CCW, CW} /\ motion[b].left = 0 /\ angle[b] \in Int
    BY <1>1, Standers, PlaneCells DEF InLattice, PhasesAgree, TypeOK
  <2>4. Whole(angle[b]) /\ Whole(Base(b)) /\ angle[b] \div 60 = (Base(b) \div 60) + s
    <3>1. Base(b) = angle[b] - 60 * s
      BY <2>3 DEF Base, FullTurn, AngularStep, CCW, CW
    <3>2. Base(b) \in Int /\ Base(b) % 60 = 0 /\ Whole(Base(b))
      BY <1>1 DEF AnglesAreWhole, Whole
    <3>3. angle[b] % 60 = 0 /\ angle[b] \div 60 = (Base(b) \div 60) + s
      <4>1. s = 1 \/ s = -1
        BY <2>3 DEF CCW, CW
      <4>2. angle[b] = Base(b) + 60 * s
        BY <2>3, <3>1, <3>2, <4>1
      <4>. HIDE DEF s
      <4>. QED BY <3>2, <4>1, <4>2
    <3>. QED BY <2>2, <2>3, <3>2, <3>3, InRangeIsWhole
  <2>5. /\ position'[b] = cell /\ \A a \in Catom : a # b => position'[a] = position[a]
        /\ grid'[cell] = b /\ \A c \in GridCell(Grid) : c # cell => grid'[c] = grid[c]
        /\ motion'[b] = AtRest /\ \A a \in Catom : a # b => motion'[a] = motion[a]
        /\ \A a \in Catom : a # b => contact'[a] = contact[a]
        /\ contact'[b] = NULL
    BY <1>1, <2>2, <2>3 DEF TypeOK
  <2>6. InLattice(b)' /\ \A a \in Catom : a # b => (InLattice(a)' <=> InLattice(a))
    BY <2>5 DEF InLattice, AtRest
  <2>7. \A a \in Catom : a # b /\ InLattice(a) => position[a] # cell
    BY <1>1, <2>2, Catoms2DAssumption DEF CellsAgree
  <2>8. TypeOK'
    <3>1. position' \in [Catom -> PlaneCell] /\ grid' \in [GridCell(Grid) -> Catom \cup {NULL}]
      BY <1>1, <2>2, <2>3 DEF TypeOK
    <3>2. motion' \in [Catom -> [phase : {"rest", "start", "step", "stop"}, pivot : Position,
                                 sens : {CW, 0, CCW}, left : 0..FullTurn]]
      <4>1. AtRest \in [phase : {"rest", "start", "step", "stop"}, pivot : Position,
                        sens : {CW, 0, CCW}, left : 0..FullTurn]
        BY DEF AtRest, Position, FullTurn, AngularStep
      <4>. QED BY <1>1, <2>2, <4>1 DEF TypeOK
    <3>3. contact' \in [Catom -> (NI \X Catom) \cup {NULL}]
      BY <1>1, <2>2 DEF TypeOK
    <3>4. connectedInterface' \in [NI -> NI \cup {NULL}]
      BY <1>1, <2>2, <2>3, <2>4, LinksType
    <3>. QED BY <1>1, <2>2, <3>1, <3>2, <3>3, <3>4 DEF TypeOK
  <2>9. CellsAgree'
    <3>1. ASSUME NEW a \in Catom, InLattice(a)' PROVE grid'[position'[a]] = a
      <4>1. CASE a = b
        BY <2>5, <4>1
      <4>2. CASE a # b
        <5>1. InLattice(a) /\ position[a] # cell /\ position[a] \in GridCell(Grid)
          BY <2>6, <2>7, <3>1, <4>2, Standers, PlaneCells
        <5>. QED BY <1>1, <2>5, <4>2, <5>1 DEF CellsAgree
      <4>. QED BY <4>1, <4>2
    <3>2. ASSUME NEW c \in GridCell(Grid), grid'[c] # NULL
          PROVE  motion'[grid'[c]].phase \in {"rest", "start"} /\ position'[grid'[c]] = c
      <4>1. CASE c = cell
        BY <2>5, <4>1 DEF AtRest
      <4>2. CASE c # cell
        <5>1. grid'[c] = grid[c] /\ grid[c] \in Catom /\ InLattice(grid[c]) /\ position[grid[c]] = c
          BY <1>1, <2>5, <3>2, <4>2 DEF CellsAgree, TypeOK
        <5>2. grid[c] # b
          BY <2>3, <5>1
        <5>. QED BY <2>5, <5>1, <5>2 DEF InLattice
      <4>. QED BY <4>1, <4>2
    <3>. QED BY <3>1, <3>2 DEF CellsAgree, InLattice
  <2>10. PhasesAgree'
    <3>1. \A a \in Catom : a # b => Landing(a)' = Landing(a)
      BY <2>5 DEF Landing
    <3>. QED BY <1>1, <2>5, <3>1 DEF PhasesAgree, AtRest
  <2>11. Base(b)' = angle[b] /\ \A a \in Catom : a # b => Base(a)' = Base(a)
    <3>1. motion'[b].sens = 0 /\ motion'[b].left = 0
      BY <2>5 DEF AtRest
    <3>2. Base(b)' = angle[b]
      BY <2>2, <2>3, <3>1 DEF Base, FullTurn, AngularStep
    <3>. QED BY <2>2, <2>5, <3>2 DEF Base
  <2>12. AnglesAreWhole'
    BY <1>1, <2>4, <2>11 DEF AnglesAreWhole
  <2>13. /\ Standing(b)' /\ \A a \in Catom : a # b => (Standing(a)' <=> Standing(a))
    <3>1. \A a \in Catom : a # b => position[a] \in GridCell(Grid)
      BY Standers, PlaneCells
    <3>2. ASSUME NEW a \in Catom, a # b, position[a] = cell PROVE ~Standing(a) /\ ~Standing(a)'
      BY <2>2, <2>5, <3>2, Catoms2DAssumption DEF Standing
    <3>. QED BY <2>5, <3>1, <3>2 DEF Standing
  <2>14. /\ BlockAt(cell)' = b
         /\ \A c \in Position : c # cell => BlockAt(c)' = BlockAt(c)
    BY <2>3, <2>5, PlaneCells DEF BlockAt
  <2>15. \A d \in Hex : /\ NextCell("HLattice", cell, d) \in Position /\ NextCell("HLattice", cell, d) # cell
                        /\ NextCell("HLattice", NextCell("HLattice", cell, d), OppositeDirection("HLattice", d)) = cell
                        /\ OppositeDirection("HLattice", d) \in Hex
                        /\ OppositeDirection("HLattice", OppositeDirection("HLattice", d)) = d
    BY <2>3, NeighborsAreMutual, OppositeIsAnInvolution DEF Hex, Kind
  <2>16. LinksAgree'
    <3> SUFFICES ASSUME NEW a \in Catom, NEW i \in Hex
                 PROVE  connectedInterface'[<<a, i>>] = Wanted(a, Facing(<<a, i>>))'
        BY DEF LinksAgree, NI
    <3>1. PICK d \in Hex : d = Facing(<<a, i>>) /\ d = Facing(<<a, i>>)'
      BY <1>1, <2>2, SideIsDirection DEF TypeOK, Facing
    <3>2. <<a, i>> \in NI /\ connectedInterface[<<a, i>>] = Wanted(a, d)
      BY <1>1, <3>1 DEF LinksAgree, NI
    <3>3. CASE a = b
      <4>1. InterfaceIndex(angle[b], d) = i
        BY <2>4, <3>1, <3>3, SideOfIndex DEF Facing
      <4>. DEFINE c == NextCell("HLattice", cell, d)
      <4>2. Next6(b, d)' = c /\ c \in Position /\ BlockAt(c)' = BlockAt(c)
        BY <2>5, <2>14, <2>15 DEF Next6
      <4>3. connectedInterface'[<<b, i>>] =
              IF BlockAt(c) = NULL THEN NULL
              ELSE <<BlockAt(c), InterfaceIndex(angle[BlockAt(c)], OppositeDirection("HLattice", d))>>
        BY <2>2, <2>3, <2>4, <4>1, LinksMade
      <4>. HIDE DEF c
      <4>4. Wanted(b, d)' =
              IF BlockAt(c) = NULL THEN NULL
              ELSE <<BlockAt(c), InterfaceIndex(angle[BlockAt(c)], OppositeDirection("HLattice", d))>>
        BY <2>2, <2>13, <4>2 DEF Wanted
      <4>. QED BY <3>1, <3>3, <4>3, <4>4
    <3>4. CASE a # b /\ ~Standing(a)
      <4>1. connectedInterface'[<<a, i>>] = NULL
        BY <2>2, <2>3, <2>4, <3>2, <3>4, LinksMade DEF Wanted
      <4>2. Wanted(a, d)' = NULL
        BY <2>13, <3>4 DEF Wanted
      <4>. QED BY <3>1, <4>1, <4>2
    <3>5. CASE a # b /\ Standing(a)
      <4>1. Whole(angle[a]) /\ position[a] \in Position
        BY <3>5, Standers
      <4>2. InterfaceIndex(angle[a], d) = i
        BY <3>1, <4>1, SideOfIndex DEF Facing
      <4>. DEFINE o == OppositeDirection("HLattice", d)
                  peer == BlockAt(NextCell("HLattice", cell, o))
      <4>3. connectedInterface'[<<a, i>>] = IF peer = a THEN <<b, InterfaceIndex(angle[b], o)>>
                                            ELSE connectedInterface[<<a, i>>]
        BY <2>2, <2>3, <2>4, <3>5, <4>2, LinksMade
      <4>4. PICK c \in Position : c = Next6(a, d) /\ c = Next6(a, d)'
        BY <2>5, <3>5, WantedLink DEF Next6
      <4>5. peer = a <=> c = cell
        <5>1. ASSUME peer = a PROVE c = cell
          <6>1. position[a] = NextCell("HLattice", cell, o)
            BY <2>15, <5>1, Standers, Catoms2DAssumption
          <6>. QED BY <2>15, <4>4, <6>1 DEF Next6
        <5>2. ASSUME c = cell PROVE peer = a
          <6>1. NextCell("HLattice", cell, o) = position[a]
            BY <4>1, <4>4, <5>2, NeighborsAreMutual DEF Next6, Hex, Kind
          <6>. QED BY <3>5, <6>1, Standers
        <5>. QED BY <5>1, <5>2
      <4>6. CASE c = cell
        <5>1. Wanted(a, d)' = <<b, InterfaceIndex(angle[b], o)>>
          BY <2>2, <2>13, <2>14, <3>5, <4>4, <4>6, Catoms2DAssumption DEF Wanted
        <5>. QED BY <3>1, <4>3, <4>5, <4>6, <5>1
      <4>7. CASE c # cell
        <5>1. BlockAt(c)' = BlockAt(c)
          BY <2>14, <4>7
        <5>2. Wanted(a, d)' = Wanted(a, d)
          BY <2>2, <2>13, <3>5, <4>4, <5>1 DEF Wanted
        <5>. QED BY <3>1, <3>2, <4>3, <4>5, <4>7, <5>2
      <4>. QED BY <4>6, <4>7
    <3>. QED BY <3>3, <3>4, <3>5
  <2>17. PivotsStand'
    <3> SUFFICES ASSUME NEW a \in Catom, motion'[a].phase # "rest", contact'[a] # NULL
                 PROVE  \E i, d \in Hex, p \in Catom : OnPivot(a, i, p, d)'
        BY DEF PivotsStand
    <3>1. a # b
      BY <2>5
    <3>2. PICK i \in Hex, d \in Hex, p \in Catom : OnPivot(a, i, p, d)
      BY <1>1, <2>5, <3>1 DEF PivotsStand
    <3>3. p # b /\ InLattice(p)
      BY <2>3, <3>2 DEF OnPivot
    <3>4. InLattice(p)' /\ position'[p] = position[p] /\ position'[a] = position[a]
      BY <2>5, <2>6, <3>1, <3>3
    <3>5. OnPivot(a, i, p, d)'
      BY <2>5, <2>11, <3>1, <3>2, <3>4 DEF OnPivot, Next6
    <3>. QED BY <3>5
  <2>18. TurnInv'
    BY <2>8, <2>9, <2>10, <2>12, <2>16, <2>17 DEF TurnInv
  <2>19. ASSUME contact[b] # NULL
         PROVE  \E d \in Hex : connectedInterface'[contact[b][1]] = <<contact[b][2], d>>
    <3>1. PICK i \in Hex, d \in Hex, p \in Catom : OnPivot(b, i, p, d)
      BY <1>1, <2>19 DEF PivotsStand
    <3>2. contact[b] = <<<<b, i>>, p>> /\ InLattice(p) /\ position[p] = motion[b].pivot /\ position[p] = Next6(b, d)
          /\ (i + (Base(b) \div 60)) % 6 = d
      BY <3>1 DEF OnPivot
    <3>3. position[b] \in Position /\ position[b][2] = 0 /\ Standing(p) /\ p # b /\ BlockAt(position[p]) = p
      BY <2>3, <3>2, Standers, PlaneCells
    <3>4. cell = LandingFrom(position[b], position[p], s)
      BY <2>1, <3>2 DEF Landing, LandingFrom
    <3>. DEFINE e == Ring(d + s)
    <3>5. NextCell("HLattice", cell, e) = position[p]
      BY <2>3, <3>2, <3>3, <3>4, Roll DEF Next6
    <3>6. (i + (angle[b] \div 60)) % 6 = e /\ e \in Hex
      <4>1. i \in 0..5 /\ Base(b) \div 60 \in Int /\ s \in {1, -1}
        BY <2>3, <2>4 DEF Hex, Direction, CCW, CW, Whole
      <4>2. (i + ((Base(b) \div 60) + s)) % 6 = (((i + (Base(b) \div 60)) % 6) + s + 6) % 6
        BY <4>1
      <4>3. e \in Hex
        BY <2>3, SixthsOfATurn
      <4>. QED BY <2>4, <3>2, <4>2, <4>3 DEF Ring
    <3>7. InterfaceIndex(angle[b], e) = i
      BY <2>4, <3>6, SideOfIndex
    <3>8. connectedInterface'[<<b, i>>] = <<p, InterfaceIndex(angle[p], OppositeDirection("HLattice", e))>>
      <4>1. BlockAt(NextCell("HLattice", cell, e)) = p /\ p # NULL
        BY <3>3, <3>5, Catoms2DAssumption
      <4>2. \A f \in Hex :
              LET n == BlockAt(NextCell("HLattice", cell, f))
              IN  LinksOf(b, cell)[<<b, InterfaceIndex(angle[b], f)>>] =
                    IF n = NULL THEN NULL
                    ELSE <<n, InterfaceIndex(angle[n], OppositeDirection("HLattice", f))>>
        BY <2>3, <2>4, LinksMade
      <4>. HIDE DEF e
      <4>. QED BY <2>2, <3>6, <3>7, <4>1, <4>2
    <3>9. InterfaceIndex(angle[p], OppositeDirection("HLattice", e)) \in Hex
      BY <2>15, <3>3, <3>6, Standers, IndexOfSide
    <3>. QED BY <3>2, <3>8, <3>9
  <2>. QED BY <2>18, <2>19
<1>. QED BY <1>2, <1>3

-----------------------------------------------------------------------------
(* The direction in which an interface is found (getDirection).            *)
LEMMA DirectionOf ==
  ASSUME TurnInv, NEW b \in Catom, Standing(b), NEW d \in Hex
  PROVE  GetDirection(GetInterface(b, d)) = d
<1>. DEFINE ni == GetInterface(b, d)
            dirs == <<0, 1, 2, 3, 4, 5>>
            I == {j \in 1..Len(dirs) : GetInterface(ni[1], dirs[j]) = ni}
<1>1. d \in 0..5 /\ Len(dirs) = 6 /\ \A j \in 1..6 : dirs[j] = j - 1 /\ dirs[j] \in Hex
  BY DEF Hex, Direction
<1>2. \A e \in Hex : GetInterface(b, e) = GetInterface(b, d) => e = d
  BY Standers, IndexOfSide DEF GetInterface
<1>3. I = {d + 1}
  <2>1. ni[1] = b
    BY DEF GetInterface
  <2>2. dirs[d + 1] = d /\ d + 1 \in 1..6
    BY <1>1
  <2>. HIDE DEF dirs
  <2>3. ASSUME NEW j \in 1..6, GetInterface(b, dirs[j]) = GetInterface(b, d) PROVE j = d + 1
    BY <1>1, <1>2, <2>3
  <2>. QED BY <1>1, <2>1, <2>2, <2>3
<1>4. GetDirection(ni) = (IF I # {} THEN Min(I) ELSE 0) - 1
  BY DEF GetDirection, SelectInSeq
<1>5. Min(I) = d + 1
  BY <1>1, <1>3 DEF Min
<1>. QED BY <1>1, <1>3, <1>4, <1>5

(* The pivot that the menu finds is linked, and the cell beyond it is in   *)
(* the grid (getCCWMovePivotId, getCWMovePivotId).                         *)
LEMMA PivotFound ==
  ASSUME TurnInv, NEW b \in Catom, NEW s \in {CCW, CW},
         ~OutOfRange(angle[b]), MovePivot(b, s) # NULL, motion[b].phase # "start"
  PROVE  /\ MovePivot(b, s) \in Catom /\ motion[b].phase = "rest"
         /\ \E d \in Hex : /\ Linked(GetInterface(b, d))
                           /\ connectedInterface[GetInterface(b, d)][1] = MovePivot(b, s)
                           /\ Next6(b, Ring(d - s)) \in PlaneCell
<1>1. PICK d \in PivotDirections(b, s) : MovePivot(b, s) = connectedInterface[GetInterface(b, d)][1]
  <2>. DEFINE D == PivotDirections(b, s)
  <2>1. D \subseteq 0..5 /\ D # {}
    BY DEF PivotDirections, MovePivot, Hex, Direction
  <2>2. \E d \in D : \A e \in D : d <= e
    BY <2>1
  <2>3. \E d \in D : \A e \in D : d >= e
    BY <2>1
  <2>4. CASE s = CCW
    BY <2>1, <2>2, <2>4 DEF MovePivot
  <2>5. CASE s # CCW
    BY <2>1, <2>3, <2>5 DEF MovePivot
  <2>. QED BY <2>4, <2>5
<1>2. d \in Hex /\ Linked(GetInterface(b, d)) /\ IsInGrid(Grid, Destination(b, d, s))
  BY DEF PivotDirections
<1>3. Standing(b) /\ motion[b].phase = "rest"
  <2>1. GetInterface(b, d) \in NI /\ GetInterface(b, d)[1] = b
    BY <1>2 DEF OutOfRange, GetInterface, NI
  <2>2. Standing(b)
    BY <1>2, <2>1 DEF TurnInv, LinksAgree, Wanted, Linked
  <2>. QED BY <2>2, Standers DEF InLattice
<1>. DEFINE p == BlockAt(Next6(b, d))
            o == OppositeDirection("HLattice", d)
<1>4. /\ connectedInterface[GetInterface(b, d)] = <<p, InterfaceIndex(angle[p], o)>> /\ p # NULL
      /\ Next6(b, d) \in Position
  BY <1>2, <1>3, LinkOf, WantedLink DEF Linked, Wanted
<1>5. p \in Catom /\ Standing(p) /\ position[p] = Next6(b, d) /\ o \in Hex
  BY <1>4, Standers, OppositeIsAnInvolution, <1>2 DEF Hex, Kind
<1>. HIDE DEF p, o
<1>6. Destination(b, d, s) = Next6(p, Ring(o + s))
  <2>1. connectedInterface[GetInterface(b, d)] = GetInterface(p, o)
    BY <1>4 DEF GetInterface
  <2>2. GetDirection(connectedInterface[GetInterface(b, d)]) = o
    BY <1>5, <2>1, DirectionOf
  <2>. QED BY <1>4, <2>2 DEF Destination
<1>7. Next6(p, Ring(o + s)) = Next6(b, Ring(d - s))
  BY <1>2, <1>5, Standers, Roll DEF Next6, o
<1>8. Next6(b, Ring(d - s)) \in PlaneCell
  <2>1. position[b] \in Position /\ position[b][2] = 0 /\ Ring(d - s) \in Hex
    BY <1>2, Standers, PlaneCells, SixthsOfATurn
  <2>2. Next6(b, Ring(d - s)) \in Position /\ Next6(b, Ring(d - s))[2] = 0
    BY <2>1, WorldStep DEF Next6
  <2>. QED BY <1>2, <1>6, <1>7, <2>2, PlaneCells
<1>. QED BY <1>1, <1>2, <1>3, <1>4, <1>5, <1>8

(* The cell beyond the pivot is free, and so in the grid (canMove).        *)
LEMMA MoveFound ==
  ASSUME TurnInv, NEW b \in Catom, NEW pivot \in Catom, NEW s \in {CCW, CW},
         motion[b] = AtRest, CanMove(b, pivot, s)
  PROVE  \E d \in Hex : /\ Linked(GetInterface(b, d))
                        /\ connectedInterface[GetInterface(b, d)][1] = pivot
                        /\ Next6(b, Ring(d - s)) \in PlaneCell
<1>1. PICK d \in Hex : /\ Linked(GetInterface(b, d))
                       /\ connectedInterface[GetInterface(b, d)][1] = pivot
                       /\ \A i \in 1..3 : IsFree(Next6(b, Ring(d - s * i)))
  BY DEF CanMove
<1>2. s * 1 = s
  BY DEF CCW, CW
<1>3. IsInGrid(Grid, Next6(b, Ring(d - s)))
  BY <1>1, <1>2 DEF IsFree
<1>4. position[b] \in Position /\ position[b][2] = 0 /\ Ring(d - s) \in Hex
  BY Standers, PlaneCells, SixthsOfATurn
<1>5. Next6(b, Ring(d - s)) \in Position /\ Next6(b, Ring(d - s))[2] = 0
  BY <1>4, WorldStep DEF Next6
<1>. QED BY <1>1, <1>3, <1>5, PlaneCells

-----------------------------------------------------------------------------
(* At first the catoms are in their cells, not turned, and linked.         *)
LEMMA InitTurns ==
  ASSUME Init PROVE TurnInv
<1>1. /\ position \in Starts
      /\ grid = [c \in GridCell(Grid) |-> CatomIn(position, c)]
      /\ angle = [b \in Catom |-> 0]
      /\ connectedInterface =
           [ni \in NI |->
              LET b == CatomIn(position, NextCell("HLattice", position[ni[1]], ni[2]))
              IN  IF b = NULL THEN NULL ELSE <<b, OppositeDirection("HLattice", ni[2])>>]
      /\ motion = [b \in Catom |-> AtRest]
      /\ contact = [b \in Catom |-> NULL]
  BY DEF Init
<1>2. /\ position \in [Catom -> PlaneCell]
      /\ \A a, b \in Catom : position[a] = position[b] => a = b
  BY <1>1, Catoms2DAssumption
<1>3. \A c : /\ CatomIn(position, c) # NULL => CatomIn(position, c) \in Catom /\ position[CatomIn(position, c)] = c
             /\ CatomIn(position, c) \in Catom \cup {NULL}
             /\ \A b \in Catom : position[b] = c => CatomIn(position, c) = b
  BY <1>2 DEF CatomIn
<1>4. TypeOK
  <2>1. grid \in [GridCell(Grid) -> Catom \cup {NULL}]
    BY <1>1, <1>3
  <2>2. AtRest \in [phase : {"rest", "start", "step", "stop"}, pivot : Position, sens : {CW, 0, CCW}, left : 0..FullTurn]
    BY DEF AtRest, Position, FullTurn, AngularStep
  <2>3. connectedInterface \in [NI -> NI \cup {NULL}]
    <3>1. \A ni \in NI : OppositeDirection("HLattice", ni[2]) \in Hex
      BY OppositeIsAnInvolution DEF NI, Hex, Kind
    <3>. QED BY <1>1, <1>3, <3>1 DEF NI
  <2>4. motion \in [Catom -> [phase : {"rest", "start", "step", "stop"}, pivot : Position,
                              sens : {CW, 0, CCW}, left : 0..FullTurn]]
    BY <1>1, <2>2
  <2>. QED BY <1>1, <1>2, <2>1, <2>3, <2>4 DEF TypeOK
<1>5. \A b \in Catom : position[b] \in GridCell(Grid) /\ position[b] \in Position
  BY <1>2, PlaneCells
<1>6. CellsAgree
  BY <1>1, <1>3, <1>5 DEF CellsAgree, InLattice, AtRest
<1>7. PhasesAgree
  BY <1>1 DEF PhasesAgree, AtRest
<1>8. AnglesAreWhole
  <2>1. \A b \in Catom : Base(b) = 0
    BY <1>1 DEF Base, AtRest, FullTurn, AngularStep
  <2>. QED BY <2>1 DEF AnglesAreWhole, Whole
<1>9. PivotsStand
  BY <1>1 DEF PivotsStand
<1>10. LinksAgree
  <2> SUFFICES ASSUME NEW b \in Catom, NEW i \in Hex
               PROVE  connectedInterface[<<b, i>>] = Wanted(b, Facing(<<b, i>>))
      BY DEF LinksAgree, NI
  <2>1. Whole(0) /\ 0 \div 60 = 0 /\ \A a \in Catom : angle[a] = 0
    BY <1>1 DEF Whole
  <2>2. \A d \in Hex : InterfaceIndex(0, d) = d
    <3>1. \A d \in Hex : (d + 0) % 6 = d
      BY DEF Hex, Direction
    <3>. QED BY <2>1, <3>1, SideOfIndex
  <2>3. Facing(<<b, i>>) = i
    <3>1. i \in 0..5 /\ (i + 0) % 6 = i
      BY DEF Hex, Direction
    <3>. QED BY <2>1, <3>1 DEF Facing
  <2>4. Standing(b)
    BY <1>6, <1>1 DEF Standing, CellsAgree, InLattice, AtRest
  <2>. DEFINE c == Next6(b, i)
              o == OppositeDirection("HLattice", i)
  <2>5. c \in Position /\ o \in Hex
    BY <1>5, NeighborsAreMutual, OppositeIsAnInvolution DEF Next6, Hex, Kind
  <2>6. BlockAt(c) = CatomIn(position, c)
    <3>1. CASE IsInGrid(Grid, c)
      BY <1>1, <2>5, <3>1, PlaneCells DEF BlockAt
    <3>2. CASE ~IsInGrid(Grid, c)
      <4>1. \A a \in Catom : position[a] # c
        BY <1>2, <3>2, PlaneCells
      <4>. QED BY <3>2, <4>1 DEF BlockAt, CatomIn
    <3>. QED BY <3>1, <3>2
  <2>7. connectedInterface[<<b, i>>] = IF BlockAt(c) = NULL THEN NULL ELSE <<BlockAt(c), o>>
    BY <1>1, <2>6 DEF NI, Next6
  <2>8. BlockAt(c) # NULL => InterfaceIndex(angle[BlockAt(c)], o) = o
    BY <1>3, <2>1, <2>2, <2>5, <2>6
  <2>. QED BY <2>3, <2>4, <2>7, <2>8 DEF Wanted
<1>. QED BY <1>4, <1>6, <1>7, <1>8, <1>9, <1>10 DEF TurnInv

(* The choice of the menu and the request of a block code.                 *)
LEMMA MenuChoiceTurns ==
  ASSUME TurnInv, NEW b \in Catom, NEW s \in {CCW, CW}, MenuChoice(b, s)
  PROVE  TurnInv' /\ motion[b].phase # "start" /\ (motion' = motion \/ motion'[b].phase = "start")
                  /\ \A a \in Catom : a # b => motion'[a] = motion[a]
<1>1. CASE OutOfRange(angle[b]) \/ MovePivot(b, s) = NULL
  <2>1. UNCHANGED turnVars /\ motion[b].phase # "start"
    BY <1>1 DEF MenuChoice, Fail, turnVars
  <2>. QED BY <2>1, SameTurns DEF turnVars
<1>2. CASE ~OutOfRange(angle[b]) /\ MovePivot(b, s) # NULL
  <2>1. StartMove(b, MovePivot(b, s), s) /\ motion[b].phase # "start"
    BY <1>2 DEF MenuChoice
  <2>2. MovePivot(b, s) \in Catom /\ motion[b].phase = "rest"
    BY <1>2, <2>1, PivotFound
  <2>3. PICK d \in Hex : /\ Linked(GetInterface(b, d))
                         /\ connectedInterface[GetInterface(b, d)][1] = MovePivot(b, s)
                         /\ Next6(b, Ring(d - s)) \in PlaneCell
    BY <1>2, <2>1, PivotFound
  <2>4. TurnInv'
    BY <2>1, <2>2, <2>3, StartMoveTurns
  <2>5. motion'[b].phase = "start" /\ \A a \in Catom : a # b => motion'[a] = motion[a]
    BY <2>1 DEF StartMove, TurnInv, TypeOK
  <2>. QED BY <2>1, <2>4, <2>5
<1>. QED BY <1>1, <1>2

(* A block code that asks canMove first.                                   *)
LEMMA AskMoveTurns ==
  ASSUME TurnInv, NEW b \in Catom, NEW s \in {CCW, CW}, NEW pivot \in Catom, AskMove(b, pivot, s)
  PROVE  TurnInv' /\ motion'[b].phase = "start" /\ \A a \in Catom : a # b => motion'[a] = motion[a]
<1>1. motion[b] = AtRest /\ motion[b].phase = "rest" /\ CanMove(b, pivot, s) /\ StartMove(b, pivot, s)
  BY DEF AskMove, AtRest
<1>2. PICK d \in Hex : /\ Linked(GetInterface(b, d))
                       /\ connectedInterface[GetInterface(b, d)][1] = pivot
                       /\ Next6(b, Ring(d - s)) \in PlaneCell
  BY <1>1, MoveFound
<1>3. TurnInv'
  BY <1>1, <1>2, StartMoveTurns
<1>4. motion'[b].phase = "start" /\ \A a \in Catom : a # b => motion'[a] = motion[a]
  BY <1>1 DEF StartMove, TurnInv, TypeOK
<1>. QED BY <1>3, <1>4

(* What a rotation that ends leaves (the condition of ContactIsKept).      *)
Lands(b) == motion[b].phase = "stop" /\ motion'[b].phase = "rest" /\ contact[b] # NULL

Touches(b) == \E d \in Hex : connectedInterface'[contact[b][1]] = <<contact[b][2], d>>

(* Every step keeps TurnInv, and only the end of a rotation ends one.      *)
LEMMA TurnStep ==
  ASSUME TurnInv, [Next]_vars
  PROVE  TurnInv' /\ \A b \in Catom : Lands(b) => Touches(b)
<1>1. ASSUME UNCHANGED turnVars PROVE TurnInv' /\ \A b \in Catom : ~Lands(b)
  BY <1>1, SameTurns DEF turnVars, Lands
<1>2. ASSUME NEW b \in Catom, CreatePopupMenu(b) PROVE UNCHANGED turnVars
  BY <1>2 DEF CreatePopupMenu, Fail, turnVars
<1>3. ASSUME NEW b \in Catom, RotationStart(b) PROVE TurnInv' /\ \A a \in Catom : ~Lands(a)
  <2>1. motion[b].phase = "start" /\ \A a \in Catom : a # b => motion'[a] = motion[a]
    BY <1>3 DEF RotationStart, TurnInv, TypeOK
  <2>. QED BY <1>3, <2>1, RotationStartTurns DEF Lands
<1>4. ASSUME NEW b \in Catom, RotationStep(b) PROVE TurnInv' /\ \A a \in Catom : ~Lands(a)
  <2>1. motion[b].phase = "step" /\ \A a \in Catom : a # b => motion'[a] = motion[a]
    BY <1>4 DEF RotationStep, TurnInv, TypeOK
  <2>. QED BY <1>4, <2>1, RotationStepTurns DEF Lands
<1>5. ASSUME NEW b \in Catom, RotationStop(b) PROVE TurnInv' /\ \A a \in Catom : Lands(a) => Touches(a)
  <2>1. \A a \in Catom : a # b => motion'[a] = motion[a]
    BY <1>5 DEF RotationStop, Fail, TurnInv, TypeOK
  <2>2. \A a \in Catom : a # b => ~Lands(a)
    BY <2>1 DEF Lands
  <2>3. TurnInv' /\ (Lands(b) => Touches(b))
    BY <1>5, RotationStopTurns DEF Lands, Touches
  <2>. QED BY <2>2, <2>3
<1>6. ASSUME NEW b \in Catom, NEW s \in {CCW, CW}, MenuChoice(b, s)
      PROVE  TurnInv' /\ \A a \in Catom : ~Lands(a)
  BY <1>6, MenuChoiceTurns DEF Lands
<1>7. ASSUME NEW b \in Catom, NEW s \in {CCW, CW}, NEW pivot \in Catom, AskMove(b, pivot, s)
      PROVE  TurnInv' /\ \A a \in Catom : ~Lands(a)
  BY <1>7, AskMoveTurns DEF Lands
<1>8. CASE Cancel
  BY <1>1, <1>8 DEF Cancel, turnVars
<1>9. CASE UNCHANGED vars
  BY <1>1, <1>9 DEF vars, turnVars
<1>. QED BY <1>1, <1>2, <1>3, <1>4, <1>5, <1>6, <1>7, <1>8, <1>9 DEF Next

(* Whatever is asked of the catoms and in whatever order their events are  *)
(* consumed, each is in the lattice or unlinked, and turned by a whole     *)
(* number of sixths when it is in the lattice.                             *)
THEOREM TurnInvariance == Spec => []TurnInv
<1>1. Init => TurnInv
  BY InitTurns
<1>2. TurnInv /\ [Next]_vars => TurnInv'
  BY TurnStep
<1>. QED BY <1>1, <1>2, PTL DEF Spec

(* The links of the catoms are those of the sides that touch, after any    *)
(* rotations (World::linkBlock, Catoms2DBlock::getInterface).              *)
THEOREM LinksFollowRotations == Spec => []FacesAgree
<1>1. TurnInv => FacesAgree
  BY FacesFollow
<1>. QED BY <1>1, TurnInvariance, PTL

(* A rotation about a pivot that has not moved ends beside it, with the    *)
(* interface it turned on linked to it (Rotation2DMoves, which computes    *)
(* the landing from the drawn positions; startMove).                       *)
THEOREM RotationsKeepContact == Spec => ContactIsKept
<1>1. TurnInv /\ [Next]_vars =>
        [\A b \in Catom :
           (motion[b].phase = "stop" /\ motion'[b].phase = "rest" /\ contact[b] # NULL) =>
             \E d \in Hex : connectedInterface'[contact[b][1]] = <<contact[b][2], d>>]_vars
  BY TurnStep DEF Lands, Touches
<1>. QED BY <1>1, TurnInvariance, PTL DEF Spec, ContactIsKept

-----------------------------------------------------------------------------
(* The sides of b that count as taken for isBlocked: by a catom or the     *)
(* ground.                                                                 *)
SidesTaken(b) == {d \in Hex : HasANeighbor(b, d, TRUE)}

(* On a ring of six, the longest run of a set from a place that is not in   *)
(* it is a run of the set.                                                 *)
LEMMA RunIsFound ==
  ASSUME NEW S, S \subseteq Hex, NEW f
  PROVE  /\ LongestRun(S, f) \in 0..6
         /\ \E i \in 0..(6 - LongestRun(S, f)) :
              {Ring(f + j) : j \in i..(i + LongestRun(S, f) - 1)} \subseteq S
<1>. DEFINE Run(q, i) == {Ring(f + j) : j \in i..(i + q - 1)}
            Fits(q) == \E i \in 0..(6 - q) : Run(q, i) \subseteq S
<1>1. Fits(0)
  <2>1. 0..(0 + 0 - 1) = {} /\ 0 \in 0..(6 - 0)
    OBVIOUS
  <2>. QED BY <2>1
<1>2. LongestRun(S, f) = CHOOSE r \in 0..6 :
        /\ \E i \in 0..(6 - r) : Run(r, i) \subseteq S
        /\ \A q \in (r + 1)..6 : \A i \in 0..(6 - q) : ~(Run(q, i) \subseteq S)
  BY DEF LongestRun
<1>3. LongestRun(S, f) = CHOOSE r \in 0..6 : Fits(r) /\ \A q \in (r + 1)..6 : ~Fits(q)
  BY <1>2
<1>. HIDE DEF Fits
<1>4. \E r \in 0..6 : Fits(r) /\ \A q \in (r + 1)..6 : ~Fits(q)
  <2>1. /\ Fits(6) => \A q \in (6 + 1)..6 : ~Fits(q)
        /\ ~Fits(6) => \A q \in (5 + 1)..6 : ~Fits(q)
        /\ ~Fits(6) /\ ~Fits(5) => \A q \in (4 + 1)..6 : ~Fits(q)
        /\ ~Fits(6) /\ ~Fits(5) /\ ~Fits(4) => \A q \in (3 + 1)..6 : ~Fits(q)
        /\ ~Fits(6) /\ ~Fits(5) /\ ~Fits(4) /\ ~Fits(3) => \A q \in (2 + 1)..6 : ~Fits(q)
        /\ ~Fits(6) /\ ~Fits(5) /\ ~Fits(4) /\ ~Fits(3) /\ ~Fits(2) => \A q \in (1 + 1)..6 : ~Fits(q)
        /\ ~Fits(6) /\ ~Fits(5) /\ ~Fits(4) /\ ~Fits(3) /\ ~Fits(2) /\ ~Fits(1) => \A q \in (0 + 1)..6 : ~Fits(q)
    <3>1. \A q \in 1..6 : q \in {1, 2, 3, 4, 5, 6}
      OBVIOUS
    <3>. QED BY <3>1
  <2>. QED BY <1>1, <2>1
<1>5. LongestRun(S, f) \in 0..6 /\ Fits(LongestRun(S, f))
  BY <1>3, <1>4
<1>. QED BY <1>5 DEF Fits

(* How many elements a pair and a triple have. *)
LEMMA PairsAndTriples ==
  ASSUME NEW x, NEW y, NEW z, x # y
  PROVE  /\ IsFiniteSet({x, y}) /\ Cardinality({x, y}) = 2
         /\ x # z /\ y # z => IsFiniteSet({x, y, z}) /\ Cardinality({x, y, z}) = 3
<1>1. IsFiniteSet({x}) /\ Cardinality({x}) = 1 /\ y \notin {x}
  BY FS_Singleton
<1>2. IsFiniteSet({x} \cup {y}) /\ Cardinality({x} \cup {y}) = 1 + 1
  BY <1>1, FS_AddElement
<1>3. {x} \cup {y} = {x, y}
  OBVIOUS
<1>4. IsFiniteSet({x, y}) /\ Cardinality({x, y}) = 2
  BY <1>2, <1>3
<1>5. ASSUME x # z, y # z PROVE IsFiniteSet({x, y, z}) /\ Cardinality({x, y, z}) = 3
  <2>1. z \notin {x, y} /\ {x, y} \cup {z} = {x, y, z}
    BY <1>5
  <2>2. IsFiniteSet({x, y} \cup {z}) /\ Cardinality({x, y} \cup {z}) = 2 + 1
    BY <1>4, <2>1, FS_AddElement
  <2>. QED BY <2>1, <2>2
<1>. QED BY <1>4, <1>5

(* Places on the ring, one after the other.                                *)
LEMMA RingPlaces ==
  ASSUME NEW a \in 0..10
  PROVE  /\ Ring(a) \in Hex /\ Ring(a + 1) \in Hex /\ Ring(a + 2) \in Hex
         /\ Ring(a) # Ring(a + 1) /\ Ring(a) # Ring(a + 2) /\ Ring(a + 1) # Ring(a + 2)
         /\ Ring(Ring(a) - CW) = Ring(a + 1) /\ Ring(Ring(a + 1) - CCW) = Ring(a)
         /\ Ring(Ring(a + 1) - CW) = Ring(a + 2) /\ Ring(Ring(a + 2) - CCW) = Ring(a + 1)
<1>1. a \in {0, 1, 2, 3, 4, 5, 6, 7, 8, 9, 10}
  OBVIOUS
<1>. QED BY <1>1 DEF Ring, Hex, Direction, CW, CCW

(* From one side to another in one step around the catom, or in two over a *)
(* side of S.                                                              *)
CloseBy(S, d, e) ==
  \/ d = e
  \/ \E s \in {CCW, CW} : e = Ring(d - s) \/ (Ring(d - s) \in S /\ e = Ring(Ring(d - s) - s))

(* The sides taken of a catom that isBlocked does not call blocked are next *)
(* to each other, three of them at most.                                   *)
LEMMA SidesAreClose ==
  ASSUME NEW b \in Catom, ~IsBlocked(b)
  PROVE  \A d, e \in SidesTaken(b) : CloseBy(SidesTaken(b), d, e)
<1>. DEFINE S == SidesTaken(b)
            E == Hex \ S
            f == CHOOSE d \in E : \A e \in E : d <= e
            r == LongestRun(S, f)
<1>1. S \subseteq Hex /\ Hex = 0..5
  BY DEF SidesTaken, Hex, Direction
<1>2. IsFiniteSet(S) /\ Cardinality(S) \in Nat
  <2>1. IsFiniteSet(0..5)
    <3>1. \A m, n \in Int : IsFiniteSet(m..n)
      BY FS_Interval
    <3>2. 0 \in Int /\ 5 \in Int
      OBVIOUS
    <3>. QED BY <3>1, <3>2, Zenon
  <2>2. S \in SUBSET (0..5)
    BY <1>1
  <2>. QED BY <2>1, <2>2, FS_Subset, FS_CardinalityType
<1>3. NbNeighbors(b, TRUE) = Cardinality(S)
  BY DEF NbNeighbors, SidesTaken
<1>4. NbConsecutiveNeighbors(b, TRUE) = IF E = {} THEN 6 ELSE r
  BY DEF NbConsecutiveNeighbors, SidesTaken
<1>5. E # {} /\ r = Cardinality(S) /\ r <= 3
  <2>1. NbNeighbors(b, TRUE) = NbConsecutiveNeighbors(b, TRUE) /\ NbConsecutiveNeighbors(b, TRUE) <= 3
    BY DEF IsBlocked
  <2>. HIDE DEF E, r
  <2>2. ASSUME E = {} PROVE FALSE
    <3>1. NbConsecutiveNeighbors(b, TRUE) = 6
      BY <1>4, <2>2
    <3>2. ~(6 <= 3)
      OBVIOUS
    <3>. QED BY <2>1, <3>1, <3>2, Zenon
  <2>. QED BY <1>3, <1>4, <2>1, <2>2
<1>6. f \in 0..5
  <2>1. \E d \in E : \A e \in E : d <= e
    BY <1>1, <1>5
  <2>. QED BY <1>1, <2>1
<1>. HIDE DEF f, r, S, E
<1>7. r \in 0..6 /\ \E i \in 0..(6 - r) : {Ring(f + j) : j \in i..(i + r - 1)} \subseteq S
  BY <1>1, RunIsFound DEF r
<1>8. PICK i \in 0..(6 - r) : {Ring(f + j) : j \in i..(i + r - 1)} \subseteq S
  BY <1>7
<1>. DEFINE a == f + i
<1>9. r \in {0, 1, 2, 3} /\ (r # 0 => a \in 0..10)
  BY <1>5, <1>6, <1>7
<1>10. CASE r = 0
  <2>1. S = {}
    BY <1>2, <1>5, <1>10, FS_EmptySet
  <2>. QED BY <2>1 DEF S
<1>11. CASE r = 1
  <2>1. \E x : S = {x}
    BY <1>2, <1>5, <1>11, FS_Singleton
  <2>. QED BY <2>1 DEF S, CloseBy
<1>12. CASE r = 2
  <2>1. i \in i..(i + r - 1) /\ i + 1 \in i..(i + r - 1) /\ f + (i + 1) = a + 1
    BY <1>6, <1>12
  <2>2. Ring(a) \in S /\ Ring(a + 1) \in S
    BY <1>8, <2>1
  <2>. HIDE DEF a
  <2>3. Ring(a) # Ring(a + 1)
    BY <1>9, <1>12, RingPlaces
  <2>4. S = {Ring(a), Ring(a + 1)}
    <3>1. {Ring(a), Ring(a + 1)} \in SUBSET S
      BY <2>2
    <3>2. Cardinality({Ring(a), Ring(a + 1)}) = 2
      BY <2>3, PairsAndTriples
    <3>3. Cardinality({Ring(a), Ring(a + 1)}) = Cardinality(S)
      BY <1>5, <1>12, <3>2
    <3>. QED BY <1>2, <3>1, <3>3, FS_Subset
  <2>5. Ring(Ring(a) - CW) = Ring(a + 1) /\ Ring(Ring(a + 1) - CCW) = Ring(a)
    BY <1>9, <1>12, RingPlaces
  <2>. QED BY <2>4, <2>5 DEF S, CloseBy
<1>13. CASE r = 3
  <2>1. /\ i \in i..(i + r - 1) /\ i + 1 \in i..(i + r - 1) /\ i + 2 \in i..(i + r - 1)
        /\ f + (i + 1) = a + 1 /\ f + (i + 2) = a + 2
    BY <1>6, <1>13
  <2>2. Ring(a) \in S /\ Ring(a + 1) \in S /\ Ring(a + 2) \in S
    BY <1>8, <2>1
  <2>. HIDE DEF a
  <2>3. Ring(a) # Ring(a + 1) /\ Ring(a) # Ring(a + 2) /\ Ring(a + 1) # Ring(a + 2)
    BY <1>9, <1>13, RingPlaces
  <2>4. S = {Ring(a), Ring(a + 1), Ring(a + 2)}
    <3>1. {Ring(a), Ring(a + 1), Ring(a + 2)} \in SUBSET S
      BY <2>2
    <3>2. Cardinality({Ring(a), Ring(a + 1), Ring(a + 2)}) = 3
      BY <2>3, PairsAndTriples
    <3>3. Cardinality({Ring(a), Ring(a + 1), Ring(a + 2)}) = Cardinality(S)
      BY <1>5, <1>13, <3>2
    <3>. QED BY <1>2, <3>1, <3>3, FS_Subset
  <2>5. /\ Ring(Ring(a) - CW) = Ring(a + 1) /\ Ring(Ring(a + 1) - CCW) = Ring(a)
        /\ Ring(Ring(a + 1) - CW) = Ring(a + 2) /\ Ring(Ring(a + 2) - CCW) = Ring(a + 1)
    BY <1>9, <1>13, RingPlaces
  <2>. QED BY <2>4, <2>5 DEF S, CloseBy
<1>. QED BY <1>9, <1>10, <1>11, <1>12, <1>13

-----------------------------------------------------------------------------
(* Catoms on two sides of b that are next to each other are linked.        *)
LEMMA SidesAreLinked ==
  ASSUME TurnInv, NEW b \in Catom, NEW d \in Hex, NEW s \in {CCW, CW},
         BlockAt(Next6(b, d)) # NULL, BlockAt(Next6(b, Ring(d - s))) # NULL
  PROVE  BlockAt(Next6(b, Ring(d - s))) \in Near(BlockAt(Next6(b, d)))
<1>. DEFINE x == BlockAt(Next6(b, d))
            y == BlockAt(Next6(b, Ring(d - s)))
            e == Ring(OppositeDirection("HLattice", d) + s)
<1>1. position[b] \in Position /\ Ring(d - s) \in Hex /\ OppositeDirection("HLattice", d) \in Hex
  BY Standers, OppositeIsAnInvolution DEF Ring, Hex, Direction, CW, CCW, Kind
<1>2. e \in Hex
  BY <1>1 DEF Ring, Hex, Direction, CW, CCW
<1>3. Next6(b, d) \in Position /\ Next6(b, Ring(d - s)) \in Position
  BY <1>1, NeighborsAreMutual DEF Next6, Hex, Kind
<1>4. /\ x \in Catom /\ Standing(x) /\ position[x] = Next6(b, d)
      /\ y \in Catom /\ Standing(y) /\ position[y] = Next6(b, Ring(d - s))
  BY <1>3, Standers
<1>5. Next6(x, e) = Next6(b, Ring(d - s))
  BY <1>1, <1>4, Roll DEF Next6
<1>6. BlockAt(Next6(x, e)) = y /\ y # NULL
  BY <1>5
<1>7. /\ GetInterface(x, e) \in NI
      /\ connectedInterface[GetInterface(x, e)] \in NI
      /\ connectedInterface[GetInterface(x, e)][1] = y
  BY <1>2, <1>4, <1>6, LinkOf, WantedLink
<1>. QED BY <1>4, <1>7 DEF Near, NI, GetInterface

(* The cell on a side of a cell is another cell.                           *)
LEMMA NextCellDiffers ==
  ASSUME NEW p \in Position, NEW d \in Hex
  PROVE  NextCell("HLattice", p, d) # p
<1>1. ToWorld(p)[1] \in Int /\ ToWorld(p)[2] \in Int
  BY WorldIsExact
<1>2. ToWorld(NextCell("HLattice", p, d))[1] = ToWorld(p)[1] + HalfCells[d + 1][1]
  BY WorldStep
<1>3. d \in {0, 1, 2, 3, 4, 5}
  BY DEF Hex, Direction
<1>4. HalfCells[d + 1][1] \in Int /\ ~(HalfCells[d + 1][1] = 0)
  BY <1>3 DEF HalfCells
<1>. QED BY <1>1, <1>2, <1>4

(* What b is linked with is on one of its sides, not in its cell.          *)
LEMMA NearIsBeside ==
  ASSUME TurnInv, NEW b \in Catom, Standing(b)
  PROVE  /\ \A x \in Near(b) : \E d \in SidesTaken(b) : BlockAt(Next6(b, d)) = x /\ x # NULL
         /\ \A d \in Hex : BlockAt(Next6(b, d)) # NULL => BlockAt(Next6(b, d)) # b
         /\ \A d \in SidesTaken(b) : BlockAt(Next6(b, d)) # NULL \/ Next6(b, d)[3] < 0
<1>1. position[b] \in Position /\ angle[b] \in Int /\ Whole(angle[b])
  BY Standers DEF TurnInv, TypeOK
<1>2. ASSUME NEW x \in Near(b)
      PROVE  \E d \in SidesTaken(b) : BlockAt(Next6(b, d)) = x /\ x # NULL
  <2>1. PICK i \in Hex : \E j \in Hex : connectedInterface[<<b, i>>] = <<x, j>>
    BY DEF Near
  <2>2. PICK j \in Hex : connectedInterface[<<b, i>>] = <<x, j>>
    BY <2>1
  <2>. DEFINE d == Facing(<<b, i>>)
  <2>3. d \in Hex /\ GetInterface(b, d) = <<b, i>>
    BY <1>1, SideOfIndex DEF Facing, GetInterface
  <2>4. x \in Catom /\ <<x, j>> # NULL /\ x # NULL
    BY Catoms2DAssumption DEF Near, Hex
  <2>5. Wanted(b, d) = <<x, j>> /\ Linked(GetInterface(b, d))
    BY <2>2, <2>3, <2>4, LinkOf DEF Linked
  <2>6. BlockAt(Next6(b, d)) = x
    BY <2>3, <2>4, <2>5, WantedLink
  <2>. QED BY <2>3, <2>4, <2>5, <2>6 DEF SidesTaken, HasANeighbor
<1>3. ASSUME NEW d \in Hex, BlockAt(Next6(b, d)) = b, b # NULL
      PROVE  FALSE
  <2>1. Next6(b, d) \in Position
    BY <1>1, NeighborsAreMutual DEF Next6, Hex, Kind
  <2>2. position[b] = Next6(b, d)
    BY <1>3, <2>1, Standers
  <2>. QED BY <1>1, <2>2, NextCellDiffers DEF Next6
<1>4. ASSUME NEW d \in SidesTaken(b)
      PROVE  BlockAt(Next6(b, d)) # NULL \/ Next6(b, d)[3] < 0
  BY LinkOf, WantedLink DEF SidesTaken, HasANeighbor, Linked
<1>5. \A d \in Hex : BlockAt(Next6(b, d)) # NULL => BlockAt(Next6(b, d)) # b
  BY <1>3
<1>. QED BY <1>2, <1>4, <1>5

(* The ground is on two sides at most, next to each other, so that it does *)
(* not lie between two catoms.                                             *)
LEMMA GroundIsAtTheEnd ==
  ASSUME TurnInv, NEW b \in Catom, NEW d \in Hex, NEW s \in {CCW, CW},
         BlockAt(Next6(b, d)) # NULL, BlockAt(Next6(b, Ring(Ring(d - s) - s))) # NULL
  PROVE  ~(Next6(b, Ring(d - s))[3] < 0)
<1>. DEFINE m == Ring(d - s)
            e == Ring(Ring(d - s) - s)
            z == position[b][3]
<1>1. /\ position[b] \in Position /\ IsInGrid(Grid, position[b])
      /\ d \in {0, 1, 2, 3, 4, 5} /\ m \in {0, 1, 2, 3, 4, 5} /\ e \in {0, 1, 2, 3, 4, 5}
  BY Standers, PlaneCells DEF Ring, Hex, Direction, CW, CCW
<1>2. z \in Int /\ z >= 0
  BY <1>1, Catoms2DAssumption DEF Position, IsInGrid, GridSize
<1>3. \A g \in Hex : Next6(b, g)[3] = z + HalfCells[g + 1][2]
  BY <1>1, WorldStep DEF Next6, ToWorld
<1>4. d \in Hex /\ m \in Hex /\ e \in Hex
  BY <1>1 DEF Hex, Direction
<1>5. Next6(b, d)[3] >= 0 /\ Next6(b, e)[3] >= 0
  BY Catoms2DAssumption DEF BlockAt, IsInGrid, GridSize
<1>6. /\ z + HalfCells[d + 1][2] >= 0 /\ z + HalfCells[e + 1][2] >= 0
      /\ Next6(b, m)[3] = z + HalfCells[m + 1][2]
  BY <1>3, <1>4, <1>5
<1>7. CASE s = CCW
  BY <1>1, <1>2, <1>6, <1>7 DEF HalfCells, Ring, CCW
<1>8. CASE s = CW
  BY <1>1, <1>2, <1>6, <1>8 DEF HalfCells, Ring, CW
<1>. QED BY <1>7, <1>8

(* What isBlocked lets go leaves its neighbours together.                  *)
LEMMA NearHoldTogether ==
  ASSUME TurnInv, NEW b \in Catom, Standing(b), ~IsBlocked(b),
         NEW part \in SUBSET (Catom \ {b}), \A x \in part : Near(x) \ {b} \subseteq part,
         NEW x \in part \cap Near(b), NEW y \in Near(b)
  PROVE  y \in part
<1>1. PICK d \in SidesTaken(b) : BlockAt(Next6(b, d)) = x /\ x # NULL
  BY NearIsBeside
<1>2. PICK e \in SidesTaken(b) : BlockAt(Next6(b, e)) = y /\ y # NULL
  BY NearIsBeside
<1>3. d \in Hex /\ e \in Hex /\ y # b
  BY <1>2, NearIsBeside DEF SidesTaken
<1>4. CloseBy(SidesTaken(b), d, e)
  BY SidesAreClose
<1>5. CASE d = e
  BY <1>1, <1>2, <1>5
<1>6. ASSUME NEW s \in {CCW, CW}, e = Ring(d - s)
      PROVE  y \in part
  <2>1. y \in Near(x)
    BY <1>1, <1>2, <1>3, <1>6, SidesAreLinked
  <2>. QED BY <1>3, <2>1
<1>7. ASSUME NEW s \in {CCW, CW}, Ring(d - s) \in SidesTaken(b), e = Ring(Ring(d - s) - s)
      PROVE  y \in part
  <2>. DEFINE m == Ring(d - s)
              z == BlockAt(Next6(b, m))
  <2>1. ~(Next6(b, m)[3] < 0)
    BY <1>1, <1>2, <1>3, <1>7, GroundIsAtTheEnd
  <2>2. z # NULL /\ z # b /\ m \in Hex
    BY <1>7, <2>1, NearIsBeside DEF SidesTaken
  <2>3. z \in Near(x)
    BY <1>1, <1>3, <2>2, SidesAreLinked
  <2>4. z \in part
    BY <2>2, <2>3
  <2>5. y \in Near(z)
    BY <1>2, <1>3, <1>7, <2>2, SidesAreLinked
  <2>. QED BY <1>3, <2>4, <2>5
<1>. QED BY <1>4, <1>5, <1>6, <1>7 DEF CloseBy

(* A catom that isBlocked lets go does not part its neighbours: those it   *)
(* is linked with hold together by links that are not its own              *)
(* (Catoms2DBlock::isBlocked, which counts the longest run of neighbours). *)
THEOREM NotBlockedLeavesNoCut == Spec => []NotBlockedIsNoCut
<1>1. TurnInv => NotBlockedIsNoCut
  BY NearHoldTogether DEF NotBlockedIsNoCut
<1>. QED BY <1>1, TurnInvariance, PTL
=============================================================================
