--------------------------- MODULE Catoms3DBlock ---------------------------
(***************************************************************************)
(* The connectors of a 3D catom, its 24 orientations, and the rotations    *)
(* that bring it from one connector to another on a pivot.  It rolls in    *)
(* two quarters, each about an axis given in the frame where the first     *)
(* connector is along x; the graph of motions is a table of axes and of    *)
(* connectors that must be free.                                           *)
(*                                                                         *)
(* Directions are numbered as the connectors of a catom that is not        *)
(* turned, which is the order of FCCLattice.  With u = x + y, v = y - x    *)
(* and w = sqrt(2) z the twelve of them, the axes and the rotations of the *)
(* lattice have integer coordinates.                                       *)
(***************************************************************************)
EXTENDS Lattice

Connector == Direction("FCCLattice")

Opposite(d) == OppositeDirection("FCCLattice", d)

(* The cell in a direction. *)
CellIn(c, d) == NextCell("FCCLattice", c, d)

(* tabConnectorPositions *)
ConnectorPosition ==
  [i \in Connector |->
     << <<1, -1, 0>>, <<1, 1, 0>>, <<1, 0, 1>>, <<0, 1, 1>>, <<-1, 0, 1>>, <<0, -1, 1>>,
        <<-1, 1, 0>>, <<-1, -1, 0>>, <<-1, 0, -1>>, <<0, -1, -1>>, <<1, 0, -1>>, <<0, 1, -1>> >>[i + 1]]

DirectionOf(v) == CHOOSE i \in Connector : ConnectorPosition[i] = v

Dot(a, b) == a[1] * b[1] + a[2] * b[2] + a[3] * b[3]

Cross(a, b) == <<a[2] * b[3] - a[3] * b[2], a[3] * b[1] - a[1] * b[3], a[1] * b[2] - a[2] * b[1]>>

Times(k, a) == <<k * a[1], k * a[2], k * a[3]>>

Through(k, a) == <<a[1] \div k, a[2] \div k, a[3] \div k>>

(* tabOrientationAngles as matrices: row o brings connector o along x. *)
TabOrientation ==
  << << <<1, 0, 0>>, <<0, 1, 0>>, <<0, 0, 1>> >>,    << <<1, 0, 0>>, <<0, -1, 0>>, <<0, 0, -1>> >>,
     << <<0, 0, 1>>, <<-1, 0, 0>>, <<0, -1, 0>> >>,  << <<0, 1, 0>>, <<0, 0, -1>>, <<-1, 0, 0>> >>,
     << <<0, 0, 1>>, <<1, 0, 0>>, <<0, 1, 0>> >>,    << <<0, -1, 0>>, <<0, 0, -1>>, <<1, 0, 0>> >>,
     << <<-1, 0, 0>>, <<0, -1, 0>>, <<0, 0, 1>> >>,  << <<-1, 0, 0>>, <<0, 1, 0>>, <<0, 0, -1>> >>,
     << <<0, 0, -1>>, <<1, 0, 0>>, <<0, -1, 0>> >>,  << <<0, -1, 0>>, <<0, 0, 1>>, <<-1, 0, 0>> >>,
     << <<0, 0, -1>>, <<-1, 0, 0>>, <<0, 1, 0>> >>,  << <<0, 1, 0>>, <<0, 0, 1>>, <<1, 0, 0>> >> >>

(* Half a turn about x, for the codes from 12 on. *)
Up(v) == <<-v[2], -v[1], -v[3]>>

(* Turned[code][i]: the direction that connector i faces. *)
Turned ==
  [code \in 0..23 |->
     [i \in Connector |->
        LET m == TabOrientation[(code % 12) + 1]
            c == ConnectorPosition[i]
            v == <<Dot(m[1], c), Dot(m[2], c), Dot(m[3], c)>>
        IN  DirectionOf(IF code >= 12 THEN Up(v) ELSE v)]]

(* getOrientationFromMatrix: the connector along x, and which way round. *)
OrientationOf(turn) ==
  LET current == CHOOSE i \in Connector : turn[i] = 0
  IN  CHOOSE code \in {current, current + 12} : Turned[code] = turn

(* The connector is taken from the direction, not from the catom there. *)
FacingStraight(code, d) == d

(* getInterface(pos): the connector of a catom that faces a direction. *)
Facing(code, d) == CHOOSE i \in Connector : Turned[code][i] = d

-----------------------------------------------------------------------------
(* The graph of motions. *)
TabConnectors3 == {{0, 2, 5}, {0, 9, 10}, {1, 2, 3}, {1, 10, 11}, {3, 4, 6}, {6, 8, 11}, {4, 5, 7}, {7, 8, 9}}

TabConnectors4 ==
  {{0, 1, 2, 10}, {1, 3, 6, 11}, {4, 6, 7, 8}, {0, 5, 7, 9}, {8, 9, 10, 11}, {2, 3, 4, 5}}

(* No two connectors share two faces of one kind. *)
FindTab(table, pair) == CHOOSE face \in table : pair \subseteq face

Neg(a) == Times(-1, a)

(* addLink: the destination is not among the connectors that must be free  *)
(* before isValid adds it.                                                 *)
AddLink(kind, from, to, axis1, axis2, blocking) ==
  [kind |-> kind, from |-> from, to |-> to, axis1 |-> axis1, axis2 |-> axis2, blocking |-> blocking \ {to}]

(* The second axis does not depend on the side the catom goes to. *)
AddLinks3OneAxis(a, b, c, axis1, axis2, axis3) ==
  LET face == {a, b, c}
      Blocking(x) == FindTab(TabConnectors4, face \ {x}) \cup {Opposite(x)}
  IN  {AddLink("hexaFace", p[1], p[2], Neg(axis1), axis2, Blocking(p[1])) : p \in {q \in face \X face : q[1] # q[2]}}

AddLinks3(a, b, c, axis1, axis2, axis3) ==
  LET face == {a, b, c}
      Blocking(x) == FindTab(TabConnectors4, face \ {x}) \cup {Opposite(x)}
      Link(x, y, axis) == AddLink("hexaFace", x, y, Neg(axis1), axis, Blocking(x))
  IN  {Link(a, b, axis2), Link(b, a, axis3), Link(a, c, axis3),
       Link(c, a, axis2), Link(b, c, axis2), Link(c, b, axis3)}

AddLinks4(a, b, c, d, left, lup, rup) ==
  LET Blocking(x, y, z, t) == FindTab(TabConnectors3, {y, z}) \cup FindTab(TabConnectors3, {z, t}) \cup {Opposite(x)}
      A == Blocking(a, b, c, d)
      B == Blocking(b, c, d, a)
      C == Blocking(c, d, a, b)
      D == Blocking(d, a, b, c)
      Link(x, y, axis1, axis2, free) == AddLink("octaFace", x, y, axis1, axis2, free)
  IN  {Link(a, b, Neg(left), rup, A), Link(b, a, left, lup, B),
       Link(a, c, Neg(left), Neg(left), A), Link(c, a, Neg(left), Neg(left), C),
       Link(a, d, Neg(left), Neg(rup), A), Link(d, a, left, Neg(lup), D),
       Link(b, c, left, Neg(lup), B), Link(c, b, Neg(left), Neg(rup), C),
       Link(b, d, left, left, B), Link(d, b, left, left, D),
       Link(c, d, Neg(left), rup, C), Link(d, c, left, lup, D)}

(* The constructor of Catoms3DMotionRules. *)
MotionRules ==
  LET up == <<1, 1, 0>>        down == Neg(up)
      upleft == <<1, 0, 1>>    upright == <<0, 1, -1>>
      downright == <<0, -1, -1>>  downleft == <<-1, 0, 1>>
      left == <<0, 0, 1>>      right == Neg(left)
      lup == <<0, 1, 0>>       rup == <<1, 0, 0>>
  IN  AddLinks3(1, 2, 3, up, downright, downleft) \cup AddLinks3(7, 4, 5, up, downright, downleft)
      \cup AddLinks3(0, 5, 2, down, upleft, upright) \cup AddLinks3(6, 3, 4, down, upleft, upright)
      \cup AddLinks3(1, 11, 10, down, upleft, upright) \cup AddLinks3(7, 9, 8, down, upleft, upright)
      \cup AddLinks3(0, 10, 9, up, downright, downleft) \cup AddLinks3(6, 8, 11, up, downright, downleft)
      \cup AddLinks4(0, 2, 1, 10, left, lup, rup) \cup AddLinks4(6, 4, 7, 8, left, lup, rup)
      \cup AddLinks4(1, 3, 6, 11, right, Neg(rup), Neg(lup))
      \cup AddLinks4(7, 5, 0, 9, right, Neg(rup), Neg(lup))
      \cup AddLinks4(2, 5, 4, 3, left, lup, rup) \cup AddLinks4(8, 9, 10, 11, right, Neg(rup), Neg(lup))

-----------------------------------------------------------------------------
(***************************************************************************)
(* Rotations3D.  A quarter turns the catom by an angle about its own       *)
(* centre and by the same about the pivot: the pivot moves by the angle in *)
(* its frame, the catom by twice the angle.  Twice 45 degrees about a side *)
(* of the cube, or twice atan(sqrt(2)/2) about an edge, keeps integers:    *)
(* the cosine of the second is 1/3.  The factor is left to the caller.     *)
(***************************************************************************)
Twice(kind, n, v) ==
  IF kind = "octaFace" THEN Plus(Times(Dot(n, v), n), Cross(n, v))
  ELSE Plus(Plus(v, Times(Dot(n, v), n)), Times(2, Cross(n, v)))

Factor(kind) == IF kind = "octaFace" THEN 1 ELSE 3

(* Twice the square of twice the cosine of the angle, by the factor squared. *)
Norm(kind) == IF kind = "octaFace" THEN 2 ELSE 24

(* The bisector of a vector and of itself turned twice is itself turned once. *)
Halfway(kind, n, v) == Plus(Times(Factor(kind), v), Twice(kind, n, v))

(* In the frame where connector from is along x: where the pivot is seen   *)
(* after the two quarters, without turning the catom, ...                  *)
PivotSeen(k) ==
  Through(Norm(k.kind), Halfway(k.kind, k.axis2, Halfway(k.kind, k.axis1, ConnectorPosition[0])))

(* ... and where a vector of the catom is. *)
WholeTurn(k, v) ==
  Through(Factor(k.kind) * Factor(k.kind), Twice(k.kind, k.axis2, Twice(k.kind, k.axis1, v)))

(* The same in the frame of the catom. *)
RotationOf ==
  [k \in MotionRules |->
     LET frame == Turned[k.from]
         Back(v) == CHOOSE i \in Connector : frame[i] = DirectionOf(v)
     IN  [pivot |-> Back(PivotSeen(k)),
          turn |-> [i \in Connector |-> Back(WholeTurn(k, ConnectorPosition[frame[i]]))]]]
=============================================================================
