------------------------------- MODULE Target -------------------------------
(* The targets of a reconfiguration (target.cpp): the list of the document, *)
(* read by loadNextTarget one after the other, a target given by its cells  *)
(* or by a text of constructive geometry, which CSGParser::parseCsg reads   *)
(* word by word, and the cells of the lattice that are in it.               *)
(*                                                                          *)
(* Constructive solid geometry (csg.cpp): trees of shapes and operations,   *)
(* written as a buffer of prefix codes by csgParser.cpp and read back from  *)
(* it by csgUtils.cpp; whether a point is inside a tree, or on its border,  *)
(* which colour it has there, and the bounding box of the tree.             *)
(*                                                                          *)
(* The sizes of shapes are even numbers, so that their halves are integers; *)
(* a point is three numerators over a denominator, [at, over].  A rotation  *)
(* is three angles, each [cos, sin, over] with cos^2 + sin^2 = over^2: quarter *)
(* turns, and angles between them whose sine and cosine are fractions.      *)
EXTENDS Integers, SequencesExt

CONSTANT Plain   \* the colour of a point before a Color node set it

CONSTANTS Formats,    \* the formats of the targets of a document
          Words,      \* the words of the texts
          MaxWords,   \* bound: the length of a text
          MaxTurns,   \* bound: its rotations by other angles than quarter turns
          MaxCalls,   \* bound: calls to loadNextTarget
          Extents,    \* the cells looked at, on each axis
          Border      \* the radius given to isInTargetBorder

VARIABLES list,       \* the formats of the children of targetList
          targetNode, \* the place of the current one, 0 for none
          answers,    \* what the calls to loadNextTarget returned
          bin,        \* the buffer that the parser writes
          root        \* the tree, and its bounding box, of the current target

Groups == {"union", "intersection", "difference"}
Transforms == {"translate", "rotate", "scale", "color"}
Shapes == {"cube", "cylinder", "sphere"}

---------------------------------------------------------------------------
(* Text, buffer and tree.                                                   *)

\* a word of the text is [op, arg]; "{" is written for the reader only
Word(op, arg) == [op |-> op, arg |-> arg]
End == Word("}", 0)
NoNode == [op |-> "null", arg |-> 0, children |-> <<>>]
Node(w, children) == [op |-> w.op, arg |-> w.arg, children |-> children]

(* readCSGNode gives the node that starts at a place of the buffer and the  *)
(* place after it; END and the end of the buffer give no node.              *)
(* Bug: the END is left in the buffer.                                      *)
AfterEndKept(at) == at
AfterEnd(at) == at + 1

RECURSIVE ReadNode(_, _), ReadChildren(_, _)
ReadNode(buffer, at) ==
  IF at > Len(buffer) \/ buffer[at].op = "}" THEN [node |-> NoNode, after |-> AfterEnd(at)]
  ELSE IF buffer[at].op \in Groups
       THEN LET r == ReadChildren(buffer, at + 1) IN
            [node |-> Node(buffer[at], r.nodes), after |-> r.after]
  ELSE IF buffer[at].op \in Transforms
       THEN LET r == ReadNode(buffer, at + 1) IN
            [node |-> Node(buffer[at], <<r.node>>), after |-> r.after]
  ELSE [node |-> Node(buffer[at], <<>>), after |-> at + 1]

ReadChildren(buffer, at) ==
  LET r == ReadNode(buffer, at) IN
  IF r.node = NoNode THEN [nodes |-> <<>>, after |-> r.after]
  ELSE LET rest == ReadChildren(buffer, r.after) IN
       [nodes |-> <<r.node>> \o rest.nodes, after |-> rest.after]

ReadBuffer(buffer) == ReadNode(buffer, 1).node

\* toString: the words of a tree
RECURSIVE TextOf(_)
TextOf(n) ==
  <<Word(n.op, n.arg)>>
    \o FlattenSeq([i \in DOMAIN n.children |-> TextOf(n.children[i])])
    \o IF n.op \in Groups THEN <<End>> ELSE <<>>

---------------------------------------------------------------------------
(* Points.                                                                  *)

Within(p, i, a, b) == a * p.over <= p.at[i] /\ p.at[i] <= b * p.over

Back(angle) == [angle EXCEPT !.sin = -@]

(* A turn by an angle about an axis (Matrix::setRotationX, Y, Z). *)
Turn(axis, angle, p) ==
  LET c == angle.cos
      s == angle.sin
      k == angle.over
      x == p.at[1]
      y == p.at[2]
      z == p.at[3]
  IN [over |-> p.over * k,
      at |-> CASE axis = 1 -> <<k * x, c * y - s * z, s * y + c * z>>
               [] axis = 2 -> <<c * x + s * z, k * y, c * z - s * x>>
               [] axis = 3 -> <<c * x - s * y, s * x + c * y, k * z>>]

Rotated(q, p) == Turn(1, q[1], Turn(2, q[2], Turn(3, q[3], p)))
Unrotated(q, p) == Turn(3, Back(q[3]), Turn(2, Back(q[2]), Turn(1, Back(q[1]), p)))

Shifted(p, d) == [p EXCEPT !.at = [i \in 1 .. 3 |-> p.at[i] - p.over * d[i]]]

Size(x) == IF x < 0 THEN -x ELSE x
Divided(p, d) ==
  LET k == Size(d[1] * d[2] * d[3])
  IN [over |-> p.over * k, at |-> [i \in 1 .. 3 |-> p.at[i] * (k \div Size(d[i])) * (d[i] \div Size(d[i]))]]

\* the point in the frame of the child of a transformation
ToChild(n, p) ==
  CASE n.op = "translate" -> Shifted(p, n.arg)
    [] n.op = "scale" -> Divided(p, n.arg)
    [] n.op = "rotate" -> Unrotated(n.arg, p)
    [] n.op = "color" -> p

\* the square of the distance to the origin, over the first k coordinates,
\* compared with that of r
Square(x) == x * x
DistanceSquare(p, k) == FoldLeft(LAMBDA s, x : s + Square(x), 0, SubSeq(p.at, 1, k))
Near(p, k, r) == DistanceSquare(p, k) <= Square(r * p.over)
Beyond(p, k, r) == r <= 0 \/ DistanceSquare(p, k) >= Square(r * p.over)

---------------------------------------------------------------------------
(* isInside and isInBorder: a result, and the colour as the calls left it.  *)

Half(n, i) == n.arg[i] \div 2
InShape(n, p) ==
  CASE n.op = "cube" -> \A i \in 1 .. 3 : Within(p, i, -Half(n, i), Half(n, i))
    [] n.op = "cylinder" -> Within(p, 3, -Half(n, 1), Half(n, 1)) /\ Near(p, 2, n.arg[2])
    [] n.op = "sphere" -> Near(p, 3, n.arg[1])

OnShape(n, p, border) ==
  CASE n.op = "cube" ->
         /\ InShape(n, p)
         /\ \E i \in 1 .. 3 : \/ Within(p, i, Half(n, i) - border, Half(n, i))
                              \/ Within(p, i, -Half(n, i), border - Half(n, i))
    [] n.op = "cylinder" ->
         \/ InShape(n, p) /\ Beyond(p, 2, n.arg[2] - border)
         \/ /\ Near(p, 2, n.arg[2])
            /\ \/ Within(p, 3, Half(n, 1) - border, Half(n, 1))
               \/ Within(p, 3, -Half(n, 1), border - Half(n, 1))
    [] n.op = "sphere" -> Near(p, 3, n.arg[1]) /\ Beyond(p, 3, n.arg[1] - border)

Result(r, c) == [in |-> r, color |-> c]

RECURSIVE IsInside(_, _, _)
\* the calls on the children in turn, until one answers stop
Until(children, p, c, stop) ==
  FoldLeft(LAMBDA r, n : IF r.in = stop THEN r ELSE IsInside(n, p, r.color),
           Result(~stop, c), children)

IsInside(n, p, c) ==
  CASE n.op \in Shapes -> Result(InShape(n, p), c)
    [] n.op \in Transforms \ {"color"} -> Until(n.children, ToChild(n, p), c, TRUE)
    [] n.op = "color" -> LET r == Until(n.children, p, c, TRUE) IN
                         IF r.in THEN Result(TRUE, n.arg) ELSE r
    [] n.op = "union" -> Until(n.children, p, c, TRUE)
    [] n.op = "intersection" -> LET r == Until(n.children, p, c, FALSE) IN
                                Result(r.in /\ n.children # <<>>, r.color)
    [] n.op = "difference" ->
         IF n.children = <<>> THEN Result(FALSE, c)
         ELSE LET first == IsInside(Head(n.children), p, c)
                  rest == Until(Tail(n.children), p, first.color, TRUE)
              IN IF ~first.in THEN first ELSE Result(~rest.in, rest.color)

Inside(n, p) == IsInside(n, p, Plain).in

(* Bug: the border of a child is taken even inside the others.              *)
OutOfOthersAlways(children, i, p) == TRUE
OutOfOthers(children, i, p) == \A j \in DOMAIN children \ {i} : ~Inside(children[j], p)

RECURSIVE IsInBorder(_, _, _)
IsInBorder(n, p, b) ==
  CASE n.op \in Shapes -> OnShape(n, p, b)
    [] n.op \in Transforms -> \E i \in DOMAIN n.children : IsInBorder(n.children[i], ToChild(n, p), b)
    [] n.op = "union" ->
         \E i \in DOMAIN n.children :
           /\ IsInBorder(n.children[i], p, b)
           /\ OutOfOthers(n.children, i, p)
    [] n.op = "intersection" ->
         \E i \in DOMAIN n.children :
           /\ IsInBorder(n.children[i], p, b)
           /\ \A j \in DOMAIN n.children \ {i} : Inside(n.children[j], p)
    [] n.op = "difference" ->
         /\ n.children # <<>> /\ IsInBorder(Head(n.children), p, b)
         /\ OutOfOthers(n.children, 1, p)

---------------------------------------------------------------------------
(* The bounding box: two corners over a denominator, written over those of  *)
(* the caller.  Only those two are turned and scaled: they are not those of *)
(* a box around the others when the angle is not a number of quarter turns, *)
(* and a negative factor swaps them.                                        *)

Least(a, b) == IF a <= b THEN a ELSE b
Greatest(a, b) == IF a >= b THEN a ELSE b
Box(P0, P1, over) == [P0 |-> P0, P1 |-> P1, over |-> over]
(* Bug: the two corners of a turned box are not sorted again.               *)
CornersUnsorted(p, q) == Box(p.at, q.at, p.over)
Corners(p, q) ==
  Box([i \in 1 .. 3 |-> Least(p.at[i], q.at[i])], [i \in 1 .. 3 |-> Greatest(p.at[i], q.at[i])], p.over)
Join(a, b) ==
  Box([i \in 1 .. 3 |-> Least(a.P0[i] * b.over, b.P0[i] * a.over)],
      [i \in 1 .. 3 |-> Greatest(a.P1[i] * b.over, b.P1[i] * a.over)], a.over * b.over)
NoBox == Box(<<0, 0, 0>>, <<0, 0, 0>>, 1)
Extent(n) == CASE n.op = "cube" -> <<Half(n, 1), Half(n, 2), Half(n, 3)>>
               [] n.op = "cylinder" -> <<n.arg[2], n.arg[2], Half(n, 1)>>
               [] n.op = "sphere" -> <<n.arg[1], n.arg[1], n.arg[1]>>
Moved(n, box) ==
  CASE n.op = "translate" -> Box([i \in 1 .. 3 |-> box.P0[i] + box.over * n.arg[i]],
                                 [i \in 1 .. 3 |-> box.P1[i] + box.over * n.arg[i]], box.over)
    [] n.op = "scale" -> Box([i \in 1 .. 3 |-> box.P0[i] * n.arg[i]],
                             [i \in 1 .. 3 |-> box.P1[i] * n.arg[i]], box.over)
    [] n.op = "rotate" -> Corners(Rotated(n.arg, [at |-> box.P0, over |-> box.over]),
                                  Rotated(n.arg, [at |-> box.P1, over |-> box.over]))
    [] n.op = "color" -> box
RECURSIVE Bounds(_, _)
Bounds(n, box) ==
  CASE n.op \in Shapes -> Box([i \in 1 .. 3 |-> -Extent(n)[i]], Extent(n), 1)
    [] n.op \in Transforms -> Moved(n, FoldLeft(LAMBDA b, c : Bounds(c, b), box, n.children))
    [] n.op \in {"intersection", "difference"} ->
         IF n.children = <<>> THEN box ELSE Bounds(Head(n.children), box)
    [] n.op = "union" ->
         IF n.children = <<>> THEN box
         ELSE FoldLeft(LAMBDA r, c : [all |-> Join(r.all, Bounds(c, r.child)), child |-> Bounds(c, r.child)],
                       [all |-> Bounds(Head(n.children), box), child |-> NoBox], Tail(n.children)).all

-----------------------------------------------------------------------------
(* The list of targets *)

vars == <<list, targetNode, answers, bin, root>>

NoTarget == [node |-> NoNode, bb |-> NoBox]
\* the objects that the text still has to give, one for each open brace
Open(text) == Len(SelectSeq(text, LAMBDA w : w.op \in Groups)) - Len(SelectSeq(text, LAMBDA w : w = End))
AfterTransform(text) == text # <<>> /\ Last(text).op \in Transforms
Missing(text) == Open(text) + IF AfterTransform(text) THEN 1 ELSE 0
Whole(text) == text # <<>> /\ Open(text) = 0 /\ ~AfterTransform(text)

(* IterateChildren gives the child after targetNode, the first one when     *)
(* there is none: so also after the last one.                               *)
NextNode == IF targetNode < Len(list) THEN targetNode + 1 ELSE 0

\* the rotations of a text by an angle between two quarter turns
Slanted(w) == w.op = "rotate" /\ \E i \in 1 .. 3 : w.arg[i].over # 1
Slants(text) == Len(SelectSeq(text, Slanted))

Known(format) == format \in {"grid", "csg"}
LoadNextTarget ==
  /\ list # <<>> /\ Len(answers) < MaxCalls
  /\ targetNode' = NextNode
  /\ answers' = Append(answers, IF NextNode = 0 \/ ~Known(list[NextNode]) THEN 0 ELSE NextNode)
  /\ bin' = <<>> /\ root' = NoTarget
  /\ UNCHANGED list

\* parseCsg: a keyword and its parameters, written to the buffer
InCsg == targetNode # 0 /\ list[targetNode] = "csg" /\ root = NoTarget
ReadKeyword ==
  /\ InCsg /\ ~Whole(bin)
  /\ \E w \in Words :
       /\ w = End => Open(bin) > 0 /\ ~AfterTransform(bin)
       /\ bin' = Append(bin, w) /\ Len(bin) + 1 + Missing(bin') <= MaxWords
       /\ Slants(bin') <= MaxTurns
  /\ UNCHANGED <<list, targetNode, answers, root>>

\* the end of the text: the tree is read from the buffer, then its box
ReadCSGBuffer ==
  /\ InCsg /\ Whole(bin)
  /\ root' = [node |-> ReadBuffer(bin), bb |-> Bounds(ReadBuffer(bin), NoBox)]
  /\ UNCHANGED <<list, targetNode, answers, bin>>

Init ==
  /\ list \in Formats /\ targetNode = 0 /\ answers = <<>>
  /\ bin = <<>> /\ root = NoTarget

Next == LoadNextTarget \/ ReadKeyword \/ ReadCSGBuffer

Spec == Init /\ [][Next]_vars

---------------------------------------------------------------------------
(* gridToWorldPosition: the centre of a cell, half a cell further on odd    *)
(* planes, from the low corner of the box.  The height is in the unit of    *)
(* the lattice, the distance of two planes.                                 *)
GridToWorldPosition(pos, bb) ==
  LET centre == <<2 * pos[1] + 1 + (pos[3] % 2), 2 * pos[2] + 1 + (pos[3] % 2), 2 * pos[3] + 1>>
  IN [at |-> [i \in 1 .. 3 |-> centre[i] * bb.over + 2 * bb.P0[i]], over |-> 2 * bb.over]
IsInTarget(pos) == Inside(root.node, GridToWorldPosition(pos, root.bb))
IsInTargetBorder(pos) == IsInBorder(root.node, GridToWorldPosition(pos, root.bb), Border)

Positions == Extents \X Extents \X Extents
Loaded == root # NoTarget

(* The tree read back from the buffer is the one of the text: printed, it   *)
(* gives the text again.                                                    *)
TreeIsText == Loaded => TextOf(root.node) = bin

(* A cell on the border of the target is in the target, through any         *)
(* combination of operations, turns by any angle and mirrors.               *)
BorderIsInside == Loaded => \A pos \in Positions : IsInTargetBorder(pos) => IsInTarget(pos)

(* The texts whose box is the one of the target: no turn between two        *)
(* quarters, no negative factor.  Of the others, cells of the target may be *)
(* before the first cells of the lattice, and are cut away (csg.cpp:211-219, *)
(* 244-250).                                                                *)
KeepsBox(text) ==
  /\ Slants(text) = 0
  /\ \A i \in DOMAIN text : text[i].op = "scale" => \A k \in 1 .. 3 : text[i].arg[k] > 0

(* The bounding box of such a text holds the target: a cell in it is        *)
(* between the corners, so that none is before the first cells of the       *)
(* lattice, but for those of column or row -1 of an odd plane, whose centre *)
(* is on the low face.                                                      *)
TargetIsInBox ==
  Loaded /\ KeepsBox(bin) => \A pos \in Positions : IsInTarget(pos) =>
    LET p == GridToWorldPosition(pos, root.bb)
    IN \A i \in 1 .. 3 :
         /\ 2 * root.bb.P0[i] <= p.at[i] /\ p.at[i] <= 2 * root.bb.P1[i]
         /\ pos[i] >= 0 \/ (pos[i] = -1 /\ pos[3] % 2 = 1 /\ i # 3)
=============================================================================
