---------------------------- MODULE CsgCatoms3D ----------------------------
(* The block code csgCatoms3D: the catoms of a box agree on coordinates by  *)
(* a flood from catom 1, and each stays visible if it is inside a shape.    *)
(* A catom tells its neighbours where they are from the place of the        *)
(* connector on itself; it does not know how it is turned.  Messages are    *)
(* received in any order.  Points have the coordinates of Catoms3DBlock.    *)
EXTENDS Catoms3DBlock, FiniteSets, Bags

CONSTANTS Catom,
          Placements, \* the cells of the catoms
          Codes,      \* the orientations of the catoms, as their configuration gives them
          Shape(_),   \* isInside of the tree that the catoms share
          Unplaced    \* the position of a catom that has none

PlacementAssumption ==
  /\ 1 \in Catom /\ Unplaced \notin Position
  /\ Placements \subseteq [Catom -> Position]
  /\ Codes \subseteq [Catom -> 0..23]

VARIABLES cell, orientationCode, myPosition, visible, inTransit

vars == <<cell, orientationCode, myPosition, visible, inTransit>>

HasPosition(c) == myPosition[c] # Unplaced

At(p, v) == <<p[1] + v[1], p[2] + v[2], p[3] + v[3]>>

Message(to, p) == [to |-> to, position |-> p]

(* The catoms linked to c, by the connector of c. *)
Neighbors(c) ==
  {l \in Connector \X Catom : cell[l[2]] = CellIn(cell[c], Turned[orientationCode[c]][l[1]])}

(* Bug: a place is told as if the neighbour were on the other side.         *)
PlaceOfOpposite(p, i) == At(p, ConnectorPosition[Opposite(i)])
PlaceOf(p, i) == At(p, ConnectorPosition[i])

SendCSGMessage(c, p) == SetToBag({Message(l[2], PlaceOf(p, l[1])) : l \in Neighbors(c)})

Init ==
  /\ cell \in Placements
  /\ orientationCode \in Codes
  /\ myPosition = [c \in Catom |-> Unplaced]
  /\ visible = [c \in Catom |-> TRUE]
  /\ inTransit = EmptyBag

(* What a catom does once it knows where it is. *)
TakePosition(c, p, rest) ==
  /\ myPosition' = [myPosition EXCEPT ![c] = p]
  /\ visible' = [visible EXCEPT ![c] = @ /\ Shape(p)]
  /\ inTransit' = rest (+) SendCSGMessage(c, p)

Startup ==
  /\ ~HasPosition(1)
  /\ TakePosition(1, <<0, 0, 0>>, EmptyBag)
  /\ UNCHANGED <<cell, orientationCode>>

(* Bug: every message is believed, and the shape is taken again.            *)
ReceiveAgain(m) ==
  /\ myPosition' = [myPosition EXCEPT ![m.to] = m.position]
  /\ visible' = [visible EXCEPT ![m.to] = Shape(m.position)]
  /\ inTransit' = inTransit (-) SetToBag({m})
  /\ UNCHANGED <<cell, orientationCode>>

Receive(m) ==
  LET rest == inTransit (-) SetToBag({m})
  IN  /\ \/ ~HasPosition(m.to) /\ TakePosition(m.to, m.position, rest)
         \/ HasPosition(m.to) /\ inTransit' = rest /\ UNCHANGED <<myPosition, visible>>
      /\ UNCHANGED <<cell, orientationCode>>

Next == Startup \/ \E m \in BagToSet(inTransit) : Receive(m)

Spec == Init /\ [][Next]_vars

---------------------------------------------------------------------------
(* Where all the catoms are turned alike, one that has a position has the   *)
(* one of its cell in the frame of catom 1, by whichever way the flood came *)
(* to it: two neighbours differ by the connector between them               *)
(* (sendCSGMessage; if not alike, it depends on the order of messages).     *)
CoordinatesAgree ==
  (\A c, d \in Catom : orientationCode[c] = orientationCode[d]) =>
    \A c \in Catom : HasPosition(c) =>
      \A l \in Neighbors(c) : HasPosition(l[2]) => myPosition[l[2]] = At(myPosition[c], ConnectorPosition[l[1]])

(* When no message is left the catoms that the flood reached, all those     *)
(* linked to them among them, draw the shape: each shows if its place is    *)
(* inside (processLocalEvent; a catom no link reaches stays visible).       *)
ShapeIsDrawn ==
  inTransit = EmptyBag /\ HasPosition(1) =>
    \A c \in Catom :
      /\ HasPosition(c) => (visible[c] <=> Shape(myPosition[c]))
      /\ HasPosition(c) => \A l \in Neighbors(c) : HasPosition(l[2])
=============================================================================
