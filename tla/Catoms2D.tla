------------------------------ MODULE Catoms2D ------------------------------
(***************************************************************************)
(* The rotations of 2D catoms and the menu that asks for them: a catom on  *)
(* the hexagonal lattice has six interfaces that turn with it, so that the *)
(* interface in a direction depends on its angle.  The scheduler thread    *)
(* consumes the events of the rotations; the GLUT thread opens the menu    *)
(* and reads the choice, the simulation running in between; a block code   *)
(* may ask for a rotation too.  Durations are drawn at random by the motion *)
(* engine: the events of one rotation come in order, those of two in any.  *)
(*                                                                         *)
(* A catom that is asked to turn again before the scheduler has consumed   *)
(* its first start event, and the other choices of the menu, are left out. *)
(***************************************************************************)
EXTENDS Lattice, FiniteSets, SequencesExt

CONSTANTS
  Catom,      \* identifiers
  Grid,       \* Lattice::gridSize
  Starts,     \* the cells of the catoms at first, one of these
  Budget,     \* bound: rotations the user asks of each catom, one of these
  NULL

(* A catom stands alone in its cell, in the plane y = 0 where the lattice  *)
(* puts one that has moved (HLattice::worldToGridPosition).                *)
PlaneCell == {c \in GridCell(Grid) : c[2] = 0}

ASSUME Catoms2DAssumption ==
  /\ Grid \in GridSize
  /\ Starts \subseteq [Catom -> PlaneCell]
  /\ \A start \in Starts : \A a, b \in Catom : start[a] = start[b] => a = b
  /\ Budget \subseteq [Catom -> Nat]
  /\ NULL \notin Catom /\ NULL \notin Catom \X Direction("HLattice")

VARIABLES
  grid,                \* Lattice::grid, cell -> catom or NULL
  position,            \* BuildingBlock::position
  angle,               \* Catoms2DBlock::angle, degrees, counterclockwise
  connectedInterface,  \* interface -> interface or NULL
  motion,              \* the pending event of the rotation of a catom
  menu,                \* the menu shown, with the choices it offers
  clicks,              \* rotations the user may still ask for
  crashed,             \* why the program has stopped
  contact              \* history: the interface a catom turns on and its pivot

vars == <<grid, position, angle, connectedInterface, motion, menu, clicks, crashed, contact>>

Hex == Direction("HLattice")

NI == Catom \X Hex

(* RelativeDirection *)
CCW == 1
CW == -1

AngularStep == 12
FullTurn == 60 \div AngularStep

AtRest == [phase |-> "rest", pivot |-> <<0, 0, 0>>, sens |-> 0, left |-> 0]

-----------------------------------------------------------------------------
(* C division, towards zero. *)
Truncated(n, d) == IF n >= 0 THEN n \div d ELSE -((-n) \div d)

(* The sign of the angle is lost: the interfaces would turn the other way. *)
InterfaceIndexAgainst(a, d) == ((a + d * 60) \div 60) % 6

(* The index of the interface in direction d of a catom at angle a: out of *)
(* the vector from the seventh counterclockwise turn on.                   *)
InterfaceIndex(a, d) ==
  LET t == d * 60 - a
  IN  IF t >= 0 THEN (t \div 60) % 6 ELSE Truncated(360 + t, 60)

OutOfRange(a) == \E d \in Hex : InterfaceIndex(a, d) \notin Hex

GetInterface(b, d) == <<b, InterfaceIndex(angle[b], d)>>

(* 0 for an interface that is found in no direction. *)
GetDirection(ni) == SelectInSeq(<<0, 1, 2, 3, 4, 5>>, LAMBDA d : GetInterface(ni[1], d) = ni) - 1

Linked(ni) == connectedInterface[ni] # NULL

BlockAt(c) == IF IsInGrid(Grid, c) THEN grid[c] ELSE NULL

IsFree(c) == IsInGrid(Grid, c) /\ grid[c] = NULL

Next6(b, d) == NextCell("HLattice", position[b], d)

Ring(d) == (d + 6) % 6

-----------------------------------------------------------------------------
(* World::disconnectBlock; the notices and the queues are P2PNetwork's. *)
Disconnected(b) ==
  [ni \in NI |-> IF ni[1] = b \/ (Linked(ni) /\ connectedInterface[ni][1] = b)
                 THEN NULL ELSE connectedInterface[ni]]

(* linkBlock on the cell of b and, by linkNeighbors, on the cells around.  *)
(* Only the links between b and its neighbours are new: those of the       *)
(* neighbours with others are there already, and connect leaves them.      *)
LinksOf(b, cell) ==
  LET Peer(d) == BlockAt(NextCell("HLattice", cell, d))
      Own(d) == <<b, InterfaceIndex(angle[b], d)>>
      Other(d) == <<Peer(d), InterfaceIndex(angle[Peer(d)], OppositeDirection("HLattice", d))>>
      Met == {d \in Hex : Peer(d) # NULL}
  IN  [ni \in NI |->
         IF \E d \in Met : ni = Own(d) THEN Other(CHOOSE d \in Met : ni = Own(d))
         ELSE IF \E d \in Met : ni = Other(d) THEN Own(CHOOSE d \in Met : ni = Other(d))
         ELSE connectedInterface[ni]]

-----------------------------------------------------------------------------
(* hasANeighbor: the row below the grid is the ground. *)
HasANeighbor(b, d, ground) ==
  Linked(GetInterface(b, d)) \/ (ground /\ Next6(b, d)[3] < 0)

NbNeighbors(b, ground) == Cardinality({d \in Hex : HasANeighbor(b, d, ground)})

(* The run is not ended by an empty direction. *)
LongestRunAll(S, first) == Cardinality(S)

(* The longest run of S around the ring from first. *)
LongestRun(S, first) ==
  LET Len6(r, i) == {Ring(first + j) : j \in i..(i + r - 1)}
  IN  CHOOSE r \in 0..6 :
        /\ \E i \in 0..(6 - r) : Len6(r, i) \subseteq S
        /\ \A q \in (r + 1)..6 : \A i \in 0..(6 - q) : ~(Len6(q, i) \subseteq S)

NbConsecutiveNeighbors(b, ground) ==
  LET S == {d \in Hex : HasANeighbor(b, d, ground)}
      empty == Hex \ S
  IN  IF empty = {} THEN 6 ELSE LongestRun(S, CHOOSE d \in empty : \A e \in empty : d <= e)

IsBlocked(b) ==
  LET n == NbNeighbors(b, TRUE)
      nc == NbConsecutiveNeighbors(b, TRUE)
  IN  ~(n = nc /\ nc <= 3)

-----------------------------------------------------------------------------
(* The directions in which b may take its pivot: linked, the three next    *)
(* interfaces on the side it turns to without a link, and the cell the     *)
(* pivot has there in the grid.                                            *)
Destination(b, j, sens) ==
  LET peer == connectedInterface[GetInterface(b, j)]
  IN  Next6(peer[1], Ring(GetDirection(peer) + sens))

PivotDirections(b, sens) ==
  {j \in Hex : /\ Linked(GetInterface(b, j))
               /\ \A i \in 1..3 : ~Linked(GetInterface(b, Ring(j - sens * i)))
               /\ IsInGrid(Grid, Destination(b, j, sens))}

(* getCCWMovePivotId takes the first, getCWMovePivotId the last; NULL for -1. *)
MovePivot(b, sens) ==
  LET D == PivotDirections(b, sens)
      j == IF sens = CCW THEN CHOOSE d \in D : \A e \in D : d <= e
                         ELSE CHOOSE d \in D : \A e \in D : d >= e
  IN  IF D = {} THEN NULL ELSE connectedInterface[GetInterface(b, j)][1]

(* canMove, for a pivot that is linked: the cells must be free.            *)
CanMove(b, pivot, sens) ==
  \E d \in Hex : /\ Linked(GetInterface(b, d))
                 /\ connectedInterface[GetInterface(b, d)][1] = pivot
                 /\ \A i \in 1..3 : IsFree(Next6(b, Ring(d - sens * i)))

-----------------------------------------------------------------------------
(* HLattice::gridToWorldPosition and back, in half cells and rows, and the *)
(* sixth of a turn that the five steps make about the drawn pivot.         *)
ToWorld(c) == <<2 * c[1] + (c[3] % 2), c[3]>>

ToGrid(w) == <<(w[1] - (w[2] % 2)) \div 2, 0, w[2]>>

(* The catom would turn about the pivot the other way. *)
LandingAgainst(b) ==
  LET p == ToWorld(motion[b].pivot)
      x == ToWorld(position[b])[1] - p[1]
      z == ToWorld(position[b])[2] - p[2]
      s == -motion[b].sens
  IN  ToGrid(<<p[1] + ((x - 3 * s * z) \div 2), p[2] + ((s * x + z) \div 2)>>)

Landing(b) ==
  LET p == ToWorld(motion[b].pivot)
      x == ToWorld(position[b])[1] - p[1]
      z == ToWorld(position[b])[2] - p[2]
      s == motion[b].sens
  IN  ToGrid(<<p[1] + ((x - 3 * s * z) \div 2), p[2] + ((s * x + z) \div 2)>>)

-----------------------------------------------------------------------------
CatomIn(start, c) == IF \E b \in Catom : start[b] = c THEN CHOOSE b \in Catom : start[b] = c ELSE NULL

(* addBlock, then linkBlocks. *)
Init ==
  /\ position \in Starts
  /\ grid = [c \in GridCell(Grid) |-> CatomIn(position, c)]
  /\ angle = [b \in Catom |-> 0]
  /\ connectedInterface =
       [ni \in NI |->
          LET b == CatomIn(position, NextCell("HLattice", position[ni[1]], ni[2]))
          IN  IF b = NULL THEN NULL ELSE <<b, OppositeDirection("HLattice", ni[2])>>]
  /\ motion = [b \in Catom |-> AtRest]
  /\ menu = NULL
  /\ clicks \in Budget
  /\ crashed = NULL
  /\ contact = [b \in Catom |-> NULL]

Fail(why) ==
  /\ crashed' = why
  /\ UNCHANGED <<grid, position, angle, connectedInterface, motion, menu, clicks, contact>>

(* createPopupMenu *)
CreatePopupMenu(b) ==
  /\ crashed = NULL /\ menu = NULL /\ clicks[b] > 0
  /\ IF OutOfRange(angle[b]) THEN Fail("interface")
     ELSE /\ menu' = [catom |-> b, senses |-> {s \in {CCW, CW} : MovePivot(b, s) # NULL}]
          /\ UNCHANGED <<grid, position, angle, connectedInterface, motion, clicks, crashed, contact>>

Cancel ==
  /\ crashed = NULL /\ menu # NULL
  /\ menu' = NULL
  /\ UNCHANGED <<grid, position, angle, connectedInterface, motion, clicks, crashed, contact>>

(* startMove: the start event reads where the pivot is drawn when it is made. *)
StartMove(b, pivot, sens) ==
  /\ motion' = [motion EXCEPT ![b] = [phase |-> "start", pivot |-> position[pivot],
                                      sens |-> sens, left |-> FullTurn]]
  /\ contact' = [contact EXCEPT ![b] =
                   <<CHOOSE ni \in NI : ni[1] = b /\ Linked(ni) /\ connectedInterface[ni][1] = pivot, pivot>>]
  /\ clicks' = [clicks EXCEPT ![b] = @ - 1]
  /\ UNCHANGED <<grid, position, angle, connectedInterface, crashed>>

(* menuChoice: the pivot is looked for again, and used without a test. *)
MenuChoice(b, sens) ==
  /\ crashed = NULL /\ menu # NULL
  /\ menu.catom = b /\ sens \in menu.senses
  /\ motion[b].phase # "start"
  /\ IF OutOfRange(angle[b]) \/ MovePivot(b, sens) = NULL THEN Fail("pivot")
     ELSE StartMove(b, MovePivot(b, sens), sens) /\ menu' = NULL

(* A block code that asks canMove first. *)
AskMove(b, pivot, sens) ==
  /\ crashed = NULL /\ clicks[b] > 0
  /\ motion[b] = AtRest /\ ~OutOfRange(angle[b])
  /\ CanMove(b, pivot, sens)
  /\ StartMove(b, pivot, sens)
  /\ UNCHANGED menu

(* Rotation2DStartEvent::consume *)
RotationStart(b) ==
  /\ crashed = NULL /\ motion[b].phase = "start"
  /\ connectedInterface' = Disconnected(b)
  /\ grid' = [grid EXCEPT ![position[b]] = NULL]
  /\ motion' = [motion EXCEPT ![b].phase = "step"]
  /\ contact' = [a \in Catom |-> IF contact[a] # NULL /\ contact[a][2] = b THEN NULL ELSE contact[a]]
  /\ UNCHANGED <<position, angle, menu, clicks, crashed>>

(* Rotation2DStepEvent::consume: the catom turns with its interfaces. *)
RotationStep(b) ==
  /\ crashed = NULL /\ motion[b].phase = "step"
  /\ IF motion[b].left = 0
     THEN /\ motion' = [motion EXCEPT ![b].phase = "stop"]
          /\ UNCHANGED angle
     ELSE /\ motion' = [motion EXCEPT ![b].left = @ - 1]
          /\ angle' = [angle EXCEPT ![b] = @ + AngularStep * motion[b].sens]
  /\ UNCHANGED <<grid, position, connectedInterface, menu, clicks, crashed, contact>>

(* Rotation2DStopEvent::consume: insert throws on a cell that is taken.    *)
RotationStop(b) ==
  LET c == Landing(b)
  IN  /\ crashed = NULL /\ motion[b].phase = "stop"
      /\ IF grid[c] # NULL THEN Fail("insert")
         ELSE IF OutOfRange(angle[b]) THEN Fail("interface")
         ELSE /\ position' = [position EXCEPT ![b] = c]
              /\ grid' = [grid EXCEPT ![c] = b]
              /\ connectedInterface' = LinksOf(b, c)
              /\ motion' = [motion EXCEPT ![b] = AtRest]
              /\ contact' = [contact EXCEPT ![b] = NULL]
              /\ UNCHANGED <<angle, menu, clicks, crashed>>

Next ==
  \/ \E b \in Catom : CreatePopupMenu(b) \/ RotationStart(b) \/ RotationStep(b) \/ RotationStop(b)
  \/ \E b \in Catom, sens \in {CCW, CW} : MenuChoice(b, sens) \/ \E pivot \in Catom : AskMove(b, pivot, sens)
  \/ Cancel

Spec == Init /\ [][Next]_vars

-----------------------------------------------------------------------------
Standing(b) == grid[position[b]] = b

(* The side of the catom that interface i is on, whatever the code says. *)
Facing(ni) == (ni[2] + (angle[ni[1]] \div 60)) % 6

(* FacesAgree.  Two interfaces are linked exactly when they are on the two *)
(* sides of one border between two catoms that stand in the lattice: the   *)
(* angles of both, the cells and the links agree after any rotations.      *)
FacesAgree ==
  crashed = NULL =>
    \A ni \in NI :
      LET c == Next6(ni[1], Facing(ni))
          n == BlockAt(c)
      IN  connectedInterface[ni] =
            IF ~Standing(ni[1]) \/ n = NULL THEN NULL
            ELSE CHOOSE other \in NI : other[1] = n /\ Facing(other) = (Facing(ni) + 3) % 6

(* TurnInv.  What makes FacesAgree and ContactIsKept inductive.  A catom   *)
(* is in the lattice until its start event is consumed; it is then unlinked *)
(* and its angle is between two sixths of a turn; the cell it will land in *)
(* is in the grid; and while its pivot has not moved, the interface it     *)
(* turns on faces the pivot.                                               *)
InLattice(b) == motion[b].phase \in {"rest", "start"}

TypeOK ==
  /\ grid \in [GridCell(Grid) -> Catom \cup {NULL}]
  /\ position \in [Catom -> PlaneCell]
  /\ angle \in [Catom -> Int]
  /\ connectedInterface \in [NI -> NI \cup {NULL}]
  /\ motion \in [Catom -> [phase : {"rest", "start", "step", "stop"}, pivot : Position,
                          sens : {CW, 0, CCW}, left : 0..FullTurn]]
  /\ contact \in [Catom -> (NI \X Catom) \cup {NULL}]

CellsAgree ==
  /\ \A b \in Catom : InLattice(b) => grid[position[b]] = b
  /\ \A c \in GridCell(Grid) : grid[c] # NULL => InLattice(grid[c]) /\ position[grid[c]] = c

PhasesAgree ==
  \A b \in Catom :
    /\ motion[b].phase = "rest" => motion[b] = AtRest
    /\ motion[b].phase = "start" => motion[b].left = FullTurn
    /\ motion[b].phase = "stop" => motion[b].left = 0
    /\ motion[b].phase # "rest" => motion[b].sens \in {CCW, CW} /\ Landing(b) \in PlaneCell

(* The angle of the catom when it was last in the lattice. *)
Base(b) == angle[b] - AngularStep * (motion[b].sens * (FullTurn - motion[b].left))

Whole(a) == a \in Int /\ a % 60 = 0 /\ a <= 360

AnglesAreWhole == \A b \in Catom : Whole(Base(b))

(* The interface that the one of b in direction d is to be linked with.    *)
Wanted(b, d) ==
  LET n == BlockAt(Next6(b, d))
  IN  IF ~Standing(b) \/ n = NULL THEN NULL
      ELSE <<n, InterfaceIndex(angle[n], OppositeDirection("HLattice", d))>>

LinksAgree == \A ni \in NI : connectedInterface[ni] = Wanted(ni[1], Facing(ni))

OnPivot(b, i, p, d) ==
  /\ contact[b] = <<<<b, i>>, p>>
  /\ (i + (Base(b) \div 60)) % 6 = d
  /\ InLattice(p) /\ position[p] = motion[b].pivot
  /\ Next6(b, d) = position[p]

PivotsStand ==
  \A b \in Catom :
    (motion[b].phase # "rest" /\ contact[b] # NULL) =>
      \E i, d \in Hex, p \in Catom : OnPivot(b, i, p, d)

TurnInv ==
  TypeOK /\ CellsAgree /\ PhasesAgree /\ AnglesAreWhole /\ LinksAgree /\ PivotsStand

(* ContactIsKept.  A catom that turns about a pivot which has not moved    *)
(* meanwhile lands beside it, and the same interface of its own faces it.  *)
ContactIsKept ==
  [][\A b \in Catom :
       (motion[b].phase = "stop" /\ motion'[b].phase = "rest" /\ contact[b] # NULL) =>
         \E d \in Hex : connectedInterface'[contact[b][1]] = <<contact[b][2], d>>]_vars

(* The catoms that b is linked with. *)
Near(b) == {x \in Catom : \E i, j \in Hex : connectedInterface[<<b, i>>] = <<x, j>>}

(* NotBlockedIsNoCut.  The neighbours of a catom that isBlocked does not   *)
(* call blocked hold together without it, so that it may leave: what holds *)
(* one of them and, with a catom, those linked with it, holds them all.    *)
NotBlockedIsNoCut ==
  crashed = NULL =>
    \A b \in Catom :
      (Standing(b) /\ ~OutOfRange(angle[b]) /\ ~IsBlocked(b)) =>
        \A part \in SUBSET (Catom \ {b}) :
          (part \cap Near(b) # {} /\ \A x \in part : Near(x) \ {b} \subseteq part)
            => Near(b) \subseteq part
=============================================================================
