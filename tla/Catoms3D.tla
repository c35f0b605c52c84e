------------------------------ MODULE Catoms3D ------------------------------
(***************************************************************************)
(* The 3D catoms: the links of their connectors, and the events of a       *)
(* rotation that brings a catom from one connector to another on its pivot *)
(* by a rule of the graph of motions of Catoms3DBlock.                     *)
(***************************************************************************)
EXTENDS Catoms3DBlock, FiniteSets, SequencesExt

CONSTANTS
  Catom,            \* identifiers
  Grid,             \* Lattice::gridSize
  Starts,           \* where the catoms are at first: records of cells and orientations
  NbRotationSteps,  \* bound: the steps of half a rotation, 20 in the code
  MaxMotions,       \* bound: rotations asked for in a run
  NULL

(* What a run asserts of the constants. *)
Catoms3DAssumption ==
  /\ IsFiniteSet(Catom) /\ Grid \in GridSize
  /\ NbRotationSteps \in Nat \ {0} /\ MaxMotions \in Nat
  /\ Starts \subseteq [cell : [Catom -> GridCell(Grid)], code : [Catom -> 0..23]]

VARIABLES
  grid,                \* Lattice::grid, cell -> catom or NULL
  position,            \* BuildingBlock::position
  orientationCode,     \* Catoms3DBlock::orientationCode
  connectedInterface,  \* connector -> connector or NULL
  motion,              \* the pending event of the rotation of a catom
  motions,             \* rotations asked for
  crashed,             \* why the program has stopped
  pivot                \* history: the catom a rotation turns about

vars == <<grid, position, orientationCode, connectedInterface, motion, motions, crashed, pivot>>

NI == Catom \X Connector

-----------------------------------------------------------------------------
Linked(ni) == connectedInterface[ni] # NULL

BlockAt(c) == IF IsInGrid(Grid, c) THEN grid[c] ELSE NULL

(* getNeighborPos *)
NeighborPos(b, i) == CellIn(position[b], Turned[orientationCode[b]][i])

(* linkBlock on cell c of catom b, and on the cells around. *)
LinksOf(b, c, code) ==
  LET Met == {d \in Connector : BlockAt(CellIn(c, d)) # NULL}
      Own(d) == <<b, Facing(code, d)>>
      Other(d) == LET n == BlockAt(CellIn(c, d)) IN <<n, Facing(orientationCode[n], Opposite(d))>>
  IN  [ni \in NI |->
         IF \E d \in Met : ni = Own(d) THEN Other(CHOOSE d \in Met : ni = Own(d))
         ELSE IF \E d \in Met : ni = Other(d) THEN Own(CHOOSE d \in Met : ni = Other(d))
         ELSE connectedInterface[ni]]

(* isValid: the connectors of the rule are not linked. *)
IsValid(b, k) == \A i \in k.blocking \cup {k.to} : ~Linked(<<b, i>>)

AtRest == [phase |-> "rest"]

CatomIn(start, c) == IF \E b \in Catom : start[b] = c THEN CHOOSE b \in Catom : start[b] = c ELSE NULL

(* addBlock, then linkBlocks. *)
Init ==
  /\ \E s \in Starts : position = s.cell /\ orientationCode = s.code
  /\ grid = [c \in GridCell(Grid) |-> CatomIn(position, c)]
  /\ connectedInterface =
       [ni \in NI |->
          LET d == Turned[orientationCode[ni[1]]][ni[2]]
              n == CatomIn(position, CellIn(position[ni[1]], d))
          IN  IF n = NULL THEN NULL ELSE <<n, Facing(orientationCode[n], Opposite(d))>>]
  /\ motion = [b \in Catom |-> AtRest]
  /\ motions = 0
  /\ crashed = NULL
  /\ pivot = [b \in Catom |-> NULL]

(* A block code takes one of getValidMotionList from a linked connector,   *)
(* and sendRotationEvent reads where the two catoms are drawn.             *)
SendRotationEvent(b, k) ==
  /\ crashed = NULL /\ motions < MaxMotions
  /\ motion[b] = AtRest
  /\ Linked(<<b, k.from>>) /\ IsValid(b, k)
  /\ LET fixed == connectedInterface[<<b, k.from>>][1]
     IN  /\ motion' = [motion EXCEPT ![b] = [phase |-> "start", rule |-> k, around |-> position[fixed]]]
         /\ pivot' = [pivot EXCEPT ![b] = fixed]
  /\ motions' = motions + 1
  /\ UNCHANGED <<grid, position, orientationCode, connectedInterface, crashed>>

(* Rotation3DStartEvent::consume *)
RotationStart(b) ==
  /\ crashed = NULL /\ motion[b].phase = "start"
  /\ connectedInterface' =
       [ni \in NI |-> IF ni[1] = b \/ (Linked(ni) /\ connectedInterface[ni][1] = b)
                      THEN NULL ELSE connectedInterface[ni]]
  /\ grid' = [grid EXCEPT ![position[b]] = NULL]
  /\ motion' = [motion EXCEPT ![b] = [phase |-> "step", rule |-> @.rule, around |-> @.around,
                                      left |-> 2 * NbRotationSteps]]
  /\ pivot' = [a \in Catom |-> IF pivot[a] = b THEN NULL ELSE pivot[a]]
  /\ UNCHANGED <<position, orientationCode, motions, crashed>>

(* Rotation3DStepEvent::consume *)
RotationStep(b) ==
  /\ crashed = NULL /\ motion[b].phase = "step"
  /\ motion' = [motion EXCEPT ![b] = IF @.left = 1 THEN [phase |-> "stop", rule |-> @.rule, around |-> @.around]
                                     ELSE [@ EXCEPT !.left = @ - 1]]
  /\ UNCHANGED <<grid, position, orientationCode, connectedInterface, motions, crashed, pivot>>

(* Rotation3DStopEvent::consume.  insert throws on a cell that is taken    *)
(* and does not look at the grid: beyond it, what it writes is not         *)
(* followed.  The end event goes to the block code at once.                *)
RotationStop(b) ==
  /\ crashed = NULL /\ motion[b].phase = "stop"
  /\ LET r == RotationOf[motion[b].rule]
         was == Turned[orientationCode[b]]
         c == CellIn(motion[b].around, Opposite(was[r.pivot]))
         code == OrientationOf([i \in Connector |-> was[r.turn[i]]])
     IN  IF ~IsInGrid(Grid, c) \/ grid[c] # NULL
         THEN /\ crashed' = IF IsInGrid(Grid, c) THEN "insert" ELSE "outside"
              /\ UNCHANGED <<grid, position, orientationCode, connectedInterface, motion, motions, pivot>>
         ELSE /\ position' = [position EXCEPT ![b] = c]
              /\ orientationCode' = [orientationCode EXCEPT ![b] = code]
              /\ grid' = [grid EXCEPT ![c] = b]
              /\ connectedInterface' = LinksOf(b, c, code)
              /\ motion' = [motion EXCEPT ![b] = AtRest]
              /\ pivot' = [pivot EXCEPT ![b] = NULL]
              /\ UNCHANGED <<motions, crashed>>

Next ==
  \/ \E b \in Catom, k \in MotionRules : SendRotationEvent(b, k)
  \/ \E b \in Catom : RotationStart(b) \/ RotationStep(b) \/ RotationStop(b)

Spec == Init /\ [][Next]_vars

-----------------------------------------------------------------------------
Standing(b) == grid[position[b]] = b

(* ConnectorsAgree.  Two connectors are linked exactly when each is on the *)
(* side of its catom, turned as it is, where the other catom stands.       *)
ConnectorsAgree ==
  crashed = NULL =>
    \A ni, other \in NI :
      (connectedInterface[ni] = other) <=>
        /\ Standing(ni[1]) /\ Standing(other[1])
        /\ NeighborPos(ni[1], ni[2]) = position[other[1]]
        /\ NeighborPos(other[1], other[2]) = position[ni[1]]

LandsOn(b) ==
  motion[b].phase = "stop" /\ motion'[b] = AtRest /\ pivot[b] # NULL =>
    \E i \in Connector : connectedInterface'[<<b, motion[b].rule.to>>] = <<pivot[b], i>>

BottomFace == {8, 9, 10, 11}

(* RulesLand.  A rotation about a pivot that stays brings the connector    *)
(* the rule names onto the pivot, for every rule but those of the face of  *)
(* connectors 8 to 11.                                                     *)
RulesLand ==
  [][\A b \in Catom :
       (motion[b] # AtRest /\ ~({motion[b].rule.from, motion[b].rule.to} \subseteq BottomFace)) => LandsOn(b)]_vars
=============================================================================
