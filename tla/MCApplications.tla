--------------------------- MODULE MCApplications ---------------------------
(***************************************************************************)
(* The applications and the block types that turn, for TLC.  A simulation  *)
(* runs one application on one type of blocks: app says which, and the     *)
(* variables of the others keep the value they start with.                 *)
(***************************************************************************)
EXTENDS Robot01, Catoms2D, Floods, Functions

CONSTANTS Apps   \* the applications that a behaviour may run

VARIABLES
  app,
  sbPlace, sbMoving, target, sbBlock, sbQueue, sbStarts, sbEnds, sbCrashed, moves,
  grid3D, position3D, orientationCode, connected3D, motion3D, motions, crashed3D, pivot

Some(S) == CHOOSE x \in S : TRUE
Sym(E) == E \cup {<<e[2], e[1]>> : e \in E}

-----------------------------------------------------------------------------
(* Robot01 with the train rules of config.xml, on connected placements of  *)
(* four blocks: trains of two and three blocks slide along a wall or turn  *)
(* around its end.                                                         *)
RobotSize == <<4, 4, 2>>
RobotNeighborCell == NeighborCells("SCLattice", RobotSize, <<>>)

(* A rule of the configuration, by the digits of its middle layer.         *)
TrainRule(head, end, level, links, middle, prev, next, path) ==
  [isHead |-> head, isEnd |-> end, level |-> level, conditions |-> links,
   matrix |-> <<8, 8, 8, 8, 0, 8, 8, 8, 8>> \o middle \o <<8, 8, 8, 8, 8, 8, 8, 8, 8>>,
   linkPrev |-> prev, linkNext |-> next, motions |-> path]

Mv(obj, time, from, to) == [obj |-> obj, endTime |-> time + 1, init |-> from, final |-> to]

Unset == <<>>
Here == <<0, 0, 0>>
West == <<-1, 0, 0>>
East == <<1, 0, 0>>
North == <<0, 1, 0>>

Slides == <<Mv(0, 0, Here, East), Mv(1, 0, West, Here)>>
Turns == <<Mv(0, 0, Here, North), Mv(1, 1, West, Here)>>

RobotRules ==
  << TrainRule(TRUE, FALSE, 11, 2, <<8, 3, 8, 7, 7, 5, 0, 8, 0>>, Unset, West, Slides),
     TrainRule(FALSE, TRUE, 11, 1, <<8, 3, 8, 8, 6, 7, 8, 8, 0>>, East, Unset, <<Mv(0, 0, Here, East)>>),
     TrainRule(FALSE, TRUE, 11, 1, <<8, 0, 3, 8, 6, 7, 8, 8, 0>>, East, Unset, <<Mv(0, 0, Here, East)>>),
     TrainRule(TRUE, FALSE, 12, 2, <<3, 5, 0, 7, 7, 0, 0, 0, 8>>, Unset, West, Turns),
     TrainRule(FALSE, FALSE, 13, 3, <<8, 3, 8, 7, 7, 7, 0, 8, 0>>, East, West, Slides),
     TrainRule(FALSE, FALSE, 14, 3, <<3, 7, 0, 7, 7, 0, 0, 0, 8>>, North, West, Turns) >>

RobotTarget == [p \in GridCell(RobotSize) |-> IF p[2] = 1 /\ p[3] = 0 THEN "full" ELSE "empty"]

(* Every connected placement around two blocks, its cells taken in order.  *)
Connected(cells) ==
  \A part \in SUBSET cells : part \in {{}, cells} \/
     \E p \in part, q \in cells \ part : q \in Range(RobotNeighborCell[p])

Placed(cells) == SetToSortSeq(cells, LAMBDA p, q : p[1] + (4 * p[2]) < q[1] + (4 * q[2]))

Middle == {<<1, 1, 0>>, <<2, 1, 0>>}
RobotStart ==
  LET nearby == {<<x, y, 0>> : x \in 1..3, y \in 1..2} \ Middle
      shapes == {Middle \cup pair : pair \in kSubset(2, nearby)}
  IN {[cells |-> Placed(c), master |-> m, target |-> RobotTarget] :
        c \in {s \in shapes : Connected(s)}, m \in 1..4}

ASSUME RobotsAreSound == RobotAssumption

-----------------------------------------------------------------------------
(* sbReconf on six blocks with the first rules of its capabilities.xml: the *)
(* ends and heads of trains, the blocks that move alone, the bodies that   *)
(* go ahead and turn left.  A digit of a matrix is that of the file; Free  *)
(* is a direction that it leaves out, H a head, E an end.                  *)
Free == <<0, 0>>
Go(v, cells) == <<[time |-> 0, vect |-> v, path |-> cells, unlock |-> <<>>]>>
SbRule(kind, states, prev, prevDir, next, corner, single, path, unlock) ==
  [isHead |-> kind \in {"H", "HE"}, isEnd |-> kind \in {"E", "HE"}, isAngle |-> corner,
   matrix |-> states, linkPrev |-> prev, linkNext |-> next, prevDir |-> prevDir,
   singleDir |-> single, motions |-> path, unlock |-> unlock]

SbRules ==
  <<
     SbRule("H", <<8, 7, 8, 7, 7, 5, 8, 0, 0>>, <<1, 0>>, Free, <<-1, 0>>,
          FALSE, Unset, Go(<<1, 0>>, <<>>), <<>>),
     SbRule("HE", <<7, 5, 8, 7, 4, 8, 8, 0, 8>>, <<-1, 0>>, Free, Unset,
          FALSE, <<0, 1>>, Go(<<0, 1>>, <<3, 1>>), <<>>),
     SbRule("E", <<0, 8, 8, 7, 4, 8, 7, 0, 8>>, <<-1, 0>>, <<-1, 0>>, Unset,
          FALSE, Unset, Go(<<-1, 0>>, <<>>), <<>>),
     SbRule("E", <<8, 8, 8, 7, 4, 0, 3, 7, 8>>, <<-1, 0>>, <<-1, 0>>, Unset,
          FALSE, Unset, Go(<<-1, 0>>, <<>>), <<>>),
     SbRule("E", <<3, 7, 8, 3, 4, 0, 3, 7, 8>>, <<0, 1>>, <<1, 0>>, Unset,
          FALSE, Unset, Go(<<0, 1>>, <<>>), <<>>),
     SbRule("E", <<7, 0, 7, 7, 4, 7, 3, 3, 3>>, <<-1, 0>>, <<1, 0>>, Unset,
          FALSE, Unset, Go(<<-1, 0>>, <<>>), <<>>),
     SbRule("HE", <<7, 5, 0, 7, 6, 0, 7, 0, 0>>, <<-1, 0>>, Free, Unset,
          FALSE, Unset, Go(<<0, 1>>, <<3, 1>>), <<>>),
     SbRule("HE", <<7, 5, 1, 7, 6, 0, 7, 0, 0>>, <<-1, 0>>, Free, Unset,
          FALSE, Unset, Go(<<0, 1>>, <<3, 1>>), <<>>),
     SbRule("HE", <<7, 5, 1, 7, 6, 1, 7, 0, 0>>, <<-1, 0>>, Free, <<1, 0>>,
          FALSE, Unset, Go(<<0, 1>>, <<3, 1>>), <<>>),
     SbRule("HE", <<7, 5, 1, 7, 6, 1, 7, 0, 1>>, <<-1, 0>>, Free, <<1, 0>>,
          FALSE, Unset, Go(<<0, 1>>, <<3, 1>>), <<>>),
     SbRule("HE", <<0, 0, 8, 7, 6, 1, 7, 0, 8>>, <<-1, 0>>, <<-1, 0>>, <<1, 0>>,
          FALSE, Unset, Go(<<-1, 0>>, <<>>), <<>>),
     SbRule("", <<0, 0, 8, 7, 7, 1, 3, 7, 8>>, <<-1, 0>>, <<-1, 0>>, <<1, 0>>,
          FALSE, Unset, Go(<<-1, 0>>, <<>>), <<>>),
     SbRule("E", <<8, 8, 3, 8, 6, 7, 8, 0, 0>>, <<1, 0>>, <<1, 0>>, Unset,
          FALSE, Unset, Go(<<1, 0>>, <<>>), <<>>),
     SbRule("E", <<8, 8, 3, 8, 6, 7, 8, 0, 7>>, <<1, 0>>, <<0, -1>>, Unset,
          FALSE, Unset, Go(<<1, 0>>, <<>>), <<>>),
     SbRule("E", <<8, 7, 7, 8, 6, 7, 8, 0, 0>>, <<1, 0>>, <<1, 0>>, Unset,
          FALSE, Unset, Go(<<1, 0>>, <<>>), <<>>),
     SbRule("E", <<8, 7, 3, 8, 6, 7, 8, 0, 0>>, <<1, 0>>, <<0, 1>>, Unset,
          FALSE, Unset, Go(<<1, 0>>, <<>>), <<>>),
     SbRule("E", <<8, 7, 7, 8, 6, 7, 8, 0, 7>>, <<1, 0>>, <<0, -1>>, Unset,
          FALSE, Unset, Go(<<1, 0>>, <<>>), <<>>),
     SbRule("E", <<8, 8, 7, 8, 6, 7, 8, 0, 0>>, <<1, 0>>, <<1, 0>>, Unset,
          FALSE, Unset, Go(<<1, 0>>, <<>>), <<>>),
     SbRule("E", <<8, 7, 7, 8, 6, 7, 8, 0, 0>>, <<1, 0>>, <<0, 1>>, Unset,
          FALSE, Unset, Go(<<1, 0>>, <<>>), <<>>),
     SbRule("E", <<8, 3, 7, 8, 6, 7, 8, 0, 0>>, <<1, 0>>, <<0, 1>>, Unset,
          FALSE, Unset, Go(<<1, 0>>, <<>>), <<>>),
     SbRule("E", <<7, 7, 0, 0, 6, 7, 0, 0, 0>>, <<1, 0>>, Free, Unset,
          FALSE, Unset, Go(<<1, 0>>, <<>>), <<>>),
     SbRule("E", <<0, 1, 8, 7, 6, 0, 7, 0, 0>>, <<-1, 0>>, <<-1, 0>>, Unset,
          FALSE, Unset, Go(<<-1, 0>>, <<>>), <<>>),
     SbRule("H", <<7, 5, 0, 7, 7, 0, 0, 0, 8>>, <<0, 1>>, Free, <<-1, 0>>,
          TRUE, Unset, Go(<<0, 1>>, <<>>), <<3, 2>>),
     SbRule("", <<8, 3, 8, 7, 7, 7, 8, 0, 8>>, <<1, 0>>, <<1, 0>>, <<-1, 0>>,
          FALSE, Unset, Go(<<1, 0>>, <<>>), <<>>),
     SbRule("", <<8, 7, 8, 4, 7, 7, 8, 0, 8>>, <<1, 0>>, <<1, 0>>, <<-1, 0>>,
          FALSE, Unset, Go(<<1, 0>>, <<>>), <<>>),
     SbRule("", <<8, 7, 8, 4, 7, 7, 8, 0, 8>>, <<1, 0>>, <<0, 1>>, <<-1, 0>>,
          FALSE, Unset, Go(<<1, 0>>, <<>>), <<>>),
     SbRule("", <<8, 7, 8, 4, 7, 7, 8, 0, 8>>, <<1, 0>>, <<0, -1>>, <<-1, 0>>,
          FALSE, Unset, Go(<<1, 0>>, <<>>), <<>>),
     SbRule("", <<8, 3, 8, 7, 7, 7, 8, 0, 8>>, <<1, 0>>, <<0, 1>>, <<-1, 0>>,
          FALSE, Unset, Go(<<1, 0>>, <<>>), <<>>),
     SbRule("", <<8, 3, 8, 7, 7, 7, 8, 0, 8>>, <<1, 0>>, <<0, -1>>, <<-1, 0>>,
          FALSE, Unset, Go(<<1, 0>>, <<>>), <<>>),
     SbRule("", <<8, 7, 8, 7, 7, 7, 8, 0, 8>>, <<1, 0>>, <<1, 0>>, <<-1, 0>>,
          FALSE, Unset, Go(<<1, 0>>, <<>>), <<>>),
     SbRule("", <<8, 7, 8, 7, 7, 7, 8, 0, 8>>, <<1, 0>>, <<0, 1>>, <<-1, 0>>,
          FALSE, Unset, Go(<<1, 0>>, <<>>), <<>>),
     SbRule("", <<8, 7, 8, 7, 7, 7, 8, 0, 8>>, <<1, 0>>, <<0, -1>>, <<-1, 0>>,
          FALSE, Unset, Go(<<1, 0>>, <<>>), <<>>),
     SbRule("", <<8, 7, 8, 7, 7, 7, 8, 0, 8>>, <<1, 0>>, <<0, 1>>, <<-1, 0>>,
          FALSE, Unset, Go(<<1, 0>>, <<>>), <<>>),
     SbRule("", <<3, 7, 8, 7, 7, 0, 8, 0, 8>>, <<0, 1>>, <<0, 1>>, <<-1, 0>>,
          TRUE, Unset, Go(<<0, 1>>, <<>>), <<3, 2>>),
     SbRule("", <<3, 7, 8, 7, 7, 0, 8, 0, 8>>, <<0, 1>>, <<1, 0>>, <<-1, 0>>,
          TRUE, Unset, Go(<<0, 1>>, <<>>), <<3, 2>>),
     SbRule("", <<7, 7, 0, 7, 7, 0, 8, 0, 8>>, <<0, 1>>, <<0, 1>>, <<-1, 0>>,
          TRUE, Unset, Go(<<0, 1>>, <<>>), <<3, 2>>),
     SbRule("", <<7, 7, 7, 7, 7, 0, 8, 0, 8>>, <<0, 1>>, <<1, 0>>, <<-1, 0>>,
          TRUE, Unset, Go(<<0, 1>>, <<>>), <<3, 2>>)
  >>

(* Two rows of three blocks, as the configurations start from a rectangle, *)
(* and a staircase from which a block moves alone.                         *)
SbSize == <<6, 5>>
Rows == [b \in 1..6 |-> <<1 + ((b - 1) % 3), 1 + ((b - 1) \div 3)>>]
Stairs == << <<2, 1>>, <<2, 2>>, <<2, 3>>, <<3, 1>>, <<3, 2>>, <<4, 2>> >>
SbTargets ==
  {(2..3) \X (3..4) \cup {<<3, 2>>}, (3..4) \X (2..4), (2..4) \X (1..2)}
SbStart ==
  {[cells |-> Rows, target |-> t] : t \in SbTargets} \cup {[cells |-> Stairs, target |-> {3} \X (0..4)]}

SbReconf ==
  INSTANCE SbReconf WITH Block <- 1..6, Size <- SbSize, Start <- SbStart, Rules <- SbRules,
    NoItf <- NULL, MaxMoves <- 8, place <- sbPlace, moving <- sbMoving, block <- sbBlock,
    queue <- sbQueue, starts <- sbStarts, ends <- sbEnds, crashed <- sbCrashed

-----------------------------------------------------------------------------
(* The floods, on graphs with cycles and branches.                         *)
MCSphereGraphs ==
  {Sym(E) : E \in {{<<1,2>>,<<2,3>>,<<3,4>>,<<1,4>>,<<4,5>>}, {<<1,2>>,<<2,3>>,<<1,3>>,<<3,4>>},
                   {<<1,2>>,<<2,3>>,<<3,4>>,<<4,5>>,<<1,5>>,<<2,5>>}}}
MCSmartGraphs ==
  {Sym(E) : E \in {{<<1,3>>,<<3,4>>,<<4,5>>,<<1,5>>,<<4,2>>}, {<<1,3>>,<<3,4>>,<<1,4>>,<<4,5>>,<<5,2>>},
                   {<<1,3>>,<<3,4>>,<<4,2>>,<<1,5>>,<<5,3>>}}
                  \cup SUBSET {<<1,2>>,<<1,3>>,<<1,4>>,<<2,3>>,<<2,4>>,<<3,4>>}}
MCCsgPlacements == {<< <<0,0,0>>, <<1,0,0>>, <<0,1,0>>, <<1,1,0>>, <<0,0,1>> >>,
                    << <<1,1,1>>, <<2,1,1>>, <<2,2,2>>, <<1,1,0>>, <<4,4,4>> >>}
MCCsgCodes == {[c \in 1..5 |-> o] : o \in {0, 5, 17, 22}} \cup {<<0, 0, 5, 17, 22>>}
MCCsgShape(p) == p[1] >= 0 /\ p[3] \in -1..1 /\ p[2] # 1

-----------------------------------------------------------------------------
(* Three 2D catoms side by side, or two and one that is far from them.     *)
(* Each turns, or two turn twice, or one as far as its angle counts.       *)
Starts2D == {<< <<2, 0, 1>>, <<3, 0, 1>>, <<1, 0, 1>> >>, << <<2, 0, 1>>, <<3, 0, 1>>, <<0, 0, 0>> >>}
Budget2D == { <<1, 1, 1>>, <<0, 2, 2>>, <<0, 8, 0>> }
Grid2D == <<4, 1, 3>>

(* A 3D catom in the middle of the grid, another beside it on any side and *)
(* in any orientation, and a third below.                                  *)
Centre == <<1, 1, 1>>
Beside(d) == NextCell("FCCLattice", Centre, d)
Starts3D ==
  {[cell |-> <<Centre, Beside(d), Beside(8)>>, code |-> <<3, o, 0>>] :
     d \in Direction("FCCLattice") \ {8}, o \in 0..23}

Solid ==
  INSTANCE Catoms3D WITH Catom <- 1..3, Grid <- <<3, 3, 3>>, Starts <- Starts3D, NbRotationSteps <- 1,
    MaxMotions <- 1, grid <- grid3D, position <- position3D, connectedInterface <- connected3D,
    motion <- motion3D, crashed <- crashed3D

ASSUME SolidAssumption == Solid!Catoms3DAssumption

-----------------------------------------------------------------------------
sbVars == <<sbPlace, sbMoving, target, sbBlock, sbQueue, sbStarts, sbEnds, sbCrashed, moves>>
sphereVars == <<sphereLinks, sphereDistance, radius, sphereBag>>
smartVars == <<smartLinks, my_distance, colored, smartBag>>
csgVars == <<cell, csgCode, myPosition, visible, csgBag>>
vars3D == <<grid3D, position3D, orientationCode, connected3D, motion3D, motions, crashed3D, pivot>>

Unmoved(a) ==
  CASE a = "robot01"        -> UNCHANGED robotVars
    [] a = "sbReconf"       -> UNCHANGED sbVars
    [] a = "sphereCatoms3D" -> UNCHANGED sphereVars
    [] a = "smartBlocks1"   -> UNCHANGED smartVars
    [] a = "csgCatoms3D"    -> UNCHANGED csgVars
    [] a = "catoms2D"       -> UNCHANGED vars
    [] a = "catoms3D"       -> UNCHANGED vars3D

AllApps == {"robot01", "sbReconf", "sphereCatoms3D", "smartBlocks1", "csgCatoms3D", "catoms2D", "catoms3D"}
Runs(a) == app = a /\ app' = app /\ \A other \in AllApps \ {a} : Unmoved(other)

(* The application that runs starts anywhere, the others at one place; the *)
(* blocks of robot01 are not there when it does not run.                   *)
NoRobots ==
  /\ place = <<>> /\ block = <<>> /\ queue = <<>> /\ moving = {} /\ starts = {} /\ ends = {}
  /\ robotCrashed = TRUE /\ trains = 0

AppInit ==
  /\ app \in Apps
  /\ IF app = "robot01" THEN RobotInit ELSE NoRobots
  /\ IF app = "sbReconf" THEN SbReconf!SbInit ELSE SbReconf!StartFrom(Some(SbStart))
  /\ Sphere!Init /\ (app # "sphereCatoms3D" => sphereLinks = Some(SphereGraphs))
  /\ Smart!Init /\ (app # "smartBlocks1" => smartLinks = Some(SmartGraphs))
  /\ Csg!Init /\ (app # "csgCatoms3D" => cell = Some(CsgPlacements) /\ csgCode = Some(CsgCodes))
  /\ Init /\ (app # "catoms2D" => position = Some(Starts) /\ clicks = Some(Budget))
  /\ Solid!Init
  /\ app # "catoms3D" => LET s == Some(Starts3D) IN position3D = s.cell /\ orientationCode = s.code

AppNext ==
  \/ Runs("robot01") /\ RobotNext
  \/ Runs("sbReconf") /\ SbReconf!SbNext
  \/ Runs("sphereCatoms3D") /\ Sphere!Next
  \/ Runs("smartBlocks1") /\ Smart!Next
  \/ Runs("csgCatoms3D") /\ Csg!Next
  \/ Runs("catoms2D") /\ Next
  \/ Runs("catoms3D") /\ Solid!Next

appVars == <<app, robotVars, sbVars, sphereVars, smartVars, csgVars, vars, vars3D>>
AppSpec == AppInit /\ [][AppNext]_appVars

-----------------------------------------------------------------------------
(* In sbReconf a block takes its place in the border once and is counted   *)
(* at a moment when nothing moves; the count of the blocks in their place  *)
(* is that of the lattice.                                                 *)
CountIsExact ==
  /\ SbReconf!CountIsExact
  /\ [](app = "sbReconf" => SbReconf!BorderOnce /\ SbReconf!CountedAtRest)

(* A rotation ends with the connector it names on the pivot it turned on,  *)
(* in two and in three dimensions, and after any rotations in three        *)
(* dimensions the links are those of the sides that touch, as the catoms   *)
(* are turned.  (In two dimensions that is FacesAgree.)                    *)
RotationsLand == ContactIsKept /\ Solid!RulesLand /\ [](app = "catoms3D" => Solid!ConnectorsAgree)
=============================================================================
