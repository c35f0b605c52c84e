----------------------------- MODULE MCServices -----------------------------
(***************************************************************************)
(* What the simulator offers around the blocks, for TLC: loading and       *)
(* saving configurations, targets, clocks, the windows and the statistics. *)
(* A behaviour uses one of them, named by service; the variables of the    *)
(* others keep the value they start with.                                  *)
(***************************************************************************)
EXTENDS Target, Lattice, Sequences, FiniteSetsExt, TLC

CONSTANTS Services,  \* the services that a behaviour may use
          NULL, red, grey, NoAttr, BadAttr

VARIABLES
  service,
  kind, clockNow, referencePoints, last, timers,
  linked, distance, source, pass, eccentricity, closeness, center, centroid, radius, diameter,
  now, eventsMap, connectedInterface, outgoingQueue, messageBeingTransmitted, availabilityDate,
  localEventsList, netGrid, netPosition, unsent, moves, exited, stats, collector, dropped,
  moduleType, phase, args, opt, doc, pool, used, scheduler, next, column, docPosition, plane, objects, blocks,
  docGrid, maxBlockId, saved, edits, loads,
  traces, listed, lines, position, mouseDown, select, tracing, late, tabGlBlocks, selectedGlBlock,
  highlighted, numSelectedGlBlock, numSelectedFace, menu, canAdd, position3D, viewGrid, opened, goal, viewMoves, stale,
  tapped, crashed,
  main, debug, mode, hasFocus, text

Some(S) == CHOOSE x \in S : TRUE

-----------------------------------------------------------------------------
(* Texts of targets: a few words over small shapes; angles of a quarter    *)
(* turn and of 36.87 degrees, and a mirror.                                *)
Straight == [cos |-> 1, sin |-> 0, over |-> 1]
Right == [cos |-> 0, sin |-> 1, over |-> 1]
Slant == [cos |-> 4, sin |-> 3, over |-> 5]
SomeFormats == {<<"csg">>, <<"grid", "other", "grid">>}
SomeWords ==
  {Word("union", 0), Word("intersection", 0), Word("difference", 0), End,
   Word("translate", <<1, 0, -2>>), Word("rotate", <<Straight, Straight, Right>>), Word("rotate", <<Right, Straight, Straight>>),
   Word("rotate", <<Straight, Straight, Slant>>), Word("scale", <<1, 2, 1>>), Word("scale", <<-1, 1, 1>>),
   Word("color", red),
   Word("cube", <<2, 2, 4>>), Word("cylinder", <<4, 1>>), Word("sphere", <<1>>)}
SomeExtents == -1 .. 4

-----------------------------------------------------------------------------
(* Clocks whose noise rises, falls faster than the clock runs, ends.       *)
ClockKinds == {"PerfectClock", "GNoiseQClock", "DNoiseQClock"}
ClockSignal == << <<1, 2>>, <<3, -4>>, <<5, 0>> >>
Clocks ==
  INSTANCE Clocks WITH Kinds <- ClockKinds, D2 <- 1, Y0 <- 4, X0 <- 0, Scale <- 4, Noises <- {-2, 2},
    Signal <- ClockSignal, MaxTime <- 3, MaxTimers <- 2, now <- clockNow

-----------------------------------------------------------------------------
(* The distances and centres of every graph of four blocks, an int being   *)
(* eight bits wide.                                                        *)
ConfigStat == INSTANCE ConfigStat WITH NumBlocks <- 4, IntMax <- 127, IntSize <- 256

(* The counters of the blocks: two in a row and a free cell.               *)
Row == <<3, 1, 1>>
Pair == {"b1", "b2"}
PairCell == [b \in Pair |-> IF b = "b1" THEN <<0, 0, 0>> ELSE <<1, 0, 0>>]
Statistics ==
  INSTANCE Statistics WITH Block <- Pair, Dir <- Direction("SCLattice"), Cell <- GridCell(Row),
    DirOrder <- [i \in 1 .. 6 |-> i - 1], CellOrder <- SetToSeq(GridCell(Row)), StartDelay <- {0}, IntLimit <- 9, FarDate <- 10,
    Opposite <- OppositeDirections("SCLattice"), NeighborCell <- NeighborCells("SCLattice", Row, NULL),
    InitialCell <- PairCell, Msg <- {"m1", "m2", "m3"}, TransmissionTime <- {1, 2}, SendDelay <- {0, 1},
    MotionTime <- {3}, EndDelay <- 1, MaximumDate <- 9, MaxSends <- 1, MaxMoves <- 1,
    grid <- netGrid, position <- netPosition

-----------------------------------------------------------------------------
(* Documents of up to two block elements, with an identifier 0 too, and one *)
(* or two lines, for robots and for 3D catoms, on a grid of                *)
(* two cells by two, and the command lines that differ in an option.       *)
E0 == [id |-> NoAttr, position |-> <<0, 0>>, color |-> NoAttr, master |-> FALSE, orientation |-> NoAttr]
Elements ==
  {E0, [E0 EXCEPT !.position = NoAttr], [E0 EXCEPT !.id = 3, !.color = red],
   [E0 EXCEPT !.id = 1, !.position = <<1, 0>>, !.master = TRUE],
   [E0 EXCEPT !.id = 2, !.position = <<1, 1>>, !.color = red, !.orientation = 7],
   [E0 EXCEPT !.id = 0, !.position = <<0, 1>>],
   [E0 EXCEPT !.id = BadAttr, !.position = <<2, 1>>]}
L0 == [line |-> NoAttr, plane |-> NoAttr, values |-> {1}, color |-> NoAttr]
Lines == {L0, [L0 EXCEPT !.line = 1, !.values = {0, 1}, !.color = red], [L0 EXCEPT !.plane = 1],
          [L0 EXCEPT !.line = 1, !.values = NoAttr], [L0 EXCEPT !.line = 1]}
UpTo(S, n) == UNION {[1 .. k -> S] : k \in 0 .. n}
Doc0 == [world |-> TRUE, blockList |-> TRUE, ids |-> NoAttr, step |-> 1, color |-> NoAttr,
         blocks |-> <<E0>>, lines |-> <<L0>>]
Docs ==
  {[Doc0 EXCEPT !.ids = i, !.blocks = b, !.lines = l, !.step = 2] :
     i \in {NoAttr, "MANUAL", "RANDOM"}, b \in UpTo(Elements, 2), l \in UpTo(Lines, 1)}
  \cup {[Doc0 EXCEPT !.lines = l, !.color = red] : l \in UpTo(Lines, 2)}
  \cup {[Doc0 EXCEPT !.ids = "SOME"], [Doc0 EXCEPT !.world = FALSE], [Doc0 EXCEPT !.blockList = FALSE]}
Options == {<<"-r", NoAttr>>, <<"-R", NoAttr>>, <<"-s", "10">>, <<"-s", "inf">>, <<"-s", "bad">>,
            <<"-x", NoAttr>>, <<"-t", NoAttr>>, <<"-g", NoAttr>>, <<"-h", NoAttr>>}
CommandLines ==
  {[type |-> "RB", args |-> a, doc |-> Doc0] : a \in UpTo(Options, 2)}
  \cup {[type |-> "RB", args |-> <<>>, doc |-> d] : d \in Docs}
  \cup {[type |-> "C3D", args |-> <<>>, doc |-> d] : d \in {x \in Docs : x.lines = <<>>}}

Configuration ==
  INSTANCE Configuration WITH SizeX <- 2, SizeY <- 2, Starts <- CommandLines, DarkGrey <- grey,
    IntSpan <- 64, MaxEdits <- 2, MaxLoads <- 2, position <- docPosition, grid <- docGrid

-----------------------------------------------------------------------------
(* A block in a row of two cells, an obstacle, room for a second block; a  *)
(* list with room for a line.                                              *)
Viewer ==
  INSTANCE Viewer WITH Ids <- {1, 2}, Obstacles <- {9}, Shown <- {1, 2, 9}, NoBlock <- 0, Cells <- {1, 2},
    Start <- 1 :> 1, Nbre <- 1, Page <- 2, MaxTraces <- 2, MaxBelow <- 1,
    MaxMoves <- 1, moves <- viewMoves, grid <- viewGrid

Windows == INSTANCE Windows

-----------------------------------------------------------------------------
clockVars == <<kind, clockNow, referencePoints, last, timers>>
graphVars == <<linked, distance, source, pass, eccentricity, closeness, center, centroid, radius, diameter>>
statsVars == <<now, eventsMap, connectedInterface, outgoingQueue, messageBeingTransmitted, availabilityDate,
               localEventsList, netGrid, netPosition, unsent, moves, exited, stats, collector, dropped>>
docVars == <<moduleType, phase, args, opt, doc, pool, used, scheduler, next, column, docPosition, plane, objects, blocks,
             docGrid, maxBlockId, saved, edits, loads>>
viewVars == <<traces, listed, lines, position, mouseDown, select, tracing, late, tabGlBlocks, selectedGlBlock,
              highlighted, numSelectedGlBlock, numSelectedFace, menu, canAdd, position3D, viewGrid, opened, goal, viewMoves, stale,
              tapped, crashed>>
windowVars == <<main, debug, mode, hasFocus, text>>

Unmoved(s) ==
  CASE s = "target"        -> UNCHANGED vars
    [] s = "clocks"        -> UNCHANGED clockVars
    [] s = "configStat"    -> UNCHANGED graphVars
    [] s = "statistics"    -> UNCHANGED statsVars
    [] s = "configuration" -> UNCHANGED docVars
    [] s = "viewer"        -> UNCHANGED viewVars
    [] s = "windows"       -> UNCHANGED windowVars

AllServices == {"target", "clocks", "configStat", "statistics", "configuration", "viewer", "windows"}
Uses(s) == service = s /\ service' = s /\ \A other \in AllServices \ {s} : Unmoved(other)

(* The service that is used starts anywhere, the others at one place.      *)
ServiceInit ==
  /\ service \in Services
  /\ Init /\ (service # "target" => list = Some(Formats))
  /\ Clocks!Init /\ (service # "clocks" => kind = "PerfectClock")
  /\ ConfigStat!Init /\ (service # "configStat" => linked = {})
  /\ Statistics!SInit
  /\ Configuration!Init /\ (service # "configuration" => moduleType = "RB" /\ args = <<>> /\ doc = Doc0)
  /\ Viewer!Init /\ (service # "viewer" => mouseDown = FALSE)
  /\ Windows!Init

ServiceNext ==
  \/ Uses("target") /\ Next
  \/ Uses("clocks") /\ Clocks!Next
  \/ Uses("configStat") /\ ConfigStat!Next
  \/ Uses("statistics") /\ Statistics!SNext
  \/ Uses("configuration") /\ Configuration!Next
  \/ Uses("viewer") /\ Viewer!Next
  \/ Uses("windows") /\ Windows!Next

serviceVars == <<service, vars, clockVars, graphVars, statsVars, docVars, viewVars, windowVars>>
ServiceSpec == ServiceInit /\ [][ServiceNext]_serviceVars

-----------------------------------------------------------------------------
(* A block is found by its identifier, unless an identifier 0 displaced it,*)
(* wherever it came from: the document, the menu or a file saved and loaded*)
(* again, which gives the same blocks; and the pool of identifiers has one *)
(* for each block of the document.                                         *)
BlocksAreFound ==
  service = "configuration" =>
    Configuration!FoundById /\ Configuration!PoolIsUsedUp /\ Configuration!ReloadIsExact

(* A target is what its text says: the tree is that of the text, its       *)
(* border is inside it, and all of it is in its bounding box.              *)
TargetIsText == service = "target" => TreeIsText /\ BorderIsInside /\ TargetIsInBox

(* A clock goes back by its replayed noise only, and its readings agree    *)
(* with the dates it gave for local times.                                 *)
ClocksAreSound == Clocks!NeverGoesBack /\ Clocks!TimersAreKept

(* What the windows show is what is: the selected block is lit, the menu   *)
(* is about the block it was opened on, the slider counts the lines of the *)
(* list and shows one; a line is typed in debugging mode only.             *)
WindowsAgree ==
  /\ service = "viewer" => /\ Viewer!SelectionIsLit /\ Viewer!MenuKeepsItsBlock
                            /\ Viewer!LinesAreCounted /\ Viewer!ListIsNotBlank
  /\ service = "windows" => Windows!PanelsAgree /\ Windows!TypedInDebugMode

(* The counters of the queues and messages add up with the queues, and the *)
(* statistics of a configuration are those of its graph.                   *)
StatisticsAgree ==
  /\ service = "statistics" => Statistics!QueuesAreCounted /\ Statistics!MessagesAddUp
  /\ service = "configStat" => ConfigStat!DistancesAreExact /\ ConfigStat!CentersAreCentral
=============================================================================
