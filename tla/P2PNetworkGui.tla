---------------------------- MODULE P2PNetworkGui ----------------------------
(***************************************************************************)
(* P2PNetwork with the user: the popup menu and World::menuChoice, called  *)
(* by the GLUT thread between two events of the scheduler thread           *)
(* (SchedulerThreads has the finer interleavings of the two threads).      *)
(***************************************************************************)
EXTENDS P2PNetwork

CONSTANT MaxClicks  \* bound: menu choices in a run

VARIABLES
  shown,   \* World::tabGlBlocks, the blocks the user can select
  menu,    \* the popup menu: the selected block and face, NULL if it is not shown
  wiped,   \* history: a cell was freed under a block that was not the one disconnected
  clicks   \* menu choices so far

guiVars == <<vars, shown, menu, wiped, clicks>>

Menu == [block : Block, face : Dir, canAdd : BOOLEAN]

GuiInit ==
  /\ Init
  /\ shown = {b \in Block : position[b] # NULL}
  /\ menu = NULL
  /\ wiped = FALSE
  /\ clicks = 0

-----------------------------------------------------------------------------
Free(c) == c # NULL /\ ~HasBlock(grid, c)

FaceCell(b, d) == NeighborCell[position[b]][d]

(* World::createPopupMenu: the button to add is active if the cell at the  *)
(* selected face is free at this moment (canAddBlockToFace).               *)
OpenMenu(b, d) ==
  /\ ~exited
  /\ menu = NULL
  /\ clicks < MaxClicks
  /\ b \in shown
  /\ menu' = [block |-> b, face |-> d, canAdd |-> Free(FaceCell(b, d))]
  /\ UNCHANGED <<vars, shown, wiped, clicks>>

(* World::menuChoice: the menu is hidden, the choice is carried out. *)
Choose ==
  /\ ~exited
  /\ menu # NULL
  /\ menu' = NULL
  /\ clicks' = clicks + 1

(* Choice 1: a new block b in the cell that is at the selected face now:   *)
(* addBlock, which leaves the program if that cell is out of the grid or   *)
(* taken, then linkBlock and linkNeighbors.  schedule() reads the date of  *)
(* the scheduler.                                                          *)
AddBlock(b) ==
  /\ Choose
  /\ menu.canAdd
  /\ position[b] = NULL
  /\ LET c == FaceCell(menu.block, menu.face)
     IN  IF Free(c)
         THEN LET g == [grid EXCEPT ![c] = b]
                  w == Linking(connectedInterface, g, Around(c))
              IN  /\ position' = [position EXCEPT ![b] = c]
                  /\ grid' = g
                  /\ connectedInterface' = w.links
                  /\ eventsMap' =
                       ScheduleAll(Schedule(eventsMap, now, now, Event("CodeStart", b, NULL)),
                                   now, now, w.notices)
                  /\ shown' = shown \cup {b}
                  /\ UNCHANGED exited
         ELSE /\ exited' = TRUE
              /\ UNCHANGED <<worldVars, eventsMap, shown>>
  /\ UNCHANGED <<now, interfaceVars, localEventsList, codeVars, wiped>>

(* disconnectBlock frees the cell of the position of b, which b has left   *)
(* if it is moving, or which it gave up when it was deleted: another block *)
(* may be there.                                                           *)
Wipes(b) == grid[position[b]] \notin {b, NULL}

(* Choice 2: deleteBlock cuts the links of the selected block and forgets  *)
(* its picture.  The block and its events stay, those of a motion too,     *)
(* which go on and write to the picture that was deleted: the program may  *)
(* stop there, or go on as below.                                          *)
DeleteBlock(b) ==
  /\ Choose
  /\ b = menu.block
  /\ DisconnectBlock(b)
  /\ wiped' = (wiped \/ Wipes(b))
  /\ eventsMap' =
       ScheduleAll(eventsMap, now, now, Notices("RemoveNeighbor", CutInterfaces(b)))
  /\ shown' = shown \ {b}
  /\ UNCHANGED <<now, position, messageBeingTransmitted, availabilityDate,
                 localEventsList, codeVars, exited>>

User ==
  \/ \E b \in Block, d \in Dir : OpenMenu(b, d)
  \/ \E b \in Block : DeleteBlock(b) \/ AddBlock(b)

(* The event the scheduler is about to consume disconnects a block. *)
WipesNext ==
  \E t \in Time :
    /\ IsFirstDate(eventsMap, t)
    /\ Head(eventsMap[t]).kind = "TranslationStart"
    /\ Wipes(Head(eventsMap[t]).on)

Scheduler ==
  /\ Next
  /\ wiped' = (wiped \/ WipesNext)
  /\ UNCHANGED <<shown, menu, clicks>>

GuiSpec == GuiInit /\ [][Scheduler \/ User]_guiVars

-----------------------------------------------------------------------------
(* Properties. *)

(* The user deletes blocks, moving ones too, and adds others while their   *)
(* events are pending; yet the links are those of the lattice as long as   *)
(* disconnectBlock has not freed a cell under another block                *)
(* (world.cpp:162): nothing else can set them apart.                       *)
LinksMatchUnlessWiped == ~wiped => LinksMatchLattice

-----------------------------------------------------------------------------
(* What of the invariant of P2PNetwork the user leaves true.  The buffers  *)
(* and the wires are not among it: a link that is cut and made again finds *)
(* the start event of the one before, and then another, so that a message  *)
(* on the wire is overwritten and the second stop event delivers none.     *)

GuiLocalEvent == LocalEvent \cup {Received(NULL)}

GuiTypeOK ==
  /\ now \in Time
  /\ eventsMap \in [Time -> Seq(EventType)]
  /\ connectedInterface \in [NI -> NI \cup {NULL}]
  /\ outgoingQueue \in [NI -> Seq(Msg)]
  /\ messageBeingTransmitted \in [NI -> Packet \cup {NULL}]
  /\ availabilityDate \in [NI -> Nat]
  /\ localEventsList \in [Block -> Seq(GuiLocalEvent)]
  /\ grid \in [Cell -> Block \cup {NULL}]
  /\ position \in [Block -> Cell \cup {NULL}]
  /\ unsent \in SUBSET Msg
  /\ moves \in Nat
  /\ exited \in BOOLEAN
  /\ shown \subseteq {b \in Block : position[b] # NULL}
  /\ menu \in Menu \cup {NULL}
  /\ menu # NULL => menu.block \in shown
  /\ wiped \in BOOLEAN
  /\ clicks \in Nat

(* A block has one motion at a time, and is nowhere between its start and  *)
(* its stop.  The user may take its goal, and its cell.                    *)
Orderly(k, b, c) ==
  /\ \E d \in Time : OnlyAt(eventsMap, Motion(k, b, c), d)
  /\ position[b] # NULL
  /\ k = "TranslationStop" => \A x \in Cell : grid[x] # b
  /\ \A l \in MotionKind, x \in Cell :
       Pending(eventsMap, Motion(l, b, x)) => l = k /\ x = c

MotionsAreOrderly ==
  \A k \in MotionKind, b \in Block, c \in Cell :
    Pending(eventsMap, Motion(k, b, c)) => Orderly(k, b, c)

GuiInv ==
  /\ GuiTypeOK
  /\ NothingOverdue
  /\ LocalListIsServed
  /\ GridMatchesPositions
  /\ LinksMatchUnlessWiped
  /\ MotionsAreOrderly
=============================================================================
