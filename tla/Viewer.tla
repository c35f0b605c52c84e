------------------------------- MODULE Viewer --------------------------------
(***************************************************************************)
(* The user and the blocks on the screen (openglViewer.cpp, world.cpp,      *)
(* blinkyBlocksWorld.cpp): the drawn blocks can be picked, selected, tapped,*)
(* deleted and given a neighbour from a popup menu, while the simulation    *)
(* runs.  Picking draws the blocks again and answers the number n of the    *)
(* nearest one under the mouse, 0 when there is none: the n-th of           *)
(* tabGlBlocks, which shrinks when a block is deleted.                      *)
(*                                                                         *)
(* A graphical block is the id of its block; the obstacles have the id -1,  *)
(* which no block has, and are told apart here.  A block has a face on      *)
(* either side; a cell is a place in a row.                                 *)
(*                                                                         *)
(* The main window (interface.cpp) lists the traces that the block codes    *)
(* write, those of the selected block, or all, and a slider chooses the     *)
(* line the list starts with.  The GUI thread selects, moves the slider and *)
(* draws; the thread of the scheduler adds traces while it runs             *)
(* (Scheduler::trace), and only it takes mutex_trace.  A trace is the block *)
(* that wrote it.  Of the slider's geometry there remain the number of      *)
(* lines it counts, the line the list starts with and whether the mouse     *)
(* holds it.                                                               *)
(***************************************************************************)
EXTENDS Integers, Sequences, SequencesExt, FiniteSets

CONSTANTS Shown,      \* the graphical blocks there may ever be
          NoBlock,    \* NULL
          Nbre,       \* nbreTextLines, the lines that fit in the window
          Page,       \* the lines a click beside the slider's button skips
          MaxTraces,  \* bound: traces ever written
          MaxBelow    \* bound: clicks on the lower arrow below line 0

CONSTANTS Ids,        \* the block ids, from 1 on
          Obstacles,  \* the obstacles of the configuration
          Cells,      \* the cells of the grid, from 1 on
          Start,      \* the cell of each block of the configuration
          MaxMoves    \* bound: motions in a run

VARIABLES traces,       \* GlutSlidingMainWindow::traces
          listed,       \* GlutSlidingMainWindow::selectedGlBlock
          lines,        \* GlutSlider::dataTextLines
          position,     \* GlutSlider::dataPosition
          mouseDown,    \* GlutSlider::mouseDown
          select,       \* where the GUI thread is in select()
          tracing,      \* where the thread of the scheduler is in addTrace()
          late          \* the traces written while select() counted

VARIABLES tabGlBlocks,         \* the graphical blocks, in the order drawn
          selectedGlBlock,     \* World::selectedGlBlock
          highlighted,         \* the graphical blocks with isHighlighted
          numSelectedGlBlock,  \* index in tabGlBlocks, from 0
          numSelectedFace,     \* the face the menu was asked for, 7: none
          menu,                \* popupMenu: "none", "hidden", "shown"
          canAdd,              \* the button that adds a block is active
          position3D,          \* the cell of every block ever made
          grid,                \* the block of each cell, NoBlock if free
          opened,              \* the graphical block the menu was opened on
          goal,                \* the cell a moving block goes to, 0: not moving
          moves,               \* the motions so far
          stale,               \* a block set off or arrived since the menu opened
          tapped,              \* the tap the last step scheduled
          crashed              \* what has been read through a bad pointer

list == <<traces, listed, lines, position, mouseDown, select, tracing, late>>

Idle == [at |-> "idle"]

\* The traces the main window is asked to list: those of one block, or all.
Of(b) == IF b = NoBlock THEN traces ELSE SelectSeq(traces, LAMBDA t : t = b)

-----------------------------------------------------------------------------
(* The slider *)

IsFull == lines = 0 \/ Nbre >= lines
\* Mutant: the last lines are not kept in the window.
NotPastLastLine(p) == IF p > lines THEN lines ELSE p

NotPast(p) == IF p > lines - Nbre THEN lines - Nbre ELSE p
FromZero(p) == IF p < 0 THEN 0 ELSE p

\* The mouse is pressed on the slider, or dragged over it: motionFunc gives
\* the windows the state GLUT_DOWN.  Only the page before stops at line 0.
PressSlider ==
  /\ ~mouseDown /\ select = Idle
  /\ mouseDown' = TRUE
  /\ \/ position' = NotPast(position + 1)
     \/ position > -MaxBelow /\ position' = NotPast(position - 1)
     \/ position' = NotPast(position + Page)
     \/ ~IsFull /\ position > 0 /\ position' = FromZero(position - Page)
     \/ position' = position
  /\ UNCHANGED <<traces, listed, lines, select, tracing, late>>

\* While the mouse holds the slider every event of the window moves it, to
\* wherever the mouse is, and a release lets go; a release outside of the
\* window is not heard.
Drag ==
  /\ mouseDown /\ select = Idle
  /\ IF IsFull THEN position' = position ELSE position' \in 0..(lines - Nbre)
  /\ mouseDown' \in BOOLEAN
  /\ UNCHANGED <<traces, listed, lines, select, tracing, late>>

-----------------------------------------------------------------------------
(* The traces *)

\* GlutSlidingMainWindow::select: the window lists the block b from now on;
\* then the traces are counted, and then the slider is given the count.
Select(b) == listed' = b /\ select' = [at |-> "counting", block |-> b]

\* Mutant: the traces of every block are counted.
CountEveryTrace ==
  /\ select.at = "counting"
  /\ select' = [at |-> "counted", n |-> Len(traces)]
  /\ late' = IF tracing # Idle THEN 1 ELSE 0
  /\ UNCHANGED <<traces, listed, lines, position, mouseDown, tracing>>

Count ==
  /\ select.at = "counting"
  /\ select' = [at |-> "counted", n |-> Len(Of(select.block))]
  /\ late' = IF tracing # Idle THEN 1 ELSE 0
  /\ UNCHANGED <<traces, listed, lines, position, mouseDown, tracing>>

SetDataTextLines ==
  /\ select.at = "counted"
  /\ lines' = select.n /\ position' = 0 /\ select' = Idle
  /\ UNCHANGED <<traces, listed, mouseDown, tracing, late>>

\* A block code writes a trace: GlutSlidingMainWindow::addTrace stores it and
\* tests which block is listed ...
AddTrace(b) ==
  /\ tracing = Idle /\ Len(traces) < MaxTraces
  /\ traces' = Append(traces, b)
  /\ tracing' = [at |-> "counting", block |-> b, seen |-> listed]
  /\ late' = IF select.at = "counted" THEN late + 1 ELSE late
  /\ UNCHANGED <<listed, lines, position, mouseDown, select>>

\* ... then it reads the listed block a second time, to compare it with the
\* block of the trace: the compiler may keep the first reading, and the block
\* may have been deleted, where any id may be read.
Again == {tracing.seen, listed} \cup (IF listed = NoBlock THEN Shown ELSE {})

\* The slider counts the new line if it is listed.
EndTrace ==
  /\ tracing.at = "counting"
  /\ \E b \in IF tracing.seen = NoBlock THEN {tracing.block} ELSE Again \ {NoBlock} :
       lines' = IF b = tracing.block THEN lines + 1 ELSE lines
  /\ tracing' = Idle
  /\ UNCHANGED <<traces, listed, position, mouseDown, select, late>>

\* What glDraw writes: it skips `position' of the listed traces one by one
\* until the number left to skip is 0, which one below 0 never is.
Drawn == LET of == Of(listed) IN
  IF position < 0 THEN <<>> ELSE SubSeq(of, position + 1, Len(of))

-----------------------------------------------------------------------------

\* mouseDown has no initial value.
ListInit ==
  /\ traces = <<>> /\ listed = NoBlock /\ lines = 0 /\ position = 0
  /\ mouseDown \in BOOLEAN /\ select = Idle /\ tracing = Idle /\ late = 0

-----------------------------------------------------------------------------
(* The blocks on the screen *)

world == <<tabGlBlocks, selectedGlBlock, highlighted, numSelectedGlBlock,
           numSelectedFace, menu, canAdd, position3D, grid, opened, goal, moves, stale>>
vars  == <<list, world, tapped, crashed>>

Faces   == {0, 1}                       \* lattice->getMaxNumNeighbors() is 2
Next2(cell, face) == IF face = 0 THEN cell - 1 ELSE cell + 1
IsFree(cell) == cell \in Cells /\ grid[cell] = NoBlock
NoTap == [block |-> NoBlock, face |-> -1, on |-> -1]
Made  == DOMAIN position3D

\* BuildingBlock::blockId and getBlockById: an obstacle has no block.
HasBlock(gl) == gl \in Made

-----------------------------------------------------------------------------
(* Picking *)

\* glDrawId numbers the blocks from 1, glDrawIdByMaterial their faces.
Hits  == 0..Len(tabGlBlocks)
FaceHit(n, face) == (n - 1) * Cardinality(Faces) + face + 1

\* getBlockByNum(n - 1).  For n = 0 the index is that of the word before the
\* vector, the allocator's, where no address of a block is.
GetBlockByNum(n) == IF n = 0 THEN NoBlock ELSE tabGlBlocks[n]

\* World::tapBlock: a face number from the screen is passed on as it is.
TapBlock(b, face, on) ==
  tapped' = [block |-> b, face |-> IF face \in Faces THEN face ELSE -1, on |-> on]

-----------------------------------------------------------------------------
(* Clicks on the scene *)

Alone == crashed = "no" /\ select = Idle

\* A left press without CTRL taps the block under the mouse if it is selected:
\* the face is the number selectFaceFunc answers.
ClickBlock ==
  /\ Alone
  /\ \E n \in Hits, face \in Faces :
       LET gl == GetBlockByNum(n) IN
       /\ gl # NoBlock /\ gl = selectedGlBlock
       /\ IF HasBlock(gl)
            THEN TapBlock(gl, FaceHit(n, face), face) /\ crashed' = crashed
            ELSE crashed' = "obstacle" /\ tapped' = NoTap
  /\ UNCHANGED <<list, tabGlBlocks, selectedGlBlock, highlighted, numSelectedGlBlock,
                 numSelectedFace, menu, canAdd, position3D, grid, opened, goal, moves, stale>>

Toggle(set, gl) ==
  IF gl = NoBlock THEN set ELSE IF gl \in set THEN set \ {gl} ELSE set \cup {gl}

\* World::setselectedGlBlock and the highlight of the old and the new block.
SetSelected(n) ==
  /\ selectedGlBlock' = GetBlockByNum(n)
  /\ highlighted' = Toggle(Toggle(highlighted, selectedGlBlock), GetBlockByNum(n))
  /\ Select(GetBlockByNum(n))

\* World::canAddBlockToFace
CanAddBlockToFace(gl, face) ==
  face \in Faces /\ IsFree(Next2(position3D[gl], face))

\* setSelectedFace: the face under the mouse tells the block too.
SetSelectedFace(n, face) == numSelectedGlBlock' = n - 1 /\ numSelectedFace' = face

\* createPopupMenu, which looks up the block at once.
CreatePopupMenu(n, face) ==
  LET gl == tabGlBlocks[n] IN
     IF HasBlock(gl)
       THEN /\ menu' = "shown" /\ canAdd' = CanAddBlockToFace(gl, face)
            /\ opened' = gl /\ stale' = FALSE /\ crashed' = crashed
       ELSE crashed' = "obstacle" /\ UNCHANGED <<menu, canAdd, opened, stale>>

\* CTRL and a release: the block under the mouse is selected, with the right
\* button a menu opens on its face, which picking may miss (7).
SelectBlock ==
  /\ Alone
  /\ \E n \in Hits :
       /\ SetSelected(n)
       /\ \/ UNCHANGED <<numSelectedGlBlock, numSelectedFace, menu, canAdd, opened, stale, crashed>>
          \/ n > 0 /\ \E face \in Faces \cup {7} : SetSelectedFace(n, face) /\ CreatePopupMenu(n, face)
  /\ UNCHANGED <<traces, lines, position, mouseDown, tracing, late,
                 tabGlBlocks, position3D, grid, goal, moves>>
  /\ tapped' = NoTap

-----------------------------------------------------------------------------
(* The menu: World::menuChoice.  The click goes on to the scene: with CTRL it *)
(* is also a selection, a step of its own here.                             *)

MenuBlock == tabGlBlocks[numSelectedGlBlock + 1]   \* getSelectedBuildingBlock
\* Mutant: the menu stays on the screen after a choice.
ChoiceMenuStays == Alone /\ menu = "shown" /\ menu' = menu /\ opened' = opened /\ stale' = stale

Choice    == Alone /\ menu = "shown" /\ menu' = "hidden" /\ opened' = NoBlock /\ stale' = FALSE

\* addBlock, drawn after all others.
NewBlock(new, cell) ==
  /\ tabGlBlocks' = Append(tabGlBlocks, new)
  /\ position3D' = [b \in Made \cup {new} |-> IF b = new THEN cell ELSE position3D[b]]
  /\ grid' = [grid EXCEPT ![cell] = new]

\* A block with the id after the highest so far, in the cell on the chosen
\* face now: the program ends if that is taken or out of the grid.
AddBlock ==
  /\ Choice /\ canAdd /\ 1 + Cardinality(Made) \in Ids
  /\ LET cell == Next2(position3D[MenuBlock], numSelectedFace) IN
       IF IsFree(cell)
         THEN NewBlock(1 + Cardinality(Made), cell) /\ crashed' = crashed
         ELSE crashed' = "exit" /\ UNCHANGED <<tabGlBlocks, position3D, grid>>
  /\ UNCHANGED <<list, selectedGlBlock, highlighted, numSelectedGlBlock, numSelectedFace,
                 canAdd, goal, moves>>
  /\ tapped' = NoTap

\* Mutant: the deleted block stays the selected one.
DeleteBlockStillSelected ==
  /\ Choice
  /\ grid' = [grid EXCEPT ![position3D[MenuBlock]] = NoBlock]
  /\ LET b == MenuBlock IN tabGlBlocks' = SelectSeq(tabGlBlocks, LAMBDA gl : gl # b)
  /\ highlighted' = highlighted \ {MenuBlock}
  /\ UNCHANGED <<list, selectedGlBlock, numSelectedGlBlock, numSelectedFace, canAdd,
                 position3D, goal, moves, crashed>>
  /\ tapped' = NoTap

\* World::deleteBlock: the block leaves the grid and the screen, and is no
\* longer selected; it stays in buildingBlocksMap.
DeleteBlock ==
  /\ Choice
  /\ LET b == MenuBlock IN
     /\ grid' = [grid EXCEPT ![position3D[b]] = NoBlock]
     /\ IF selectedGlBlock = b
          THEN selectedGlBlock' = NoBlock /\ Select(NoBlock)
          ELSE UNCHANGED <<selectedGlBlock, listed, select>>
     /\ tabGlBlocks' = SelectSeq(tabGlBlocks, LAMBDA gl : gl # b)
     /\ highlighted' = highlighted \ {b}
  /\ UNCHANGED <<traces, lines, position, mouseDown, tracing, late,
                 numSelectedGlBlock, numSelectedFace, canAdd, position3D, goal, moves,
                 crashed>>
  /\ tapped' = NoTap

\* The other buttons: tap, or save and cancel.
ChooseOther ==
  /\ Choice
  /\ TapBlock(MenuBlock, numSelectedFace, numSelectedFace) \/ tapped' = NoTap
  /\ UNCHANGED <<list, tabGlBlocks, selectedGlBlock, highlighted, numSelectedGlBlock,
                 numSelectedFace, canAdd, position3D, grid, goal, moves, crashed>>

-----------------------------------------------------------------------------
(* Motions: the thread of the scheduler moves blocks, deleted ones too,     *)
(* whatever is on the screen and whichever of its steps select() is at.     *)

\* The events of a motion of b write to its picture, which deleteBlock freed.
Pictured(b) ==
  /\ crashed' \in {"no"} \cup (IF b \in ToSet(tabGlBlocks) THEN {} ELSE {"picture"})
  /\ UNCHANGED <<list, tabGlBlocks, selectedGlBlock, highlighted, numSelectedGlBlock,
                 numSelectedFace, menu, canAdd, opened>>
  /\ stale' = (menu = "shown") /\ tapped' = NoTap

\* TranslationStartEvent: disconnectBlock frees the cell of the block.
SetOff(b) ==
  /\ crashed = "no" /\ goal[b] = 0 /\ moves < MaxMoves
  /\ moves' = moves + 1
  /\ \E cell \in Cells \ {position3D[b]} : goal' = [goal EXCEPT ![b] = cell]
  /\ grid' = [grid EXCEPT ![position3D[b]] = NoBlock]
  /\ Pictured(b) /\ UNCHANGED position3D

\* TranslationStopEvent: connectBlock inserts it, if the cell is still free.
Arrive(b) ==
  /\ crashed = "no" /\ goal[b] # 0
  /\ goal' = [goal EXCEPT ![b] = 0] /\ moves' = moves
  /\ position3D' = [position3D EXCEPT ![b] = goal[b]]
  /\ IF IsFree(goal[b])
       THEN grid' = [grid EXCEPT ![goal[b]] = b] /\ Pictured(b)
       ELSE /\ crashed' = "exit" /\ tapped' = NoTap /\ stale' = stale
            /\ UNCHANGED <<list, tabGlBlocks, selectedGlBlock, highlighted, numSelectedGlBlock,
                           numSelectedFace, menu, canAdd, grid, opened>>

Move == \E b \in Made : SetOff(b) \/ Arrive(b)

-----------------------------------------------------------------------------
(* The list, and a trace whose listed block goes away between two reads *)

Elsewhere == UNCHANGED <<world, crashed>> /\ tapped' = NoTap

Trace     == crashed = "no" /\ (\E b \in Made : AddTrace(b)) /\ Elsewhere
TraceRead == crashed = "no" /\ EndTrace /\ Elsewhere
Selecting == crashed = "no" /\ (Count \/ SetDataTextLines) /\ Elsewhere
UseSlider == Alone /\ (PressSlider \/ Drag) /\ Elsewhere

TraceLost ==
  /\ crashed = "no" /\ tracing # Idle
  /\ tracing.seen # NoBlock /\ listed = NoBlock
  /\ crashed' = "trace"
  /\ UNCHANGED <<list, world>> /\ tapped' = NoTap

-----------------------------------------------------------------------------

Init ==
  /\ ListInit
  /\ tabGlBlocks = SetToSortSeq(DOMAIN Start, <) \o SetToSeq(Obstacles)
  /\ selectedGlBlock = NoBlock /\ highlighted = {}
  /\ numSelectedGlBlock = 0 /\ numSelectedFace = 0
  /\ menu = "none" /\ canAdd = FALSE
  /\ position3D = Start
  /\ grid = [c \in Cells |-> IF \E b \in DOMAIN Start : Start[b] = c
                               THEN CHOOSE b \in DOMAIN Start : Start[b] = c ELSE NoBlock]
  /\ opened = NoBlock /\ stale = FALSE
  /\ goal = [b \in Ids |-> 0] /\ moves = 0 /\ tapped = NoTap /\ crashed = "no"

Next == \/ ClickBlock \/ SelectBlock \/ Move
        \/ AddBlock \/ DeleteBlock \/ ChooseOther
        \/ Trace \/ TraceRead \/ TraceLost \/ Selecting \/ UseSlider

Spec == Init /\ [][Next]_vars

-----------------------------------------------------------------------------
(* Properties *)

\* Type invariant.
ViewerTypeOK ==
  /\ listed \in Shown \cup {NoBlock} /\ lines \in 0..(2 * MaxTraces) /\ position \in Int
  /\ \A i \in DOMAIN tabGlBlocks : tabGlBlocks[i] \in Shown
  /\ crashed \in {"no", "obstacle", "trace", "picture", "exit"}

\* The block the user selected is one of those drawn, it alone is highlighted,
\* and the main window lists its traces: through selections of the same and of
\* other blocks, deletions and additions (openglViewer.cpp:236, world.cpp:168).
SelectionIsLit ==
  /\ selectedGlBlock # NoBlock => \E i \in DOMAIN tabGlBlocks : tabGlBlocks[i] = selectedGlBlock
  /\ highlighted = {selectedGlBlock} \ {NoBlock}
  /\ listed = selectedGlBlock

\* As long as the menu is on the screen it speaks of the block it was opened
\* on, although it remembers an index of a vector that shrinks and blocks move;
\* and until a block sets off or arrives its button to add a block is active
\* exactly if the cell is free (world.cpp:212, 276).
MenuKeepsItsBlock ==
  menu = "shown" /\ crashed = "no" =>
    /\ numSelectedGlBlock < Len(tabGlBlocks)
    /\ MenuBlock = opened /\ HasBlock(opened)
    /\ ~stale => canAdd = CanAddBlockToFace(opened, numSelectedFace)

\* The slider counts the traces the window lists, but for those written while
\* the GUI thread was counting: each of them costs it one line at most, for as
\* long as the block is listed (interface.cpp:284, 294, 308).
LinesAreCounted ==
  select = Idle /\ tracing = Idle =>
    LET n == Len(Of(listed)) IN n - late <= lines /\ lines <= n + late

\* A window whose slider is not above its first line shows as many of the
\* traces it has to list as fit (interface.cpp:190, 873).
ListIsNotBlank ==
  select = Idle /\ tracing = Idle /\ late = 0 /\ position >= 0 =>
    LET n == Len(Of(listed)) IN Len(Drawn) >= (IF n < Nbre THEN n ELSE Nbre)
=============================================================================
