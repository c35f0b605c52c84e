--------------------------- MODULE Configuration ---------------------------
(* The start of a simulation and the saving of its configuration: the       *)
(* options of the command line (commandLine.cpp), the elements of the XML   *)
(* document read one after the other (simulator.cpp), the identifiers given *)
(* to the modules, the blocks added to the world and to its lattice         *)
(* (addBlock of every world), the user's menu (world.cpp), and the document *)
(* written by Save (configExporter.cpp), which a later simulation loads.    *)
(*                                                                          *)
(* A document is the record of the attributes that the parser reads: NoAttr *)
(* stands for a missing one, BadAttr for an identifier that is not a number.  Colours   *)
(* are model values; the camera, the textures and the block codes are left  *)
(* out.                                                                     *)
EXTENDS Naturals, FiniteSets, SequencesExt

CONSTANTS SizeX, SizeY,     \* gridSize, in one plane
          Starts,    \* the simulators, with their first command line and document
          NoAttr,    \* a missing attribute
          BadAttr,   \* an identifier that is not a number
          DarkGrey,  \* the default colour
          IntSpan,   \* the number of values of an int
          MaxEdits,  \* bound: choices in the user's menu, over all simulations
          MaxLoads   \* bound: simulations run one after the other

VARIABLES moduleType, \* the simulator: "BB", "SB", "RB", "C2D" or "C3D"
          phase,      \* where the program is
          args,       \* the command line still to read
          opt,        \* what it asked for so far
          doc,        \* the document being loaded
          pool, used, \* IDPool and indexBlock
          scheduler,  \* what loadScheduler set
          next, column,     \* the element being read, and the column of a line
          position, plane,  \* what the parser remembers of the previous one
          objects,    \* every block created, deleted ones included
          blocks,     \* buildingBlocksMap: keys to objects
          grid,       \* the lattice: cells to objects, 0 for none
          maxBlockId,
          saved,      \* the last document written, with the world it was written of
          edits, loads

options == <<moduleType, args, opt>>
world == <<objects, blocks, grid, maxBlockId>>
reader == <<next, column, position, plane, used>>
vars == <<phase, options, doc, pool, scheduler, reader, world, saved, edits, loads>>

Cell == (0 .. SizeX - 1) \X (0 .. SizeY - 1)
InGrid(c) == c \in Cell
Key(id) == id % IntSpan
Index(c) == c[1] + (c[2] * SizeX)
\* the cell that shares the index of a cell outside the grid, if any
Stored(c) == {d \in Cell : Index(d) = Index(c)}

NoOptions == [mode |-> NoAttr, bounded |-> FALSE, infinite |-> FALSE,
              autoStop |-> FALSE, gui |-> TRUE, regrTesting |-> FALSE]

---------------------------------------------------------------------------
(* The command line.                                                        *)

ReadScheduleMode(m) ==
  IF opt.mode = NoAttr THEN phase' = phase /\ opt' = [opt EXCEPT !.mode = m]
  ELSE phase' = "exited" /\ opt' = opt

\* "-s" takes a date or "inf"; anything else ends in the help text
ReadLength(value) ==
  IF value = "bad" THEN phase' = "exited" /\ opt' = opt
  ELSE /\ phase' = phase
       /\ opt' = [opt EXCEPT !.bounded = value # "inf", !.infinite = value = "inf"]

ReadOption ==
  /\ phase = "options" /\ args # <<>>
  /\ LET o == Head(args)[1]  value == Head(args)[2] IN
     \/ o = "-r" /\ ReadScheduleMode("realtime")
     \/ o = "-R" /\ ReadScheduleMode("fastest")
     \/ o = "-s" /\ ReadLength(value)
     \/ o = "-x" /\ opt' = [opt EXCEPT !.autoStop = TRUE] /\ phase' = phase
     \/ o = "-t" /\ opt' = [opt EXCEPT !.gui = FALSE] /\ phase' = phase
     \/ o = "-g" /\ opt' = [opt EXCEPT !.regrTesting = TRUE] /\ phase' = phase
     \/ o = "-h" /\ phase' = "exited" /\ opt' = opt
  /\ args' = Tail(args)
  /\ UNCHANGED <<moduleType, doc, pool, scheduler, reader, world, saved, edits, loads>>

(* The constructor loads the file, parseWorld creates the empty world.      *)
ReadWorld ==
  /\ phase = "options" /\ args = <<>>
  /\ phase' = IF doc.world /\ doc.blockList THEN "ids" ELSE "exited"
  /\ UNCHANGED <<options, doc, pool, scheduler, reader, world, saved, edits, loads>>

---------------------------------------------------------------------------
(* The identifiers.                                                         *)

Ones(line) == IF line.values = NoAttr THEN {} ELSE line.values
(* Bug: the lines are not counted.                                          *)
CountBlocksOnly == Len(doc.blocks)
CountNumberOfModules ==
  Len(doc.blocks) + FoldSeq(LAMBDA l, n : Cardinality(Ones(l)) + n, 0, doc.lines)

Ids == [i \in DOMAIN doc.blocks |-> doc.blocks[i].id]
\* a number, and no two of them alike once converted to an int
ManualIdsFit ==
  /\ \A i \in DOMAIN Ids : Ids[i] \notin {NoAttr, BadAttr}
  /\ \A i, j \in DOMAIN Ids : i # j => Key(Ids[i]) # Key(Ids[j])

Ordered(n) == [i \in 1 .. n |-> i]
Stepped(n, step) == [i \in 1 .. n |-> 1 + ((i - 1) * step)]
Shuffles(s) == {[i \in DOMAIN s |-> s[p[i]]] : p \in Permutations(DOMAIN s)}

InitializeIDPool ==
  /\ phase = "ids"
  /\ \/ /\ doc.ids \in {NoAttr, "ORDERED"}
        /\ pool' = Ordered(CountNumberOfModules) /\ phase' = "scheduler"
     \/ /\ doc.ids = "MANUAL" /\ ManualIdsFit
        /\ pool' = Ids /\ phase' = "scheduler"
     \/ /\ doc.ids = "MANUAL" /\ ~ManualIdsFit
        /\ phase' = "exited" /\ UNCHANGED pool
     \/ /\ doc.ids = "RANDOM"
        /\ pool' \in Shuffles(Stepped(CountNumberOfModules, doc.step)) /\ phase' = "scheduler"
     \/ /\ doc.ids \notin {NoAttr, "ORDERED", "MANUAL", "RANDOM"}
        /\ phase' = "exited" /\ UNCHANGED pool
  /\ UNCHANGED <<options, doc, scheduler, reader, world, saved, edits, loads>>

LoadScheduler ==
  /\ phase = "scheduler"
  /\ phase' = IF opt.mode = "realtime" /\ ~opt.gui THEN "exited" ELSE "blocks"
  /\ scheduler' = [mode |-> IF ~opt.gui THEN "fastest"
                            ELSE IF opt.mode = NoAttr THEN "realtime" ELSE opt.mode,
                   autoStart |-> opt.mode # NoAttr, autoStop |-> opt.autoStop,
                   bounded |-> opt.bounded, infinite |-> opt.infinite]
  /\ UNCHANGED <<options, doc, pool, reader, world, saved, edits, loads>>

---------------------------------------------------------------------------
(* addBlock: the block takes a new identifier when it has none, enters the  *)
(* map unless its key is taken, and then the lattice.                       *)

KeepsMaster == moduleType \in {"RB", "C2D"}
TurnsBlocks == moduleType = "C3D"

NewId(id) == IF id = 0 THEN maxBlockId + 1 ELSE id
(* Bug: the last identifier is remembered instead of the greatest.          *)
NewMaxLast(id) == IF id = 0 THEN maxBlockId + 1 ELSE id
NewMax(id) == IF id > maxBlockId THEN id ELSE IF id = 0 THEN maxBlockId + 1 ELSE maxBlockId

Block(id, cell, attr) ==
  [id |-> id, cell |-> cell, color |-> attr.color,
   master |-> attr.master /\ KeepsMaster,
   orientation |-> IF TurnsBlocks THEN attr.orientation ELSE 0]

\* the catoms' world does not test isInGrid: a cell out of the grid is another
\* one, or past the end of the table, where the model stops
Refused(cell) == IF moduleType = "C3D" THEN Stored(cell) = {} ELSE ~InGrid(cell)
Free(cell) == \A c \in Stored(cell) : grid[c] = 0

AddBlock(id, cell, attr) ==
  /\ maxBlockId' = NewMax(id)
  /\ objects' = Append(objects, Block(NewId(id), cell, attr))
  /\ blocks' = LET k == Key(NewId(id)) IN
               IF k \in DOMAIN blocks THEN blocks
               ELSE [i \in DOMAIN blocks \cup {k} |->
                       IF i = k THEN Len(objects) + 1 ELSE blocks[i]]
  /\ grid' = [c \in Cell |-> IF ~Refused(cell) /\ Free(cell) /\ c \in Stored(cell)
                             THEN Len(objects) + 1 ELSE grid[c]]

AddedOrExits(cell) == phase' = IF ~Refused(cell) /\ Free(cell) THEN phase ELSE "exited"

---------------------------------------------------------------------------
(* The list of blocks.                                                      *)

Color(element) ==
  IF element.color # NoAttr THEN element.color
  ELSE IF doc.color # NoAttr THEN doc.color ELSE DarkGrey

\* IDPool[indexBlock++], of a vector that does not test its bounds
TakeId == used' = used + 1
Overruns == used >= Len(pool)

\* a block without a position takes the one of the block before it
Place(element) == IF element.position = NoAttr THEN position ELSE element.position
\* "orientation" is the attribute that the 3D catoms' loader reads
Turn(element) == IF element.orientation = NoAttr THEN 0 ELSE element.orientation

LoadBlock ==
  /\ phase = "blocks" /\ next <= Len(doc.blocks)
  /\ LET e == doc.blocks[next] IN
     /\ position' = Place(e)
     /\ IF Overruns THEN phase' = "overrun" /\ UNCHANGED world
        ELSE /\ AddBlock(pool[used + 1], Place(e),
                         [color |-> Color(e), master |-> e.master, orientation |-> Turn(e)])
             /\ AddedOrExits(Place(e))
  /\ next' = next + 1 /\ TakeId
  /\ UNCHANGED <<options, doc, pool, scheduler, column, plane, saved, edits, loads>>

EndBlocks ==
  /\ phase = "blocks" /\ next > Len(doc.blocks)
  /\ phase' = "lines" /\ next' = 1 /\ column' = 0
  /\ UNCHANGED <<options, doc, pool, scheduler, position, plane, used, world, saved, edits, loads>>

\* line is 0 when the attribute is missing, plane keeps the previous value
Plane(line) == IF line.plane = NoAttr THEN plane ELSE line.plane
Row(line) == IF line.line = NoAttr THEN 0 ELSE line.line
\* this model has one plane: a block of another one is outside the grid
LineCell(x, line) == IF Plane(line) = 0 THEN <<x, Row(line)>> ELSE <<x, SizeY * Plane(line) + Row(line)>>
Ahead(line) == {x \in Ones(line) : x >= column}

LoadLineBlock ==
  /\ phase = "lines" /\ next <= Len(doc.lines) /\ doc.ids # "MANUAL"
  /\ LET l == doc.lines[next] IN
     /\ Ahead(l) # {}
     /\ LET x == CHOOSE x \in Ahead(l) : \A y \in Ahead(l) : x <= y IN
        /\ position' = LineCell(x, l) /\ column' = x + 1
        /\ IF Overruns THEN phase' = "overrun" /\ UNCHANGED world
           ELSE /\ AddBlock(pool[used + 1], LineCell(x, l),
                            [color |-> Color(l), master |-> FALSE, orientation |-> 0])
                /\ AddedOrExits(LineCell(x, l))
  /\ TakeId
  /\ UNCHANGED <<options, doc, pool, scheduler, next, plane, saved, edits, loads>>

EndLine ==
  /\ phase = "lines" /\ next <= Len(doc.lines)
  /\ doc.ids = "MANUAL" \/ Ahead(doc.lines[next]) = {}
  /\ phase' = IF doc.ids = "MANUAL" THEN "exited" ELSE phase
  /\ plane' = Plane(doc.lines[next]) /\ next' = next + 1 /\ column' = 0
  /\ UNCHANGED <<options, doc, pool, scheduler, position, used, world, saved, edits, loads>>

\* startSimulation: the blocks are linked; without a window the scheduler is
\* started by the main loop, with one it waits for the mode or for the user
StartSimulation ==
  /\ phase = "lines" /\ next > Len(doc.lines)
  /\ phase' = "running"
  /\ UNCHANGED <<options, doc, pool, scheduler, reader, world, saved, edits, loads>>

---------------------------------------------------------------------------
(* The user's menu.                                                         *)

Lit == {c \in Cell : grid[c] # 0}
Beside(c) == {d \in Cell : \/ d[1] = c[1] /\ (d[2] = c[2] + 1 \/ c[2] = d[2] + 1)
                           \/ d[2] = c[2] /\ (d[1] = c[1] + 1 \/ c[1] = d[1] + 1)}

AddFromMenu ==
  /\ phase = "running" /\ opt.gui /\ edits < MaxEdits
  /\ \E c \in Lit : \E d \in Beside(c) :
       /\ grid[d] = 0
       /\ AddBlock(0, d, [color |-> objects[grid[c]].color, master |-> FALSE, orientation |-> 0])
  /\ edits' = edits + 1
  /\ UNCHANGED <<phase, options, doc, pool, scheduler, reader, saved, loads>>

\* deleteBlock empties the cell and forgets the drawing, not the entry of the map
DeleteFromMenu ==
  /\ phase = "running" /\ opt.gui /\ edits < MaxEdits
  /\ \E c \in Lit : grid' = [grid EXCEPT ![c] = 0]
  /\ edits' = edits + 1
  /\ UNCHANGED <<phase, options, doc, pool, scheduler, reader, objects, blocks, maxBlockId, saved, loads>>

---------------------------------------------------------------------------
(* Save: every entry of the map in the order of its key.  The attribute of  *)
(* the orientation is "rotation" for a 3D catom and "angle" for a 2D one:   *)
(* the loaders read neither.                                                *)

KeyOrder == SetToSortSeq(DOMAIN blocks, LAMBDA a, b : a < b)
InKeyOrder == [i \in DOMAIN KeyOrder |-> objects[blocks[KeyOrder[i]]]]

(* Bug: the master attribute is not written.                                *)
ExportBlockPlain(b) ==
  [id |-> NoAttr, position |-> b.cell, color |-> b.color, master |-> FALSE,
   orientation |-> NoAttr, rotation |-> b.orientation]
ExportBlock(b) ==
  [id |-> NoAttr, position |-> b.cell, color |-> b.color, master |-> b.master,
   orientation |-> NoAttr, rotation |-> b.orientation]

ExportConfiguration ==
  [world |-> TRUE, blockList |-> TRUE, ids |-> NoAttr, step |-> 1, color |-> NoAttr, lines |-> <<>>,
   blocks |-> [i \in DOMAIN InKeyOrder |-> ExportBlock(InKeyOrder[i])]]

\* some block of the map is no longer on the lattice
Deleted == \E k \in DOMAIN blocks : \A c \in Cell : grid[c] # blocks[k]

\* the cells whose block getBlockById does not know
Found(c) == LET k == Key(objects[grid[c]].id) IN k \in DOMAIN blocks /\ blocks[k] = grid[c]
Strays == {c \in Lit : ~Found(c)}

NotSaved == [doc |-> NoAttr, deleted |-> FALSE, blocks |-> <<>>, cells |-> {}, strays |-> {}]
Save ==
  /\ phase = "running" /\ (opt.gui \/ opt.regrTesting)
  /\ saved' = [doc |-> ExportConfiguration, deleted |-> Deleted, blocks |-> InKeyOrder,
              cells |-> Lit, strays |-> Strays]
  /\ UNCHANGED <<phase, options, doc, pool, scheduler, reader, world, edits, loads>>

\* the user runs the simulator again on the document that was saved
Clear ==
  /\ opt' = NoOptions /\ args' = <<>> /\ pool' = <<>> /\ used' = 0
  /\ scheduler' = NoAttr /\ next' = 1 /\ column' = 0
  /\ position' = <<0, 0>> /\ plane' = 0
  /\ objects' = <<>> /\ blocks' = <<>> /\ grid' = [c \in Cell |-> 0] /\ maxBlockId' = 0

Reload ==
  /\ phase = "running" /\ saved # NotSaved /\ loads < MaxLoads
  /\ Clear /\ doc' = saved.doc /\ phase' = "options" /\ loads' = loads + 1
  /\ UNCHANGED <<moduleType, saved, edits>>

Init ==
  /\ \E s \in Starts : moduleType = s.type /\ args = s.args /\ doc = s.doc
  /\ phase = "options" /\ opt = NoOptions /\ pool = <<>> /\ used = 0
  /\ scheduler = NoAttr /\ next = 1 /\ column = 0
  /\ position = <<0, 0>> /\ plane = 0
  /\ objects = <<>> /\ blocks = <<>> /\ grid = [c \in Cell |-> 0] /\ maxBlockId = 0
  /\ saved = NotSaved /\ edits = 0 /\ loads = 1

Next ==
  \/ ReadOption \/ ReadWorld \/ InitializeIDPool \/ LoadScheduler
  \/ LoadBlock \/ EndBlocks \/ LoadLineBlock \/ EndLine \/ StartSimulation
  \/ AddFromMenu \/ DeleteFromMenu \/ Save \/ Reload

Spec == Init /\ [][Next]_vars

---------------------------------------------------------------------------
(* An identifier 0 of the document is replaced by the one after the greatest *)
(* before it: the block that has this one in the document, further on, is on *)
(* the lattice but not in the map (simulator.cpp:337, world.h:305).          *)
Replaced(i) == pool[i] = 0
NextAfter(i) == 1 + FoldSeq(LAMBDA id, n : IF id > n THEN id ELSE n, 0, SubSeq(pool, 1, i - 1))
Displaced(j) ==
  j \in DOMAIN pool /\ \E i \in 1 .. (j - 1) : Replaced(i) /\ Key(pool[j]) = Key(NextAfter(i))

(* Every block on the lattice is the one that the map gives for its          *)
(* identifier (getBlockById), however identifiers were chosen, added from    *)
(* the menu or renumbered by a reload, but for one that an identifier 0 has  *)
(* displaced: no other identifier is given twice.                            *)
FoundById ==
  phase \notin {"exited", "overrun"} => \A c \in Lit : Found(c) <=> ~Displaced(grid[c])

(* The count made before the scheduler is created (countNumberOfModules) is *)
(* the number of identifiers that the two loops of parseBlockList take: the *)
(* pool is never read past its end and nothing of it is left over.          *)
PoolIsUsedUp ==
  /\ phase # "overrun"
  /\ phase = "running" => used = Len(pool)

(* A document saved of a world in which nothing was deleted, loaded again,   *)
(* gives the same cells, but for those of displaced blocks, the same colours *)
(* and masters; the identifiers become 1 .. N in the order of the old ones.  *)
(* No orientation is kept: "rotation" is written, "orientation" read         *)
(* (configExporter.cpp:182, catoms3DSimulator.cpp:61).                       *)
Shape(b) == [cell |-> b.cell, color |-> b.color, master |-> b.master]
Untouched == Len(objects) = Len(doc.blocks) /\ ~Deleted
ReloadIsExact ==
  phase = "running" /\ loads > 1 /\ doc = saved.doc /\ ~saved.deleted /\ Untouched =>
    /\ Lit = saved.cells \ saved.strays
    /\ [i \in DOMAIN InKeyOrder |-> Shape(InKeyOrder[i])]
         = [i \in DOMAIN saved.blocks |-> Shape(saved.blocks[i])]
    /\ \A i \in DOMAIN InKeyOrder : InKeyOrder[i].id = i /\ InKeyOrder[i].orientation = 0
=============================================================================
