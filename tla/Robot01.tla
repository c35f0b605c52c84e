------------------------------ MODULE Robot01 ------------------------------
(***************************************************************************)
(* The block code of the robot blocks (robot01BlockCode.cpp).  The master  *)
(* floods the map of the target with acknowledgements; then blocks whose   *)
(* rules allow it form trains, agree on a date and move together.          *)
(*                                                                         *)
(* An interface is <<block, face>>; its queue holds what was scheduled or  *)
(* is being sent on it.  What happens with a link while its message waits  *)
(* decides whether the message is lost or goes to the next neighbor.  The  *)
(* events of one date of a train (all its blocks leave, all arrive) are    *)
(* one action.  Dates are not counted: a date of departure is named by the *)
(* block that chose it, and comes after the messages that announce it,     *)
(* which are given half as much time again as the way back takes.          *)
(***************************************************************************)
EXTENDS Integers, Sequences, SequencesExt, FiniteSetsExt, TLC

CONSTANTS
  Robot,         \* the blocks
  Size,          \* Lattice::gridSize
  NeighborCell,  \* the cell next to a cell through a face, or NoCell
  Start,         \* the initial configurations: cells, master, target grid
  Rules,         \* the capabilities of the configuration
  NoItf,         \* a NULL interface
  MaxTrains,     \* bound: how many departures take place
  MaxGain        \* bound: the gain of a TRAIN message that is handled; one
                 \* that runs in a circle has more each time

VARIABLES
  place,   \* per block, its cell, or the one it left while it moves
  moving,  \* the blocks between two cells, out of the lattice and without links
  block,   \* per block, the fields of its block code
  queue,   \* per interface, the messages to be delivered through it
  starts,  \* the TranslationStartEvents: block, destination and date
  ends,    \* the blocks with a TranslationEndEvent scheduled
  robotCrashed, \* a null pointer was used, or a cell cannot be taken
  trains   \* how many departures took place

robotVars == <<place, moving, block, queue, starts, ends, robotCrashed, trains>>

-----------------------------------------------------------------------------
(* The motion rules (capabilities.cpp).  A rule has a matrix of 27 states  *)
(* for the cells around a block, the places of the previous and the next   *)
(* block of a train, and motions.  A matrix is a function on 0..26; names  *)
(* of states and presences are those of the enums.  The arrays truthTable  *)
(* and gainTable are Admits and GainTable.                                 *)
Index27 == 0..26
Around == (-1..1) \X (-1..1) \X (-1..1)
NoPoint == <<>>                  \* a NULL or an unset PointRel3D

GridIndex(p) == p[1] + 3 * p[2] + 9 * p[3] + 13

Admits(state) ==
  CASE state = "empty" -> {"empty", "locked"} [] state = "filled" -> {"empty"}
    [] state \in {"full", "emptied", "transit"} -> {"full"}
    [] state = "joker" -> {"empty", "full", "wall", "locked"}

GainTable(state, target) ==
  CASE state = "filled" /\ target = "empty" -> 1
    [] state = "emptied" /\ target = "full" -> -1
    [] state = "transit" /\ target = "empty" -> -1
    [] OTHER -> 0

(* A matrix is written from its top layer down, each from its last row.    *)
StateOf(digit) ==
  CASE digit = 0 -> "empty" [] digit = 3 -> "full" [] digit = 5 -> "filled"
    [] digit = 6 -> "emptied" [] digit = 7 -> "transit" [] digit = 8 -> "joker"

FromString(text) == [i \in Index27 |->
   StateOf(text[9 * (2 - i \div 9) + 3 * (2 - (i % 9) \div 3) + (i % 3) + 1])]

(* Quarter turns around the vertical axis, of a matrix and of a point.     *)
LayerTurned == << <<2, 5, 8, 1, 4, 7, 0, 3, 6>>, <<8, 7, 6, 5, 4, 3, 2, 1, 0>>,
                  <<6, 3, 0, 7, 4, 1, 8, 5, 2>> >>

FromRotationZ(mat, n) ==
  [i \in Index27 |-> mat[9 * (i \div 9) + LayerTurned[n][(i % 9) + 1]]]

RotateZ(p, n) ==
  CASE n = 1 -> <<p[2], -p[1], p[3]>> [] n = 2 -> <<-p[1], -p[2], p[3]>>
    [] n = 3 -> <<-p[2], p[1], p[3]>>

RotatedLink(p, n) == IF p = NoPoint THEN NoPoint ELSE RotateZ(p, n)

RotatedMotion(mo, n) ==
  [mo EXCEPT !.init = RotateZ(@, n), !.final = RotateZ(@, n)]

Clone(c, n) ==
  [c EXCEPT !.matrix = FromRotationZ(@, n), !.linkPrev = RotatedLink(@, n),
            !.linkNext = RotatedLink(@, n),
            !.motions = [k \in DOMAIN c.motions |-> RotatedMotion(c.motions[k], n)]]

(* Each rule of the configuration, its matrix written as a text, is        *)
(* followed by its three clones.                                           *)
LoadCapabilities(rules) ==
  FlattenSeq([k \in DOMAIN rules |->
                LET c == [rules[k] EXCEPT !.matrix = FromString(@)]
                IN <<c>> \o [n \in 1..3 |-> Clone(c, n)]])

(* The displacement of an object of the rule: of this block for 0, at the  *)
(* first time, of the next one for 1, at any time; zero without a motion.  *)
Displacement(motions) ==
  IF motions = <<>> THEN <<0, 0, 0>>
  ELSE [a \in 1..3 |-> motions[1].final[a] - motions[1].init[a]]

MotionVector(c, obj) == Displacement(SelectSeq(c.motions, LAMBDA mo : mo.obj = obj))
MotionVectorAt(c, obj, endTime) ==
  Displacement(SelectSeq(c.motions, LAMBDA mo : mo.obj = obj /\ mo.endTime = endTime))

Valid(mat, pm) == \A i \in Index27 : pm[i] \in Admits(mat[i])

(* All the rules that apply, the one with most conditions, then the        *)
(* largest gain, last.  std::sort keeps the order of equals, which are few.*)
LinkGain(c, p, ltm) ==
  IF p = NoPoint THEN 0 ELSE GainTable(c.matrix[GridIndex(p)], ltm[GridIndex(p)])

Validation(c, ltm) ==
  [capa |-> c, conditions |-> c.conditions,
   gain |-> LinkGain(c, c.linkPrev, ltm) - LinkGain(c, c.linkNext, ltm)]

Below(a, b) ==
  a.conditions < b.conditions \/ (a.conditions = b.conditions /\ a.gain < b.gain)

Inserted(q, v) ==
  SelectSeq(q, LAMBDA x : ~Below(v, x)) \o <<v>> \o SelectSeq(q, LAMBDA x : Below(v, x))

ValidateMulti(caps, pm, ltm) ==
  LET valid == SelectSeq(caps, LAMBDA c : Valid(c.matrix, pm))
  IN FoldLeft(Inserted, <<>>, [k \in DOMAIN valid |-> Validation(valid[k], ltm)])

(* The cells around pos: a wall outside the grid.                          *)
Window(size, pos, Content(_)) ==
  [i \in Index27 |->
     LET p == <<pos[1] + (i % 3) - 1, pos[2] + ((i % 9) \div 3) - 1, pos[3] + (i \div 9) - 1>>
     IN IF \A a \in 1..3 : p[a] \in 0..(size[a] - 1) THEN Content(p) ELSE "wall"]

(* PresenceMatrix::add, when the cell is around the origin.                *)
WithCell(pm, v, cell, origin) ==
  LET p == [a \in 1..3 |-> cell[a] - origin[a]]
  IN IF p \in Around THEN [pm EXCEPT ![GridIndex(p)] = v] ELSE pm

-----------------------------------------------------------------------------
Face == 0..5                     \* SCLattice::Direction
Interface == Robot \X Face

(* A cell and the one next to it through a face are next to each other,    *)
(* through one face each (Lattice::getNeighborhood); the blocks start in   *)
(* different cells, in one piece, on a target grid with cells.             *)
NextTo(p, q) == \E f \in Face : NeighborCell[p][f] = q

RobotAssumption ==
  /\ IsFiniteSet(Robot)
  /\ NoItf \notin Interface
  /\ \A p \in DOMAIN NeighborCell, f \in Face :
       LET q == NeighborCell[p][f]
       IN  q \in DOMAIN NeighborCell =>
             NextTo(q, p) /\ \A g \in Face : NeighborCell[p][g] = q => g = f
  /\ \A s \in Start :
       /\ s.cells \in [Robot -> DOMAIN NeighborCell]
       /\ \A b, c \in Robot : s.cells[b] = s.cells[c] => b = c
       /\ s.master \in Robot /\ DOMAIN s.target # {}
       /\ \A part \in (SUBSET Robot) \ {{}, Robot} :
            \E b \in part, c \in Robot \ part : NextTo(s.cells[b], s.cells[c])

Caps == LoadCapabilities(Rules)

Peer(i) ==
  LET there == {b \in Robot \ moving : place[b] = NeighborCell[place[i[1]]][i[2]]}
  IN IF i[1] \in moving \/ there = {} THEN NoItf
     ELSE LET b == CHOOSE c \in there : TRUE
          IN <<b, CHOOSE f \in Face : NeighborCell[place[b]][f] = place[i[1]]>>

(* initGrid copies as many bytes as the grid has cells, of four bytes      *)
(* each: the rest of a copy is what the memory held.                       *)
Rest == {"empty", "full"}
CellIndex(p) == p[1] + Size[1] * (p[2] + Size[2] * p[3])
InitGrid(target, rest) ==
  LET bytes == Size[1] * Size[2] * Size[3]
  IN [p \in DOMAIN target |-> IF 4 * CellIndex(p) < bytes THEN target[p] ELSE rest]

(* A block during a handler: its fields, and what it sends and schedules.  *)
Fields(b, grid) ==
  [id |-> b, targetGrid |-> grid, block2Answer |-> NoItf, nbreOfWaitedAnswers |-> 0,
   blockToUnlock |-> NoItf, gain |-> 0, goal |-> NoPoint, motions |-> <<>>,
   motionVector |-> <<0, 0, 0>>, nextMotionVector |-> <<0, 0, 0>>,
   trainNext |-> NoItf, trainPrevious |-> NoItf, out |-> <<>>, depart |-> {}, fails |-> FALSE]

Fails(m) == [m EXCEPT !.fails = TRUE]

(* A message on an interface that must exist and be connected.             *)
SendOn(m, i, msg) ==
  IF i = NoItf THEN Fails(m)
  ELSE IF Peer(i) = NoItf THEN Fails(m)
  ELSE [m EXCEPT !.out[i] = Append(@, msg)]

(* On the interface that is linked with the given one of another block.    *)
SendBack(m, i, msg) == IF i = NoItf THEN Fails(m) ELSE SendOn(m, Peer(i), msg)

Own(m, f) == <<m.id, f>>

(* To all neighbors. *)
Open(m) == {i \in {m.id} \X Face : Peer(i) # NoItf}

SendToAll(m, on, msg) ==
  [m EXCEPT !.out = [i \in Interface |-> IF i \in on THEN Append(@[i], msg) ELSE @[i]]]

SendMapToNeighbors(m, except) ==
  LET on == Open(m) \ {except}
  IN [SendToAll(m, on, [type |-> "MAP", grid |-> m.targetGrid])
        EXCEPT !.nbreOfWaitedAnswers = @ + Cardinality(on)]

SendAckMap(m, i) == SendOn(m, i, [type |-> "ACKMAP"])

(* A train: the head asks the next block, which asks on, up to an end that *)
(* answers whether the move is worth it.                                   *)
Sum(p, v) == [a \in 1..3 |-> p[a] + v[a]]

(* getP2PNetworkInterfaceByRelPos, by the names of SCLattice::Direction.   *)
Link(m, p) ==
  CASE p[1] = -1 -> Own(m, 4) [] p[1] = 1 -> Own(m, 2) [] p[2] = -1 -> Own(m, 3)
    [] p[2] = 1 -> Own(m, 1) [] p[3] = -1 -> Own(m, 0) [] p[3] = 1 -> Own(m, 5) [] OTHER -> NoItf

AnswerTrain(m, capa) ==
  LET i == Link(m, capa.linkPrev)
      worth == m.gain > 0
      sent == SendOn(m, i, [type |-> "ACKTRAIN", answer |-> worth])
  IN IF capa.linkPrev = NoPoint THEN Fails(m)
     ELSE [sent EXCEPT !.trainNext = NoItf,
                       !.trainPrevious = IF worth THEN Peer(i) ELSE NoItf]

AskNext(m, capa, sender) ==
  LET i == Link(m, capa.linkNext)
      msg == IF sender = NoItf
             THEN [type |-> "TRAIN", pos |-> Sum(place[m.id], m.motionVector), gain |-> 1]
             ELSE [type |-> "TRAIN", pos |-> m.goal, gain |-> m.gain + 2 * Last(m.motions).gain]
  IN [SendOn(m, i, msg) EXCEPT !.trainNext = Peer(i)]

SendLinkTrainMessages(m, sender) ==
  LET capa == Last(m.motions).capa
      moved == [m EXCEPT !.motionVector = MotionVectorAt(capa, 0, 1),
                         !.nextMotionVector = MotionVector(capa, 1)]
  IN IF m.motions # <<>> THEN
       IF capa.isEnd THEN AnswerTrain(moved, capa) ELSE AskNext(moved, capa, sender)
     ELSE IF sender # NoItf THEN
       [SendOn(m, sender, [type |-> "ACKTRAIN", answer |-> FALSE])
          EXCEPT !.trainNext = NoItf, !.trainPrevious = NoItf]
     ELSE m

GetPresenceMatrix(b) ==
  Window(Size, place[b], LAMBDA p : IF \E c \in Robot \ moving : place[c] = p THEN "full" ELSE "empty")

GetLocalTargetGrid(m) == Window(Size, place[m.id], LAMBDA p : m.targetGrid[p])

(* A block whose last motion starts a train becomes its head at once.      *)
CalcPossibleMotions(m, goal) ==
  LET pm == GetPresenceMatrix(m.id)
      locked == IF goal = NoPoint THEN pm ELSE WithCell(pm, "locked", goal, place[m.id])
      found == [m EXCEPT !.motions = ValidateMulti(Caps, locked, GetLocalTargetGrid(m))]
  IN IF found.motions # <<>> /\ Last(found.motions).capa.isHead
     THEN SendLinkTrainMessages(found, NoItf) ELSE found

(* The departure: the head passes the order on to the first block that     *)
(* turns or ends the train; that one names the date and sends it back.     *)
Departs(m, date) ==
  [m EXCEPT !.depart = {[block |-> m.id, to |-> Sum(place[m.id], m.motionVector), date |-> date]}]

(* Bug: the block that names the date does not tell the one before it. *)
SendNoAnswerDelay(m) ==
  IF m.motionVector = m.nextMotionVector THEN
    [SendBack(m, m.trainNext, [type |-> "MOTIONDELAY", unlock |-> FALSE]) EXCEPT !.blockToUnlock = NoItf]
  ELSE Departs(m, m.id)

SendAnswerDelayOrMotionDelay(m) ==
  LET date == m.id
      told == IF m.trainPrevious = NoItf THEN m
              ELSE SendBack(m, m.trainPrevious, [type |-> "ANSWERDELAY", date |-> date])
  IN IF m.motionVector # m.nextMotionVector THEN
       IF m.trainNext = NoItf THEN [Departs(told, date) EXCEPT !.blockToUnlock = NoItf]
       ELSE [Departs(told, date) EXCEPT !.blockToUnlock = m.trainNext[1], !.trainNext = NoItf]
     ELSE IF m.motionVector = <<0, 0, 0>> THEN m
     ELSE [SendBack(m, m.trainNext, [type |-> "MOTIONDELAY", unlock |-> FALSE])
             EXCEPT !.blockToUnlock = NoItf]

SendUnlock(m, target) == SendToAll(m, Open(m), [type |-> "UNLOCK", target |-> target])

(* The handler of the message it sends is commented out.                   *)
SendReLinkTrain(m) ==
  LET capa == Last(m.motions).capa
      i == Link(m, capa.linkPrev)
  IN IF m.motions = <<>> THEN
       [SendOn(m, m.trainNext, [type |-> "ACKTRAIN", answer |-> FALSE])
          EXCEPT !.trainNext = NoItf, !.trainPrevious = NoItf]
     ELSE IF capa.isHead THEN SendLinkTrainMessages(m, NoItf)
     ELSE IF capa.linkPrev = NoPoint THEN m
     ELSE [SendOn(m, i, [type |-> "RELINKTRAIN"]) EXCEPT !.trainPrevious = Peer(i)]

-----------------------------------------------------------------------------
(* The handlers.  from is the interface of the sender, on that of this     *)
(* block.                                                                  *)
OnMap(m, msg, on, rest) ==
  LET first == SendMapToNeighbors([m EXCEPT !.targetGrid = InitGrid(msg.grid, rest), !.block2Answer = on,
                                            !.nbreOfWaitedAnswers = 0], on)
      done == [SendAckMap(first, on) EXCEPT !.block2Answer = NoItf, !.gain = 0]
  IN IF m.targetGrid # <<>> THEN SendAckMap(m, on)
     ELSE IF first.nbreOfWaitedAnswers = 0 THEN CalcPossibleMotions(done, NoPoint)
     ELSE first

(* Bug: the first acknowledgement ends the wait. *)
OnAckMapFirst(m) ==
  LET acked == IF m.block2Answer = NoItf THEN m
               ELSE [SendAckMap(m, m.block2Answer) EXCEPT !.block2Answer = NoItf]
  IN CalcPossibleMotions([acked EXCEPT !.gain = 0, !.nbreOfWaitedAnswers = 0], NoPoint)

OnAckMap(m) ==
  LET less == [m EXCEPT !.nbreOfWaitedAnswers = @ - 1]
      acked == IF m.block2Answer = NoItf THEN less
               ELSE [SendAckMap(less, m.block2Answer) EXCEPT !.block2Answer = NoItf]
  IN IF less.nbreOfWaitedAnswers # 0 THEN less
     ELSE CalcPossibleMotions([acked EXCEPT !.gain = 0], NoPoint)

OnTrain(m, msg, from, on) ==
  LET asked == [m EXCEPT !.gain = @ + msg.gain, !.goal = msg.pos, !.trainPrevious = from]
  IN IF m.block2Answer # NoItf THEN asked
     ELSE SendLinkTrainMessages(CalcPossibleMotions(asked, msg.pos), on)

OnAckTrain(m, msg) ==
  LET next == [m EXCEPT !.trainPrevious = NoItf, !.motions = SubSeq(@, 1, Len(@) - 1)]
  IN IF msg.answer /\ m.trainPrevious # NoItf THEN
       SendBack(m, m.trainPrevious, [type |-> "ACKTRAIN", answer |-> TRUE])
     ELSE IF msg.answer /\ m.trainNext = NoItf THEN Fails(m)
     ELSE IF msg.answer THEN
       SendAnswerDelayOrMotionDelay([m EXCEPT !.block2Answer = NoItf])
     ELSE IF m.motions = <<>> THEN [m EXCEPT !.trainPrevious = NoItf]
     ELSE IF next.motions = <<>> THEN next
     ELSE SendLinkTrainMessages(next, m.trainNext)

OnMotionDelay(m, msg) ==
  SendAnswerDelayOrMotionDelay(IF msg.unlock THEN [m EXCEPT !.trainPrevious = NoItf] ELSE m)

OnAnswerDelay(m, msg) ==
  LET gone == [Departs(m, msg.date) EXCEPT !.blockToUnlock = NoItf]
  IN IF m.trainPrevious = NoItf THEN gone ELSE SendBack(gone, m.trainPrevious, msg)

OnUnlock(m, msg) ==
  LET towards == {i \in Open(m) : Peer(i)[1] = msg.target}
  IN IF towards = {} THEN m
     ELSE SendOn(m, CHOOSE i \in towards : TRUE, [type |-> "MOTIONDELAY", unlock |-> TRUE])

Handled(m, msg, from, on, rest) ==
  CASE msg.type = "MAP" -> OnMap(m, msg, on, rest)
    [] msg.type = "ACKMAP" -> OnAckMap(m)
    [] msg.type = "TRAIN" -> OnTrain(m, msg, from, on)
    [] msg.type = "ACKTRAIN" -> OnAckTrain(m, msg)
    [] msg.type = "MOTIONDELAY" -> OnMotionDelay(m, msg)
    [] msg.type = "ANSWERDELAY" -> OnAnswerDelay(m, msg)
    [] msg.type = "UNLOCK" -> OnUnlock(m, msg)
    [] msg.type = "RELINKTRAIN" -> m

(* A block that has moved unlocks the next one, or is the last of a train  *)
(* and looks for another one, or waits for its train.                      *)
OnTranslationEnd(m) ==
  LET free == [m EXCEPT !.nbreOfWaitedAnswers = 0, !.block2Answer = NoItf]
  IN IF m.blockToUnlock # NoItf THEN SendUnlock(free, m.blockToUnlock)
     ELSE IF m.trainNext # NoItf THEN free
     ELSE SendReLinkTrain(CalcPossibleMotions([free EXCEPT !.trainPrevious = NoItf], NoPoint))

-----------------------------------------------------------------------------
(* A block when a handler begins, and what it leaves behind: q are the     *)
(* queues without what it took.                                            *)
Silence == [i \in Interface |-> <<>>]
Awake(m) == [m EXCEPT !.out = Silence]
Asleep(m) == [m EXCEPT !.out = <<>>, !.depart = {}, !.fails = FALSE]

Effect(m, q) ==
  /\ block' = [block EXCEPT ![m.id] = Asleep(m)]
  /\ queue' = [i \in Interface |-> q[i] \o m.out[i]]
  /\ starts' = starts \cup m.depart
  /\ robotCrashed' = m.fails

Receive(i) ==
  /\ ~robotCrashed /\ queue[i] # <<>> /\ Peer(i) # NoItf
  /\ Head(queue[i]).type = "TRAIN" => Head(queue[i]).gain \in -MaxGain..MaxGain
  /\ LET on == Peer(i)
     IN \E rest \in Rest :
          Effect(Handled(Awake(block[on[1]]), Head(queue[i]), i, on, rest), [queue EXCEPT ![i] = Tail(@)])
  /\ UNCHANGED <<place, moving, ends, trains>>

(* A message that is sent on an interface without a link, or was in its    *)
(* buffer when the link went away; the others wait for the next link.      *)
Drop(i) ==
  /\ ~robotCrashed /\ queue[i] # <<>> /\ Peer(i) = NoItf
  /\ queue' = [queue EXCEPT ![i] = Tail(@)]
  /\ UNCHANGED <<place, moving, block, starts, ends, robotCrashed, trains>>

Announced(date) ==
  \E i \in Interface : \E msg \in ToSet(queue[i]) : msg.type = "ANSWERDELAY" /\ msg.date = date

(* TranslationStartEvent::consume for all the blocks with this date.       *)
Depart(date) ==
  LET leaving == {s.block : s \in {x \in starts : x.date = date}}
  IN /\ ~robotCrashed /\ leaving # {} /\ ~Announced(date) /\ trains < MaxTrains
     /\ leaving \cap moving = {}
     /\ moving' = moving \cup leaving
     /\ trains' = trains + 1
     /\ UNCHANGED <<place, block, queue, starts, ends, robotCrashed>>

(* TranslationStopEvent::consume: the blocks are in their new cells.  An   *)
(* occupied cell throws; one outside the grid is written outside its array.*)
Land(date) ==
  LET landing == {s \in starts : s.date = date}
      Arrives(b) == \E s \in landing : s.block = b
      cells == [b \in Robot |-> IF Arrives(b) THEN (CHOOSE s \in landing : s.block = b).to ELSE place[b]]
      away == {b \in moving : ~Arrives(b)}
      fits == /\ \A s \in landing : s.to \in DOMAIN NeighborCell
              /\ \A b, c \in Robot \ away : b # c => cells[b] # cells[c]
  IN /\ ~robotCrashed /\ landing # {}
     /\ \A s \in landing : s.block \in moving
     /\ place' = IF fits THEN cells ELSE place
     /\ moving' = IF fits THEN away ELSE moving
     /\ robotCrashed' = ~fits
     /\ starts' = starts \ landing
     /\ ends' = ends \cup {s.block : s \in landing}
     /\ UNCHANGED <<block, queue, trains>>

TranslationEnd(b) ==
  /\ ~robotCrashed /\ b \in ends
  /\ Effect(OnTranslationEnd(Awake(block[b])), queue)
  /\ ends' = ends \ {b}
  /\ UNCHANGED <<place, moving, trains>>

(* Robot01BlockCode::startup, for all the blocks at date zero.             *)
Startup(b, s, rest) ==
  IF b = s.master THEN SendMapToNeighbors(Awake(Fields(b, InitGrid(s.target, rest))), NoItf)
  ELSE Awake(Fields(b, <<>>))

StartFrom(s, rest) ==
  /\ place = s.cells /\ moving = {}
  /\ LET Started(b) == Startup(b, s, rest)
     IN /\ block = [b \in Robot |-> Asleep(Started(b))]
        /\ queue = [i \in Interface |-> Started(i[1]).out[i]]
  /\ starts = {} /\ ends = {} /\ robotCrashed = FALSE /\ trains = 0

RobotInit == \E s \in Start, rest \in Rest : StartFrom(s, rest)

RobotNext ==
  \/ \E i \in Interface : Receive(i) \/ Drop(i)
  \/ \E b \in Robot : Depart(b) \/ Land(b) \/ TranslationEnd(b)

RobotSpec == RobotInit /\ [][RobotNext]_robotVars

-----------------------------------------------------------------------------
InTransit(type, on) ==
  UNION {{i} \X {k \in DOMAIN queue[i] : queue[i][k].type = type} : i \in on}

(* What a block is owed: its maps and their acknowledgements in transit,   *)
(* and its children, which have not answered.                              *)
Towards(b) == {i \in Interface : Peer(i) # NoItf /\ Peer(i)[1] = b}

Children(b) == {c \in Robot : block[c].block2Answer \in Interface /\ Peer(block[c].block2Answer)[1] = b}

Owed(b) ==
  Cardinality(InTransit("MAP", {b} \X Face)) + Cardinality(InTransit("ACKMAP", Towards(b)))
    + Cardinality(Children(b))

(* Until the first train leaves, a block waits for as many answers as it   *)
(* is owed (sendMapToNeighbors, sendAckMap and their handlers).  So the    *)
(* echo is complete when no block without a parent has an answer to wait   *)
(* for: every block has the map, and waits for nobody.                     *)
EchoIsExact ==
  trains = 0 /\ ~robotCrashed =>
    /\ \A b \in Robot : block[b].nbreOfWaitedAnswers = Owed(b)
    /\ (\A b \in Robot : block[b].targetGrid # <<>> /\ block[b].block2Answer = NoItf
                         => block[b].nbreOfWaitedAnswers = 0)
       => \A b \in Robot : block[b].targetGrid # <<>> /\ block[b].nbreOfWaitedAnswers = 0

(* A train moves as one: when its date has come and no other date has been *)
(* named, no block goes to a cell of a block that stays, or to the cell    *)
(* another one goes to.  Two trains at once may meet, or share a block.    *)
TrainMovesAsOne ==
  trains <= 1 /\ (\A s, t \in starts : s.date = t.date) =>
    \A s \in starts : s.block \in moving =>
      /\ \A c \in Robot \ moving : s.to # place[c]
      /\ \A t \in starts : t.block \in moving /\ t # s => t.to # s.to
=============================================================================
