------------------------------ MODULE SbReconf ------------------------------
(***************************************************************************)
(* The block code that moves smart blocks into a target shape              *)
(* (sbReconfBlockCode.cpp).  The map of the target is flooded with         *)
(* acknowledgements; a block of the border with a rule at distance zero    *)
(* looks for the head of a train, the head for its end; the train then     *)
(* moves line by line.  The last block that has moved has the blocks in    *)
(* place counted, by a second echo, and starts again.                      *)
(*                                                                         *)
(* Interfaces, queues, departures and dates are those of Robot01.  posGrid *)
(* is the place of a block whenever it is read; colors, statistics and the *)
(* number of blocks of a train, which is only printed, are left out.       *)
(***************************************************************************)
EXTENDS Integers, Sequences, SequencesExt, FiniteSets, TLC

CONSTANTS
  Block,         \* the blocks, numbered; block 1 is the master
  Size,          \* Lattice::gridSize
  Start,         \* the initial configurations: cells and target cells
  Rules,         \* the capabilities of the configuration
  NoItf,         \* a NULL interface
  MaxMoves       \* bound: how many departures take place

VARIABLES
  place,   \* per block, its cell, or the one it left while it moves
  moving,  \* the blocks between two cells, out of the lattice and without links
  target,  \* the cells of the target grid
  block,   \* per block, the fields of its block code
  queue,   \* per interface, the messages to be delivered through it
  starts,  \* the TranslationStartEvents: block, destination and date
  ends,    \* the motions whose TranslationEndEvent is scheduled
  crashed, \* a null pointer was used, or a cell is taken
  moves    \* how many departures took place

sbVars == <<place, moving, target, block, queue, starts, ends, crashed, moves>>

-----------------------------------------------------------------------------
(* The motion rules, in the plane (smartBlocksCapabilities.cpp).  A matrix *)
(* is a sequence of the nine states around a block, row by row from the    *)
(* south-west; a point is a displacement of -1..1.  Directions are those   *)
(* of SLattice: north, east, south, west.                                  *)
Point == (-1..1) \X (-1..1)
NoPoint == <<>>                   \* a NULL or an unset PointCel
IsSet(p) == p # NoPoint
Cell(p) == p[1] + 3 * p[2] + 5

(* The rows of truthTable, by the digit of a state.                        *)
Admits(state) ==
  CASE state \in {0, 5} -> {"empty"} [] state = 1 -> {} [] state = 3 -> {"full"}
    [] state = 4 -> {"single"} [] state = 6 -> {"border"} [] state = 7 -> {"border", "single"}
    [] state = 8 -> {"empty", "full", "wall", "border", "single"}

Matches(matrix, pm) == \A i \in 1..9 : pm[i] \in Admits(matrix[i])

(* A matrix is written from its north row, each from the west.             *)
FromString(text) == [i \in 1..9 |-> text[3 * (2 - (i - 1) \div 3) + ((i - 1) % 3) + 1]]

(* Quarter turns, clockwise, of matrices, points and directions.           *)
Turned == << <<2, 5, 8, 1, 4, 7, 0, 3, 6>>, <<8, 7, 6, 5, 4, 3, 2, 1, 0>>,
             <<6, 3, 0, 7, 4, 1, 8, 5, 2>> >>
FromRotationZ(matrix, n) == [i \in 1..9 |-> matrix[Turned[n][i] + 1]]

RotateZ(p, n) ==
  IF p = NoPoint THEN NoPoint
  ELSE << <<p[2], -p[1]>>, <<-p[1], -p[2]>>, <<-p[2], p[1]>> >>[n]

RotatePath(path, n) == [k \in DOMAIN path |-> (path[k] + n) % 4]

RotateMotion(mo, n) ==
  [time |-> mo.time, vect |-> RotateZ(mo.vect, n), path |-> RotatePath(mo.path, n),
   unlock |-> RotatePath(mo.unlock, n)]

Clone(c, n) ==
  [c EXCEPT !.matrix = FromRotationZ(@, n), !.linkPrev = RotateZ(@, n), !.linkNext = RotateZ(@, n),
            !.prevDir = RotateZ(@, n), !.singleDir = RotateZ(@, n),
            !.motions = [k \in DOMAIN @ |-> RotateMotion(@[k], n)], !.unlock = RotatePath(@, n)]

LoadCapabilities(rules) ==
  FlattenSeq([k \in DOMAIN rules |->
                LET c == [rules[k] EXCEPT !.matrix = FromString(@)]
                IN  <<c>> \o [n \in 1..3 |-> Clone(c, n)]])

(* dir(): the direction of a displacement.                                 *)
Dir(p) ==
  CASE p[1] = 1 -> 1 [] p[1] = -1 -> 3 [] p = <<0, 1>> -> 0 [] p = <<0, -1>> -> 2

At(matrix, p, state) == IsSet(p) /\ matrix[Cell(p)] = state
One(condition) == IF condition THEN 1 ELSE 0

(* The gain of a rule for a train that arrives from tab, the motion of the *)
(* neighbor in the direction of the previous block: zero for one in its    *)
(* place, unset for another one.                                           *)
Entering(c, tab) == IF c.linkPrev = NoPoint THEN <<0, 0>> ELSE tab[Dir(c.linkPrev) + 1]

Fits(c, tab) ==
  c.prevDir = <<0, 0>> \/ Entering(c, tab) = <<0, 0>> \/ Entering(c, tab) = c.prevDir

LeavesHole(c, ltm) == ltm[5] = "full" /\ At(ltm, c.linkPrev, "empty")

Gain(c, pm, ltm, tab) ==
  LET fills == At(ltm, c.linkPrev, "full") /\ At(pm, c.linkPrev, "empty")
      frees == At(ltm, c.linkNext, "empty")
      start == IF Entering(c, tab) = <<0, 0>> THEN 0 ELSE 10
  IN CASE c.isEnd /\ c.isHead -> 0
       [] c.isEnd /\ ~c.isHead ->
            start + 2 * One(ltm[5] = "empty") + 2 * One(At(ltm, c.linkPrev, "full"))
       [] c.isHead /\ ~c.isEnd -> start + 2 * One(fills) + 1
       [] OTHER -> start + 3 * One(fills # frees) + 3 * One(At(ltm, c.linkPrev, "full") \/ frees)

ZeroDistance(c, pm, ltm) ==
  pm[5] # "single" /\ ltm[5] = "empty" /\ At(ltm, c.linkPrev, "full")

(* validateDirection: the rules that apply, the largest gain last; a       *)
(* single block takes the rules of its own motion.  std::sort keeps the    *)
(* order of equals, which are few.                                         *)
Alone(c, pm) == pm[5] = "single" /\ IsSet(c.singleDir)

Applies(c, pm, ltm, tab, own) ==
  /\ Matches(c.matrix, pm)
  /\ IF Alone(c, pm) THEN own = c.singleDir
     ELSE /\ Fits(c, tab) /\ ~LeavesHole(c, ltm)
          /\ Gain(c, pm, ltm, tab) > 0 \/ (c.isEnd /\ c.isHead)

Validation(caps, k, pm, ltm, tab) ==
  LET zero == ~Alone(caps[k], pm) /\ ZeroDistance(caps[k], pm, ltm)
  IN [capa |-> k, zero |-> zero,
      gain |-> IF Alone(caps[k], pm) THEN 50
               ELSE Gain(caps[k], pm, ltm, tab) + 100 * One(zero)]

Inserted(q, v) ==
  SelectSeq(q, LAMBDA x : x.gain <= v.gain) \o <<v>> \o SelectSeq(q, LAMBDA x : x.gain > v.gain)

ValidateDirection(caps, pm, ltm, tab, own) ==
  LET valid == SelectSeq([k \in 1..Len(caps) |-> k],
                         LAMBDA k : Applies(caps[k], pm, ltm, tab, own))
  IN FoldLeft(LAMBDA q, k : Inserted(q, Validation(caps, k, pm, ltm, tab)), <<>>, valid)

-----------------------------------------------------------------------------
Face == 0..3
Faces == <<0, 1, 2, 3>>
Interface == Block \X Face
Caps == LoadCapabilities(Rules)

Step(f) == << <<0, 1>>, <<1, 0>>, <<0, -1>>, <<-1, 0>> >>[f + 1]
Sum(p, v) == <<p[1] + v[1], p[2] + v[2]>>
InGrid(p) == p[1] \in 0..(Size[1] - 1) /\ p[2] \in 0..(Size[2] - 1)
At0(p) == {b \in Block \ moving : place[b] = p}

Peer(i) ==
  LET there == At0(Sum(place[i[1]], Step(i[2])))
  IN IF i[1] \in moving \/ there = {} THEN NoItf
     ELSE <<CHOOSE b \in there : TRUE, (i[2] + 2) % 4>>

Linked(i) == Peer(i) # NoItf
WellPlaced(p) == p \in target

(* A block during a handler: its fields, and what it sends and schedules.  *)
(* rules are the rules that apply, the best last.                          *)
Fields(b) ==
  [id |-> b, hasMap |-> FALSE, block2Answer |-> NoItf, nbreOfWaitedAnswers |-> 0,
   next |-> NoItf, previous |-> NoItf, numPrev |-> 0, isHead |-> FALSE, isEnd |-> FALSE,
   isHeadOfLine |-> FALSE, wellPlaced |-> FALSE, isTrain |-> FALSE, isSingle |-> FALSE, motionDir |-> <<0, 0>>, rules |-> <<>>, pm |-> [k \in 1..9 |-> "empty"],
   currentMove |-> 0, nbreWellPlacedBlocks |-> 0, ready |-> FALSE,
   memorised |-> [HEAD |-> NoItf, END |-> NoItf],
   unlockPath |-> <<>>, unlockStep |-> 0, out |-> <<>>, depart |-> {}, fails |-> FALSE]

Fails(m) == [m EXCEPT !.fails = TRUE]
Own(m, f) == <<m.id, f>>

(* The event that enqueues a message uses the interface later; a message   *)
(* for an interface without a link is lost then.                           *)
SendOn(m, i, msg) ==
  IF i = NoItf THEN Fails(m) ELSE [m EXCEPT !.out = Append(@, [on |-> i, msg |-> msg])]

SendToFaces(m, msg, except) ==
  FoldLeft(LAMBDA x, f : IF ~Linked(Own(m, f)) \/ Own(m, f) = except THEN x
                         ELSE [SendOn(x, Own(m, f), msg) EXCEPT !.nbreOfWaitedAnswers = @ + 1],
           [m EXCEPT !.nbreOfWaitedAnswers = 0], Faces)

SendMapToNeighbors(m, except) == SendToFaces(m, [type |-> "MAP"], except)

(* Bug: the count of the last wave is not forgotten.                       *)
SendAsk4EndKeeping(m, except) ==
  LET move == m.currentMove + 1
  IN SendToFaces([m EXCEPT !.currentMove = move, !.nbreWellPlacedBlocks = @ + One(m.wellPlaced)],
                 [type |-> "ASK4END", currentMove |-> move], except)

SendAsk4EndToNeighbors(m, except) ==
  LET move == m.currentMove + 1
  IN SendToFaces([m EXCEPT !.currentMove = move, !.nbreWellPlacedBlocks = One(m.wellPlaced)],
                 [type |-> "ASK4END", currentMove |-> move], except)

SearchHead == [type |-> "HEAD"]
SearchEndTrain == [type |-> "END"]
SearchBackHead(except) == [type |-> "HBCK", except |-> except]
TrainReady(found) == [type |-> "TRAIN_READY", queueFound |-> found]
Reconnect(rule) == [type |-> "RECONNECT", hasRule |-> rule]

(* _numPrev = -1 when there is none, or for a single block: 0 here.        *)
SetNumPrev(m) ==
  IF m.previous = NoItf \/ m.isSingle THEN [m EXCEPT !.numPrev = 0]
  ELSE IF ~Linked(m.previous) THEN Fails(m)
  ELSE [m EXCEPT !.numPrev = Peer(m.previous)[1]]

SetPrevious(m, i) == SetNumPrev([m EXCEPT !.previous = i])

SendToPrevious(m, msg) == SendOn(m, m.previous, msg)
SendToNext(m, msg) == SendOn(m, m.next, msg)

(* The cells around a block, row by row from the south-west.               *)
Around(p, k) == <<p[1] + ((k - 1) % 3) - 1, p[2] + ((k - 1) \div 3) - 1>>

IsBorder(p) ==
  \E c \in {Sum(p, v) : v \in Point} : InGrid(c) /\ At0(c) = {}

(* The flag of the block itself is that of m, which the handler may have   *)
(* changed already.                                                        *)
Single(m, b) == IF b = m.id THEN m.isSingle ELSE block[b].isSingle

Presence(m, c) ==
  IF ~InGrid(c) THEN "wall"
  ELSE IF At0(c) = {} THEN "empty"
  ELSE IF ~IsBorder(c) THEN "full"
  ELSE IF \E b \in At0(c) : Single(m, b) THEN "single" ELSE "border"

GetPresenceMatrix(m) == [k \in 1..9 |-> Presence(m, Around(place[m.id], k))]

TargetCell(c) == IF ~InGrid(c) THEN "wall" ELSE IF WellPlaced(c) THEN "full" ELSE "empty"
GetLocalTargetGrid(m) == [k \in 1..9 |-> TargetCell(Around(place[m.id], k))]

NeighborDirection(m, f) ==
  LET i == Own(m, f)
  IN IF ~Linked(i) THEN NoPoint
     ELSE IF m.previous = i THEN block[Peer(i)[1]].motionDir
     ELSE IF block[Peer(i)[1]].wellPlaced THEN <<0, 0>> ELSE NoPoint

Ruled(m, pm, rules) ==
  [m EXCEPT !.pm = pm, !.rules = [k \in DOMAIN rules |-> [capa |-> rules[k].capa, zero |-> rules[k].zero]],
            !.motionDir = IF rules = <<>> THEN @ ELSE Caps[Last(rules).capa].motions[1].vect]

RulesFor(m, pm) ==
  Ruled(m, pm, ValidateDirection(Caps, pm, GetLocalTargetGrid(m),
                                 <<NeighborDirection(m, 0), NeighborDirection(m, 1),
                                   NeighborDirection(m, 2), NeighborDirection(m, 3)>>, m.motionDir))

ApplyRules(m) ==
  IF ~m.hasMap \/ (m.previous # NoItf /\ ~Linked(m.previous)) THEN Fails(m)
  ELSE RulesFor(m, GetPresenceMatrix(m))

Capa(m) == Caps[Last(m.rules).capa]

(* pop_back until the last rule is of the kind that is looked for.         *)
KeepUpTo(m, Kind(_)) ==
  LET last == {k \in DOMAIN m.rules : Kind(Caps[m.rules[k].capa])}
  IN [m EXCEPT !.rules = SubSeq(@, 1, IF last = {} THEN 0 ELSE CHOOSE k \in last : \A l \in last : l <= k)]

FaceTowards(m, p) == Own(m, Dir(p))

-----------------------------------------------------------------------------
(* Along the border: from a face on, one step (1 clockwise, 3 the other    *)
(* way) at a time, the first of three that is taken, or else the fourth.   *)
Turning(m, from, step, Takes(_)) ==
  LET face(k) == Own(m, (from + k * step) % 4)
      taken == {k \in 0..2 : Takes(face(k))}
      last == face(IF taken = {} THEN 3 ELSE CHOOSE k \in taken : \A l \in taken : k <= l)
  IN IF Linked(last) THEN last ELSE NoItf

(* The cells around a block clockwise from the north; the face that the    *)
(* search for the next one starts from, after the first empty cell; the    *)
(* one for the previous one, from the last, unless a block stands alone.   *)
Clockwise == << <<0, 1>>, <<1, 1>>, <<1, 0>>, <<1, -1>>, <<0, -1>>, <<-1, -1>>, <<-1, 0>>, <<-1, 1>> >>
Empty(m, k) == m.pm[Cell(Clockwise[(k % 8) + 1])] = "empty"

FirstAfterEmpty(m) ==
  LET empty == {k \in 0..7 : Empty(m, k)}
      first == IF empty = {} THEN 8 ELSE CHOOSE k \in empty : \A l \in empty : k <= l
  IN (first \div 2 + 1) % 4

Alone4(m) == {f \in Face : ~Empty(m, 2 * f) /\ Empty(m, 2 * f + 1) /\ Empty(m, 2 * f + 7)}

(* Counter-clockwise from the north the last empty cell is, seen           *)
(* clockwise, the first one after the north, or else the north.            *)
LastEmpty(m) ==
  LET empty == {k \in 1..8 : Empty(m, k)}
  IN ((CHOOSE k \in empty : \A l \in empty : k <= l) % 8) \div 2

BorderPrevious(m, next, OnSearch(_), OnBorder(_)) ==
  LET alone == Alone4(m)
      first == IF 0 \in alone THEN 0 ELSE CHOOSE f \in alone : \A g \in alone : f >= g
  IN IF next # NoItf THEN Turning(m, next[2] + 3, 3, OnSearch)
     ELSE IF alone # {} THEN (IF Linked(Own(m, first)) THEN Own(m, first) ELSE NoItf)
     ELSE IF \A k \in 1..8 : ~Empty(m, k) THEN NoItf
     ELSE Turning(m, LastEmpty(m), 3, OnBorder)

Unplaced(i) == Linked(i) /\ ~block[Peer(i)[1]].wellPlaced

GetBorderPrevious(m, next) == BorderPrevious(m, next, Linked, Linked)
GetBorderPreviousNoWellPlaced(m, next) ==
  BorderPrevious(m, next, Unplaced, LAMBDA i : IF m.wellPlaced THEN Unplaced(i) ELSE Linked(i))

BorderNext(m, prev, Takes(_)) ==
  Turning(m, IF prev = NoItf THEN FirstAfterEmpty(m) ELSE prev[2] + 1, 1, Takes)

GetBorderNext(m, prev) == BorderNext(m, prev, Linked)
GetBorderNextNoWellPlaced(m, prev) == BorderNext(m, prev, Unplaced)

(* A single block: the last of the neighbors in a row on its left side.    *)
GetBorderSinglePrevious(m) ==
  LET start == CASE m.motionDir[1] = 1 -> 0 [] m.motionDir = <<0, 1>> -> 3
                 [] m.motionDir[1] = 0 /\ m.motionDir[2] # 1 -> 1 [] OTHER -> 2
      row == CHOOSE n \in 0..3 : /\ \A k \in 1..n : Linked(Own(m, (start + k) % 4))
                                 /\ n < 3 => ~Linked(Own(m, (start + n + 1) % 4))
  IN Own(m, (start + row) % 4)

GetBorderNeighborById(m, id) ==
  LET faces == {f \in Face : Linked(Own(m, f)) /\ Peer(Own(m, f))[1] = id}
  IN IF id = 0 \/ faces = {} THEN NoItf ELSE Own(m, CHOOSE f \in faces : TRUE)

(* An isthmus: the train would leave by v next to another part of itself,  *)
(* or its last block is all that holds its support.                        *)
Left(v) == <<-v[2], v[1]>>
Back(v) == <<-v[1], -v[2]>>
TrainAt(p) == \E b \in At0(p) : block[b].isTrain

Aside(p, v) ==
  CASE v = <<0, 1>> -> p[2] > 1 /\ TrainAt(Sum(p, <<1, -1>>)) /\ At0(Sum(p, <<2, -2>>)) = {}
    [] v = <<0, -1>> -> p[2] < Size[2] - 2 /\ TrainAt(Sum(p, <<-1, 1>>)) /\ At0(Sum(p, <<-2, 2>>)) = {}
    [] v = <<1, 0>> -> FALSE
    [] OTHER -> /\ p[1] < Size[1] - 2 /\ p[2] < Size[2] - 2
                /\ TrainAt(Sum(p, <<1, 1>>)) /\ At0(Sum(p, <<2, 2>>)) = {}

TestIsthmus(m, v) ==
  LET p == place[m.id]
  IN (\E w \in {Left(v), Sum(Left(v), Back(v)), Back(v)} : TrainAt(Sum(p, w))) \/ Aside(p, v)

TestIsthmusTail(m, v) ==
  LET support == Sum(place[m.id], Left(v))
  IN At0(support) # {} /\ At0(Sum(support, Left(v))) = {}

-----------------------------------------------------------------------------
(* Looking for a train: HEAD goes back along the border to a block with a  *)
(* rule of head, END from there to one with a rule of end, TRAIN_READY to  *)
(* the head; a block without a rule is left out and the search goes round. *)
SendSearchBackHead(m, i, except) ==
  [SendOn(m, i, SearchBackHead(except)) EXCEPT !.isTrain = FALSE, !.isHead = FALSE]

SendEnd(m) == SendToNext(m, SearchEndTrain)

IsHead(c) == c.isHead
IsEnd(c) == c.isEnd
IsBody(c) == ~c.isHead /\ ~c.isEnd
IsLone(c) == c.isHead /\ c.isEnd

(* Motions that are ordered by the block itself, or sent along a path.     *)
PrepareUnlock(m, path, step) == [m EXCEPT !.unlockPath = path, !.unlockStep = step]

(* A date is that of a block, at once or after those who are told; it is   *)
(* too late for a block that hears of a motion "at once".                  *)
Now(m) == <<m.id, 0>>
Later(m) == <<m.id, 1>>

StartMotion(m, date, v, step, path) ==
  LET motion == [block |-> m.id, to |-> Sum(place[m.id], v), date |-> date]
  IN [PrepareUnlock(m, path, step) EXCEPT !.depart = IF date \in {Now(m)} \cup (Block \X {1})
                                                     THEN @ \cup {motion} ELSE @]

SingleMotion(m, motion, capa) ==
  LET lone == IF IsLone(capa) THEN [m EXCEPT !.isSingle = TRUE, !.numPrev = 0] ELSE m
  IN IF motion.path = <<>> THEN StartMotion(lone, Now(m), motion.vect, 0, capa.unlock)
     ELSE SendOn(lone, Own(m, Head(motion.path)),
                 [type |-> "SINGLEMV", path |-> Tail(motion.path), date |-> Later(m),
                  vect |-> motion.vect, unlock |-> motion.unlock, step |-> 1])

SingleMotions(m, motions, capa) ==
  FoldLeft(LAMBDA x, motion : SingleMotion(x, motion, capa), m, motions)

SpecialMotion(m) == SingleMotions(m, Capa(m).motions, Capa(m))

Step2Ruled(m) ==
  IF m.rules = <<>> THEN SendToNext([m EXCEPT !.isHead = FALSE], SearchBackHead(NoItf))
  ELSE IF Capa(m).isHead THEN SendEnd([m EXCEPT !.isHead = TRUE])
  ELSE SendToPrevious([SetPrevious(m, GetBorderPrevious(m, m.next)) EXCEPT !.isHead = FALSE], SearchHead)

Step2(m, next) ==
  Step2Ruled(ApplyRules([m EXCEPT !.isTrain = FALSE, !.next = next, !.previous = NoItf, !.isEnd = FALSE]))

IsIsthmus(m) ==
  \/ TestIsthmus(m, Capa(m).linkPrev)
  \/ /\ Capa(m).isEnd /\ ~Capa(m).isHead /\ ~m.isSingle
     /\ TestIsthmusTail(m, Capa(m).linkPrev)

NoTrain(m) == SendToPrevious([m EXCEPT !.isTrain = FALSE, !.isEnd = FALSE], TrainReady(FALSE))

Tailed(m) ==
  IF m.rules = <<>> THEN NoTrain(m)
  ELSE SendToPrevious([m EXCEPT !.isTrain = TRUE, !.isEnd = TRUE, !.isSingle = FALSE], TrainReady(TRUE))

(* The last rule becomes that of the block, whose next one it gives.       *)
TakeMotion(m) == [m EXCEPT !.motionDir = Capa(m).motions[1].vect, !.isTrain = TRUE, !.isEnd = FALSE]
TakeNext(m) == [TakeMotion(m) EXCEPT !.next = FaceTowards(m, Capa(m).linkNext)]

Joined(m) ==
  IF ~m.isSingle /\ m.rules # <<>> THEN SendEnd(TakeNext(m))
  ELSE Tailed(KeepUpTo(ApplyRules(m), IsEnd))

Step3Ruled(m) ==
  IF m.rules # <<>> /\ IsIsthmus(m) THEN NoTrain(m) ELSE Joined(KeepUpTo(m, IsBody))

Step3(m) == Step3Ruled(ApplyRules(m))

(* The messages that came before the border was known are handled then;    *)
(* END finds the interface of the border as the previous one.              *)
MemorisedEnd(m) == IF m.memorised.END = NoItf THEN m ELSE Step3(m)
Memorised(m) ==
  MemorisedEnd(IF m.memorised.HEAD = NoItf THEN m ELSE Step2(m, Peer(m.memorised.HEAD)))

Started(m) ==
  IF ~Last(m.rules).zero THEN m
  ELSE IF Capa(m).isHead THEN SendEnd([m EXCEPT !.isHead = TRUE])
  ELSE SendToPrevious(m, SearchHead)

PreviousByRule(m) ==
  IF Capa(m).isHead \/ Capa(m).linkPrev = NoPoint THEN [m EXCEPT !.previous = NoItf]
  ELSE SetPrevious(m, FaceTowards(m, Capa(m).linkPrev))

NextByRule(m) ==
  [m EXCEPT !.next = IF Capa(m).isEnd \/ Capa(m).linkNext = NoPoint THEN NoItf
                     ELSE FaceTowards(m, Capa(m).linkNext)]

AlongBorder(m) == [SetPrevious(m, GetBorderPrevious(m, NoItf)) EXCEPT !.next = GetBorderNext(m, NoItf)]

Bordered(m) ==
  IF m.rules = <<>> THEN AlongBorder(m) ELSE Memorised(Started(NextByRule(PreviousByRule(m))))

OnBorder(m) ==
  IF "empty" \notin ToSet(m.pm) THEN m
  ELSE Bordered(ApplyRules(SetPrevious(m, GetBorderPrevious(m, NoItf))))

CreateBorder(m) == OnBorder([m EXCEPT !.pm = GetPresenceMatrix(m)])

(* The end of a train that has moved looks for the train again.            *)
LookForHead(m) ==
  IF m.rules # <<>> THEN SendEnd([m EXCEPT !.motionDir = Capa(m).motions[1].vect, !.isTrain = TRUE,
                                             !.isHead = TRUE, !.previous = NoItf])
  ELSE IF m.previous # NoItf THEN SendToPrevious([m EXCEPT !.isHead = FALSE], SearchHead)
  ELSE SendSearchBackHead(m, m.next, NoItf)

PassReconnect(m) ==
  IF m.rules # <<>> THEN SendToPrevious(m, Reconnect(TRUE)) ELSE SendToNext(m, Reconnect(FALSE))

ReconnectRuled(m) ==
  IF m.previous = NoItf \/ m.isHead THEN LookForHead(KeepUpTo(m, IsHead))
  ELSE PassReconnect([SetPrevious(m, GetBorderPrevious(m, m.next)) EXCEPT !.isTrain = FALSE])

ReconnectAlone(m) == IF m.rules # <<>> THEN SpecialMotion(m) ELSE ReconnectRuled(m)

ReconnectBy(m, rule) ==
  IF rule THEN ReconnectRuled(m)
  ELSE IF m.rules = <<>> THEN Fails(m)
  ELSE ReconnectAlone(KeepUpTo(m, IsLone))

(* A line is created from its head on; its last block names the date.      *)
LineVector(m) ==
  IF ~m.isHead /\ m.previous # NoItf THEN Step(m.previous[2]) ELSE Capa(m).motions[1].vect

SetRdv(m, date, v) ==
  IF m.previous = NoItf THEN m ELSE SendToPrevious(m, [type |-> "SET_RDV", date |-> date, vect |-> v])

LeaveInLine(m, date, v) == StartMotion(SetRdv(m, date, v), date, v, 0, Capa(m).unlock)

LineFrom(m) ==
  IF m.rules = <<>> THEN Fails(m)
  ELSE IF Capa(m).isAngle \/ m.next = NoItf \/ Capa(m).isEnd
       THEN LeaveInLine(m, IF m.isHeadOfLine THEN Now(m) ELSE Later(m), LineVector(m))
  ELSE SendToNext(m, [type |-> "CREATE_LINE"])

CreateLine(m, headOfLine) == LineFrom([m EXCEPT !.isHeadOfLine = headOfLine])

-----------------------------------------------------------------------------
(* The handlers.  from is the interface of the sender, on that of this     *)
(* block.                                                                  *)
Map == [type |-> "MAP"]

Ready(m) ==
  LET acked == IF m.block2Answer = NoItf THEN m
               ELSE [SendOn(m, m.block2Answer, [type |-> "ACKMAP"]) EXCEPT !.block2Answer = NoItf]
  IN IF m.nbreOfWaitedAnswers # 0 THEN m ELSE CreateBorder([acked EXCEPT !.ready = TRUE])

OnMap(m, on) ==
  LET mapped == SendMapToNeighbors([m EXCEPT !.hasMap = TRUE, !.wellPlaced = WellPlaced(place[m.id]),
                                             !.block2Answer = on], on)
  IN Ready(IF m.hasMap THEN SendOn(m, on, [type |-> "ACKMAP"]) ELSE mapped)

(* Bug: the first acknowledgement ends the wait.                           *)
OnAckMapFirst(m) == Ready([m EXCEPT !.nbreOfWaitedAnswers = 0])

OnAckMap(m) == Ready([m EXCEPT !.nbreOfWaitedAnswers = @ - 1])

OnHead(m, from, on) ==
  IF m.ready THEN Step2(m, on) ELSE [m EXCEPT !.memorised.HEAD = from]

OnEnd(m, from, on) ==
  IF m.ready THEN Step3(SetPrevious(m, on)) ELSE [m EXCEPT !.memorised.END = from]

(* A block to leave out: the search goes on at the next face after it.     *)
SearchAround(m, except) ==
  LET towards == {f \in Face : Peer(Own(m, f)) = except}
      f == IF towards = {} THEN 0 ELSE CHOOSE g \in towards : TRUE
  IN SendSearchBackHead(m, Own(m, (f + 1) % 4), NoItf)

GoRound(m) ==
  SendSearchBackHead([m EXCEPT !.next = GetBorderNext(m, m.previous)], GetBorderNext(m, m.previous), NoItf)

LeadTrain(m) ==
  IF Capa(m).isEnd THEN SpecialMotion(m)
  ELSE IF m.isEnd THEN SendEnd([AlongBorder(TakeMotion(m)) EXCEPT !.isHead = TRUE])
  ELSE SendEnd([TakeNext(m) EXCEPT !.isHead = TRUE, !.previous = NoItf])

HeadRuled(m) ==
  IF m.rules # <<>> THEN LeadTrain(m)
  ELSE IF m.isEnd \/ m.next = NoItf THEN SendSearchBackHead(m, m.previous, m.previous)
  ELSE GoRound(ApplyRules(m))

BackRuled(m) == IF m.rules = <<>> THEN GoRound(ApplyRules(m)) ELSE HeadRuled(KeepUpTo(m, IsHead))

OnSearchBackHead(m, msg, on) ==
  IF msg.except # NoItf THEN SearchAround(m, msg.except) ELSE BackRuled(ApplyRules(SetPrevious(m, on)))

BecomeEnd(m) ==
  IF m.rules # <<>> /\ (m.isSingle \/ ~TestIsthmusTail(m, Capa(m).linkPrev))
  THEN SendToPrevious([m EXCEPT !.isTrain = TRUE, !.isEnd = TRUE], TrainReady(TRUE))
  ELSE NoTrain(m)

EndBefore(m) ==
  IF m.rules = <<>> THEN Fails(m)
  ELSE IF Capa(m).isHead THEN m
  ELSE BecomeEnd(KeepUpTo(m, IsEnd))

OnTrainReady(m, msg) ==
  IF ~msg.queueFound THEN EndBefore(ApplyRules(m))
  ELSE IF m.isHead THEN CreateLine([m EXCEPT !.isTrain = TRUE], TRUE)
  ELSE SendToPrevious([m EXCEPT !.isTrain = TRUE, !.isEnd = FALSE], TrainReady(TRUE))

OnSetRdv(m, msg) ==
  IF m.rules = <<>> THEN Fails(m)
  ELSE StartMotion(IF m.isHead \/ m.isHeadOfLine THEN m ELSE SendToPrevious(m, msg),
                   msg.date, msg.vect, 0, Capa(m).unlock)

(* At the end of the path the block is the head of the next line: it moves *)
(* alone around an angle, or the train is at its end and looks for itself. *)
TrainOver(m) ==
  SendToPrevious([SetPrevious(m, GetBorderPrevious(m, NoItf)) EXCEPT !.next = NoItf, !.isTrain = FALSE],
                 Reconnect(m.rules # <<>>))

LineOver(m) == IF m.rules = <<>> THEN Fails(m) ELSE TrainOver(KeepUpTo(m, IsEnd))

AngleMotions(m, motions) ==
  IF motions # <<>> THEN SingleMotions(m, motions, Capa(m)) ELSE LineOver(ApplyRules(m))

HeadOfLine(m, step) ==
  IF m.rules = <<>> THEN Fails(m)
  ELSE IF ~(Capa(m).isAngle \/ Capa(m).isEnd) THEN CreateLine(m, TRUE)
  ELSE AngleMotions(m, SelectSeq(Capa(m).motions, LAMBDA motion : motion.time = step))

OnUnlock(m, msg) ==
  IF msg.path # <<>> THEN SendOn(m, Own(m, Head(msg.path)), [msg EXCEPT !.path = Tail(@)])
  ELSE HeadOfLine([m EXCEPT !.isHeadOfLine = TRUE], msg.step)

OnSingleMove(m, msg) ==
  IF msg.path = <<>> THEN StartMotion(m, msg.date, msg.vect, msg.step, msg.unlock)
  ELSE SendOn(m, Own(m, Head(msg.path)), [msg EXCEPT !.path = Tail(@)])

(* Without a rule the next block is found by the presence matrix of the    *)
(* last time.                                                              *)
OnReconnect(m, msg, on) ==
  LET previous == GetBorderPrevious(m, on)
      back == SetPrevious([m EXCEPT !.next = on], IF previous = on THEN NoItf ELSE previous)
      forth == SetPrevious([m EXCEPT !.next = GetBorderNext(m, NoItf)], on)
  IN ReconnectBy(ApplyRules(IF msg.hasRule THEN back ELSE forth), msg.hasRule)

SendAns4End(m, i, value) == SendOn(m, i, [type |-> "ANS4END", nbreWellPlaced |-> value])

Asked(m, on) ==
  IF ~m.hasMap THEN Fails(m)
  ELSE IF m.nbreOfWaitedAnswers # 0 THEN m
  ELSE [SendAns4End(m, on, m.nbreWellPlacedBlocks) EXCEPT !.block2Answer = NoItf]

OnAsk4End(m, msg, on) ==
  IF m.currentMove = msg.currentMove THEN SendAns4End(m, on, 0)
  ELSE Asked(SendAsk4EndToNeighbors(
               [m EXCEPT !.wellPlaced = WellPlaced(place[m.id]), !.isTrain = FALSE,
                         !.motionDir = <<0, 0>>, !.block2Answer = on], on), on)

(* The initiator knows the count: unless the target is full, it starts     *)
(* again from its neighbor before the motion, or along the border.         *)
ResumedFrom(m, last) ==
  IF m.isSingle THEN [m EXCEPT !.next = NoItf, !.previous = GetBorderSinglePrevious(m), !.numPrev = 0]
  ELSE IF last # NoItf THEN SetPrevious([m EXCEPT !.next = GetBorderNextNoWellPlaced(m, last)], last)
  ELSE SetPrevious([m EXCEPT !.next = GetBorderNextNoWellPlaced(m, NoItf)],
                   GetBorderPreviousNoWellPlaced(m, GetBorderNextNoWellPlaced(m, NoItf)))

EndAgain(m) ==
  IF m.rules # <<>> THEN SendToPrevious([m EXCEPT !.isEnd = TRUE, !.next = NoItf], Reconnect(TRUE))
  ELSE SendToPrevious(ApplyRules(m), SearchHead)

ResumedRuled(m) ==
  IF m.nbreWellPlacedBlocks = Cardinality(target) THEN m
  ELSE IF m.rules = <<>> THEN Fails(m)
  ELSE IF IsLone(Capa(m)) THEN SpecialMotion(m)
  ELSE EndAgain(KeepUpTo(m, IsEnd))

Resumed(m) == ResumedRuled(ApplyRules(ResumedFrom(m, GetBorderNeighborById(m, m.numPrev))))

Counted(m) ==
  IF m.nbreOfWaitedAnswers # 0 THEN m
  ELSE IF m.block2Answer = NoItf THEN Resumed(m)
  ELSE [SendAns4End(m, m.block2Answer, m.nbreWellPlacedBlocks) EXCEPT !.block2Answer = NoItf]

OnAns4End(m, msg) ==
  Counted([m EXCEPT !.nbreOfWaitedAnswers = @ - 1, !.nbreWellPlacedBlocks = @ + msg.nbreWellPlaced])

Handled(m, msg, from, on) ==
  CASE msg.type = "MAP" -> OnMap(m, on)
    [] msg.type = "ACKMAP" -> OnAckMap(m)
    [] msg.type = "HEAD" -> OnHead(m, from, on)
    [] msg.type = "HBCK" -> OnSearchBackHead(m, msg, on)
    [] msg.type = "END" -> OnEnd(m, from, on)
    [] msg.type = "TRAIN_READY" -> OnTrainReady(m, msg)
    [] msg.type = "CREATE_LINE" -> CreateLine(m, FALSE)
    [] msg.type = "SET_RDV" -> OnSetRdv(m, msg)
    [] msg.type = "UNLOCK" -> OnUnlock(m, msg)
    [] msg.type = "SINGLEMV" -> OnSingleMove(m, msg)
    [] msg.type = "RECONNECT" -> OnReconnect(m, msg, on)
    [] msg.type = "ASK4END" -> OnAsk4End(m, msg, on)
    [] msg.type = "ANS4END" -> OnAns4End(m, msg)

(* Bug: every block that has arrived has the blocks counted.               *)
OnTranslationEndOfAny(m) ==
  LET here == [m EXCEPT !.pm = GetPresenceMatrix(m), !.wellPlaced = WellPlaced(place[m.id]),
                        !.isTrain = FALSE]
  IN IF m.unlockPath = <<>> THEN SendAsk4EndToNeighbors(here, NoItf)
     ELSE SendOn(here, Own(m, Head(m.unlockPath)),
                 [type |-> "UNLOCK", path |-> Tail(m.unlockPath), step |-> m.unlockStep])

OnTranslationEnd(m) ==
  LET here == [m EXCEPT !.pm = GetPresenceMatrix(m), !.wellPlaced = WellPlaced(place[m.id]),
                        !.isTrain = FALSE]
  IN IF ~m.hasMap THEN Fails(m)
     ELSE IF m.unlockPath # <<>> THEN
       SendOn(here, Own(m, Head(m.unlockPath)),
              [type |-> "UNLOCK", path |-> Tail(m.unlockPath), step |-> m.unlockStep])
     ELSE IF m.isEnd THEN SendAsk4EndToNeighbors(here, NoItf)
     ELSE here

-----------------------------------------------------------------------------
(* What a handler leaves behind: q are the queues without what it took; of *)
(* the rules only the last one is looked at afterwards.                    *)
Sent(m, i) ==
  LET here == SelectSeq(m.out, LAMBDA x : x.on = i)
  IN [k \in DOMAIN here |-> here[k].msg]

Settled(m) ==
  [m EXCEPT !.out = <<>>, !.depart = {}, !.fails = FALSE,
            !.rules = IF @ = <<>> THEN @ ELSE <<Last(@)>>]

Effect(m, q) ==
  /\ block' = [block EXCEPT ![m.id] = Settled(m)]
  /\ queue' = [i \in Interface |-> q[i] \o Sent(m, i)]
  /\ starts' = starts \cup m.depart
  /\ crashed' = m.fails

Receive(i) ==
  /\ ~crashed /\ queue[i] # <<>> /\ Linked(i)
  /\ Effect(Handled(block[Peer(i)[1]], Head(queue[i]), i, Peer(i)), [queue EXCEPT ![i] = Tail(@)])
  /\ UNCHANGED <<place, moving, target, ends, moves>>

(* A message that is sent on an interface without a link, or was in its    *)
(* buffer when the link went away; the others wait for the next link.      *)
Drop(i) ==
  /\ ~crashed /\ queue[i] # <<>> /\ ~Linked(i)
  /\ queue' = [queue EXCEPT ![i] = Tail(@)]
  /\ UNCHANGED <<place, moving, target, block, starts, ends, crashed, moves>>

(* A date comes after the messages that announce it, and after the motion  *)
(* at once of the block that names it.                                     *)
Announced(date) ==
  \E i \in Interface : \E msg \in ToSet(queue[i]) :
    msg.type \in {"SET_RDV", "SINGLEMV"} /\ msg.date = date /\ date[2] = 1

Leaving(date) == {s.block : s \in {x \in starts : x.date = date}}

(* TranslationStartEvent::consume for all the blocks with this date.       *)
Depart(date) ==
  /\ ~crashed /\ Leaving(date) # {} /\ ~Announced(date) /\ moves < MaxMoves
  /\ Leaving(date) \cap moving = {}
  /\ date[2] = 1 => Leaving(<<date[1], 0>>) = {}
  /\ moving' = moving \cup Leaving(date)
  /\ moves' = moves + 1
  /\ UNCHANGED <<place, target, block, queue, starts, ends, crashed>>

(* TranslationStopEvent::consume: the blocks are in their new cells.  An   *)
(* occupied cell throws; one outside the grid is written outside its array.*)
(* A step of a motion takes 40 ms, a message 0.1 ms and an announced date  *)
(* 2 ms: they all come before.                                             *)
Calm == /\ \A i \in Interface : queue[i] = <<>>
        /\ \A s \in starts : s.block \in moving

Land(date) ==
  LET landing == {s \in starts : s.date = date}
      Arrives(b) == b \in Leaving(date)
      cells == [b \in Block |-> IF Arrives(b) THEN (CHOOSE s \in landing : s.block = b).to ELSE place[b]]
      away == {b \in moving : ~Arrives(b)}
      fits == /\ \A s \in landing : InGrid(s.to)
              /\ \A b, c \in Block \ away : b # c => cells[b] # cells[c]
  IN /\ ~crashed /\ landing # {} /\ Calm
     /\ place' = IF fits THEN cells ELSE place
     /\ moving' = IF fits THEN away ELSE moving
     /\ crashed' = ~fits
     /\ starts' = starts \ landing
     /\ ends' = ends \cup landing
     /\ UNCHANGED <<target, block, queue, moves>>

(* The end, a step later, of the motions of a date.                        *)
TranslationEnd(date) ==
  LET ended == {s \in ends : s.date = date}
      Done(b) == IF \E s \in ended : s.block = b THEN OnTranslationEnd(block[b]) ELSE block[b]
  IN /\ ~crashed /\ ended # {} /\ moving = {}
     /\ block' = [b \in Block |-> Settled(Done(b))]
     /\ queue' = [i \in Interface |-> queue[i] \o Sent(Done(i[1]), i)]
     /\ crashed' = (\E b \in Block : Done(b).fails)
     /\ ends' = ends \ ended
     /\ UNCHANGED <<place, moving, target, starts, moves>>

(* SbReconfBlockCode::startup, for all the blocks at date zero.            *)
Startup(b) ==
  IF b # 1 THEN Fields(b)
  ELSE SendMapToNeighbors([Fields(b) EXCEPT !.hasMap = TRUE, !.wellPlaced = WellPlaced(place[b])], NoItf)

StartFrom(s) ==
  /\ place = s.cells /\ target = s.target /\ moving = {}
  /\ block = [b \in Block |-> Settled(Startup(b))]
  /\ queue = [i \in Interface |-> Sent(Startup(i[1]), i)]
  /\ starts = {} /\ ends = {} /\ crashed = FALSE /\ moves = 0

SbInit == \E s \in Start : StartFrom(s)

SbNext ==
  \/ \E i \in Interface : Receive(i) \/ Drop(i)
  \/ \E date \in Block \X {0, 1} : Depart(date) \/ Land(date) \/ TranslationEnd(date)

SbSpec == SbInit /\ [][SbNext]_sbVars
-----------------------------------------------------------------------------
InTransitTo(b, type) ==
  \E i \in Interface : /\ Linked(i) /\ Peer(i)[1] = b
                       /\ \E k \in DOMAIN queue[i] : queue[i][k].type = type

(* A block takes its place in the border once: the links are FIFO, so no   *)
(* other map comes after the last acknowledgement it waits for.            *)
BorderOnce ==
  \A b \in Block : block[b].ready => ~InTransitTo(b, "MAP")

(* When its last answer comes, the block that counts knows how many blocks *)
(* are in their place: each block has answered once in the wave, or was    *)
(* counted by the one that asked it first.                                 *)
Counts(b) ==
  /\ block[b].currentMove > 0 /\ block[b].block2Answer = NoItf
  /\ block[b].nbreOfWaitedAnswers = 1 /\ block'[b].nbreOfWaitedAnswers = 0

CountIsExact ==
  [][\A b \in Block : Counts(b) =>
       block'[b].nbreWellPlacedBlocks = Cardinality({c \in Block : place[c] \in target})]_sbVars

(* The blocks are counted by the last one of a train that has moved: no    *)
(* other motion is ordered, takes place or has just ended meanwhile, or    *)
(* the count would be that of no moment.                                   *)
Counting(i) == \E k \in DOMAIN queue[i] : queue[i][k].type \in {"ASK4END", "ANS4END"}
CountedAtRest == (\E i \in Interface : Counting(i)) => starts = {} /\ ends = {}
=============================================================================
