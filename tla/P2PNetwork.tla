----------------------------- MODULE P2PNetwork -----------------------------
(***************************************************************************)
(* Blocks on a lattice, their point-to-point interfaces, the events that   *)
(* move messages from one block to the next, and the motions that cut and  *)
(* remake the links, as one scheduler thread executes them.                *)
(*                                                                         *)
(* An interface is a pair <<block, direction>>: the worlds index           *)
(* P2PNetworkInterfaces by lattice direction.  The block code (the user's  *)
(* program) is abstract: whenever the simulator calls it, it may send some *)
(* messages or ask for a motion.                                           *)
(***************************************************************************)
EXTENDS EventList, FiniteSets, SequencesExt

CONSTANTS
  Block, Dir, Cell,   \* modules, lattice directions, grid cells
  NULL,
  Opposite,           \* Lattice::getOppositeDirection
  DirOrder, CellOrder, \* the order in which loops go through them
  NeighborCell,       \* cell next to a cell in a direction, NULL off the grid
  InitialCell,        \* where the configuration file puts a block, NULL if nowhere
  Msg,                \* the messages the block codes may send, each once
  TransmissionTime,   \* values of P2PNetworkInterface::getTransmissionDuration
  SendDelay,          \* the t0 and dt arguments of BlockCode::sendMessage give these
  StartDelay,         \* from the request of a motion to its start
  IntLimit,           \* the first date an int cannot hold
  FarDate,            \* what a date becomes that an int cannot hold
  MotionTime,         \* dates between the start and the stop of a motion
  EndDelay,           \* ANIMATION_DELAY, from the stop to the end of a motion
  MaxSends,           \* bound: messages sent by one call of the block code
  MaxMoves            \* bound: motions asked for in a run

NI == Block \X Dir

ASSUME TopologyAssumption ==
  /\ NULL \notin Block \cup Cell \cup Msg \cup NI
  /\ NULL \notin [msg : Msg, src : NI, dst : NI]
  /\ IsFiniteSet(Block) /\ IsFiniteSet(Dir)
  /\ DirOrder \in Seq(Dir) /\ \A d \in Dir : \E i \in DOMAIN DirOrder : DirOrder[i] = d
  /\ CellOrder \in Seq(Cell) /\ \A c \in Cell : \E i \in DOMAIN CellOrder : CellOrder[i] = c
  /\ Opposite \in [Dir -> Dir]
  /\ \A d \in Dir : Opposite[Opposite[d]] = d
  /\ NeighborCell \in [Cell -> [Dir -> Cell \cup {NULL}]]
  /\ \A c \in Cell, d \in Dir : NeighborCell[c][d] # NULL =>
       /\ NeighborCell[NeighborCell[c][d]][Opposite[d]] = c
       /\ NeighborCell[c][d] # c
  /\ InitialCell \in [Block -> Cell \cup {NULL}]
  /\ \A a, b \in Block : InitialCell[a] = InitialCell[b] /\ a # b => InitialCell[a] = NULL

ASSUME TimingAssumption ==
  /\ TransmissionTime \subseteq Nat /\ TransmissionTime # {}
  /\ SendDelay \subseteq Nat
  /\ StartDelay \subseteq Nat
  /\ IntLimit \in Nat /\ FarDate \in Nat
  /\ MotionTime \subseteq Nat
  /\ EndDelay \in Nat
  /\ MaxSends \in Nat
  /\ MaxMoves \in Nat

(* A motion takes many steps of ANIMATION_DELAY (40 ms), a transmission a  *)
(* few bytes at the interface's data rate.                                 *)
ASSUME MotionsAreSlower == \A m \in MotionTime, t \in TransmissionTime : t < m

VARIABLES
  now,                       \* Scheduler::currentDate
  eventsMap,                 \* Scheduler::eventsMap
  connectedInterface,        \* per interface, its peer or NULL
  outgoingQueue,             \* per interface, messages waiting to be sent
  messageBeingTransmitted,   \* per interface, the message on the wire or NULL
  availabilityDate,          \* per interface
  localEventsList,           \* per block, events waiting for its block code
  grid,                      \* Lattice::grid, the block in each cell or NULL
  position,                  \* per block
  unsent,                    \* messages no block code has sent yet
  moves,                     \* motions asked for so far
  exited                     \* exit(EXIT_FAILURE) was called

vars == <<now, eventsMap, connectedInterface, outgoingQueue,
          messageBeingTransmitted, availabilityDate, localEventsList, grid,
          position, unsent, moves, exited>>

interfaceVars == <<outgoingQueue, messageBeingTransmitted, availabilityDate>>
worldVars     == <<connectedInterface, grid, position>>
codeVars      == <<unsent, moves>>

-----------------------------------------------------------------------------
(* Events, as the constructors of the Event classes make them. *)

Event(kind, on, arg) == [kind |-> kind, on |-> on, arg |-> arg]

BlockEventKind == {"CodeStart", "ProcessLocal", "TranslationEnd"}

InterfaceEventKind ==
  {"StartTransmitting", "StopTransmitting", "AddNeighbor", "RemoveNeighbor"}

MotionKind == {"TranslationStart", "TranslationStop"}

EventType == [kind : BlockEventKind, on : Block, arg : {NULL}]
        \cup [kind : InterfaceEventKind, on : NI, arg : {NULL}]
        \cup [kind : {"EnqueueOutgoing"}, on : NI, arg : Msg]
        \cup [kind : MotionKind, on : Block, arg : Cell]

(* A message on the wire or received carries the ends send() gave it. *)
Packet == [msg : Msg, src : NI, dst : NI]

(* An entry of localEventsList: a received message, or a notification. *)
LocalEvent == [kind : {"NIReceive"}, packet : Packet]
         \cup [kind : {"AddNeighbor", "RemoveNeighbor"}, packet : {NULL}]

Received(p)  == [kind |-> "NIReceive", packet |-> p]
Notice(kind) == [kind |-> kind, packet |-> NULL]

-----------------------------------------------------------------------------
(* Block b is in the grid g, at its position. *)
InGrid(g, pos, b) == pos[b] # NULL /\ g[pos[b]] = b

(* BuildingBlock::addNeighbor and removeNeighbor: one event per interface. *)
Note(kind, ni) == Event(kind, ni, NULL)

Notices(kind, nis) == SetToSeq({Note(kind, ni) : ni \in nis})

-----------------------------------------------------------------------------
(* Linking.  The loops carry w: the links, and the notices scheduled.      *)

NoticeEvent == [kind : {"AddNeighbor", "RemoveNeighbor"}, on : NI, arg : {NULL}]

Linkage == [links : [NI -> NI \cup {NULL}], notices : Seq(NoticeEvent)]

(* P2PNetworkInterface::connect called on ni for the interface nj ...      *)
Join(w, ni, nj) ==
  IF w.links[nj] = ni
  THEN [links |-> [w.links EXCEPT ![ni] = nj], notices |-> w.notices]
  ELSE [links   |-> [w.links EXCEPT ![nj] = ni, ![ni] = nj],
        notices |-> w.notices
                    \o (IF w.links[nj] = NULL THEN <<>>
                        ELSE <<Note("RemoveNeighbor", w.links[nj]), Note("RemoveNeighbor", nj)>>)
                    \o <<Note("AddNeighbor", ni), Note("AddNeighbor", nj)>>]

(* ... and for NULL.                                                       *)
Part(w, ni) ==
  IF w.links[ni] = NULL
  THEN w
  ELSE [links   |-> [w.links EXCEPT ![w.links[ni]] = NULL, ![ni] = NULL],
        notices |-> w.notices \o <<Note("RemoveNeighbor", ni),
                                   Note("RemoveNeighbor", w.links[ni])>>]

Connect[x \in Linkage \X NI \X (NI \cup {NULL})] ==
  IF x[3] = NULL THEN Part(x[1], x[2]) ELSE Join(x[1], x[2], x[3])

HasBlock(g, c) == c # NULL /\ g[c] # NULL

(* The interface a block in cell c faces in direction d.                   *)
FaceAtMutant(g, c, d) ==  \* the face of the other block not turned round
  IF HasBlock(g, NeighborCell[c][d]) THEN <<g[NeighborCell[c][d]], d>> ELSE NULL

FaceAt(g, c, d) ==
  IF HasBlock(g, NeighborCell[c][d]) THEN <<g[NeighborCell[c][d]], Opposite[d]>> ELSE NULL

(* linkBlock of the worlds: every interface of the block in cell c.        *)
LinkBlock(w, g, c) ==
  LET after[i \in 0..Len(DirOrder)] ==
        IF i = 0 THEN w
        ELSE Connect[<<after[i - 1], <<g[c], DirOrder[i]>>, FaceAt(g, c, DirOrder[i])>>]
  IN  after[Len(DirOrder)]

LinkCells(w, g, cells) ==
  LET after[i \in 0..Len(cells)] ==
        IF i = 0 THEN w
        ELSE IF HasBlock(g, cells[i]) THEN LinkBlock(after[i - 1], g, cells[i])
        ELSE after[i - 1]
  IN  after[Len(cells)]

Linking(l, g, cells) == LinkCells([links |-> l, notices |-> <<>>], g, cells)

(* The cells of linkBlock(c) and linkNeighbors(c).                         *)
Around(c) == <<c>> \o [i \in DOMAIN DirOrder |-> NeighborCell[c][DirOrder[i]]]

-----------------------------------------------------------------------------
(* Start: the blocks of the configuration are in the grid, linkBlocks has  *)
(* linked them, addBlock has scheduled the CodeStart of each at date 0.    *)

InitialGrid ==
  [c \in Cell |-> IF \E b \in Block : InitialCell[b] = c
                  THEN CHOOSE b \in Block : InitialCell[b] = c
                  ELSE NULL]

InitialLinking == Linking([ni \in NI |-> NULL], InitialGrid, CellOrder)

Init ==
  /\ now = 0
  /\ grid = InitialGrid
  /\ position = InitialCell
  /\ connectedInterface = InitialLinking.links
  /\ eventsMap =
       [d \in Time |->
          IF d = 0
          THEN SetToSeq({Event("CodeStart", b, NULL) : b \in {a \in Block : position[a] # NULL}})
               \o InitialLinking.notices
          ELSE <<>>]
  /\ outgoingQueue = [ni \in NI |-> <<>>]
  /\ messageBeingTransmitted = [ni \in NI |-> NULL]
  /\ availabilityDate = [ni \in NI |-> 0]
  /\ localEventsList = [b \in Block |-> <<>>]
  /\ unsent = Msg
  /\ moves = 0
  /\ exited = FALSE

-----------------------------------------------------------------------------
Linked(ni) == connectedInterface[ni] # NULL

(* The block code of b runs at date t with q the events pending.  It may   *)
(* send messages and ask for a motion, in any order; the simulator         *)
(* schedules the events of "after" for t when it returns.                  *)

(* BlockCode::sendMessage draws a delay for each message, and keeps the    *)
(* date in an int.  One that does not fit is in the past, or so far that it *)
(* is after maximumDate, or after all others if that has its default value. *)
SendDate(t, delay) == IF t + delay < IntLimit THEN t + delay ELSE FarDate

SendRequest(b, t) ==
  {[date |-> SendDate(t, delay), event |-> Event("EnqueueOutgoing", ni, m)] :
     delay \in SendDelay, ni \in {n \in NI : n[1] = b /\ Linked(n)}, m \in unsent}

InMotion(q, b) ==
  \/ Pending(q, Event("TranslationEnd", b, NULL))
  \/ \E c \in Cell, k \in MotionKind : Pending(q, Event(k, b, c))

Reserved(q, c) == \E b \in Block, k \in MotionKind : Pending(q, Event(k, b, c))

(* The capability checks of the block codes: only a block at rest moves,   *)
(* to a free cell that no other motion has for its goal.                   *)
MayMove(b, q) == moves < MaxMoves /\ InGrid(grid, position, b) /\ ~InMotion(q, b)

Goal(b, q) ==
  IF MayMove(b, q) THEN {c \in Cell : grid[c] = NULL /\ ~Reserved(q, c)} ELSE {}

MoveRequest(b, t, q) ==
  {[date |-> t + delay, event |-> Event("TranslationStart", b, c)] :
     delay \in StartDelay, c \in Goal(b, q)}

Asked(s, kind) == {i \in DOMAIN s : s[i].event.kind = kind}

(* What one call of the block code may ask for: each message once, at most *)
(* MaxSends of them, and at most one motion.                               *)
Requests(b, t, q) ==
  {s \in UNION {[1..n -> SendRequest(b, t) \cup MoveRequest(b, t, q)] : n \in 0..(MaxSends + 1)} :
     /\ \A i, j \in Asked(s, "EnqueueOutgoing") :
          s[i].event.arg = s[j].event.arg => i = j
     /\ \A i, j \in Asked(s, "TranslationStart") : i = j
     /\ Cardinality(Asked(s, "EnqueueOutgoing")) <= MaxSends}

BlockCode(b, t, q, after) ==
  \E s \in Requests(b, t, q) :
    /\ eventsMap' = ScheduleAll(ScheduleEach(q, t, s), t, t, after)
    /\ unsent' = unsent \ {s[i].event.arg : i \in Asked(s, "EnqueueOutgoing")}
    /\ moves' = IF Asked(s, "TranslationStart") = {} THEN moves ELSE moves + 1

(* BlockCode::startup() at the start, BlockCode::processLocalEvent called  *)
(* directly at the end of a motion.                                        *)
CodeStart(t, e, q) ==
  /\ e.kind \in {"CodeStart", "TranslationEnd"}
  /\ BlockCode(e.on, t, q, <<>>)
  /\ UNCHANGED <<worldVars, interfaceVars, localEventsList, exited>>

-----------------------------------------------------------------------------
(* Local events. *)

(* BuildingBlock::scheduleLocalEvent: only the first entry of the list     *)
(* needs a ProcessLocalEvent, each one schedules the next.                 *)
ScheduleLocalEventMutant(q, t, b) ==  \* one ProcessLocalEvent per entry
  Schedule(q, t, t, Event("ProcessLocal", b, NULL))

ScheduleLocalEvent(q, t, b) ==
  IF localEventsList[b] = <<>>
  THEN Schedule(q, t, t, Event("ProcessLocal", b, NULL))
  ELSE q

(* AddNeighborEvent, RemoveNeighborEvent: consumeBlockEvent. *)
Notify(t, e, q) ==
  /\ e.kind \in {"AddNeighbor", "RemoveNeighbor"}
  /\ eventsMap' = ScheduleLocalEvent(q, t, e.on[1])
  /\ localEventsList' = [localEventsList EXCEPT ![e.on[1]] = Append(@, Notice(e.kind))]
  /\ UNCHANGED <<worldVars, interfaceVars, codeVars, exited>>

(* The end of BuildingBlock::processLocalEvent: the next ProcessLocalEvent. *)
ResumeMutant(b) == <<>>  \* the next one forgotten

Resume(b) ==
  IF Tail(localEventsList[b]) # <<>> THEN <<Event("ProcessLocal", b, NULL)>> ELSE <<>>

(* BuildingBlock::processLocalEvent: an empty list is a fatal error. *)
ProcessLocal(t, e, q) ==
  /\ e.kind = "ProcessLocal"
  /\ LET b == e.on
     IN  IF localEventsList[b] = <<>>
         THEN /\ exited' = TRUE
              /\ eventsMap' = q
              /\ UNCHANGED <<localEventsList, codeVars>>
         ELSE /\ localEventsList' = [localEventsList EXCEPT ![b] = Tail(@)]
              /\ BlockCode(b, t, q, Resume(b))
              /\ UNCHANGED exited
  /\ UNCHANGED <<worldVars, interfaceVars>>

-----------------------------------------------------------------------------
(* Interfaces. *)

LatestDate(a, b) == IF a < b THEN b ELSE a

(* A start event is due only for the first message of an idle interface.   *)
NeedsStartMutant(ni) == outgoingQueue[ni] = <<>>  \* wire not looked at

NeedsStart(ni) == outgoingQueue[ni] = <<>> /\ messageBeingTransmitted[ni] = NULL

PushBackMutant(s, m) == <<m>> \o s

PushBack(s, m) == Append(s, m)

(* P2PNetworkInterface::addToOutgoingBuffer *)
EnqueueOutgoing(t, e, q) ==
  /\ e.kind = "EnqueueOutgoing"
  /\ LET ni == e.on
         date == LatestDate(availabilityDate[ni], t)
     IN  \/ /\ ~Linked(ni)
            /\ eventsMap' = q
            /\ UNCHANGED interfaceVars
         \/ /\ Linked(ni)
            /\ outgoingQueue' = [outgoingQueue EXCEPT ![ni] = PushBack(@, e.arg)]
            /\ availabilityDate' = [availabilityDate EXCEPT ![ni] = date]
            /\ eventsMap' = IF NeedsStart(ni)
                            THEN Schedule(q, t, date, Event("StartTransmitting", ni, NULL))
                            ELSE q
            /\ UNCHANGED messageBeingTransmitted
  /\ UNCHANGED <<worldVars, localEventsList, codeVars, exited>>

(* P2PNetworkInterface::send, past its two checks. *)
Transmit(ni, t, q) ==
  \E duration \in TransmissionTime :
    /\ outgoingQueue' = [outgoingQueue EXCEPT ![ni] = Tail(@)]
    /\ messageBeingTransmitted' =
         [messageBeingTransmitted EXCEPT ![ni] =
            [msg |-> Head(outgoingQueue[ni]), src |-> ni,
             dst |-> connectedInterface[ni]]]
    /\ availabilityDate' = [availabilityDate EXCEPT ![ni] = t + duration]
    /\ eventsMap' = Schedule(q, t, t + duration, Event("StopTransmitting", ni, NULL))

(* NetworkInterfaceStartTransmittingEvent::consume calls send(): nothing   *)
(* without a link, a fatal error on an empty queue.                        *)
StartTransmitting(t, e, q) ==
  /\ e.kind = "StartTransmitting"
  /\ \/ /\ ~Linked(e.on)
        /\ eventsMap' = q
        /\ UNCHANGED <<interfaceVars, exited>>
     \/ /\ Linked(e.on)
        /\ outgoingQueue[e.on] = <<>>
        /\ exited' = TRUE
        /\ eventsMap' = q
        /\ UNCHANGED interfaceVars
     \/ /\ Linked(e.on)
        /\ outgoingQueue[e.on] # <<>>
        /\ Transmit(e.on, t, q)
        /\ UNCHANGED exited
  /\ UNCHANGED <<worldVars, localEventsList, codeVars>>

(* NetworkInterfaceStopTransmittingEvent::consume: the message goes to the *)
(* host of the interface connected NOW, or is lost; the next one starts.   *)
StopTransmitting(t, e, q) ==
  /\ e.kind = "StopTransmitting"
  /\ LET ni == e.on
         peer == connectedInterface[ni]
         queued == IF peer = NULL THEN q ELSE ScheduleLocalEvent(q, t, peer[1])
     IN  /\ IF peer = NULL
            THEN UNCHANGED localEventsList
            ELSE localEventsList' =
                   [localEventsList EXCEPT ![peer[1]] =
                      Append(@, Received(messageBeingTransmitted[ni]))]
         /\ \/ /\ outgoingQueue[ni] # <<>> /\ peer # NULL
               /\ Transmit(ni, t, queued)
            \/ /\ outgoingQueue[ni] = <<>> \/ peer = NULL
               /\ messageBeingTransmitted' =
                    [messageBeingTransmitted EXCEPT ![ni] = NULL]
               /\ availabilityDate' = [availabilityDate EXCEPT ![ni] = t]
               /\ eventsMap' = queued
               /\ UNCHANGED outgoingQueue
  /\ UNCHANGED <<worldVars, codeVars, exited>>

-----------------------------------------------------------------------------
(* Motions. *)

(* World::disconnectBlock: both queues of every link of b are emptied,     *)
(* both ends are notified and unlinked, the cell is freed.  A message on   *)
(* the wire and the events of the interfaces stay.                         *)
CutInterfacesMutant(b) == {ni \in NI : ni[1] = b /\ Linked(ni)}  \* one end only

CutInterfaces(b) ==
  LET own == {ni \in NI : ni[1] = b /\ Linked(ni)}
  IN  own \cup {connectedInterface[ni] : ni \in own}

DisconnectBlock(b) ==
  /\ connectedInterface' =
       [ni \in NI |-> IF ni \in CutInterfaces(b) THEN NULL ELSE connectedInterface[ni]]
  /\ outgoingQueue' =
       [ni \in NI |-> IF ni \in CutInterfaces(b) THEN <<>> ELSE outgoingQueue[ni]]
  /\ grid' = [grid EXCEPT ![position[b]] = NULL]

StopDateMutant(t, duration) == t  \* the motion takes no time

StopDate(t, duration) == t + duration

(* TranslationStartEvent::consume, and the animation steps up to the stop  *)
(* event, which only move the picture of the block.                        *)
TranslationStart(t, e, q) ==
  /\ e.kind = "TranslationStart"
  /\ DisconnectBlock(e.on)
  /\ \E duration \in MotionTime :
       eventsMap' =
         Schedule(ScheduleAll(q, t, t, Notices("RemoveNeighbor", CutInterfaces(e.on))),
                  t, StopDate(t, duration), Event("TranslationStop", e.on, e.arg))
  /\ UNCHANGED <<position, messageBeingTransmitted, availabilityDate,
                 localEventsList, codeVars, exited>>

(* TranslationStopEvent::consume: setPosition, then World::connectBlock:   *)
(* insert in the lattice, linkBlock on the cell and on its neighbours.     *)
(* Lattice::insert throws on an occupied cell and nothing catches it.      *)
TranslationStop(t, e, q) ==
  /\ e.kind = "TranslationStop"
  /\ position' = [position EXCEPT ![e.on] = e.arg]
  /\ \/ /\ grid[e.arg] # NULL
        /\ exited' = TRUE
        /\ eventsMap' = q
        /\ UNCHANGED <<grid, connectedInterface>>
     \/ /\ grid[e.arg] = NULL
        /\ LET g == [grid EXCEPT ![e.arg] = e.on]
               w == Linking(connectedInterface, g, Around(e.arg))
           IN  /\ grid' = g
               /\ connectedInterface' = w.links
               /\ eventsMap' = Schedule(ScheduleAll(q, t, t, w.notices),
                                        t, t + EndDelay, Event("TranslationEnd", e.on, NULL))
        /\ UNCHANGED exited
  /\ UNCHANGED <<interfaceVars, localEventsList, codeVars>>

-----------------------------------------------------------------------------
(* CPPScheduler::startPaused, one turn of its loop: take the first event,  *)
(* move currentDate to its date, consume it, erase it.                     *)
Consume(t, e, q) ==
  \/ CodeStart(t, e, q)
  \/ Notify(t, e, q)
  \/ ProcessLocal(t, e, q)
  \/ EnqueueOutgoing(t, e, q)
  \/ StartTransmitting(t, e, q)
  \/ StopTransmitting(t, e, q)
  \/ TranslationStart(t, e, q)
  \/ TranslationStop(t, e, q)

Next ==
  /\ ~exited
  /\ \E t \in Time :
       /\ IsFirstDate(eventsMap, t)
       /\ now' = t
       /\ Consume(t, Head(eventsMap[t]), EraseFirst(eventsMap, t))

Spec == Init /\ [][Next]_vars

(* The scheduler thread runs until its loop ends. *)
FairSpec == Spec /\ WF_vars(Next)

-----------------------------------------------------------------------------
(* Properties. *)

(* Type correctness. *)
TypeOK ==
  /\ now \in Time
  /\ eventsMap \in [Time -> Seq(EventType)]
  /\ connectedInterface \in [NI -> NI \cup {NULL}]
  /\ outgoingQueue \in [NI -> Seq(Msg)]
  /\ messageBeingTransmitted \in [NI -> Packet \cup {NULL}]
  /\ availabilityDate \in [NI -> Nat]
  /\ localEventsList \in [Block -> Seq(LocalEvent)]
  /\ grid \in [Cell -> Block \cup {NULL}]
  /\ position \in [Block -> Cell \cup {NULL}]
  /\ unsent \in SUBSET Msg
  /\ moves \in Nat
  /\ exited \in BOOLEAN

Stop(ni)    == Event("StopTransmitting", ni, NULL)
Start(ni)   == Event("StartTransmitting", ni, NULL)
Process(b)  == Event("ProcessLocal", b, NULL)

(* None of the conditions the code answers with exit(EXIT_FAILURE) or an   *)
(* uncaught exception arises: send() on an empty outgoing buffer,          *)
(* processLocalEvent on an empty list, Lattice::insert in a busy cell.     *)
NoFatalError == ~exited

(* The wire of an interface is busy exactly while one stop event, at the   *)
(* availability date, is pending for it (or would be, after the end of the *)
(* simulation): the message on the wire cannot be overwritten or forgotten.*)
OneStop(ni) ==
  /\ OnlyAt(eventsMap, Stop(ni), availabilityDate[ni])
  /\ messageBeingTransmitted[ni] = NULL => ~Pending(eventsMap, Stop(ni))
  /\ messageBeingTransmitted[ni] # NULL =>
       availabilityDate[ni] > MaximumDate \/ Pending(eventsMap, Stop(ni))

WireHasOneStop == \A ni \in NI : OneStop(ni)

(* No message waits in the buffer of a linked interface without a start or *)
(* a stop event that will send it, and a start event always finds the wire *)
(* free and, if the link is up, a message to send.                         *)
Served(ni) ==
  /\ OnlyAt(eventsMap, Start(ni), now)
  /\ outgoingQueue[ni] # <<>> =>
       /\ connectedInterface[ni] # NULL
       /\ messageBeingTransmitted[ni] # NULL \/ Pending(eventsMap, Start(ni))
  /\ Pending(eventsMap, Start(ni)) =>
       /\ messageBeingTransmitted[ni] = NULL
       /\ connectedInterface[ni] # NULL => outgoingQueue[ni] # <<>>

BufferIsServed == \A ni \in NI : Served(ni)

(* A block with local events has exactly one ProcessLocal event, due now,  *)
(* and a block without has none: no local event is left to rot.            *)
ListServed(b) ==
  /\ OnlyAt(eventsMap, Process(b), now)
  /\ Pending(eventsMap, Process(b)) <=> localEventsList[b] # <<>>

LocalListIsServed == \A b \in Block : ListServed(b)

(* A message is received by the block that hosted the far end of the link  *)
(* it was sent on, although the code reads the peer only when the          *)
(* transmission stops.                                                     *)
RightReceiver ==
  \A b \in Block : \A i \in DOMAIN localEventsList[b] :
    LET p == localEventsList[b][i].packet
    IN  p # NULL => p.dst[1] = b

(* The links the grid g calls for, the blocks being where pos says.        *)
PeerIn(g, pos, ni) ==
  LET c == NeighborCell[pos[ni[1]]][ni[2]]
  IN  IF InGrid(g, pos, ni[1]) /\ c # NULL /\ g[c] # NULL
      THEN <<g[c], Opposite[ni[2]]>>
      ELSE NULL

LinksIn(g, pos) == [ni \in NI |-> PeerIn(g, pos, ni)]

(* Whatever the blocks do, the links are those of the lattice: two         *)
(* interfaces are linked, both ways, iff they face each other, although    *)
(* the code compares nothing with the lattice but cuts and connects around *)
(* one cell at a time, from both ends.                                     *)
LinksMatchLattice ==
  /\ connectedInterface = LinksIn(grid, position)
  /\ \A ni \in NI : connectedInterface[ni] # NULL =>
       connectedInterface[connectedInterface[ni]] = ni

-----------------------------------------------------------------------------
(* The inductive invariant: the properties above and what they rest on.    *)

(* The scheduler has left no event behind. *)
NothingOverdue == \A d \in Time : d < now => eventsMap[d] = <<>>

(* An idle interface is available, a busy one will be after the time of a  *)
(* transmission that has begun.                                            *)
Near(ni) ==
  IF messageBeingTransmitted[ni] = NULL
  THEN availabilityDate[ni] <= now
  ELSE \E t \in TransmissionTime : availabilityDate[ni] <= now + t

AvailabilityIsNear == \A ni \in NI : Near(ni)

(* A block of the grid is at the cell the grid has it in. *)
GridMatchesPositions ==
  \A c \in Cell : grid[c] # NULL => position[grid[c]] = c

(* The packet on the wire of a linked interface is for its peer. *)
WireFollowsLink ==
  \A ni \in NI :
    messageBeingTransmitted[ni] # NULL =>
      connectedInterface[ni] \in {NULL, messageBeingTransmitted[ni].dst}

(* Motions: one at a time for a block and for a goal, which is free; the   *)
(* block is in the grid until its motion starts, nowhere until it stops.   *)
Motion(k, b, c) == Event(k, b, c)

Exclusive(k, b, c) ==
  /\ \E d \in Time : OnlyAt(eventsMap, Motion(k, b, c), d)
  /\ grid[c] = NULL
  /\ k = "TranslationStart" => InGrid(grid, position, b)
  /\ k = "TranslationStop" => \A x \in Cell : grid[x] # b
  /\ \A l \in MotionKind, a \in Block, x \in Cell :
       (a = b \/ x = c) /\ Pending(eventsMap, Motion(l, a, x)) =>
         l = k /\ a = b /\ x = c

MotionsAreExclusive ==
  \A k \in MotionKind, b \in Block, c \in Cell :
    Pending(eventsMap, Motion(k, b, c)) => Exclusive(k, b, c)

(* The interfaces the arrival of b in c will link. *)
Watches(ni, b, c) ==
  \/ ni[1] = b
  \/ InGrid(grid, position, ni[1]) /\ NeighborCell[position[ni[1]]][ni[2]] = c

(* They are at rest before the arrival, at date d: no message on the wire, *)
(* no transmission about to start.                                         *)
Quiet(ni, d) ==
  /\ messageBeingTransmitted[ni] # NULL => availabilityDate[ni] < d
  /\ Pending(eventsMap, Start(ni)) => now < d

ArrivalsFindQuietLinks ==
  \A b \in Block, c \in Cell, d \in Time :
    LET stop == Motion("TranslationStop", b, c)
    IN  Pending(eventsMap, stop) /\ OnlyAt(eventsMap, stop, d) =>
          \A ni \in NI : Watches(ni, b, c) => Quiet(ni, d)

IInv ==
  /\ TypeOK
  /\ NoFatalError
  /\ NothingOverdue
  /\ WireHasOneStop
  /\ AvailabilityIsNear
  /\ BufferIsServed
  /\ LocalListIsServed
  /\ GridMatchesPositions
  /\ LinksMatchLattice
  /\ WireFollowsLink
  /\ RightReceiver
  /\ MotionsAreExclusive
  /\ ArrivalsFindQuietLinks

-----------------------------------------------------------------------------
(* What the block codes see. *)

(* The messages of interface ni among the local events s, oldest first.    *)
IsFrom(l, ni) == l.kind = "NIReceive" /\ l.packet.src = ni

MessageOf(ni, l) == IF IsFrom(l, ni) THEN <<l.packet.msg>> ELSE <<>>

MessagesOf(ni, s) ==
  LET m[n \in 0..Len(s)] == IF n = 0 THEN <<>> ELSE m[n - 1] \o MessageOf(ni, s[n])
  IN  m[Len(s)]

(* Block b has received messages of ni that it has not handled.            *)
Holds(b, ni) == \E i \in DOMAIN localEventsList[b] : IsFrom(localEventsList[b][i], ni)

Arrived(ni) ==
  IF \E b \in Block : Holds(b, ni)
  THEN MessagesOf(ni, localEventsList[CHOOSE b \in Block : Holds(b, ni)])
  ELSE <<>>

OnWire(ni) ==
  IF messageBeingTransmitted[ni] = NULL THEN <<>> ELSE <<messageBeingTransmitted[ni].msg>>

(* The messages under way from each interface, oldest first: received and  *)
(* not yet handled, on the wire, waiting.                                  *)
Channel == [ni \in NI |-> Arrived(ni) \o OnWire(ni) \o outgoingQueue[ni]]

(* Messages no interface has accepted yet. *)
Fresh ==
  unsent \cup {m \in Msg : \E ni \in NI : Pending(eventsMap, Event("EnqueueOutgoing", ni, m))}

Up == [ni \in NI |-> Linked(ni)]

(* A message is sent once: it is on its way to one interface at most, and  *)
(* then the block codes no longer have it.                                 *)
Sending(ni, m) == Event("EnqueueOutgoing", ni, m)

SentOnce ==
  \A ni \in NI, m \in Msg : Pending(eventsMap, Sending(ni, m)) =>
    /\ m \notin unsent
    /\ \E d \in Time : OnlyAt(eventsMap, Sending(ni, m), d)
    /\ \A nj \in NI : Pending(eventsMap, Sending(nj, m)) => nj = ni

(* The messages of an interface that are not handled yet are all with one  *)
(* block, the one at the other end if the link is up; an arrival does not  *)
(* find any, so that the next ones go to the same block.                   *)
OneHolder ==
  \A ni \in NI, b \in Block : Holds(b, ni) =>
    /\ connectedInterface[ni] # NULL => connectedInterface[ni][1] = b
    /\ \A a \in Block : Holds(a, ni) => a = b
    /\ \A a \in Block, c \in Cell, d \in Time :
         LET stop == Motion("TranslationStop", a, c)
         IN  Pending(eventsMap, stop) /\ OnlyAt(eventsMap, stop, d) /\ Watches(ni, a, c) => now < d

WireHasItsSource ==
  \A ni \in NI : messageBeingTransmitted[ni] # NULL => messageBeingTransmitted[ni].src = ni

FifoInv == SentOnce /\ OneHolder /\ WireHasItsSource

(* Each interface is a FIFO link: no message is duplicated or reordered,   *)
(* and none is lost unless its link is cut.                                *)
Link == INSTANCE FifoLink
          WITH Link <- NI, channel <- Channel, fresh <- Fresh, up <- Up

ImplementsFifoLink == Link!Spec

(* Every message an interface has accepted is handled, or lost with its    *)
(* link: none stays under way for ever.                                    *)
UnderWay(m) == \E ni \in NI : \E i \in DOMAIN Channel[ni] : Channel[ni][i] = m

EveryMessageSettles == \A m \in Msg : UnderWay(m) ~> ~UnderWay(m)
=============================================================================
