--------------------------- MODULE P2PNetworkProofs ---------------------------
(***************************************************************************)
(* IInv is an invariant of P2PNetwork: the events of each interface, of    *)
(* each block and of each motion stay in step with the buffers, the lists  *)
(* and the lattice, for any number of blocks, any lattice and any dates.   *)
(* With FifoInv, every step of P2PNetwork is one of FifoLink, or shows     *)
(* nothing.  GuiInv is what remains of IInv when a user adds and deletes   *)
(* blocks.                                                                 *)
(***************************************************************************)
EXTENDS P2PNetworkGui, EventListProofs, FiniteSetTheorems, WellFoundedInduction

-----------------------------------------------------------------------------
(* One step of the scheduler, seen from the event list. *)

First(t, e, q) ==
  /\ t \in Time
  /\ IsFirstDate(eventsMap, t)
  /\ e = Head(eventsMap[t])
  /\ q = EraseFirst(eventsMap, t)

(* r differs from q by events of X only, none of them before t. *)
Keeps(X, t, q, r) ==
  /\ r \in [Time -> Seq(EventType)]
  /\ \A c \in Time : c < t /\ q[c] = <<>> => r[c] = <<>>
  /\ \A f : f \notin X =>
       /\ Pending(r, f) <=> Pending(q, f)
       /\ \A x : OnlyAt(q, f, x) => OnlyAt(r, f, x)

OfKind(k) == {f \in EventType : f.kind = k}

(* Two changes of the event list one after the other.                      *)
LEMMA KeepsTrans ==
  ASSUME NEW X, NEW Y, NEW t, NEW q, NEW r, NEW s,
         Keeps(X, t, q, r), Keeps(Y, t, r, s)
  PROVE  Keeps(X \cup Y, t, q, s)
BY DEF Keeps

(* Scheduling one event leaves the others, and the past, alone.            *)
LEMMA ScheduleKeeps ==
  ASSUME NEW q \in [Time -> Seq(EventType)], NEW t \in Time, NEW d \in Nat,
         NEW f \in EventType, NEW r, r = Schedule(q, t, d, f)
  PROVE  /\ Keeps({f}, t, q, r)
         /\ Pending(r, f) <=> Pending(q, f) \/ d \in t..MaximumDate
         /\ ~Pending(q, f) => OnlyAt(r, f, d)
BY ScheduleOne DEF Keeps

(* So does scheduling a sequence of events.                                *)
LEMMA ScheduleAllKeeps ==
  ASSUME NEW q \in [Time -> Seq(EventType)], NEW t \in Time, NEW d \in Nat,
         NEW X, NEW s \in Seq(EventType), \A i \in DOMAIN s : s[i] \in X,
         NEW r, r = ScheduleAll(q, t, d, s)
  PROVE  Keeps(X, t, q, r)
<1>1. r \in [Time -> Seq(EventType)]
  BY ScheduleAllType
<1>2. \A c \in Time : c < t /\ q[c] = <<>> => r[c] = <<>>
  BY MaximumDateAssumption DEF ScheduleAll, Time
<1>3. ASSUME NEW f, f \notin X
      PROVE  /\ Pending(r, f) <=> Pending(q, f)
             /\ \A x : OnlyAt(q, f, x) => OnlyAt(r, f, x)
  <2>1. \A i \in DOMAIN s : s[i] # f
    BY <1>3
  <2>2. Pending(r, f) <=> Pending(q, f)
    BY <2>1, ScheduleAllPending
  <2>3. ASSUME NEW x, OnlyAt(q, f, x)
        PROVE  OnlyAt(r, f, x)
    BY <2>1, <2>3, ScheduleAllOther
  <2>4. QED BY <2>2, <2>3
<1>. QED BY <1>1, <1>2, <1>3 DEF Keeps

(* An event that is not pending is at any date; one that is, at one.       *)
LEMMA NotPendingAnywhere ==
  ASSUME NEW q, NEW f, NEW x, ~Pending(q, f)
  PROVE  OnlyAt(q, f, x)
BY DEF Pending, OnlyAt

(* A pending event cannot be pending only at two dates.                    *)
LEMMA OneDate ==
  ASSUME NEW q, NEW f, NEW x, NEW y,
         Pending(q, f), OnlyAt(q, f, x), OnlyAt(q, f, y)
  PROVE  x = y
BY DEF Pending, OnlyAt

(* What the first event and its date tell about the others.                *)
LEMMA FirstTypedEvent ==
  ASSUME now \in Time, eventsMap \in [Time -> Seq(EventType)], NothingOverdue,
         NEW t, NEW e, NEW q, First(t, e, q)
  PROVE  /\ t \in Nat /\ now \in Nat /\ now <= t
         /\ MaximumDate \in Nat /\ t <= MaximumDate
         /\ e \in EventType
         /\ q \in [Time -> Seq(EventType)]
         /\ Pending(eventsMap, e)
         /\ Keeps({e}, t, eventsMap, q)
         /\ \A x : OnlyAt(eventsMap, e, x) => x = t /\ ~Pending(q, e)
         /\ \A f : OnlyAt(eventsMap, f, now) => OnlyAt(eventsMap, f, t)
         /\ \A f : OnlyAt(eventsMap, f, now) /\ Pending(eventsMap, f) => t = now
         /\ \A f, x : OnlyAt(eventsMap, f, x) /\ Pending(eventsMap, f) =>
              x \in Time /\ t <= x
<1>1. /\ t \in Nat /\ now \in Nat /\ MaximumDate \in Nat /\ t <= MaximumDate
      /\ t \in Time /\ now \in Time
  BY MaximumDateAssumption DEF First, Time
<1>2. /\ IsFirstDate(eventsMap, t) /\ eventsMap \in [Time -> Seq(EventType)]
      /\ e = Head(eventsMap[t]) /\ q = EraseFirst(eventsMap, t)
  BY DEF First
<1>3. now <= t
  BY <1>1, <1>2 DEF NothingOverdue, IsFirstDate
<1>4. /\ q \in [Time -> Seq(EventType)]
      /\ e \in EventType
      /\ Pending(eventsMap, e)
      /\ \A x : OnlyAt(eventsMap, e, x) => x = t /\ ~Pending(q, e)
      /\ \A f : Pending(q, f) => Pending(eventsMap, f)
      /\ \A f : f # e /\ Pending(eventsMap, f) => Pending(q, f)
      /\ \A f, x : OnlyAt(eventsMap, f, x) => OnlyAt(q, f, x)
      /\ \A c \in Time : c < t => q[c] = <<>>
  <2>1. Erased(EventType, eventsMap, t, q, e)
    BY <1>1, <1>2, EraseFirstPending
  <2>2. QED BY <2>1 DEF Erased
<1>5. Keeps({e}, t, eventsMap, q)
  BY <1>4 DEF Keeps
<1>6. ASSUME NEW f, NEW x, OnlyAt(eventsMap, f, x), Pending(eventsMap, f)
      PROVE  x \in Time /\ t <= x
  <2>1. x \in Time /\ eventsMap[x] # <<>>
    <3>1. PICK c \in Time : \E i \in DOMAIN eventsMap[c] : eventsMap[c][i] = f
      BY <1>6 DEF Pending
    <3>2. c = x
      BY <1>6, <3>1 DEF OnlyAt
    <3>3. QED BY <1>2, <3>1, <3>2
  <2>2. ~(x < t)
    BY <1>2, <2>1 DEF IsFirstDate
  <2>3. QED BY <1>1, <2>1, <2>2 DEF Time
<1>7. ASSUME NEW f, OnlyAt(eventsMap, f, now), Pending(eventsMap, f)
      PROVE  t = now
  BY <1>1, <1>3, <1>6, <1>7
<1>8. ASSUME NEW f, OnlyAt(eventsMap, f, now)
      PROVE  OnlyAt(eventsMap, f, t)
  BY <1>7, <1>8, NotPendingAnywhere
<1>. QED BY <1>1, <1>3, <1>4, <1>5, <1>6, <1>7, <1>8

(* The same under the type invariant.                                      *)
LEMMA FirstEvent ==
  ASSUME TypeOK, NothingOverdue, NEW t, NEW e, NEW q, First(t, e, q)
  PROVE  /\ t \in Nat /\ now \in Nat /\ now <= t
         /\ MaximumDate \in Nat /\ t <= MaximumDate
         /\ e \in EventType
         /\ q \in [Time -> Seq(EventType)]
         /\ Pending(eventsMap, e)
         /\ Keeps({e}, t, eventsMap, q)
         /\ \A x : OnlyAt(eventsMap, e, x) => x = t /\ ~Pending(q, e)
         /\ \A f : OnlyAt(eventsMap, f, now) => OnlyAt(eventsMap, f, t)
         /\ \A f : OnlyAt(eventsMap, f, now) /\ Pending(eventsMap, f) => t = now
         /\ \A f, x : OnlyAt(eventsMap, f, x) /\ Pending(eventsMap, f) =>
              x \in Time /\ t <= x
BY FirstTypedEvent DEF TypeOK

-----------------------------------------------------------------------------
(* The events of the invariant, and what a step that does not touch them   *)
(* leaves true.                                                            *)

(* The events the constructors make are events.                            *)
LEMMA EventTypes ==
  /\ \A ni \in NI : Start(ni) \in EventType /\ Stop(ni) \in EventType
  /\ \A ni \in NI, m \in Msg : Event("EnqueueOutgoing", ni, m) \in EventType
  /\ \A ni \in NI, k \in {"AddNeighbor", "RemoveNeighbor"} :
       Event(k, ni, NULL) \in EventType
  /\ \A b \in Block : Process(b) \in EventType
  /\ \A b \in Block : Event("TranslationEnd", b, NULL) \in EventType
  /\ \A k \in MotionKind, b \in Block, c \in Cell : Motion(k, b, c) \in EventType
BY DEF EventType, Event, Start, Stop, Process, Motion, MotionKind, BlockEventKind,
       InterfaceEventKind

(* An event is what its constructor made of its kind, its subject and its  *)
(* argument.                                                               *)
LEMMA EventShape ==
  \A e \in EventType :
    /\ e = Event(e.kind, e.on, e.arg)
    /\ e.kind \in BlockEventKind => e.on \in Block /\ e.arg = NULL
    /\ e.kind \in InterfaceEventKind => e.on \in NI /\ e.arg = NULL
    /\ e.kind = "EnqueueOutgoing" => e.on \in NI /\ e.arg \in Msg
    /\ e.kind \in MotionKind => e.on \in Block /\ e.arg \in Cell
BY DEF EventType, Event, BlockEventKind, InterfaceEventKind, MotionKind

Step(t, e, q) == IInv /\ First(t, e, q) /\ now' = t

(* An interface that is not touched, and whose start and stop events are   *)
(* not, still has its wire and its buffer in order at the next event.      *)
LEMMA KeptInterface ==
  ASSUME NEW t, NEW e, NEW q, Step(t, e, q),
         NEW X, Keeps(X, t, eventsMap, eventsMap'),
         NEW ni \in NI, Start(ni) \notin X, Stop(ni) \notin X,
         messageBeingTransmitted'[ni] = messageBeingTransmitted[ni],
         availabilityDate'[ni] = availabilityDate[ni],
         outgoingQueue'[ni] = outgoingQueue[ni],
         connectedInterface'[ni] = connectedInterface[ni]
  PROVE  OneStop(ni)' /\ Near(ni)' /\ Served(ni)'
<1>1. OneStop(ni) /\ Near(ni) /\ Served(ni)
  BY DEF Step, IInv, WireHasOneStop, AvailabilityIsNear, BufferIsServed
<1>2. /\ t \in Nat /\ now \in Nat /\ now <= t /\ now' = t
      /\ \A f : OnlyAt(eventsMap, f, now) => OnlyAt(eventsMap, f, t)
  BY FirstEvent DEF Step, IInv
<1>3. OneStop(ni)'
  BY <1>1 DEF OneStop, Keeps, Stop, Event
<1>4. Near(ni)'
  BY <1>1, <1>2, TimingAssumption DEF Near, Step, IInv, TypeOK
<1>5. Served(ni)'
  BY <1>1, <1>2 DEF Served, Keeps, Start, Event
<1>. QED BY <1>3, <1>4, <1>5

(* The same for the list of local events of a block.                       *)
LEMMA KeptList ==
  ASSUME NEW t, NEW e, NEW q, Step(t, e, q),
         NEW X, Keeps(X, t, eventsMap, eventsMap'),
         NEW b \in Block, Process(b) \notin X,
         localEventsList'[b] = localEventsList[b]
  PROVE  ListServed(b)'
<1>1. ListServed(b)
  BY DEF Step, IInv, LocalListIsServed
<1>2. /\ now' = t
      /\ \A f : OnlyAt(eventsMap, f, now) => OnlyAt(eventsMap, f, t)
  BY FirstEvent DEF Step, IInv
<1>. QED BY <1>1, <1>2 DEF ListServed, Keeps, Process, Event

(* The same for the motions, when the grid and the positions stay.         *)
LEMMA KeptMotions ==
  ASSUME NEW t, NEW e, NEW q, Step(t, e, q),
         NEW X, Keeps(X, t, eventsMap, eventsMap'),
         \A k \in MotionKind, b \in Block, c \in Cell : Motion(k, b, c) \notin X,
         UNCHANGED <<grid, position>>
  PROVE  MotionsAreExclusive'
<1>. SUFFICES ASSUME NEW k \in MotionKind, NEW b \in Block, NEW c \in Cell,
                     Pending(eventsMap', Motion(k, b, c))
              PROVE  Exclusive(k, b, c)'
  BY DEF MotionsAreExclusive, Motion, Event
<1>1. \A l \in MotionKind, a \in Block, x \in Cell :
        /\ Pending(eventsMap', Motion(l, a, x)) <=> Pending(eventsMap, Motion(l, a, x))
        /\ \A d : OnlyAt(eventsMap, Motion(l, a, x), d) =>
                 OnlyAt(eventsMap', Motion(l, a, x), d)
  BY DEF Keeps
<1>2. Exclusive(k, b, c)
  BY <1>1 DEF Step, IInv, MotionsAreExclusive
<1>. QED BY <1>1, <1>2 DEF Exclusive, InGrid, Motion, Event

(* The interfaces an arrival will link are not linked. *)
LEMMA ArrivalsAreUnlinked ==
  ASSUME IInv, NEW b \in Block, NEW c \in Cell,
         Pending(eventsMap, Motion("TranslationStop", b, c)),
         NEW ni \in NI, Watches(ni, b, c)
  PROVE  connectedInterface[ni] = NULL
<1>1. grid[c] = NULL /\ \A x \in Cell : grid[x] # b
  BY DEF IInv, MotionsAreExclusive, Exclusive, MotionKind
<1>2. connectedInterface[ni] = PeerIn(grid, position, ni)
  BY DEF IInv, LinksMatchLattice, LinksIn
<1>3. CASE ni[1] = b
  <2>1. ~InGrid(grid, position, b)
    BY <1>1 DEF InGrid, IInv, TypeOK
  <2>2. QED BY <1>2, <1>3, <2>1 DEF PeerIn
<1>4. CASE NeighborCell[position[ni[1]]][ni[2]] = c
  BY <1>1, <1>2, <1>4 DEF PeerIn
<1>. QED BY <1>3, <1>4 DEF Watches

(* A step that leaves the lattice alone, puts no message on the wire of an *)
(* interface that is not linked and starts no transmission there.          *)
LEMMA KeptArrivals ==
  ASSUME NEW t, NEW e, NEW q, Step(t, e, q),
         NEW X, Keeps(X, t, eventsMap, eventsMap'),
         \A b \in Block, c \in Cell : Motion("TranslationStop", b, c) \notin X,
         UNCHANGED <<grid, position>>,
         \A ni \in NI : connectedInterface[ni] = NULL =>
           /\ Pending(eventsMap', Start(ni)) => Pending(eventsMap, Start(ni))
           /\ messageBeingTransmitted'[ni] # NULL =>
                /\ messageBeingTransmitted[ni] # NULL
                /\ availabilityDate'[ni] = availabilityDate[ni]
  PROVE  ArrivalsFindQuietLinks'
<1>. SUFFICES ASSUME NEW b \in Block, NEW c \in Cell, NEW d \in Time, NEW ni \in NI,
                     Pending(eventsMap', Motion("TranslationStop", b, c)),
                     OnlyAt(eventsMap', Motion("TranslationStop", b, c), d),
                     Watches(ni, b, c)'
              PROVE  Quiet(ni, d)'
  BY DEF ArrivalsFindQuietLinks, Motion, Event
<1>. DEFINE stop == Motion("TranslationStop", b, c)
<1>1. Pending(eventsMap, stop) /\ \A x : OnlyAt(eventsMap, stop, x) => OnlyAt(eventsMap', stop, x)
  BY DEF Keeps
<1>2. PICK x \in Time : OnlyAt(eventsMap, stop, x)
  BY <1>1 DEF Step, IInv, MotionsAreExclusive, Exclusive, MotionKind
<1>3. x = d
  BY <1>1, <1>2, OneDate
<1>4. Watches(ni, b, c)
  BY DEF Watches, InGrid
<1>5. Quiet(ni, d)
  BY <1>1, <1>2, <1>3, <1>4 DEF Step, IInv, ArrivalsFindQuietLinks
<1>6. connectedInterface[ni] = NULL
  BY <1>1, <1>4, ArrivalsAreUnlinked DEF Step
<1>7. /\ now' = t /\ OnlyAt(eventsMap, Start(ni), now)
      /\ \A f : OnlyAt(eventsMap, f, now) /\ Pending(eventsMap, f) => t = now
  BY FirstEvent DEF Step, IInv, BufferIsServed, Served
<1>8. QED BY <1>5, <1>6, <1>7 DEF Quiet, Start, Event
-----------------------------------------------------------------------------
(* What the handlers schedule. *)

(* The notifications are events of their kind.                             *)
LEMMA NoticesType ==
  ASSUME NEW kind \in {"AddNeighbor", "RemoveNeighbor"}, NEW nis \in SUBSET NI
  PROVE  /\ Notices(kind, nis) \in Seq(EventType)
         /\ \A i \in DOMAIN Notices(kind, nis) : Notices(kind, nis)[i] \in OfKind(kind)
<1>. DEFINE S == {Event(kind, ni, NULL) : ni \in nis}
            f == [ni \in nis |-> Event(kind, ni, NULL)]
<1>1. IsFiniteSet(nis)
  BY FS_Product, FS_Subset, TopologyAssumption DEF NI
<1>2. f \in Surjection(nis, S)
  BY DEF Surjection
<1>3. IsFiniteSet(S)
  BY <1>1, <1>2, FS_Surjection
<1>4. SetToSeq(S) \in Seq(S)
  BY <1>3, SetToSeqType
<1>5. S \subseteq OfKind(kind) /\ S \subseteq EventType
  <2>1. \A ni \in nis : Event(kind, ni, NULL) \in EventType
    BY EventTypes
  <2>2. \A ni \in nis : Event(kind, ni, NULL).kind = kind
    BY DEF Event
  <2>3. QED BY <2>1, <2>2 DEF OfKind
<1>6. Notices(kind, nis) = SetToSeq(S)
  BY DEF Notices, Note
<1>. HIDE DEF S
<1>7. QED BY <1>4, <1>5, <1>6

(* What a block code asks for: sends of messages it still has, and motions *)
(* to a free cell.                                                         *)
LEMMA RequestsType ==
  ASSUME unsent \in SUBSET Msg, NEW b \in Block, NEW t \in Time, NEW q,
         NEW s \in Requests(b, t, q)
  PROVE  /\ s \in Seq(DatedBy(EventType))
         /\ \A i \in DOMAIN s :
              \/ /\ s[i].event.kind = "EnqueueOutgoing"
                 /\ \E ni \in NI, m \in unsent : s[i].event = Sending(ni, m)
              \/ /\ s[i].event.kind = "TranslationStart"
                 /\ \E c \in Goal(b, q) : s[i].event = Motion("TranslationStart", b, c)
         /\ \A i, j \in DOMAIN s :
              /\ s[i].event.kind = "EnqueueOutgoing"
              /\ s[j].event.kind = "EnqueueOutgoing"
              /\ s[i].event.arg = s[j].event.arg
              => i = j
         /\ \A i, j \in DOMAIN s :
              s[i].event.kind = "TranslationStart" /\ s[j].event.kind = "TranslationStart"
              => i = j
<1>. DEFINE R == SendRequest(b, t) \cup MoveRequest(b, t, q)
<1>1. PICK n \in 0..(MaxSends + 1) : s \in [1..n -> R]
  <2>1. s \in UNION {[1..k -> R] : k \in 0..(MaxSends + 1)}
    BY DEF Requests
  <2>. QED BY <2>1
<1>2. t \in Nat /\ MaximumDate \in Nat /\ n \in Nat /\ SendDelay \subseteq Nat /\ StartDelay \subseteq Nat
  BY <1>1, MaximumDateAssumption, TimingAssumption DEF Time
<1>3. ASSUME NEW x \in SendRequest(b, t)
      PROVE  /\ x \in DatedBy(EventType) /\ x.event.kind = "EnqueueOutgoing"
             /\ \E ni \in NI, m \in unsent : x.event = Sending(ni, m)
  <2>1. PICK delay \in SendDelay, ni \in NI, m \in unsent :
          x = [date |-> SendDate(t, delay), event |-> Sending(ni, m)]
    BY DEF SendRequest, Sending
  <2>2. SendDate(t, delay) \in Nat
    BY <1>2, TimingAssumption DEF SendDate
  <2>3. Sending(ni, m) \in EventType /\ Sending(ni, m).kind = "EnqueueOutgoing"
    BY EventTypes DEF Sending, Event
  <2>4. x \in DatedBy(EventType)
    BY <2>1, <2>2, <2>3 DEF DatedBy
  <2>. QED BY <2>1, <2>3, <2>4
<1>4. ASSUME NEW x \in MoveRequest(b, t, q)
      PROVE  /\ x \in DatedBy(EventType) /\ x.event.kind = "TranslationStart"
             /\ \E c \in Goal(b, q) : x.event = Motion("TranslationStart", b, c)
  <2>1. PICK delay \in StartDelay, c \in Goal(b, q) :
          x = [date |-> t + delay, event |-> Motion("TranslationStart", b, c)]
    BY DEF MoveRequest, Motion
  <2>2. t + delay \in Nat /\ c \in Cell
    BY <1>2 DEF Goal
  <2>3. /\ Motion("TranslationStart", b, c) \in EventType
        /\ Motion("TranslationStart", b, c).kind = "TranslationStart"
    BY <2>2, EventTypes DEF Motion, Event, MotionKind
  <2>4. x \in DatedBy(EventType)
    BY <2>1, <2>2, <2>3 DEF DatedBy
  <2>. QED BY <2>1, <2>3, <2>4
<1>5. R \subseteq DatedBy(EventType)
  BY <1>3, <1>4
<1>6. s \in Seq(DatedBy(EventType)) /\ DOMAIN s = 1..n
  BY <1>1, <1>2, <1>5
<1>7. \A i \in DOMAIN s : s[i] \in SendRequest(b, t) \/ s[i] \in MoveRequest(b, t, q)
  BY <1>1
<1>8. \A i \in DOMAIN s :
        \/ /\ s[i].event.kind = "EnqueueOutgoing"
           /\ \E ni \in NI, m \in unsent : s[i].event = Sending(ni, m)
        \/ /\ s[i].event.kind = "TranslationStart"
           /\ \E c \in Goal(b, q) : s[i].event = Motion("TranslationStart", b, c)
  BY <1>3, <1>4, <1>7
<1>9. /\ \A i, j \in Asked(s, "EnqueueOutgoing") :
           s[i].event.arg = s[j].event.arg => i = j
      /\ \A i, j \in Asked(s, "TranslationStart") : i = j
  BY DEF Requests
<1>. QED BY <1>6, <1>8, <1>9 DEF Asked

(* The block code sends messages, and asks for one motion, at date d.      *)
Asks(b, t, q, mid) ==
  \E c \in Cell, d \in Nat :
    /\ InGrid(grid, position, b)
    /\ grid[c] = NULL
    /\ ~InMotion(q, b)
    /\ ~Reserved(q, c)
    /\ Keeps(OfKind("EnqueueOutgoing") \cup {Motion("TranslationStart", b, c)}, t, q, mid)
    /\ OnlyAt(mid, Motion("TranslationStart", b, c), d)

(* What a block code may do, as changes of the event list: only enqueue    *)
(* events are new, or a motion that was not pending starts too.            *)
LEMMA BlockCodeSteps ==
  ASSUME unsent \in SUBSET Msg, moves \in Nat,
         NEW b \in Block, NEW t \in Time, NEW q \in [Time -> Seq(EventType)],
         NEW after, BlockCode(b, t, q, after)
  PROVE  /\ \E mid : /\ eventsMap' = ScheduleAll(mid, t, t, after)
                     /\ \/ Keeps(OfKind("EnqueueOutgoing"), t, q, mid)
                        \/ Asks(b, t, q, mid)
         /\ unsent' \in SUBSET Msg
         /\ moves' \in Nat
<1>1. PICK s \in Requests(b, t, q) :
        /\ eventsMap' = ScheduleAll(ScheduleEach(q, t, s), t, t, after)
        /\ unsent' = unsent \ {s[i].event.arg : i \in Asked(s, "EnqueueOutgoing")}
        /\ moves' = IF Asked(s, "TranslationStart") = {} THEN moves ELSE moves + 1
  BY DEF BlockCode
<1>. DEFINE mid == ScheduleEach(q, t, s)
<1>2. /\ s \in Seq(DatedBy(EventType)) /\ DOMAIN s = 1..Len(s)
      /\ \A i \in DOMAIN s :
           \/ s[i].event.kind = "EnqueueOutgoing" /\ s[i].event \in EventType
           \/ /\ s[i].event.kind = "TranslationStart"
              /\ \E c \in Goal(b, q) : s[i].event = Motion("TranslationStart", b, c)
      /\ \A i, j \in DOMAIN s :
           s[i].event.kind = "TranslationStart" /\ s[j].event.kind = "TranslationStart" => i = j
  <2>1. s \in Seq(DatedBy(EventType)) /\ DOMAIN s = 1..Len(s)
    BY RequestsType
  <2>2. \A i \in DOMAIN s : s[i].event \in EventType
    BY <2>1, DatedEvents
  <2>. QED BY <2>1, <2>2, RequestsType
<1>3. AfterEach(EventType, q, t, s, Len(s), mid)
  BY <1>2, ScheduleEachEffect
<1>. HIDE DEF mid
<1>4. ASSUME NEW X, \A i \in DOMAIN s : s[i].event \in X
      PROVE  Keeps(X, t, q, mid)
  <2>1. ASSUME NEW f, f \notin X
        PROVE  \A i \in 1..Len(s) : s[i].event # f
    BY <1>2, <1>4, <2>1
  <2>. QED BY <1>3, <2>1 DEF AfterEach, Keeps
<1>5. CASE \A i \in DOMAIN s : s[i].event.kind = "EnqueueOutgoing"
  <2>1. \A i \in DOMAIN s : s[i].event \in OfKind("EnqueueOutgoing")
    BY <1>2, <1>5 DEF OfKind
  <2>. QED BY <1>1, <1>4, <2>1 DEF mid
<1>6. CASE \E i \in DOMAIN s : s[i].event.kind # "EnqueueOutgoing"
  <2>1. PICK i \in DOMAIN s : s[i].event.kind = "TranslationStart"
    BY <1>2, <1>6
  <2>2. PICK c \in Goal(b, q) : s[i].event = Motion("TranslationStart", b, c)
    BY <1>2, <2>1
  <2>. DEFINE new == Motion("TranslationStart", b, c)
  <2>3. /\ c \in Cell /\ grid[c] = NULL /\ ~Reserved(q, c)
        /\ InGrid(grid, position, b) /\ ~InMotion(q, b)
    BY DEF Goal, MayMove
  <2>4. \A j \in DOMAIN s : s[j].event \in OfKind("EnqueueOutgoing") \cup {new}
    BY <1>2, <2>1, <2>2 DEF OfKind
  <2>5. Keeps(OfKind("EnqueueOutgoing") \cup {new}, t, q, mid)
    BY <1>4, <2>4
  <2>6. ~Pending(q, new)
    BY <2>3 DEF InMotion, Motion, MotionKind
  <2>7. \A j \in 1..Len(s) : s[j].event = s[i].event => j = i
    BY <1>2, <2>1
  <2>8. OnlyAt(mid, new, s[i].date)
    BY <1>2, <1>3, <2>2, <2>6, <2>7 DEF AfterEach
  <2>9. s[i].date \in Nat
    BY <1>2, DatedEvents
  <2>10. Asks(b, t, q, mid)
    BY <2>3, <2>5, <2>8, <2>9 DEF Asks
  <2>. QED BY <1>1, <2>10 DEF mid
<1>7. unsent' \in SUBSET Msg /\ moves' \in Nat
  BY <1>1
<1>. QED BY <1>5, <1>6, <1>7
-----------------------------------------------------------------------------
(* The parts of the invariant a step leaves alone. *)

(* Nothing is scheduled for the past.                                      *)
LEMMA KeptPast ==
  ASSUME NEW t, NEW e, NEW q, Step(t, e, q), NEW X, Keeps(X, t, eventsMap, eventsMap')
  PROVE  NothingOverdue' /\ now' \in Time /\ eventsMap' \in [Time -> Seq(EventType)]
<1>1. \A c \in Time : c < t => eventsMap[c] = <<>>
  BY DEF Step, First, IsFirstDate
<1>2. QED BY <1>1 DEF NothingOverdue, Keeps, Step, First

(* All the interfaces of a step that touches none.                         *)
LEMMA KeptInterfaces ==
  ASSUME NEW t, NEW e, NEW q, Step(t, e, q), NEW X, Keeps(X, t, eventsMap, eventsMap'),
         \A ni \in NI : Start(ni) \notin X /\ Stop(ni) \notin X,
         UNCHANGED <<interfaceVars, connectedInterface>>
  PROVE  WireHasOneStop' /\ AvailabilityIsNear' /\ BufferIsServed' /\ WireFollowsLink'
<1>1. ASSUME NEW ni \in NI
      PROVE  OneStop(ni)' /\ Near(ni)' /\ Served(ni)'
  BY KeptInterface DEF interfaceVars
<1>2. WireFollowsLink'
  BY DEF WireFollowsLink, Step, IInv, interfaceVars
<1>3. QED BY <1>1, <1>2 DEF WireHasOneStop, AvailabilityIsNear, BufferIsServed

(* All the local lists of a step that touches none.                        *)
LEMMA KeptLists ==
  ASSUME NEW t, NEW e, NEW q, Step(t, e, q), NEW X, Keeps(X, t, eventsMap, eventsMap'),
         \A b \in Block : Process(b) \notin X,
         UNCHANGED localEventsList
  PROVE  LocalListIsServed' /\ RightReceiver'
<1>1. ASSUME NEW b \in Block
      PROVE  ListServed(b)'
  BY KeptList
<1>2. RightReceiver'
  BY DEF RightReceiver, Step, IInv
<1>3. QED BY <1>1, <1>2 DEF LocalListIsServed

(* The lattice of a step that moves nothing.                               *)
LEMMA KeptLattice ==
  ASSUME IInv, UNCHANGED worldVars
  PROVE  GridMatchesPositions' /\ LinksMatchLattice'
<1>1. GridMatchesPositions'
  BY DEF IInv, GridMatchesPositions, worldVars
<1>2. LinksMatchLattice'
  BY DEF IInv, LinksMatchLattice, LinksIn, PeerIn, InGrid, worldVars
<1>3. QED BY <1>1, <1>2

(* A block code that asks for a motion checks what makes it exclusive.     *)
LEMMA AskedMotion ==
  ASSUME NEW t, NEW e, NEW q, Step(t, e, q), e.kind \notin MotionKind,
         NEW b \in Block, NEW mid, Asks(b, t, q, mid),
         Keeps(OfKind("ProcessLocal"), t, mid, eventsMap'),
         UNCHANGED <<grid, position>>
  PROVE  /\ MotionsAreExclusive'
         /\ \E c \in Cell :
              Keeps(OfKind("EnqueueOutgoing") \cup {Motion("TranslationStart", b, c)}, t, q, mid)
<1>1. PICK c \in Cell, date \in Nat :
        /\ InGrid(grid, position, b)
        /\ grid[c] = NULL
        /\ ~InMotion(q, b)
        /\ ~Reserved(q, c)
        /\ Keeps(OfKind("EnqueueOutgoing") \cup {Motion("TranslationStart", b, c)}, t, q, mid)
        /\ OnlyAt(mid, Motion("TranslationStart", b, c), date)
  BY DEF Asks
<1>. DEFINE new == Motion("TranslationStart", b, c)
<1>2. t \in Time /\ t \in Nat /\ q \in [Time -> Seq(EventType)] /\ new \in EventType
  BY FirstEvent, EventTypes DEF Step, IInv, First, MotionKind
<1>3. Keeps({e}, t, eventsMap, q)
  BY FirstEvent DEF Step, IInv
<1>4. \A k \in MotionKind, a \in Block, x \in Cell :
        /\ Pending(q, Motion(k, a, x)) <=> Pending(eventsMap, Motion(k, a, x))
        /\ \A d : OnlyAt(eventsMap, Motion(k, a, x), d) => OnlyAt(q, Motion(k, a, x), d)
  BY <1>3 DEF Keeps, Motion, Event
<1>5. \A k \in MotionKind, a \in Block, x \in Cell : Motion(k, a, x) # new =>
        /\ Pending(mid, Motion(k, a, x)) <=> Pending(q, Motion(k, a, x))
        /\ \A d : OnlyAt(q, Motion(k, a, x), d) => OnlyAt(mid, Motion(k, a, x), d)
  <2>1. \A k \in MotionKind, a \in Block, x \in Cell : Motion(k, a, x) \notin OfKind("EnqueueOutgoing")
    BY DEF OfKind, Motion, Event, MotionKind
  <2>. QED BY <1>1, <2>1 DEF Keeps
<1>6. \A k \in MotionKind, x \in Cell : ~Pending(q, Motion(k, b, x))
  BY <1>1 DEF InMotion, Motion
<1>7. \A k \in MotionKind, a \in Block : ~Pending(q, Motion(k, a, c))
  BY <1>1 DEF Reserved, Motion
<1>8. \A k \in MotionKind, a \in Block, x \in Cell :
        /\ Pending(eventsMap', Motion(k, a, x)) <=> Pending(mid, Motion(k, a, x))
        /\ \A d : OnlyAt(mid, Motion(k, a, x), d) => OnlyAt(eventsMap', Motion(k, a, x), d)
  BY DEF Keeps, OfKind, Motion, Event, MotionKind
<1>9. ASSUME NEW k \in MotionKind, NEW a \in Block, NEW x \in Cell,
             Pending(eventsMap', Motion(k, a, x))
      PROVE  \/ k = "TranslationStart" /\ a = b /\ x = c
             \/ Pending(q, Motion(k, a, x)) /\ a # b /\ x # c
  <2>1. Pending(mid, Motion(k, a, x))
    BY <1>8, <1>9
  <2>2. CASE Motion(k, a, x) = new
    BY <2>2 DEF Motion, Event
  <2>3. CASE Motion(k, a, x) # new
    BY <1>5, <1>6, <1>7, <2>1, <2>3
  <2>4. QED BY <2>2, <2>3
<1>10. ASSUME NEW k \in MotionKind, NEW a \in Block, NEW x \in Cell,
              Pending(eventsMap', Motion(k, a, x))
       PROVE  Exclusive(k, a, x)'
  <2>1. CASE k = "TranslationStart" /\ a = b /\ x = c
    <3>1. OnlyAt(eventsMap', Motion(k, a, x), date) /\ date \in Time
      <4>1. OnlyAt(eventsMap', Motion(k, a, x), date)
        BY <1>1, <1>8, <2>1 DEF MotionKind
      <4>. QED BY <1>10, <4>1 DEF OnlyAt, Pending
    <3>2. \A l \in MotionKind, u \in Block, y \in Cell :
            (u = a \/ y = x) /\ Pending(eventsMap', Motion(l, u, y)) =>
              l = k /\ u = a /\ y = x
      BY <1>9, <2>1
    <3>3. QED BY <1>1, <2>1, <3>1, <3>2 DEF Exclusive, InGrid, Motion, Event
  <2>2. CASE Pending(q, Motion(k, a, x)) /\ a # b /\ x # c
    <3>1. Exclusive(k, a, x)
      BY <1>4, <2>2 DEF Step, IInv, MotionsAreExclusive
    <3>2. \E d \in Time : OnlyAt(eventsMap', Motion(k, a, x), d)
      <4>1. PICK d \in Time : OnlyAt(eventsMap, Motion(k, a, x), d)
        BY <3>1 DEF Exclusive
      <4>2. OnlyAt(q, Motion(k, a, x), d)
        BY <1>4, <4>1
      <4>3. Motion(k, a, x) # new
        BY <2>2 DEF Motion, Event
      <4>4. OnlyAt(mid, Motion(k, a, x), d)
        BY <1>5, <4>2, <4>3
      <4>5. QED BY <1>8, <4>4
    <3>3. \A l \in MotionKind, u \in Block, y \in Cell :
            (u = a \/ y = x) /\ Pending(eventsMap', Motion(l, u, y)) =>
              l = k /\ u = a /\ y = x
      BY <1>4, <1>9, <2>2, <3>1 DEF Exclusive
    <3>4. QED BY <3>1, <3>2, <3>3 DEF Exclusive, InGrid, Motion, Event
  <2>3. QED BY <1>9, <1>10, <2>1, <2>2
<1>11. MotionsAreExclusive'
  BY <1>10 DEF MotionsAreExclusive, Motion, Event
<1>. QED BY <1>1, <1>11
-----------------------------------------------------------------------------
(* One lemma per action. *)

(* What the calls of the block code have in common: "after" is at most a   *)
(* ProcessLocal event.                                                     *)
CodeRan(t, q, after, X, mid) ==
  /\ Keeps(X, t, q, mid)
  /\ \A f \in X : f.kind \in {"EnqueueOutgoing", "TranslationStart"}
  /\ eventsMap' = ScheduleAll(mid, t, t, after)
  /\ MotionsAreExclusive'

(* A call of the block code schedules what its caller gives it last, and   *)
(* keeps the motions exclusive.                                            *)
LEMMA BlockCodeKeeps ==
  ASSUME NEW t, NEW e, NEW q, Step(t, e, q),
         e.kind \in {"CodeStart", "TranslationEnd", "ProcessLocal"},
         NEW b \in Block, NEW after \in Seq(EventType),
         \A i \in DOMAIN after : after[i] \in OfKind("ProcessLocal"),
         BlockCode(b, t, q, after),
         UNCHANGED <<worldVars, interfaceVars>>
  PROVE  \E X, mid : CodeRan(t, q, after, X, mid)
<1>1. PICK mid : /\ eventsMap' = ScheduleAll(mid, t, t, after)
                 /\ \/ Keeps(OfKind("EnqueueOutgoing"), t, q, mid)
                    \/ Asks(b, t, q, mid)
  BY FirstEvent, BlockCodeSteps DEF Step, IInv, First, TypeOK
<1>2. /\ t \in Time /\ t \in Nat /\ q \in [Time -> Seq(EventType)]
      /\ Keeps({e}, t, eventsMap, q)
  BY FirstEvent DEF Step, IInv, First
<1>3. e.kind \notin MotionKind
  BY DEF MotionKind
<1>4. ASSUME mid \in [Time -> Seq(EventType)]
      PROVE  Keeps(OfKind("ProcessLocal"), t, mid, eventsMap')
  BY <1>1, <1>2, <1>4, ScheduleAllKeeps
<1>5. CASE Keeps(OfKind("EnqueueOutgoing"), t, q, mid)
  <2>. DEFINE X == OfKind("EnqueueOutgoing")
              Y == ({e} \cup X) \cup OfKind("ProcessLocal")
  <2>1. Keeps(OfKind("ProcessLocal"), t, mid, eventsMap')
    BY <1>4, <1>5 DEF Keeps
  <2>2. Keeps(Y, t, eventsMap, eventsMap')
    BY <1>2, <1>5, <2>1, KeepsTrans
  <2>3. \A k \in MotionKind, a \in Block, x \in Cell : Motion(k, a, x) \notin Y
    BY <1>3 DEF OfKind, Motion, Event, MotionKind
  <2>. HIDE DEF Y
  <2>4. MotionsAreExclusive'
    BY <2>2, <2>3, KeptMotions DEF worldVars
  <2>5. \A f \in X : f.kind \in {"EnqueueOutgoing", "TranslationStart"}
    BY DEF OfKind
  <2>6. QED BY <1>1, <1>5, <2>4, <2>5 DEF CodeRan
<1>6. CASE Asks(b, t, q, mid)
  <2>1. mid \in [Time -> Seq(EventType)]
    BY <1>6 DEF Asks, Keeps
  <2>2. Keeps(OfKind("ProcessLocal"), t, mid, eventsMap')
    BY <1>4, <2>1
  <2>3. /\ MotionsAreExclusive'
        /\ \E c \in Cell :
             Keeps(OfKind("EnqueueOutgoing") \cup {Motion("TranslationStart", b, c)}, t, q, mid)
    BY <1>3, <1>6, <2>2, AskedMotion DEF worldVars
  <2>4. PICK c \in Cell :
          Keeps(OfKind("EnqueueOutgoing") \cup {Motion("TranslationStart", b, c)}, t, q, mid)
    BY <2>3
  <2>5. \A f \in OfKind("EnqueueOutgoing") \cup {Motion("TranslationStart", b, c)} :
          f.kind \in {"EnqueueOutgoing", "TranslationStart"}
    BY DEF OfKind, Motion, Event
  <2>6. QED BY <1>1, <2>3, <2>4, <2>5 DEF CodeRan
<1>7. QED BY <1>1, <1>5, <1>6

(* The start of a block code, and the end of a motion, keep the invariant. *)
LEMMA CodeStartKeepsIInv ==
  ASSUME NEW t, NEW e, NEW q, Step(t, e, q), CodeStart(t, e, q)
  PROVE  IInv'
<1>. DEFINE none == <<>>
<1>1. e.on \in Block
  <2>1. e \in EventType
    BY FirstEvent DEF Step, IInv
  <2>2. e.kind \in BlockEventKind
    BY DEF CodeStart, BlockEventKind
  <2>3. QED BY <2>1, <2>2, EventShape
<1>2. /\ none \in Seq(EventType) /\ \A i \in DOMAIN none : FALSE
      /\ BlockCode(e.on, t, q, none)
      /\ UNCHANGED <<worldVars, interfaceVars>>
      /\ e.kind \in {"CodeStart", "TranslationEnd"}
  BY DEF CodeStart
<1>. HIDE DEF none
<1>3a. PICK X, mid : CodeRan(t, q, none, X, mid)
  BY <1>1, <1>2, BlockCodeKeeps
<1>3. /\ Keeps(X, t, q, mid)
      /\ \A f \in X : f.kind \in {"EnqueueOutgoing", "TranslationStart"}
      /\ eventsMap' = ScheduleAll(mid, t, t, none)
      /\ MotionsAreExclusive'
  BY <1>3a DEF CodeRan
<1>. DEFINE Y == {e} \cup X
<1>4. Keeps(Y, t, eventsMap, eventsMap')
  <2>1. /\ mid \in [Time -> Seq(EventType)] /\ t \in Time /\ t \in Nat
        /\ Keeps({e}, t, eventsMap, q)
    BY <1>3, FirstEvent DEF Keeps, Step, IInv, First
  <2>2. Keeps({}, t, mid, eventsMap')
    BY <1>2, <1>3, <2>1, ScheduleAllKeeps
  <2>3. Keeps({e} \cup X, t, eventsMap, mid)
    BY <1>3, <2>1, KeepsTrans
  <2>4. Keeps(({e} \cup X) \cup {}, t, eventsMap, eventsMap')
    BY <2>2, <2>3, KeepsTrans
  <2>5. QED BY <2>4
<1>5. /\ \A ni \in NI : Start(ni) \notin Y /\ Stop(ni) \notin Y
      /\ \A b \in Block : Process(b) \notin Y
      /\ \A b \in Block, c \in Cell : Motion("TranslationStop", b, c) \notin Y
  BY <1>2, <1>3 DEF Start, Stop, Process, Motion, Event
<1>. HIDE DEF Y
<1>6. TypeOK'
  <2>1. unsent' \in SUBSET Msg /\ moves' \in Nat
    BY <1>1, FirstEvent, BlockCodeSteps DEF CodeStart, Step, IInv, First, TypeOK
  <2>2. now' \in Time /\ eventsMap' \in [Time -> Seq(EventType)]
    BY <1>4, KeptPast
  <2>3. QED BY <2>1, <2>2 DEF TypeOK, CodeStart, worldVars, interfaceVars, Step, IInv
<1>7. NoFatalError'
  BY DEF NoFatalError, CodeStart, Step, IInv
<1>8. NothingOverdue'
  BY <1>4, KeptPast
<1>9. WireHasOneStop' /\ AvailabilityIsNear' /\ BufferIsServed' /\ WireFollowsLink'
  BY <1>4, <1>5, KeptInterfaces DEF CodeStart, worldVars
<1>10. LocalListIsServed' /\ RightReceiver'
  BY <1>4, <1>5, KeptLists DEF CodeStart
<1>11. GridMatchesPositions' /\ LinksMatchLattice'
  BY KeptLattice DEF CodeStart, Step
<1>12. ArrivalsFindQuietLinks'
  BY <1>4, <1>5, KeptArrivals DEF CodeStart, worldVars, interfaceVars, Keeps
<1>. QED BY <1>3, <1>6, <1>7, <1>8, <1>9, <1>10, <1>11, <1>12 DEF IInv

(* A notification of a neighbor keeps the invariant.                       *)
LEMMA NotifyKeepsIInv ==
  ASSUME NEW t, NEW e, NEW q, Step(t, e, q), Notify(t, e, q)
  PROVE  IInv'
<1>. DEFINE b == e.on[1]
            X == {e} \cup {Process(b)}
<1>1. /\ t \in Time /\ t \in Nat /\ MaximumDate \in Nat /\ t <= MaximumDate /\ now' = t
      /\ q \in [Time -> Seq(EventType)]
      /\ e \in EventType /\ Keeps({e}, t, eventsMap, q)
      /\ \A f : OnlyAt(eventsMap, f, now) => OnlyAt(eventsMap, f, t)
  BY FirstEvent DEF Step, IInv, First
<1>2. e.on \in NI /\ b \in Block
  BY <1>1 DEF Notify, EventType, Event, BlockEventKind, InterfaceEventKind, MotionKind, NI
<1>. HIDE DEF b
<1>3. /\ ListServed(b) /\ Process(b) # e /\ Process(b) \in EventType
      /\ eventsMap' = ScheduleLocalEvent(q, t, b)
      /\ localEventsList' = [localEventsList EXCEPT ![b] = Append(@, Notice(e.kind))]
  BY <1>2, EventTypes DEF Notify, Step, IInv, LocalListIsServed, Process, Event, b
<1>4. Keeps({Process(b)}, t, q, eventsMap') /\ ListServed(b)'
  <2>1. /\ Pending(q, Process(b)) <=> localEventsList[b] # <<>>
        /\ OnlyAt(q, Process(b), t)
    BY <1>1, <1>3 DEF ListServed, Keeps
  <2>2. localEventsList'[b] # <<>>
    BY <1>2, <1>3 DEF Step, IInv, TypeOK
  <2>3. CASE localEventsList[b] = <<>>
    <3>1. eventsMap' = Schedule(q, t, t, Process(b))
      BY <1>3, <2>3 DEF ScheduleLocalEvent, Process
    <3>2. /\ Keeps({Process(b)}, t, q, eventsMap')
          /\ Pending(eventsMap', Process(b)) /\ OnlyAt(eventsMap', Process(b), t)
      BY <1>1, <1>3, <2>1, <2>3, <3>1, ScheduleKeeps
    <3>3. QED BY <1>1, <2>2, <3>2 DEF ListServed, Process, Event
  <2>4. CASE localEventsList[b] # <<>>
    <3>1. eventsMap' = q
      BY <1>3, <2>4 DEF ScheduleLocalEvent
    <3>2. QED BY <1>1, <2>1, <2>2, <2>4, <3>1 DEF ListServed, Keeps, Process, Event
  <2>5. QED BY <2>3, <2>4
<1>5. Keeps(X, t, eventsMap, eventsMap')
  BY <1>1, <1>4, KeepsTrans
<1>6. /\ \A ni \in NI : Start(ni) \notin X /\ Stop(ni) \notin X
      /\ \A a \in Block : a # b => Process(a) \notin X
      /\ \A k \in MotionKind, a \in Block, c \in Cell : Motion(k, a, c) \notin X
  BY DEF Notify, Start, Stop, Process, Motion, Event, MotionKind
<1>. HIDE DEF X
<1>7. TypeOK'
  <2>1. localEventsList' \in [Block -> Seq(LocalEvent)]
    BY <1>2, <1>3 DEF Step, IInv, TypeOK, Notify, LocalEvent, Notice
  <2>2. now' \in Time /\ eventsMap' \in [Time -> Seq(EventType)]
    BY <1>5, KeptPast
  <2>3. QED BY <2>1, <2>2 DEF TypeOK, Notify, worldVars, interfaceVars, codeVars, Step, IInv
<1>8. NoFatalError'
  BY DEF NoFatalError, Notify, Step, IInv
<1>9. NothingOverdue'
  BY <1>5, KeptPast
<1>10. WireHasOneStop' /\ AvailabilityIsNear' /\ BufferIsServed' /\ WireFollowsLink'
  BY <1>5, <1>6, KeptInterfaces DEF Notify, worldVars
<1>11. LocalListIsServed'
  <2>1. ASSUME NEW a \in Block, a # b
        PROVE  ListServed(a)'
    <3>1. localEventsList'[a] = localEventsList[a]
      BY <1>3, <2>1 DEF Step, IInv, TypeOK
    <3>2. QED BY <1>5, <1>6, <2>1, <3>1, KeptList
  <2>2. QED BY <1>2, <1>4, <2>1 DEF LocalListIsServed
<1>12. RightReceiver'
  <2>1. ASSUME NEW a \in Block, NEW i \in DOMAIN localEventsList'[a],
               localEventsList'[a][i].packet # NULL
        PROVE  localEventsList'[a][i].packet.dst[1] = a
    <3>1. localEventsList[a] \in Seq(LocalEvent)
      BY DEF Step, IInv, TypeOK
    <3>2. i \in DOMAIN localEventsList[a] /\ localEventsList'[a][i] = localEventsList[a][i]
      BY <1>2, <1>3, <2>1, <3>1 DEF Notice, Step, IInv, TypeOK
    <3>3. QED BY <2>1, <3>2 DEF Step, IInv, RightReceiver
  <2>2. QED BY <2>1 DEF RightReceiver
<1>13. GridMatchesPositions' /\ LinksMatchLattice'
  BY KeptLattice DEF Notify, Step
<1>14. MotionsAreExclusive'
  BY <1>5, <1>6, KeptMotions DEF Notify, worldVars
<1>15. ArrivalsFindQuietLinks'
  BY <1>5, <1>6, KeptArrivals DEF Notify, worldVars, interfaceVars, Keeps, MotionKind
<1>. QED BY <1>7, <1>8, <1>9, <1>10, <1>11, <1>12, <1>13, <1>14, <1>15 DEF IInv

(* The processing of a local event keeps the invariant.                    *)
LEMMA ProcessLocalKeepsIInv ==
  ASSUME NEW t, NEW e, NEW q, Step(t, e, q), ProcessLocal(t, e, q)
  PROVE  IInv'
<1>. DEFINE b == e.on
            after == Resume(b)
<1>1. /\ t \in Time /\ t \in Nat /\ MaximumDate \in Nat /\ t <= MaximumDate /\ now' = t
      /\ q \in [Time -> Seq(EventType)]
      /\ e \in EventType /\ Keeps({e}, t, eventsMap, q) /\ Pending(eventsMap, e)
      /\ \A x : OnlyAt(eventsMap, e, x) => ~Pending(q, e)
  BY FirstEvent DEF Step, IInv, First
<1>2. b \in Block /\ e = Process(b) /\ e.kind = "ProcessLocal"
  BY <1>1, EventShape DEF ProcessLocal, Process, BlockEventKind
<1>. HIDE DEF b
<1>3. /\ localEventsList[b] # <<>> /\ localEventsList[b] \in Seq(LocalEvent)
      /\ ~Pending(q, Process(b))
  BY <1>1, <1>2 DEF Step, IInv, LocalListIsServed, ListServed, TypeOK
<1>4. /\ localEventsList' = [localEventsList EXCEPT ![b] = Tail(@)]
      /\ BlockCode(b, t, q, after)
      /\ UNCHANGED <<worldVars, interfaceVars, exited>>
  BY <1>3 DEF ProcessLocal, b
<1>5. /\ Tail(localEventsList[b]) \in Seq(LocalEvent)
      /\ localEventsList'[b] = Tail(localEventsList[b])
      /\ \A a \in Block : a # b => localEventsList'[a] = localEventsList[a]
      /\ localEventsList' \in [Block -> Seq(LocalEvent)]
  BY <1>2, <1>3, <1>4 DEF Step, IInv, TypeOK
<1>6. /\ after \in Seq(EventType)
      /\ \A i \in DOMAIN after : after[i] \in OfKind("ProcessLocal")
      /\ localEventsList'[b] = <<>> => DOMAIN after = {}
      /\ localEventsList'[b] # <<>> => after = <<Process(b)>>
  <2>1. Process(b) \in EventType /\ Process(b) \in OfKind("ProcessLocal")
    BY <1>2, EventTypes DEF OfKind, Process, Event
  <2>2. CASE localEventsList'[b] = <<>>
    <3>1. after = <<>>
      BY <1>5, <2>2 DEF Resume
    <3>2. QED BY <2>2, <3>1
  <2>3. CASE localEventsList'[b] # <<>>
    <3>1. after = <<Process(b)>>
      BY <1>5, <2>3 DEF Resume, Process
    <3>2. QED BY <2>1, <2>3, <3>1
  <2>4. QED BY <2>2, <2>3
<1>. HIDE DEF after
<1>7. PICK X, mid : CodeRan(t, q, after, X, mid)
  BY <1>2, <1>4, <1>6, BlockCodeKeeps
<1>8. /\ Keeps(X, t, q, mid) /\ mid \in [Time -> Seq(EventType)]
      /\ \A f \in X : f.kind \in {"EnqueueOutgoing", "TranslationStart"}
      /\ eventsMap' = ScheduleAll(mid, t, t, after)
      /\ MotionsAreExclusive'
  BY <1>7 DEF CodeRan, Keeps
<1>9. /\ ListServed(b)'
      /\ Keeps({Process(b)}, t, mid, eventsMap')
  <2>1. ~Pending(mid, Process(b))
    BY <1>3, <1>8 DEF Keeps, Process, Event
  <2>2. CASE localEventsList'[b] = <<>>
    <3>1. Keeps({}, t, mid, eventsMap')
      BY <1>1, <1>6, <1>8, <2>2, ScheduleAllKeeps
    <3>2. ~Pending(eventsMap', Process(b)) /\ OnlyAt(eventsMap', Process(b), t)
      BY <2>1, <3>1, NotPendingAnywhere DEF Keeps
    <3>3. QED BY <1>1, <2>2, <3>1, <3>2 DEF ListServed, Keeps, Process, Event
  <2>3. CASE localEventsList'[b] # <<>>
    <3>1. eventsMap' = Schedule(mid, t, t, Process(b)) /\ Process(b) \in EventType
      BY <1>2, <1>6, <1>8, <2>3, EventTypes DEF Schedule
    <3>2. /\ Keeps({Process(b)}, t, mid, eventsMap')
          /\ Pending(eventsMap', Process(b)) /\ OnlyAt(eventsMap', Process(b), t)
      BY <1>1, <1>8, <2>1, <3>1, ScheduleKeeps
    <3>3. QED BY <1>1, <2>3, <3>2 DEF ListServed, Process, Event
  <2>4. QED BY <2>2, <2>3
<1>. DEFINE Y == ({e} \cup X) \cup {Process(b)}
<1>10. Keeps(Y, t, eventsMap, eventsMap')
  BY <1>1, <1>8, <1>9, KeepsTrans
<1>11. /\ \A ni \in NI : Start(ni) \notin Y /\ Stop(ni) \notin Y
       /\ \A a \in Block : a # b => Process(a) \notin Y
       /\ \A a \in Block, c \in Cell : Motion("TranslationStop", a, c) \notin Y
  BY <1>2, <1>8 DEF Start, Stop, Process, Motion, Event
<1>. HIDE DEF Y
<1>12. TypeOK'
  <2>1. unsent' \in SUBSET Msg /\ moves' \in Nat
    BY <1>1, <1>2, <1>4, BlockCodeSteps DEF Step, IInv, TypeOK
  <2>2. now' \in Time /\ eventsMap' \in [Time -> Seq(EventType)]
    BY <1>10, KeptPast
  <2>3. QED BY <1>4, <1>5, <2>1, <2>2 DEF TypeOK, worldVars, interfaceVars, Step, IInv
<1>13. NoFatalError'
  BY <1>4 DEF NoFatalError, Step, IInv
<1>14. NothingOverdue'
  BY <1>10, KeptPast
<1>15. WireHasOneStop' /\ AvailabilityIsNear' /\ BufferIsServed' /\ WireFollowsLink'
  BY <1>4, <1>10, <1>11, KeptInterfaces DEF worldVars
<1>16. LocalListIsServed'
  BY <1>5, <1>9, <1>10, <1>11, KeptList DEF LocalListIsServed
<1>17. RightReceiver'
  <2>1. ASSUME NEW a \in Block, NEW i \in DOMAIN localEventsList'[a]
        PROVE  \E j \in DOMAIN localEventsList[a] : localEventsList'[a][i] = localEventsList[a][j]
    <3>1. CASE a # b
      BY <1>5, <2>1, <3>1
    <3>2. CASE a = b
      <4>1. /\ i \in 1..(Len(localEventsList[b]) - 1) /\ Len(localEventsList[b]) \in Nat
            /\ localEventsList'[b][i] = localEventsList[b][i + 1]
        BY <1>3, <1>5, <3>2, HeadTailProperties, LenProperties
      <4>2. i + 1 \in DOMAIN localEventsList[b]
        BY <1>3, <4>1, LenProperties
      <4>3. QED BY <3>2, <4>1, <4>2
    <3>3. QED BY <3>1, <3>2
  <2>2. QED BY <2>1 DEF RightReceiver, Step, IInv
<1>18. GridMatchesPositions' /\ LinksMatchLattice'
  BY <1>4, KeptLattice DEF Step
<1>19. ArrivalsFindQuietLinks'
  BY <1>4, <1>10, <1>11, KeptArrivals DEF worldVars, interfaceVars, Keeps
<1>. QED BY <1>8, <1>12, <1>13, <1>14, <1>15, <1>16, <1>17, <1>18, <1>19 DEF IInv
(* The three actions of an interface share this: only ni and at most the   *)
(* list of block b change.                                                 *)
LEMMA InterfaceStep ==
  ASSUME NEW t, NEW e, NEW q, Step(t, e, q), NEW X, Keeps(X, t, eventsMap, eventsMap'),
         NEW ni \in NI,
         \A nj \in NI : nj # ni => Start(nj) \notin X /\ Stop(nj) \notin X,
         \A k \in MotionKind, b \in Block, c \in Cell : Motion(k, b, c) \notin X,
         \A nj \in NI : nj # ni => /\ outgoingQueue'[nj] = outgoingQueue[nj]
                                 /\ messageBeingTransmitted'[nj] = messageBeingTransmitted[nj]
                                 /\ availabilityDate'[nj] = availabilityDate[nj],
         UNCHANGED <<worldVars, exited>>,
         OneStop(ni)', Near(ni)', Served(ni)',
         connectedInterface[ni] = NULL =>
           /\ Pending(eventsMap', Start(ni)) => Pending(eventsMap, Start(ni))
           /\ messageBeingTransmitted'[ni] = NULL \/ UNCHANGED interfaceVars,
         messageBeingTransmitted'[ni] # NULL =>
           connectedInterface[ni] \in {NULL, messageBeingTransmitted'[ni].dst},
         LocalListIsServed', RightReceiver', TypeOK'
  PROVE  IInv'
<1>1. ASSUME NEW nj \in NI, nj # ni
      PROVE  OneStop(nj)' /\ Near(nj)' /\ Served(nj)'
  BY <1>1, KeptInterface DEF worldVars
<1>2. WireHasOneStop' /\ AvailabilityIsNear' /\ BufferIsServed'
  BY <1>1 DEF WireHasOneStop, AvailabilityIsNear, BufferIsServed
<1>3. WireFollowsLink'
  BY DEF WireFollowsLink, Step, IInv, worldVars
<1>4. NoFatalError'
  BY DEF NoFatalError, Step, IInv
<1>5. NothingOverdue'
  BY KeptPast
<1>6. GridMatchesPositions' /\ LinksMatchLattice'
  BY KeptLattice DEF Step
<1>7. MotionsAreExclusive'
  BY KeptMotions DEF worldVars
<1>8. ArrivalsFindQuietLinks'
  <2>1. ASSUME NEW nj \in NI, connectedInterface[nj] = NULL
        PROVE  /\ Pending(eventsMap', Start(nj)) => Pending(eventsMap, Start(nj))
               /\ messageBeingTransmitted'[nj] # NULL =>
                    /\ messageBeingTransmitted[nj] # NULL
                    /\ availabilityDate'[nj] = availabilityDate[nj]
    <3>1. CASE nj = ni
      BY <2>1, <3>1 DEF interfaceVars
    <3>2. CASE nj # ni
      BY <3>2 DEF Keeps
    <3>3. QED BY <3>1, <3>2
  <2>2. \A b \in Block, c \in Cell : Motion("TranslationStop", b, c) \notin X
    BY DEF MotionKind
  <2>3. QED BY <2>1, <2>2, KeptArrivals DEF worldVars
<1>. QED BY <1>2, <1>3, <1>4, <1>5, <1>6, <1>7, <1>8 DEF IInv

(* addToOutgoingBuffer keeps the invariant.                                *)
LEMMA EnqueueOutgoingKeepsIInv ==
  ASSUME NEW t, NEW e, NEW q, Step(t, e, q), EnqueueOutgoing(t, e, q)
  PROVE  IInv'
<1>. DEFINE ni == e.on
            date == LatestDate(availabilityDate[ni], t)
<1>1. /\ t \in Time /\ t \in Nat /\ MaximumDate \in Nat /\ t <= MaximumDate
      /\ now' = t /\ now \in Nat /\ now <= t
      /\ q \in [Time -> Seq(EventType)]
      /\ e \in EventType /\ Keeps({e}, t, eventsMap, q)
      /\ \A f : OnlyAt(eventsMap, f, now) => OnlyAt(eventsMap, f, t)
      /\ \A f, x : OnlyAt(eventsMap, f, x) /\ Pending(eventsMap, f) => t <= x
  BY FirstEvent DEF Step, IInv, First
<1>2. ni \in NI /\ e.arg \in Msg /\ e.kind = "EnqueueOutgoing"
  BY <1>1, EventShape DEF EnqueueOutgoing
<1>3. /\ TypeOK /\ OneStop(ni) /\ Near(ni) /\ Served(ni)
      /\ availabilityDate[ni] \in Nat
      /\ Start(ni) # e /\ Stop(ni) # e /\ Start(ni) \in EventType
  <2>1. TypeOK /\ OneStop(ni) /\ Near(ni) /\ Served(ni)
    BY <1>2 DEF Step, IInv, WireHasOneStop, AvailabilityIsNear, BufferIsServed
  <2>2. availabilityDate[ni] \in Nat
    BY <1>2, <2>1 DEF TypeOK
  <2>3. Start(ni) # e /\ Stop(ni) # e
    BY <1>2 DEF Start, Stop, Event
  <2>4. QED BY <1>2, <2>1, <2>2, <2>3, EventTypes
<1>4. UNCHANGED <<worldVars, localEventsList, codeVars, exited>>
  BY DEF EnqueueOutgoing
<1>5. CASE ~Linked(ni)
  <2>1. eventsMap' = q /\ UNCHANGED interfaceVars
    BY <1>5 DEF EnqueueOutgoing
  <2>. DEFINE X == {e}
  <2>2. Keeps(X, t, eventsMap, eventsMap')
    BY <1>1, <2>1
  <2>3. /\ \A nj \in NI : Start(nj) \notin X /\ Stop(nj) \notin X
        /\ \A b \in Block : Process(b) \notin X
        /\ \A k \in MotionKind, b \in Block, c \in Cell : Motion(k, b, c) \notin X
    BY <1>2 DEF Start, Stop, Process, Motion, Event, MotionKind
  <2>. HIDE DEF X
  <2>4. TypeOK'
    BY <1>3, <1>4, <2>1, <2>2, KeptPast DEF TypeOK, worldVars, interfaceVars, codeVars
  <2>5. WireHasOneStop' /\ AvailabilityIsNear' /\ BufferIsServed' /\ WireFollowsLink'
    BY <1>4, <2>1, <2>2, <2>3, KeptInterfaces DEF worldVars
  <2>6. LocalListIsServed' /\ RightReceiver'
    BY <1>4, <2>2, <2>3, KeptLists
  <2>7. OneStop(ni)' /\ Near(ni)' /\ Served(ni)'
    BY <1>2, <2>5 DEF WireHasOneStop, AvailabilityIsNear, BufferIsServed
  <2>8. Pending(eventsMap', Start(ni)) => Pending(eventsMap, Start(ni))
    BY <1>2, <2>2, <2>3 DEF Keeps
  <2>9. QED BY <1>2, <1>4, <2>1, <2>2, <2>3, <2>4, <2>5, <2>6, <2>7, <2>8, InterfaceStep
               DEF WireFollowsLink, interfaceVars, worldVars
<1>6. CASE Linked(ni)
  <2>1. /\ outgoingQueue' = [outgoingQueue EXCEPT ![ni] = PushBack(@, e.arg)]
        /\ availabilityDate' = [availabilityDate EXCEPT ![ni] = date]
        /\ eventsMap' = IF NeedsStart(ni) THEN Schedule(q, t, date, Start(ni)) ELSE q
        /\ UNCHANGED messageBeingTransmitted
    BY <1>6 DEF EnqueueOutgoing, Start
  <2>2. /\ date \in Nat
        /\ messageBeingTransmitted[ni] = NULL => date = t
        /\ messageBeingTransmitted[ni] # NULL => date = availabilityDate[ni]
    <3>1. messageBeingTransmitted[ni] = NULL => availabilityDate[ni] <= t
      BY <1>1, <1>3 DEF Near
    <3>2. messageBeingTransmitted[ni] # NULL => t <= availabilityDate[ni]
      BY <1>1, <1>3 DEF OneStop
    <3>3. QED BY <1>1, <1>3, <3>1, <3>2 DEF LatestDate
  <2>. HIDE DEF date
  <2>3. /\ outgoingQueue[ni] \in Seq(Msg)
        /\ outgoingQueue'[ni] = Append(outgoingQueue[ni], e.arg)
        /\ outgoingQueue'[ni] # <<>>
        /\ availabilityDate'[ni] = date
    <3>1. outgoingQueue \in [NI -> Seq(Msg)] /\ availabilityDate \in [NI -> Nat]
      BY <1>3 DEF TypeOK
    <3>2. /\ outgoingQueue[ni] \in Seq(Msg)
          /\ outgoingQueue'[ni] = Append(outgoingQueue[ni], e.arg)
          /\ availabilityDate'[ni] = date
      BY <1>2, <2>1, <3>1 DEF PushBack
    <3>3. Append(outgoingQueue[ni], e.arg) # <<>>
      BY <1>2, <3>2
    <3>4. QED BY <3>2, <3>3
  <2>4. /\ Pending(q, Start(ni)) <=> Pending(eventsMap, Start(ni))
        /\ OnlyAt(q, Start(ni), t)
        /\ Pending(q, Stop(ni)) <=> Pending(eventsMap, Stop(ni))
        /\ \A x : OnlyAt(eventsMap, Stop(ni), x) => OnlyAt(q, Stop(ni), x)
    BY <1>1, <1>3 DEF Keeps, Served
  <2>5. /\ Keeps({Start(ni)}, t, q, eventsMap')
        /\ OnlyAt(eventsMap', Start(ni), t)
        /\ messageBeingTransmitted[ni] = NULL => Pending(eventsMap', Start(ni))
        /\ messageBeingTransmitted[ni] # NULL => ~Pending(eventsMap', Start(ni))
    <3>1. CASE NeedsStart(ni)
      <4>1. eventsMap' = Schedule(q, t, t, Start(ni)) /\ messageBeingTransmitted[ni] = NULL
        BY <2>1, <2>2, <3>1 DEF NeedsStart
      <4>2. ~Pending(q, Start(ni))
        BY <1>3, <1>6, <2>4, <3>1 DEF Served, NeedsStart, Linked
      <4>3. /\ Keeps({Start(ni)}, t, q, eventsMap')
            /\ Pending(eventsMap', Start(ni)) /\ OnlyAt(eventsMap', Start(ni), t)
        BY <1>1, <1>3, <4>1, <4>2, ScheduleKeeps
      <4>4. QED BY <4>1, <4>3
    <3>2. CASE ~NeedsStart(ni)
      <4>1. eventsMap' = q
        BY <2>1, <3>2
      <4>2. messageBeingTransmitted[ni] = NULL => Pending(q, Start(ni))
        BY <1>3, <2>4, <3>2 DEF Served, NeedsStart
      <4>3. messageBeingTransmitted[ni] # NULL => ~Pending(q, Start(ni))
        BY <1>3, <2>4 DEF Served
      <4>4. QED BY <1>1, <2>4, <4>1, <4>2, <4>3 DEF Keeps
    <3>3. QED BY <3>1, <3>2
  <2>. DEFINE X == {e} \cup {Start(ni)}
  <2>6. Keeps(X, t, eventsMap, eventsMap')
    BY <1>1, <2>5, KeepsTrans
  <2>7. /\ \A nj \in NI : nj # ni => Start(nj) \notin X /\ Stop(nj) \notin X
        /\ Stop(ni) \notin X
        /\ \A b \in Block : Process(b) \notin X
        /\ \A k \in MotionKind, b \in Block, c \in Cell : Motion(k, b, c) \notin X
    BY <1>2 DEF Start, Stop, Process, Motion, Event, MotionKind
  <2>. HIDE DEF X
  <2>8. OneStop(ni)'
    BY <1>3, <2>1, <2>2, <2>3, <2>6, <2>7, NotPendingAnywhere DEF OneStop, Keeps, Stop, Event
  <2>9. Near(ni)'
    <3>1. CASE messageBeingTransmitted[ni] = NULL
      BY <1>1, <2>1, <2>2, <2>3, <3>1 DEF Near
    <3>2. CASE messageBeingTransmitted[ni] # NULL
      <4>1. availabilityDate'[ni] = availabilityDate[ni] /\ availabilityDate[ni] \in Nat
        BY <2>2, <2>3, <3>2
      <4>2. PICK d \in TransmissionTime : availabilityDate[ni] <= now + d
        BY <1>3, <3>2 DEF Near
      <4>3. d \in Nat /\ now \in Nat /\ now' \in Nat /\ now <= now'
        BY <1>1, <1>3, TimingAssumption
      <4>4. availabilityDate'[ni] <= now' + d
        BY <4>1, <4>2, <4>3
      <4>. QED BY <2>1, <3>2, <4>2, <4>4 DEF Near
    <3>3. QED BY <3>1, <3>2
  <2>10. Served(ni)'
    BY <1>1, <1>4, <1>6, <2>1, <2>3, <2>5 DEF Served, Linked, worldVars, Start, Event
  <2>11. TypeOK'
    <3>1. /\ outgoingQueue' \in [NI -> Seq(Msg)]
          /\ availabilityDate' \in [NI -> Nat]
      BY <1>2, <1>3, <2>1, <2>2, <2>3 DEF TypeOK, PushBack
    <3>2. now' \in Time /\ eventsMap' \in [Time -> Seq(EventType)]
      BY <2>6, KeptPast
    <3>3. QED BY <1>3, <1>4, <2>1, <3>1, <3>2 DEF TypeOK, worldVars, codeVars
  <2>12. LocalListIsServed' /\ RightReceiver'
    BY <1>4, <2>6, <2>7, KeptLists
  <2>13. \A nj \in NI : nj # ni => /\ outgoingQueue'[nj] = outgoingQueue[nj]
                                 /\ messageBeingTransmitted'[nj] = messageBeingTransmitted[nj]
                                 /\ availabilityDate'[nj] = availabilityDate[nj]
    BY <1>3, <2>1 DEF TypeOK
  <2>14. messageBeingTransmitted'[ni] # NULL =>
           connectedInterface[ni] \in {NULL, messageBeingTransmitted'[ni].dst}
    BY <1>2, <2>1 DEF Step, IInv, WireFollowsLink
  <2>15. connectedInterface[ni] # NULL
    BY <1>6 DEF Linked
  <2>. HIDE DEF ni
  <2>16. QED BY <1>2, <1>4, <2>6, <2>7, <2>8, <2>9, <2>10, <2>11, <2>12, <2>13, <2>14, <2>15,
                InterfaceStep
<1>. QED BY <1>5, <1>6
(* P2PNetworkInterface::send puts the first message on a free wire. *)
LEMMA TransmitEffect ==
  ASSUME TypeOK, NEW t \in Time, now' = t, NEW q \in [Time -> Seq(EventType)],
         NEW ni \in NI, ~Pending(q, Stop(ni)),
         connectedInterface[ni] # NULL, outgoingQueue[ni] # <<>>,
         Transmit(ni, t, q), UNCHANGED connectedInterface
  PROVE  /\ Keeps({Stop(ni)}, t, q, eventsMap')
         /\ OneStop(ni)' /\ Near(ni)'
         /\ messageBeingTransmitted'[ni] # NULL
         /\ messageBeingTransmitted'[ni].dst = connectedInterface[ni]
         /\ messageBeingTransmitted' \in [NI -> Packet \cup {NULL}]
         /\ availabilityDate' \in [NI -> Nat]
         /\ outgoingQueue' \in [NI -> Seq(Msg)]
         /\ \A nj \in NI : nj # ni =>
              /\ outgoingQueue'[nj] = outgoingQueue[nj]
              /\ messageBeingTransmitted'[nj] = messageBeingTransmitted[nj]
              /\ availabilityDate'[nj] = availabilityDate[nj]
<1>. DEFINE packet == [msg |-> Head(outgoingQueue[ni]), src |-> ni,
                       dst |-> connectedInterface[ni]]
<1>1. PICK duration \in TransmissionTime :
        /\ outgoingQueue' = [outgoingQueue EXCEPT ![ni] = Tail(@)]
        /\ messageBeingTransmitted' = [messageBeingTransmitted EXCEPT ![ni] = packet]
        /\ availabilityDate' = [availabilityDate EXCEPT ![ni] = t + duration]
        /\ eventsMap' = Schedule(q, t, t + duration, Stop(ni))
  BY DEF Transmit, Stop
<1>2. /\ t \in Nat /\ duration \in Nat /\ MaximumDate \in Nat
      /\ Stop(ni) \in EventType
  BY TimingAssumption, MaximumDateAssumption, EventTypes DEF Time
<1>3. /\ Keeps({Stop(ni)}, t, q, eventsMap')
      /\ Pending(eventsMap', Stop(ni)) <=> t + duration \in t..MaximumDate
      /\ OnlyAt(eventsMap', Stop(ni), t + duration)
  BY <1>1, <1>2, ScheduleKeeps
<1>4. /\ Head(outgoingQueue[ni]) \in Msg /\ Tail(outgoingQueue[ni]) \in Seq(Msg)
      /\ connectedInterface[ni] \in NI
  BY HeadTailProperties DEF TypeOK
<1>5. packet \in Packet
  BY <1>4 DEF Packet
<1>6. packet # NULL
  BY <1>5, TopologyAssumption DEF Packet
<1>7. packet.dst = connectedInterface[ni]
  OBVIOUS
<1>. HIDE DEF packet
<1>8. /\ messageBeingTransmitted' \in [NI -> Packet \cup {NULL}]
      /\ messageBeingTransmitted'[ni] = packet
      /\ \A nj \in NI : nj # ni => messageBeingTransmitted'[nj] = messageBeingTransmitted[nj]
  BY <1>1, <1>5 DEF TypeOK
<1>9. /\ availabilityDate' \in [NI -> Nat]
      /\ availabilityDate'[ni] = t + duration
      /\ \A nj \in NI : nj # ni => availabilityDate'[nj] = availabilityDate[nj]
  BY <1>1, <1>2 DEF TypeOK
<1>10. /\ outgoingQueue' \in [NI -> Seq(Msg)]
       /\ \A nj \in NI : nj # ni => outgoingQueue'[nj] = outgoingQueue[nj]
  BY <1>1, <1>4 DEF TypeOK
<1>11. OneStop(ni)'
  BY <1>2, <1>3, <1>6, <1>8, <1>9 DEF OneStop, Stop, Event
<1>12. Near(ni)'
  BY <1>2, <1>6, <1>8, <1>9 DEF Near
<1>. QED BY <1>3, <1>6, <1>7, <1>8, <1>9, <1>10, <1>11, <1>12

(* The start of a transmission keeps the invariant.                        *)
LEMMA StartTransmittingKeepsIInv ==
  ASSUME NEW t, NEW e, NEW q, Step(t, e, q), StartTransmitting(t, e, q)
  PROVE  IInv'
<1>. DEFINE ni == e.on
            X == {e} \cup {Stop(ni)}
<1>1. /\ t \in Time /\ t \in Nat /\ now' = t /\ TypeOK /\ now \in Nat /\ now <= t
      /\ q \in [Time -> Seq(EventType)] /\ Pending(eventsMap, e)
      /\ e \in EventType /\ Keeps({e}, t, eventsMap, q)
      /\ \A x : OnlyAt(eventsMap, e, x) => x = t /\ ~Pending(q, e)
  BY FirstEvent DEF Step, IInv, First
<1>2. ni \in NI /\ e = Start(ni) /\ e.kind = "StartTransmitting" /\ Stop(ni) # Start(ni)
  BY <1>1, EventShape DEF StartTransmitting, Start, Stop, Event, InterfaceEventKind
<1>3. OneStop(ni) /\ Near(ni) /\ Served(ni)
  BY <1>2 DEF Step, IInv, WireHasOneStop, AvailabilityIsNear, BufferIsServed
<1>4. /\ UNCHANGED <<worldVars, localEventsList, codeVars, exited>>
      /\ \/ /\ connectedInterface[ni] = NULL
            /\ eventsMap' = q
            /\ UNCHANGED interfaceVars
         \/ /\ connectedInterface[ni] # NULL
            /\ outgoingQueue[ni] # <<>>
            /\ Transmit(ni, t, q)
  BY <1>1, <1>2, <1>3 DEF StartTransmitting, Served, Linked
<1>5. /\ messageBeingTransmitted[ni] = NULL
      /\ ~Pending(q, Stop(ni)) /\ ~Pending(q, Start(ni))
      /\ \A x : OnlyAt(q, Stop(ni), x)
      /\ \A x : OnlyAt(q, Start(ni), x)
  BY <1>1, <1>2, <1>3, NotPendingAnywhere DEF Served, OneStop, Keeps
<1>6. /\ Keeps({Stop(ni)}, t, q, eventsMap')
      /\ OneStop(ni)' /\ Near(ni)'
      /\ messageBeingTransmitted' \in [NI -> Packet \cup {NULL}]
      /\ availabilityDate' \in [NI -> Nat]
      /\ outgoingQueue' \in [NI -> Seq(Msg)]
      /\ connectedInterface[ni] = NULL => messageBeingTransmitted'[ni] = NULL /\ outgoingQueue'[ni] = <<>>
      /\ connectedInterface[ni] # NULL =>
           /\ messageBeingTransmitted'[ni] # NULL
           /\ messageBeingTransmitted'[ni].dst = connectedInterface[ni]
      /\ \A nj \in NI : nj # ni =>
           /\ outgoingQueue'[nj] = outgoingQueue[nj]
           /\ messageBeingTransmitted'[nj] = messageBeingTransmitted[nj]
           /\ availabilityDate'[nj] = availabilityDate[nj]
  <2>1. CASE connectedInterface[ni] = NULL
    <3>1. eventsMap' = q /\ UNCHANGED interfaceVars
      BY <1>4, <2>1
    <3>2. Keeps({Stop(ni)}, t, q, eventsMap')
      BY <1>1, <3>1 DEF Keeps
    <3>3. OneStop(ni)'
      BY <1>5, <3>1 DEF OneStop, interfaceVars, Stop, Event
    <3>4. Near(ni)'
      <4>1. availabilityDate[ni] \in Nat /\ availabilityDate[ni] <= now
        BY <1>1, <1>2, <1>3, <1>5 DEF Near, TypeOK
      <4>2. QED BY <1>1, <1>5, <3>1, <4>1 DEF Near, interfaceVars
    <3>5. outgoingQueue[ni] = <<>>
      BY <1>3, <2>1 DEF Served
    <3>6. QED BY <1>1, <1>5, <2>1, <3>1, <3>2, <3>3, <3>4, <3>5 DEF interfaceVars, TypeOK
  <2>2. CASE connectedInterface[ni] # NULL
    BY <1>1, <1>2, <1>4, <1>5, <2>2, TransmitEffect DEF worldVars
  <2>3. QED BY <2>1, <2>2
<1>7. Keeps(X, t, eventsMap, eventsMap')
  BY <1>1, <1>6, KeepsTrans
<1>8. /\ \A nj \in NI : nj # ni => Start(nj) \notin X /\ Stop(nj) \notin X
      /\ \A b \in Block : Process(b) \notin X
      /\ \A k \in MotionKind, b \in Block, c \in Cell : Motion(k, b, c) \notin X
  BY <1>2 DEF Start, Stop, Process, Motion, Event, MotionKind
<1>. HIDE DEF X, ni
<1>9. ~Pending(eventsMap', Start(ni)) /\ OnlyAt(eventsMap', Start(ni), t)
  BY <1>2, <1>5, <1>6 DEF Keeps
<1>10. Served(ni)'
  BY <1>1, <1>4, <1>6, <1>9 DEF Served, worldVars, Start, Event
<1>11. TypeOK'
  <2>1. now' \in Time /\ eventsMap' \in [Time -> Seq(EventType)]
    BY <1>7, KeptPast
  <2>2. QED BY <1>1, <1>4, <1>6, <2>1 DEF TypeOK, worldVars, codeVars
<1>12. LocalListIsServed' /\ RightReceiver'
  BY <1>4, <1>7, <1>8, KeptLists
<1>. QED BY <1>2, <1>4, <1>6, <1>7, <1>8, <1>9, <1>10, <1>11, <1>12, InterfaceStep

(* The end of a transmission, with its delivery, keeps the invariant.      *)
LEMMA StopTransmittingKeepsIInv ==
  ASSUME NEW t, NEW e, NEW q, Step(t, e, q), StopTransmitting(t, e, q)
  PROVE  IInv'
<1>. DEFINE ni == e.on
            peer == connectedInterface[ni]
            queued == IF peer = NULL THEN q ELSE ScheduleLocalEvent(q, t, peer[1])
            P == IF peer = NULL THEN {} ELSE {Process(peer[1])}
            X == ({e} \cup P) \cup {Stop(ni)}
<1>1. /\ t \in Time /\ t \in Nat /\ now' = t /\ TypeOK /\ now \in Nat /\ now <= t
      /\ MaximumDate \in Nat /\ t <= MaximumDate
      /\ q \in [Time -> Seq(EventType)] /\ Pending(eventsMap, e)
      /\ e \in EventType /\ Keeps({e}, t, eventsMap, q)
      /\ \A x : OnlyAt(eventsMap, e, x) => x = t /\ ~Pending(q, e)
      /\ \A f : OnlyAt(eventsMap, f, now) => OnlyAt(eventsMap, f, t)
  BY FirstEvent DEF Step, IInv, First
<1>2. ni \in NI /\ e = Stop(ni) /\ e.kind = "StopTransmitting" /\ Stop(ni) # Start(ni)
  BY <1>1, EventShape DEF StopTransmitting, Start, Stop, Event, InterfaceEventKind
<1>3. OneStop(ni) /\ Near(ni) /\ Served(ni)
  BY <1>2 DEF Step, IInv, WireHasOneStop, AvailabilityIsNear, BufferIsServed
<1>4. /\ messageBeingTransmitted[ni] # NULL
      /\ messageBeingTransmitted[ni] \in Packet
      /\ ~Pending(q, Stop(ni))
      /\ ~Pending(eventsMap, Start(ni))
  BY <1>1, <1>2, <1>3 DEF OneStop, Served, TypeOK
<1>5. /\ UNCHANGED <<worldVars, codeVars, exited>>
      /\ peer = NULL => UNCHANGED localEventsList
      /\ peer # NULL =>
           localEventsList' = [localEventsList EXCEPT ![peer[1]] =
                                 Append(@, Received(messageBeingTransmitted[ni]))]
      /\ \/ /\ outgoingQueue[ni] # <<>> /\ peer # NULL
            /\ Transmit(ni, t, queued)
         \/ /\ outgoingQueue[ni] = <<>> \/ peer = NULL
            /\ messageBeingTransmitted' = [messageBeingTransmitted EXCEPT ![ni] = NULL]
            /\ availabilityDate' = [availabilityDate EXCEPT ![ni] = t]
            /\ eventsMap' = queued
            /\ UNCHANGED outgoingQueue
  BY DEF StopTransmitting
<1>6. peer # NULL => /\ peer \in NI /\ peer[1] \in Block
                     /\ peer = messageBeingTransmitted[ni].dst
                     /\ Process(peer[1]) \in EventType
                     /\ Process(peer[1]) # e
                     /\ ListServed(peer[1])
  <2>1. peer # NULL => peer \in NI /\ peer[1] \in Block
    BY <1>1, <1>2 DEF TypeOK, NI
  <2>2. peer # NULL => peer = messageBeingTransmitted[ni].dst
    BY <1>2, <1>4 DEF Step, IInv, WireFollowsLink
  <2>3. peer # NULL => Process(peer[1]) \in EventType /\ Process(peer[1]) # e
    BY <1>2, <2>1, EventTypes DEF Process, Event
  <2>4. QED BY <2>1, <2>2, <2>3 DEF Step, IInv, LocalListIsServed
<1>7. /\ Keeps(P, t, q, queued)
      /\ peer # NULL => Pending(queued, Process(peer[1])) /\ OnlyAt(queued, Process(peer[1]), t)
  <2>1. CASE peer = NULL
    BY <1>1, <2>1 DEF Keeps
  <2>2. CASE peer # NULL
    <3>. DEFINE b == peer[1]
    <3>1. /\ Pending(q, Process(b)) <=> localEventsList[b] # <<>>
          /\ OnlyAt(q, Process(b), t)
      BY <1>1, <1>6, <2>2 DEF ListServed, Keeps
    <3>2. CASE localEventsList[b] = <<>>
      <4>1. queued = Schedule(q, t, t, Process(b))
        BY <2>2, <3>2 DEF ScheduleLocalEvent, Process
      <4>2. /\ Keeps({Process(b)}, t, q, queued)
            /\ Pending(queued, Process(b)) /\ OnlyAt(queued, Process(b), t)
        <5>1. Process(b) \in EventType /\ ~Pending(q, Process(b)) /\ t \in t..MaximumDate
          BY <1>1, <1>6, <2>2, <3>1, <3>2
        <5>. HIDE DEF queued, b
        <5>2. QED BY <1>1, <4>1, <5>1, ScheduleKeeps
      <4>3. QED BY <2>2, <4>2
    <3>3. CASE localEventsList[b] # <<>>
      <4>1. queued = q
        BY <2>2, <3>3 DEF ScheduleLocalEvent
      <4>2. QED BY <1>1, <2>2, <3>1, <3>3, <4>1 DEF Keeps
    <3>4. QED BY <3>2, <3>3
  <2>3. QED BY <2>1, <2>2
<1>8. /\ queued \in [Time -> Seq(EventType)]
      /\ Stop(ni) \notin P /\ Start(ni) \notin P
      /\ ~Pending(queued, Stop(ni)) /\ ~Pending(queued, Start(ni))
  <2>1. Stop(ni) \notin P /\ Start(ni) \notin P
    BY DEF Stop, Start, Process, Event
  <2>2. ~Pending(q, Start(ni))
    BY <1>1, <1>2, <1>4 DEF Keeps
  <2>3. QED BY <1>4, <1>7, <2>1, <2>2 DEF Keeps
<1>. HIDE DEF queued, P
<1>9. /\ Keeps({Stop(ni)}, t, queued, eventsMap')
      /\ OneStop(ni)' /\ Near(ni)'
      /\ messageBeingTransmitted' \in [NI -> Packet \cup {NULL}]
      /\ availabilityDate' \in [NI -> Nat]
      /\ outgoingQueue' \in [NI -> Seq(Msg)]
      /\ peer = NULL => messageBeingTransmitted'[ni] = NULL
      /\ messageBeingTransmitted'[ni] # NULL =>
           peer # NULL /\ messageBeingTransmitted'[ni].dst = peer
      /\ messageBeingTransmitted'[ni] = NULL => outgoingQueue'[ni] = <<>>
      /\ outgoingQueue'[ni] # <<>> => peer # NULL
      /\ \A nj \in NI : nj # ni =>
           /\ outgoingQueue'[nj] = outgoingQueue[nj]
           /\ messageBeingTransmitted'[nj] = messageBeingTransmitted[nj]
           /\ availabilityDate'[nj] = availabilityDate[nj]
  <2>1. CASE outgoingQueue[ni] # <<>> /\ peer # NULL /\ Transmit(ni, t, queued)
    BY <1>1, <1>2, <1>5, <1>8, <2>1, TransmitEffect DEF worldVars
  <2>2. CASE /\ outgoingQueue[ni] = <<>> \/ peer = NULL
             /\ messageBeingTransmitted' = [messageBeingTransmitted EXCEPT ![ni] = NULL]
             /\ availabilityDate' = [availabilityDate EXCEPT ![ni] = t]
             /\ eventsMap' = queued
             /\ UNCHANGED outgoingQueue
    <3>1. /\ messageBeingTransmitted' \in [NI -> Packet \cup {NULL}]
          /\ messageBeingTransmitted'[ni] = NULL
          /\ availabilityDate' \in [NI -> Nat]
          /\ availabilityDate'[ni] = t
          /\ outgoingQueue' \in [NI -> Seq(Msg)]
          /\ \A nj \in NI : nj # ni =>
               /\ outgoingQueue'[nj] = outgoingQueue[nj]
               /\ messageBeingTransmitted'[nj] = messageBeingTransmitted[nj]
               /\ availabilityDate'[nj] = availabilityDate[nj]
      BY <1>1, <1>2, <2>2 DEF TypeOK
    <3>2. outgoingQueue'[ni] = <<>>
      BY <1>3, <2>2 DEF Served
    <3>3. Keeps({Stop(ni)}, t, queued, eventsMap')
      BY <1>8, <2>2 DEF Keeps
    <3>4. OneStop(ni)'
      BY <1>8, <2>2, <3>1, NotPendingAnywhere DEF OneStop, Stop, Event
    <3>5. Near(ni)'
      BY <1>1, <3>1 DEF Near
    <3>6. QED BY <3>1, <3>2, <3>3, <3>4, <3>5
  <2>3. QED BY <1>5, <2>1, <2>2
<1>10. Keeps(X, t, eventsMap, eventsMap')
  <2>1. Keeps({e} \cup P, t, eventsMap, queued)
    BY <1>1, <1>7, KeepsTrans
  <2>2. QED BY <1>9, <2>1, KeepsTrans
<1>11. /\ \A nj \in NI : nj # ni => Start(nj) \notin X /\ Stop(nj) \notin X
       /\ \A b \in Block : (peer # NULL => b # peer[1]) => Process(b) \notin X
       /\ \A k \in MotionKind, b \in Block, c \in Cell : Motion(k, b, c) \notin X
  BY <1>2 DEF Start, Stop, Process, Motion, Event, MotionKind, P
<1>. HIDE DEF X, ni, peer
<1>12. ~Pending(eventsMap', Start(ni)) /\ OnlyAt(eventsMap', Start(ni), t)
  BY <1>2, <1>8, <1>9, NotPendingAnywhere DEF Keeps
<1>13. Served(ni)'
  BY <1>1, <1>5, <1>9, <1>12 DEF Served, worldVars, Start, Event, peer
<1>14. /\ localEventsList' \in [Block -> Seq(LocalEvent)]
       /\ \A b \in Block : (peer # NULL => b # peer[1]) => localEventsList'[b] = localEventsList[b]
       /\ peer # NULL =>
            localEventsList'[peer[1]] =
              Append(localEventsList[peer[1]], Received(messageBeingTransmitted[ni]))
  <2>1. Received(messageBeingTransmitted[ni]) \in LocalEvent
    BY <1>4 DEF Received, LocalEvent
  <2>2. localEventsList \in [Block -> Seq(LocalEvent)]
    BY <1>1 DEF TypeOK
  <2>3. CASE peer = NULL
    BY <1>5, <2>2, <2>3
  <2>4. CASE peer # NULL
    <3>1. peer[1] \in Block
      BY <1>6, <2>4
    <3>2. Append(localEventsList[peer[1]], Received(messageBeingTransmitted[ni])) \in Seq(LocalEvent)
      BY <2>1, <2>2, <3>1
    <3>3. QED BY <1>5, <2>2, <2>4, <3>1, <3>2
  <2>5. QED BY <2>3, <2>4
<1>15. TypeOK'
  <2>1. now' \in Time /\ eventsMap' \in [Time -> Seq(EventType)]
    BY <1>10, KeptPast
  <2>2. QED BY <1>1, <1>5, <1>9, <1>14, <2>1 DEF TypeOK, worldVars, codeVars
<1>16. LocalListIsServed'
  <2>1. ASSUME NEW b \in Block
        PROVE  ListServed(b)'
    <3>1. CASE peer # NULL => b # peer[1]
      BY <1>10, <1>11, <1>14, <3>1, KeptList
    <3>2. CASE peer # NULL /\ b = peer[1]
      <4>1. Pending(eventsMap', Process(b)) /\ OnlyAt(eventsMap', Process(b), t)
        BY <1>7, <1>9, <3>2 DEF Keeps, Process, Stop, Event
      <4>2. localEventsList[b] \in Seq(LocalEvent)
        BY <1>1 DEF TypeOK
      <4>3. localEventsList'[b] # <<>>
        BY <1>14, <3>2, <4>2
      <4>4. QED BY <1>1, <4>1, <4>3 DEF ListServed, Process, Event
    <3>3. QED BY <3>1, <3>2
  <2>2. QED BY <2>1 DEF LocalListIsServed
<1>17. RightReceiver'
  <2>1. ASSUME NEW b \in Block, NEW i \in DOMAIN localEventsList'[b],
               localEventsList'[b][i].packet # NULL
        PROVE  localEventsList'[b][i].packet.dst[1] = b
    <3>1. localEventsList[b] \in Seq(LocalEvent)
      BY <1>1 DEF TypeOK
    <3>2. CASE i \in DOMAIN localEventsList[b] /\ localEventsList'[b][i] = localEventsList[b][i]
      BY <2>1, <3>2 DEF Step, IInv, RightReceiver
    <3>3. CASE /\ peer # NULL /\ b = peer[1]
               /\ localEventsList'[b][i] = Received(messageBeingTransmitted[ni])
      BY <1>6, <3>3 DEF Received
    <3>4. CASE peer # NULL => b # peer[1]
      BY <1>14, <2>1, <3>2, <3>4
    <3>5. CASE peer # NULL /\ b = peer[1]
      <4>. DEFINE l == localEventsList[b]
                  x == Received(messageBeingTransmitted[ni])
      <4>1. localEventsList'[b] = Append(l, x)
        BY <1>14, <3>5
      <4>2. /\ Len(l) \in Nat /\ DOMAIN l = 1..Len(l)
            /\ DOMAIN Append(l, x) = 1..(Len(l) + 1)
            /\ \A j \in 1..Len(l) : Append(l, x)[j] = l[j]
            /\ Append(l, x)[Len(l) + 1] = x
        BY <3>1
      <4>. HIDE DEF x, l
      <4>3. \/ i \in 1..Len(l) /\ localEventsList'[b][i] = l[i]
            \/ localEventsList'[b][i] = x
        BY <2>1, <4>1, <4>2
      <4>4. QED BY <3>2, <3>3, <3>5, <4>2, <4>3 DEF l, x
    <3>6. QED BY <3>4, <3>5
  <2>2. QED BY <2>1 DEF RightReceiver
<1>18. connectedInterface[ni] = NULL =>
         /\ Pending(eventsMap', Start(ni)) => Pending(eventsMap, Start(ni))
         /\ messageBeingTransmitted'[ni] = NULL
  BY <1>9, <1>12 DEF peer
<1>19. messageBeingTransmitted'[ni] # NULL =>
         connectedInterface[ni] \in {NULL, messageBeingTransmitted'[ni].dst}
  BY <1>9 DEF peer
<1>. QED BY <1>2, <1>5, <1>9, <1>10, <1>11, <1>13, <1>15, <1>16, <1>17, <1>18, <1>19, InterfaceStep
(* Two cells that face each other link their blocks both ways. *)
LEMMA LinksAreSymmetric ==
  ASSUME NEW g \in [Cell -> Block \cup {NULL}], NEW pos \in [Block -> Cell \cup {NULL}],
         \A c \in Cell : g[c] # NULL => pos[g[c]] = c,
         NEW ni \in NI, LinksIn(g, pos)[ni] # NULL
  PROVE  /\ LinksIn(g, pos)[ni] \in NI
         /\ LinksIn(g, pos)[LinksIn(g, pos)[ni]] = ni
<1>. DEFINE b == ni[1]
            d == ni[2]
            c == NeighborCell[pos[b]][d]
            a == g[c]
<1>1. /\ b \in Block /\ d \in Dir /\ ni = <<b, d>>
      /\ LinksIn(g, pos)[ni] = PeerIn(g, pos, ni)
  BY DEF NI, LinksIn
<1>2. InGrid(g, pos, b) /\ c # NULL /\ a # NULL /\ PeerIn(g, pos, ni) = <<a, Opposite[d]>>
  BY <1>1 DEF PeerIn
<1>3. pos[b] \in Cell /\ g[pos[b]] = b
  BY <1>1, <1>2 DEF InGrid
<1>4. /\ c \in Cell /\ a \in Block /\ Opposite[d] \in Dir
      /\ NeighborCell[c][Opposite[d]] = pos[b]
      /\ Opposite[Opposite[d]] = d
  BY <1>1, <1>2, <1>3, TopologyAssumption
<1>. HIDE DEF a, b, c, d
<1>5. a = g[c] /\ pos[a] = c
  BY <1>2, <1>4 DEF a
<1>6. InGrid(g, pos, a)
  BY <1>2, <1>4, <1>5, TopologyAssumption DEF InGrid
<1>7. b # NULL
  BY <1>1, TopologyAssumption
<1>8. PeerIn(g, pos, <<a, Opposite[d]>>) = <<b, d>>
  BY <1>3, <1>4, <1>5, <1>6, <1>7, TopologyAssumption DEF PeerIn
<1>9. <<a, Opposite[d]>> \in NI
  BY <1>4 DEF NI
<1>10. QED BY <1>1, <1>2, <1>8, <1>9 DEF LinksIn

-----------------------------------------------------------------------------
(* Linking: what the loops of linkBlock and linkNeighbors leave.           *)

(* The notices are events.                                                 *)
LEMMA NoticeEvents ==
  /\ NoticeEvent \subseteq EventType
  /\ \A n \in NoticeEvent : n.kind \in {"AddNeighbor", "RemoveNeighbor"}
  /\ \A ni \in NI, k \in {"AddNeighbor", "RemoveNeighbor"} : Note(k, ni) \in NoticeEvent
BY DEF NoticeEvent, EventType, InterfaceEventKind, Note, Event

(* connect() makes links of links, whatever interfaces it is given.        *)
LEMMA ConnectType ==
  ASSUME NEW w \in Linkage, NEW ni \in NI, NEW nj \in NI \cup {NULL}
  PROVE  /\ Connect[<<w, ni, nj>>] = IF nj = NULL THEN Part(w, ni) ELSE Join(w, ni, nj)
         /\ Connect[<<w, ni, nj>>] \in Linkage
<1>1. Connect[<<w, ni, nj>>] = IF nj = NULL THEN Part(w, ni) ELSE Join(w, ni, nj)
  <2>1. <<w, ni, nj>> \in Linkage \X NI \X (NI \cup {NULL})
    OBVIOUS
  <2>. QED BY <2>1 DEF Connect
<1>2. /\ w.links \in [NI -> NI \cup {NULL}] /\ w.notices \in Seq(NoticeEvent)
      /\ w = [links |-> w.links, notices |-> w.notices] /\ NULL \notin NI
  BY TopologyAssumption DEF Linkage
<1>3. Part(w, ni) \in Linkage
  <2>1. CASE w.links[ni] = NULL
    BY <2>1 DEF Part
  <2>2. CASE w.links[ni] # NULL
    <3>1. <<Note("RemoveNeighbor", ni), Note("RemoveNeighbor", w.links[ni])>> \in Seq(NoticeEvent)
      BY <1>2, <2>2, NoticeEvents
    <3>2. w.notices \o <<Note("RemoveNeighbor", ni), Note("RemoveNeighbor", w.links[ni])>>
            \in Seq(NoticeEvent)
      BY <1>2, <3>1, ConcatProperties
    <3>3. [w.links EXCEPT ![w.links[ni]] = NULL, ![ni] = NULL] \in [NI -> NI \cup {NULL}]
      BY <1>2
    <3>. QED BY <2>2, <3>2, <3>3 DEF Part, Linkage
  <2>. QED BY <2>1, <2>2
<1>4. ASSUME nj \in NI
      PROVE  Join(w, ni, nj) \in Linkage
  <2>1. CASE w.links[nj] = ni
    <3>1. [w.links EXCEPT ![ni] = nj] \in [NI -> NI \cup {NULL}]
      BY <1>2
    <3>2. Join(w, ni, nj) = [links |-> [w.links EXCEPT ![ni] = nj], notices |-> w.notices]
      BY <1>2, <2>1 DEF Join
    <3>. QED BY <1>2, <3>1, <3>2 DEF Linkage
  <2>2. CASE w.links[nj] # ni
    <3>. DEFINE old == IF w.links[nj] = NULL THEN <<>>
                       ELSE <<Note("RemoveNeighbor", w.links[nj]), Note("RemoveNeighbor", nj)>>
                new == <<Note("AddNeighbor", ni), Note("AddNeighbor", nj)>>
    <3>1. old \in Seq(NoticeEvent)
      <4>1. w.links[nj] # NULL => w.links[nj] \in NI
        BY <1>2, <1>4
      <4>. QED BY <1>4, <4>1, NoticeEvents
    <3>2. new \in Seq(NoticeEvent)
      BY <1>4, NoticeEvents
    <3>3. [w.links EXCEPT ![nj] = ni, ![ni] = nj] \in [NI -> NI \cup {NULL}]
      BY <1>2, <1>4
    <3>4. Join(w, ni, nj) = [links |-> [w.links EXCEPT ![nj] = ni, ![ni] = nj],
                             notices |-> w.notices \o old \o new]
      BY <2>2 DEF Join
    <3>. HIDE DEF old, new
    <3>5. w.notices \o old \o new \in Seq(NoticeEvent)
      BY <1>2, <3>1, <3>2, ConcatProperties
    <3>. QED BY <3>3, <3>4, <3>5 DEF Linkage
  <2>. QED BY <2>1, <2>2
<1>. QED BY <1>1, <1>3, <1>4

GridTyped(g) == g \in [Cell -> Block \cup {NULL}]

(* The interfaces that linkBlock goes through, and those they face.        *)
LEMMA FaceType ==
  ASSUME NEW g, GridTyped(g), NEW c \in Cell, g[c] # NULL, NEW d \in Dir
  PROVE  <<g[c], d>> \in NI /\ FaceAt(g, c, d) \in NI \cup {NULL}
<1>1. g[c] \in Block /\ Opposite[d] \in Dir /\ NeighborCell[c][d] \in Cell \cup {NULL}
  BY TopologyAssumption DEF GridTyped
<1>2. HasBlock(g, NeighborCell[c][d]) => g[NeighborCell[c][d]] \in Block
  BY <1>1 DEF HasBlock, GridTyped
<1>. QED BY <1>1, <1>2 DEF FaceAt, NI

(* The links after each turn of linkBlock.                                 *)
AreLinks(f, w, g, c) ==
  /\ f \in [0..Len(DirOrder) -> Linkage]
  /\ f[0] = w
  /\ \A i \in 1..Len(DirOrder) :
       f[i] = Connect[<<f[i - 1], <<g[c], DirOrder[i]>>, FaceAt(g, c, DirOrder[i])>>]

(* linkBlock gives the last of them.                                       *)
LEMMA LinkBlockDef ==
  ASSUME NEW g, GridTyped(g), NEW c \in Cell, g[c] # NULL, NEW w \in Linkage
  PROVE  \E f : AreLinks(f, w, g, c) /\ LinkBlock(w, g, c) = f[Len(DirOrder)]
<1>. DEFINE N == Len(DirOrder)
            Is(f) == f = [i \in 0..N |-> IF i = 0 THEN w
                            ELSE Connect[<<f[i - 1], <<g[c], DirOrder[i]>>, FaceAt(g, c, DirOrder[i])>>]]
            turn == [x \in Linkage \X (1..N) |->
                       Connect[<<x[1], <<g[c], DirOrder[x[2]]>>, FaceAt(g, c, DirOrder[x[2]])>>]]
            f == CHOOSE h : Is(h)
<1>1. N \in Nat /\ \A i \in 1..N : DirOrder[i] \in Dir
  BY TopologyAssumption
<1>2. ASSUME NEW v \in Linkage, NEW i \in 1..N
      PROVE  Connect[<<v, <<g[c], DirOrder[i]>>, FaceAt(g, c, DirOrder[i])>>] \in Linkage
  <2>1. <<g[c], DirOrder[i]>> \in NI /\ FaceAt(g, c, DirOrder[i]) \in NI \cup {NULL}
    BY <1>1, FaceType
  <2>. QED BY <2>1, ConnectType
<1>3. turn \in [Linkage \X (1..N) -> Linkage]
  BY <1>2
<1>4. \A v \in Linkage, i \in 1..N :
        turn[<<v, i>>] = Connect[<<v, <<g[c], DirOrder[i]>>, FaceAt(g, c, DirOrder[i])>>]
  OBVIOUS
<1>. HIDE DEF turn
<1>5. PICK h : IsLoop(h, Linkage, N, w, turn)
  BY <1>1, <1>3, LoopExists
<1>6. Is(h)
  <2>1. h \in [0..N -> Linkage] /\ h[0] = w /\ \A i \in 1..N : h[i] = turn[<<h[i - 1], i>>]
    BY <1>5 DEF IsLoop
  <2>2. ASSUME NEW i \in 0..N
        PROVE  h[i] = IF i = 0 THEN w
                      ELSE Connect[<<h[i - 1], <<g[c], DirOrder[i]>>, FaceAt(g, c, DirOrder[i])>>]
    <3>1. CASE i = 0
      BY <2>1, <3>1
    <3>2. CASE i # 0
      <4>1. i \in 1..N /\ i - 1 \in 0..N
        BY <1>1, <3>2
      <4>. QED BY <1>4, <2>1, <3>2, <4>1
    <3>. QED BY <3>1, <3>2
  <2>. QED BY <2>1, <2>2
<1>7. Is(f)
  <2>. HIDE DEF Is
  <2>. QED BY <1>6
<1>8. LinkBlock(w, g, c) = f[N]
  BY DEF LinkBlock
<1>. HIDE DEF f
<1>9. f[0] = w /\ \A i \in 1..N :
        f[i] = Connect[<<f[i - 1], <<g[c], DirOrder[i]>>, FaceAt(g, c, DirOrder[i])>>]
  <2>1. 0 \in 0..N /\ \A i \in 1..N : i \in 0..N /\ i # 0
    BY <1>1
  <2>2. \A i \in 0..N : f[i] =
          IF i = 0 THEN w
          ELSE Connect[<<f[i - 1], <<g[c], DirOrder[i]>>, FaceAt(g, c, DirOrder[i])>>]
    BY <1>7
  <2>. HIDE DEF N
  <2>. QED BY <2>1, <2>2
<1>10. \A i \in 0..N : f[i] \in Linkage
  <2>. DEFINE T == {i \in 0..N : f[i] \in Linkage}
  <2>1. 0 \in T
    BY <1>1, <1>9
  <2>2. ASSUME NEW i \in 1..N, i - 1 \in T
        PROVE  i \in T
    <3>1. i \in 0..N /\ f[i - 1] \in Linkage
      BY <1>1, <2>2
    <3>. QED BY <1>2, <1>9, <3>1
  <2>. HIDE DEF T
  <2>3. \A i \in 0..N : i \in T
    BY <1>1, <2>1, <2>2, Counting
  <2>. QED BY <2>3 DEF T
<1>11. f \in [0..N -> Linkage]
  BY <1>7, <1>10
<1>. QED BY <1>8, <1>9, <1>11 DEF AreLinks

(* The links after each cell of a loop over cells.                         *)
AreCellLinks(f, w, g, cells) ==
  /\ f \in [0..Len(cells) -> Linkage]
  /\ f[0] = w
  /\ \A i \in 1..Len(cells) :
       f[i] = IF HasBlock(g, cells[i]) THEN LinkBlock(f[i - 1], g, cells[i]) ELSE f[i - 1]

(* The loop gives the last of them.                                        *)
LEMMA LinkCellsDef ==
  ASSUME NEW g, GridTyped(g), NEW w \in Linkage, NEW cells \in Seq(Cell \cup {NULL})
  PROVE  \E f : AreCellLinks(f, w, g, cells) /\ LinkCells(w, g, cells) = f[Len(cells)]
<1>. DEFINE N == Len(cells)
            Turn(v, i) == IF HasBlock(g, cells[i]) THEN LinkBlock(v, g, cells[i]) ELSE v
            Is(f) == f = [i \in 0..N |-> IF i = 0 THEN w
                            ELSE IF HasBlock(g, cells[i]) THEN LinkBlock(f[i - 1], g, cells[i])
                            ELSE f[i - 1]]
            turn == [x \in Linkage \X (1..N) |-> Turn(x[1], x[2])]
            f == CHOOSE h : Is(h)
<1>1. N \in Nat /\ \A i \in 1..N : cells[i] \in Cell \cup {NULL}
  OBVIOUS
<1>2. ASSUME NEW v \in Linkage, NEW i \in 1..N
      PROVE  Turn(v, i) \in Linkage
  <2>1. ASSUME HasBlock(g, cells[i])
        PROVE  LinkBlock(v, g, cells[i]) \in Linkage
    <3>1. cells[i] \in Cell /\ g[cells[i]] # NULL
      BY <1>1, <2>1 DEF HasBlock
    <3>2. PICK h : AreLinks(h, v, g, cells[i]) /\ LinkBlock(v, g, cells[i]) = h[Len(DirOrder)]
      BY <3>1, LinkBlockDef
    <3>3. Len(DirOrder) \in 0..Len(DirOrder)
      BY TopologyAssumption
    <3>. QED BY <3>2, <3>3 DEF AreLinks
  <2>. QED BY <2>1
<1>3. turn \in [Linkage \X (1..N) -> Linkage]
  BY <1>2
<1>4. \A v \in Linkage, i \in 1..N :
        turn[<<v, i>>] = IF HasBlock(g, cells[i]) THEN LinkBlock(v, g, cells[i]) ELSE v
  OBVIOUS
<1>. HIDE DEF turn
<1>5. PICK h : IsLoop(h, Linkage, N, w, turn)
  BY <1>1, <1>3, LoopExists
<1>6. Is(h)
  <2>1. h \in [0..N -> Linkage] /\ h[0] = w /\ \A i \in 1..N : h[i] = turn[<<h[i - 1], i>>]
    BY <1>5 DEF IsLoop
  <2>2. ASSUME NEW i \in 0..N
        PROVE  h[i] = IF i = 0 THEN w
                      ELSE IF HasBlock(g, cells[i]) THEN LinkBlock(h[i - 1], g, cells[i])
                      ELSE h[i - 1]
    <3>1. CASE i = 0
      BY <2>1, <3>1
    <3>2. CASE i # 0
      <4>1. i \in 1..N /\ i - 1 \in 0..N
        BY <1>1, <3>2
      <4>. QED BY <1>4, <2>1, <3>2, <4>1
    <3>. QED BY <3>1, <3>2
  <2>. QED BY <2>1, <2>2
<1>7. Is(f)
  <2>. HIDE DEF Is
  <2>. QED BY <1>6
<1>8. LinkCells(w, g, cells) = f[N]
  BY DEF LinkCells
<1>. HIDE DEF f
<1>9. f[0] = w /\ \A i \in 1..N :
        f[i] = IF HasBlock(g, cells[i]) THEN LinkBlock(f[i - 1], g, cells[i]) ELSE f[i - 1]
  BY <1>1, <1>7
<1>10. \A i \in 0..N : f[i] \in Linkage
  <2>. DEFINE T == {i \in 0..N : f[i] \in Linkage}
  <2>1. 0 \in T
    BY <1>1, <1>9
  <2>2. ASSUME NEW i \in 1..N, i - 1 \in T
        PROVE  i \in T
    <3>1. i \in 0..N /\ f[i - 1] \in Linkage
      BY <1>1, <2>2
    <3>. QED BY <1>2, <1>9, <3>1
  <2>. HIDE DEF T
  <2>3. \A i \in 0..N : i \in T
    BY <1>1, <2>1, <2>2, Counting
  <2>. QED BY <2>3 DEF T
<1>11. f \in [0..N -> Linkage]
  BY <1>7, <1>10
<1>. QED BY <1>8, <1>9, <1>11 DEF AreCellLinks

(* Whatever the links were, linking gives links, and schedules notices.    *)
LEMMA LinkingType ==
  ASSUME NEW g, GridTyped(g), NEW l \in [NI -> NI \cup {NULL}],
         NEW cells \in Seq(Cell \cup {NULL})
  PROVE  /\ Linking(l, g, cells).links \in [NI -> NI \cup {NULL}]
         /\ Linking(l, g, cells).notices \in Seq(NoticeEvent)
<1>1. [links |-> l, notices |-> <<>>] \in Linkage
  BY DEF Linkage
<1>2. PICK f : /\ AreCellLinks(f, [links |-> l, notices |-> <<>>], g, cells)
               /\ Linking(l, g, cells) = f[Len(cells)]
  BY <1>1, LinkCellsDef DEF Linking
<1>3. Len(cells) \in 0..Len(cells)
  OBVIOUS
<1>4. Linking(l, g, cells) \in Linkage
  BY <1>2, <1>3 DEF AreCellLinks
<1>. QED BY <1>4 DEF Linkage

(* The links of w are some of those of L.                                  *)
Follows(w, L) ==
  /\ w \in Linkage
  /\ \A ni \in NI :
       /\ w.links[ni] \in {NULL, L[ni]}
       /\ w.links[ni] # NULL => w.links[w.links[ni]] = ni

BothWays(L) ==
  /\ L \in [NI -> NI \cup {NULL}]
  /\ \A ni \in NI : L[ni] # NULL => L[L[ni]] = ni

Advances(w, v, L) == \A ni \in NI : w.links[ni] = L[ni] => v.links[ni] = L[ni]

(* connect() on an interface and the one it faces links both, even if the  *)
(* far end was first, and no others.                                       *)
LEMMA ConnectFollows ==
  ASSUME NEW L, BothWays(L), NEW w, Follows(w, L), NEW ni \in NI,
         NEW v, v = Connect[<<w, ni, L[ni]>>]
  PROVE  Follows(v, L) /\ Advances(w, v, L) /\ v.links[ni] = L[ni]
<1>1. /\ w \in Linkage /\ L \in [NI -> NI \cup {NULL}] /\ NULL \notin NI
      /\ w.links \in [NI -> NI \cup {NULL}]
  BY TopologyAssumption DEF Follows, BothWays, Linkage
<1>2. v = (IF L[ni] = NULL THEN Part(w, ni) ELSE Join(w, ni, L[ni])) /\ v \in Linkage
  BY <1>1, ConnectType
<1>3. CASE L[ni] = NULL
  <2>1. w.links[ni] = NULL
    BY <1>3 DEF Follows
  <2>2. v = w
    BY <1>2, <1>3, <2>1 DEF Part
  <2>. QED BY <1>3, <2>1, <2>2 DEF Advances
<1>4. CASE L[ni] # NULL
  <2>. DEFINE nj == L[ni]
  <2>1. nj \in NI /\ L[nj] = ni /\ v = Join(w, ni, nj)
    BY <1>1, <1>2, <1>4 DEF BothWays
  <2>2. w.links[nj] \in {NULL, ni}
    BY <2>1 DEF Follows
  <2>. HIDE DEF nj
  <2>3. v.links = [w.links EXCEPT ![nj] = ni, ![ni] = nj]
    <3>1. CASE w.links[nj] = ni
      <4>1. v.links = [w.links EXCEPT ![ni] = nj]
        BY <1>1, <2>1, <3>1 DEF Join, Linkage
      <4>. QED BY <1>1, <2>1, <3>1, <4>1
    <3>2. CASE w.links[nj] # ni
      BY <2>1, <3>2 DEF Join
    <3>. QED BY <3>1, <3>2
  <2>4. /\ v.links[ni] = nj
        /\ nj # ni => v.links[nj] = ni
        /\ \A x \in NI : x # ni /\ x # nj => v.links[x] = w.links[x]
    BY <1>1, <2>1, <2>3
  <2>5. v.links[nj] = ni
    BY <2>4
  <2>6. ASSUME NEW x \in NI
        PROVE  /\ v.links[x] \in {NULL, L[x]}
               /\ v.links[x] # NULL => v.links[v.links[x]] = x
               /\ w.links[x] = L[x] => v.links[x] = L[x]
    <3>1. CASE x = ni \/ x = nj
      BY <2>1, <2>4, <2>5, <3>1 DEF nj
    <3>2. CASE x # ni /\ x # nj
      <4>1. /\ v.links[x] = w.links[x] /\ w.links[x] \in {NULL, L[x]}
            /\ w.links[x] # NULL => w.links[w.links[x]] = x
        BY <2>4, <3>2 DEF Follows
      <4>2. ASSUME w.links[x] # NULL
            PROVE  v.links[w.links[x]] = x
        <5>1. w.links[x] \in NI /\ L[w.links[x]] = x
          BY <1>1, <4>1, <4>2 DEF BothWays
        <5>2. w.links[x] # ni /\ w.links[x] # nj
          BY <2>1, <3>2, <5>1 DEF nj
        <5>. QED BY <2>4, <4>1, <4>2, <5>1, <5>2
      <4>. QED BY <4>1, <4>2
    <3>. QED BY <3>1, <3>2
  <2>7. v.links[ni] = L[ni]
    BY <2>4 DEF nj
  <2>8. Follows(v, L)
    BY <1>2, <2>6 DEF Follows
  <2>. QED BY <2>6, <2>7, <2>8 DEF Advances
<1>. QED BY <1>3, <1>4

(* Where g has the blocks, pos has them too.                               *)
Agree(g, pos) ==
  /\ GridTyped(g)
  /\ pos \in [Block -> Cell \cup {NULL}]
  /\ \A c \in Cell : g[c] # NULL => pos[g[c]] = c

(* The links of a lattice go both ways.                                    *)
LEMMA LatticeLinks ==
  ASSUME NEW g, NEW pos, Agree(g, pos)
  PROVE  BothWays(LinksIn(g, pos))
<1>. DEFINE L == LinksIn(g, pos)
<1>1. \A ni \in NI : L[ni] # NULL => L[ni] \in NI /\ L[L[ni]] = ni
  BY LinksAreSymmetric DEF Agree, GridTyped
<1>2. L = [ni \in NI |-> PeerIn(g, pos, ni)]
  BY DEF LinksIn
<1>. HIDE DEF L
<1>3. \A ni \in NI : L[ni] \in NI \cup {NULL}
  BY <1>1
<1>4. L \in [NI -> NI \cup {NULL}]
  BY <1>2, <1>3
<1>5. BothWays(L)
  BY <1>1, <1>4 DEF BothWays
<1>. QED BY <1>5 DEF L

(* The face linkBlock finds is the one the lattice calls for.              *)
LEMMA FaceIsPeer ==
  ASSUME NEW g, NEW pos, Agree(g, pos), NEW c \in Cell, g[c] # NULL, NEW d \in Dir
  PROVE  FaceAt(g, c, d) = LinksIn(g, pos)[<<g[c], d>>]
<1>. DEFINE ni == <<g[c], d>>
<1>1. /\ g[c] \in Block /\ pos[g[c]] = c /\ c # NULL /\ ni \in NI
      /\ ni[1] = g[c] /\ ni[2] = d
  BY TopologyAssumption DEF Agree, GridTyped, NI
<1>2. LinksIn(g, pos)[ni] = PeerIn(g, pos, ni)
  BY <1>1 DEF LinksIn
<1>3. InGrid(g, pos, ni[1]) /\ NeighborCell[pos[ni[1]]][ni[2]] = NeighborCell[c][d]
  BY <1>1 DEF InGrid
<1>. QED BY <1>1, <1>2, <1>3 DEF FaceAt, HasBlock, PeerIn

(* linkBlock links the block of its cell as the lattice calls for.         *)
LEMMA LinkBlockFollows ==
  ASSUME NEW g, NEW pos, Agree(g, pos), NEW c \in Cell, g[c] # NULL,
         NEW L, L = LinksIn(g, pos), NEW w, Follows(w, L), NEW v, v = LinkBlock(w, g, c)
  PROVE  Follows(v, L) /\ Advances(w, v, L) /\ \A d \in Dir : v.links[<<g[c], d>>] = L[<<g[c], d>>]
<1>. DEFINE N == Len(DirOrder)
<1>1. PICK f : AreLinks(f, w, g, c) /\ v = f[N]
  BY LinkBlockDef DEF Agree, Follows
<1>2. /\ N \in Nat /\ \A i \in 1..N : DirOrder[i] \in Dir
      /\ \A d \in Dir : \E i \in 1..N : DirOrder[i] = d
  BY TopologyAssumption
<1>3. f[0] = w /\ \A i \in 1..N :
        /\ <<g[c], DirOrder[i]>> \in NI
        /\ f[i] = Connect[<<f[i - 1], <<g[c], DirOrder[i]>>, L[<<g[c], DirOrder[i]>>]>>]
  <2>1. GridTyped(g) /\ \A i \in 1..N : DirOrder[i] \in Dir
    BY <1>2 DEF Agree
  <2>2. \A i \in 1..N : /\ <<g[c], DirOrder[i]>> \in NI
                        /\ FaceAt(g, c, DirOrder[i]) = L[<<g[c], DirOrder[i]>>]
    BY <2>1, FaceIsPeer, FaceType
  <2>. QED BY <1>1, <2>2 DEF AreLinks
<1>4. BothWays(L)
  BY LatticeLinks
<1>. DEFINE T == {i \in 0..N : /\ Follows(f[i], L) /\ Advances(w, f[i], L)
                               /\ \A j \in 1..i : f[i].links[<<g[c], DirOrder[j]>>]
                                                    = L[<<g[c], DirOrder[j]>>]}
<1>. HIDE DEF N
<1>5. 0 \in T
  BY <1>2, <1>3 DEF Advances
<1>6. ASSUME NEW i \in 1..N, i - 1 \in T
      PROVE  i \in T
  <2>. DEFINE u == f[i - 1]
              ni == <<g[c], DirOrder[i]>>
  <2>1. /\ Follows(u, L) /\ Advances(w, u, L) /\ ni \in NI
        /\ \A j \in 1..(i - 1) : u.links[<<g[c], DirOrder[j]>>] = L[<<g[c], DirOrder[j]>>]
        /\ f[i] = Connect[<<u, ni, L[ni]>>]
    BY <1>3, <1>6
  <2>. HIDE DEF u
  <2>2. Follows(f[i], L) /\ Advances(u, f[i], L) /\ f[i].links[ni] = L[ni]
    BY <1>4, <2>1, ConnectFollows
  <2>3. Advances(w, f[i], L)
    BY <2>1, <2>2 DEF Advances
  <2>4. ASSUME NEW j \in 1..i
        PROVE  f[i].links[<<g[c], DirOrder[j]>>] = L[<<g[c], DirOrder[j]>>]
    <3>1. i \in Nat /\ (j = i \/ j \in 1..(i - 1)) /\ j \in 1..N
      BY <1>2
    <3>2. CASE j = i
      BY <2>2, <3>2
    <3>3. CASE j \in 1..(i - 1)
      BY <1>3, <2>1, <2>2, <3>1, <3>3 DEF Advances
    <3>. QED BY <3>1, <3>2, <3>3
  <2>5. i \in 0..N
    BY <1>2
  <2>. QED BY <2>2, <2>3, <2>4, <2>5
<1>. HIDE DEF T
<1>7. N \in T
  BY <1>2, <1>5, <1>6, Counting
<1>. QED BY <1>1, <1>2, <1>7 DEF T

(* A loop over cells that has the cell of every block which is not linked  *)
(* as the lattice calls for leaves the links of the lattice.               *)
LEMMA LinkingFollows ==
  ASSUME NEW g, NEW pos, Agree(g, pos), NEW L, L = LinksIn(g, pos),
         NEW l \in [NI -> NI \cup {NULL}], NEW cells \in Seq(Cell \cup {NULL}),
         \A ni \in NI : /\ l[ni] \in {NULL, L[ni]}
                        /\ l[ni] # NULL => l[l[ni]] = ni,
         \A ni \in NI : \/ l[ni] = L[ni]
                        \/ \E i \in DOMAIN cells : HasBlock(g, cells[i]) /\ g[cells[i]] = ni[1]
  PROVE  Linking(l, g, cells).links = L
<1>. DEFINE w == [links |-> l, notices |-> <<>>]
            N == Len(cells)
<1>1. w \in Linkage /\ w.links = l
  BY DEF Linkage
<1>2. PICK f : AreCellLinks(f, w, g, cells) /\ Linking(l, g, cells) = f[N]
  BY <1>1, LinkCellsDef DEF Linking, Agree
<1>3. N \in Nat /\ DOMAIN cells = 1..N /\ \A i \in 1..N : cells[i] \in Cell \cup {NULL}
  OBVIOUS
<1>4. Follows(w, L)
  BY <1>1 DEF Follows
<1>. DEFINE T == {i \in 0..N : /\ Follows(f[i], L) /\ Advances(w, f[i], L)
                               /\ \A j \in 1..i, d \in Dir : HasBlock(g, cells[j]) =>
                                    f[i].links[<<g[cells[j]], d>>] = L[<<g[cells[j]], d>>]}
<1>. HIDE DEF w, N
<1>5. 0 \in T
  BY <1>2, <1>3, <1>4 DEF AreCellLinks, Advances
<1>6. ASSUME NEW i \in 1..N, i - 1 \in T
      PROVE  i \in T
  <2>. DEFINE u == f[i - 1]
              c == cells[i]
  <2>1. /\ Follows(u, L) /\ Advances(w, u, L) /\ c \in Cell \cup {NULL}
        /\ \A j \in 1..(i - 1), d \in Dir : HasBlock(g, cells[j]) =>
             u.links[<<g[cells[j]], d>>] = L[<<g[cells[j]], d>>]
        /\ f[i] = IF HasBlock(g, c) THEN LinkBlock(u, g, c) ELSE u
    BY <1>2, <1>3, <1>6 DEF AreCellLinks, N
  <2>2. /\ i \in 0..N /\ i \in Nat
        /\ \A j \in 1..i : (j = i \/ j \in 1..(i - 1)) /\ j \in 1..N
    BY <1>3
  <2>. HIDE DEF u
  <2>3. CASE ~HasBlock(g, c)
    BY <2>1, <2>2, <2>3
  <2>4. CASE HasBlock(g, c)
    <3>1. c \in Cell /\ g[c] # NULL /\ f[i] = LinkBlock(u, g, c)
      BY <2>1, <2>4 DEF HasBlock
    <3>. HIDE DEF c
    <3>2. /\ Follows(f[i], L) /\ Advances(u, f[i], L)
          /\ \A d \in Dir : f[i].links[<<g[c], d>>] = L[<<g[c], d>>]
      BY <2>1, <3>1, LinkBlockFollows
    <3>3. Advances(w, f[i], L)
      BY <2>1, <3>2 DEF Advances
    <3>4. ASSUME NEW j \in 1..i, NEW d \in Dir, HasBlock(g, cells[j])
          PROVE  f[i].links[<<g[cells[j]], d>>] = L[<<g[cells[j]], d>>]
      <4>1. CASE j = i
        BY <3>2, <4>1 DEF c
      <4>2. CASE j \in 1..(i - 1)
        <5>1. cells[j] \in Cell /\ g[cells[j]] # NULL
          BY <1>3, <2>2, <3>4 DEF HasBlock
        <5>2. <<g[cells[j]], d>> \in NI
          BY <5>1 DEF Agree, GridTyped, NI
        <5>. QED BY <2>1, <3>2, <3>4, <4>2, <5>2 DEF Advances
      <4>. QED BY <2>2, <4>1, <4>2
    <3>. QED BY <2>2, <3>2, <3>3, <3>4
  <2>. QED BY <2>3, <2>4
<1>. HIDE DEF T
<1>7. N \in T
  <2>1. N \in Nat /\ N \in 0..N
    BY <1>3
  <2>2. \A i \in 0..N : i \in T
    BY <1>5, <1>6, <2>1, Counting
  <2>. QED BY <2>1, <2>2
<1>. DEFINE v == f[N]
<1>8. /\ Follows(v, L) /\ Advances(w, v, L)
      /\ \A j \in 1..N, d \in Dir : HasBlock(g, cells[j]) =>
           v.links[<<g[cells[j]], d>>] = L[<<g[cells[j]], d>>]
  BY <1>7 DEF T
<1>. HIDE DEF v
<1>9. ASSUME NEW ni \in NI
      PROVE  v.links[ni] = L[ni]
  <2>1. CASE l[ni] = L[ni]
    BY <1>1, <1>8, <2>1 DEF Advances
  <2>2. CASE \E i \in DOMAIN cells : HasBlock(g, cells[i]) /\ g[cells[i]] = ni[1]
    <3>1. PICK i \in 1..N : HasBlock(g, cells[i]) /\ g[cells[i]] = ni[1]
      BY <1>3, <2>2
    <3>2. ni[2] \in Dir /\ ni = <<ni[1], ni[2]>>
      BY DEF NI
    <3>. QED BY <1>8, <3>1, <3>2
  <2>. QED BY <2>1, <2>2
<1>10. v.links \in [NI -> NI \cup {NULL}] /\ L \in [NI -> NI \cup {NULL}]
  BY <1>8, LatticeLinks DEF Follows, Linkage, BothWays
<1>11. v.links = L
  BY <1>9, <1>10
<1>. QED BY <1>2, <1>11 DEF v

-----------------------------------------------------------------------------
(* Cutting and joining on the lattice. *)

(* The grid without b, the links it had cut at both ends. *)
Cuts(b) ==
  /\ connectedInterface' =
       [ni \in NI |-> IF ni \in CutInterfaces(b) THEN NULL ELSE connectedInterface[ni]]
  /\ grid' = [grid EXCEPT ![position[b]] = NULL]
  /\ position' = position

LatticeTyped ==
  /\ connectedInterface \in [NI -> NI \cup {NULL}]
  /\ grid \in [Cell -> Block \cup {NULL}]
  /\ position \in [Block -> Cell \cup {NULL}]

(* The interfaces that lose their link with b: both ends of each.          *)
LEMMA CutsAre ==
  ASSUME connectedInterface \in [NI -> NI \cup {NULL}], NEW b \in Block
  PROVE  /\ CutInterfaces(b) \in SUBSET NI
         /\ LinksMatchLattice => \A ni \in NI :
              ni \in CutInterfaces(b) <=>
                Linked(ni) /\ (ni[1] = b \/ connectedInterface[ni][1] = b)
<1>. DEFINE own == {ni \in NI : ni[1] = b /\ Linked(ni)}
<1>1. CutInterfaces(b) = own \cup {connectedInterface[ni] : ni \in own}
  BY DEF CutInterfaces
<1>2. \A ni \in own : connectedInterface[ni] \in NI
  BY DEF Linked
<1>3. ASSUME LinksMatchLattice, NEW ni \in NI
      PROVE  ni \in CutInterfaces(b) <=>
               Linked(ni) /\ (ni[1] = b \/ connectedInterface[ni][1] = b)
  <2>1. \A nj \in NI : Linked(nj) =>
          /\ connectedInterface[nj] \in NI /\ connectedInterface[connectedInterface[nj]] = nj
          /\ nj # NULL
    BY <1>3, TopologyAssumption DEF LinksMatchLattice, Linked
  <2>2. ASSUME ni \in CutInterfaces(b)
        PROVE  Linked(ni) /\ (ni[1] = b \/ connectedInterface[ni][1] = b)
    <3>1. CASE ni \in own
      BY <3>1
    <3>2. CASE ni \notin own
      <4>1. PICK nj \in own : ni = connectedInterface[nj]
        BY <1>1, <2>2, <3>2
      <4>. QED BY <2>1, <4>1 DEF Linked
    <3>. QED BY <3>1, <3>2
  <2>3. ASSUME Linked(ni), ni[1] = b \/ connectedInterface[ni][1] = b
        PROVE  ni \in CutInterfaces(b)
    <3>1. CASE ni[1] = b
      BY <1>1, <2>3, <3>1
    <3>2. CASE ni[1] # b
      <4>1. /\ connectedInterface[ni] \in own
            /\ connectedInterface[connectedInterface[ni]] = ni
        BY <2>1, <2>3, <3>2, TopologyAssumption DEF Linked
      <4>. QED BY <1>1, <4>1
    <3>. QED BY <3>1, <3>2
  <2>. QED BY <2>2, <2>3
<1>. QED BY <1>1, <1>2, <1>3

(* A block that leaves the grid takes its links with it, and no others.    *)
LEMMA CutsFollowTheLattice ==
  ASSUME LatticeTyped, GridMatchesPositions, LinksMatchLattice,
         NEW b \in Block, InGrid(grid, position, b), Cuts(b)
  PROVE  /\ LatticeTyped' /\ GridMatchesPositions' /\ LinksMatchLattice'
         /\ \A x \in Cell : grid'[x] # b
         /\ \A x \in Cell : grid'[x] = grid[x] \/ grid'[x] = NULL
         /\ \A a \in Block : a # b => (InGrid(grid', position', a) <=> InGrid(grid, position, a))
<1>1. /\ position[b] \in Cell /\ grid[position[b]] = b
      /\ \A x \in Cell : grid[x] = b => x = position[b]
      /\ b # NULL /\ NULL \notin Cell
  BY TopologyAssumption DEF InGrid, LatticeTyped, GridMatchesPositions
<1>2. /\ grid' \in [Cell -> Block \cup {NULL}]
      /\ connectedInterface' \in [NI -> NI \cup {NULL}]
      /\ position' = position /\ position \in [Block -> Cell \cup {NULL}]
      /\ grid'[position[b]] = NULL
      /\ \A x \in Cell : x # position[b] => grid'[x] = grid[x]
  BY <1>1 DEF Cuts, LatticeTyped
<1>3. \A x \in Cell : grid'[x] # b /\ (grid'[x] = grid[x] \/ grid'[x] = NULL)
  BY <1>1, <1>2
<1>4. GridMatchesPositions'
  BY <1>2, <1>3 DEF GridMatchesPositions
<1>5. ASSUME NEW a \in Block, a # b
      PROVE  InGrid(grid', position', a) <=> InGrid(grid, position, a)
  <2>1. position'[a] = position[a] /\ position[a] \in Cell \cup {NULL} /\ a # NULL
    BY <1>2, TopologyAssumption
  <2>2. CASE position[a] = NULL
    BY <2>1, <2>2 DEF InGrid
  <2>3. CASE position[a] \in Cell
    BY <1>1, <1>2, <1>5, <2>1, <2>3 DEF InGrid
  <2>4. QED BY <2>1, <2>2, <2>3
<1>6. ~InGrid(grid', position', b)
  BY <1>1, <1>2 DEF InGrid
<1>0. \A ni \in NI : ni \in CutInterfaces(b) <=>
        Linked(ni) /\ (ni[1] = b \/ connectedInterface[ni][1] = b)
  BY CutsAre DEF LatticeTyped
<1>7. ASSUME NEW ni \in NI
      PROVE  connectedInterface'[ni] = PeerIn(grid', position', ni)
  <2>. DEFINE a == ni[1]
              x == NeighborCell[position[a]][ni[2]]
  <2>1. a \in Block /\ ni[2] \in Dir /\ position[a] \in Cell \cup {NULL}
    BY <1>2 DEF NI
  <2>2. /\ connectedInterface[ni] = PeerIn(grid, position, ni)
        /\ connectedInterface'[ni] =
             IF ni \in CutInterfaces(b) THEN NULL ELSE connectedInterface[ni]
    BY DEF Cuts, LinksMatchLattice, LinksIn
  <2>3. CASE a = b
    <3>1. connectedInterface'[ni] = NULL
      BY <1>0, <2>2, <2>3 DEF Linked
    <3>2. QED BY <1>6, <2>3, <3>1 DEF PeerIn
  <2>4. CASE a # b /\ ~InGrid(grid, position, a)
    BY <1>5, <2>1, <2>2, <2>4 DEF PeerIn
  <2>5. CASE a # b /\ InGrid(grid, position, a)
    <3>0. position[a] \in Cell
      BY <2>1, <2>5 DEF InGrid
    <3>1. position[a] \in Cell /\ (x = NULL \/ x \in Cell) /\ InGrid(grid', position', a)
      <4>1. x \in Cell \cup {NULL}
        BY <2>1, <3>0, TopologyAssumption
      <4>. HIDE DEF x
      <4>2. InGrid(grid', position', a)
        BY <1>5, <2>1, <2>5
      <4>. QED BY <3>0, <4>1, <4>2
    <3>2. CASE x = NULL
      BY <1>2, <2>2, <3>2 DEF PeerIn
    <3>3. CASE x # NULL /\ x = position[b]
      <4>1. connectedInterface[ni] = <<b, Opposite[ni[2]]>>
        BY <1>1, <2>2, <2>5, <3>3 DEF PeerIn
      <4>2. connectedInterface[ni][1] = b /\ connectedInterface[ni] # NULL
        BY <2>1, <4>1, TopologyAssumption DEF NI
      <4>3. ni \in CutInterfaces(b)
        BY <1>0, <4>2 DEF Linked
      <4>4. PeerIn(grid', position', ni) = NULL
        BY <1>2, <3>3 DEF PeerIn
      <4>5. QED BY <2>2, <4>3, <4>4
    <3>4. CASE x # NULL /\ x # position[b]
      <4>1. x \in Cell /\ grid'[x] = grid[x] /\ grid[x] # b
        BY <1>1, <1>2, <3>1, <3>4
      <4>2. PeerIn(grid', position', ni) = PeerIn(grid, position, ni)
        BY <1>2, <2>5, <3>1, <4>1 DEF PeerIn
      <4>3. connectedInterface[ni] # NULL => connectedInterface[ni][1] = grid[x]
        BY <2>2 DEF PeerIn
      <4>4. ni \notin CutInterfaces(b)
        BY <1>0, <2>5, <4>1, <4>3 DEF Linked
      <4>5. QED BY <2>2, <4>2, <4>4
    <3>5. QED BY <3>1, <3>2, <3>3, <3>4
  <2>6. QED BY <2>3, <2>4, <2>5
<1>8. connectedInterface' = LinksIn(grid', position')
  BY <1>2, <1>7 DEF LinksIn
<1>9. \A ni \in NI : connectedInterface'[ni] # NULL =>
        connectedInterface'[connectedInterface'[ni]] = ni
  <2>1. \A x \in Cell : grid'[x] # NULL => position'[grid'[x]] = x
    BY <1>4 DEF GridMatchesPositions
  <2>2. QED BY <1>2, <1>8, <2>1, LinksAreSymmetric
<1>. QED BY <1>2, <1>3, <1>4, <1>5, <1>8, <1>9 DEF LatticeTyped, LinksMatchLattice

(* The cells of linkNeighbors. *)
LEMMA AroundCells ==
  ASSUME NEW c \in Cell
  PROVE  /\ Around(c) \in Seq(Cell \cup {NULL})
         /\ \E i \in DOMAIN Around(c) : Around(c)[i] = c
         /\ \A d \in Dir : \E i \in DOMAIN Around(c) : Around(c)[i] = NeighborCell[c][d]
<1>. DEFINE n == [i \in DOMAIN DirOrder |-> NeighborCell[c][DirOrder[i]]]
            N == Len(DirOrder)
<1>1. /\ N \in Nat /\ DOMAIN DirOrder = 1..N /\ \A i \in 1..N : DirOrder[i] \in Dir
      /\ \A d \in Dir : \E i \in 1..N : DirOrder[i] = d
      /\ \A d \in Dir : NeighborCell[c][d] \in Cell \cup {NULL}
  BY TopologyAssumption
<1>2. n \in Seq(Cell \cup {NULL}) /\ Len(n) = N /\ \A i \in 1..N : n[i] = NeighborCell[c][DirOrder[i]]
  BY <1>1
<1>3. Around(c) = <<c>> \o n /\ <<c>> \in Seq(Cell \cup {NULL}) /\ Len(<<c>>) = 1
  BY DEF Around
<1>. HIDE DEF n, N
<1>4. /\ Around(c) \in Seq(Cell \cup {NULL}) /\ Len(Around(c)) = N + 1
      /\ Around(c)[1] = c /\ \A i \in 1..N : Around(c)[i + 1] = n[i]
  BY <1>1, <1>2, <1>3
<1>5. DOMAIN Around(c) = 1..(N + 1)
  BY <1>1, <1>4
<1>6. 1 \in 1..(N + 1) /\ \A i \in 1..N : i + 1 \in 1..(N + 1)
  BY <1>1
<1>7. \E i \in DOMAIN Around(c) : Around(c)[i] = c
  BY <1>4, <1>5, <1>6
<1>8. ASSUME NEW d \in Dir
      PROVE  \E i \in DOMAIN Around(c) : Around(c)[i] = NeighborCell[c][d]
  <2>1. PICK i \in 1..N : DirOrder[i] = d
    BY <1>1
  <2>2. i + 1 \in DOMAIN Around(c) /\ Around(c)[i + 1] = NeighborCell[c][d]
    BY <1>2, <1>4, <1>5, <1>6, <2>1
  <2>. QED BY <2>2
<1>. QED BY <1>4, <1>7, <1>8

(* The block b in cell c, which was free. *)
Arrival(b, c, g, pos) ==
  /\ b \in Block /\ c \in Cell
  /\ grid[c] = NULL
  /\ \A x \in Cell : grid[x] # b
  /\ g = [grid EXCEPT ![c] = b]
  /\ pos = [position EXCEPT ![b] = c]

(* Linking the cells around a block that arrives gives the links of the    *)
(* lattice, if the links were those of the lattice before.                 *)
LEMMA ArrivalLinks ==
  ASSUME LatticeTyped, GridMatchesPositions, LinksMatchLattice,
         NEW b, NEW c, NEW g, NEW pos, Arrival(b, c, g, pos)
  PROVE  Linking(connectedInterface, g, Around(c)).links = LinksIn(g, pos)
<1>. DEFINE L == LinksIn(g, pos)
<1>1. /\ g[c] = b /\ pos[b] = c /\ b # NULL /\ c # NULL /\ b \in Block /\ c \in Cell
      /\ \A x \in Cell : x # c => g[x] = grid[x]
      /\ \A a \in Block : a # b => pos[a] = position[a]
      /\ g \in [Cell -> Block \cup {NULL}] /\ pos \in [Block -> Cell \cup {NULL}]
  BY TopologyAssumption DEF Arrival, LatticeTyped
<1>2. Agree(g, pos)
  BY <1>1 DEF Agree, GridTyped, GridMatchesPositions, Arrival, LatticeTyped
<1>3. ASSUME NEW ni \in NI
      PROVE  \/ connectedInterface[ni] = L[ni]
             \/ /\ connectedInterface[ni] = NULL
                /\ \E i \in DOMAIN Around(c) :
                     HasBlock(g, Around(c)[i]) /\ g[Around(c)[i]] = ni[1]
  <2>. DEFINE a == ni[1]
              d == ni[2]
              x == NeighborCell[position[a]][d]
  <2>1. /\ a \in Block /\ a # NULL /\ d \in Dir /\ position[a] \in Cell \cup {NULL}
        /\ connectedInterface[ni] = PeerIn(grid, position, ni) /\ L[ni] = PeerIn(g, pos, ni)
    BY TopologyAssumption DEF NI, LatticeTyped, LinksMatchLattice, LinksIn
  <2>2. CASE a = b
    <3>1. connectedInterface[ni] = NULL
      BY <2>1, <2>2 DEF PeerIn, InGrid, Arrival
    <3>. QED BY <1>1, <2>2, <3>1, AroundCells DEF HasBlock
  <2>3. CASE a # b /\ ~InGrid(grid, position, a)
    <3>1. pos[a] = position[a]
      BY <1>1, <2>1, <2>3
    <3>2. ~InGrid(g, pos, a)
      BY <1>1, <2>1, <2>3, <3>1 DEF InGrid
    <3>. QED BY <2>1, <2>3, <3>2 DEF PeerIn
  <2>4. CASE a # b /\ InGrid(grid, position, a)
    <3>1. /\ pos[a] = position[a] /\ position[a] \in Cell /\ grid[position[a]] = a
          /\ position[a] # c /\ g[position[a]] = a
          /\ x \in Cell \cup {NULL}
      BY <1>1, <2>1, <2>4, TopologyAssumption DEF InGrid, Arrival
    <3>2. InGrid(g, pos, a)
      BY <2>1, <3>1, TopologyAssumption DEF InGrid
    <3>3. CASE x = c
      <4>1. connectedInterface[ni] = NULL
        BY <2>1, <3>3 DEF PeerIn, Arrival
      <4>2. Opposite[d] \in Dir /\ position[a] = NeighborCell[c][Opposite[d]]
        BY <1>1, <2>1, <3>1, <3>3, TopologyAssumption
      <4>3. PICK i \in DOMAIN Around(c) : Around(c)[i] = position[a]
        BY <1>1, <4>2, AroundCells
      <4>4. HasBlock(g, position[a]) /\ g[position[a]] = a
        BY <2>1, <3>1, TopologyAssumption DEF HasBlock
      <4>. QED BY <4>1, <4>3, <4>4
    <3>4. CASE x # c
      <4>1. x # NULL => g[x] = grid[x]
        BY <1>1, <3>1, <3>4
      <4>. QED BY <2>1, <2>4, <3>1, <3>2, <4>1 DEF PeerIn
    <3>. QED BY <3>3, <3>4
  <2>. QED BY <2>2, <2>3, <2>4
<1>4. connectedInterface \in [NI -> NI \cup {NULL}] /\ Around(c) \in Seq(Cell \cup {NULL})
  BY <1>1, AroundCells DEF LatticeTyped
<1>5. \A ni \in NI : /\ connectedInterface[ni] \in {NULL, L[ni]}
                     /\ connectedInterface[ni] # NULL =>
                          connectedInterface[connectedInterface[ni]] = ni
  BY <1>3 DEF LinksMatchLattice
<1>6. \A ni \in NI :
        \/ connectedInterface[ni] = L[ni]
        \/ \E i \in DOMAIN Around(c) : HasBlock(g, Around(c)[i]) /\ g[Around(c)[i]] = ni[1]
  BY <1>3
<1>. HIDE DEF L
<1>. QED BY <1>2, <1>4, <1>5, <1>6, LinkingFollows DEF L

(* The grid with b in c, and the links it calls for. *)
Joins(b, c) ==
  /\ position' = [position EXCEPT ![b] = c]
  /\ grid' = [grid EXCEPT ![c] = b]
  /\ connectedInterface' = LinksIn(grid', position')

(* A block that enters the grid in a free cell is linked to its neighbours, *)
(* at both ends, and disturbs nobody.                                      *)
LEMMA JoinsFollowTheLattice ==
  ASSUME LatticeTyped, GridMatchesPositions,
         NEW b \in Block, NEW c \in Cell, grid[c] = NULL,
         \A x \in Cell : grid[x] # b, Joins(b, c)
  PROVE  /\ LatticeTyped' /\ GridMatchesPositions' /\ LinksMatchLattice'
         /\ \A x \in Cell : x # c => grid'[x] = grid[x]
         /\ grid'[c] = b /\ position'[b] = c
         /\ \A a \in Block : a # b => position'[a] = position[a]
         /\ \A a \in Block : InGrid(grid, position, a) => InGrid(grid', position', a)
<1>1. /\ grid' \in [Cell -> Block \cup {NULL}] /\ grid'[c] = b
      /\ \A x \in Cell : x # c => grid'[x] = grid[x]
      /\ position' \in [Block -> Cell \cup {NULL}] /\ position'[b] = c
      /\ \A a \in Block : a # b => position'[a] = position[a]
      /\ c # NULL /\ b # NULL /\ grid \in [Cell -> Block \cup {NULL}]
  BY TopologyAssumption DEF Joins, LatticeTyped
<1>2. \A x \in Cell : grid'[x] # NULL => position'[grid'[x]] = x
  BY <1>1 DEF GridMatchesPositions
<1>3. \A ni \in NI : LinksIn(grid', position')[ni] # NULL =>
        /\ LinksIn(grid', position')[ni] \in NI
        /\ LinksIn(grid', position')[LinksIn(grid', position')[ni]] = ni
  BY <1>1, <1>2, LinksAreSymmetric
<1>4. connectedInterface' = LinksIn(grid', position')
  BY DEF Joins
<1>5. connectedInterface' \in [NI -> NI \cup {NULL}]
  BY <1>3, <1>4 DEF LinksIn
<1>6. \A a \in Block : InGrid(grid, position, a) => InGrid(grid', position', a)
  <2>1. ASSUME NEW a \in Block, InGrid(grid, position, a)
        PROVE  InGrid(grid', position', a)
    <3>1. position[a] \in Cell /\ grid[position[a]] = a /\ a # NULL
      BY <2>1, TopologyAssumption DEF InGrid, LatticeTyped
    <3>2. a # b /\ position[a] # c
      BY <3>1
    <3>3. QED BY <1>1, <3>1, <3>2, TopologyAssumption DEF InGrid
  <2>2. QED BY <2>1
<1>. QED BY <1>1, <1>2, <1>3, <1>4, <1>5, <1>6
     DEF LatticeTyped, GridMatchesPositions, LinksMatchLattice

(* Only notices are scheduled when links change.                           *)
LEMMA NoticesKeep ==
  ASSUME NEW q \in [Time -> Seq(EventType)], NEW t \in Time, NEW ns \in Seq(NoticeEvent)
  PROVE  Keeps(NoticeEvent, t, q, ScheduleAll(q, t, t, ns))
<1>1. t \in Nat /\ ns \in Seq(EventType)
  BY NoticeEvents, MaximumDateAssumption DEF Time
<1>2. \A i \in DOMAIN ns : ns[i] \in NoticeEvent
  OBVIOUS
<1>. QED BY <1>1, <1>2, ScheduleAllKeeps

(* What the stop of a motion into a free cell does.                        *)
LEMMA ArrivalEffect ==
  ASSUME NEW t, NEW e, NEW q, TranslationStop(t, e, q),
         e.on \in Block, e.arg \in Cell, grid[e.arg] = NULL, \A x \in Cell : grid[x] # e.on,
         LatticeTyped, GridMatchesPositions, LinksMatchLattice
  PROVE  /\ Joins(e.on, e.arg)
         /\ UNCHANGED <<interfaceVars, localEventsList, codeVars, exited>>
         /\ \E ns \in Seq(NoticeEvent) :
              eventsMap' = Schedule(ScheduleAll(q, t, t, ns), t, t + EndDelay,
                                    Event("TranslationEnd", e.on, NULL))
<1>. DEFINE g == [grid EXCEPT ![e.arg] = e.on]
            w == Linking(connectedInterface, g, Around(e.arg))
<1>1. /\ position' = [position EXCEPT ![e.on] = e.arg]
      /\ grid' = g
      /\ connectedInterface' = w.links
      /\ eventsMap' = Schedule(ScheduleAll(q, t, t, w.notices), t, t + EndDelay,
                               Event("TranslationEnd", e.on, NULL))
      /\ UNCHANGED <<interfaceVars, localEventsList, codeVars, exited>>
  BY DEF TranslationStop
<1>2. Arrival(e.on, e.arg, grid', position')
  BY <1>1 DEF Arrival
<1>3. connectedInterface' = LinksIn(grid', position')
  BY <1>1, <1>2, ArrivalLinks
<1>4. w.notices \in Seq(NoticeEvent)
  <2>1. GridTyped(g) /\ connectedInterface \in [NI -> NI \cup {NULL}]
    BY DEF GridTyped, LatticeTyped
  <2>2. Around(e.arg) \in Seq(Cell \cup {NULL})
    BY AroundCells
  <2>. HIDE DEF g
  <2>. QED BY <2>1, <2>2, LinkingType
<1>. QED BY <1>1, <1>3, <1>4 DEF Joins

(* The start of a motion, which cuts links, keeps the invariant.           *)
LEMMA TranslationStartKeepsIInv ==
  ASSUME NEW t, NEW e, NEW q, Step(t, e, q), TranslationStart(t, e, q)
  PROVE  IInv'
<1>. DEFINE b == e.on
            c == e.arg
            new == Motion("TranslationStop", b, c)
            X == ({e} \cup OfKind("RemoveNeighbor")) \cup {new}
<1>1. /\ t \in Time /\ t \in Nat /\ now' = t /\ TypeOK /\ now \in Nat /\ now <= t
      /\ MaximumDate \in Nat /\ t <= MaximumDate
      /\ q \in [Time -> Seq(EventType)] /\ Pending(eventsMap, e)
      /\ e \in EventType /\ Keeps({e}, t, eventsMap, q)
      /\ \A x : OnlyAt(eventsMap, e, x) => x = t /\ ~Pending(q, e)
      /\ \A f : OnlyAt(eventsMap, f, now) => OnlyAt(eventsMap, f, t)
      /\ \A f : OnlyAt(eventsMap, f, now) /\ Pending(eventsMap, f) => t = now
  BY FirstEvent DEF Step, IInv, First
<1>2. /\ b \in Block /\ c \in Cell /\ e = Motion("TranslationStart", b, c)
      /\ new \in EventType /\ new # e
  <2>1. e.kind = "TranslationStart" /\ e.kind \in MotionKind
    BY DEF TranslationStart, MotionKind
  <2>2. b \in Block /\ c \in Cell /\ e = Motion("TranslationStart", b, c)
    BY <1>1, <2>1, EventShape DEF Motion
  <2>3. new # e
    BY <2>1 DEF Motion, Event
  <2>4. QED BY <2>2, <2>3, EventTypes DEF MotionKind
<1>3. Exclusive("TranslationStart", b, c)
  BY <1>1, <1>2 DEF Step, IInv, MotionsAreExclusive, MotionKind
<1>4. /\ ~Pending(q, e) /\ grid[c] = NULL
      /\ position[b] \in Cell /\ grid[position[b]] = b
      /\ \A x \in Cell : grid[x] = b => x = position[b]
      /\ \A k \in MotionKind, a \in Block, x \in Cell :
           (a = b \/ x = c) /\ Pending(eventsMap, Motion(k, a, x)) =>
             k = "TranslationStart" /\ a = b /\ x = c
  <2>1. ~Pending(q, e) /\ grid[c] = NULL
    BY <1>1, <1>2, <1>3 DEF Exclusive
  <2>2. position[b] \in Cell /\ grid[position[b]] = b
    BY <1>1, <1>2, <1>3 DEF Exclusive, InGrid, TypeOK
  <2>3. \A x \in Cell : grid[x] = b => x = position[b]
    BY <1>2, TopologyAssumption DEF Step, IInv, GridMatchesPositions
  <2>4. QED BY <1>3, <2>1, <2>2, <2>3 DEF Exclusive
<1>5. PICK duration \in MotionTime :
        eventsMap' = Schedule(ScheduleAll(q, t, t, Notices("RemoveNeighbor", CutInterfaces(b))),
                              t, t + duration, new)
  BY DEF TranslationStart, StopDate, Motion
<1>6. /\ duration \in Nat /\ t < t + duration
      /\ \A d \in TransmissionTime : t + d < t + duration
  <2>1. duration \in Nat /\ TransmissionTime \subseteq Nat
    BY TimingAssumption
  <2>2. \A d \in TransmissionTime : d < duration
    BY MotionsAreSlower
  <2>3. PICK d \in TransmissionTime : d < duration
    BY <2>2, TimingAssumption
  <2>4. d \in Nat
    BY <2>1
  <2>5. t < t + duration
    BY <1>1, <2>1, <2>3, <2>4
  <2>6. \A x \in TransmissionTime : x \in Nat /\ x < duration => t + x < t + duration
    BY <1>1, <2>1
  <2>7. QED BY <2>1, <2>2, <2>5, <2>6
<1>7. /\ connectedInterface' =
           [ni \in NI |-> IF ni \in CutInterfaces(b) THEN NULL ELSE connectedInterface[ni]]
      /\ outgoingQueue' =
           [ni \in NI |-> IF ni \in CutInterfaces(b) THEN <<>> ELSE outgoingQueue[ni]]
      /\ grid' = [grid EXCEPT ![position[b]] = NULL]
      /\ UNCHANGED <<position, messageBeingTransmitted, availabilityDate,
                     localEventsList, codeVars, exited>>
  BY DEF TranslationStart, DisconnectBlock
<1>. HIDE DEF b, c, new
<1>8. /\ Keeps(X, t, eventsMap, eventsMap')
      /\ Pending(eventsMap', new) <=> t + duration <= MaximumDate
      /\ OnlyAt(eventsMap', new, t + duration)
  <2>. DEFINE r == ScheduleAll(q, t, t, Notices("RemoveNeighbor", CutInterfaces(b)))
  <2>1. CutInterfaces(b) \in SUBSET NI
    BY <1>1, <1>2, CutsAre DEF TypeOK
  <2>2. Keeps(OfKind("RemoveNeighbor"), t, q, r)
    BY <1>1, <2>1, NoticesType, ScheduleAllKeeps
  <2>3. Keeps({e} \cup OfKind("RemoveNeighbor"), t, eventsMap, r)
    BY <1>1, <2>2, KeepsTrans
  <2>4. ~Pending(r, new)
    <3>1. ~Pending(eventsMap, new)
      BY <1>2, <1>4 DEF new, MotionKind
    <3>2. new \notin {e} \cup OfKind("RemoveNeighbor")
      BY <1>2 DEF OfKind, new, Motion, Event
    <3>3. QED BY <2>3, <3>1, <3>2 DEF Keeps
  <2>5. r \in [Time -> Seq(EventType)] /\ eventsMap' = Schedule(r, t, t + duration, new)
    BY <1>5, <2>2 DEF Keeps
  <2>. HIDE DEF r
  <2>6. /\ Keeps({new}, t, r, eventsMap')
        /\ Pending(eventsMap', new) <=> t + duration \in t..MaximumDate
        /\ OnlyAt(eventsMap', new, t + duration)
    BY <1>1, <1>2, <1>6, <2>4, <2>5, ScheduleKeeps
  <2>7. Keeps(X, t, eventsMap, eventsMap')
    BY <2>3, <2>6, KeepsTrans
  <2>8. QED BY <1>1, <1>6, <2>6, <2>7
<1>9. /\ \A ni \in NI : Start(ni) \notin X /\ Stop(ni) \notin X
      /\ \A a \in Block : Process(a) \notin X
      /\ \A k \in MotionKind, a \in Block, x \in Cell :
           Motion(k, a, x) \in X => a = b /\ x = c
  BY <1>2 DEF OfKind, Start, Stop, Process, new, Motion, Event, MotionKind
<1>. HIDE DEF X
<1>10. ~Pending(eventsMap', e)
  <2>1. e \notin OfKind("RemoveNeighbor") \cup {new}
    BY <1>2 DEF OfKind, Motion, Event
  <2>. DEFINE r == ScheduleAll(q, t, t, Notices("RemoveNeighbor", CutInterfaces(b)))
  <2>2. Keeps(OfKind("RemoveNeighbor"), t, q, r)
    BY <1>1, <1>2, CutsAre, NoticesType, ScheduleAllKeeps DEF TypeOK
  <2>6. /\ r \in [Time -> Seq(EventType)] /\ t + duration \in Nat
        /\ eventsMap' = Schedule(r, t, t + duration, new)
    BY <1>1, <1>5, <1>6, <2>2 DEF Keeps
  <2>. HIDE DEF r
  <2>3. Keeps({new}, t, r, eventsMap')
    BY <1>1, <1>2, <2>6, ScheduleKeeps
  <2>4. Keeps(OfKind("RemoveNeighbor") \cup {new}, t, q, eventsMap')
    BY <2>2, <2>3, KeepsTrans
  <2>5. QED BY <1>4, <2>1, <2>4 DEF Keeps
<1>11. TypeOK'
  <2>1. now' \in Time /\ eventsMap' \in [Time -> Seq(EventType)]
    BY <1>8, KeptPast
  <2>2. /\ connectedInterface' \in [NI -> NI \cup {NULL}]
        /\ outgoingQueue' \in [NI -> Seq(Msg)]
        /\ grid' \in [Cell -> Block \cup {NULL}]
    BY <1>1, <1>4, <1>7 DEF TypeOK
  <2>3. QED BY <1>1, <1>7, <2>1, <2>2 DEF TypeOK, codeVars
<1>12. NoFatalError'
  BY <1>7 DEF NoFatalError, Step, IInv
<1>13. NothingOverdue'
  BY <1>8, KeptPast
<1>14. ASSUME NEW ni \in NI
       PROVE  OneStop(ni)' /\ Near(ni)' /\ Served(ni)'
  <2>1. OneStop(ni) /\ Near(ni) /\ Served(ni) /\ availabilityDate[ni] \in Nat
    BY DEF Step, IInv, WireHasOneStop, AvailabilityIsNear, BufferIsServed, TypeOK
  <2>2. /\ Pending(eventsMap', Stop(ni)) <=> Pending(eventsMap, Stop(ni))
        /\ \A x : OnlyAt(eventsMap, Stop(ni), x) => OnlyAt(eventsMap', Stop(ni), x)
        /\ Pending(eventsMap', Start(ni)) <=> Pending(eventsMap, Start(ni))
        /\ \A x : OnlyAt(eventsMap, Start(ni), x) => OnlyAt(eventsMap', Start(ni), x)
    BY <1>8, <1>9 DEF Keeps
  <2>3. OneStop(ni)'
    BY <1>7, <2>1, <2>2 DEF OneStop, Stop, Event
  <2>4. Near(ni)'
    BY <1>1, <1>7, <2>1, TimingAssumption DEF Near
  <2>5. \/ connectedInterface'[ni] = NULL /\ outgoingQueue'[ni] = <<>>
        \/ /\ connectedInterface'[ni] = connectedInterface[ni]
           /\ outgoingQueue'[ni] = outgoingQueue[ni]
    BY <1>7
  <2>6. Served(ni)'
    BY <1>1, <1>7, <2>1, <2>2, <2>5 DEF Served, Start, Event
  <2>7. QED BY <2>3, <2>4, <2>6
<1>15. WireHasOneStop' /\ AvailabilityIsNear' /\ BufferIsServed'
  BY <1>14 DEF WireHasOneStop, AvailabilityIsNear, BufferIsServed
<1>16. LocalListIsServed' /\ RightReceiver'
  BY <1>7, <1>8, <1>9, KeptLists
<1>17. WireFollowsLink'
  BY <1>7 DEF WireFollowsLink, Step, IInv
<1>18. GridMatchesPositions' /\ LinksMatchLattice'
  <2>1. LatticeTyped /\ GridMatchesPositions /\ LinksMatchLattice
    BY DEF LatticeTyped, Step, IInv, TypeOK
  <2>2. InGrid(grid, position, b)
    BY <1>3 DEF Exclusive
  <2>3. Cuts(b)
    BY <1>7 DEF Cuts
  <2>4. QED BY <1>2, <2>1, <2>2, <2>3, CutsFollowTheLattice
<1>20. \A k \in MotionKind, a \in Block, x \in Cell :
         Pending(eventsMap', Motion(k, a, x)) =>
           \/ k = "TranslationStop" /\ a = b /\ x = c
           \/ /\ Pending(eventsMap, Motion(k, a, x)) /\ a # b /\ x # c
              /\ \A d : OnlyAt(eventsMap, Motion(k, a, x), d) =>
                       OnlyAt(eventsMap', Motion(k, a, x), d)
  <2>1. ASSUME NEW k \in MotionKind, NEW a \in Block, NEW x \in Cell,
               Pending(eventsMap', Motion(k, a, x)), Motion(k, a, x) \notin X
        PROVE  /\ Pending(eventsMap, Motion(k, a, x)) /\ a # b /\ x # c
               /\ \A d : OnlyAt(eventsMap, Motion(k, a, x), d) =>
                        OnlyAt(eventsMap', Motion(k, a, x), d)
    <3>1. /\ Pending(eventsMap, Motion(k, a, x))
          /\ \A d : OnlyAt(eventsMap, Motion(k, a, x), d) =>
                   OnlyAt(eventsMap', Motion(k, a, x), d)
      BY <1>8, <2>1 DEF Keeps
    <3>2. ~(k = "TranslationStart" /\ a = b /\ x = c)
      BY <1>2, <1>10, <2>1
    <3>3. QED BY <1>4, <3>1, <3>2
  <2>2. ASSUME NEW k \in MotionKind, NEW a \in Block, NEW x \in Cell,
               Pending(eventsMap', Motion(k, a, x)), Motion(k, a, x) \in X
        PROVE  k = "TranslationStop" /\ a = b /\ x = c
    <3>1. a = b /\ x = c
      BY <1>9, <2>2
    <3>2. k # "TranslationStart"
      BY <1>2, <1>10, <2>2, <3>1
    <3>3. QED BY <3>1, <3>2 DEF MotionKind
  <2>3. QED BY <2>1, <2>2
<1>21. \A x \in Cell : grid[x] = NULL => grid'[x] = NULL
  BY <1>1, <1>4, <1>7 DEF TypeOK
<1>22. MotionsAreExclusive'
  <2>1. ASSUME NEW k \in MotionKind, NEW a \in Block, NEW x \in Cell,
               Pending(eventsMap', Motion(k, a, x))
        PROVE  Exclusive(k, a, x)'
    <3>1. CASE k = "TranslationStop" /\ a = b /\ x = c
      <4>1. t + duration \in Time /\ OnlyAt(eventsMap', Motion(k, a, x), t + duration)
        BY <1>1, <1>6, <1>8, <2>1, <3>1 DEF Time, new
      <4>2. grid'[x] = NULL
        BY <1>4, <1>21, <3>1
      <4>3. \A y \in Cell : grid'[y] # b
        BY <1>1, <1>2, <1>4, <1>7, TopologyAssumption DEF TypeOK
      <4>4. \A l \in MotionKind, u \in Block, y \in Cell :
              (u = a \/ y = x) /\ Pending(eventsMap', Motion(l, u, y)) =>
                l = k /\ u = a /\ y = x
        BY <1>20, <3>1
      <4>5. QED BY <3>1, <4>1, <4>2, <4>3, <4>4 DEF Exclusive, Motion, Event
    <3>2. CASE Pending(eventsMap, Motion(k, a, x)) /\ a # b /\ x # c
      <4>1. Exclusive(k, a, x)
        BY <3>2 DEF Step, IInv, MotionsAreExclusive
      <4>2. PICK d \in Time : OnlyAt(eventsMap, Motion(k, a, x), d)
        BY <4>1 DEF Exclusive
      <4>3. OnlyAt(eventsMap', Motion(k, a, x), d)
        BY <1>20, <2>1, <3>2, <4>2
      <4>4. grid'[x] = NULL
        BY <1>21, <4>1 DEF Exclusive
      <4>5. InGrid(grid, position, a) => InGrid(grid', position', a)
        BY <1>1, <1>4, <1>7, <3>2 DEF InGrid, TypeOK
      <4>6. ASSUME \A y \in Cell : grid[y] # a
            PROVE  \A y \in Cell : grid'[y] # a
        BY <1>1, <1>4, <1>7, <4>6, TopologyAssumption DEF TypeOK
      <4>7. \A l \in MotionKind, u \in Block, y \in Cell :
              (u = a \/ y = x) /\ Pending(eventsMap', Motion(l, u, y)) =>
                l = k /\ u = a /\ y = x
        BY <1>20, <3>2, <4>1 DEF Exclusive
      <4>8. QED BY <4>1, <4>3, <4>4, <4>5, <4>6, <4>7 DEF Exclusive, Motion, Event
    <3>3. QED BY <1>20, <2>1, <3>1, <3>2
  <2>2. QED BY <2>1 DEF MotionsAreExclusive, Motion, Event
<1>23. ArrivalsFindQuietLinks'
  <2>. SUFFICES ASSUME NEW a \in Block, NEW x \in Cell, NEW d \in Time, NEW ni \in NI,
                       Pending(eventsMap', Motion("TranslationStop", a, x)),
                       OnlyAt(eventsMap', Motion("TranslationStop", a, x), d),
                       Watches(ni, a, x)'
                PROVE  Quiet(ni, d)'
    BY DEF ArrivalsFindQuietLinks, Motion, Event
  <2>1. /\ Pending(eventsMap', Start(ni)) => Pending(eventsMap, Start(ni)) /\ t = now
        /\ Near(ni) /\ OneStop(ni) /\ availabilityDate[ni] \in Nat
    <3>1. OnlyAt(eventsMap, Start(ni), now)
      BY DEF Step, IInv, BufferIsServed, Served
    <3>2. Pending(eventsMap', Start(ni)) => Pending(eventsMap, Start(ni))
      BY <1>8, <1>9 DEF Keeps
    <3>3. Near(ni) /\ OneStop(ni) /\ availabilityDate[ni] \in Nat
      BY DEF Step, IInv, AvailabilityIsNear, WireHasOneStop, TypeOK
    <3>4. QED BY <1>1, <3>1, <3>2, <3>3
  <2>2. CASE a = b /\ x = c
    <3>1. d = t + duration
      BY <1>8, <2>2, OneDate DEF new
    <3>2. ASSUME messageBeingTransmitted[ni] # NULL
          PROVE  availabilityDate[ni] < d
      <4>1. PICK y \in TransmissionTime : availabilityDate[ni] <= now + y
        BY <2>1, <3>2 DEF Near
      <4>2. y \in Nat /\ t + y < t + duration
        BY <1>6, <4>1, TimingAssumption
      <4>3. QED BY <1>1, <1>6, <2>1, <3>1, <4>1, <4>2
    <3>3. t < d
      BY <1>6, <3>1
    <3>4. QED BY <1>1, <1>7, <3>2, <3>3 DEF Quiet
  <2>3. CASE Pending(eventsMap, Motion("TranslationStop", a, x)) /\ a # b /\ x # c
    <3>1. PICK y \in Time : OnlyAt(eventsMap, Motion("TranslationStop", a, x), y)
      BY <2>3 DEF Step, IInv, MotionsAreExclusive, Exclusive, MotionKind
    <3>2. OnlyAt(eventsMap', Motion("TranslationStop", a, x), y)
      BY <1>20, <2>3, <3>1 DEF MotionKind
    <3>3. y = d
      BY <3>2, OneDate
    <3>4. InGrid(grid', position', ni[1]) => InGrid(grid, position, ni[1])
      BY <1>1, <1>4, <1>7, TopologyAssumption DEF InGrid, TypeOK, NI
    <3>5. Watches(ni, a, x)
      BY <1>7, <3>4 DEF Watches
    <3>6. Quiet(ni, d)
      BY <2>3, <3>1, <3>3, <3>5 DEF Step, IInv, ArrivalsFindQuietLinks
    <3>7. QED BY <1>1, <1>7, <2>1, <3>6 DEF Quiet, Start, Event
  <2>4. QED BY <1>20, <2>2, <2>3 DEF MotionKind
<1>. QED BY <1>11, <1>12, <1>13, <1>15, <1>16, <1>17, <1>18, <1>22, <1>23 DEF IInv

(* The stop of a motion, which makes links, keeps the invariant.           *)
LEMMA TranslationStopKeepsIInv ==
  ASSUME NEW t, NEW e, NEW q, Step(t, e, q), TranslationStop(t, e, q)
  PROVE  IInv'
<1>. DEFINE b == e.on
            c == e.arg
            end == Event("TranslationEnd", b, NULL)
            X == ({e} \cup NoticeEvent) \cup {end}
<1>1. /\ t \in Time /\ t \in Nat /\ now' = t /\ TypeOK /\ now \in Nat /\ now <= t
      /\ MaximumDate \in Nat /\ t <= MaximumDate
      /\ q \in [Time -> Seq(EventType)] /\ Pending(eventsMap, e)
      /\ e \in EventType /\ Keeps({e}, t, eventsMap, q)
      /\ \A x : OnlyAt(eventsMap, e, x) => x = t /\ ~Pending(q, e)
      /\ \A f : OnlyAt(eventsMap, f, now) => OnlyAt(eventsMap, f, t)
      /\ \A f : OnlyAt(eventsMap, f, now) /\ Pending(eventsMap, f) => t = now
      /\ \A f, x : OnlyAt(eventsMap, f, x) /\ Pending(eventsMap, f) => t <= x
  BY FirstEvent DEF Step, IInv, First
<1>2. /\ b \in Block /\ c \in Cell /\ e = Motion("TranslationStop", b, c)
      /\ end \in EventType
  <2>1. e.kind = "TranslationStop" /\ e.kind \in MotionKind
    BY DEF TranslationStop, MotionKind
  <2>2. b \in Block /\ c \in Cell /\ e = Motion("TranslationStop", b, c)
    BY <1>1, <2>1, EventShape DEF Motion
  <2>3. QED BY <2>2, EventTypes
<1>3. Exclusive("TranslationStop", b, c)
  BY <1>1, <1>2 DEF Step, IInv, MotionsAreExclusive, MotionKind
<1>4. /\ ~Pending(q, e) /\ OnlyAt(eventsMap, e, t) /\ grid[c] = NULL
      /\ \A x \in Cell : grid[x] # b
      /\ \A k \in MotionKind, a \in Block, x \in Cell :
           (a = b \/ x = c) /\ Pending(eventsMap, Motion(k, a, x)) =>
             k = "TranslationStop" /\ a = b /\ x = c
  <2>1. PICK d \in Time : OnlyAt(eventsMap, e, d)
    BY <1>2, <1>3 DEF Exclusive
  <2>2. d = t /\ ~Pending(q, e)
    BY <1>1, <2>1
  <2>3. QED BY <1>3, <2>1, <2>2 DEF Exclusive
<1>0. LatticeTyped /\ GridMatchesPositions /\ LinksMatchLattice
  BY DEF LatticeTyped, Step, IInv, TypeOK
<1>5. /\ Joins(b, c)
      /\ position' = [position EXCEPT ![b] = c]
      /\ grid' = [grid EXCEPT ![c] = b]
      /\ connectedInterface' = LinksIn(grid', position')
      /\ UNCHANGED <<interfaceVars, localEventsList, codeVars, exited>>
      /\ \E ns \in Seq(NoticeEvent) :
           eventsMap' = Schedule(ScheduleAll(q, t, t, ns), t, t + EndDelay, end)
  BY <1>0, <1>2, <1>4, ArrivalEffect DEF Joins
<1>. HIDE DEF b, c, end
<1>6. /\ Keeps(X, t, eventsMap, eventsMap')
      /\ ~Pending(eventsMap', e)
  <2>1. PICK ns \in Seq(NoticeEvent) :
          eventsMap' = Schedule(ScheduleAll(q, t, t, ns), t, t + EndDelay, end)
    BY <1>5
  <2>. DEFINE r == ScheduleAll(q, t, t, ns)
  <2>2. Keeps(NoticeEvent, t, q, r)
    BY <1>1, NoticesKeep
  <2>3. t + EndDelay \in Nat
    BY <1>1, TimingAssumption
  <2>10. r \in [Time -> Seq(EventType)] /\ eventsMap' = Schedule(r, t, t + EndDelay, end)
    BY <2>1, <2>2 DEF Keeps
  <2>. HIDE DEF r
  <2>4. Keeps({end}, t, r, eventsMap')
    BY <1>1, <1>2, <2>3, <2>10, ScheduleKeeps
  <2>5. Keeps(NoticeEvent \cup {end}, t, q, eventsMap')
    BY <2>2, <2>4, KeepsTrans
  <2>6. Keeps({e} \cup (NoticeEvent \cup {end}), t, eventsMap, eventsMap')
    BY <1>1, <2>5, KeepsTrans
  <2>7. {e} \cup (NoticeEvent \cup {end}) = X
    OBVIOUS
  <2>8. e \notin NoticeEvent \cup {end}
    BY <1>2, NoticeEvents DEF Motion, Event, end
  <2>9. QED BY <1>4, <2>5, <2>6, <2>7, <2>8 DEF Keeps
<1>7. /\ \A ni \in NI : Start(ni) \notin X /\ Stop(ni) \notin X
      /\ \A a \in Block : Process(a) \notin X
      /\ \A k \in MotionKind, a \in Block, x \in Cell :
           Motion(k, a, x) \in X => Motion(k, a, x) = e
  BY <1>2, NoticeEvents DEF Start, Stop, Process, Motion, Event, MotionKind, end
<1>. HIDE DEF X
<1>8. /\ grid' \in [Cell -> Block \cup {NULL}] /\ grid'[c] = b
      /\ \A x \in Cell : x # c => grid'[x] = grid[x]
      /\ position' \in [Block -> Cell \cup {NULL}] /\ position'[b] = c
      /\ \A a \in Block : a # b => position'[a] = position[a]
      /\ c # NULL /\ b # NULL
  BY <1>1, <1>2, <1>5, TopologyAssumption DEF TypeOK
<1>9. LatticeTyped' /\ GridMatchesPositions' /\ LinksMatchLattice'
  BY <1>0, <1>2, <1>4, <1>5, JoinsFollowTheLattice
<1>10. connectedInterface' \in [NI -> NI \cup {NULL}]
  BY <1>9 DEF LatticeTyped
<1>12. TypeOK'
  <2>1. now' \in Time /\ eventsMap' \in [Time -> Seq(EventType)]
    BY <1>6, KeptPast
  <2>2. QED BY <1>1, <1>5, <1>8, <1>10, <2>1 DEF TypeOK, interfaceVars, codeVars
<1>13. NoFatalError'
  BY <1>5 DEF NoFatalError, Step, IInv
<1>14. NothingOverdue'
  BY <1>6, KeptPast
<1>15. \A a \in Block : a # b =>
         (InGrid(grid', position', a) <=> InGrid(grid, position, a))
  BY <1>1, <1>4, <1>8, TopologyAssumption DEF InGrid, TypeOK
<1>16. ASSUME NEW ni \in NI, Watches(ni, b, c)
       PROVE  /\ messageBeingTransmitted[ni] = NULL
              /\ ~Pending(eventsMap, Start(ni))
              /\ connectedInterface[ni] = NULL
              /\ outgoingQueue[ni] = <<>>
  <2>1. Quiet(ni, t)
    BY <1>1, <1>2, <1>4, <1>16 DEF Step, IInv, ArrivalsFindQuietLinks
  <2>2. OneStop(ni) /\ Served(ni) /\ availabilityDate[ni] \in Nat
    BY <1>1 DEF Step, IInv, WireHasOneStop, BufferIsServed, TypeOK
  <2>3. messageBeingTransmitted[ni] = NULL
    BY <1>1, <2>1, <2>2 DEF Quiet, OneStop
  <2>4. ~Pending(eventsMap, Start(ni))
    BY <1>1, <2>1, <2>2 DEF Quiet, Served
  <2>5. connectedInterface[ni] = NULL
    BY <1>1, <1>2, <1>16, ArrivalsAreUnlinked DEF Step
  <2>6. QED BY <2>2, <2>3, <2>4, <2>5 DEF Served
<1>17. ASSUME NEW ni \in NI, ~Watches(ni, b, c)
       PROVE  connectedInterface'[ni] = connectedInterface[ni]
  <2>. DEFINE a == ni[1]
              x == NeighborCell[position[a]][ni[2]]
  <2>1. /\ a \in Block /\ a # b /\ ni[2] \in Dir
        /\ InGrid(grid, position, a) => x # c
    BY <1>17 DEF Watches, NI
  <2>2. /\ connectedInterface[ni] = PeerIn(grid, position, ni)
        /\ connectedInterface'[ni] = PeerIn(grid', position', ni)
    BY <1>5 DEF Step, IInv, LinksMatchLattice, LinksIn
  <2>3. position'[a] = position[a]
    BY <1>8, <2>1
  <2>4. CASE ~InGrid(grid, position, a)
    BY <1>15, <2>1, <2>2, <2>4 DEF PeerIn
  <2>5. CASE InGrid(grid, position, a)
    <3>1. x = NULL \/ x \in Cell
      BY <1>1, <2>1, <2>5, TopologyAssumption DEF InGrid, TypeOK
    <3>2. x # NULL => grid'[x] = grid[x]
      BY <1>8, <2>1, <2>5, <3>1
    <3>3. PeerIn(grid', position', ni) = PeerIn(grid, position, ni)
      BY <1>15, <2>1, <2>3, <2>5, <3>2 DEF PeerIn
    <3>4. QED BY <2>2, <3>3
  <2>6. QED BY <2>4, <2>5
<1>18. ASSUME NEW ni \in NI
       PROVE  OneStop(ni)' /\ Near(ni)' /\ Served(ni)'
  <2>1. OneStop(ni) /\ Near(ni) /\ Served(ni) /\ availabilityDate[ni] \in Nat
    BY <1>1 DEF Step, IInv, WireHasOneStop, AvailabilityIsNear, BufferIsServed, TypeOK
  <2>2. /\ Pending(eventsMap', Stop(ni)) <=> Pending(eventsMap, Stop(ni))
        /\ \A x : OnlyAt(eventsMap, Stop(ni), x) => OnlyAt(eventsMap', Stop(ni), x)
        /\ Pending(eventsMap', Start(ni)) <=> Pending(eventsMap, Start(ni))
        /\ \A x : OnlyAt(eventsMap, Start(ni), x) => OnlyAt(eventsMap', Start(ni), x)
    BY <1>6, <1>7 DEF Keeps
  <2>3. OneStop(ni)'
    BY <1>5, <2>1, <2>2 DEF OneStop, Stop, Event, interfaceVars
  <2>4. Near(ni)'
    BY <1>1, <1>5, <2>1, TimingAssumption DEF Near, interfaceVars
  <2>5. CASE Watches(ni, b, c)
    <3>1. ~Pending(eventsMap', Start(ni)) /\ outgoingQueue'[ni] = <<>>
      BY <1>5, <1>16, <2>2, <2>5 DEF interfaceVars
    <3>2. Served(ni)'
      BY <3>1, NotPendingAnywhere DEF Served, Start, Event
    <3>3. QED BY <2>3, <2>4, <3>2
  <2>6. CASE ~Watches(ni, b, c)
    <3>1. connectedInterface'[ni] = connectedInterface[ni]
      BY <1>17, <2>6
    <3>2. Served(ni)'
      BY <1>1, <1>5, <2>1, <2>2, <3>1 DEF Served, Start, Event, interfaceVars
    <3>3. QED BY <2>3, <2>4, <3>2
  <2>7. QED BY <2>5, <2>6
<1>19. WireHasOneStop' /\ AvailabilityIsNear' /\ BufferIsServed'
  BY <1>18 DEF WireHasOneStop, AvailabilityIsNear, BufferIsServed
<1>20. LocalListIsServed' /\ RightReceiver'
  BY <1>5, <1>6, <1>7, KeptLists
<1>21. WireFollowsLink'
  <2>1. ASSUME NEW ni \in NI, messageBeingTransmitted[ni] # NULL
        PROVE  connectedInterface'[ni] \in {NULL, messageBeingTransmitted[ni].dst}
    <3>1. connectedInterface'[ni] = connectedInterface[ni]
      BY <1>16, <1>17, <2>1
    <3>2. QED BY <2>1, <3>1 DEF Step, IInv, WireFollowsLink
  <2>2. QED BY <1>5, <2>1 DEF WireFollowsLink, interfaceVars
<1>22. \A k \in MotionKind, a \in Block, x \in Cell :
         Pending(eventsMap', Motion(k, a, x)) =>
           /\ Pending(eventsMap, Motion(k, a, x)) /\ a # b /\ x # c
           /\ \A d : OnlyAt(eventsMap, Motion(k, a, x), d) =>
                    OnlyAt(eventsMap', Motion(k, a, x), d)
  <2>1. ASSUME NEW k \in MotionKind, NEW a \in Block, NEW x \in Cell,
               Pending(eventsMap', Motion(k, a, x))
        PROVE  /\ Pending(eventsMap, Motion(k, a, x)) /\ a # b /\ x # c
               /\ \A d : OnlyAt(eventsMap, Motion(k, a, x), d) =>
                        OnlyAt(eventsMap', Motion(k, a, x), d)
    <3>1. Motion(k, a, x) # e
      BY <1>6, <2>1
    <3>2. /\ Pending(eventsMap, Motion(k, a, x))
          /\ \A d : OnlyAt(eventsMap, Motion(k, a, x), d) =>
                   OnlyAt(eventsMap', Motion(k, a, x), d)
      BY <1>6, <1>7, <2>1, <3>1 DEF Keeps
    <3>3. QED BY <1>2, <1>4, <3>1, <3>2
  <2>2. QED BY <2>1
<1>23. MotionsAreExclusive'
  <2>1. ASSUME NEW k \in MotionKind, NEW a \in Block, NEW x \in Cell,
               Pending(eventsMap', Motion(k, a, x))
        PROVE  Exclusive(k, a, x)'
    <3>1. Pending(eventsMap, Motion(k, a, x)) /\ a # b /\ x # c
      BY <1>22, <2>1
    <3>2. Exclusive(k, a, x)
      BY <3>1 DEF Step, IInv, MotionsAreExclusive
    <3>3. PICK d \in Time : OnlyAt(eventsMap, Motion(k, a, x), d)
      BY <3>2 DEF Exclusive
    <3>4. OnlyAt(eventsMap', Motion(k, a, x), d)
      BY <1>22, <2>1, <3>3
    <3>5. grid'[x] = NULL
      BY <1>8, <3>1, <3>2 DEF Exclusive
    <3>6. k = "TranslationStart" => InGrid(grid', position', a)
      BY <1>15, <3>1, <3>2 DEF Exclusive
    <3>7. k = "TranslationStop" => \A y \in Cell : grid'[y] # a
      BY <1>8, <3>1, <3>2 DEF Exclusive
    <3>8. \A l \in MotionKind, u \in Block, y \in Cell :
            (u = a \/ y = x) /\ Pending(eventsMap', Motion(l, u, y)) =>
              l = k /\ u = a /\ y = x
      BY <1>22, <3>2 DEF Exclusive
    <3>9. QED BY <3>4, <3>5, <3>6, <3>7, <3>8 DEF Exclusive, Motion, Event
  <2>2. QED BY <2>1 DEF MotionsAreExclusive, Motion, Event
<1>24. ArrivalsFindQuietLinks'
  <2>. SUFFICES ASSUME NEW a \in Block, NEW x \in Cell, NEW d \in Time, NEW ni \in NI,
                       Pending(eventsMap', Motion("TranslationStop", a, x)),
                       OnlyAt(eventsMap', Motion("TranslationStop", a, x), d),
                       Watches(ni, a, x)'
                PROVE  Quiet(ni, d)'
    BY DEF ArrivalsFindQuietLinks, Motion, Event
  <2>1. /\ Pending(eventsMap, Motion("TranslationStop", a, x)) /\ a # b /\ x # c
        /\ \A y : OnlyAt(eventsMap, Motion("TranslationStop", a, x), y) =>
                 OnlyAt(eventsMap', Motion("TranslationStop", a, x), y)
    BY <1>22 DEF MotionKind
  <2>2. /\ Pending(eventsMap', Start(ni)) => Pending(eventsMap, Start(ni))
        /\ Pending(eventsMap, Start(ni)) => t = now
    <3>1. OnlyAt(eventsMap, Start(ni), now)
      BY DEF Step, IInv, BufferIsServed, Served
    <3>2. QED BY <1>1, <1>6, <1>7, <3>1 DEF Keeps
  <2>3. CASE Watches(ni, b, c)
    BY <1>5, <1>16, <2>2, <2>3 DEF Quiet, interfaceVars, Start, Event
  <2>4. CASE ~Watches(ni, b, c)
    <3>1. ni[1] \in Block /\ ni[1] # b
      BY <2>4 DEF Watches, NI
    <3>2. Watches(ni, a, x)
      BY <1>8, <1>15, <3>1 DEF Watches
    <3>3. PICK y \in Time : OnlyAt(eventsMap, Motion("TranslationStop", a, x), y)
      BY <2>1 DEF Step, IInv, MotionsAreExclusive, Exclusive, MotionKind
    <3>4. y = d
      BY <2>1, <3>3, OneDate
    <3>5. Quiet(ni, d)
      BY <2>1, <3>2, <3>3, <3>4 DEF Step, IInv, ArrivalsFindQuietLinks
    <3>6. QED BY <1>1, <1>5, <2>2, <3>5 DEF Quiet, interfaceVars, Start, Event
  <2>5. QED BY <2>3, <2>4
<1>. QED BY <1>9, <1>12, <1>13, <1>14, <1>19, <1>20, <1>21, <1>23, <1>24 DEF IInv

-----------------------------------------------------------------------------
(* The first linking of the blocks, cell by cell. *)
LEMMA InitialLinks ==
  LET L == InitialLinking
  IN  /\ InitialGrid \in [Cell -> Block \cup {NULL}]
      /\ \A c \in Cell : InitialGrid[c] # NULL => InitialCell[InitialGrid[c]] = c
      /\ L.links = LinksIn(InitialGrid, InitialCell)
      /\ L.notices \in Seq(NoticeEvent)
<1>. DEFINE l == [ni \in NI |-> NULL]
            g == InitialGrid
<1>1. ASSUME NEW c \in Cell
      PROVE  g[c] \in Block \cup {NULL} /\ (g[c] # NULL => InitialCell[g[c]] = c)
  BY DEF InitialGrid
<1>2. g \in [Cell -> Block \cup {NULL}]
  BY <1>1 DEF InitialGrid
<1>. HIDE DEF g
<1>3. GridTyped(g) /\ Agree(g, InitialCell)
  BY <1>1, <1>2, TopologyAssumption DEF GridTyped, Agree
<1>4. l \in [NI -> NI \cup {NULL}] /\ CellOrder \in Seq(Cell \cup {NULL})
  BY TopologyAssumption
<1>5. ASSUME NEW ni \in NI
      PROVE  \/ l[ni] = LinksIn(g, InitialCell)[ni]
             \/ \E i \in DOMAIN CellOrder :
                  HasBlock(g, CellOrder[i]) /\ g[CellOrder[i]] = ni[1]
  <2>1. CASE ~InGrid(g, InitialCell, ni[1])
    BY <2>1 DEF LinksIn, PeerIn
  <2>2. CASE InGrid(g, InitialCell, ni[1])
    <3>1. /\ ni[1] \in Block /\ ni[1] # NULL /\ InitialCell[ni[1]] \in Cell
          /\ InitialCell[ni[1]] # NULL /\ g[InitialCell[ni[1]]] = ni[1]
      BY <2>2, TopologyAssumption DEF InGrid, NI
    <3>2. PICK i \in DOMAIN CellOrder : CellOrder[i] = InitialCell[ni[1]]
      BY <3>1, TopologyAssumption
    <3>. QED BY <3>1, <3>2 DEF HasBlock
  <2>. QED BY <2>1, <2>2
<1>6. Linking(l, g, CellOrder).links = LinksIn(g, InitialCell)
  BY <1>3, <1>4, <1>5, LinkingFollows
<1>7. Linking(l, g, CellOrder).notices \in Seq(NoticeEvent)
  BY <1>3, <1>4, LinkingType
<1>8. InitialLinking = Linking(l, g, CellOrder)
  BY DEF InitialLinking, g
<1>. QED BY <1>1, <1>2, <1>6, <1>7, <1>8 DEF g

(* At the start only block codes and new neighbors are pending, all at     *)
(* date 0: no message is on a wire or in a list, and no motion is under    *)
(* way.                                                                    *)
LEMMA InitEvents ==
  ASSUME Init
  PROVE  /\ now = 0 /\ 0 \in Time /\ MaximumDate \in Nat
         /\ eventsMap \in [Time -> Seq(EventType)]
         /\ \A d \in Time : d # 0 => eventsMap[d] = <<>>
         /\ \A ni \in NI : ~Pending(eventsMap, Start(ni)) /\ ~Pending(eventsMap, Stop(ni))
         /\ \A b \in Block : ~Pending(eventsMap, Process(b))
         /\ \A k \in MotionKind, b \in Block, c \in Cell : ~Pending(eventsMap, Motion(k, b, c))
         /\ \A ni \in NI, m \in Msg : ~Pending(eventsMap, Event("EnqueueOutgoing", ni, m))
<1>. DEFINE S == {Event("CodeStart", b, NULL) : b \in {a \in Block : position[a] # NULL}}
            ns == InitialLinking.notices
            s == SetToSeq(S) \o ns
<1>1. /\ now = 0 /\ 0 \in Time /\ MaximumDate \in Nat
      /\ eventsMap = [d \in Time |-> IF d = 0 THEN s ELSE <<>>]
  BY MaximumDateAssumption DEF Init, Time
<1>2. /\ SetToSeq(S) \in Seq(EventType)
      /\ \A i \in DOMAIN SetToSeq(S) : SetToSeq(S)[i].kind = "CodeStart"
  <2>. DEFINE bs == {a \in Block : position[a] # NULL}
              f == [b \in bs |-> Event("CodeStart", b, NULL)]
  <2>1. IsFiniteSet(bs)
    BY FS_Subset, TopologyAssumption
  <2>2. f \in Surjection(bs, S)
    BY DEF Surjection
  <2>3. IsFiniteSet(S)
    BY <2>1, <2>2, FS_Surjection
  <2>4. SetToSeq(S) \in Seq(S)
    BY <2>3, SetToSeqType
  <2>5. S \subseteq EventType /\ \A e \in S : e.kind = "CodeStart"
    BY DEF EventType, Event, BlockEventKind
  <2>. HIDE DEF S
  <2>6. QED BY <2>4, <2>5
<1>3. /\ ns \in Seq(EventType)
      /\ \A i \in DOMAIN ns : ns[i].kind \in {"AddNeighbor", "RemoveNeighbor"}
  <2>1. ns \in Seq(NoticeEvent)
    BY InitialLinks
  <2>. HIDE DEF ns
  <2>. QED BY <2>1, NoticeEvents
<1>4. /\ s \in Seq(EventType)
      /\ \A i \in DOMAIN s : s[i].kind \in {"CodeStart", "AddNeighbor", "RemoveNeighbor"}
  <2>. DEFINE u == SetToSeq(S)
              v == ns
  <2>1. \A i \in DOMAIN v : v[i].kind \in {"AddNeighbor", "RemoveNeighbor"}
    BY <1>3
  <2>2. u \in Seq(EventType) /\ v \in Seq(EventType)
    BY <1>2, <1>3
  <2>3. \A i \in DOMAIN u : u[i].kind = "CodeStart"
    BY <1>2
  <2>. HIDE DEF u, v
  <2>4. u \o v \in Seq(EventType)
    BY <2>2
  <2>5. \A i \in DOMAIN (u \o v) : (u \o v)[i].kind \in {"CodeStart", "AddNeighbor", "RemoveNeighbor"}
    BY <2>1, <2>2, <2>3
  <2>6. QED BY <2>4, <2>5 DEF u, v
<1>. HIDE DEF s
<1>5. \A f : Pending(eventsMap, f) => f.kind \in {"CodeStart", "AddNeighbor", "RemoveNeighbor"}
  BY <1>1, <1>4 DEF Pending
<1>6. /\ \A ni \in NI : ~Pending(eventsMap, Start(ni)) /\ ~Pending(eventsMap, Stop(ni))
      /\ \A b \in Block : ~Pending(eventsMap, Process(b))
      /\ \A k \in MotionKind, b \in Block, c \in Cell : ~Pending(eventsMap, Motion(k, b, c))
      /\ \A ni \in NI, m \in Msg : ~Pending(eventsMap, Event("EnqueueOutgoing", ni, m))
  BY <1>5 DEF Start, Stop, Process, Motion, Event, MotionKind
<1>. QED BY <1>1, <1>4, <1>6

(* At the start the invariant holds: the links are those of the initial    *)
(* grid, and nothing is under way.                                         *)
LEMMA InitIInv == Init => IInv
<1>. SUFFICES ASSUME Init PROVE IInv
  OBVIOUS
<1>1. /\ now = 0 /\ 0 \in Time /\ MaximumDate \in Nat
      /\ eventsMap \in [Time -> Seq(EventType)]
      /\ \A d \in Time : d # 0 => eventsMap[d] = <<>>
  BY InitEvents
<1>2. /\ \A ni \in NI : ~Pending(eventsMap, Start(ni)) /\ ~Pending(eventsMap, Stop(ni))
      /\ \A b \in Block : ~Pending(eventsMap, Process(b))
      /\ \A k \in MotionKind, b \in Block, c \in Cell : ~Pending(eventsMap, Motion(k, b, c))
  BY InitEvents
<1>3. /\ grid \in [Cell -> Block \cup {NULL}] /\ position \in [Block -> Cell \cup {NULL}]
      /\ GridMatchesPositions
  BY InitialLinks, TopologyAssumption DEF Init, GridMatchesPositions
<1>4. /\ connectedInterface = LinksIn(grid, position)
      /\ \A ni \in NI : LinksIn(grid, position)[ni] # NULL =>
            /\ LinksIn(grid, position)[ni] \in NI
            /\ LinksIn(grid, position)[LinksIn(grid, position)[ni]] = ni
  <2>1. connectedInterface = LinksIn(grid, position)
    BY InitialLinks DEF Init
  <2>2. \A c \in Cell : grid[c] # NULL => position[grid[c]] = c
    BY <1>3 DEF GridMatchesPositions
  <2>3. QED BY <1>3, <2>1, <2>2, LinksAreSymmetric
<1>5. LinksMatchLattice /\ connectedInterface \in [NI -> NI \cup {NULL}]
  BY <1>4 DEF LinksMatchLattice, LinksIn
<1>6. TypeOK
  <2>1. eventsMap \in [Time -> Seq(EventType)]
    BY <1>1
  <2>2. /\ outgoingQueue \in [NI -> Seq(Msg)]
        /\ messageBeingTransmitted \in [NI -> Packet \cup {NULL}]
        /\ availabilityDate \in [NI -> Nat]
        /\ localEventsList \in [Block -> Seq(LocalEvent)]
    BY DEF Init
  <2>3. unsent \in SUBSET Msg /\ moves \in Nat /\ exited \in BOOLEAN
    BY DEF Init
  <2>4. QED BY <1>1, <1>3, <1>5, <2>1, <2>2, <2>3 DEF TypeOK
<1>7. NoFatalError /\ NothingOverdue
  BY <1>1 DEF Init, NoFatalError, NothingOverdue, Time
<1>8. WireHasOneStop /\ AvailabilityIsNear /\ BufferIsServed
  <2>1. ASSUME NEW ni \in NI
        PROVE  OneStop(ni) /\ Near(ni) /\ Served(ni)
    <3>1. /\ messageBeingTransmitted[ni] = NULL /\ outgoingQueue[ni] = <<>>
          /\ availabilityDate[ni] = 0
      BY DEF Init
    <3>2. OneStop(ni) /\ Served(ni)
      BY <1>2, <3>1, NotPendingAnywhere DEF OneStop, Served
    <3>3. QED BY <1>1, <3>1, <3>2 DEF Near
  <2>2. QED BY <2>1 DEF WireHasOneStop, AvailabilityIsNear, BufferIsServed
<1>9. LocalListIsServed /\ RightReceiver /\ WireFollowsLink
  <2>1. \A b \in Block : localEventsList[b] = <<>>
    BY DEF Init
  <2>2. \A b \in Block : ListServed(b)
    BY <1>2, <2>1, NotPendingAnywhere DEF ListServed
  <2>3. RightReceiver
    BY <2>1 DEF RightReceiver
  <2>4. WireFollowsLink
    BY DEF Init, WireFollowsLink
  <2>5. QED BY <2>2, <2>3, <2>4 DEF LocalListIsServed
<1>10. MotionsAreExclusive /\ ArrivalsFindQuietLinks
  BY <1>2 DEF MotionsAreExclusive, ArrivalsFindQuietLinks, MotionKind
<1>. QED BY <1>3, <1>5, <1>6, <1>7, <1>8, <1>9, <1>10 DEF IInv

(* Every event the scheduler consumes keeps the invariant. *)
LEMMA NextKeepsIInv == IInv /\ [Next]_vars => IInv'
<1>1. ASSUME IInv, Next
      PROVE  IInv'
  <2>1. PICK t \in Time :
          /\ IsFirstDate(eventsMap, t)
          /\ now' = t
          /\ Consume(t, Head(eventsMap[t]), EraseFirst(eventsMap, t))
    BY <1>1 DEF Next
  <2>. DEFINE e == Head(eventsMap[t])
              q == EraseFirst(eventsMap, t)
  <2>2. Step(t, e, q)
    BY <1>1, <2>1 DEF Step, First
  <2>3. Consume(t, e, q)
    BY <2>1
  <2>. HIDE DEF e, q
  <2>4. CASE CodeStart(t, e, q)
    BY <2>2, <2>4, CodeStartKeepsIInv
  <2>5. CASE Notify(t, e, q)
    BY <2>2, <2>5, NotifyKeepsIInv
  <2>6. CASE ProcessLocal(t, e, q)
    BY <2>2, <2>6, ProcessLocalKeepsIInv
  <2>7. CASE EnqueueOutgoing(t, e, q)
    BY <2>2, <2>7, EnqueueOutgoingKeepsIInv
  <2>8. CASE StartTransmitting(t, e, q)
    BY <2>2, <2>8, StartTransmittingKeepsIInv
  <2>9. CASE StopTransmitting(t, e, q)
    BY <2>2, <2>9, StopTransmittingKeepsIInv
  <2>10. CASE TranslationStart(t, e, q)
    BY <2>2, <2>10, TranslationStartKeepsIInv
  <2>11. CASE TranslationStop(t, e, q)
    BY <2>2, <2>11, TranslationStopKeepsIInv
  <2>12. QED
    BY <2>3, <2>4, <2>5, <2>6, <2>7, <2>8, <2>9, <2>10, <2>11 DEF Consume
<1>2. ASSUME IInv, UNCHANGED vars
      PROVE  IInv'
  <2>1. /\ TypeOK' /\ NoFatalError' /\ NothingOverdue'
        /\ GridMatchesPositions' /\ WireFollowsLink' /\ RightReceiver'
    BY <1>2 DEF vars, IInv, TypeOK, NoFatalError, NothingOverdue, GridMatchesPositions,
       WireFollowsLink, RightReceiver
  <2>2. WireHasOneStop' /\ AvailabilityIsNear' /\ BufferIsServed' /\ LocalListIsServed'
    BY <1>2 DEF vars, IInv, WireHasOneStop, OneStop, AvailabilityIsNear, Near,
       BufferIsServed, Served, LocalListIsServed, ListServed, Start, Stop, Process, Event
  <2>3. LinksMatchLattice'
    BY <1>2 DEF vars, IInv, LinksMatchLattice
  <2>4. MotionsAreExclusive'
    <3>1. MotionsAreExclusive /\ UNCHANGED <<eventsMap, grid, position>>
      BY <1>2 DEF vars, IInv
    <3>2. ASSUME NEW k \in MotionKind, NEW b \in Block, NEW c \in Cell
          PROVE  Exclusive(k, b, c)' <=> Exclusive(k, b, c)
      BY <3>1 DEF Exclusive, InGrid, Motion, Event
    <3>3. QED BY <3>1, <3>2 DEF MotionsAreExclusive, Motion, Event
  <2>5. ArrivalsFindQuietLinks'
    BY <1>2 DEF vars, IInv, ArrivalsFindQuietLinks, Watches, InGrid, Quiet, Start,
       Motion, Event
  <2>6. QED BY <2>1, <2>2, <2>3, <2>4, <2>5 DEF IInv
<1>3. QED BY <1>1, <1>2

-----------------------------------------------------------------------------
(* The events, interfaces, blocks and cells satisfy the inductive          *)
(* invariant whatever the scheduler, the block codes and the motions do.   *)
THEOREM Invariance == Spec => []IInv
<1>1. Init => IInv
  BY InitIInv
<1>2. IInv /\ [Next]_vars => IInv'
  BY NextKeepsIInv
<1>3. QED BY <1>1, <1>2, PTL DEF Spec

(* The variables keep their types.                                         *)
THEOREM TypeCorrectness == Spec => []TypeOK
BY Invariance, PTL DEF IInv

(* The simulator never stops on a fatal error: send() never finds an empty *)
(* buffer, processLocalEvent an empty list, Lattice::insert a busy cell.   *)
THEOREM NoFatalErrorArises == Spec => []NoFatalError
BY Invariance, PTL DEF IInv

(* A busy interface has one stop event, an idle one none, so that no message *)
(* on the wire is overwritten or left there.                               *)
THEOREM EachWireHasOneStop == Spec => []WireHasOneStop
BY Invariance, PTL DEF IInv

(* A message that waits in the buffer of an interface has an event that will *)
(* send it or send the one before it.                                      *)
THEOREM EachBufferIsServed == Spec => []BufferIsServed
BY Invariance, PTL DEF IInv

(* A block with local events has one event that processes them.            *)
THEOREM EachLocalListIsServed == Spec => []LocalListIsServed
BY Invariance, PTL DEF IInv

(* A received message was sent to the block that receives it, although the *)
(* receiver is looked up when the transmission ends.                       *)
THEOREM MessagesReachTheRightBlock == Spec => []RightReceiver
BY Invariance, PTL DEF IInv

(* The links are those of the lattice, in both directions, through all motions. *)
THEOREM LinksFollowTheLattice == Spec => []LinksMatchLattice
BY Invariance, PTL DEF IInv

-----------------------------------------------------------------------------
(* The messages of an interface in a list of local events. *)

(* Concatenation is associative. *)
LEMMA Associative ==
  ASSUME NEW S
  PROVE  \A u, v, w \in Seq(S) : (u \o v) \o w = u \o (v \o w)
BY ConcatAssociative

(* f[n] holds the messages of ni among the first n local events of s.      *)
AreMessages(f, ni, s, N) ==
  f = [n \in 0..N |-> IF n = 0 THEN <<>> ELSE f[n - 1] \o MessageOf(ni, s[n])]

Messages(ni, s, N) == CHOOSE f : AreMessages(f, ni, s, N)

(* There is such a function.                                               *)
LEMMA MessagesExist ==
  ASSUME NEW ni, NEW s, NEW N \in Nat
  PROVE  \E f : AreMessages(f, ni, s, N)
<1>. DEFINE Fits(f, k) == AreMessages(f, ni, s, k)
            T == {k \in Nat : ~\E f : Fits(f, k)}
<1>1. ASSUME T # {} PROVE FALSE
  <2>1. T \subseteq Nat
    OBVIOUS
  <2>2. PICK k \in T : \A m \in T : k <= m
    BY <1>1, <2>1, LeastNumber
  <2>3. k \in Nat /\ ~\E f : Fits(f, k)
    OBVIOUS
  <2>4. CASE k = 0
    <3>1. Fits([n \in 0..0 |-> <<>>], 0)
      BY DEF AreMessages
    <3>. QED BY <2>3, <2>4, <3>1
  <2>5. CASE k # 0
    <3>1. k - 1 \in Nat /\ k - 1 \notin T
      BY <2>2, <2>3, <2>5
    <3>2. PICK f : Fits(f, k - 1)
      BY <3>1
    <3>. DEFINE g == [n \in 0..k |-> IF n = k THEN f[k - 1] \o MessageOf(ni, s[k]) ELSE f[n]]
    <3>3. ASSUME NEW n \in 0..k
          PROVE  g[n] = IF n = 0 THEN <<>> ELSE g[n - 1] \o MessageOf(ni, s[n])
      <4>1. CASE n = k
        BY <4>1, <2>3, <2>5
      <4>2. CASE n # k
        <5>1. n \in 0..(k - 1) /\ (n # 0 => n - 1 \in 0..(k - 1) /\ n - 1 \in 0..k /\ n - 1 # k)
          BY <4>2, <2>3
        <5>2. f[n] = IF n = 0 THEN <<>> ELSE f[n - 1] \o MessageOf(ni, s[n])
          BY <3>2, <5>1 DEF AreMessages
        <5>. QED BY <4>2, <5>1, <5>2
      <4>. QED BY <4>1, <4>2
    <3>4. Fits(g, k)
      BY <3>3 DEF AreMessages
    <3>. QED BY <2>3, <3>4
  <2>. QED BY <2>4, <2>5
<1>. QED BY <1>1

(* A local event gives at most one message to an interface.                *)
LEMMA MessageType ==
  ASSUME NEW ni \in NI, NEW l \in LocalEvent
  PROVE  /\ MessageOf(ni, l) \in Seq(Msg)
         /\ ~IsFrom(l, ni) => MessageOf(ni, l) = <<>>
         /\ IsFrom(l, ni) => MessageOf(ni, l) = <<l.packet.msg>> /\ l.packet.msg \in Msg
<1>1. l.kind = "NIReceive" => l.packet \in Packet
  BY DEF LocalEvent
<1>2. IsFrom(l, ni) => l.packet.msg \in Msg
  BY <1>1 DEF IsFrom, Packet
<1>. QED BY <1>2 DEF MessageOf

(* What the definition of MessagesOf gives: a function that adds the local *)
(* events one by one.                                                      *)
LEMMA MessagesDef ==
  ASSUME NEW ni \in NI, NEW s \in Seq(LocalEvent)
  PROVE  LET f == Messages(ni, s, Len(s))
         IN  /\ MessagesOf(ni, s) = f[Len(s)]
             /\ f[0] = <<>>
             /\ \A n \in 1..Len(s) : f[n] = f[n - 1] \o MessageOf(ni, s[n])
             /\ \A n \in 0..Len(s) : f[n] \in Seq(Msg)
<1>. DEFINE f == Messages(ni, s, Len(s))
<1>1. Len(s) \in Nat
  OBVIOUS
<1>2. f = [n \in 0..Len(s) |-> IF n = 0 THEN <<>> ELSE f[n - 1] \o MessageOf(ni, s[n])]
  <2>1. AreMessages(f, ni, s, Len(s))
    BY <1>1, MessagesExist DEF Messages
  <2>. QED BY <2>1 DEF AreMessages
<1>3. MessagesOf(ni, s) = f[Len(s)]
  BY DEF MessagesOf, Messages, AreMessages
<1>. HIDE DEF f
<1>4. f[0] = <<>> /\ \A n \in 1..Len(s) : f[n] = f[n - 1] \o MessageOf(ni, s[n])
  <2>1. \A n \in 0..Len(s) : f[n] = IF n = 0 THEN <<>> ELSE f[n - 1] \o MessageOf(ni, s[n])
    BY <1>2
  <2>2. 0 \in 0..Len(s) /\ \A n \in 1..Len(s) : n \in 0..Len(s) /\ n # 0
    BY <1>1
  <2>. QED BY <2>1, <2>2
<1>5. \A l \in LocalEvent : MessageOf(ni, l) \in Seq(Msg)
  BY MessageType
<1>. DEFINE T == {n \in 0..Len(s) : f[n] \notin Seq(Msg)}
<1>6. ASSUME T # {} PROVE FALSE
  <2>1. T \subseteq Nat
    OBVIOUS
  <2>2. PICK n \in T : \A m \in T : n <= m
    BY <1>6, <2>1, LeastNumber
  <2>3. n # 0
    <3>1. n \in 0..Len(s) /\ f[n] \notin Seq(Msg) /\ <<>> \in Seq(Msg)
      OBVIOUS
    <3>. QED BY <1>4, <3>1
  <2>4. n - 1 \in 0..Len(s) /\ n \in 1..Len(s) /\ n - 1 \notin T
    BY <1>1, <2>2, <2>3
  <2>5. f[n - 1] \in Seq(Msg) /\ s[n] \in LocalEvent
    BY <2>4
  <2>6. f[n - 1] \o MessageOf(ni, s[n]) \in Seq(Msg)
    BY <1>5, <2>5
  <2>. QED BY <1>4, <2>4, <2>6
<1>. QED BY <1>3, <1>4, <1>6 DEF f

(* What is added at the end of the list comes last.                        *)
LEMMA MessagesAppend ==
  ASSUME NEW ni \in NI, NEW s \in Seq(LocalEvent), NEW l \in LocalEvent
  PROVE  MessagesOf(ni, Append(s, l)) = MessagesOf(ni, s) \o MessageOf(ni, l)
<1>. DEFINE r == Append(s, l)
            N == Len(s)
            f == Messages(ni, s, N)
            g == Messages(ni, r, Len(r))
<1>1. /\ N \in Nat /\ r \in Seq(LocalEvent) /\ Len(r) = N + 1
      /\ \A n \in 1..N : r[n] = s[n]
      /\ r[N + 1] = l
  BY AppendProperties
<1>2. /\ MessagesOf(ni, s) = f[N] /\ f[0] = <<>>
      /\ \A n \in 1..N : f[n] = f[n - 1] \o MessageOf(ni, s[n])
  BY MessagesDef
<1>. HIDE DEF r
<1>3. /\ MessagesOf(ni, r) = g[Len(r)] /\ g[0] = <<>>
      /\ \A n \in 1..Len(r) : g[n] = g[n - 1] \o MessageOf(ni, r[n])
  BY <1>1, MessagesDef
<1>. HIDE DEF f, g, N
<1>. DEFINE T == {n \in 0..N : f[n] # g[n]}
<1>4. ASSUME T # {} PROVE FALSE
  <2>1. T \subseteq Nat
    BY <1>1
  <2>2. PICK n \in T : \A m \in T : n <= m
    BY <1>4, <2>1, LeastNumber
  <2>3. n # 0
    BY <1>2, <1>3
  <2>4. n \in 1..N /\ n \in 1..Len(r) /\ n - 1 \in 0..N
    BY <1>1, <2>3
  <2>5. n - 1 \notin T
    BY <1>1, <2>2, <2>4
  <2>6. f[n - 1] = g[n - 1] /\ r[n] = s[n]
    BY <1>1, <2>4, <2>5
  <2>. QED BY <1>2, <1>3, <2>4, <2>6
<1>5. N \in 0..N /\ N + 1 \in 1..Len(r) /\ (N + 1) - 1 = N
  BY <1>1
<1>6. g[N] = f[N]
  BY <1>4, <1>5
<1>7. g[N + 1] = g[N] \o MessageOf(ni, l)
  BY <1>1, <1>3, <1>5
<1>. QED BY <1>1, <1>2, <1>3, <1>6, <1>7 DEF r

(* What is taken from the head of the list came first.                     *)
LEMMA MessagesTail ==
  ASSUME NEW ni \in NI, NEW s \in Seq(LocalEvent), s # <<>>
  PROVE  MessagesOf(ni, s) = MessageOf(ni, Head(s)) \o MessagesOf(ni, Tail(s))
<1>. DEFINE r == Tail(s)
            N == Len(r)
            h == MessageOf(ni, Head(s))
            f == Messages(ni, s, Len(s))
            g == Messages(ni, r, N)
<1>1. \A u, v, w \in Seq(Msg) : (u \o v) \o w = u \o (v \o w)
  BY Associative
<1>2. /\ N \in Nat /\ r \in Seq(LocalEvent) /\ Len(s) = N + 1
      /\ Head(s) \in LocalEvent /\ Head(s) = s[1]
      /\ \A n \in 1..N : r[n] = s[n + 1] /\ r[n] \in LocalEvent
  <2>1. /\ r \in Seq(LocalEvent) /\ Head(s) \in LocalEvent
        /\ Len(r) = Len(s) - 1 /\ \A n \in 1..Len(r) : r[n] = s[n + 1]
    BY HeadTailProperties
  <2>2. Len(s) \in Nat /\ Len(r) \in Nat /\ Head(s) = s[1]
    BY <2>1
  <2>3. \A n \in 1..Len(r) : r[n] \in LocalEvent
    BY <2>1, ElementOfSeq
  <2>. QED BY <2>1, <2>2, <2>3
<1>3. /\ MessagesOf(ni, s) = f[Len(s)] /\ f[0] = <<>>
      /\ \A n \in 1..Len(s) : f[n] = f[n - 1] \o MessageOf(ni, s[n])
      /\ \A n \in 0..Len(s) : f[n] \in Seq(Msg)
  BY MessagesDef
<1>4. /\ MessagesOf(ni, r) = g[N] /\ g[0] = <<>>
      /\ \A n \in 1..N : g[n] = g[n - 1] \o MessageOf(ni, r[n])
      /\ \A n \in 0..N : g[n] \in Seq(Msg)
  BY <1>2, MessagesDef
<1>5. h \in Seq(Msg) /\ h = MessageOf(ni, s[1])
  BY <1>2, MessageType
<1>. HIDE DEF r, f, g, N, h
<1>. DEFINE T == {n \in 0..N : f[n + 1] # h \o g[n]}
<1>6. ASSUME T # {} PROVE FALSE
  <2>1. T \subseteq Nat
    BY <1>2
  <2>2. PICK n \in T : \A m \in T : n <= m
    BY <1>6, <2>1, LeastNumber
  <2>3. n # 0
    <3>1. 1 \in 1..Len(s) /\ 1 - 1 = 0
      BY <1>2
    <3>2. f[1] = f[0] \o h
      BY <1>3, <1>5, <3>1
    <3>3. f[1] = h \o g[0]
      BY <1>3, <1>4, <1>5, <3>2, ConcatEmptySeq
    <3>4. f[n + 1] # h \o g[n]
      OBVIOUS
    <3>. QED BY <3>3, <3>4
  <2>4. n \in 1..N /\ n + 1 \in 1..Len(s) /\ n - 1 \in 0..N /\ (n + 1) - 1 = n /\ (n - 1) + 1 = n
    BY <1>2, <2>3
  <2>5. n - 1 \notin T
    BY <1>2, <2>2, <2>4
  <2>6. f[n] = h \o g[n - 1]
    BY <2>4, <2>5
  <2>7. f[n + 1] = f[n] \o MessageOf(ni, r[n])
    BY <1>2, <1>3, <2>4
  <2>8. g[n] = g[n - 1] \o MessageOf(ni, r[n])
    BY <1>4, <2>4
  <2>9. MessageOf(ni, r[n]) \in Seq(Msg) /\ g[n - 1] \in Seq(Msg)
    BY <1>2, <1>4, <2>4, MessageType
  <2>10. (h \o g[n - 1]) \o MessageOf(ni, r[n]) = h \o (g[n - 1] \o MessageOf(ni, r[n]))
    BY <1>5, <2>9, <1>1
  <2>11. f[n + 1] = h \o g[n]
    BY <2>6, <2>7, <2>8, <2>10
  <2>. QED BY <2>11
<1>7. N \in 0..N
  BY <1>2
<1>8. f[N + 1] = h \o g[N]
  BY <1>6, <1>7
<1>. QED BY <1>2, <1>3, <1>4, <1>8 DEF h, r

(* An interface that sent nothing in the list has no message there.        *)
LEMMA NoMessages ==
  ASSUME NEW ni \in NI, NEW s \in Seq(LocalEvent), \A i \in DOMAIN s : ~IsFrom(s[i], ni)
  PROVE  MessagesOf(ni, s) = <<>>
<1>. DEFINE N == Len(s)
            f == Messages(ni, s, N)
<1>1. /\ MessagesOf(ni, s) = f[N] /\ f[0] = <<>>
      /\ \A n \in 1..N : f[n] = f[n - 1] \o MessageOf(ni, s[n])
  BY MessagesDef
<1>2. N \in Nat /\ DOMAIN s = 1..N
  OBVIOUS
<1>. HIDE DEF f, N
<1>3. \A n \in 1..N : MessageOf(ni, s[n]) = <<>>
  BY <1>2 DEF MessageOf
<1>. DEFINE T == {n \in 0..N : f[n] # <<>>}
<1>4. ASSUME T # {} PROVE FALSE
  <2>1. T \subseteq Nat
    BY <1>2
  <2>2. PICK n \in T : \A m \in T : n <= m
    BY <1>4, <2>1, LeastNumber
  <2>3. n # 0
    BY <1>1
  <2>4. n \in 1..N /\ n - 1 \in 0..N
    BY <1>2, <2>3
  <2>5. n - 1 \notin T
    BY <1>2, <2>2, <2>4
  <2>6. f[n - 1] = <<>>
    BY <2>4, <2>5
  <2>7. f[n] = <<>> \o <<>>
    BY <1>1, <1>3, <2>4, <2>6
  <2>8. f[n] = <<>>
    BY <2>7
  <2>. QED BY <2>8
<1>. QED BY <1>1, <1>2, <1>4

-----------------------------------------------------------------------------
(* What interface ni has sent and nobody has handled, in lists ls. *)
HoldsIn(ls, b, ni) == \E i \in DOMAIN ls[b] : IsFrom(ls[b][i], ni)

ArrivedIn(ls, ni) ==
  IF \E b \in Block : HoldsIn(ls, b, ni)
  THEN MessagesOf(ni, ls[CHOOSE b \in Block : HoldsIn(ls, b, ni)])
  ELSE <<>>

OnlyWith(ls, ni, b) == \A a \in Block : HoldsIn(ls, a, ni) => a = b

(* When only b can hold messages of ni, they are those of its list.        *)
LEMMA ArrivedWith ==
  ASSUME NEW ls \in [Block -> Seq(LocalEvent)], NEW ni \in NI, NEW b \in Block,
         OnlyWith(ls, ni, b)
  PROVE  ArrivedIn(ls, ni) = MessagesOf(ni, ls[b]) /\ ArrivedIn(ls, ni) \in Seq(Msg)
<1>1. MessagesOf(ni, ls[b]) \in Seq(Msg)
  <2>1. ls[b] \in Seq(LocalEvent) /\ Len(ls[b]) \in 0..Len(ls[b])
    OBVIOUS
  <2>. QED BY <2>1, MessagesDef
<1>2. CASE \E a \in Block : HoldsIn(ls, a, ni)
  <2>1. (CHOOSE a \in Block : HoldsIn(ls, a, ni)) = b
    BY <1>2 DEF OnlyWith
  <2>. QED BY <1>1, <1>2, <2>1 DEF ArrivedIn
<1>3. CASE ~\E a \in Block : HoldsIn(ls, a, ni)
  <2>1. \A i \in DOMAIN ls[b] : ~IsFrom(ls[b][i], ni)
    BY <1>3 DEF HoldsIn
  <2>2. ls[b] \in Seq(LocalEvent)
    OBVIOUS
  <2>3. MessagesOf(ni, ls[b]) = <<>>
    BY <2>1, <2>2, NoMessages
  <2>. QED BY <1>1, <1>3, <2>3 DEF ArrivedIn
<1>. QED BY <1>2, <1>3

(* In the lists new, l has come to b behind its events in ls; c is where    *)
(* the messages of ni are.                                                 *)
Arrives(ls, new, b, l, ni, c) ==
  /\ ls \in [Block -> Seq(LocalEvent)] /\ b \in Block /\ l \in LocalEvent
  /\ new = [ls EXCEPT ![b] = Append(@, l)]
  /\ ni \in NI /\ c \in Block /\ OnlyWith(ls, ni, c)
  /\ IsFrom(l, ni) => c = b

(* In the lists new, b has handled the first of its events in ls.          *)
Handles(ls, new, b, ni, c) ==
  /\ ls \in [Block -> Seq(LocalEvent)] /\ b \in Block /\ ls[b] # <<>>
  /\ new = [ls EXCEPT ![b] = Tail(@)]
  /\ ni \in NI /\ c \in Block /\ OnlyWith(ls, ni, c)

(* A local event l that b receives adds its message to those of its        *)
(* source, which are all with b, and nothing to those of the others.       *)
LEMMA ArrivedAppend ==
  ASSUME NEW ls, NEW new, NEW b, NEW l, NEW ni, NEW c, Arrives(ls, new, b, l, ni, c),
         NEW x \in Block
  PROVE  /\ ArrivedIn(new, ni) = ArrivedIn(ls, ni) \o MessageOf(ni, l)
         /\ OnlyWith(new, ni, c)
         /\ HoldsIn(new, x, ni) <=> HoldsIn(ls, x, ni) \/ (x = b /\ IsFrom(l, ni))
         /\ ArrivedIn(ls, ni) \in Seq(Msg)
         /\ new \in [Block -> Seq(LocalEvent)]
<1>1. /\ ls \in [Block -> Seq(LocalEvent)] /\ b \in Block /\ l \in LocalEvent
      /\ ni \in NI /\ c \in Block /\ OnlyWith(ls, ni, c)
      /\ IsFrom(l, ni) => c = b
  BY DEF Arrives
<1>2. /\ ls[b] \in Seq(LocalEvent) /\ new[b] = Append(ls[b], l)
      /\ new[b] \in Seq(LocalEvent)
      /\ \A a \in Block : a # b => new[a] = ls[a]
      /\ new \in [Block -> Seq(LocalEvent)]
  BY <1>1, AppendProperties DEF Arrives
<1>3. /\ Len(ls[b]) \in Nat /\ DOMAIN ls[b] = 1..Len(ls[b])
      /\ DOMAIN new[b] = 1..(Len(ls[b]) + 1)
      /\ \A i \in 1..Len(ls[b]) : new[b][i] = ls[b][i]
      /\ new[b][Len(ls[b]) + 1] = l
  BY <1>1, <1>2, AppendProperties
<1>4. HoldsIn(new, b, ni) <=> HoldsIn(ls, b, ni) \/ IsFrom(l, ni)
  <2>1. ASSUME HoldsIn(new, b, ni) PROVE HoldsIn(ls, b, ni) \/ IsFrom(l, ni)
    <3>1. PICK i \in 1..(Len(ls[b]) + 1) : IsFrom(new[b][i], ni)
      BY <1>1, <1>3, <2>1 DEF HoldsIn
    <3>2. i = Len(ls[b]) + 1 \/ i \in 1..Len(ls[b])
      BY <1>1, <1>3
    <3>. QED BY <1>1, <1>3, <3>1, <3>2 DEF HoldsIn
  <2>2. ASSUME HoldsIn(ls, b, ni) PROVE HoldsIn(new, b, ni)
    <3>1. PICK i \in 1..Len(ls[b]) : IsFrom(ls[b][i], ni)
      BY <1>1, <1>3, <2>2 DEF HoldsIn
    <3>2. i \in 1..(Len(ls[b]) + 1)
      BY <1>1, <1>3
    <3>. QED BY <1>1, <1>3, <3>1, <3>2 DEF HoldsIn
  <2>3. ASSUME IsFrom(l, ni) PROVE HoldsIn(new, b, ni)
    <3>1. Len(ls[b]) + 1 \in 1..(Len(ls[b]) + 1)
      BY <1>1, <1>3
    <3>. QED BY <1>1, <1>3, <2>3, <3>1 DEF HoldsIn
  <2>. QED BY <1>1, <2>1, <2>2, <2>3
<1>5. \A a \in Block : a # b => (HoldsIn(new, a, ni) <=> HoldsIn(ls, a, ni))
  BY <1>1, <1>2 DEF HoldsIn
<1>6. OnlyWith(new, ni, c)
  BY <1>1, <1>4, <1>5 DEF OnlyWith
<1>7. /\ ArrivedIn(new, ni) = MessagesOf(ni, new[c])
      /\ ArrivedIn(ls, ni) = MessagesOf(ni, ls[c])
      /\ ArrivedIn(ls, ni) \in Seq(Msg)
  BY <1>1, <1>2, <1>6, ArrivedWith
<1>8. CASE c = b
  BY <1>1, <1>2, <1>7, <1>8, MessagesAppend, <1>4, <1>5, <1>6
<1>9. CASE c # b
  <2>1. MessageOf(ni, l) = <<>> /\ new[c] = ls[c]
    BY <1>1, <1>2, <1>9 DEF MessageOf
  <2>2. ArrivedIn(ls, ni) \o <<>> = ArrivedIn(ls, ni)
    BY <1>1, <1>7
  <2>. QED BY <1>1, <1>2, <1>4, <1>5, <1>6, <1>7, <2>1, <2>2
<1>. QED BY <1>1, <1>8, <1>9

(* The local event that b handles takes its message from those of its      *)
(* source, the oldest one.                                                 *)
LEMMA ArrivedTail ==
  ASSUME NEW ls, NEW new, NEW b, NEW ni, NEW c, Handles(ls, new, b, ni, c), NEW x \in Block
  PROVE  /\ ArrivedIn(ls, ni) = MessageOf(ni, Head(ls[b])) \o ArrivedIn(new, ni)
         /\ OnlyWith(new, ni, c)
         /\ HoldsIn(new, x, ni) => HoldsIn(ls, x, ni)
         /\ ArrivedIn(new, ni) \in Seq(Msg)
         /\ Head(ls[b]) \in LocalEvent
         /\ new \in [Block -> Seq(LocalEvent)]
<1>. DEFINE l == Head(ls[b])
<1>1. /\ ls \in [Block -> Seq(LocalEvent)] /\ b \in Block
      /\ ni \in NI /\ c \in Block /\ OnlyWith(ls, ni, c)
  BY DEF Handles
<1>2. /\ ls[b] \in Seq(LocalEvent) /\ new[b] = Tail(ls[b])
      /\ new[b] \in Seq(LocalEvent)
      /\ \A a \in Block : a # b => new[a] = ls[a]
      /\ new \in [Block -> Seq(LocalEvent)]
      /\ l \in LocalEvent /\ l = ls[b][1]
      /\ ls[b] # <<>>
  BY <1>1, HeadTailProperties DEF Handles
<1>3. /\ Len(ls[b]) \in Nat \ {0} /\ DOMAIN ls[b] = 1..Len(ls[b])
      /\ DOMAIN new[b] = 1..(Len(ls[b]) - 1)
      /\ \A i \in 1..(Len(ls[b]) - 1) : new[b][i] = ls[b][i + 1] /\ i + 1 \in 1..Len(ls[b])
  <2>1. /\ Len(new[b]) = Len(ls[b]) - 1 /\ DOMAIN new[b] = 1..Len(new[b])
        /\ \A i \in 1..Len(new[b]) : new[b][i] = ls[b][i + 1]
        /\ Len(ls[b]) \in Nat \ {0} /\ DOMAIN ls[b] = 1..Len(ls[b])
    BY <1>1, <1>2, HeadTailProperties, EmptySeq
  <2>2. \A n \in Nat \ {0} : \A i \in 1..(n - 1) : i + 1 \in 1..n
    OBVIOUS
  <2>. QED BY <1>1, <2>1, <2>2
<1>4. \A a \in Block : HoldsIn(new, a, ni) => HoldsIn(ls, a, ni)
  <2>1. HoldsIn(new, b, ni) => HoldsIn(ls, b, ni)
    BY <1>1, <1>3 DEF HoldsIn
  <2>2. \A a \in Block : a # b => (HoldsIn(new, a, ni) <=> HoldsIn(ls, a, ni))
    BY <1>1, <1>2 DEF HoldsIn
  <2>. QED BY <1>1, <2>1, <2>2
<1>5. IsFrom(l, ni) => HoldsIn(ls, b, ni)
  <2>1. 1 \in DOMAIN ls[b]
    BY <1>1, <1>3
  <2>. QED BY <1>1, <1>2, <2>1 DEF HoldsIn
<1>6. OnlyWith(new, ni, c)
  BY <1>1, <1>4 DEF OnlyWith
<1>7. /\ ArrivedIn(new, ni) = MessagesOf(ni, new[c])
      /\ ArrivedIn(ls, ni) = MessagesOf(ni, ls[c])
      /\ ArrivedIn(new, ni) \in Seq(Msg)
  BY <1>1, <1>2, <1>6, ArrivedWith
<1>8. CASE c = b
  BY <1>1, <1>2, <1>7, <1>8, MessagesTail, <1>4, <1>6
<1>9. CASE c # b
  <2>1. MessageOf(ni, l) = <<>> /\ new[c] = ls[c]
    BY <1>1, <1>2, <1>5, <1>9 DEF MessageOf, OnlyWith
  <2>2. <<>> \o ArrivedIn(new, ni) = ArrivedIn(new, ni)
    BY <1>1, <1>7
  <2>. QED BY <1>1, <1>2, <1>4, <1>6, <1>7, <2>1, <2>2
<1>. QED BY <1>8, <1>9

-----------------------------------------------------------------------------
(* One step of the scheduler under the invariant of the links. *)

FifoStep(t, e, q) == FifoInv /\ Step(t, e, q)

(* The events that neither send a message nor move a block.                *)
Ordinary ==
  {f \in EventType : f.kind \notin {"EnqueueOutgoing", "TranslationStart", "TranslationStop"}}

(* What is known of the first event and of the ones behind it.             *)
LEMMA FifoFirst ==
  ASSUME NEW t, NEW e, NEW q, FifoStep(t, e, q)
  PROVE  /\ t \in Time /\ t \in Nat /\ now \in Nat /\ now <= t /\ now' = t
         /\ MaximumDate \in Nat /\ t <= MaximumDate
         /\ TypeOK /\ IInv /\ Step(t, e, q)
         /\ q \in [Time -> Seq(EventType)]
         /\ e \in EventType /\ Pending(eventsMap, e)
         /\ Keeps({e}, t, eventsMap, q)
         /\ \A x : OnlyAt(eventsMap, e, x) => x = t /\ ~Pending(q, e)
         /\ \A f : OnlyAt(eventsMap, f, now) /\ Pending(eventsMap, f) => t = now
<1>1. TypeOK /\ NothingOverdue /\ First(t, e, q) /\ IInv /\ Step(t, e, q) /\ now' = t
  BY DEF FifoStep, Step, IInv
<1>2. /\ t \in Nat /\ now \in Nat /\ now <= t
      /\ MaximumDate \in Nat /\ t <= MaximumDate
      /\ q \in [Time -> Seq(EventType)]
      /\ e \in EventType /\ Pending(eventsMap, e)
      /\ Keeps({e}, t, eventsMap, q)
      /\ \A x : OnlyAt(eventsMap, e, x) => x = t /\ ~Pending(q, e)
      /\ \A f : OnlyAt(eventsMap, f, now) /\ Pending(eventsMap, f) => t = now
  BY <1>1, FirstEvent
<1>3. t \in Time
  BY <1>1 DEF First
<1>. QED BY <1>1, <1>2, <1>3

(* A larger set of events is kept too.                                     *)
LEMMA KeepsMore ==
  ASSUME NEW X, NEW Y, NEW t, NEW q, NEW r, Keeps(X, t, q, r), X \subseteq Y
  PROVE  Keeps(Y, t, q, r)
BY DEF Keeps

(* Scheduling one ordinary event.                                          *)
LEMMA ScheduleOrdinary ==
  ASSUME NEW q \in [Time -> Seq(EventType)], NEW t \in Time, NEW d \in Nat,
         NEW f \in Ordinary
  PROVE  Keeps(Ordinary, t, q, Schedule(q, t, d, f))
<1>1. f \in EventType /\ {f} \subseteq Ordinary
  BY DEF Ordinary
<1>2. Keeps({f}, t, q, Schedule(q, t, d, f))
  BY <1>1, ScheduleKeeps
<1>. QED BY <1>1, <1>2, KeepsMore

(* The events that the handlers schedule beside sends and motions.         *)
LEMMA OrdinaryEvents ==
  /\ \A ni \in NI : Start(ni) \in Ordinary /\ Stop(ni) \in Ordinary
  /\ \A b \in Block : Process(b) \in Ordinary /\ Event("TranslationEnd", b, NULL) \in Ordinary
  /\ \A k \in {"AddNeighbor", "RemoveNeighbor", "ProcessLocal"} : OfKind(k) \subseteq Ordinary
  /\ NoticeEvent \subseteq Ordinary
<1>1. \A ni \in NI : /\ Start(ni) \in EventType /\ Stop(ni) \in EventType
                     /\ Start(ni).kind = "StartTransmitting"
                     /\ Stop(ni).kind = "StopTransmitting"
  BY EventTypes DEF Start, Stop, Event
<1>2. \A b \in Block : /\ Process(b) \in EventType /\ Process(b).kind = "ProcessLocal"
                       /\ Event("TranslationEnd", b, NULL) \in EventType
                       /\ Event("TranslationEnd", b, NULL).kind = "TranslationEnd"
  BY EventTypes DEF Process, Event
<1>3. \A k \in {"AddNeighbor", "RemoveNeighbor", "ProcessLocal"} : OfKind(k) \subseteq Ordinary
  BY DEF OfKind, Ordinary
<1>4. NoticeEvent \subseteq Ordinary
  BY NoticeEvents DEF Ordinary
<1>. QED BY <1>1, <1>2, <1>3, <1>4 DEF Ordinary

-----------------------------------------------------------------------------
(* SentOnce. *)

(* A step that schedules no send: the sends left are those that were       *)
(* pending, but for the one that is executed.                              *)
LEMMA KeptSends ==
  ASSUME NEW t, NEW e, NEW q, FifoStep(t, e, q),
         NEW Y, Keeps(Y, t, q, eventsMap'), \A f \in Y : f.kind # "EnqueueOutgoing",
         UNCHANGED unsent
  PROVE  /\ SentOnce' /\ Fresh' \subseteq Fresh
         /\ \A ni \in NI, m \in Msg :
              Pending(eventsMap', Sending(ni, m)) <=>
                Pending(eventsMap, Sending(ni, m)) /\ Sending(ni, m) # e
<1>1. ASSUME NEW ni \in NI, NEW m \in Msg
      PROVE  /\ Pending(eventsMap', Sending(ni, m)) <=>
                  Pending(eventsMap, Sending(ni, m)) /\ Sending(ni, m) # e
             /\ Sending(ni, m) # e => \A x : OnlyAt(eventsMap, Sending(ni, m), x) =>
                                            OnlyAt(eventsMap', Sending(ni, m), x)
  <2>. DEFINE f == Sending(ni, m)
  <2>1. f.kind = "EnqueueOutgoing"
    BY DEF Sending, Event
  <2>. HIDE DEF f
  <2>2. /\ Pending(eventsMap', f) <=> Pending(q, f)
        /\ \A x : OnlyAt(q, f, x) => OnlyAt(eventsMap', f, x)
    BY <2>1 DEF Keeps
  <2>3. CASE f = e
    <3>1. Pending(eventsMap, f) => \E x \in Time : OnlyAt(eventsMap, f, x)
      BY DEF FifoStep, FifoInv, SentOnce, f
    <3>2. ~Pending(q, f)
      BY <2>3, <3>1, FifoFirst
    <3>. QED BY <2>2, <2>3, <3>2 DEF f
  <2>4. CASE f # e
    <3>1. /\ Pending(q, f) <=> Pending(eventsMap, f)
          /\ \A x : OnlyAt(eventsMap, f, x) => OnlyAt(q, f, x)
      BY <2>4, FifoFirst DEF Keeps
    <3>. QED BY <2>2, <2>4, <3>1 DEF f
  <2>. QED BY <2>3, <2>4
<1>2. SentOnce'
  <2>1. ASSUME NEW ni \in NI, NEW m \in Msg, Pending(eventsMap', Sending(ni, m))
        PROVE  /\ m \notin unsent'
               /\ \E d \in Time : OnlyAt(eventsMap', Sending(ni, m), d)
               /\ \A nj \in NI : Pending(eventsMap', Sending(nj, m)) => nj = ni
    BY <1>1, <2>1 DEF FifoStep, FifoInv, SentOnce
  <2>. QED BY <2>1 DEF SentOnce, Sending, Event
<1>3. Fresh' \subseteq Fresh
  BY <1>1 DEF Fresh, Sending, Event
<1>. QED BY <1>1, <1>2, <1>3

(* The block code sends messages it still had, each once.                  *)
LEMMA CodeSends ==
  ASSUME NEW t, NEW e, NEW q, FifoStep(t, e, q),
         NEW b \in Block, NEW s \in Requests(b, t, q), NEW r,
         r = ScheduleEach(q, t, s),
         NEW Y, Keeps(Y, t, r, eventsMap'), \A f \in Y : f.kind # "EnqueueOutgoing",
         unsent' = unsent \ {s[i].event.arg : i \in Asked(s, "EnqueueOutgoing")}
  PROVE  SentOnce' /\ Fresh' \subseteq Fresh
<1>. DEFINE N == Len(s)
<1>1. /\ t \in Time /\ t \in Nat /\ MaximumDate \in Nat
      /\ q \in [Time -> Seq(EventType)] /\ unsent \in SUBSET Msg
  BY FifoFirst DEF TypeOK
<1>3. \A ni \in NI, m \in Msg : /\ Sending(ni, m).arg = m /\ Sending(ni, m).on = ni
                                /\ Sending(ni, m).kind = "EnqueueOutgoing"
  BY DEF Sending, Event
<1>2. /\ s \in Seq(DatedBy(EventType)) /\ N \in Nat /\ DOMAIN s = 1..N
      /\ \A i \in 1..N : s[i].event.kind = "EnqueueOutgoing" =>
           \E ni \in NI, m \in unsent : s[i].event = Sending(ni, m)
      /\ \A i, j \in 1..N :
           /\ s[i].event.kind = "EnqueueOutgoing" /\ s[j].event.kind = "EnqueueOutgoing"
           /\ s[i].event.arg = s[j].event.arg
           => i = j
      /\ \A i \in 1..N : s[i].date \in Nat
  <2>1. s \in Seq(DatedBy(EventType))
    BY <1>1, RequestsType
  <2>2. N \in Nat /\ DOMAIN s = 1..N /\ \A i \in 1..N : s[i].date \in Nat
    BY <2>1, DatedEvents
  <2>3. \A i \in DOMAIN s : s[i].event.kind = "EnqueueOutgoing" =>
          \E ni \in NI, m \in unsent : s[i].event = Sending(ni, m)
    BY <1>1, RequestsType DEF Motion, Event
  <2>4. \A i, j \in DOMAIN s :
          /\ s[i].event.kind = "EnqueueOutgoing" /\ s[j].event.kind = "EnqueueOutgoing"
          /\ s[i].event.arg = s[j].event.arg
          => i = j
    BY <1>1, RequestsType
  <2>. QED BY <2>1, <2>2, <2>3, <2>4
<1>0. AfterEach(EventType, q, t, s, N, r)
  BY <1>1, <1>2, ScheduleEachEffect
<1>. HIDE DEF N
<1>4. ASSUME NEW ni \in NI, NEW m \in Msg
      PROVE  Pending(eventsMap', Sending(ni, m)) <=>
               \/ Pending(q, Sending(ni, m))
               \/ \E i \in 1..N : s[i].event = Sending(ni, m) /\ s[i].date \in t..MaximumDate
  <2>1. Pending(eventsMap', Sending(ni, m)) <=> Pending(r, Sending(ni, m))
    BY DEF Keeps, Sending, Event
  <2>. QED BY <1>0, <2>1 DEF AfterEach
<1>5. ASSUME NEW ni \in NI, NEW m \in Msg, Pending(q, Sending(ni, m))
      PROVE  /\ Pending(eventsMap, Sending(ni, m)) /\ m \notin unsent
             /\ \E x \in Time : OnlyAt(q, Sending(ni, m), x)
             /\ \A nj \in NI : Pending(q, Sending(nj, m)) => nj = ni
  <2>1. \A nj \in NI : Pending(q, Sending(nj, m)) => Pending(eventsMap, Sending(nj, m))
    BY FifoFirst DEF Keeps
  <2>2. /\ m \notin unsent
        /\ \E x \in Time : OnlyAt(eventsMap, Sending(ni, m), x)
        /\ \A nj \in NI : Pending(eventsMap, Sending(nj, m)) => nj = ni
    BY <1>5, <2>1 DEF FifoStep, FifoInv, SentOnce
  <2>3. ASSUME Sending(ni, m) = e PROVE FALSE
    <3>1. PICK x \in Time : OnlyAt(eventsMap, e, x)
      BY <2>2, <2>3
    <3>2. ~Pending(q, e)
      BY <3>1, FifoFirst
    <3>. QED BY <1>5, <2>3, <3>2
  <2>4. \A x : OnlyAt(eventsMap, Sending(ni, m), x) => OnlyAt(q, Sending(ni, m), x)
    BY <2>3, FifoFirst DEF Keeps
  <2>. QED BY <1>5, <2>1, <2>2, <2>4
<1>6. ASSUME NEW ni \in NI, NEW m \in Msg, NEW i \in 1..N, s[i].event = Sending(ni, m)
      PROVE  /\ m \in unsent
             /\ m \notin unsent'
             /\ ~Pending(q, Sending(ni, m))
             /\ OnlyAt(r, Sending(ni, m), s[i].date)
             /\ \A nj \in NI, j \in 1..N : s[j].event = Sending(nj, m) => nj = ni
  <2>0. s[i].event.kind = "EnqueueOutgoing" /\ s[i].event.arg = m
    BY <1>3, <1>6
  <2>1. m \in unsent
    <3>1. PICK nj \in NI, n \in unsent : s[i].event = Sending(nj, n)
      BY <1>2, <2>0
    <3>2. n \in Msg /\ Sending(nj, n).arg = n
      BY <1>1, <1>3
    <3>. QED BY <2>0, <3>1, <3>2
  <2>2. m \notin unsent'
    <3>1. i \in Asked(s, "EnqueueOutgoing")
      BY <1>2, <2>0 DEF Asked
    <3>. QED BY <2>0, <3>1
  <2>3. ~Pending(q, Sending(ni, m))
    BY <1>5, <2>1
  <2>4. \A nj \in NI, j \in 1..N : s[j].event = Sending(nj, m) => j = i
    BY <1>2, <1>3, <2>0
  <2>5. \A nj \in NI, j \in 1..N : s[j].event = Sending(nj, m) => nj = ni
    BY <1>3, <1>6, <2>4
  <2>6. \A j \in 1..N : s[j].event = s[i].event => j = i
    BY <1>6, <2>4
  <2>7. OnlyAt(r, s[i].event, s[i].date)
    BY <1>0, <1>6, <2>3, <2>6 DEF AfterEach
  <2>. QED BY <1>6, <2>1, <2>2, <2>3, <2>5, <2>7
<1>7. ASSUME NEW ni \in NI, NEW m \in Msg, Pending(eventsMap', Sending(ni, m))
      PROVE  /\ m \notin unsent'
             /\ \E x \in Time : OnlyAt(eventsMap', Sending(ni, m), x)
             /\ \A nj \in NI : Pending(eventsMap', Sending(nj, m)) => nj = ni
  <2>1. \A x : OnlyAt(r, Sending(ni, m), x) => OnlyAt(eventsMap', Sending(ni, m), x)
    BY DEF Keeps, Sending, Event
  <2>2. CASE Pending(q, Sending(ni, m))
    <3>1. m \notin unsent
      BY <1>5, <2>2
    <3>2. \A i \in 1..N, nj \in NI : s[i].event # Sending(nj, m)
      BY <1>6, <3>1
    <3>3. PICK x \in Time : OnlyAt(q, Sending(ni, m), x)
      BY <1>5, <2>2
    <3>4. OnlyAt(r, Sending(ni, m), x)
      BY <1>0, <3>2, <3>3 DEF AfterEach
    <3>5. \A nj \in NI : Pending(eventsMap', Sending(nj, m)) => nj = ni
      BY <1>4, <1>5, <2>2, <3>2
    <3>. QED BY <2>1, <3>1, <3>3, <3>4, <3>5
  <2>3. CASE ~Pending(q, Sending(ni, m))
    <3>1. PICK i \in 1..N : s[i].event = Sending(ni, m) /\ s[i].date \in t..MaximumDate
      BY <1>4, <1>7, <2>3
    <3>2. /\ m \in unsent /\ m \notin unsent' /\ OnlyAt(r, Sending(ni, m), s[i].date)
          /\ \A nj \in NI, j \in 1..N : s[j].event = Sending(nj, m) => nj = ni
      BY <1>6, <3>1
    <3>3. s[i].date \in Time
      BY <1>1, <3>1 DEF Time
    <3>4. \A nj \in NI : Pending(eventsMap', Sending(nj, m)) => nj = ni
      BY <1>4, <1>5, <3>2
    <3>. QED BY <2>1, <3>2, <3>3, <3>4
  <2>. QED BY <2>2, <2>3
<1>8. SentOnce'
  BY <1>7 DEF SentOnce, Sending, Event
<1>9. Fresh' \subseteq Fresh
  <2>1. ASSUME NEW m \in Msg, NEW ni \in NI, Pending(eventsMap', Sending(ni, m))
        PROVE  m \in unsent \/ Pending(eventsMap, Sending(ni, m))
    BY <1>4, <1>5, <1>6, <2>1
  <2>. QED BY <2>1 DEF Fresh, Sending, Event
<1>. QED BY <1>8, <1>9

-----------------------------------------------------------------------------
(* The events of the handlers. *)

(* A ProcessLocal event for a list that had none.                          *)
LEMMA LocalEvents ==
  ASSUME NEW q \in [Time -> Seq(EventType)], NEW t \in Time, NEW b \in Block
  PROVE  /\ Keeps(Ordinary, t, q, ScheduleLocalEvent(q, t, b))
         /\ ScheduleLocalEvent(q, t, b) \in [Time -> Seq(EventType)]
<1>1. Keeps(Ordinary, t, q, q)
  BY DEF Keeps
<1>2. t \in Nat
  BY MaximumDateAssumption DEF Time
<1>3. Keeps(Ordinary, t, q, Schedule(q, t, t, Process(b)))
  BY <1>2, OrdinaryEvents, ScheduleOrdinary
<1>4. Keeps(Ordinary, t, q, ScheduleLocalEvent(q, t, b))
  BY <1>1, <1>3 DEF ScheduleLocalEvent, Process
<1>. QED BY <1>4 DEF Keeps

(* A transmission schedules its stop, takes the first message of the       *)
(* buffer and puts it on the wire.                                         *)
LEMMA Transmission ==
  ASSUME TypeOK, NEW t \in Time, NEW q \in [Time -> Seq(EventType)],
         NEW ni \in NI, outgoingQueue[ni] # <<>>, connectedInterface[ni] # NULL,
         Transmit(ni, t, q)
  PROVE  /\ Keeps(Ordinary, t, q, eventsMap')
         /\ outgoingQueue'[ni] = Tail(outgoingQueue[ni])
         /\ messageBeingTransmitted'[ni] # NULL
         /\ messageBeingTransmitted'[ni].msg = Head(outgoingQueue[ni])
         /\ messageBeingTransmitted'[ni].src = ni
         /\ \A nj \in NI : nj # ni => /\ outgoingQueue'[nj] = outgoingQueue[nj]
                                     /\ messageBeingTransmitted'[nj] = messageBeingTransmitted[nj]
<1>. DEFINE packet == [msg |-> Head(outgoingQueue[ni]), src |-> ni,
                       dst |-> connectedInterface[ni]]
<1>1. PICK duration \in TransmissionTime :
        /\ outgoingQueue' = [outgoingQueue EXCEPT ![ni] = Tail(@)]
        /\ messageBeingTransmitted' = [messageBeingTransmitted EXCEPT ![ni] = packet]
        /\ eventsMap' = Schedule(q, t, t + duration, Stop(ni))
  BY DEF Transmit, Stop
<1>2. t \in Nat /\ duration \in Nat /\ t + duration \in Nat
  BY TimingAssumption, MaximumDateAssumption DEF Time
<1>3. Keeps(Ordinary, t, q, eventsMap')
  BY <1>1, <1>2, OrdinaryEvents, ScheduleOrdinary
<1>4. packet \in Packet
  BY HeadTailProperties DEF TypeOK, Packet
<1>5. packet # NULL
  BY <1>4, TopologyAssumption DEF Packet
<1>6. packet.msg = Head(outgoingQueue[ni]) /\ packet.src = ni
  OBVIOUS
<1>. HIDE DEF packet
<1>. QED BY <1>1, <1>3, <1>5, <1>6 DEF TypeOK

(* No handler but the calls of the block code and the start of a motion    *)
(* schedules a send or a motion.                                           *)
LEMMA NotifyEvents ==
  ASSUME NEW t, NEW e, NEW q, FifoStep(t, e, q), Notify(t, e, q)
  PROVE  e.on \in NI /\ e.on[1] \in Block /\ Keeps(Ordinary, t, q, eventsMap')
<1>1. e.on \in NI /\ e.on[1] \in Block
  BY FifoFirst, EventShape DEF Notify, InterfaceEventKind, NI
<1>. QED BY <1>1, FifoFirst, LocalEvents DEF Notify

(* The same for a message that enters a buffer, or is refused.             *)
LEMMA EnqueueEvents ==
  ASSUME NEW t, NEW e, NEW q, FifoStep(t, e, q), EnqueueOutgoing(t, e, q)
  PROVE  e.on \in NI /\ e.arg \in Msg /\ e = Sending(e.on, e.arg) /\ Keeps(Ordinary, t, q, eventsMap')
<1>1. e.on \in NI /\ e.arg \in Msg /\ e = Sending(e.on, e.arg)
  BY FifoFirst, EventShape DEF EnqueueOutgoing, Sending
<1>. DEFINE ni == e.on
            date == LatestDate(availabilityDate[ni], t)
<1>2. /\ t \in Time /\ q \in [Time -> Seq(EventType)]
      /\ date \in Nat
  BY <1>1, FifoFirst DEF TypeOK, LatestDate
<1>3. Keeps(Ordinary, t, q, q)
  BY <1>2 DEF Keeps
<1>4. Keeps(Ordinary, t, q, Schedule(q, t, date, Start(ni)))
  BY <1>1, <1>2, OrdinaryEvents, ScheduleOrdinary
<1>5. eventsMap' = q \/ eventsMap' = Schedule(q, t, date, Start(ni))
  BY DEF EnqueueOutgoing, Start
<1>. QED BY <1>1, <1>3, <1>4, <1>5

(* The same for the start of a transmission.                               *)
LEMMA StartEvents ==
  ASSUME NEW t, NEW e, NEW q, FifoStep(t, e, q), StartTransmitting(t, e, q)
  PROVE  /\ e.on \in NI /\ e = Start(e.on)
         /\ Keeps(Ordinary, t, q, eventsMap')
<1>1. e.on \in NI /\ e = Start(e.on)
  BY FifoFirst, EventShape DEF StartTransmitting, Start, InterfaceEventKind
<1>2. t \in Time /\ q \in [Time -> Seq(EventType)] /\ TypeOK
  BY FifoFirst
<1>3. Keeps(Ordinary, t, q, q)
  BY <1>2 DEF Keeps
<1>4. \/ eventsMap' = q
      \/ Linked(e.on) /\ outgoingQueue[e.on] # <<>> /\ Transmit(e.on, t, q)
  BY DEF StartTransmitting
<1>. QED BY <1>1, <1>2, <1>3, <1>4, Transmission DEF Linked

(* The same for the end of a transmission.                                 *)
LEMMA StopEvents ==
  ASSUME NEW t, NEW e, NEW q, FifoStep(t, e, q), StopTransmitting(t, e, q)
  PROVE  /\ e.on \in NI /\ e = Stop(e.on)
         /\ Keeps(Ordinary, t, q, eventsMap')
<1>. DEFINE ni == e.on
            peer == connectedInterface[ni]
            queued == IF peer = NULL THEN q ELSE ScheduleLocalEvent(q, t, peer[1])
<1>1. ni \in NI /\ e = Stop(ni)
  BY FifoFirst, EventShape DEF StopTransmitting, Stop, InterfaceEventKind
<1>2. t \in Time /\ q \in [Time -> Seq(EventType)] /\ TypeOK
  BY FifoFirst
<1>3. peer # NULL => peer[1] \in Block
  BY <1>1, <1>2 DEF TypeOK, NI
<1>4. Keeps(Ordinary, t, q, q)
  BY <1>2 DEF Keeps
<1>5. Keeps(Ordinary, t, q, queued) /\ queued \in [Time -> Seq(EventType)]
  BY <1>2, <1>3, <1>4, LocalEvents
<1>6. \/ eventsMap' = queued
      \/ outgoingQueue[ni] # <<>> /\ peer # NULL /\ Transmit(ni, t, queued)
  BY DEF StopTransmitting
<1>. HIDE DEF queued
<1>7. CASE eventsMap' = queued
  BY <1>1, <1>5, <1>7
<1>8. CASE outgoingQueue[ni] # <<>> /\ peer # NULL /\ Transmit(ni, t, queued)
  <2>1. Keeps(Ordinary, t, queued, eventsMap')
    BY <1>1, <1>2, <1>5, <1>8, Transmission
  <2>2. Keeps(Ordinary \cup Ordinary, t, q, eventsMap')
    BY <1>5, <2>1, KeepsTrans
  <2>3. Ordinary \cup Ordinary \subseteq Ordinary
    OBVIOUS
  <2>. QED BY <1>1, <2>2, <2>3, KeepsMore
<1>. QED BY <1>6, <1>7, <1>8

(* The start of a motion schedules its stop, later.                        *)
LEMMA TranslationStartEvents ==
  ASSUME NEW t, NEW e, NEW q, FifoStep(t, e, q), TranslationStart(t, e, q)
  PROVE  /\ e.on \in Block /\ e.arg \in Cell
         /\ e = Motion("TranslationStart", e.on, e.arg)
         /\ Keeps(Ordinary \cup {Motion("TranslationStop", e.on, e.arg)}, t, q, eventsMap')
         /\ \E d \in Nat : t < d /\ OnlyAt(eventsMap', Motion("TranslationStop", e.on, e.arg), d)
<1>. DEFINE b == e.on
            c == e.arg
            new == Motion("TranslationStop", b, c)
            r == ScheduleAll(q, t, t, Notices("RemoveNeighbor", CutInterfaces(b)))
<1>1. /\ b \in Block /\ c \in Cell /\ e = Motion("TranslationStart", b, c)
      /\ new \in EventType /\ new # e
  <2>1. e.kind = "TranslationStart" /\ e.kind \in MotionKind
    BY DEF TranslationStart, MotionKind
  <2>2. b \in Block /\ c \in Cell /\ e = Motion("TranslationStart", b, c)
    BY <2>1, FifoFirst, EventShape DEF Motion
  <2>3. new # e
    BY <2>1 DEF Motion, Event
  <2>. QED BY <2>2, <2>3, EventTypes DEF MotionKind
<1>2. t \in Time /\ t \in Nat /\ q \in [Time -> Seq(EventType)] /\ TypeOK
  BY FifoFirst
<1>3. PICK duration \in MotionTime : eventsMap' = Schedule(r, t, t + duration, new)
  BY DEF TranslationStart, StopDate, Motion
<1>4. duration \in Nat /\ t + duration \in Nat /\ t < t + duration
  <2>1. duration \in Nat /\ TransmissionTime \subseteq Nat
    BY TimingAssumption
  <2>2. PICK d \in TransmissionTime : d < duration
    BY MotionsAreSlower, TimingAssumption
  <2>3. d \in Nat
    BY <2>1
  <2>. QED BY <1>2, <2>1, <2>2, <2>3
<1>5. Keeps(OfKind("RemoveNeighbor"), t, q, r)
  <2>1. CutInterfaces(b) \in SUBSET NI
    BY <1>1, <1>2, CutsAre DEF TypeOK
  <2>. QED BY <1>2, <2>1, NoticesType, ScheduleAllKeeps
<1>6. ~Pending(r, new)
  <2>1. Exclusive("TranslationStart", b, c)
    BY <1>1, FifoFirst DEF IInv, MotionsAreExclusive, MotionKind
  <2>2. ~Pending(eventsMap, new)
    BY <1>1, <2>1 DEF Exclusive, MotionKind
  <2>3. ~Pending(q, new)
    BY <1>1, <2>2, FifoFirst DEF Keeps
  <2>4. new \notin OfKind("RemoveNeighbor")
    BY DEF OfKind, Motion, Event
  <2>. QED BY <1>5, <2>3, <2>4 DEF Keeps
<1>. HIDE DEF r, new
<1>7. r \in [Time -> Seq(EventType)]
  BY <1>5 DEF Keeps
<1>8. /\ Keeps({new}, t, r, eventsMap')
      /\ OnlyAt(eventsMap', new, t + duration)
  BY <1>1, <1>2, <1>3, <1>4, <1>6, <1>7, ScheduleKeeps
<1>9. Keeps(OfKind("RemoveNeighbor") \cup {new}, t, q, eventsMap')
  BY <1>5, <1>8, KeepsTrans
<1>10. OfKind("RemoveNeighbor") \cup {new} \subseteq Ordinary \cup {new}
  BY OrdinaryEvents
<1>. QED BY <1>1, <1>4, <1>8, <1>9, <1>10, KeepsMore DEF new

(* The stop of a motion schedules notifications and the end.               *)
LEMMA TranslationStopEvents ==
  ASSUME NEW t, NEW e, NEW q, FifoStep(t, e, q), TranslationStop(t, e, q)
  PROVE  /\ e.on \in Block /\ e.arg \in Cell
         /\ e = Motion("TranslationStop", e.on, e.arg)
         /\ Joins(e.on, e.arg)
         /\ UNCHANGED <<interfaceVars, localEventsList, codeVars, exited>>
         /\ Keeps(Ordinary, t, q, eventsMap')
<1>. DEFINE b == e.on
            c == e.arg
            end == Event("TranslationEnd", b, NULL)
<1>1. /\ b \in Block /\ c \in Cell /\ e = Motion("TranslationStop", b, c)
      /\ end \in Ordinary
  <2>1. e.kind = "TranslationStop" /\ e.kind \in MotionKind
    BY DEF TranslationStop, MotionKind
  <2>2. b \in Block /\ c \in Cell /\ e = Motion("TranslationStop", b, c)
    BY <2>1, FifoFirst, EventShape DEF Motion
  <2>. QED BY <2>2, OrdinaryEvents
<1>2. /\ t \in Time /\ t \in Nat /\ q \in [Time -> Seq(EventType)]
      /\ t + EndDelay \in Nat
  <2>1. t \in Time /\ t \in Nat /\ q \in [Time -> Seq(EventType)]
    BY FifoFirst
  <2>2. EndDelay \in Nat
    BY TimingAssumption
  <2>. QED BY <2>1, <2>2
<1>3. /\ Joins(b, c)
      /\ UNCHANGED <<interfaceVars, localEventsList, codeVars, exited>>
      /\ \E ns \in Seq(NoticeEvent) :
           eventsMap' = Schedule(ScheduleAll(q, t, t, ns), t, t + EndDelay, end)
  <2>1. Exclusive("TranslationStop", b, c)
    BY <1>1, FifoFirst DEF IInv, MotionsAreExclusive, MotionKind
  <2>2. grid[c] = NULL /\ \A x \in Cell : grid[x] # b
    BY <2>1 DEF Exclusive
  <2>3. LatticeTyped /\ GridMatchesPositions /\ LinksMatchLattice
    BY FifoFirst DEF LatticeTyped, IInv, TypeOK
  <2>. QED BY <1>1, <2>2, <2>3, ArrivalEffect
<1>4. PICK ns \in Seq(NoticeEvent) :
        eventsMap' = Schedule(ScheduleAll(q, t, t, ns), t, t + EndDelay, end)
  BY <1>3
<1>. DEFINE r == ScheduleAll(q, t, t, ns)
<1>5. Keeps(NoticeEvent, t, q, r)
  BY <1>2, NoticesKeep
<1>6. r \in [Time -> Seq(EventType)] /\ eventsMap' = Schedule(r, t, t + EndDelay, end)
  BY <1>4, <1>5 DEF Keeps
<1>. HIDE DEF r
<1>7. Keeps(Ordinary, t, r, eventsMap')
  BY <1>1, <1>2, <1>6, ScheduleOrdinary
<1>8. Keeps(NoticeEvent \cup Ordinary, t, q, eventsMap')
  BY <1>5, <1>7, KeepsTrans
<1>9. NoticeEvent \cup Ordinary \subseteq Ordinary
  BY OrdinaryEvents
<1>10. Keeps(Ordinary, t, q, eventsMap')
  BY <1>8, <1>9, KeepsMore
<1>. QED BY <1>1, <1>3, <1>10

(* A call of the block code schedules sends or the start of a motion, and  *)
(* keeps SentOnce.                                                         *)
LEMMA CodeEvents ==
  ASSUME NEW t, NEW e, NEW q, FifoStep(t, e, q),
         NEW b \in Block, NEW after \in Seq(EventType),
         \A i \in DOMAIN after : after[i] \in OfKind("ProcessLocal"),
         BlockCode(b, t, q, after)
  PROVE  /\ SentOnce' /\ Fresh' \subseteq Fresh
         /\ \E Y : /\ Keeps(Y, t, q, eventsMap')
                   /\ \A f \in Y : f.kind # "TranslationStop"
<1>1. t \in Time /\ t \in Nat /\ q \in [Time -> Seq(EventType)] /\ unsent \in SUBSET Msg
  BY FifoFirst DEF TypeOK
<1>2. ASSUME NEW mid \in [Time -> Seq(EventType)], eventsMap' = ScheduleAll(mid, t, t, after)
      PROVE  Keeps(OfKind("ProcessLocal"), t, mid, eventsMap')
  BY <1>1, <1>2, ScheduleAllKeeps
<1>3. PICK s \in Requests(b, t, q) :
        /\ eventsMap' = ScheduleAll(ScheduleEach(q, t, s), t, t, after)
        /\ unsent' = unsent \ {s[i].event.arg : i \in Asked(s, "EnqueueOutgoing")}
  BY DEF BlockCode
<1>. DEFINE mid == ScheduleEach(q, t, s)
            Y == {s[i].event : i \in DOMAIN s}
<1>4. /\ s \in Seq(DatedBy(EventType)) /\ DOMAIN s = 1..Len(s)
      /\ \A f \in Y : f.kind # "TranslationStop"
  <2>1. s \in Seq(DatedBy(EventType))
    BY <1>1, RequestsType
  <2>2. DOMAIN s = 1..Len(s)
    BY <2>1, DatedEvents
  <2>3. \A i \in DOMAIN s : s[i].event.kind \in {"EnqueueOutgoing", "TranslationStart"}
    BY <1>1, RequestsType
  <2>. QED BY <2>1, <2>2, <2>3
<1>5. Keeps(Y, t, q, mid)
  <2>1. AfterEach(EventType, q, t, s, Len(s), mid)
    BY <1>1, <1>4, ScheduleEachEffect
  <2>2. \A f : f \notin Y => \A i \in 1..Len(s) : s[i].event # f
    BY <1>4
  <2>. HIDE DEF mid, Y
  <2>. QED BY <2>1, <2>2 DEF AfterEach, Keeps
<1>. HIDE DEF Y
<1>6. Keeps(OfKind("ProcessLocal"), t, mid, eventsMap')
  BY <1>2, <1>3, <1>5 DEF Keeps
<1>7. Keeps(Y \cup OfKind("ProcessLocal"), t, q, eventsMap')
  BY <1>5, <1>6, KeepsTrans
<1>8. \A f \in OfKind("ProcessLocal") : f.kind # "EnqueueOutgoing" /\ f.kind # "TranslationStop"
  BY DEF OfKind
<1>9. SentOnce' /\ Fresh' \subseteq Fresh
  BY <1>3, <1>6, <1>8, CodeSends
<1>. QED BY <1>4, <1>7, <1>8, <1>9

-----------------------------------------------------------------------------
(* The messages received and not handled. *)

(* They are all with one block, the peer if there is one.                  *)
LEMMA Holder ==
  ASSUME FifoInv, TypeOK, NEW ni \in NI
  PROVE  \E c \in Block :
           /\ OnlyWith(localEventsList, ni, c)
           /\ connectedInterface[ni] # NULL => connectedInterface[ni][1] = c
<1>1. ni[1] \in Block /\ (connectedInterface[ni] # NULL => connectedInterface[ni][1] \in Block)
  BY DEF TypeOK, NI
<1>2. ASSUME NEW b \in Block, HoldsIn(localEventsList, b, ni)
      PROVE  /\ OnlyWith(localEventsList, ni, b)
             /\ connectedInterface[ni] # NULL => connectedInterface[ni][1] = b
  BY <1>2 DEF FifoInv, OneHolder, OnlyWith, HoldsIn, Holds
<1>3. CASE \E b \in Block : HoldsIn(localEventsList, b, ni)
  BY <1>2, <1>3
<1>4. CASE ~\E b \in Block : HoldsIn(localEventsList, b, ni)
  <2>1. \A c \in Block : OnlyWith(localEventsList, ni, c)
    BY <1>4 DEF OnlyWith
  <2>2. CASE connectedInterface[ni] = NULL
    BY <1>1, <2>1, <2>2
  <2>3. CASE connectedInterface[ni] # NULL
    BY <1>1, <2>1, <2>3
  <2>. QED BY <2>2, <2>3
<1>. QED BY <1>3, <1>4

(* A block that holds messages handles the next one at the current date.   *)
LEMMA HeldIsNow ==
  ASSUME NEW t, NEW e, NEW q, FifoStep(t, e, q),
         NEW b \in Block, NEW ni \in NI, HoldsIn(localEventsList, b, ni)
  PROVE  t = now
<1>1. localEventsList[b] # <<>>
  BY DEF HoldsIn
<1>2. ListServed(b)
  BY FifoFirst DEF IInv, LocalListIsServed
<1>3. OnlyAt(eventsMap, Process(b), now) /\ Pending(eventsMap, Process(b))
  BY <1>1, <1>2 DEF ListServed
<1>. QED BY <1>3, FifoFirst

(* A notification is no message. *)
LEMMA NotifyLists ==
  ASSUME NEW t, NEW e, NEW q, FifoStep(t, e, q), Notify(t, e, q), NEW ni \in NI
  PROVE  /\ ArrivedIn(localEventsList', ni) = ArrivedIn(localEventsList, ni)
         /\ \A b \in Block : HoldsIn(localEventsList', b, ni) => HoldsIn(localEventsList, b, ni)
<1>. DEFINE l == Notice(e.kind)
            b == e.on[1]
<1>1. b \in Block
  BY NotifyEvents
<1>2. l \in LocalEvent /\ ~IsFrom(l, ni) /\ MessageOf(ni, l) = <<>>
  BY DEF Notify, Notice, LocalEvent, IsFrom, MessageOf
<1>3. localEventsList' = [localEventsList EXCEPT ![b] = Append(@, l)]
  BY DEF Notify
<1>4. PICK c \in Block : OnlyWith(localEventsList, ni, c)
  BY FifoFirst, Holder DEF FifoStep
<1>5. localEventsList \in [Block -> Seq(LocalEvent)]
  BY FifoFirst DEF TypeOK
<1>. HIDE DEF b, l
<1>6. Arrives(localEventsList, localEventsList', b, l, ni, c)
  BY <1>1, <1>2, <1>3, <1>4, <1>5 DEF Arrives
<1>7. ASSUME NEW a \in Block
      PROVE  /\ ArrivedIn(localEventsList', ni) = ArrivedIn(localEventsList, ni) \o MessageOf(ni, l)
             /\ ArrivedIn(localEventsList, ni) \in Seq(Msg)
             /\ HoldsIn(localEventsList', a, ni) <=>
                  HoldsIn(localEventsList, a, ni) \/ (a = b /\ IsFrom(l, ni))
  BY <1>6, ArrivedAppend
<1>8. ArrivedIn(localEventsList, ni) \o <<>> = ArrivedIn(localEventsList, ni)
  BY <1>1, <1>7
<1>. QED BY <1>1, <1>2, <1>7, <1>8

(* The block code handles the oldest local event of its block. *)
LEMMA ProcessLists ==
  ASSUME NEW t, NEW e, NEW q, FifoStep(t, e, q), ProcessLocal(t, e, q)
  PROVE  /\ e.on \in Block /\ localEventsList[e.on] # <<>>
         /\ Head(localEventsList[e.on]) \in LocalEvent
         /\ Resume(e.on) \in Seq(EventType)
         /\ \A i \in DOMAIN Resume(e.on) : Resume(e.on)[i] \in OfKind("ProcessLocal")
         /\ BlockCode(e.on, t, q, Resume(e.on))
         /\ UNCHANGED <<worldVars, interfaceVars, exited>>
         /\ \A ni \in NI :
              /\ ArrivedIn(localEventsList, ni) =
                   MessageOf(ni, Head(localEventsList[e.on])) \o ArrivedIn(localEventsList', ni)
              /\ ArrivedIn(localEventsList', ni) \in Seq(Msg)
              /\ \A b \in Block : HoldsIn(localEventsList', b, ni) => HoldsIn(localEventsList, b, ni)
<1>. DEFINE b == e.on
            l == Head(localEventsList[b])
<1>1. b \in Block /\ e = Process(b)
  BY FifoFirst, EventShape DEF ProcessLocal, Process, BlockEventKind
<1>2. localEventsList[b] # <<>>
  BY <1>1, FifoFirst DEF IInv, LocalListIsServed, ListServed
<1>3. /\ localEventsList' = [localEventsList EXCEPT ![b] = Tail(@)]
      /\ BlockCode(b, t, q, Resume(b))
      /\ UNCHANGED <<worldVars, interfaceVars, exited>>
  BY <1>2 DEF ProcessLocal
<1>4. localEventsList \in [Block -> Seq(LocalEvent)]
  BY FifoFirst DEF TypeOK
<1>5. /\ Resume(b) \in Seq(EventType)
      /\ \A i \in DOMAIN Resume(b) : Resume(b)[i] \in OfKind("ProcessLocal")
  <2>1. Process(b) \in EventType /\ Process(b) \in OfKind("ProcessLocal")
    BY <1>1, EventTypes DEF OfKind, Process, Event
  <2>2. CASE Resume(b) = <<>>
    BY <2>2
  <2>3. CASE Resume(b) = <<Process(b)>>
    BY <2>1, <2>3
  <2>. QED BY <2>2, <2>3 DEF Resume, Process
<1>6. l \in LocalEvent
  BY <1>1, <1>2, <1>4, HeadTailProperties
<1>. HIDE DEF b
<1>7. ASSUME NEW ni \in NI
      PROVE  /\ ArrivedIn(localEventsList, ni) = MessageOf(ni, l) \o ArrivedIn(localEventsList', ni)
             /\ ArrivedIn(localEventsList', ni) \in Seq(Msg)
             /\ \A a \in Block : HoldsIn(localEventsList', a, ni) => HoldsIn(localEventsList, a, ni)
  <2>1. PICK c \in Block : OnlyWith(localEventsList, ni, c)
    BY FifoFirst, Holder DEF FifoStep
  <2>. HIDE DEF l
  <2>2. l = Head(localEventsList[b])
    BY DEF l
  <2>3. Handles(localEventsList, localEventsList', b, ni, c)
    BY <1>1, <1>2, <1>3, <1>4, <2>1 DEF Handles
  <2>4. ASSUME NEW a \in Block
        PROVE  /\ ArrivedIn(localEventsList, ni) = MessageOf(ni, l) \o ArrivedIn(localEventsList', ni)
               /\ ArrivedIn(localEventsList', ni) \in Seq(Msg)
               /\ HoldsIn(localEventsList', a, ni) => HoldsIn(localEventsList, a, ni)
    BY <2>2, <2>3, ArrivedTail
  <2>. QED BY <1>1, <2>4
<1>. QED BY <1>1, <1>2, <1>3, <1>5, <1>6, <1>7 DEF b

(* The message on the wire comes behind those received from its interface. *)
LEMMA StopLists ==
  ASSUME NEW t, NEW e, NEW q, FifoStep(t, e, q), StopTransmitting(t, e, q),
         NEW ni, ni = e.on, NEW nj \in NI
  PROVE  /\ ni \in NI
         /\ messageBeingTransmitted[ni] # NULL /\ messageBeingTransmitted[ni].msg \in Msg
         /\ connectedInterface[ni] = NULL => localEventsList' = localEventsList
         /\ connectedInterface[ni] # NULL =>
              /\ nj # ni =>
                   /\ ArrivedIn(localEventsList', nj) = ArrivedIn(localEventsList, nj)
                   /\ \A b \in Block : HoldsIn(localEventsList', b, nj) =>
                                       HoldsIn(localEventsList, b, nj)
              /\ ArrivedIn(localEventsList', ni) =
                   ArrivedIn(localEventsList, ni) \o <<messageBeingTransmitted[ni].msg>>
              /\ \A b \in Block : HoldsIn(localEventsList', b, ni) =>
                   HoldsIn(localEventsList, b, ni) \/ b = connectedInterface[ni][1]
<1>. DEFINE p == messageBeingTransmitted[ni]
            l == Received(p)
            b == connectedInterface[ni][1]
<1>1. ni \in NI /\ e = Stop(ni)
  BY StopEvents
<1>2. p # NULL /\ p \in Packet /\ p.src = ni /\ p.msg \in Msg
  <2>1. OneStop(ni)
    BY <1>1, FifoFirst DEF IInv, WireHasOneStop
  <2>2. p # NULL
    BY <1>1, <2>1, FifoFirst DEF OneStop
  <2>3. p \in Packet
    BY <1>1, <2>2, FifoFirst DEF TypeOK
  <2>4. p.src = ni
    BY <1>1, <2>2 DEF FifoStep, FifoInv, WireHasItsSource
  <2>. QED BY <2>2, <2>3, <2>4 DEF Packet
<1>3. /\ connectedInterface[ni] = NULL => localEventsList' = localEventsList
      /\ connectedInterface[ni] # NULL =>
           localEventsList' = [localEventsList EXCEPT ![b] = Append(@, l)]
  BY DEF StopTransmitting
<1>4. /\ l \in LocalEvent /\ \A n \in NI : IsFrom(l, n) <=> n = ni
      /\ MessageOf(ni, l) = <<p.msg>>
      /\ \A n \in NI : n # ni => MessageOf(n, l) = <<>>
  <2>1. l \in LocalEvent /\ l.kind = "NIReceive" /\ l.packet = p
    BY <1>2 DEF Received, LocalEvent
  <2>2. \A n \in NI : IsFrom(l, n) <=> n = ni
    BY <1>2, <2>1 DEF IsFrom
  <2>. HIDE DEF l
  <2>. QED BY <1>1, <2>1, <2>2 DEF MessageOf
<1>5. localEventsList \in [Block -> Seq(LocalEvent)]
  BY FifoFirst DEF TypeOK
<1>6. CASE connectedInterface[ni] # NULL
  <2>1. b \in Block
    BY <1>1, <1>6, FifoFirst DEF TypeOK, NI
  <2>2. PICK c \in Block : OnlyWith(localEventsList, nj, c)
    BY FifoFirst, Holder DEF FifoStep
  <2>3. PICK i \in Block : OnlyWith(localEventsList, ni, i) /\ i = b
    BY <1>1, <1>6, FifoFirst, Holder DEF FifoStep
  <2>4. localEventsList' = [localEventsList EXCEPT ![b] = Append(@, l)]
    BY <1>3, <1>6
  <2>. HIDE DEF b, l
  <2>5. Arrives(localEventsList, localEventsList', b, l, ni, i)
    BY <1>1, <1>4, <1>5, <2>1, <2>3, <2>4 DEF Arrives
  <2>6. ASSUME NEW a \in Block
        PROVE  /\ ArrivedIn(localEventsList', ni) = ArrivedIn(localEventsList, ni) \o MessageOf(ni, l)
               /\ HoldsIn(localEventsList', a, ni) <=>
                    HoldsIn(localEventsList, a, ni) \/ (a = b /\ IsFrom(l, ni))
    BY <1>1, <1>4, <2>5, ArrivedAppend
  <2>7. ASSUME nj # ni
        PROVE  /\ ArrivedIn(localEventsList', nj) = ArrivedIn(localEventsList, nj)
               /\ \A a \in Block : HoldsIn(localEventsList', a, nj) => HoldsIn(localEventsList, a, nj)
    <3>1. ~IsFrom(l, nj) /\ MessageOf(nj, l) = <<>> /\ (IsFrom(l, nj) => c = b)
      BY <1>4, <2>7
    <3>2. Arrives(localEventsList, localEventsList', b, l, nj, c)
      BY <1>4, <1>5, <2>1, <2>2, <2>4, <3>1 DEF Arrives
    <3>3. ASSUME NEW a \in Block
          PROVE  /\ ArrivedIn(localEventsList', nj) = ArrivedIn(localEventsList, nj) \o MessageOf(nj, l)
                 /\ ArrivedIn(localEventsList, nj) \in Seq(Msg)
                 /\ HoldsIn(localEventsList', a, nj) <=>
                      HoldsIn(localEventsList, a, nj) \/ (a = b /\ IsFrom(l, nj))
      BY <3>2, ArrivedAppend
    <3>4. ArrivedIn(localEventsList, nj) \o <<>> = ArrivedIn(localEventsList, nj)
      BY <2>1, <3>3
    <3>. QED BY <2>1, <3>1, <3>3, <3>4
  <2>. QED BY <1>1, <1>2, <1>4, <1>6, <2>1, <2>6, <2>7 DEF b
<1>7. CASE connectedInterface[ni] = NULL
  BY <1>1, <1>2, <1>3, <1>7
<1>. QED BY <1>6, <1>7

-----------------------------------------------------------------------------
(* FifoInv, action by action. *)

(* OneHolder of an interface and a block, in the lists ls.                 *)
HolderOf(ls, ni, b) ==
  /\ connectedInterface[ni] # NULL => connectedInterface[ni][1] = b
  /\ OnlyWith(ls, ni, b)
  /\ \A a \in Block, c \in Cell, d \in Time :
       /\ Pending(eventsMap, Motion("TranslationStop", a, c))
       /\ OnlyAt(eventsMap, Motion("TranslationStop", a, c), d)
       /\ Watches(ni, a, c)
       => now < d

(* OneHolder says that of every block that holds messages of ni.           *)
LEMMA OneHolderMeans ==
  /\ OneHolder <=> \A ni \in NI, b \in Block :
                     HoldsIn(localEventsList, b, ni) => HolderOf(localEventsList, ni, b)
  /\ OneHolder' <=> \A ni \in NI, b \in Block :
                      HoldsIn(localEventsList', b, ni) => HolderOf(localEventsList, ni, b)'
BY DEF OneHolder, HolderOf, OnlyWith, HoldsIn, Holds, Motion, Event

(* The arrivals that a step leaves are those that were expected.           *)
LEMMA KeptStops ==
  ASSUME NEW t, NEW e, NEW q, FifoStep(t, e, q),
         NEW Y, Keeps(Y, t, q, eventsMap'),
         NEW a \in Block, NEW c \in Cell, NEW d \in Time,
         Motion("TranslationStop", a, c) \notin Y,
         Pending(eventsMap', Motion("TranslationStop", a, c)),
         OnlyAt(eventsMap', Motion("TranslationStop", a, c), d)
  PROVE  /\ Pending(eventsMap, Motion("TranslationStop", a, c))
         /\ OnlyAt(eventsMap, Motion("TranslationStop", a, c), d)
         /\ Motion("TranslationStop", a, c) # e
<1>. DEFINE stop == Motion("TranslationStop", a, c)
<1>1. Pending(q, stop) /\ \A x : OnlyAt(q, stop, x) => OnlyAt(eventsMap', stop, x)
  BY DEF Keeps
<1>2. Pending(eventsMap, stop)
  BY <1>1, FifoFirst DEF Keeps
<1>3. PICK x \in Time : OnlyAt(eventsMap, stop, x)
  BY <1>2, FifoFirst DEF IInv, MotionsAreExclusive, Exclusive, MotionKind
<1>. HIDE DEF stop
<1>4. ASSUME stop = e PROVE FALSE
  <2>1. OnlyAt(eventsMap, e, x)
    BY <1>3, <1>4 DEF stop
  <2>2. ~Pending(q, e)
    BY <2>1, FifoFirst
  <2>. QED BY <1>1, <1>4, <2>2 DEF stop
<1>5. OnlyAt(q, stop, x)
  BY <1>3, <1>4, FifoFirst DEF Keeps
<1>6. x = d
  <2>1. OnlyAt(eventsMap', stop, x) /\ OnlyAt(eventsMap', stop, d) /\ Pending(eventsMap', stop)
    BY <1>1, <1>5 DEF stop
  <2>. QED BY <2>1, OneDate
<1>. QED BY <1>2, <1>3, <1>4, <1>6 DEF stop

(* A step that leaves the lattice alone, and gives messages to no block    *)
(* but the peer of their interface.                                        *)
LEMMA KeptHolders ==
  ASSUME NEW t, NEW e, NEW q, FifoStep(t, e, q),
         NEW Y, Keeps(Y, t, q, eventsMap'), \A f \in Y : f.kind # "TranslationStop",
         UNCHANGED <<grid, position, connectedInterface>>,
         \A ni \in NI, b \in Block : HoldsIn(localEventsList', b, ni) =>
           \/ HoldsIn(localEventsList, b, ni)
           \/ connectedInterface[ni] # NULL /\ b = connectedInterface[ni][1]
  PROVE  OneHolder'
<1>1. ASSUME NEW ni \in NI, NEW b \in Block, HoldsIn(localEventsList', b, ni)
      PROVE  HolderOf(localEventsList, ni, b)'
  <2>1. CASE connectedInterface[ni] # NULL
    <3>1. PICK c \in Block : OnlyWith(localEventsList, ni, c) /\ connectedInterface[ni][1] = c
      BY <2>1, FifoFirst, Holder DEF FifoStep
    <3>2. b = c /\ OnlyWith(localEventsList', ni, c)
      BY <1>1, <3>1 DEF OnlyWith
    <3>3. \A a \in Block, x \in Cell :
            ~(Pending(eventsMap, Motion("TranslationStop", a, x)) /\ Watches(ni, a, x))
      BY <2>1, FifoFirst, ArrivalsAreUnlinked
    <3>4. ASSUME NEW a \in Block, NEW x \in Cell, NEW d \in Time,
                 Pending(eventsMap', Motion("TranslationStop", a, x)),
                 OnlyAt(eventsMap', Motion("TranslationStop", a, x), d),
                 Watches(ni, a, x)'
          PROVE  FALSE
      <4>1. Motion("TranslationStop", a, x) \notin Y
        BY DEF Motion, Event
      <4>2. Pending(eventsMap, Motion("TranslationStop", a, x))
        BY <3>4, <4>1, KeptStops
      <4>3. Watches(ni, a, x)
        BY <3>4 DEF Watches, InGrid
      <4>. QED BY <3>3, <4>2, <4>3
    <3>. QED BY <3>1, <3>2, <3>4 DEF HolderOf, Motion, Event
  <2>2. CASE connectedInterface[ni] = NULL
    <3>1. HoldsIn(localEventsList, b, ni)
      BY <1>1, <2>2
    <3>2. HolderOf(localEventsList, ni, b)
      BY <3>1, OneHolderMeans DEF FifoStep, FifoInv
    <3>3. now' = now
      <4>1. t = now
        BY <3>1, HeldIsNow
      <4>. QED BY <4>1, FifoFirst
    <3>4. OnlyWith(localEventsList', ni, b)
      BY <2>2, <3>2 DEF HolderOf, OnlyWith
    <3>5. ASSUME NEW a \in Block, NEW x \in Cell, NEW d \in Time,
                 Pending(eventsMap', Motion("TranslationStop", a, x)),
                 OnlyAt(eventsMap', Motion("TranslationStop", a, x), d),
                 Watches(ni, a, x)'
          PROVE  now' < d
      <4>1. Motion("TranslationStop", a, x) \notin Y
        BY DEF Motion, Event
      <4>2. /\ Pending(eventsMap, Motion("TranslationStop", a, x))
            /\ OnlyAt(eventsMap, Motion("TranslationStop", a, x), d)
        BY <3>5, <4>1, KeptStops
      <4>3. Watches(ni, a, x)
        BY <3>5 DEF Watches, InGrid
      <4>. QED BY <3>2, <3>3, <4>2, <4>3 DEF HolderOf
    <3>. QED BY <2>2, <3>4, <3>5 DEF HolderOf, Motion, Event
  <2>. QED BY <2>1, <2>2
<1>. QED BY <1>1, OneHolderMeans

(* The start of a motion cuts links, and its stop is later.                *)
LEMMA TranslationStartHolders ==
  ASSUME NEW t, NEW e, NEW q, FifoStep(t, e, q), TranslationStart(t, e, q)
  PROVE  OneHolder'
<1>. DEFINE new == Motion("TranslationStop", e.on, e.arg)
<1>1. /\ Keeps(Ordinary \cup {new}, t, q, eventsMap')
      /\ \E d \in Nat : t < d /\ OnlyAt(eventsMap', new, d)
      /\ e.on \in Block
  BY TranslationStartEvents
<1>2. PICK d0 \in Nat : t < d0 /\ OnlyAt(eventsMap', new, d0)
  BY <1>1
<1>3. /\ connectedInterface' =
           [ni \in NI |-> IF ni \in CutInterfaces(e.on) THEN NULL ELSE connectedInterface[ni]]
      /\ grid' = [grid EXCEPT ![position[e.on]] = NULL]
      /\ position' = position /\ localEventsList' = localEventsList
  BY DEF TranslationStart, DisconnectBlock
<1>. HIDE DEF new
<1>4. \A a \in Block : InGrid(grid', position', a) => InGrid(grid, position, a)
  BY <1>3, FifoFirst, TopologyAssumption DEF InGrid, TypeOK
<1>5. ASSUME NEW ni \in NI, NEW b \in Block, HoldsIn(localEventsList', b, ni)
      PROVE  HolderOf(localEventsList, ni, b)'
  <2>1. HoldsIn(localEventsList, b, ni)
    BY <1>3, <1>5
  <2>2. HolderOf(localEventsList, ni, b)
    BY <2>1, OneHolderMeans DEF FifoStep, FifoInv
  <2>3. now' = now /\ now' = t
    <3>1. t = now
      BY <2>1, HeldIsNow
    <3>. QED BY <3>1, FifoFirst
  <2>4. connectedInterface'[ni] # NULL => connectedInterface'[ni][1] = b
    BY <1>3, <2>2 DEF HolderOf
  <2>5. OnlyWith(localEventsList', ni, b)
    BY <1>3, <2>2 DEF HolderOf
  <2>6. ASSUME NEW a \in Block, NEW x \in Cell, NEW d \in Time,
               Pending(eventsMap', Motion("TranslationStop", a, x)),
               OnlyAt(eventsMap', Motion("TranslationStop", a, x), d),
               Watches(ni, a, x)'
        PROVE  now' < d
    <3>1. CASE Motion("TranslationStop", a, x) = new
      <4>1. d = d0
        BY <1>2, <2>6, <3>1, OneDate
      <4>. QED BY <1>2, <2>3, <4>1
    <3>2. CASE Motion("TranslationStop", a, x) # new
      <4>1. Motion("TranslationStop", a, x) \notin Ordinary \cup {new}
        BY <3>2 DEF Ordinary, Motion, Event
      <4>2. /\ Pending(eventsMap, Motion("TranslationStop", a, x))
            /\ OnlyAt(eventsMap, Motion("TranslationStop", a, x), d)
        BY <1>1, <2>6, <4>1, KeptStops
      <4>3. Watches(ni, a, x)
        BY <1>3, <1>4, <2>6 DEF Watches, NI
      <4>. QED BY <2>2, <2>3, <4>2, <4>3 DEF HolderOf
    <3>. QED BY <3>1, <3>2
  <2>. QED BY <2>4, <2>5, <2>6 DEF HolderOf, Motion, Event
<1>. QED BY <1>5, OneHolderMeans

(* The stop of a motion links interfaces whose messages are all handled.   *)
LEMMA TranslationStopHolders ==
  ASSUME NEW t, NEW e, NEW q, FifoStep(t, e, q), TranslationStop(t, e, q)
  PROVE  OneHolder'
<1>. DEFINE b0 == e.on
            c0 == e.arg
<1>1. /\ b0 \in Block /\ c0 \in Cell /\ e = Motion("TranslationStop", b0, c0)
      /\ Keeps(Ordinary, t, q, eventsMap')
  BY TranslationStopEvents
<1>2. /\ grid[c0] = NULL /\ OnlyAt(eventsMap, e, t) /\ Pending(eventsMap, e)
      /\ \A x \in Cell : grid[x] # b0
  <2>1. Exclusive("TranslationStop", b0, c0) /\ Pending(eventsMap, e)
    BY <1>1, FifoFirst DEF IInv, MotionsAreExclusive, MotionKind
  <2>2. PICK x \in Time : OnlyAt(eventsMap, e, x)
    BY <1>1, <2>1 DEF Exclusive
  <2>3. x = t
    BY <2>2, FifoFirst
  <2>. QED BY <2>1, <2>2, <2>3 DEF Exclusive
<1>3. /\ position' = [position EXCEPT ![b0] = c0]
      /\ grid' = [grid EXCEPT ![c0] = b0]
      /\ connectedInterface' = LinksIn(grid', position')
      /\ localEventsList' = localEventsList
  BY TranslationStopEvents DEF Joins
<1>. HIDE DEF b0, c0
<1>4. /\ grid' \in [Cell -> Block \cup {NULL}] /\ grid'[c0] = b0
      /\ \A x \in Cell : x # c0 => grid'[x] = grid[x]
      /\ \A a \in Block : a # b0 => position'[a] = position[a]
      /\ position \in [Block -> Cell \cup {NULL}] /\ NULL \notin Block
  <2>1. /\ grid \in [Cell -> Block \cup {NULL}] /\ position \in [Block -> Cell \cup {NULL}]
        /\ NULL \notin Block
    BY FifoFirst, TopologyAssumption DEF TypeOK
  <2>. QED BY <1>1, <1>3, <2>1
<1>5. \A a \in Block : a # b0 => (InGrid(grid', position', a) <=> InGrid(grid, position, a))
  BY <1>1, <1>2, <1>4, TopologyAssumption DEF InGrid
<1>6. ASSUME NEW ni \in NI, ~Watches(ni, b0, c0)
      PROVE  connectedInterface'[ni] = connectedInterface[ni]
  <2>. DEFINE a == ni[1]
              x == NeighborCell[position[a]][ni[2]]
  <2>1. /\ a \in Block /\ a # b0 /\ ni[2] \in Dir
        /\ InGrid(grid, position, a) => x # c0
    BY <1>6 DEF Watches, NI
  <2>2. /\ connectedInterface[ni] = PeerIn(grid, position, ni)
        /\ connectedInterface'[ni] = PeerIn(grid', position', ni)
    BY <1>3, FifoFirst DEF IInv, LinksMatchLattice, LinksIn
  <2>3. position'[a] = position[a]
    BY <1>4, <2>1
  <2>4. CASE ~InGrid(grid, position, a)
    BY <1>5, <2>1, <2>2, <2>4 DEF PeerIn
  <2>5. CASE InGrid(grid, position, a)
    <3>1. x = NULL \/ x \in Cell
      BY <1>4, <2>1, <2>5, TopologyAssumption DEF InGrid
    <3>2. x # NULL => grid'[x] = grid[x]
      BY <1>4, <2>1, <2>5, <3>1
    <3>3. PeerIn(grid', position', ni) = PeerIn(grid, position, ni)
      BY <1>5, <2>1, <2>3, <2>5, <3>2 DEF PeerIn
    <3>. QED BY <2>2, <3>3
  <2>. QED BY <2>4, <2>5
<1>7. ASSUME NEW ni \in NI, NEW b \in Block, HoldsIn(localEventsList', b, ni)
      PROVE  HolderOf(localEventsList, ni, b)'
  <2>1. HoldsIn(localEventsList, b, ni)
    BY <1>3, <1>7
  <2>2. HolderOf(localEventsList, ni, b)
    BY <2>1, OneHolderMeans DEF FifoStep, FifoInv
  <2>3. now' = now /\ now' = t /\ t \in Nat /\ t \in Time
    <3>1. t = now
      BY <2>1, HeldIsNow
    <3>. QED BY <3>1, FifoFirst
  <2>4. ~Watches(ni, b0, c0)
    <3>1. ~(now < t)
      BY <2>3
    <3>. QED BY <1>1, <1>2, <2>2, <2>3, <3>1 DEF HolderOf
  <2>5. connectedInterface'[ni] = connectedInterface[ni]
    BY <1>6, <2>4
  <2>6. OnlyWith(localEventsList', ni, b)
    BY <1>3, <2>2 DEF HolderOf
  <2>7. ASSUME NEW a \in Block, NEW x \in Cell, NEW d \in Time,
               Pending(eventsMap', Motion("TranslationStop", a, x)),
               OnlyAt(eventsMap', Motion("TranslationStop", a, x), d),
               Watches(ni, a, x)'
        PROVE  now' < d
    <3>1. Motion("TranslationStop", a, x) \notin Ordinary
      BY DEF Ordinary, Motion, Event
    <3>2. /\ Pending(eventsMap, Motion("TranslationStop", a, x))
          /\ OnlyAt(eventsMap, Motion("TranslationStop", a, x), d)
      BY <1>1, <2>7, <3>1, KeptStops
    <3>3. ni[1] # b0 /\ ni[1] \in Block
      BY <2>4 DEF Watches, NI
    <3>4. Watches(ni, a, x)
      BY <1>4, <1>5, <2>7, <3>3 DEF Watches
    <3>. QED BY <2>2, <2>3, <3>2, <3>4 DEF HolderOf
  <2>. QED BY <2>2, <2>5, <2>6, <2>7 DEF HolderOf, Motion, Event
<1>. QED BY <1>7, OneHolderMeans

-----------------------------------------------------------------------------
(* The channel of a link. *)

(* A sequence is a prefix of what it begins, and loses its first element.  *)
LEMMA Prefix ==
  ASSUME NEW x \in Seq(Msg), NEW y \in Seq(Msg)
  PROVE  x \in Link!Prefixes(x \o y)
<1>1. /\ Len(x) \in Nat /\ x \o y \in Seq(Msg)
      /\ Len(x) \in 0..Len(x \o y)
  BY ConcatProperties
<1>2. SubSeq(x \o y, 1, Len(x)) = x
  <2>1. CASE Len(x) = 0
    <3>1. x = <<>>
      BY <2>1
    <3>2. SubSeq(x \o y, 1, 0) = <<>>
      BY SubSeqEmpty
    <3>. QED BY <2>1, <3>1, <3>2
  <2>2. CASE Len(x) # 0
    <3>1. 1 \in 1..Len(x) /\ Len(x) \in 1..Len(x)
      BY <1>1, <2>2
    <3>2. SubSeq(x \o y, 1, Len(x)) = SubSeq(x, 1, Len(x))
      BY <3>1, SubSeqOfConcat1
    <3>. QED BY <3>2, SubSeqFull
  <2>. QED BY <2>1, <2>2
<1>. QED BY <1>1, <1>2 DEF Link!Prefixes

(* The tail of a sequence that begins with one element is the rest.        *)
LEMMA TailOfOne ==
  ASSUME NEW m \in Msg, NEW z \in Seq(Msg)
  PROVE  <<m>> \o z # <<>> /\ Tail(<<m>> \o z) = z
<1>. DEFINE s == <<m>> \o z
<1>1. /\ <<m>> \in Seq(Msg) /\ Len(<<m>>) = 1 /\ Len(z) \in Nat
      /\ s \in Seq(Msg) /\ Len(s) = 1 + Len(z)
      /\ \A i \in 1..(1 + Len(z)) : s[i] = IF i <= 1 THEN <<m>>[i] ELSE z[i - 1]
  BY ConcatProperties
<1>2. s # <<>>
  BY <1>1
<1>. HIDE DEF s
<1>3. /\ Tail(s) \in Seq(Msg) /\ Len(Tail(s)) = Len(z)
      /\ \A i \in 1..Len(z) : Tail(s)[i] = s[i + 1]
  BY <1>1, <1>2, HeadTailProperties
<1>4. \A i \in 1..Len(z) : Tail(s)[i] = z[i]
  BY <1>1, <1>3
<1>5. Tail(s) = z
  BY <1>1, <1>3, <1>4
<1>. QED BY <1>2, <1>5 DEF s

(* The channel, part by part, before a step and after it.                  *)
LEMMA ChannelParts ==
  /\ Channel = [ni \in NI |-> Channel[ni]]
  /\ Channel' = [ni \in NI |-> Channel'[ni]]
  /\ \A ni \in NI :
       /\ Channel[ni] = (ArrivedIn(localEventsList, ni) \o OnWire(ni)) \o outgoingQueue[ni]
       /\ Channel'[ni] = (ArrivedIn(localEventsList', ni) \o OnWire(ni)') \o outgoingQueue'[ni]
<1>1. \A ni \in NI : /\ Arrived(ni) = ArrivedIn(localEventsList, ni)
                     /\ Arrived(ni)' = ArrivedIn(localEventsList', ni)
  BY DEF Arrived, ArrivedIn, Holds, HoldsIn
<1>. QED BY <1>1 DEF Channel

(* Its parts are sequences of messages.                                    *)
LEMMA PartsType ==
  ASSUME FifoInv, TypeOK, NEW ni \in NI
  PROVE  /\ ArrivedIn(localEventsList, ni) \in Seq(Msg)
         /\ OnWire(ni) \in Seq(Msg) /\ outgoingQueue[ni] \in Seq(Msg)
         /\ ArrivedIn(localEventsList, ni) \o OnWire(ni) \in Seq(Msg)
         /\ (ArrivedIn(localEventsList, ni) \o OnWire(ni)) \o outgoingQueue[ni] \in Seq(Msg)
<1>1. ArrivedIn(localEventsList, ni) \in Seq(Msg)
  <2>1. PICK c \in Block : OnlyWith(localEventsList, ni, c)
    BY Holder
  <2>2. localEventsList \in [Block -> Seq(LocalEvent)]
    BY DEF TypeOK
  <2>. QED BY <2>1, <2>2, ArrivedWith
<1>2. OnWire(ni) \in Seq(Msg)
  <2>1. messageBeingTransmitted[ni] # NULL => messageBeingTransmitted[ni].msg \in Msg
    BY DEF TypeOK, Packet
  <2>. QED BY <2>1 DEF OnWire
<1>3. outgoingQueue[ni] \in Seq(Msg)
  BY DEF TypeOK
<1>. QED BY <1>1, <1>2, <1>3

(* A step that changes no channel, or cuts a channel that is down.         *)
LEMMA ChangeStep ==
  ASSUME FifoInv, TypeOK, Fresh' \subseteq Fresh,
         \A ni \in NI :
           \/ Channel'[ni] = Channel[ni]
           \/ /\ ~(Linked(ni) /\ Linked(ni)')
              /\ Channel'[ni] \in Link!Prefixes(Channel[ni])
  PROVE  Link!Next
<1>1. ASSUME NEW ni \in NI
      PROVE  Channel[ni] \in Link!Prefixes(Channel[ni])
  <2>1. Channel[ni] \in Seq(Msg)
    BY ChannelParts, PartsType
  <2>2. Channel[ni] \o <<>> = Channel[ni]
    BY <2>1
  <2>3. \A x, y \in Seq(Msg) : x \in Link!Prefixes(x \o y)
    BY Prefix
  <2>4. <<>> \in Seq(Msg)
    OBVIOUS
  <2>5. Channel[ni] \in Link!Prefixes(Channel[ni] \o <<>>)
    BY <2>1, <2>3, <2>4
  <2>. QED BY <2>2, <2>5
<1>2. Up' \in [NI -> BOOLEAN] /\ \A ni \in NI : Up[ni] = Linked(ni) /\ Up'[ni] = Linked(ni)'
  BY DEF Up, Linked
<1>3. Link!Change
  BY <1>1, <1>2 DEF Link!Change
<1>. QED BY <1>3 DEF Link!Next

-----------------------------------------------------------------------------
(* Every action keeps FifoInv, and is a step of the links.                 *)

(* A step that leaves lists, wires and buffers alone.                      *)
LEMMA SameChannels ==
  ASSUME FifoInv, TypeOK, SentOnce', OneHolder', Fresh' \subseteq Fresh,
         UNCHANGED <<localEventsList, messageBeingTransmitted, outgoingQueue>>
  PROVE  FifoInv' /\ Link!Next
<1>1. WireHasItsSource'
  BY DEF WireHasItsSource, FifoInv
<1>2. \A ni \in NI : Channel'[ni] = Channel[ni]
  BY ChannelParts DEF OnWire
<1>. QED BY <1>1, <1>2, ChangeStep DEF FifoInv

(* The call of a block code sends or refuses messages.                     *)
LEMMA CodeStartLinks ==
  ASSUME NEW t, NEW e, NEW q, FifoStep(t, e, q), CodeStart(t, e, q)
  PROVE  FifoInv' /\ Link!Next
<1>. DEFINE none == <<>>
<1>1. e.on \in Block
  BY FifoFirst, EventShape DEF CodeStart, BlockEventKind
<1>2. /\ none \in Seq(EventType) /\ \A i \in DOMAIN none : none[i] \in OfKind("ProcessLocal")
      /\ BlockCode(e.on, t, q, none)
      /\ UNCHANGED <<worldVars, interfaceVars, localEventsList>>
  BY DEF CodeStart
<1>. HIDE DEF none
<1>3. /\ SentOnce' /\ Fresh' \subseteq Fresh
      /\ \E Y : Keeps(Y, t, q, eventsMap') /\ \A f \in Y : f.kind # "TranslationStop"
  BY <1>1, <1>2, CodeEvents
<1>4. OneHolder'
  BY <1>2, <1>3, KeptHolders DEF worldVars
<1>. QED BY <1>2, <1>3, <1>4, FifoFirst, SameChannels DEF FifoStep, interfaceVars

(* A notification passes by the messages.                                  *)
LEMMA NotifyLinks ==
  ASSUME NEW t, NEW e, NEW q, FifoStep(t, e, q), Notify(t, e, q)
  PROVE  FifoInv' /\ Link!Next
<1>1. Keeps(Ordinary, t, q, eventsMap')
  BY NotifyEvents
<1>2. UNCHANGED <<worldVars, interfaceVars, codeVars>>
  BY DEF Notify
<1>3. SentOnce' /\ Fresh' \subseteq Fresh
  BY <1>1, <1>2, KeptSends DEF Ordinary, codeVars
<1>4. OneHolder'
  BY <1>1, <1>2, NotifyLists, KeptHolders DEF Ordinary, worldVars
<1>5. WireHasItsSource'
  BY <1>2 DEF WireHasItsSource, FifoStep, FifoInv, interfaceVars
<1>6. \A ni \in NI : Channel'[ni] = Channel[ni]
  BY <1>2, NotifyLists, ChannelParts DEF OnWire, interfaceVars
<1>. QED BY <1>3, <1>4, <1>5, <1>6, FifoFirst, ChangeStep DEF FifoStep, FifoInv

(* The block code handles the oldest message of a link, or a notification. *)
LEMMA ProcessLocalLinks ==
  ASSUME NEW t, NEW e, NEW q, FifoStep(t, e, q), ProcessLocal(t, e, q)
  PROVE  FifoInv' /\ Link!Next
<1>. DEFINE b == e.on
            l == Head(localEventsList[b])
<1>1. /\ b \in Block /\ l \in LocalEvent
      /\ BlockCode(b, t, q, Resume(b))
      /\ UNCHANGED <<worldVars, interfaceVars>>
      /\ \A ni \in NI :
           /\ ArrivedIn(localEventsList, ni) = MessageOf(ni, l) \o ArrivedIn(localEventsList', ni)
           /\ ArrivedIn(localEventsList', ni) \in Seq(Msg)
           /\ \A a \in Block : HoldsIn(localEventsList', a, ni) => HoldsIn(localEventsList, a, ni)
  BY ProcessLists
<1>2. /\ SentOnce' /\ Fresh' \subseteq Fresh
      /\ \E Y : Keeps(Y, t, q, eventsMap') /\ \A f \in Y : f.kind # "TranslationStop"
  BY <1>1, ProcessLists, CodeEvents
<1>. HIDE DEF b, l
<1>3. OneHolder'
  BY <1>1, <1>2, KeptHolders DEF worldVars
<1>4. WireHasItsSource'
  BY <1>1 DEF WireHasItsSource, FifoStep, FifoInv, interfaceVars
<1>5. FifoInv'
  BY <1>2, <1>3, <1>4 DEF FifoInv
<1>6. Up' = Up
  BY <1>1 DEF Up, Linked, worldVars
<1>7. \A ni \in NI : OnWire(ni)' = OnWire(ni) /\ outgoingQueue'[ni] = outgoingQueue[ni]
  BY <1>1 DEF OnWire, interfaceVars
<1>8. ASSUME NEW ni \in NI, ~IsFrom(l, ni)
      PROVE  Channel'[ni] = Channel[ni]
  <2>1. ArrivedIn(localEventsList, ni) = <<>> \o ArrivedIn(localEventsList', ni)
    BY <1>1, <1>8 DEF MessageOf
  <2>2. ArrivedIn(localEventsList, ni) = ArrivedIn(localEventsList', ni)
    BY <1>1, <2>1
  <2>. QED BY <1>7, <2>2, ChannelParts
<1>9. CASE \A ni \in NI : ~IsFrom(l, ni)
  <2>1. \A ni \in NI : Channel'[ni] = Channel[ni]
    BY <1>8, <1>9
  <2>. QED BY <1>2, <1>5, <2>1, FifoFirst, ChangeStep DEF FifoStep
<1>10. CASE \E ni \in NI : IsFrom(l, ni)
  <2>1. PICK ni \in NI : IsFrom(l, ni)
    BY <1>10
  <2>2. \A nj \in NI : nj # ni => Channel'[nj] = Channel[nj]
    BY <1>8, <2>1 DEF IsFrom
  <2>. DEFINE m == l.packet.msg
              r == ArrivedIn(localEventsList', ni)
              w == OnWire(ni)
              z == outgoingQueue[ni]
  <2>3. /\ MessageOf(ni, l) = <<m>> /\ m \in Msg /\ <<m>> \in Seq(Msg)
    BY <1>1, <2>1, MessageType
  <2>4. r \in Seq(Msg) /\ w \in Seq(Msg) /\ z \in Seq(Msg)
    BY <1>1, FifoFirst, PartsType DEF FifoStep
  <2>5. Channel[ni] = ((<<m>> \o r) \o w) \o z /\ Channel'[ni] = (r \o w) \o z
    <3>1. ArrivedIn(localEventsList, ni) = <<m>> \o r
      BY <1>1, <2>3
    <3>. QED BY <1>7, <3>1, ChannelParts
  <2>. HIDE DEF m, r, w, z
  <2>6. ((<<m>> \o r) \o w) \o z = <<m>> \o ((r \o w) \o z) /\ (r \o w) \o z \in Seq(Msg)
    <3>1. \A x, y, u \in Seq(Msg) : (x \o y) \o u = x \o (y \o u)
      BY Associative
    <3>2. r \o w \in Seq(Msg) /\ (r \o w) \o z \in Seq(Msg)
      BY <2>4
    <3>3. (<<m>> \o r) \o w = <<m>> \o (r \o w)
      BY <2>3, <2>4, <3>1
    <3>4. (<<m>> \o (r \o w)) \o z = <<m>> \o ((r \o w) \o z)
      BY <2>3, <2>4, <3>1, <3>2
    <3>. QED BY <3>2, <3>3, <3>4
  <2>7. Channel[ni] # <<>> /\ Channel'[ni] = Tail(Channel[ni])
    BY <2>3, <2>5, <2>6, TailOfOne
  <2>8. Channel' = [Channel EXCEPT ![ni] = Tail(@)]
    BY <2>2, <2>7, ChannelParts
  <2>9. Link!Handle(ni)
    BY <1>2, <1>6, <2>7, <2>8 DEF Link!Handle
  <2>. QED BY <1>5, <2>9 DEF Link!Next
<1>. QED BY <1>9, <1>10

-----------------------------------------------------------------------------
(* A message is put in the buffer of its interface, or refused.            *)
LEMMA EnqueueOutgoingLinks ==
  ASSUME NEW t, NEW e, NEW q, FifoStep(t, e, q), EnqueueOutgoing(t, e, q)
  PROVE  FifoInv' /\ Link!Next
<1>1. \A x, y, u \in Seq(Msg) : (x \o y) \o u = x \o (y \o u)
  BY Associative
<1>. DEFINE ni == e.on
            m == e.arg
<1>2. ni \in NI /\ m \in Msg /\ e = Sending(ni, m) /\ Keeps(Ordinary, t, q, eventsMap')
  BY EnqueueEvents
<1>3. /\ UNCHANGED <<worldVars, localEventsList, messageBeingTransmitted>> /\ unsent' = unsent
      /\ \/ ~Linked(ni) /\ outgoingQueue' = outgoingQueue
         \/ Linked(ni) /\ outgoingQueue' = [outgoingQueue EXCEPT ![ni] = Append(@, m)]
  BY DEF EnqueueOutgoing, PushBack, interfaceVars, codeVars
<1>. HIDE DEF ni, m
<1>4. /\ SentOnce' /\ Fresh' \subseteq Fresh
      /\ \A nj \in NI, n \in Msg :
           Pending(eventsMap', Sending(nj, n)) <=>
             Pending(eventsMap, Sending(nj, n)) /\ Sending(nj, n) # e
  BY <1>2, <1>3, KeptSends DEF Ordinary
<1>5. OneHolder'
  BY <1>2, <1>3, KeptHolders DEF Ordinary, worldVars
<1>6. CASE ~Linked(ni) /\ outgoingQueue' = outgoingQueue
  BY <1>3, <1>4, <1>5, <1>6, FifoFirst, SameChannels DEF FifoStep
<1>7. CASE Linked(ni) /\ outgoingQueue' = [outgoingQueue EXCEPT ![ni] = Append(@, m)]
  <2>1. WireHasItsSource'
    BY <1>3 DEF WireHasItsSource, FifoStep, FifoInv
  <2>2. FifoInv'
    BY <1>4, <1>5, <2>1 DEF FifoInv
  <2>3. TypeOK /\ FifoInv
    BY FifoFirst DEF FifoStep
  <2>. DEFINE r == ArrivedIn(localEventsList, ni)
              w == OnWire(ni)
              z == outgoingQueue[ni]
  <2>4. r \in Seq(Msg) /\ w \in Seq(Msg) /\ z \in Seq(Msg) /\ r \o w \in Seq(Msg)
        /\ (r \o w) \o z \in Seq(Msg)
    BY <1>2, <2>3, PartsType
  <2>5. /\ outgoingQueue'[ni] = Append(z, m)
        /\ \A nj \in NI : nj # ni => outgoingQueue'[nj] = outgoingQueue[nj]
    BY <1>2, <1>7, <2>3 DEF TypeOK
  <2>6. \A nj \in NI : OnWire(nj)' = OnWire(nj)
    BY <1>3 DEF OnWire
  <2>7. /\ Channel[ni] = (r \o w) \o z /\ Channel'[ni] = (r \o w) \o Append(z, m)
        /\ \A nj \in NI : nj # ni => Channel'[nj] = Channel[nj]
    BY <1>2, <1>3, <2>5, <2>6, ChannelParts
  <2>. HIDE DEF r, w, z
  <2>8. (r \o w) \o Append(z, m) = Append((r \o w) \o z, m)
    <3>1. <<m>> \in Seq(Msg)
      BY <1>2
    <3>2. Append(z, m) = z \o <<m>> /\ Append((r \o w) \o z, m) = ((r \o w) \o z) \o <<m>>
      BY <1>2, <2>4, AppendIsConcat
    <3>3. ((r \o w) \o z) \o <<m>> = (r \o w) \o (z \o <<m>>)
      BY <1>1, <2>4, <3>1
    <3>. QED BY <3>2, <3>3
  <2>9. Channel' = [Channel EXCEPT ![ni] = Append(@, m)]
    BY <1>2, <2>7, <2>8, ChannelParts
  <2>10. m \in Fresh /\ Fresh' = Fresh \ {m}
    <3>1. Pending(eventsMap, Sending(ni, m))
      BY <1>2, FifoFirst
    <3>2. m \notin unsent /\ \A nj \in NI : Pending(eventsMap, Sending(nj, m)) => nj = ni
      BY <1>2, <2>3, <3>1 DEF FifoInv, SentOnce
    <3>3. /\ \A n \in Msg : n \in Fresh <=> n \in unsent \/ \E nj \in NI : Pending(eventsMap, Sending(nj, n))
          /\ \A n \in Msg : n \in Fresh' <=> n \in unsent \/ \E nj \in NI : Pending(eventsMap', Sending(nj, n))
          /\ Fresh \subseteq Msg /\ Fresh' \subseteq Msg
      BY <1>3, <2>3 DEF Fresh, Sending, Event, TypeOK
    <3>4. m \in Fresh
      BY <1>2, <3>1, <3>3
    <3>5. m \notin Fresh'
      BY <1>2, <1>4, <3>2, <3>3
    <3>6. \A n \in Msg : n # m => \A nj \in NI : Sending(nj, n) # e
      BY <1>2 DEF Sending, Event
    <3>7. \A n \in Msg : n # m => (n \in Fresh' <=> n \in Fresh)
      BY <1>4, <3>3, <3>6
    <3>. QED BY <1>2, <3>3, <3>4, <3>5, <3>7
  <2>11. Up' = Up /\ Up[ni]
    BY <1>2, <1>3, <1>7 DEF Up, Linked, worldVars
  <2>12. Link!Accept(ni)
    BY <2>9, <2>10, <2>11 DEF Link!Accept
  <2>. QED BY <1>2, <2>2, <2>12 DEF Link!Next
<1>. QED BY <1>3, <1>6, <1>7

(* What begins the buffer may as well be said to end what comes before it. *)
LEMMA FirstMoves ==
  ASSUME NEW r \in Seq(Msg), NEW z \in Seq(Msg), z # <<>>
  PROVE  (r \o <<>>) \o z = (r \o <<Head(z)>>) \o Tail(z)
<1>1. \A x, y, u \in Seq(Msg) : (x \o y) \o u = x \o (y \o u)
  BY Associative
<1>2. Head(z) \in Msg /\ <<Head(z)>> \in Seq(Msg) /\ Tail(z) \in Seq(Msg)
  OBVIOUS
<1>3. <<Head(z)>> \o Tail(z) = z
  OBVIOUS
<1>4. r \o <<>> = r
  OBVIOUS
<1>5. (r \o <<Head(z)>>) \o Tail(z) = r \o (<<Head(z)>> \o Tail(z))
  BY <1>1, <1>2
<1>. QED BY <1>3, <1>4, <1>5

(* A transmission that begins: the message passes from buffer to wire.     *)
LEMMA StartTransmittingLinks ==
  ASSUME NEW t, NEW e, NEW q, FifoStep(t, e, q), StartTransmitting(t, e, q)
  PROVE  FifoInv' /\ Link!Next
<1>. DEFINE ni == e.on
<1>1. ni \in NI /\ e = Start(ni) /\ Keeps(Ordinary, t, q, eventsMap')
  BY StartEvents
<1>2. /\ UNCHANGED <<worldVars, localEventsList>> /\ unsent' = unsent
      /\ \/ UNCHANGED <<outgoingQueue, messageBeingTransmitted>>
         \/ Linked(ni) /\ outgoingQueue[ni] # <<>> /\ Transmit(ni, t, q)
  BY DEF StartTransmitting, interfaceVars, codeVars
<1>. HIDE DEF ni
<1>3. SentOnce' /\ Fresh' \subseteq Fresh
  BY <1>1, <1>2, KeptSends DEF Ordinary
<1>4. OneHolder'
  BY <1>1, <1>2, KeptHolders DEF Ordinary, worldVars
<1>5. CASE UNCHANGED <<outgoingQueue, messageBeingTransmitted>>
  BY <1>2, <1>3, <1>4, <1>5, FifoFirst, SameChannels DEF FifoStep
<1>6. CASE Linked(ni) /\ outgoingQueue[ni] # <<>> /\ Transmit(ni, t, q)
  <2>1. TypeOK /\ FifoInv /\ t \in Time /\ q \in [Time -> Seq(EventType)]
    BY FifoFirst DEF FifoStep
  <2>2. /\ outgoingQueue'[ni] = Tail(outgoingQueue[ni])
        /\ messageBeingTransmitted'[ni] # NULL
        /\ messageBeingTransmitted'[ni].msg = Head(outgoingQueue[ni])
        /\ messageBeingTransmitted'[ni].src = ni
        /\ \A nj \in NI : nj # ni => /\ outgoingQueue'[nj] = outgoingQueue[nj]
                                     /\ messageBeingTransmitted'[nj] = messageBeingTransmitted[nj]
    BY <1>1, <1>6, <2>1, Transmission DEF Linked
  <2>3. WireHasItsSource'
    BY <2>1, <2>2 DEF WireHasItsSource, FifoInv
  <2>4. FifoInv'
    BY <1>3, <1>4, <2>3 DEF FifoInv
  <2>5. messageBeingTransmitted[ni] = NULL
    BY <1>1, FifoFirst DEF IInv, BufferIsServed, Served
  <2>6. Channel'[ni] = Channel[ni]
    <3>. DEFINE r == ArrivedIn(localEventsList, ni)
                z == outgoingQueue[ni]
    <3>1. r \in Seq(Msg) /\ z \in Seq(Msg)
      BY <1>1, <2>1, PartsType
    <3>2. OnWire(ni) = <<>> /\ OnWire(ni)' = <<Head(z)>> /\ outgoingQueue'[ni] = Tail(z)
      BY <2>2, <2>5 DEF OnWire
    <3>3. Channel[ni] = (r \o <<>>) \o z /\ Channel'[ni] = (r \o <<Head(z)>>) \o Tail(z)
      BY <1>1, <1>2, <3>2, ChannelParts
    <3>4. z # <<>>
      BY <1>6
    <3>. HIDE DEF r, z
    <3>. QED BY <3>1, <3>3, <3>4, FirstMoves
  <2>7. ASSUME NEW nj \in NI, nj # ni
        PROVE  Channel'[nj] = Channel[nj]
    <3>1. OnWire(nj)' = OnWire(nj)
      BY <2>2, <2>7 DEF OnWire
    <3>2. outgoingQueue'[nj] = outgoingQueue[nj] /\ localEventsList' = localEventsList
      BY <1>2, <2>2, <2>7
    <3>. QED BY <3>1, <3>2, ChannelParts
  <2>. QED BY <1>3, <2>1, <2>4, <2>6, <2>7, ChangeStep
<1>. QED BY <1>2, <1>5, <1>6

-----------------------------------------------------------------------------
(* The end of a transmission: the message passes from the wire to the      *)
(* local events, or is lost with its link, and the next one follows.       *)
LEMMA StopTransmittingLinks ==
  ASSUME NEW t, NEW e, NEW q, FifoStep(t, e, q), StopTransmitting(t, e, q)
  PROVE  FifoInv' /\ Link!Next
<1>. DEFINE ni == e.on
            p == messageBeingTransmitted[ni]
            peer == connectedInterface[ni]
            queued == IF peer = NULL THEN q ELSE ScheduleLocalEvent(q, t, peer[1])
            r == ArrivedIn(localEventsList, ni)
            z == outgoingQueue[ni]
            m == messageBeingTransmitted[ni].msg
<1>1. ni \in NI /\ e = Stop(ni) /\ Keeps(Ordinary, t, q, eventsMap')
  BY StopEvents
<1>2. TypeOK /\ FifoInv /\ t \in Time /\ q \in [Time -> Seq(EventType)]
  BY FifoFirst DEF FifoStep
<1>3. /\ UNCHANGED worldVars /\ unsent' = unsent
      /\ \/ z # <<>> /\ peer # NULL /\ Transmit(ni, t, queued)
         \/ /\ z = <<>> \/ peer = NULL
            /\ messageBeingTransmitted' = [messageBeingTransmitted EXCEPT ![ni] = NULL]
            /\ outgoingQueue' = outgoingQueue
  BY DEF StopTransmitting, codeVars
<1>4. queued \in [Time -> Seq(EventType)]
  <2>1. peer # NULL => peer[1] \in Block
    BY <1>1, <1>2 DEF TypeOK, NI
  <2>2. CASE peer = NULL
    BY <1>2, <2>2
  <2>3. CASE peer # NULL
    BY <1>2, <2>1, <2>3, LocalEvents
  <2>. QED BY <2>2, <2>3
<1>. HIDE DEF queued
<1>5. /\ p # NULL /\ m \in Msg
      /\ peer = NULL => localEventsList' = localEventsList
      /\ peer # NULL => ArrivedIn(localEventsList', ni) = r \o <<m>>
  BY <1>1, StopLists
<1>6. \A nj \in NI : nj # ni => ArrivedIn(localEventsList', nj) = ArrivedIn(localEventsList, nj)
  BY StopLists
<1>7. SentOnce' /\ Fresh' \subseteq Fresh
  BY <1>1, <1>3, KeptSends DEF Ordinary
<1>8. OneHolder'
  <2>1. ASSUME NEW nj \in NI, NEW b \in Block, HoldsIn(localEventsList', b, nj)
        PROVE  \/ HoldsIn(localEventsList, b, nj)
               \/ connectedInterface[nj] # NULL /\ b = connectedInterface[nj][1]
    BY <2>1, StopLists
  <2>2. UNCHANGED <<grid, position, connectedInterface>>
    BY <1>3 DEF worldVars
  <2>3. \A f \in Ordinary : f.kind # "TranslationStop"
    BY DEF Ordinary
  <2>. QED BY <1>1, <2>1, <2>2, <2>3, KeptHolders
<1>9. ASSUME NEW nj \in NI, nj # ni
      PROVE  /\ messageBeingTransmitted'[nj] = messageBeingTransmitted[nj]
             /\ outgoingQueue'[nj] = outgoingQueue[nj]
  <2>1. CASE z # <<>> /\ peer # NULL /\ Transmit(ni, t, queued)
    BY <1>1, <1>2, <1>4, <1>9, <2>1, Transmission
  <2>2. CASE /\ messageBeingTransmitted' = [messageBeingTransmitted EXCEPT ![ni] = NULL]
             /\ outgoingQueue' = outgoingQueue
    BY <1>1, <1>2, <1>9, <2>2 DEF TypeOK
  <2>. QED BY <1>3, <2>1, <2>2
<1>10. \/ /\ z # <<>> /\ peer # NULL
          /\ outgoingQueue'[ni] = Tail(z)
          /\ OnWire(ni)' = <<Head(z)>>
          /\ messageBeingTransmitted'[ni].src = ni
       \/ /\ z = <<>> \/ peer = NULL
          /\ outgoingQueue'[ni] = z /\ OnWire(ni)' = <<>> /\ messageBeingTransmitted'[ni] = NULL
  <2>1. CASE z # <<>> /\ peer # NULL /\ Transmit(ni, t, queued)
    <3>1. /\ outgoingQueue'[ni] = Tail(outgoingQueue[ni])
          /\ messageBeingTransmitted'[ni] # NULL
          /\ messageBeingTransmitted'[ni].msg = Head(outgoingQueue[ni])
          /\ messageBeingTransmitted'[ni].src = ni
      BY <1>1, <1>2, <1>4, <2>1, Transmission
    <3>. QED BY <2>1, <3>1 DEF OnWire
  <2>2. CASE /\ z = <<>> \/ peer = NULL
             /\ messageBeingTransmitted' = [messageBeingTransmitted EXCEPT ![ni] = NULL]
             /\ outgoingQueue' = outgoingQueue
    <3>1. messageBeingTransmitted'[ni] = NULL
      BY <1>1, <1>2, <2>2 DEF TypeOK
    <3>. QED BY <2>2, <3>1 DEF OnWire
  <2>. QED BY <1>3, <2>1, <2>2
<1>11. FifoInv'
  <2>1. WireHasItsSource'
    BY <1>2, <1>9, <1>10 DEF WireHasItsSource, FifoInv
  <2>. QED BY <1>7, <1>8, <2>1 DEF FifoInv
<1>12. \A nj \in NI : nj # ni => Channel'[nj] = Channel[nj]
  BY <1>6, <1>9, ChannelParts DEF OnWire
<1>13. r \in Seq(Msg) /\ z \in Seq(Msg) /\ <<m>> \in Seq(Msg) /\ r \o <<m>> \in Seq(Msg)
  <2>1. r \in Seq(Msg) /\ z \in Seq(Msg)
    BY <1>1, <1>2, PartsType
  <2>. QED BY <1>5, <2>1
<1>14. Channel[ni] = (r \o <<m>>) \o z
  BY <1>1, <1>5, ChannelParts DEF OnWire
<1>15. Channel'[ni] = (ArrivedIn(localEventsList', ni) \o OnWire(ni)') \o outgoingQueue'[ni]
  BY <1>1, ChannelParts
<1>16. peer = NULL => z = <<>> /\ ~Linked(ni)
  BY <1>1, FifoFirst DEF IInv, BufferIsServed, Served, Linked
<1>. HIDE DEF r, z, m, p
<1>17. \/ Channel'[ni] = Channel[ni]
       \/ /\ ~(Linked(ni) /\ Linked(ni)')
          /\ Channel'[ni] \in Link!Prefixes(Channel[ni])
  <2>1. CASE z # <<>> /\ peer # NULL
    <3>1. Channel'[ni] = ((r \o <<m>>) \o <<Head(z)>>) \o Tail(z)
      BY <1>5, <1>10, <1>15, <2>1
    <3>2. ((r \o <<m>>) \o <<>>) \o z = ((r \o <<m>>) \o <<Head(z)>>) \o Tail(z)
      BY <1>13, <2>1, FirstMoves
    <3>3. (r \o <<m>>) \o <<>> = r \o <<m>>
      BY <1>13
    <3>. QED BY <1>14, <3>1, <3>2, <3>3
  <2>2. CASE z = <<>> /\ peer # NULL
    <3>1. Channel'[ni] = ((r \o <<m>>) \o <<>>) \o z
      BY <1>5, <1>10, <1>15, <2>2
    <3>2. (r \o <<m>>) \o <<>> = r \o <<m>>
      BY <1>13
    <3>. QED BY <1>14, <3>1, <3>2
  <2>3. CASE peer = NULL
    <3>1. ArrivedIn(localEventsList', ni) = r
      BY <1>5, <2>3 DEF r
    <3>2. Channel'[ni] = (r \o <<>>) \o <<>> /\ Channel[ni] = (r \o <<m>>) \o <<>>
      BY <1>10, <1>14, <1>15, <1>16, <2>3, <3>1
    <3>3. (r \o <<>>) \o <<>> = r /\ (r \o <<m>>) \o <<>> = r \o <<m>>
      BY <1>13
    <3>4. r \in Link!Prefixes(r \o <<m>>)
      BY <1>13, Prefix
    <3>. QED BY <1>16, <2>3, <3>2, <3>3, <3>4
  <2>. QED BY <2>1, <2>2, <2>3
<1>. QED BY <1>2, <1>7, <1>11, <1>12, <1>17, ChangeStep

(* The start of a motion cuts links: what waits in their buffers is lost.  *)
LEMMA TranslationStartLinks ==
  ASSUME NEW t, NEW e, NEW q, FifoStep(t, e, q), TranslationStart(t, e, q)
  PROVE  FifoInv' /\ Link!Next
<1>. DEFINE Y == Ordinary \cup {Motion("TranslationStop", e.on, e.arg)}
            cut == CutInterfaces(e.on)
<1>1. Keeps(Y, t, q, eventsMap') /\ \A f \in Y : f.kind # "EnqueueOutgoing"
  <2>1. Keeps(Y, t, q, eventsMap')
    BY TranslationStartEvents
  <2>2. Motion("TranslationStop", e.on, e.arg).kind = "TranslationStop"
    BY DEF Motion, Event
  <2>. QED BY <2>1, <2>2 DEF Ordinary
<1>. HIDE DEF Y
<1>2. TypeOK /\ FifoInv
  BY FifoFirst DEF FifoStep
<1>3. /\ unsent' = unsent
      /\ localEventsList' = localEventsList
      /\ messageBeingTransmitted' = messageBeingTransmitted
      /\ connectedInterface' = [ni \in NI |-> IF ni \in cut THEN NULL ELSE connectedInterface[ni]]
      /\ outgoingQueue' = [ni \in NI |-> IF ni \in cut THEN <<>> ELSE outgoingQueue[ni]]
  BY DEF TranslationStart, DisconnectBlock, codeVars
<1>. HIDE DEF cut
<1>4. SentOnce' /\ Fresh' \subseteq Fresh
  BY <1>1, <1>3, KeptSends
<1>5. FifoInv'
  <2>1. WireHasItsSource'
    BY <1>2, <1>3 DEF WireHasItsSource, FifoInv
  <2>. QED BY <1>4, <2>1, TranslationStartHolders DEF FifoInv
<1>6. ASSUME NEW ni \in NI
      PROVE  \/ Channel'[ni] = Channel[ni]
             \/ /\ ~(Linked(ni) /\ Linked(ni)')
                /\ Channel'[ni] \in Link!Prefixes(Channel[ni])
  <2>. DEFINE r == ArrivedIn(localEventsList, ni) \o OnWire(ni)
              z == outgoingQueue[ni]
  <2>1. Channel[ni] = r \o z /\ Channel'[ni] = r \o outgoingQueue'[ni]
    BY <1>3, ChannelParts DEF OnWire
  <2>2. r \in Seq(Msg) /\ z \in Seq(Msg)
    BY <1>2, PartsType
  <2>. HIDE DEF r
  <2>3. CASE ni \notin cut
    BY <1>3, <2>1, <2>3
  <2>4. CASE ni \in cut
    <3>1. Channel'[ni] = r \o <<>> /\ r \o <<>> = r
      BY <1>3, <2>1, <2>2, <2>4
    <3>2. r \in Link!Prefixes(r \o z)
      BY <2>2, Prefix
    <3>3. ~Linked(ni)'
      BY <1>3, <2>4 DEF Linked
    <3>. QED BY <2>1, <3>1, <3>2, <3>3
  <2>. QED BY <2>3, <2>4
<1>. QED BY <1>2, <1>4, <1>5, <1>6, ChangeStep

(* The end of a motion makes links, and changes no channel.                *)
LEMMA TranslationStopLinks ==
  ASSUME NEW t, NEW e, NEW q, FifoStep(t, e, q), TranslationStop(t, e, q)
  PROVE  FifoInv' /\ Link!Next
<1>1. Keeps(Ordinary, t, q, eventsMap')
  BY TranslationStopEvents
<1>2. UNCHANGED <<outgoingQueue, messageBeingTransmitted, localEventsList>> /\ unsent' = unsent
  BY DEF TranslationStop, interfaceVars, codeVars
<1>3. SentOnce' /\ Fresh' \subseteq Fresh
  BY <1>1, <1>2, KeptSends DEF Ordinary
<1>. QED BY <1>2, <1>3, FifoFirst, TranslationStopHolders, SameChannels DEF FifoStep

-----------------------------------------------------------------------------
(* At the start every channel is empty and every message is fresh.         *)
LEMMA InitFifo == Init => FifoInv /\ Link!Init
<1>. SUFFICES ASSUME Init PROVE FifoInv /\ Link!Init
  OBVIOUS
<1>1. \A ni \in NI, m \in Msg : ~Pending(eventsMap, Event("EnqueueOutgoing", ni, m))
  BY InitEvents
<1>2. /\ localEventsList = [b \in Block |-> <<>>]
      /\ messageBeingTransmitted = [ni \in NI |-> NULL]
      /\ outgoingQueue = [ni \in NI |-> <<>>]
      /\ unsent = Msg
  BY DEF Init
<1>3. \A b \in Block, ni \in NI : ~Holds(b, ni)
  BY <1>2 DEF Holds
<1>4. FifoInv
  <2>1. SentOnce
    BY <1>1 DEF SentOnce, Sending
  <2>2. OneHolder
    BY <1>3 DEF OneHolder
  <2>3. WireHasItsSource
    BY <1>2 DEF WireHasItsSource
  <2>. QED BY <2>1, <2>2, <2>3 DEF FifoInv
<1>5. Channel = [ni \in NI |-> <<>>]
  <2>1. ASSUME NEW ni \in NI
        PROVE  Arrived(ni) \o OnWire(ni) \o outgoingQueue[ni] = <<>>
    <3>1. Arrived(ni) = <<>> /\ OnWire(ni) = <<>> /\ outgoingQueue[ni] = <<>>
      BY <1>2, <1>3 DEF Arrived, OnWire
    <3>. QED BY <3>1
  <2>. QED BY <2>1 DEF Channel
<1>6. Fresh = Msg /\ Up \in [NI -> BOOLEAN]
  BY <1>2 DEF Fresh, Up, Linked
<1>. QED BY <1>4, <1>5, <1>6 DEF Link!Init

(* Every step of the scheduler keeps FifoInv and is a step of the links,   *)
(* or changes nothing that they show.                                      *)
LEMMA NextLinks == IInv /\ FifoInv /\ [Next]_vars => FifoInv' /\ [Link!Next]_(Link!vars)
<1>1. ASSUME IInv, FifoInv, Next
      PROVE  FifoInv' /\ Link!Next
  <2>1. PICK t \in Time :
          /\ IsFirstDate(eventsMap, t)
          /\ now' = t
          /\ Consume(t, Head(eventsMap[t]), EraseFirst(eventsMap, t))
    BY <1>1 DEF Next
  <2>. DEFINE e == Head(eventsMap[t])
              q == EraseFirst(eventsMap, t)
  <2>2. FifoStep(t, e, q)
    BY <1>1, <2>1 DEF FifoStep, Step, First
  <2>3. Consume(t, e, q)
    BY <2>1
  <2>. HIDE DEF e, q
  <2>4. CASE CodeStart(t, e, q)
    BY <2>2, <2>4, CodeStartLinks
  <2>5. CASE Notify(t, e, q)
    BY <2>2, <2>5, NotifyLinks
  <2>6. CASE ProcessLocal(t, e, q)
    BY <2>2, <2>6, ProcessLocalLinks
  <2>7. CASE EnqueueOutgoing(t, e, q)
    BY <2>2, <2>7, EnqueueOutgoingLinks
  <2>8. CASE StartTransmitting(t, e, q)
    BY <2>2, <2>8, StartTransmittingLinks
  <2>9. CASE StopTransmitting(t, e, q)
    BY <2>2, <2>9, StopTransmittingLinks
  <2>10. CASE TranslationStart(t, e, q)
    BY <2>2, <2>10, TranslationStartLinks
  <2>11. CASE TranslationStop(t, e, q)
    BY <2>2, <2>11, TranslationStopLinks
  <2>. QED
    BY <2>3, <2>4, <2>5, <2>6, <2>7, <2>8, <2>9, <2>10, <2>11 DEF Consume
<1>2. ASSUME FifoInv, UNCHANGED vars
      PROVE  FifoInv' /\ UNCHANGED Link!vars
  <2>1. UNCHANGED <<now, eventsMap, connectedInterface, outgoingQueue,
                    messageBeingTransmitted, localEventsList, grid, position, unsent>>
    BY <1>2 DEF vars
  <2>2. SentOnce' /\ WireHasItsSource'
    BY <1>2, <2>1 DEF FifoInv, SentOnce, Sending, Event, WireHasItsSource
  <2>3. OneHolder'
    BY <1>2, <2>1 DEF FifoInv, OneHolder, Holds, Motion, Event, Watches, InGrid
  <2>4. Channel' = Channel
    BY <2>1, ChannelParts DEF OnWire
  <2>5. Fresh' = Fresh /\ Up' = Up
    BY <2>1 DEF Fresh, Event, Up, Linked
  <2>. QED BY <2>2, <2>3, <2>4, <2>5 DEF FifoInv, Link!vars
<1>. QED BY <1>1, <1>2

(* The messages an interface has accepted are all with one block once they *)
(* have arrived, and a message is never on two links: what makes a link a  *)
(* queue.                                                                  *)
THEOREM FifoInvariance == Spec => []FifoInv
<1>1. Init => FifoInv
  BY InitFifo
<1>2. IInv /\ FifoInv /\ [Next]_vars => FifoInv'
  BY NextLinks
<1>. QED BY <1>1, <1>2, Invariance, PTL DEF Spec

(* The interfaces, the events and the motions implement FIFO links: what a *)
(* block code sends on a link is handled in order and once, and lost only  *)
(* with the link, the most recent messages first.                          *)
THEOREM LinksAreFifo == Spec => ImplementsFifoLink
<1>1. Init => Link!Init
  BY InitFifo
<1>2. IInv /\ FifoInv /\ [Next]_vars => [Link!Next]_(Link!vars)
  BY NextLinks
<1>. QED BY <1>1, <1>2, Invariance, FifoInvariance, PTL DEF Spec, ImplementsFifoLink, Link!Spec


-----------------------------------------------------------------------------
(* One step, of the scheduler or of the user, and what it leaves true. *)

(* A step moves the date past events that are all consumed. *)
Turn ==
  /\ GuiInv
  /\ now' \in Time
  /\ \A c \in Time : c < now' => eventsMap[c] = <<>>
  /\ \A f : OnlyAt(eventsMap, f, now) => OnlyAt(eventsMap, f, now')

GuiStep(t, e, q) ==
  /\ GuiInv
  /\ First(t, e, q)
  /\ now' = t
  /\ wiped' = (wiped \/ WipesNext)
  /\ UNCHANGED <<shown, menu, clicks>>

(* The scheduler takes the first event.                                    *)
LEMMA GuiFirstEvent ==
  ASSUME NEW t, NEW e, NEW q, GuiStep(t, e, q)
  PROVE  /\ Turn
         /\ t \in Time /\ t \in Nat /\ MaximumDate \in Nat /\ t <= MaximumDate /\ now' = t
         /\ e \in EventType /\ q \in [Time -> Seq(EventType)] /\ Pending(eventsMap, e)
         /\ Keeps({e}, t, eventsMap, q)
         /\ \A x : OnlyAt(eventsMap, e, x) => x = t /\ ~Pending(q, e)
         /\ \A f : OnlyAt(eventsMap, f, now) => OnlyAt(eventsMap, f, t)
<1>1. /\ now \in Time /\ eventsMap \in [Time -> Seq(EventType)] /\ NothingOverdue
      /\ First(t, e, q) /\ now' = t /\ t \in Time
      /\ \A c \in Time : c < t => eventsMap[c] = <<>>
  BY DEF GuiStep, GuiInv, GuiTypeOK, First, IsFirstDate
<1>2. QED BY <1>1, FirstTypedEvent DEF Turn, GuiStep

(* Nothing is scheduled for the past.                                      *)
LEMMA GuiKeptPast ==
  ASSUME Turn, NEW X, Keeps(X, now', eventsMap, eventsMap')
  PROVE  NothingOverdue' /\ now' \in Time /\ eventsMap' \in [Time -> Seq(EventType)]
BY DEF Turn, Keeps, NothingOverdue

(* A local list that is not touched stays served.                          *)
LEMMA GuiKeptList ==
  ASSUME Turn, NEW X, Keeps(X, now', eventsMap, eventsMap'),
         NEW b \in Block, Process(b) \notin X,
         localEventsList'[b] = localEventsList[b]
  PROVE  ListServed(b)'
<1>1. ListServed(b) /\ (OnlyAt(eventsMap, Process(b), now) => OnlyAt(eventsMap, Process(b), now'))
  BY DEF Turn, GuiInv, LocalListIsServed
<1>. QED BY <1>1 DEF ListServed, Keeps, Process, Event

(* Neither are the others.                                                 *)
LEMMA GuiKeptLists ==
  ASSUME Turn, NEW X, Keeps(X, now', eventsMap, eventsMap'),
         \A b \in Block : Process(b) \notin X,
         UNCHANGED localEventsList
  PROVE  LocalListIsServed'
BY GuiKeptList DEF LocalListIsServed

(* The motions of a step that moves nothing and asks for none.             *)
LEMMA GuiKeptMotions ==
  ASSUME Turn, NEW X, Keeps(X, now', eventsMap, eventsMap'),
         \A k \in MotionKind, b \in Block, c \in Cell : Motion(k, b, c) \notin X,
         UNCHANGED <<grid, position>>
  PROVE  MotionsAreOrderly'
<1>. SUFFICES ASSUME NEW k \in MotionKind, NEW b \in Block, NEW c \in Cell,
                     Pending(eventsMap', Motion(k, b, c))
              PROVE  Orderly(k, b, c)'
  BY DEF MotionsAreOrderly, Motion, Event
<1>1. \A l \in MotionKind, a \in Block, x \in Cell :
        /\ Pending(eventsMap', Motion(l, a, x)) <=> Pending(eventsMap, Motion(l, a, x))
        /\ \A d : OnlyAt(eventsMap, Motion(l, a, x), d) =>
                 OnlyAt(eventsMap', Motion(l, a, x), d)
  BY DEF Keeps
<1>2. Orderly(k, b, c)
  BY <1>1 DEF Turn, GuiInv, MotionsAreOrderly
<1>. QED BY <1>1, <1>2 DEF Orderly, InGrid, Motion, Event

InterfacesTyped ==
  /\ outgoingQueue \in [NI -> Seq(Msg)]
  /\ messageBeingTransmitted \in [NI -> Packet \cup {NULL}]
  /\ availabilityDate \in [NI -> Nat]

ListsTyped == localEventsList \in [Block -> Seq(GuiLocalEvent)]

CodeTyped == unsent \in SUBSET Msg /\ moves \in Nat

SideTyped ==
  /\ shown \subseteq {b \in Block : position[b] # NULL}
  /\ menu \in Menu \cup {NULL}
  /\ menu # NULL => menu.block \in shown
  /\ wiped \in BOOLEAN
  /\ clicks \in Nat

(* The parts of GuiTypeOK.                                                 *)
LEMMA GuiTypeParts ==
  /\ now \in Time
  /\ eventsMap \in [Time -> Seq(EventType)]
  /\ LatticeTyped /\ InterfacesTyped /\ ListsTyped /\ CodeTyped /\ SideTyped
  /\ exited \in BOOLEAN
  <=> GuiTypeOK
BY DEF GuiTypeOK, LatticeTyped, InterfacesTyped, ListsTyped, CodeTyped, SideTyped

(* The scheduler does not touch the menu, and only adds to the wiped cells. *)
LEMMA GuiSide ==
  ASSUME NEW t, NEW e, NEW q, GuiStep(t, e, q),
         \A a \in Block : position[a] # NULL => position'[a] # NULL
  PROVE  /\ SideTyped'
         /\ wiped => wiped'
         /\ e.kind = "TranslationStart" /\ Wipes(e.on) => wiped'
<1>1. SideTyped
  BY GuiTypeParts DEF GuiStep, GuiInv
<1>2. (wiped => wiped') /\ wiped' \in BOOLEAN
  BY DEF GuiStep
<1>3. e.kind = "TranslationStart" /\ Wipes(e.on) => wiped'
  BY DEF GuiStep, First, WipesNext
<1>. QED BY <1>1, <1>2, <1>3 DEF SideTyped, GuiStep, Menu

(* A step that leaves the world alone has to see to the rest only.         *)
LEMMA GuiFlatStep ==
  ASSUME NEW t, NEW e, NEW q, GuiStep(t, e, q),
         NEW X, Keeps(X, t, eventsMap, eventsMap'), UNCHANGED worldVars,
         InterfacesTyped', ListsTyped', CodeTyped', exited' \in BOOLEAN,
         LocalListIsServed', MotionsAreOrderly'
  PROVE  GuiInv'
<1>1. Turn /\ now' = t
  BY GuiFirstEvent
<1>2. NothingOverdue' /\ now' \in Time /\ eventsMap' \in [Time -> Seq(EventType)]
  BY <1>1, GuiKeptPast
<1>3. GuiTypeOK'
  <2>1. SideTyped' /\ LatticeTyped'
    BY GuiSide, GuiTypeParts DEF GuiStep, GuiInv, LatticeTyped, worldVars
  <2>2. QED BY <1>2, <2>1 DEF GuiTypeOK, LatticeTyped, InterfacesTyped, ListsTyped, CodeTyped, SideTyped
<1>4. GridMatchesPositions' /\ LinksMatchUnlessWiped'
  <2>1. GridMatchesPositions /\ LinksMatchUnlessWiped /\ (wiped => wiped')
    BY GuiSide DEF GuiStep, GuiInv, worldVars
  <2>2. GridMatchesPositions'
    BY <2>1 DEF GridMatchesPositions, worldVars
  <2>3. LinksMatchLattice => LinksMatchLattice'
    BY DEF LinksMatchLattice, LinksIn, PeerIn, InGrid, worldVars
  <2>5. LinksMatchUnlessWiped'
    BY <2>1, <2>3 DEF LinksMatchUnlessWiped
  <2>4. QED BY <2>2, <2>5
<1>. QED BY <1>2, <1>3, <1>4 DEF GuiInv

-----------------------------------------------------------------------------
(* The block codes. *)

(* A block that asks for a motion is in the grid and has no other.         *)
LEMMA GuiAskedMotion ==
  ASSUME NEW t, NEW e, NEW q, GuiStep(t, e, q), e.kind \notin MotionKind,
         NEW b \in Block, NEW mid, Asks(b, t, q, mid),
         Keeps(OfKind("ProcessLocal"), t, mid, eventsMap'),
         UNCHANGED <<grid, position>>
  PROVE  /\ MotionsAreOrderly'
         /\ \E c \in Cell :
              Keeps(OfKind("EnqueueOutgoing") \cup {Motion("TranslationStart", b, c)}, t, q, mid)
<1>1. PICK c \in Cell, date \in Nat :
        /\ InGrid(grid, position, b)
        /\ ~InMotion(q, b)
        /\ Keeps(OfKind("EnqueueOutgoing") \cup {Motion("TranslationStart", b, c)}, t, q, mid)
        /\ OnlyAt(mid, Motion("TranslationStart", b, c), date)
  BY DEF Asks
<1>. DEFINE new == Motion("TranslationStart", b, c)
<1>2. /\ t \in Time /\ t \in Nat /\ q \in [Time -> Seq(EventType)] /\ new \in EventType
      /\ Keeps({e}, t, eventsMap, q)
  BY GuiFirstEvent, EventTypes DEF MotionKind
<1>3. \A k \in MotionKind, a \in Block, x \in Cell :
        /\ Pending(q, Motion(k, a, x)) <=> Pending(eventsMap, Motion(k, a, x))
        /\ \A d : OnlyAt(eventsMap, Motion(k, a, x), d) => OnlyAt(q, Motion(k, a, x), d)
  BY <1>2 DEF Keeps, Motion, Event
<1>4. /\ Keeps(OfKind("EnqueueOutgoing") \cup {new}, t, q, mid) /\ OnlyAt(mid, new, date)
      /\ \A k \in MotionKind, a \in Block, x \in Cell :
           Motion(k, a, x) # new =>
             /\ Pending(mid, Motion(k, a, x)) <=> Pending(q, Motion(k, a, x))
             /\ \A d : OnlyAt(q, Motion(k, a, x), d) => OnlyAt(mid, Motion(k, a, x), d)
  <2>1. Keeps(OfKind("EnqueueOutgoing") \cup {new}, t, q, mid) /\ OnlyAt(mid, new, date)
    BY <1>1
  <2>2. \A k \in MotionKind, a \in Block, x \in Cell : Motion(k, a, x) \notin OfKind("EnqueueOutgoing")
    BY DEF OfKind, Motion, Event, MotionKind
  <2>. HIDE DEF new
  <2>. QED BY <2>1, <2>2 DEF Keeps
<1>5. \A k \in MotionKind, x \in Cell : ~Pending(q, Motion(k, b, x))
  BY <1>1 DEF InMotion, Motion
<1>6. \A k \in MotionKind, a \in Block, x \in Cell :
        /\ Pending(eventsMap', Motion(k, a, x)) <=> Pending(mid, Motion(k, a, x))
        /\ \A d : OnlyAt(mid, Motion(k, a, x), d) => OnlyAt(eventsMap', Motion(k, a, x), d)
  BY DEF Keeps, OfKind, Motion, Event, MotionKind
<1>7. ASSUME NEW k \in MotionKind, NEW a \in Block, NEW x \in Cell,
             Pending(eventsMap', Motion(k, a, x))
      PROVE  \/ k = "TranslationStart" /\ a = b /\ x = c
             \/ Pending(q, Motion(k, a, x)) /\ a # b
  <2>1. Pending(mid, Motion(k, a, x))
    BY <1>6, <1>7
  <2>2. CASE Motion(k, a, x) = new
    BY <2>2 DEF Motion, Event
  <2>3. CASE Motion(k, a, x) # new
    <3>1. Pending(q, Motion(k, a, x))
      BY <1>4, <2>1, <2>3
    <3>. QED BY <1>5, <3>1
  <2>4. QED BY <2>2, <2>3
<1>8. ASSUME NEW k \in MotionKind, NEW a \in Block, NEW x \in Cell,
             Pending(eventsMap', Motion(k, a, x))
      PROVE  Orderly(k, a, x)'
  <2>1. CASE k = "TranslationStart" /\ a = b /\ x = c
    <3>1. date \in Time /\ OnlyAt(eventsMap', Motion(k, a, x), date)
      <4>1. OnlyAt(eventsMap', Motion(k, a, x), date)
        BY <1>4, <1>6, <2>1
      <4>2. date \in Time
        BY <1>8, <4>1 DEF Pending, OnlyAt
      <4>. QED BY <4>1, <4>2
    <3>2. \A l \in MotionKind, y \in Cell :
            Pending(eventsMap', Motion(l, a, y)) => l = k /\ y = x
      BY <1>7, <2>1
    <3>3. QED BY <1>1, <1>2, <2>1, <3>1, <3>2 DEF Orderly, InGrid, Motion, Event
  <2>2. CASE Pending(q, Motion(k, a, x)) /\ a # b
    <3>1. Orderly(k, a, x)
      BY <1>3, <2>2 DEF GuiStep, GuiInv, MotionsAreOrderly
    <3>2. \E d \in Time : OnlyAt(eventsMap', Motion(k, a, x), d)
      <4>1. PICK d \in Time : OnlyAt(eventsMap, Motion(k, a, x), d)
        BY <3>1 DEF Orderly
      <4>2. Motion(k, a, x) # new
        BY <2>2 DEF Motion, Event
      <4>3. OnlyAt(mid, Motion(k, a, x), d)
        BY <1>3, <1>4, <4>1, <4>2
      <4>4. QED BY <1>6, <4>3
    <3>3. \A l \in MotionKind, y \in Cell :
            Pending(eventsMap', Motion(l, a, y)) => l = k /\ y = x
      BY <1>3, <1>7, <2>2, <3>1 DEF Orderly
    <3>4. QED BY <3>1, <3>2, <3>3 DEF Orderly, InGrid, Motion, Event
  <2>3. QED BY <1>7, <1>8, <2>1, <2>2
<1>9. MotionsAreOrderly'
  BY <1>8 DEF MotionsAreOrderly, Motion, Event
<1>. QED BY <1>4, <1>9

GuiCodeRan(t, q, after, X, mid) ==
  /\ Keeps(X, t, q, mid)
  /\ \A f \in X : f.kind \in {"EnqueueOutgoing", "TranslationStart"}
  /\ eventsMap' = ScheduleAll(mid, t, t, after)
  /\ MotionsAreOrderly'
  /\ CodeTyped'

(* A call of the block code, after which its caller schedules at most a    *)
(* ProcessLocal event.                                                     *)
LEMMA GuiBlockCodeKeeps ==
  ASSUME NEW t, NEW e, NEW q, GuiStep(t, e, q),
         e.kind \in {"CodeStart", "TranslationEnd", "ProcessLocal"},
         NEW b \in Block, NEW after \in Seq(EventType),
         \A i \in DOMAIN after : after[i] \in OfKind("ProcessLocal"),
         BlockCode(b, t, q, after),
         UNCHANGED worldVars
  PROVE  \E X, mid : GuiCodeRan(t, q, after, X, mid)
<1>1. /\ Turn /\ t \in Time /\ t \in Nat /\ now' = t /\ q \in [Time -> Seq(EventType)]
      /\ Keeps({e}, t, eventsMap, q)
      /\ unsent \in SUBSET Msg /\ moves \in Nat
  BY GuiFirstEvent DEF GuiStep, GuiInv, GuiTypeOK
<1>2. PICK mid : /\ eventsMap' = ScheduleAll(mid, t, t, after)
                 /\ \/ Keeps(OfKind("EnqueueOutgoing"), t, q, mid)
                    \/ Asks(b, t, q, mid)
  BY <1>1, BlockCodeSteps
<1>3. CodeTyped'
  BY <1>1, BlockCodeSteps DEF CodeTyped
<1>4. e.kind \notin MotionKind
  BY DEF MotionKind
<1>5. ASSUME mid \in [Time -> Seq(EventType)]
      PROVE  Keeps(OfKind("ProcessLocal"), t, mid, eventsMap')
  BY <1>1, <1>2, <1>5, ScheduleAllKeeps
<1>6. CASE Keeps(OfKind("EnqueueOutgoing"), t, q, mid)
  <2>. DEFINE X == OfKind("EnqueueOutgoing")
              Y == ({e} \cup X) \cup OfKind("ProcessLocal")
  <2>1. Keeps(OfKind("ProcessLocal"), t, mid, eventsMap')
    BY <1>5, <1>6 DEF Keeps
  <2>2. Keeps(Y, t, eventsMap, eventsMap')
    BY <1>1, <1>6, <2>1, KeepsTrans
  <2>3. \A k \in MotionKind, a \in Block, x \in Cell : Motion(k, a, x) \notin Y
    BY <1>4 DEF OfKind, Motion, Event, MotionKind
  <2>. HIDE DEF Y
  <2>4. MotionsAreOrderly'
    BY <1>1, <2>2, <2>3, GuiKeptMotions DEF worldVars
  <2>5. \A f \in X : f.kind \in {"EnqueueOutgoing", "TranslationStart"}
    BY DEF OfKind
  <2>6. QED BY <1>2, <1>3, <1>6, <2>4, <2>5 DEF GuiCodeRan
<1>7. CASE Asks(b, t, q, mid)
  <2>1. mid \in [Time -> Seq(EventType)]
    BY <1>7 DEF Asks, Keeps
  <2>2. Keeps(OfKind("ProcessLocal"), t, mid, eventsMap')
    BY <1>5, <2>1
  <2>3. /\ MotionsAreOrderly'
        /\ \E c \in Cell :
             Keeps(OfKind("EnqueueOutgoing") \cup {Motion("TranslationStart", b, c)}, t, q, mid)
    BY <1>4, <1>7, <2>2, GuiAskedMotion DEF worldVars
  <2>4. PICK c \in Cell :
          Keeps(OfKind("EnqueueOutgoing") \cup {Motion("TranslationStart", b, c)}, t, q, mid)
    BY <2>3
  <2>5. \A f \in OfKind("EnqueueOutgoing") \cup {Motion("TranslationStart", b, c)} :
          f.kind \in {"EnqueueOutgoing", "TranslationStart"}
    BY DEF OfKind, Motion, Event
  <2>6. QED BY <1>2, <1>3, <2>3, <2>4, <2>5 DEF GuiCodeRan
<1>. QED BY <1>2, <1>6, <1>7

(* The start of a block code, and the end of a motion.                     *)
LEMMA CodeStartKeepsGuiInv ==
  ASSUME NEW t, NEW e, NEW q, GuiStep(t, e, q), CodeStart(t, e, q)
  PROVE  GuiInv'
<1>. DEFINE none == <<>>
<1>1. /\ Turn /\ t \in Time /\ t \in Nat /\ now' = t /\ e \in EventType
      /\ Keeps({e}, t, eventsMap, q)
  BY GuiFirstEvent
<1>2. e.on \in Block
  BY <1>1, EventShape DEF CodeStart, BlockEventKind
<1>3. /\ none \in Seq(EventType) /\ \A i \in DOMAIN none : FALSE
      /\ BlockCode(e.on, t, q, none)
      /\ UNCHANGED <<worldVars, interfaceVars, localEventsList, exited>>
      /\ e.kind \in {"CodeStart", "TranslationEnd"}
  BY DEF CodeStart
<1>. HIDE DEF none
<1>4. PICK X, mid : GuiCodeRan(t, q, none, X, mid)
  BY <1>2, <1>3, GuiBlockCodeKeeps
<1>5. /\ Keeps(X, t, q, mid) /\ mid \in [Time -> Seq(EventType)]
      /\ \A f \in X : f.kind \in {"EnqueueOutgoing", "TranslationStart"}
      /\ eventsMap' = ScheduleAll(mid, t, t, none)
      /\ MotionsAreOrderly' /\ CodeTyped'
  BY <1>4 DEF GuiCodeRan, Keeps
<1>. DEFINE Y == ({e} \cup X) \cup {}
<1>6. Keeps(Y, t, eventsMap, eventsMap')
  <2>1. Keeps({}, t, mid, eventsMap')
    BY <1>1, <1>3, <1>5, ScheduleAllKeeps
  <2>2. QED BY <1>1, <1>5, <2>1, KeepsTrans
<1>7. \A b \in Block : Process(b) \notin Y
  BY <1>3, <1>5 DEF Process, Event
<1>. HIDE DEF Y
<1>8. LocalListIsServed'
  BY <1>1, <1>3, <1>6, <1>7, GuiKeptLists
<1>9. InterfacesTyped' /\ ListsTyped' /\ exited' \in BOOLEAN
  BY <1>3 DEF InterfacesTyped, ListsTyped, interfaceVars, GuiStep, GuiInv, GuiTypeOK
<1>. QED BY <1>3, <1>5, <1>6, <1>8, <1>9, GuiFlatStep

-----------------------------------------------------------------------------
(* The local lists. *)

(* Whatever is put in a local list, the block has its ProcessLocal event.  *)
LEMMA ScheduledLocally ==
  ASSUME NEW t, NEW e, NEW q, GuiStep(t, e, q), NEW b \in Block, Process(b) # e,
         NEW r, r = ScheduleLocalEvent(q, t, b)
  PROVE  /\ Keeps({Process(b)}, t, q, r)
         /\ Pending(r, Process(b)) /\ OnlyAt(r, Process(b), t)
<1>1. /\ t \in Time /\ t \in Nat /\ MaximumDate \in Nat /\ t <= MaximumDate /\ now' = t
      /\ q \in [Time -> Seq(EventType)]
      /\ Keeps({e}, t, eventsMap, q)
      /\ \A f : OnlyAt(eventsMap, f, now) => OnlyAt(eventsMap, f, t)
      /\ Process(b) \in EventType /\ ListServed(b)
  BY GuiFirstEvent, EventTypes DEF GuiStep, GuiInv, LocalListIsServed
<1>2. /\ Pending(q, Process(b)) <=> localEventsList[b] # <<>>
      /\ OnlyAt(q, Process(b), t)
  BY <1>1 DEF ListServed, Keeps
<1>3. CASE localEventsList[b] = <<>>
  <2>1. r = Schedule(q, t, t, Process(b)) /\ ~Pending(q, Process(b)) /\ t \in t..MaximumDate
    BY <1>1, <1>2, <1>3 DEF ScheduleLocalEvent, Process
  <2>2. QED BY <1>1, <2>1, ScheduleKeeps
<1>4. CASE localEventsList[b] # <<>>
  BY <1>1, <1>2, <1>4 DEF ScheduleLocalEvent, Keeps
<1>. QED BY <1>3, <1>4

(* An entry put behind the list of b, with its event, leaves all served.   *)
LEMMA AppendedList ==
  ASSUME Turn, ListsTyped, NEW X, Keeps(X, now', eventsMap, eventsMap'),
         NEW b \in Block, NEW l \in GuiLocalEvent,
         localEventsList' = [localEventsList EXCEPT ![b] = Append(@, l)],
         \A a \in Block : a # b => Process(a) \notin X,
         Pending(eventsMap', Process(b)), OnlyAt(eventsMap', Process(b), now')
  PROVE  LocalListIsServed' /\ ListsTyped'
<1>1. /\ localEventsList[b] \in Seq(GuiLocalEvent)
      /\ localEventsList'[b] = Append(localEventsList[b], l)
      /\ \A a \in Block : a # b => localEventsList'[a] = localEventsList[a]
      /\ localEventsList' \in [Block -> Seq(GuiLocalEvent)]
  BY DEF ListsTyped
<1>2. localEventsList'[b] # <<>>
  BY <1>1
<1>3. ListServed(b)'
  BY <1>2 DEF ListServed, Process, Event
<1>4. \A a \in Block : a # b => ListServed(a)'
  BY <1>1, GuiKeptList
<1>. QED BY <1>1, <1>3, <1>4 DEF LocalListIsServed, ListsTyped

(* A notification of a neighbor.                                           *)
LEMMA NotifyKeepsGuiInv ==
  ASSUME NEW t, NEW e, NEW q, GuiStep(t, e, q), Notify(t, e, q)
  PROVE  GuiInv'
<1>. DEFINE b == e.on[1]
            X == {e} \cup {Process(b)}
<1>1. /\ Turn /\ t \in Time /\ now' = t /\ e \in EventType
      /\ Keeps({e}, t, eventsMap, q)
  BY GuiFirstEvent
<1>2. b \in Block /\ e.kind \in {"AddNeighbor", "RemoveNeighbor"}
  BY <1>1, EventShape DEF Notify, InterfaceEventKind, NI
<1>3. /\ eventsMap' = ScheduleLocalEvent(q, t, b)
      /\ localEventsList' = [localEventsList EXCEPT ![b] = Append(@, Notice(e.kind))]
      /\ UNCHANGED <<worldVars, interfaceVars, codeVars, exited>>
  BY DEF Notify
<1>. HIDE DEF b
<1>4. Process(b) # e
  BY <1>2 DEF Process, Event
<1>5. /\ Keeps({Process(b)}, t, q, eventsMap')
      /\ Pending(eventsMap', Process(b)) /\ OnlyAt(eventsMap', Process(b), t)
  BY <1>2, <1>3, <1>4, ScheduledLocally
<1>6. Keeps(X, t, eventsMap, eventsMap')
  BY <1>1, <1>5, KeepsTrans
<1>7. /\ \A a \in Block : a # b => Process(a) \notin X
      /\ \A k \in MotionKind, a \in Block, c \in Cell : Motion(k, a, c) \notin X
  BY <1>2 DEF Process, Motion, Event, MotionKind
<1>. HIDE DEF X
<1>8. LocalListIsServed' /\ ListsTyped'
  <2>1. ListsTyped
    BY DEF ListsTyped, GuiStep, GuiInv, GuiTypeOK
  <2>2. Notice(e.kind) \in GuiLocalEvent
    BY <1>2 DEF Notice, GuiLocalEvent, LocalEvent
  <2>3. QED BY <1>1, <1>2, <1>3, <1>5, <1>6, <1>7, <2>1, <2>2, AppendedList
<1>9. MotionsAreOrderly'
  BY <1>1, <1>3, <1>6, <1>7, GuiKeptMotions DEF worldVars
<1>10. InterfacesTyped' /\ CodeTyped' /\ exited' \in BOOLEAN
  BY <1>3 DEF InterfacesTyped, CodeTyped, interfaceVars, codeVars, GuiStep, GuiInv, GuiTypeOK
<1>. QED BY <1>3, <1>6, <1>8, <1>9, <1>10, GuiFlatStep

(* The processing of a local event: the list is not empty.                 *)
LEMMA ProcessLocalKeepsGuiInv ==
  ASSUME NEW t, NEW e, NEW q, GuiStep(t, e, q), ProcessLocal(t, e, q)
  PROVE  GuiInv'
<1>. DEFINE b == e.on
            after == Resume(b)
<1>1. /\ Turn /\ t \in Time /\ t \in Nat /\ MaximumDate \in Nat /\ t <= MaximumDate /\ now' = t
      /\ e \in EventType /\ Keeps({e}, t, eventsMap, q) /\ Pending(eventsMap, e)
      /\ \A x : OnlyAt(eventsMap, e, x) => ~Pending(q, e)
  BY GuiFirstEvent
<1>2. b \in Block /\ e = Process(b) /\ e.kind = "ProcessLocal"
  BY <1>1, EventShape DEF ProcessLocal, Process, BlockEventKind
<1>. HIDE DEF b
<1>3. /\ localEventsList[b] # <<>> /\ localEventsList \in [Block -> Seq(GuiLocalEvent)]
      /\ ~Pending(q, Process(b))
  BY <1>1, <1>2 DEF GuiStep, GuiInv, GuiTypeOK, LocalListIsServed, ListServed
<1>4. /\ localEventsList' = [localEventsList EXCEPT ![b] = Tail(@)]
      /\ BlockCode(b, t, q, after)
      /\ UNCHANGED <<worldVars, interfaceVars, exited>>
  BY <1>3 DEF ProcessLocal, b
<1>5. /\ localEventsList'[b] = Tail(localEventsList[b])
      /\ \A a \in Block : a # b => localEventsList'[a] = localEventsList[a]
      /\ localEventsList' \in [Block -> Seq(GuiLocalEvent)]
  BY <1>2, <1>3, <1>4
<1>6. /\ after \in Seq(EventType)
      /\ \A i \in DOMAIN after : after[i] \in OfKind("ProcessLocal")
      /\ localEventsList'[b] = <<>> => DOMAIN after = {}
      /\ localEventsList'[b] # <<>> => after = <<Process(b)>>
  <2>1. Process(b) \in EventType /\ Process(b) \in OfKind("ProcessLocal")
    BY <1>2, EventTypes DEF OfKind, Process, Event
  <2>2. CASE localEventsList'[b] = <<>>
    <3>1. after = <<>>
      BY <1>5, <2>2 DEF Resume
    <3>2. QED BY <2>2, <3>1
  <2>3. CASE localEventsList'[b] # <<>>
    <3>1. after = <<Process(b)>>
      BY <1>5, <2>3 DEF Resume, Process
    <3>2. QED BY <2>1, <2>3, <3>1
  <2>4. QED BY <2>2, <2>3
<1>. HIDE DEF after
<1>7. PICK X, mid : GuiCodeRan(t, q, after, X, mid)
  BY <1>2, <1>4, <1>6, GuiBlockCodeKeeps
<1>8. /\ Keeps(X, t, q, mid) /\ mid \in [Time -> Seq(EventType)]
      /\ \A f \in X : f.kind \in {"EnqueueOutgoing", "TranslationStart"}
      /\ eventsMap' = ScheduleAll(mid, t, t, after)
      /\ MotionsAreOrderly' /\ CodeTyped'
  BY <1>7 DEF GuiCodeRan, Keeps
<1>9. /\ ListServed(b)'
      /\ Keeps({Process(b)}, t, mid, eventsMap')
  <2>1. ~Pending(mid, Process(b))
    BY <1>3, <1>8 DEF Keeps, Process, Event
  <2>2. CASE localEventsList'[b] = <<>>
    <3>1. Keeps({}, t, mid, eventsMap')
      BY <1>1, <1>6, <1>8, <2>2, ScheduleAllKeeps
    <3>2. ~Pending(eventsMap', Process(b)) /\ OnlyAt(eventsMap', Process(b), t)
      BY <2>1, <3>1, NotPendingAnywhere DEF Keeps
    <3>3. QED BY <1>1, <2>2, <3>1, <3>2 DEF ListServed, Keeps, Process, Event
  <2>3. CASE localEventsList'[b] # <<>>
    <3>1. eventsMap' = Schedule(mid, t, t, Process(b)) /\ Process(b) \in EventType
      BY <1>2, <1>6, <1>8, <2>3, EventTypes DEF Schedule
    <3>2. /\ Keeps({Process(b)}, t, mid, eventsMap')
          /\ Pending(eventsMap', Process(b)) /\ OnlyAt(eventsMap', Process(b), t)
      BY <1>1, <1>8, <2>1, <3>1, ScheduleKeeps
    <3>3. QED BY <1>1, <2>3, <3>2 DEF ListServed, Process, Event
  <2>4. QED BY <2>2, <2>3
<1>. DEFINE Y == ({e} \cup X) \cup {Process(b)}
<1>10. Keeps(Y, t, eventsMap, eventsMap')
  BY <1>1, <1>8, <1>9, KeepsTrans
<1>11. \A a \in Block : a # b => Process(a) \notin Y
  BY <1>2, <1>8 DEF Process, Event
<1>. HIDE DEF Y
<1>12. LocalListIsServed'
  BY <1>1, <1>5, <1>9, <1>10, <1>11, GuiKeptList DEF LocalListIsServed
<1>13. InterfacesTyped' /\ ListsTyped' /\ exited' \in BOOLEAN
  BY <1>4, <1>5 DEF InterfacesTyped, ListsTyped, interfaceVars, GuiStep, GuiInv, GuiTypeOK
<1>. QED BY <1>4, <1>8, <1>10, <1>12, <1>13, GuiFlatStep

-----------------------------------------------------------------------------
(* The interfaces. *)

(* A transmission takes a message from the buffer and schedules its stop.  *)
LEMMA TransmitTyped ==
  ASSUME InterfacesTyped, connectedInterface \in [NI -> NI \cup {NULL}],
         NEW ni \in NI, connectedInterface[ni] # NULL, outgoingQueue[ni] # <<>>,
         NEW t \in Time, t \in Nat, NEW q \in [Time -> Seq(EventType)], Transmit(ni, t, q)
  PROVE  InterfacesTyped' /\ Keeps({Stop(ni)}, t, q, eventsMap')
<1>1. PICK duration \in TransmissionTime :
        /\ outgoingQueue' = [outgoingQueue EXCEPT ![ni] = Tail(@)]
        /\ messageBeingTransmitted' =
             [messageBeingTransmitted EXCEPT ![ni] =
                [msg |-> Head(outgoingQueue[ni]), src |-> ni, dst |-> connectedInterface[ni]]]
        /\ availabilityDate' = [availabilityDate EXCEPT ![ni] = t + duration]
        /\ eventsMap' = Schedule(q, t, t + duration, Stop(ni))
  BY DEF Transmit, Stop
<1>2. t + duration \in Nat
  BY TimingAssumption
<1>3. Keeps({Stop(ni)}, t, q, eventsMap')
  BY <1>1, <1>2, EventTypes, ScheduleKeeps
<1>4. /\ Head(outgoingQueue[ni]) \in Msg /\ Tail(outgoingQueue[ni]) \in Seq(Msg)
      /\ connectedInterface[ni] \in NI
  BY DEF InterfacesTyped
<1>5. [msg |-> Head(outgoingQueue[ni]), src |-> ni, dst |-> connectedInterface[ni]] \in Packet
  BY <1>4 DEF Packet
<1>6. InterfacesTyped'
  BY <1>1, <1>2, <1>4, <1>5 DEF InterfacesTyped
<1>. QED BY <1>3, <1>6

(* A message that enters the buffer of an interface.                       *)
LEMMA EnqueueOutgoingKeepsGuiInv ==
  ASSUME NEW t, NEW e, NEW q, GuiStep(t, e, q), EnqueueOutgoing(t, e, q)
  PROVE  GuiInv'
<1>. DEFINE ni == e.on
            date == LatestDate(availabilityDate[ni], t)
            X == {e} \cup {Start(ni)}
<1>1. /\ Turn /\ t \in Time /\ t \in Nat /\ now' = t /\ e \in EventType
      /\ q \in [Time -> Seq(EventType)] /\ Keeps({e}, t, eventsMap, q)
  BY GuiFirstEvent
<1>2. ni \in NI /\ e.arg \in Msg /\ e.kind = "EnqueueOutgoing"
  BY <1>1, EventShape DEF EnqueueOutgoing
<1>3. /\ InterfacesTyped /\ LocalListIsServed
      /\ UNCHANGED <<worldVars, localEventsList, codeVars, exited>>
  BY DEF EnqueueOutgoing, InterfacesTyped, GuiStep, GuiInv, GuiTypeOK
<1>4. date \in Nat /\ Start(ni) \in EventType
  BY <1>1, <1>2, <1>3, EventTypes DEF LatestDate, InterfacesTyped
<1>5. Keeps({Start(ni)}, t, q, eventsMap') /\ InterfacesTyped'
  <2>1. CASE eventsMap' = q /\ UNCHANGED interfaceVars
    BY <1>1, <1>3, <2>1 DEF Keeps, InterfacesTyped, interfaceVars
  <2>2. CASE /\ outgoingQueue' = [outgoingQueue EXCEPT ![ni] = Append(@, e.arg)]
             /\ availabilityDate' = [availabilityDate EXCEPT ![ni] = date]
             /\ eventsMap' = IF NeedsStart(ni) THEN Schedule(q, t, date, Start(ni)) ELSE q
             /\ UNCHANGED messageBeingTransmitted
    <3>. HIDE DEF date
    <3>1. InterfacesTyped'
      BY <1>2, <1>3, <1>4, <2>2 DEF InterfacesTyped
    <3>2. CASE eventsMap' = q
      BY <1>1, <3>1, <3>2 DEF Keeps
    <3>3. CASE eventsMap' = Schedule(q, t, date, Start(ni))
      BY <1>1, <1>4, <3>1, <3>3, ScheduleKeeps
    <3>4. QED BY <2>2, <3>2, <3>3
  <2>3. QED BY <2>1, <2>2 DEF EnqueueOutgoing, Start, PushBack
<1>. HIDE DEF date
<1>6. Keeps(X, t, eventsMap, eventsMap')
  BY <1>1, <1>5, KeepsTrans
<1>7. /\ \A a \in Block : Process(a) \notin X
      /\ \A k \in MotionKind, a \in Block, c \in Cell : Motion(k, a, c) \notin X
  BY <1>2 DEF Start, Process, Motion, Event, MotionKind
<1>. HIDE DEF X, ni
<1>8. LocalListIsServed'
  BY <1>1, <1>3, <1>6, <1>7, GuiKeptLists
<1>9. MotionsAreOrderly'
  BY <1>1, <1>3, <1>6, <1>7, GuiKeptMotions DEF worldVars
<1>10. ListsTyped' /\ CodeTyped' /\ exited' \in BOOLEAN
  BY <1>3 DEF ListsTyped, CodeTyped, codeVars, GuiStep, GuiInv, GuiTypeOK
<1>. QED BY <1>3, <1>5, <1>6, <1>8, <1>9, <1>10, GuiFlatStep

(* The start of a transmission, which may find nothing to send.            *)
LEMMA StartTransmittingKeepsGuiInv ==
  ASSUME NEW t, NEW e, NEW q, GuiStep(t, e, q), StartTransmitting(t, e, q)
  PROVE  GuiInv'
<1>. DEFINE ni == e.on
            X == {e} \cup {Stop(ni)}
<1>1. /\ Turn /\ t \in Time /\ t \in Nat /\ now' = t /\ e \in EventType
      /\ q \in [Time -> Seq(EventType)] /\ Keeps({e}, t, eventsMap, q)
  BY GuiFirstEvent
<1>2. ni \in NI /\ e.kind = "StartTransmitting"
  BY <1>1, EventShape DEF StartTransmitting, InterfaceEventKind
<1>3. /\ InterfacesTyped /\ connectedInterface \in [NI -> NI \cup {NULL}]
      /\ UNCHANGED <<worldVars, localEventsList, codeVars>>
  BY DEF StartTransmitting, InterfacesTyped, GuiStep, GuiInv, GuiTypeOK
<1>4. /\ \/ eventsMap' = q /\ UNCHANGED interfaceVars
         \/ /\ connectedInterface[ni] # NULL /\ outgoingQueue[ni] # <<>>
            /\ Transmit(ni, t, q)
      /\ exited' = TRUE \/ exited' = exited
  BY DEF StartTransmitting, Linked
<1>. HIDE DEF ni
<1>5. Keeps({Stop(ni)}, t, q, eventsMap') /\ InterfacesTyped'
  <2>1. CASE eventsMap' = q /\ UNCHANGED interfaceVars
    BY <1>1, <1>3, <2>1 DEF Keeps, InterfacesTyped, interfaceVars
  <2>2. CASE /\ connectedInterface[ni] # NULL /\ outgoingQueue[ni] # <<>>
             /\ Transmit(ni, t, q)
    BY <1>1, <1>2, <1>3, <2>2, TransmitTyped
  <2>3. QED BY <1>4, <2>1, <2>2
<1>6. Keeps(X, t, eventsMap, eventsMap')
  BY <1>1, <1>5, KeepsTrans
<1>7. /\ \A a \in Block : Process(a) \notin X
      /\ \A k \in MotionKind, a \in Block, c \in Cell : Motion(k, a, c) \notin X
  BY <1>2 DEF Stop, Process, Motion, Event, MotionKind
<1>. HIDE DEF X
<1>8. LocalListIsServed'
  BY <1>1, <1>3, <1>6, <1>7, GuiKeptLists
<1>9. MotionsAreOrderly'
  BY <1>1, <1>3, <1>6, <1>7, GuiKeptMotions DEF worldVars
<1>10. ListsTyped' /\ CodeTyped' /\ exited' \in BOOLEAN
  BY <1>3, <1>4 DEF ListsTyped, CodeTyped, codeVars, GuiStep, GuiInv, GuiTypeOK
<1>. QED BY <1>3, <1>5, <1>6, <1>8, <1>9, <1>10, GuiFlatStep

(* The end of a transmission, which may deliver no message.                *)
LEMMA StopTransmittingKeepsGuiInv ==
  ASSUME NEW t, NEW e, NEW q, GuiStep(t, e, q), StopTransmitting(t, e, q)
  PROVE  GuiInv'
<1>. DEFINE ni == e.on
            peer == connectedInterface[ni]
            queued == IF peer = NULL THEN q ELSE ScheduleLocalEvent(q, t, peer[1])
            P == IF peer = NULL THEN {} ELSE {Process(peer[1])}
            X == ({e} \cup P) \cup {Stop(ni)}
<1>1. /\ Turn /\ t \in Time /\ t \in Nat /\ now' = t /\ e \in EventType
      /\ q \in [Time -> Seq(EventType)] /\ Keeps({e}, t, eventsMap, q)
  BY GuiFirstEvent
<1>2. ni \in NI /\ e.kind = "StopTransmitting"
  BY <1>1, EventShape DEF StopTransmitting, InterfaceEventKind
<1>3. /\ InterfacesTyped /\ ListsTyped /\ connectedInterface \in [NI -> NI \cup {NULL}]
      /\ UNCHANGED <<worldVars, codeVars, exited>>
  BY DEF StopTransmitting, InterfacesTyped, ListsTyped, GuiStep, GuiInv, GuiTypeOK
<1>4. /\ peer = NULL => UNCHANGED localEventsList
      /\ peer # NULL =>
           localEventsList' = [localEventsList EXCEPT ![peer[1]] =
                                 Append(@, Received(messageBeingTransmitted[ni]))]
      /\ \/ /\ outgoingQueue[ni] # <<>> /\ peer # NULL
            /\ Transmit(ni, t, queued)
         \/ /\ messageBeingTransmitted' = [messageBeingTransmitted EXCEPT ![ni] = NULL]
            /\ availabilityDate' = [availabilityDate EXCEPT ![ni] = t]
            /\ eventsMap' = queued
            /\ UNCHANGED outgoingQueue
  BY DEF StopTransmitting
<1>5. peer # NULL => peer[1] \in Block /\ Process(peer[1]) # e
  BY <1>2, <1>3 DEF NI, Process, Event
<1>6. /\ Keeps(P, t, q, queued)
      /\ peer # NULL => Pending(queued, Process(peer[1])) /\ OnlyAt(queued, Process(peer[1]), t)
  <2>1. CASE peer = NULL
    BY <1>1, <2>1 DEF Keeps
  <2>2. CASE peer # NULL
    BY <1>5, <2>2, ScheduledLocally
  <2>3. QED BY <2>1, <2>2
<1>. HIDE DEF ni, queued, P
<1>7. Keeps({Stop(ni)}, t, queued, eventsMap') /\ InterfacesTyped'
  <2>0. queued \in [Time -> Seq(EventType)]
    BY <1>6 DEF Keeps
  <2>1. CASE outgoingQueue[ni] # <<>> /\ peer # NULL /\ Transmit(ni, t, queued)
    BY <1>1, <1>2, <1>3, <2>0, <2>1, TransmitTyped
  <2>2. CASE /\ messageBeingTransmitted' = [messageBeingTransmitted EXCEPT ![ni] = NULL]
             /\ availabilityDate' = [availabilityDate EXCEPT ![ni] = t]
             /\ eventsMap' = queued
             /\ UNCHANGED outgoingQueue
    BY <1>1, <1>2, <1>3, <2>0, <2>2 DEF Keeps, InterfacesTyped
  <2>3. QED BY <1>4, <2>1, <2>2
<1>8. Keeps(X, t, eventsMap, eventsMap')
  <2>1. Keeps({e} \cup P, t, eventsMap, queued)
    BY <1>1, <1>6, KeepsTrans
  <2>2. QED BY <1>7, <2>1, KeepsTrans
<1>9. /\ \A b \in Block : (peer # NULL => b # peer[1]) => Process(b) \notin X
      /\ \A k \in MotionKind, b \in Block, c \in Cell : Motion(k, b, c) \notin X
  BY <1>2 DEF Stop, Process, Motion, Event, MotionKind, P
<1>. HIDE DEF X, peer
<1>10. LocalListIsServed' /\ ListsTyped'
  <2>1. CASE peer = NULL
    <3>1. LocalListIsServed'
      BY <1>1, <1>4, <1>8, <1>9, <2>1, GuiKeptLists
    <3>2. QED BY <1>3, <1>4, <2>1, <3>1 DEF ListsTyped
  <2>2. CASE peer # NULL
    <3>1. messageBeingTransmitted[ni] \in Packet \cup {NULL}
      BY <1>2, <1>3 DEF InterfacesTyped
    <3>2. Received(messageBeingTransmitted[ni]) \in GuiLocalEvent
      BY <3>1 DEF Received, GuiLocalEvent, LocalEvent
    <3>3. Pending(eventsMap', Process(peer[1])) /\ OnlyAt(eventsMap', Process(peer[1]), t)
      BY <1>6, <1>7, <2>2 DEF Keeps, Process, Stop, Event
    <3>4. QED BY <1>1, <1>3, <1>4, <1>5, <1>8, <1>9, <2>2, <3>2, <3>3, AppendedList
  <2>3. QED BY <2>1, <2>2
<1>11. MotionsAreOrderly'
  BY <1>1, <1>3, <1>8, <1>9, GuiKeptMotions DEF worldVars
<1>12. CodeTyped' /\ exited' \in BOOLEAN
  BY <1>3 DEF CodeTyped, codeVars, GuiStep, GuiInv, GuiTypeOK
<1>. QED BY <1>3, <1>7, <1>8, <1>10, <1>11, <1>12, GuiFlatStep

-----------------------------------------------------------------------------
(* The motions. *)

(* The motions of the other blocks, when b alone enters or leaves the grid. *)
LEMMA OthersAreOrderly ==
  ASSUME MotionsAreOrderly, NEW b \in Block,
         \A a \in Block : a # b => position'[a] = position[a],
         \A x \in Cell : grid'[x] \in {grid[x], b, NULL},
         \A k \in MotionKind, a \in Block, x \in Cell : a # b =>
           /\ Pending(eventsMap', Motion(k, a, x)) => Pending(eventsMap, Motion(k, a, x))
           /\ \A d : OnlyAt(eventsMap, Motion(k, a, x), d) =>
                    OnlyAt(eventsMap', Motion(k, a, x), d)
  PROVE  \A k \in MotionKind, a \in Block, c \in Cell :
           a # b /\ Pending(eventsMap', Motion(k, a, c)) => Orderly(k, a, c)'
<1>. SUFFICES ASSUME NEW k \in MotionKind, NEW a \in Block, NEW c \in Cell, a # b,
                     Pending(eventsMap', Motion(k, a, c))
              PROVE  Orderly(k, a, c)'
  OBVIOUS
<1>1. Orderly(k, a, c) /\ a # NULL
  BY TopologyAssumption DEF MotionsAreOrderly
<1>2. \E d \in Time : OnlyAt(eventsMap', Motion(k, a, c), d)
  BY <1>1 DEF Orderly
<1>3. /\ position'[a] # NULL
      /\ k = "TranslationStop" => \A x \in Cell : grid'[x] # a
  BY <1>1 DEF Orderly
<1>4. \A l \in MotionKind, x \in Cell :
        Pending(eventsMap', Motion(l, a, x)) => l = k /\ x = c
  BY <1>1 DEF Orderly
<1>. QED BY <1>2, <1>3, <1>4 DEF Orderly, Motion, Event

(* A block is disconnected, and with it the one whose cell it frees, if    *)
(* that is another.                                                        *)
LEMMA Disconnected ==
  ASSUME LatticeTyped, GridMatchesPositions, NEW b \in Block, position[b] # NULL, Cuts(b)
  PROVE  /\ LatticeTyped' /\ GridMatchesPositions'
         /\ position' = position
         /\ CutInterfaces(b) \in SUBSET NI
         /\ \A x \in Cell : grid'[x] # b /\ grid'[x] \in {grid[x], NULL}
         /\ LinksMatchLattice /\ ~Wipes(b) => LinksMatchLattice'
<1>1. /\ position[b] \in Cell /\ b # NULL /\ NULL \notin Cell
      /\ CutInterfaces(b) \in SUBSET NI
  BY CutsAre, TopologyAssumption DEF LatticeTyped
<1>2. /\ grid' \in [Cell -> Block \cup {NULL}]
      /\ connectedInterface' \in [NI -> NI \cup {NULL}]
      /\ position' = position /\ position \in [Block -> Cell \cup {NULL}]
      /\ grid'[position[b]] = NULL
      /\ \A x \in Cell : x # position[b] => grid'[x] = grid[x]
  BY <1>1 DEF Cuts, LatticeTyped
<1>3. \A x \in Cell : grid'[x] # b /\ grid'[x] \in {grid[x], NULL}
  BY <1>1, <1>2 DEF GridMatchesPositions
<1>4. LatticeTyped' /\ GridMatchesPositions'
  BY <1>2, <1>3 DEF LatticeTyped, GridMatchesPositions
<1>5. ASSUME LinksMatchLattice, ~Wipes(b)
      PROVE  LinksMatchLattice'
  <2>1. CASE InGrid(grid, position, b)
    BY <1>5, <2>1, CutsFollowTheLattice
  <2>2. CASE ~InGrid(grid, position, b)
    <3>1. grid[position[b]] = NULL
      BY <1>1, <1>5, <2>2 DEF Wipes, InGrid
    <3>2. grid' = grid
      BY <1>1, <1>2, <3>1 DEF LatticeTyped
    <3>3. \A ni \in NI : Linked(ni) => ni[1] # b /\ connectedInterface[ni][1] # b
      <4>1. ASSUME NEW ni \in NI, Linked(ni)
            PROVE  ni[1] # b /\ connectedInterface[ni][1] # b
        <5>1. connectedInterface[ni] = PeerIn(grid, position, ni) /\ PeerIn(grid, position, ni) # NULL
          BY <1>5, <4>1 DEF LinksMatchLattice, LinksIn, Linked
        <5>2. InGrid(grid, position, ni[1])
          BY <5>1 DEF PeerIn
        <5>3. /\ connectedInterface[ni] \in NI
              /\ connectedInterface[connectedInterface[ni]] = ni /\ ni # NULL
          BY <1>5, <4>1, TopologyAssumption DEF LinksMatchLattice, Linked, LatticeTyped
        <5>4. PeerIn(grid, position, connectedInterface[ni]) = ni
          BY <1>5, <5>3 DEF LinksMatchLattice, LinksIn
        <5>5. InGrid(grid, position, connectedInterface[ni][1])
          BY <5>3, <5>4 DEF PeerIn
        <5>. QED BY <2>2, <5>2, <5>5
      <4>. QED BY <4>1
    <3>4. \A ni \in NI : ni \notin CutInterfaces(b)
      BY <1>5, <3>3, CutsAre DEF LatticeTyped
    <3>5. connectedInterface' = connectedInterface
      BY <3>4 DEF Cuts, LatticeTyped
    <3>. QED BY <1>2, <1>5, <3>2, <3>5 DEF LinksMatchLattice
  <2>. QED BY <2>1, <2>2
<1>. QED BY <1>1, <1>2, <1>3, <1>4, <1>5

(* A block enters the grid in a free cell.                                 *)
LEMMA Connected ==
  ASSUME LatticeTyped, GridMatchesPositions, NEW b \in Block, NEW c \in Cell,
         grid[c] = NULL, \A x \in Cell : grid[x] # b,
         position' = [position EXCEPT ![b] = c], grid' = [grid EXCEPT ![c] = b],
         connectedInterface' = Linking(connectedInterface, grid', Around(c)).links
  PROVE  /\ LatticeTyped' /\ GridMatchesPositions'
         /\ Linking(connectedInterface, grid', Around(c)).notices \in Seq(NoticeEvent)
         /\ \A x \in Cell : grid'[x] \in {grid[x], b}
         /\ position'[b] = c /\ \A a \in Block : a # b => position'[a] = position[a]
         /\ LinksMatchLattice => LinksMatchLattice'
<1>1. /\ grid' \in [Cell -> Block \cup {NULL}] /\ grid'[c] = b
      /\ \A x \in Cell : x # c => grid'[x] = grid[x]
      /\ position' \in [Block -> Cell \cup {NULL}] /\ position'[b] = c
      /\ \A a \in Block : a # b => position'[a] = position[a]
      /\ connectedInterface \in [NI -> NI \cup {NULL}]
  BY DEF LatticeTyped
<1>2. GridMatchesPositions'
  BY <1>1 DEF GridMatchesPositions, LatticeTyped
<1>3. /\ connectedInterface' \in [NI -> NI \cup {NULL}]
      /\ Linking(connectedInterface, grid', Around(c)).notices \in Seq(NoticeEvent)
  BY <1>1, LinkingType, AroundCells DEF GridTyped
<1>4. ASSUME LinksMatchLattice
      PROVE  LinksMatchLattice'
  <2>1. Arrival(b, c, grid', position')
    BY DEF Arrival
  <2>2. connectedInterface' = LinksIn(grid', position')
    BY <1>4, <2>1, ArrivalLinks
  <2>3. Joins(b, c)
    BY <2>2 DEF Joins
  <2>. QED BY <2>3, JoinsFollowTheLattice
<1>. QED BY <1>1, <1>2, <1>3, <1>4 DEF LatticeTyped

(* The start of a motion: the block leaves the grid.                       *)
LEMMA TranslationStartKeepsGuiInv ==
  ASSUME NEW t, NEW e, NEW q, GuiStep(t, e, q), TranslationStart(t, e, q)
  PROVE  GuiInv'
<1>. DEFINE b == e.on
            c == e.arg
            new == Motion("TranslationStop", b, c)
            X == ({e} \cup OfKind("RemoveNeighbor")) \cup {new}
<1>1. /\ Turn /\ t \in Time /\ t \in Nat /\ now' = t /\ e \in EventType
      /\ q \in [Time -> Seq(EventType)] /\ Keeps({e}, t, eventsMap, q)
      /\ Pending(eventsMap, e)
      /\ \A x : OnlyAt(eventsMap, e, x) => x = t /\ ~Pending(q, e)
  BY GuiFirstEvent
<1>2. /\ b \in Block /\ c \in Cell /\ e = Motion("TranslationStart", b, c)
      /\ new \in EventType /\ new # e
  <2>1. b \in Block /\ c \in Cell /\ e = Motion("TranslationStart", b, c)
    BY <1>1, EventShape DEF TranslationStart, Motion, MotionKind
  <2>2. QED BY <2>1, EventTypes DEF Motion, Event, MotionKind
<1>3. Orderly("TranslationStart", b, c)
  BY <1>1, <1>2 DEF GuiStep, GuiInv, MotionsAreOrderly, MotionKind
<1>4. /\ ~Pending(q, e) /\ ~Pending(eventsMap, new)
      /\ position[b] # NULL
      /\ \A k \in MotionKind, x \in Cell :
           Pending(eventsMap, Motion(k, b, x)) => k = "TranslationStart" /\ x = c
  <2>1. ~Pending(q, e)
    BY <1>1, <1>2, <1>3 DEF Orderly
  <2>2. \A k \in MotionKind, x \in Cell :
          Pending(eventsMap, Motion(k, b, x)) => k = "TranslationStart" /\ x = c
    BY <1>3 DEF Orderly
  <2>3. ~Pending(eventsMap, new)
    BY <1>2, <2>2 DEF MotionKind
  <2>4. QED BY <1>3, <2>1, <2>2, <2>3 DEF Orderly
<1>5. PICK duration \in MotionTime :
        eventsMap' = Schedule(ScheduleAll(q, t, t, Notices("RemoveNeighbor", CutInterfaces(b))),
                              t, t + duration, new)
  BY DEF TranslationStart, StopDate, Motion
<1>6. t + duration \in Nat
  BY <1>1, TimingAssumption
<1>7. /\ Cuts(b)
      /\ outgoingQueue' =
           [ni \in NI |-> IF ni \in CutInterfaces(b) THEN <<>> ELSE outgoingQueue[ni]]
      /\ UNCHANGED <<messageBeingTransmitted, availabilityDate, localEventsList, codeVars, exited>>
  BY DEF TranslationStart, DisconnectBlock, Cuts
<1>0. CutInterfaces(b) \in SUBSET NI
  BY <1>2, CutsAre DEF GuiStep, GuiInv, GuiTypeOK
<1>. HIDE DEF b, c, new
<1>8. /\ Keeps(X, t, eventsMap, eventsMap')
      /\ OnlyAt(eventsMap', new, t + duration)
      /\ Pending(eventsMap', new) => t + duration \in Time
      /\ ~Pending(eventsMap', e)
  <2>. DEFINE r == ScheduleAll(q, t, t, Notices("RemoveNeighbor", CutInterfaces(b)))
  <2>1. Keeps(OfKind("RemoveNeighbor"), t, q, r)
    BY <1>0, <1>1, NoticesType, ScheduleAllKeeps
  <2>2. Keeps({e} \cup OfKind("RemoveNeighbor"), t, eventsMap, r)
    BY <1>1, <2>1, KeepsTrans
  <2>3. new \notin {e} \cup OfKind("RemoveNeighbor") /\ e \notin OfKind("RemoveNeighbor")
    BY <1>2 DEF OfKind, Motion, Event, new
  <2>4. ~Pending(r, new) /\ ~Pending(r, e)
    BY <1>4, <2>1, <2>2, <2>3 DEF Keeps
  <2>5. r \in [Time -> Seq(EventType)] /\ eventsMap' = Schedule(r, t, t + duration, new)
    BY <1>5, <2>1 DEF Keeps
  <2>. HIDE DEF r
  <2>6. /\ Keeps({new}, t, r, eventsMap')
        /\ Pending(eventsMap', new) <=> Pending(r, new) \/ t + duration \in t..MaximumDate
        /\ ~Pending(r, new) => OnlyAt(eventsMap', new, t + duration)
    BY <1>1, <1>2, <1>6, <2>5, ScheduleKeeps
  <2>7. Pending(eventsMap', new) => t + duration \in Time
    BY <1>6, <2>4, <2>6, MaximumDateAssumption DEF Time
  <2>8. ~Pending(eventsMap', e)
    BY <1>2, <2>4, <2>6 DEF Keeps
  <2>9. QED BY <2>2, <2>4, <2>6, <2>7, <2>8, KeepsTrans
<1>9. /\ \A a \in Block : Process(a) \notin X
      /\ \A k \in MotionKind, a \in Block, x \in Cell :
           Motion(k, a, x) \in X => a = b /\ x = c
  BY <1>2 DEF OfKind, Process, Motion, Event, MotionKind, new
<1>. HIDE DEF X
<1>10. /\ LatticeTyped /\ GridMatchesPositions /\ MotionsAreOrderly /\ LinksMatchUnlessWiped
       /\ InterfacesTyped /\ ListsTyped /\ CodeTyped /\ exited \in BOOLEAN
  BY GuiTypeParts DEF GuiStep, GuiInv
<1>11. /\ LatticeTyped' /\ GridMatchesPositions' /\ position' = position
       /\ \A x \in Cell : grid'[x] # b /\ grid'[x] \in {grid[x], NULL}
       /\ LinksMatchLattice /\ ~Wipes(b) => LinksMatchLattice'
  BY <1>2, <1>4, <1>7, <1>10, Disconnected
<1>16. SideTyped' /\ (wiped => wiped') /\ (Wipes(b) => wiped')
  BY <1>11, GuiSide DEF TranslationStart, b
<1>17. LinksMatchUnlessWiped'
  BY <1>10, <1>11, <1>16 DEF LinksMatchUnlessWiped
<1>12. NothingOverdue' /\ now' \in Time /\ eventsMap' \in [Time -> Seq(EventType)]
  BY <1>1, <1>8, GuiKeptPast
<1>13. GuiTypeOK'
  <2>1. InterfacesTyped' /\ ListsTyped' /\ CodeTyped' /\ exited' \in BOOLEAN
    BY <1>0, <1>7, <1>10 DEF InterfacesTyped, ListsTyped, CodeTyped, codeVars
  <2>2. QED BY <1>11, <1>12, <1>16, <2>1
            DEF GuiTypeOK, LatticeTyped, InterfacesTyped, ListsTyped, CodeTyped, SideTyped
<1>14. LocalListIsServed'
  BY <1>1, <1>7, <1>8, <1>9, GuiKeptLists
<1>15. MotionsAreOrderly'
  <2>1. \A k \in MotionKind, a \in Block, x \in Cell : a # b =>
          /\ Pending(eventsMap', Motion(k, a, x)) => Pending(eventsMap, Motion(k, a, x))
          /\ \A d : OnlyAt(eventsMap, Motion(k, a, x), d) =>
                   OnlyAt(eventsMap', Motion(k, a, x), d)
    BY <1>8, <1>9 DEF Keeps
  <2>2. position' = position
    BY <1>11
  <2>3. \A k \in MotionKind, a \in Block, x \in Cell :
          a # b /\ Pending(eventsMap', Motion(k, a, x)) => Orderly(k, a, x)'
    <3>1. \A x \in Cell : grid'[x] \in {grid[x], b, NULL}
      BY <1>11
    <3>. QED BY <1>2, <1>10, <2>1, <2>2, <3>1, OthersAreOrderly
  <2>4. ASSUME NEW k \in MotionKind, NEW x \in Cell, Pending(eventsMap', Motion(k, b, x))
        PROVE  k = "TranslationStop" /\ x = c
    <3>1. CASE Motion(k, b, x) \in X
      <4>1. x = c
        BY <1>2, <1>9, <3>1
      <4>2. k # "TranslationStart"
        BY <1>2, <1>8, <2>4, <4>1
      <4>3. QED BY <4>1, <4>2 DEF MotionKind
    <3>2. CASE Motion(k, b, x) \notin X
      <4>1. Pending(eventsMap, Motion(k, b, x))
        BY <1>8, <2>4, <3>2 DEF Keeps
      <4>2. k = "TranslationStart" /\ x = c
        BY <1>4, <4>1
      <4>3. QED BY <1>2, <1>8, <2>4, <4>2
    <3>3. QED BY <3>1, <3>2
  <2>5. ASSUME NEW k \in MotionKind, NEW x \in Cell, Pending(eventsMap', Motion(k, b, x))
        PROVE  Orderly(k, b, x)'
    <3>1. k = "TranslationStop" /\ x = c
      BY <2>4, <2>5
    <3>2. OnlyAt(eventsMap', Motion(k, b, x), t + duration) /\ t + duration \in Time
      BY <1>8, <2>5, <3>1 DEF new
    <3>3. position'[b] # NULL
      BY <1>3, <2>2 DEF Orderly
    <3>4. QED BY <1>11, <2>4, <3>1, <3>2, <3>3 DEF Orderly, Motion, Event
  <2>6. QED BY <2>3, <2>5 DEF MotionsAreOrderly, Motion, Event
<1>. QED BY <1>11, <1>12, <1>13, <1>14, <1>15, <1>17 DEF GuiInv

(* The stop of a motion: the block enters the grid, or finds its goal      *)
(* taken by a block the user has added.                                    *)
LEMMA TranslationStopKeepsGuiInv ==
  ASSUME NEW t, NEW e, NEW q, GuiStep(t, e, q), TranslationStop(t, e, q)
  PROVE  GuiInv'
<1>. DEFINE b == e.on
            c == e.arg
            end == Event("TranslationEnd", b, NULL)
            X == ({e} \cup NoticeEvent) \cup {end}
<1>1. /\ Turn /\ t \in Time /\ t \in Nat /\ now' = t /\ e \in EventType
      /\ q \in [Time -> Seq(EventType)] /\ Keeps({e}, t, eventsMap, q)
      /\ Pending(eventsMap, e)
      /\ \A x : OnlyAt(eventsMap, e, x) => x = t /\ ~Pending(q, e)
  BY GuiFirstEvent
<1>2. /\ b \in Block /\ c \in Cell /\ e = Motion("TranslationStop", b, c)
      /\ end \in EventType
  <2>1. b \in Block /\ c \in Cell /\ e = Motion("TranslationStop", b, c)
    BY <1>1, EventShape DEF TranslationStop, Motion, MotionKind
  <2>2. QED BY <2>1, EventTypes
<1>3. Orderly("TranslationStop", b, c)
  BY <1>1, <1>2 DEF GuiStep, GuiInv, MotionsAreOrderly, MotionKind
<1>4. /\ ~Pending(q, e)
      /\ \A x \in Cell : grid[x] # b
      /\ \A k \in MotionKind, x \in Cell :
           Pending(eventsMap, Motion(k, b, x)) => Motion(k, b, x) = e
  <2>1. ~Pending(q, e)
    BY <1>1, <1>2, <1>3 DEF Orderly
  <2>2. QED BY <1>2, <1>3, <2>1 DEF Orderly
<1>8. /\ LatticeTyped /\ GridMatchesPositions /\ LinksMatchUnlessWiped /\ MotionsAreOrderly
      /\ InterfacesTyped /\ ListsTyped /\ CodeTyped /\ exited \in BOOLEAN
  BY GuiTypeParts DEF GuiStep, GuiInv
<1>. DEFINE w == Linking(connectedInterface, grid', Around(c))
<1>5. /\ position' = [position EXCEPT ![b] = c]
      /\ \/ /\ grid[c] # NULL /\ exited' = TRUE /\ eventsMap' = q
            /\ UNCHANGED <<grid, connectedInterface>>
         \/ /\ grid[c] = NULL /\ grid' = [grid EXCEPT ![c] = b] /\ UNCHANGED exited
            /\ connectedInterface' = w.links
            /\ eventsMap' = Schedule(ScheduleAll(q, t, t, w.notices), t, t + EndDelay, end)
      /\ UNCHANGED <<interfaceVars, localEventsList, codeVars>>
  BY DEF TranslationStop
<1>. HIDE DEF b, c, end, w
<1>14. grid[c] = NULL =>
         /\ LatticeTyped' /\ GridMatchesPositions' /\ w.notices \in Seq(NoticeEvent)
         /\ \A x \in Cell : grid'[x] \in {grid[x], b}
         /\ LinksMatchLattice => LinksMatchLattice'
  <2>1. ASSUME grid[c] = NULL
        PROVE  /\ grid' = [grid EXCEPT ![c] = b]
               /\ connectedInterface' = Linking(connectedInterface, grid', Around(c)).links
    BY <1>5, <2>1 DEF w
  <2>. QED BY <1>2, <1>4, <1>5, <1>8, <2>1, Connected DEF w
<1>6. Keeps(X, t, eventsMap, eventsMap') /\ ~Pending(eventsMap', e)
  <2>. DEFINE r == ScheduleAll(q, t, t, w.notices)
  <2>1. e \notin NoticeEvent \cup {end}
    BY <1>2, NoticeEvents DEF Motion, Event, end
  <2>2. CASE eventsMap' = q
    BY <1>1, <1>4, <2>2 DEF Keeps
  <2>3. CASE grid[c] = NULL /\ eventsMap' = Schedule(r, t, t + EndDelay, end)
    <3>2. Keeps(NoticeEvent, t, q, r)
      BY <1>1, <1>14, <2>3, NoticesKeep
    <3>. HIDE DEF r
    <3>3. r \in [Time -> Seq(EventType)]
      BY <3>2 DEF Keeps
    <3>4. t + EndDelay \in Nat
      BY <1>1, TimingAssumption
    <3>5. Keeps({end}, t, r, eventsMap')
      BY <1>1, <1>2, <2>3, <3>3, <3>4, ScheduleKeeps
    <3>6. Keeps({e} \cup NoticeEvent, t, eventsMap, r)
      BY <1>1, <3>2, KeepsTrans
    <3>7. Keeps(X, t, eventsMap, eventsMap')
      BY <3>5, <3>6, KeepsTrans
    <3>8. ~Pending(eventsMap', e)
      BY <1>4, <2>1, <3>2, <3>5 DEF Keeps
    <3>9. QED BY <3>7, <3>8
  <2>4. QED BY <1>5, <2>2, <2>3
<1>7. /\ \A a \in Block : Process(a) \notin X
      /\ \A k \in MotionKind, a \in Block, x \in Cell :
           Motion(k, a, x) \in X => Motion(k, a, x) = e
  BY <1>2, NoticeEvents DEF Process, Motion, Event, MotionKind, end
<1>. HIDE DEF X
<1>9. /\ LatticeTyped' /\ GridMatchesPositions' /\ (LinksMatchLattice => LinksMatchLattice')
      /\ \A x \in Cell : grid'[x] \in {grid[x], b, NULL}
      /\ \A a \in Block : a # b => position'[a] = position[a]
  <2>1. CASE grid[c] # NULL /\ UNCHANGED <<grid, connectedInterface>>
    <3>1. /\ position' \in [Block -> Cell \cup {NULL}] /\ position'[b] = c
          /\ \A a \in Block : a # b => position'[a] = position[a]
          /\ b # NULL /\ c # NULL
      BY <1>2, <1>5, <1>8, TopologyAssumption DEF LatticeTyped
    <3>2. LatticeTyped'
      BY <1>8, <2>1, <3>1 DEF LatticeTyped
    <3>3. GridMatchesPositions'
      BY <1>4, <1>8, <2>1, <3>1 DEF GridMatchesPositions, LatticeTyped
    <3>4. /\ ~InGrid(grid, position, b) /\ ~InGrid(grid', position', b)
          /\ \A a \in Block : InGrid(grid', position', a) <=> InGrid(grid, position, a)
      BY <1>2, <1>4, <1>8, <2>1, <3>1 DEF InGrid, LatticeTyped
    <3>5. \A ni \in NI : PeerIn(grid', position', ni) = PeerIn(grid, position, ni)
      <4>1. ASSUME NEW ni \in NI
            PROVE  PeerIn(grid', position', ni) = PeerIn(grid, position, ni)
        <5>1. ni[1] \in Block
          BY DEF NI
        <5>2. CASE ni[1] = b
          BY <3>4, <5>2 DEF PeerIn
        <5>3. CASE ni[1] # b
          BY <2>1, <3>1, <3>4, <5>1, <5>3 DEF PeerIn
        <5>4. QED BY <5>2, <5>3
      <4>2. QED BY <4>1
    <3>6. LinksIn(grid', position') = LinksIn(grid, position)
      BY <3>5 DEF LinksIn
    <3>7. LinksMatchLattice => LinksMatchLattice'
      BY <1>8, <2>1, <3>6 DEF LinksMatchLattice
    <3>8. QED BY <2>1, <3>1, <3>2, <3>3, <3>7
  <2>2. CASE grid[c] = NULL
    BY <1>5, <1>8, <1>14, <2>2 DEF LatticeTyped
  <2>3. QED BY <1>5, <2>1, <2>2
<1>10. NothingOverdue' /\ now' \in Time /\ eventsMap' \in [Time -> Seq(EventType)]
  BY <1>1, <1>6, GuiKeptPast
<1>15. SideTyped' /\ (wiped => wiped')
  <2>1. \A a \in Block : position[a] # NULL => position'[a] # NULL
    BY <1>2, <1>5, <1>8, TopologyAssumption DEF LatticeTyped
  <2>. QED BY <2>1, GuiSide
<1>16. LinksMatchUnlessWiped'
  BY <1>8, <1>9, <1>15 DEF LinksMatchUnlessWiped
<1>11. GuiTypeOK'
  <2>1. InterfacesTyped' /\ ListsTyped' /\ CodeTyped' /\ exited' \in BOOLEAN
    BY <1>5, <1>8 DEF InterfacesTyped, ListsTyped, CodeTyped, interfaceVars, codeVars
  <2>. QED BY <1>9, <1>10, <1>15, <2>1
           DEF GuiTypeOK, LatticeTyped, InterfacesTyped, ListsTyped, CodeTyped, SideTyped
<1>12. LocalListIsServed'
  BY <1>1, <1>5, <1>6, <1>7, GuiKeptLists
<1>13. MotionsAreOrderly'
  <2>1. \A k \in MotionKind, a \in Block, x \in Cell : a # b =>
          /\ Pending(eventsMap', Motion(k, a, x)) => Pending(eventsMap, Motion(k, a, x))
          /\ \A d : OnlyAt(eventsMap, Motion(k, a, x), d) =>
                   OnlyAt(eventsMap', Motion(k, a, x), d)
    <3>1. ASSUME NEW k \in MotionKind, NEW a \in Block, NEW x \in Cell, a # b
          PROVE  Motion(k, a, x) \notin X
      BY <1>2, <1>7, <3>1 DEF Motion, Event
    <3>2. QED BY <1>6, <3>1 DEF Keeps
  <2>2. \A k \in MotionKind, a \in Block, x \in Cell :
          a # b /\ Pending(eventsMap', Motion(k, a, x)) => Orderly(k, a, x)'
    BY <1>2, <1>8, <1>9, <2>1, OthersAreOrderly
  <2>3. \A k \in MotionKind, x \in Cell : ~Pending(eventsMap', Motion(k, b, x))
    <3>1. ASSUME NEW k \in MotionKind, NEW x \in Cell, Pending(eventsMap', Motion(k, b, x))
          PROVE  FALSE
      <4>1. Motion(k, b, x) # e
        BY <1>6, <3>1
      <4>2. Pending(eventsMap, Motion(k, b, x))
        BY <1>2, <1>6, <1>7, <3>1, <4>1 DEF Keeps
      <4>3. QED BY <1>4, <4>1, <4>2
    <3>2. QED BY <3>1
  <2>4. QED BY <2>2, <2>3 DEF MotionsAreOrderly, Motion, Event
<1>. QED BY <1>9, <1>10, <1>11, <1>12, <1>13, <1>16 DEF GuiInv

-----------------------------------------------------------------------------
(* The user. *)

(* A menu choice comes between two events, at the date of the last one.    *)
LEMMA ClickIsATurn ==
  ASSUME GuiInv, now' = now
  PROVE  Turn
BY DEF Turn, GuiInv, GuiTypeOK, NothingOverdue

(* Only the menu, or the end of the program, is new.                       *)
LEMMA SameWorld ==
  ASSUME GuiInv, GuiTypeOK',
         UNCHANGED <<now, eventsMap, connectedInterface, grid, position, localEventsList, wiped>>
  PROVE  GuiInv'
<1>1. NothingOverdue' /\ GridMatchesPositions'
  BY DEF GuiInv, NothingOverdue, GridMatchesPositions
<1>2. LocalListIsServed'
  BY DEF GuiInv, LocalListIsServed, ListServed, Process, Event
<1>3. LinksMatchUnlessWiped'
  BY DEF GuiInv, LinksMatchUnlessWiped, LinksMatchLattice, LinksIn, PeerIn, InGrid
<1>4. MotionsAreOrderly'
  <2>1. MotionsAreOrderly /\ UNCHANGED <<eventsMap, grid, position>>
    BY DEF GuiInv
  <2>2. ASSUME NEW k \in MotionKind, NEW b \in Block, NEW c \in Cell
        PROVE  Orderly(k, b, c)' <=> Orderly(k, b, c)
    BY <2>1 DEF Orderly, Motion, Event
  <2>. QED BY <2>1, <2>2 DEF MotionsAreOrderly, Motion, Event
<1>. QED BY <1>1, <1>2, <1>3, <1>4 DEF GuiInv

(* The menu opens: nothing of the world changes.                           *)
LEMMA OpenMenuKeepsGuiInv ==
  ASSUME GuiInv, NEW b \in Block, NEW d \in Dir, OpenMenu(b, d)
  PROVE  GuiInv'
<1>1. /\ UNCHANGED vars /\ UNCHANGED <<shown, wiped, clicks>> /\ b \in shown
      /\ menu' = [block |-> b, face |-> d, canAdd |-> Free(FaceCell(b, d))]
  BY DEF OpenMenu
<1>2. menu' \in Menu /\ menu'.block = b
  BY <1>1 DEF Menu, Free, HasBlock
<1>3. SideTyped'
  BY <1>1, <1>2, GuiTypeParts DEF SideTyped, GuiInv, vars
<1>4. GuiTypeOK'
  BY <1>1, <1>3 DEF GuiInv, GuiTypeOK, SideTyped, vars
<1>. QED BY <1>1, <1>4, SameWorld DEF vars

(* The deletion of a block, wherever it is.                                *)
LEMMA DeleteBlockKeepsGuiInv ==
  ASSUME GuiInv, NEW b \in Block, DeleteBlock(b)
  PROVE  GuiInv'
<1>. DEFINE X == OfKind("RemoveNeighbor")
<1>1. /\ clicks' = clicks + 1 /\ menu # NULL /\ menu' = NULL /\ b = menu.block
      /\ Cuts(b)
      /\ wiped' = (wiped \/ Wipes(b))
      /\ outgoingQueue' =
           [ni \in NI |-> IF ni \in CutInterfaces(b) THEN <<>> ELSE outgoingQueue[ni]]
      /\ eventsMap' = ScheduleAll(eventsMap, now, now, Notices("RemoveNeighbor", CutInterfaces(b)))
      /\ shown' = shown \ {b}
      /\ UNCHANGED <<now, messageBeingTransmitted, availabilityDate, localEventsList,
                     codeVars, exited>>
  BY DEF DeleteBlock, DisconnectBlock, Cuts, Choose
<1>2. /\ Turn /\ now' = now /\ now \in Time /\ now \in Nat
      /\ eventsMap \in [Time -> Seq(EventType)]
  BY <1>1, ClickIsATurn DEF GuiInv, GuiTypeOK, Time
<1>5. /\ LatticeTyped /\ GridMatchesPositions /\ LinksMatchUnlessWiped /\ MotionsAreOrderly
      /\ InterfacesTyped /\ ListsTyped /\ CodeTyped /\ SideTyped /\ exited \in BOOLEAN
  BY GuiTypeParts DEF GuiInv
<1>6. /\ LatticeTyped' /\ GridMatchesPositions' /\ position' = position
      /\ CutInterfaces(b) \in SUBSET NI
      /\ \A x \in Cell : grid'[x] # b /\ grid'[x] \in {grid[x], NULL}
      /\ LinksMatchLattice /\ ~Wipes(b) => LinksMatchLattice'
  <2>1. position[b] # NULL
    BY <1>1, <1>5 DEF SideTyped
  <2>. QED BY <1>1, <1>5, <2>1, Disconnected
<1>3. Keeps(X, now', eventsMap, eventsMap')
  BY <1>1, <1>2, <1>6, NoticesType, ScheduleAllKeeps
<1>4. /\ \A a \in Block : Process(a) \notin X
      /\ \A k \in MotionKind, a \in Block, x \in Cell : Motion(k, a, x) \notin X
  BY DEF OfKind, Process, Motion, Event, MotionKind
<1>. HIDE DEF X
<1>7. NothingOverdue' /\ now' \in Time /\ eventsMap' \in [Time -> Seq(EventType)]
  BY <1>2, <1>3, GuiKeptPast
<1>8. GuiTypeOK'
  <2>1. InterfacesTyped' /\ ListsTyped' /\ CodeTyped' /\ exited' \in BOOLEAN
    BY <1>1, <1>5, <1>6 DEF InterfacesTyped, ListsTyped, CodeTyped, codeVars
  <2>2. SideTyped'
    BY <1>1, <1>5, <1>6 DEF SideTyped
  <2>. QED BY <1>6, <1>7, <2>1, <2>2
           DEF GuiTypeOK, LatticeTyped, InterfacesTyped, ListsTyped, CodeTyped, SideTyped
<1>9. LocalListIsServed'
  BY <1>1, <1>2, <1>3, <1>4, GuiKeptLists
<1>10. MotionsAreOrderly'
  <2>1. \A k \in MotionKind, a \in Block, x \in Cell :
          /\ Pending(eventsMap', Motion(k, a, x)) <=> Pending(eventsMap, Motion(k, a, x))
          /\ \A d : OnlyAt(eventsMap, Motion(k, a, x), d) =>
                   OnlyAt(eventsMap', Motion(k, a, x), d)
    BY <1>3, <1>4 DEF Keeps
  <2>2. ASSUME NEW k \in MotionKind, NEW a \in Block, NEW x \in Cell,
               Pending(eventsMap', Motion(k, a, x))
        PROVE  Orderly(k, a, x)'
    <3>1. Orderly(k, a, x) /\ a # NULL
      BY <1>5, <2>1, <2>2, TopologyAssumption DEF MotionsAreOrderly
    <3>2. \E d \in Time : OnlyAt(eventsMap', Motion(k, a, x), d)
      BY <2>1, <3>1 DEF Orderly
    <3>3. k = "TranslationStop" => \A y \in Cell : grid'[y] # a
      BY <1>6, <3>1 DEF Orderly
    <3>4. \A l \in MotionKind, y \in Cell : Pending(eventsMap', Motion(l, a, y)) => l = k /\ y = x
      BY <2>1, <3>1 DEF Orderly
    <3>. QED BY <1>6, <3>1, <3>2, <3>3, <3>4 DEF Orderly, Motion, Event
  <2>. QED BY <2>2 DEF MotionsAreOrderly, Motion, Event
<1>11. LinksMatchUnlessWiped'
  BY <1>1, <1>5, <1>6 DEF LinksMatchUnlessWiped
<1>. QED BY <1>6, <1>7, <1>8, <1>9, <1>10, <1>11 DEF GuiInv

(* The addition of a block at the selected face, if its cell is still free. *)
LEMMA AddBlockKeepsGuiInv ==
  ASSUME GuiInv, NEW b \in Block, AddBlock(b)
  PROVE  GuiInv'
<1>. DEFINE c == FaceCell(menu.block, menu.face)
            w == Linking(connectedInterface, grid', Around(c))
            begin == Event("CodeStart", b, NULL)
            X == {begin} \cup NoticeEvent
<1>1. /\ clicks' = clicks + 1 /\ menu # NULL /\ menu' = NULL /\ position[b] = NULL
      /\ UNCHANGED <<now, interfaceVars, localEventsList, codeVars, wiped>>
  BY DEF AddBlock, Choose
<1>2. /\ Turn /\ now' = now /\ now \in Time /\ now \in Nat
      /\ eventsMap \in [Time -> Seq(EventType)]
  BY <1>1, ClickIsATurn DEF GuiInv, GuiTypeOK, Time
<1>3. /\ LatticeTyped /\ GridMatchesPositions /\ LinksMatchUnlessWiped /\ MotionsAreOrderly
      /\ InterfacesTyped /\ ListsTyped /\ CodeTyped /\ SideTyped /\ exited \in BOOLEAN
  BY GuiTypeParts DEF GuiInv
<1>4. CASE ~Free(c)
  <2>1. exited' = TRUE /\ UNCHANGED <<worldVars, eventsMap, shown>>
    BY <1>4 DEF AddBlock
  <2>2. SideTyped'
    BY <1>1, <1>3, <2>1 DEF SideTyped, worldVars
  <2>3. GuiTypeOK'
    BY <1>1, <1>2, <1>3, <2>1, <2>2
       DEF GuiTypeOK, LatticeTyped, InterfacesTyped, ListsTyped, CodeTyped, SideTyped,
           interfaceVars, codeVars, worldVars
  <2>. QED BY <1>1, <2>1, <2>3, SameWorld DEF worldVars
<1>5. CASE Free(c)
  <2>1. c \in Cell /\ grid[c] = NULL
    <3>1. c # NULL /\ grid[c] = NULL
      BY <1>5 DEF Free, HasBlock
    <3>2. menu.block \in Block /\ menu.face \in Dir /\ position[menu.block] # NULL
      BY <1>1, <1>3 DEF SideTyped, Menu
    <3>3. position[menu.block] \in Cell
      BY <1>3, <3>2 DEF LatticeTyped
    <3>. QED BY <3>1, <3>2, <3>3, TopologyAssumption DEF FaceCell
  <2>2. ASSUME NEW x \in Cell
        PROVE  grid[x] # b
    <3>1. b # NULL /\ x # NULL
      BY TopologyAssumption
    <3>2. grid[x] # NULL => position[grid[x]] = x
      BY <1>3 DEF GridMatchesPositions
    <3>3. position[b] = NULL
      BY <1>1
    <3>. HIDE DEF c, w, begin, X
    <3>. QED BY <3>1, <3>2, <3>3
  <2>3. /\ position' = [position EXCEPT ![b] = c]
        /\ grid' = [grid EXCEPT ![c] = b]
        /\ connectedInterface' = w.links
        /\ eventsMap' = ScheduleAll(Schedule(eventsMap, now, now, begin), now, now, w.notices)
        /\ shown' = shown \cup {b} /\ UNCHANGED exited
    BY <1>5 DEF AddBlock
  <2>. HIDE DEF c
  <2>4. /\ LatticeTyped' /\ GridMatchesPositions' /\ w.notices \in Seq(NoticeEvent)
        /\ \A x \in Cell : grid'[x] \in {grid[x], b}
        /\ position'[b] = c /\ \A a \in Block : a # b => position'[a] = position[a]
        /\ LinksMatchLattice => LinksMatchLattice'
    BY <1>3, <2>1, <2>2, <2>3, Connected
  <2>. HIDE DEF w
  <2>5. Keeps(X, now', eventsMap, eventsMap')
    <3>. DEFINE r == Schedule(eventsMap, now, now, begin)
    <3>1. begin \in EventType
      BY DEF EventType, Event, BlockEventKind
    <3>. HIDE DEF begin
    <3>2. Keeps({begin}, now, eventsMap, r)
      BY <1>2, <3>1, ScheduleKeeps
    <3>3. r \in [Time -> Seq(EventType)] /\ eventsMap' = ScheduleAll(r, now, now, w.notices)
      BY <2>3, <3>2 DEF Keeps
    <3>. HIDE DEF r
    <3>4. Keeps(NoticeEvent, now, r, eventsMap')
      BY <1>2, <2>4, <3>3, NoticesKeep
    <3>. QED BY <1>2, <3>2, <3>4, KeepsTrans
  <2>6. /\ \A x \in Block : Process(x) \notin X
        /\ \A k \in MotionKind, x \in Block, y \in Cell : Motion(k, x, y) \notin X
    BY NoticeEvents DEF Process, Motion, Event, MotionKind
  <2>. HIDE DEF X
  <2>7. NothingOverdue' /\ now' \in Time /\ eventsMap' \in [Time -> Seq(EventType)]
    BY <1>2, <2>5, GuiKeptPast
  <2>8. GuiTypeOK'
    <3>1. SideTyped'
      BY <1>1, <1>3, <2>1, <2>3, <2>4, TopologyAssumption DEF SideTyped
    <3>. QED BY <1>1, <1>3, <2>3, <2>4, <2>7, <3>1
             DEF GuiTypeOK, LatticeTyped, InterfacesTyped, ListsTyped, CodeTyped, SideTyped,
                 interfaceVars, codeVars
  <2>9. LocalListIsServed'
    BY <1>1, <1>2, <2>5, <2>6, GuiKeptLists
  <2>10. MotionsAreOrderly'
    <3>1. \A k \in MotionKind, x \in Block, y \in Cell :
            /\ Pending(eventsMap', Motion(k, x, y)) <=> Pending(eventsMap, Motion(k, x, y))
            /\ \A z : OnlyAt(eventsMap, Motion(k, x, y), z) =>
                     OnlyAt(eventsMap', Motion(k, x, y), z)
      BY <2>5, <2>6 DEF Keeps
    <3>2. \A y \in Cell : grid'[y] \in {grid[y], b, NULL}
      BY <2>4
    <3>3. \A k \in MotionKind, x \in Block, y \in Cell :
            x # b /\ Pending(eventsMap', Motion(k, x, y)) => Orderly(k, x, y)'
      BY <1>3, <2>4, <3>1, <3>2, OthersAreOrderly
    <3>4. \A k \in MotionKind, y \in Cell : ~Pending(eventsMap', Motion(k, b, y))
      BY <1>1, <1>3, <3>1 DEF MotionsAreOrderly, Orderly
    <3>. QED BY <3>3, <3>4 DEF MotionsAreOrderly, Motion, Event
  <2>11. LinksMatchUnlessWiped'
    BY <1>1, <1>3, <2>4 DEF LinksMatchUnlessWiped
  <2>. QED BY <2>4, <2>7, <2>8, <2>9, <2>10, <2>11 DEF GuiInv
<1>. QED BY <1>4, <1>5

-----------------------------------------------------------------------------
(* The invariant. *)

(* The configuration is linked as the lattice has it.                      *)
LEMMA InitGuiInv == GuiInit => GuiInv
<1>. SUFFICES ASSUME GuiInit PROVE GuiInv
  OBVIOUS
<1>1. IInv
  BY InitIInv DEF GuiInit
<1>2. GuiTypeOK
  <2>1. ListsTyped
    BY <1>1 DEF IInv, TypeOK, ListsTyped, GuiLocalEvent
  <2>2. SideTyped
    BY DEF GuiInit, SideTyped
  <2>3. QED BY <1>1, <2>1, <2>2 DEF GuiTypeOK, ListsTyped, SideTyped, IInv, TypeOK
<1>3. MotionsAreOrderly /\ LinksMatchUnlessWiped
  BY <1>1, InitEvents DEF GuiInit, MotionsAreOrderly, LinksMatchUnlessWiped, IInv
<1>. QED BY <1>1, <1>2, <1>3 DEF GuiInv, IInv

(* The events of the scheduler and the choices of the user keep it.        *)
LEMMA StepKeepsGuiInv == GuiInv /\ [Scheduler \/ User]_guiVars => GuiInv'
<1>1. ASSUME GuiInv, Scheduler
      PROVE  GuiInv'
  <2>1. PICK t \in Time :
          /\ IsFirstDate(eventsMap, t)
          /\ now' = t
          /\ Consume(t, Head(eventsMap[t]), EraseFirst(eventsMap, t))
    BY <1>1 DEF Scheduler, Next
  <2>. DEFINE e == Head(eventsMap[t])
              q == EraseFirst(eventsMap, t)
  <2>2. GuiStep(t, e, q)
    BY <1>1, <2>1 DEF GuiStep, First, Scheduler
  <2>3. Consume(t, e, q)
    BY <2>1
  <2>. HIDE DEF e, q
  <2>4. CASE CodeStart(t, e, q)
    BY <2>2, <2>4, CodeStartKeepsGuiInv
  <2>5. CASE Notify(t, e, q)
    BY <2>2, <2>5, NotifyKeepsGuiInv
  <2>6. CASE ProcessLocal(t, e, q)
    BY <2>2, <2>6, ProcessLocalKeepsGuiInv
  <2>7. CASE EnqueueOutgoing(t, e, q)
    BY <2>2, <2>7, EnqueueOutgoingKeepsGuiInv
  <2>8. CASE StartTransmitting(t, e, q)
    BY <2>2, <2>8, StartTransmittingKeepsGuiInv
  <2>9. CASE StopTransmitting(t, e, q)
    BY <2>2, <2>9, StopTransmittingKeepsGuiInv
  <2>10. CASE TranslationStart(t, e, q)
    BY <2>2, <2>10, TranslationStartKeepsGuiInv
  <2>11. CASE TranslationStop(t, e, q)
    BY <2>2, <2>11, TranslationStopKeepsGuiInv
  <2>12. QED
    BY <2>3, <2>4, <2>5, <2>6, <2>7, <2>8, <2>9, <2>10, <2>11 DEF Consume
<1>2. ASSUME GuiInv, User
      PROVE  GuiInv'
  <2>1. CASE \E b \in Block, d \in Dir : OpenMenu(b, d)
    BY <1>2, <2>1, OpenMenuKeepsGuiInv
  <2>2. CASE \E b \in Block : DeleteBlock(b)
    BY <1>2, <2>2, DeleteBlockKeepsGuiInv
  <2>3. CASE \E b \in Block : AddBlock(b)
    BY <1>2, <2>3, AddBlockKeepsGuiInv
  <2>. QED BY <1>2, <2>1, <2>2, <2>3 DEF User
<1>3. ASSUME GuiInv, UNCHANGED guiVars
      PROVE  GuiInv'
  <2>1. GuiTypeOK'
    BY <1>3 DEF guiVars, vars, GuiInv, GuiTypeOK
  <2>. QED BY <1>3, <2>1, SameWorld DEF guiVars, vars
<1>4. QED BY <1>1, <1>2, <1>3

(* Types, local lists and motions stay in order whatever the user adds and *)
(* deletes between two events, blocks that move included, and so do the    *)
(* links until disconnectBlock frees a cell under another block.           *)
THEOREM GuiInvariance == GuiSpec => []GuiInv
<1>1. GuiInit => GuiInv
  BY InitGuiInv
<1>2. GuiInv /\ [Scheduler \/ User]_guiVars => GuiInv'
  BY StepKeepsGuiInv
<1>3. QED BY <1>1, <1>2, PTL DEF GuiSpec

(* Whatever the user deletes and adds, blocks whose motion is pending or   *)
(* under way, cells that moving blocks are to enter, menus made before     *)
(* another event: the links follow the lattice unless disconnectBlock has  *)
(* freed, at the position of the block it disconnects, a cell that another *)
(* block had taken.                                                        *)
THEOREM GuiLinksFollowTheLattice == GuiSpec => []LinksMatchUnlessWiped
BY GuiInvariance, PTL DEF GuiInv

(* processLocalEvent() never finds an empty list and no local event is left *)
(* behind, although the notices of cut and added links come from the user. *)
THEOREM GuiLocalListsAreServed == GuiSpec => []LocalListIsServed
BY GuiInvariance, PTL DEF GuiInv
=============================================================================
