--------------------------- MODULE SchedulerProofs ---------------------------
(***************************************************************************)
(* The threads of a simulation, for every command line, every set of       *)
(* events and any number of keys: what both schedulers keep true of the    *)
(* list of events and of each other.                                       *)
(***************************************************************************)
EXTENDS MeldInterpretScheduler, EventListProofs, WellFoundedInduction

-----------------------------------------------------------------------------
(* Lemmas about the list of events. *)

(* Events are pending iff the list is not empty. *)
LEMMA EmptyIsNothingPending ==
  ASSUME NEW q \in [Time -> Seq(Ev)]
  PROVE  (\A d \in Time : q[d] = <<>>) <=> \A e : ~Pending(q, e)
<1>1. ASSUME NEW d \in Time, q[d] # <<>>
      PROVE  Pending(q, q[d][1])
  <2>1. q[d] \in Seq(Ev) /\ Len(q[d]) \in Nat /\ DOMAIN q[d] = 1..Len(q[d])
    BY LenProperties
  <2>2. Len(q[d]) # 0
    BY <1>1, <2>1, EmptySeq
  <2>3. 1 \in DOMAIN q[d]
    BY <2>1, <2>2
  <2>. QED BY <2>3 DEF Pending
<1>2. ASSUME NEW d \in Time, NEW i \in DOMAIN q[d], q[d] = <<>>
      PROVE  FALSE
  BY <1>2
<1>. QED BY <1>1, <1>2 DEF Pending

(* A set of dates has a first one. *)
LEMMA FirstDateExists ==
  ASSUME NEW T, T \subseteq Nat, T # {}
  PROVE  \E x \in T : \A y \in T : ~(y < x)
<1>. DEFINE R == OpToRel(<, Nat)
<1>1. IsWellFoundedOn(R, Nat)
  BY NatLessThanWellFounded
<1>. HIDE DEF R
<1>2. PICK x \in T : \A y \in T : <<y, x>> \notin R
  BY <1>1, WFMin
<1>3. \A y \in T : y < x => <<y, x>> \in R
  BY DEF R, OpToRel
<1>. QED BY <1>2, <1>3

(* The scheduler takes an event of the first date that has one, the first  *)
(* of them.                                                                *)
LEMMA FirstEventIsFirst ==
  ASSUME eventsMap \in [Time -> Seq(Ev)], ~Empty
  PROVE  /\ FirstEvent \in [ev : Ev, date : Time]
         /\ IsFirstDate(eventsMap, FirstEvent.date)
         /\ 1 \in DOMAIN eventsMap[FirstEvent.date]
         /\ eventsMap[FirstEvent.date][1] = FirstEvent.ev
<1>. DEFINE T == {d \in Time : eventsMap[d] # <<>>}
            S == {Dated(eventsMap[d][1], d) : d \in T}
<1>1. T \subseteq Nat /\ T # {}
  BY DEF Empty, Time
<1>2. PICK x \in T : \A y \in T : ~(y < x)
  BY <1>1, FirstDateExists
<1>3. \A c \in Time : c < x => eventsMap[c] = <<>>
  BY <1>2
<1>4. IsFirstDate(eventsMap, x)
  BY <1>2, <1>3 DEF IsFirstDate
<1>5. Dated(eventsMap[x][1], x) \in S /\ Dated(eventsMap[x][1], x).date = x
  BY <1>2 DEF Dated
<1>6. \E p \in S : IsFirstDate(eventsMap, p.date)
  BY <1>4, <1>5
<1>7. FirstEvent = CHOOSE p \in S : IsFirstDate(eventsMap, p.date)
  BY DEF FirstEvent
<1>8. FirstEvent \in S /\ IsFirstDate(eventsMap, FirstEvent.date)
  BY <1>6, <1>7
<1>9. PICK d \in T : FirstEvent = Dated(eventsMap[d][1], d)
  BY <1>8
<1>10. d \in Time /\ eventsMap[d] \in Seq(Ev) /\ eventsMap[d] # <<>>
  BY <1>9
<1>11. Len(eventsMap[d]) \in Nat /\ Len(eventsMap[d]) # 0 /\ DOMAIN eventsMap[d] = 1..Len(eventsMap[d])
  BY <1>10, LenProperties, EmptySeq
<1>12. 1 \in DOMAIN eventsMap[d] /\ eventsMap[d][1] \in Ev
  BY <1>10, <1>11, ElementOfSeq
<1>. QED BY <1>8, <1>9, <1>10, <1>12 DEF Dated

(* Inserting an event, which was not pending and comes from now on, leaves *)
(* the others where they were.                                             *)
LEMMA InsertOne ==
  ASSUME eventsMap \in [Time -> Seq(Ev)], NEW p \in [ev : Ev, date : Time]
  PROVE  /\ Insert(p) \in [Time -> Seq(Ev)]
         /\ \A e : Pending(Insert(p), e) <=> Pending(eventsMap, e) \/ e = p.ev
         /\ \A e, x : e # p.ev /\ OnlyAt(eventsMap, e, x) => OnlyAt(Insert(p), e, x)
         /\ ~Pending(eventsMap, p.ev) => OnlyAt(Insert(p), p.ev, p.date)
         /\ \A c \in Time : c # p.date => Insert(p)[c] = eventsMap[c]
         /\ \A c \in Time : \A i \in DOMAIN eventsMap[c] :
              i \in DOMAIN Insert(p)[c] /\ Insert(p)[c][i] = eventsMap[c][i]
<1>1. p.ev \in Ev /\ p.date \in Time /\ p.date \in 0..MaximumDate /\ p.date \in Nat /\ 0 \in Time
  BY MaximumDateAssumption DEF Time
<1>2. eventsMap[p.date] \in Seq(Ev)
  BY <1>1
<1>3. Append(eventsMap[p.date], p.ev) = eventsMap[p.date] \o <<p.ev>>
  BY <1>1, <1>2, AppendIsConcat
<1>4. Insert(p) = Schedule(eventsMap, 0, p.date, p.ev)
  BY <1>1, <1>3 DEF Insert, Schedule, ScheduleAll
<1>5. \A c \in Time : c # p.date => Insert(p)[c] = eventsMap[c]
  BY DEF Insert
<1>6. ASSUME NEW c \in Time, NEW i \in DOMAIN eventsMap[c]
      PROVE  i \in DOMAIN Insert(p)[c] /\ Insert(p)[c][i] = eventsMap[c][i]
  <2>1. CASE c # p.date
    BY <1>5, <2>1
  <2>2. CASE c = p.date
    <3>1. Insert(p)[c] = Append(eventsMap[c], p.ev)
      BY <2>2 DEF Insert
    <3>2. eventsMap[c] \in Seq(Ev) /\ Append(eventsMap[c], p.ev) \in Seq(Ev)
      BY <1>1, AppendProperties
    <3>3. i \in 1..Len(eventsMap[c]) /\ Len(eventsMap[c]) \in Nat
      BY <3>2, LenProperties
    <3>4. DOMAIN Insert(p)[c] = 1..(Len(eventsMap[c]) + 1)
      BY <1>1, <3>1, <3>2, AppendProperties, LenProperties
    <3>5. Insert(p)[c][i] = eventsMap[c][i]
      BY <1>1, <3>1, <3>2, <3>3, AppendProperties
    <3>. QED BY <3>3, <3>4, <3>5
  <2>. QED BY <2>1, <2>2
<1>. QED BY <1>1, <1>4, <1>5, <1>6, ScheduleOne

(* What is left of a sequence without its element at i. *)
LEMMA RemoveAtProperties ==
  ASSUME NEW E, NEW q \in Seq(E), NEW i \in DOMAIN q
  PROVE  /\ RemoveAt(q, i) \in Seq(E)
         /\ Len(RemoveAt(q, i)) = Len(q) - 1
         /\ \A j \in 1..(Len(q) - 1) :
              RemoveAt(q, i)[j] = q[IF j < i THEN j ELSE j + 1]
<1>. DEFINE a == SubSeq(q, 1, i - 1)
            b == SubSeq(q, i + 1, Len(q))
<1>1. Len(q) \in Nat /\ i \in 1..Len(q) /\ \A j \in 1..Len(q) : q[j] \in E
  BY LenProperties, ElementOfSeq
<1>2. \A j \in 1..(i - 1) : q[j] \in E
  BY <1>1
<1>3. \A j \in (i + 1)..Len(q) : q[j] \in E
  BY <1>1
<1>4. /\ a \in Seq(E) /\ Len(a) = i - 1
      /\ \A j \in 1..(i - 1) : a[j] = q[j]
  BY <1>1, <1>2, SubSeqProperties
<1>5. /\ b \in Seq(E) /\ Len(b) = Len(q) - i
      /\ \A j \in 1..(Len(q) - i) : b[j] = q[i + j]
  <2>1. /\ b \in Seq(E) /\ Len(b) = IF i + 1 <= Len(q) THEN Len(q) - (i + 1) + 1 ELSE 0
        /\ \A j \in 1..(Len(q) - (i + 1) + 1) : b[j] = q[(i + 1) + j - 1]
    BY <1>1, <1>3, SubSeqProperties
  <2>. QED BY <1>1, <2>1
<1>6. RemoveAt(q, i) = a \o b
  BY DEF RemoveAt
<1>. HIDE DEF a, b
<1>7. /\ a \o b \in Seq(E) /\ Len(a \o b) = Len(q) - 1
      /\ \A j \in 1..(Len(q) - 1) : (a \o b)[j] = IF j <= i - 1 THEN a[j] ELSE b[j - (i - 1)]
  <2>1. /\ a \o b \in Seq(E) /\ Len(a \o b) = Len(a) + Len(b)
        /\ \A j \in 1..(Len(a) + Len(b)) :
             (a \o b)[j] = IF j <= Len(a) THEN a[j] ELSE b[j - Len(a)]
    BY <1>4, <1>5, ConcatProperties
  <2>2. Len(a) = i - 1 /\ Len(a) + Len(b) = Len(q) - 1
    BY <1>1, <1>4, <1>5
  <2>. QED BY <2>1, <2>2
<1>8. ASSUME NEW j \in 1..(Len(q) - 1)
      PROVE  (a \o b)[j] = q[IF j < i THEN j ELSE j + 1]
  <2>1. CASE j < i
    BY <1>1, <1>4, <1>7, <2>1
  <2>2. CASE ~(j < i)
    <3>1. j - (i - 1) \in 1..(Len(q) - i) /\ i + (j - (i - 1)) = j + 1
      BY <1>1, <2>2
    <3>2. (a \o b)[j] = b[j - (i - 1)]
      BY <1>1, <1>7, <2>2
    <3>. QED BY <1>5, <2>2, <3>1, <3>2
  <2>. QED BY <2>1, <2>2
<1>. QED BY <1>6, <1>7, <1>8

(* Erasing an event that is pending once: it is gone, the others stay.     *)
LEMMA EraseOne ==
  ASSUME eventsMap \in [Time -> Seq(Ev)], NEW p \in [ev : Ev, date : Time],
         \E i \in DOMAIN eventsMap[p.date] : eventsMap[p.date][i] = p.ev,
         NEW y, OnlyAt(eventsMap, p.ev, y)
  PROVE  /\ Erase(p) \in [Time -> Seq(Ev)]
         /\ \A e : Pending(Erase(p), e) <=> Pending(eventsMap, e) /\ e # p.ev
         /\ \A e, x : OnlyAt(eventsMap, e, x) => OnlyAt(Erase(p), e, x)
         /\ \A c \in Time : c # p.date => Erase(p)[c] = eventsMap[c]
<1>. DEFINE q == eventsMap[p.date]
            k == Place(p)
            r == Erase(p)
<1>1. p.ev \in Ev /\ p.date \in Time /\ q \in Seq(Ev)
  OBVIOUS
<1>2. k \in DOMAIN q /\ q[k] = p.ev
  BY DEF Place
<1>3. Len(q) \in Nat /\ DOMAIN q = 1..Len(q)
  BY <1>1, LenProperties
<1>4. /\ RemoveAt(q, k) \in Seq(Ev)
      /\ Len(RemoveAt(q, k)) = Len(q) - 1
      /\ \A j \in 1..(Len(q) - 1) : RemoveAt(q, k)[j] = q[IF j < k THEN j ELSE j + 1]
  BY <1>1, <1>2, RemoveAtProperties
<1>5. DOMAIN RemoveAt(q, k) = 1..(Len(q) - 1)
  BY <1>4, LenProperties
<1>6. r = [eventsMap EXCEPT ![p.date] = RemoveAt(q, k)]
  BY DEF Erase
<1>7. r \in [Time -> Seq(Ev)] /\ r[p.date] = RemoveAt(q, k)
      /\ \A c \in Time : c # p.date => r[c] = eventsMap[c]
  BY <1>1, <1>4, <1>6
<1>8. \A j \in DOMAIN q : q[j] = p.ev => j = k
  BY <1>1, <1>2 DEF OnlyAt
<1>. HIDE DEF q, k, r
(* Each entry of r was one of the list, another for another. *)
<1>9. ASSUME NEW c \in Time, NEW j \in DOMAIN r[c]
      PROVE  /\ r[c][j] # p.ev
             /\ \E m \in DOMAIN eventsMap[c] :
                  eventsMap[c][m] = r[c][j] /\ m = IF c = p.date /\ j >= k THEN j + 1 ELSE j
  <2>1. CASE c # p.date
    <3>1. r[c] = eventsMap[c]
      BY <1>7, <2>1
    <3>2. p.date = y
      BY <1>1, <1>2 DEF OnlyAt, q
    <3>. QED BY <2>1, <3>1, <3>2 DEF OnlyAt
  <2>2. CASE c = p.date
    <3>. DEFINE m == IF j < k THEN j ELSE j + 1
    <3>1. j \in 1..(Len(q) - 1) /\ k \in 1..Len(q) /\ r[c][j] = q[m]
      BY <1>2, <1>3, <1>4, <1>5, <1>7, <2>2
    <3>2. m \in DOMAIN q /\ m # k
      BY <1>3, <3>1
    <3>3. q[m] # p.ev
      BY <1>8, <3>2
    <3>4. eventsMap[c] = q
      BY <2>2 DEF q
    <3>5. m = IF c = p.date /\ j >= k THEN j + 1 ELSE j
      BY <1>3, <2>2, <3>1
    <3>. QED BY <3>1, <3>2, <3>3, <3>4, <3>5
  <2>. QED BY <2>1, <2>2
<1>10. ASSUME NEW c \in Time, NEW m \in DOMAIN eventsMap[c], eventsMap[c][m] # p.ev
       PROVE  \E j \in DOMAIN r[c] : r[c][j] = eventsMap[c][m]
  <2>1. CASE c # p.date
    BY <1>7, <2>1
  <2>2. CASE c = p.date
    <3>. DEFINE j == IF m < k THEN m ELSE m - 1
    <3>1. eventsMap[c] = q /\ m # k /\ m \in 1..Len(q) /\ k \in 1..Len(q)
      BY <1>2, <1>3, <1>10, <2>2 DEF q
    <3>2. j \in 1..(Len(q) - 1) /\ m = IF j < k THEN j ELSE j + 1
      BY <1>3, <3>1
    <3>3. r[c][j] = q[m]
      BY <1>4, <1>7, <2>2, <3>2
    <3>. QED BY <1>5, <1>7, <2>2, <3>1, <3>2, <3>3
  <2>. QED BY <2>1, <2>2
<1>11. ASSUME NEW e
       PROVE  Pending(r, e) <=> Pending(eventsMap, e) /\ e # p.ev
  BY <1>9, <1>10 DEF Pending
<1>12. ASSUME NEW e, NEW x, OnlyAt(eventsMap, e, x)
       PROVE  OnlyAt(r, e, x)
  <2>1. ASSUME NEW c \in Time, NEW i \in DOMAIN r[c], r[c][i] = e
        PROVE  c = x /\ \A j \in DOMAIN r[c] : r[c][j] = e => i = j
    <3>1. c = x
      BY <1>9, <1>12, <2>1 DEF OnlyAt
    <3>2. ASSUME NEW j \in DOMAIN r[c], r[c][j] = e
          PROVE  i = j
      <4>. DEFINE a == IF c = p.date /\ i >= k THEN i + 1 ELSE i
                  b == IF c = p.date /\ j >= k THEN j + 1 ELSE j
      <4>1. a \in DOMAIN eventsMap[c] /\ eventsMap[c][a] = e
        BY <1>9, <2>1
      <4>2. b \in DOMAIN eventsMap[c] /\ eventsMap[c][b] = e
        BY <1>9, <3>2
      <4>3. a = b
        BY <1>12, <4>1, <4>2 DEF OnlyAt
      <4>4. r[c] \in Seq(Ev)
        BY <1>7
      <4>5. i \in Int /\ j \in Int /\ k \in Int
        BY <1>2, <1>3, <4>4, LenProperties
      <4>. QED BY <4>3, <4>5
    <3>. QED BY <3>1, <3>2
  <2>. QED BY <2>1 DEF OnlyAt
<1>. QED BY <1>7, <1>11, <1>12 DEF r

-----------------------------------------------------------------------------
(* The inductive invariant. *)

Event == [ev : Ev, date : Time]
ClickPC == {"date", "lock", "insert"}
WindowPC == ClickPC \cup {"loop"}
BeforeEnd == {"begin", "run", "wait", "join"}
LeavingPC == {"join thread", "joining", "destroy", "exit"}
MainPC == WindowPC \cup BeforeEnd \cup LeavingPC \cup {"stop", "delete", "instruct", "release", "end"}
LoopPC == {"test", "inner", "take", "consume", "lock", "insert", "erase", "again"}
MeldPC == {"turn", "drain", "drained"}
StartPC == {"start", "starting", "choose"}
AtEvent == {"consume", "lock", "insert", "erase"}  \* pev is in the list
Created == {"lock", "insert"}                      \* new is not yet

(* The fields of the three records, one by one. *)
ObjInv ==
  /\ DOMAIN obj = {"mode", "state", "terminate", "starts", "thread", "left", "alive"}
  /\ obj.mode \in {"FASTEST", "REALTIME", "DEBUG"}
  /\ obj.state \in {"NOTREADY", "NOTSTARTED", "RUNNING", "ENDED"}
  /\ obj.starts \in Nat
  /\ {obj.terminate, obj.thread, obj.left, obj.alive} \subseteq BOOLEAN

SchedulerInv ==
  /\ DOMAIN s = {"pc", "pev", "new", "loop", "limit"}
  /\ s.pc \in PC
  /\ s.loop \in {NULL, "FASTEST", "REALTIME", "DEBUG", "MELD"}
  /\ s.limit \in Time

MainInv ==
  /\ DOMAIN u = {"pc", "new", "keys", "joined", "asked"}
  /\ u.pc \in MainPC
  /\ {u.joined, u.asked} \subseteq BOOLEAN

TypeInv ==
  /\ cmd \in CommandLine
  /\ eventsMap \in [Time -> Seq(Ev)]
  /\ now \in Time /\ clock \in Time
  /\ ObjInv /\ SchedulerInv /\ MainInv
  /\ fresh \subseteq Ev /\ consumed \subseteq Ev

LockInv ==
  /\ lock \in {NULL, "scheduler", "user"}
  /\ lock = "scheduler" <=> s.pc = "insert"
  /\ lock = "user" <=> u.pc = "insert"

LoopInv ==
  /\ s.pc \in LoopPC => s.loop \in {"FASTEST", "REALTIME", "MELD"}
  /\ s.pc \in MeldPC => s.loop = "MELD"
  /\ s.pc \in StartPC \/ (s.pc \in LoopPC \cup MeldPC /\ s.loop = "MELD") => cmd.meld
  /\ s.pc = "take" => ~Empty

(* The events pending, and those somebody holds. *)
ListInv ==
  /\ \A e \in Ev : \E d \in Time : OnlyAt(eventsMap, e, d)
  /\ \A e \in fresh : ~Pending(eventsMap, e)
  /\ consumed \cap fresh = {}

TakenInv ==
  s.pc \in AtEvent =>
    /\ s.pev \in Event
    /\ \E i \in DOMAIN eventsMap[s.pev.date] : eventsMap[s.pev.date][i] = s.pev.ev
    /\ s.pev.ev \in consumed <=> s.pc # "consume"

ConsumedInv ==
  \A e \in consumed : Pending(eventsMap, e) => s.pc \in AtEvent /\ s.pev.ev = e

Held(p) ==
  /\ p \in Event
  /\ p.ev \notin fresh /\ p.ev \notin consumed /\ ~Pending(eventsMap, p.ev)

HeldInv ==
  /\ s.pc \in Created => Held(s.new)
  /\ u.pc \in ClickPC => Held(u.new)
  /\ s.pc \in Created /\ u.pc \in ClickPC => s.new.ev # u.new.ev

Accounted ==
  ~cmd.gui /\ ~tooLate =>
    \A e \in Ev \ fresh : e \in consumed \/ Pending(eventsMap, e) \/ (s.pc \in Created /\ s.new.ev = e)

TerminalInv ==
  ~cmd.gui =>
    /\ u.pc \notin WindowPC
    /\ u.pc \in BeforeEnd =>
         /\ obj.mode = "FASTEST"
         /\ obj.terminate => s.pc \in {"clear", "done"}
         /\ obj.state = "ENDED" => cmd.meld /\ s.pc \in {"turn", "stats", "terminate", "done"} /\ Empty
    /\ u.pc \notin BeforeEnd => s.pc = "done" /\ u.joined
    /\ s.loop \in {NULL, "FASTEST", "MELD"}
    /\ s.pc \in {"stats", "terminate", "clear", "done"} => Empty

UnaskedInv ==
  /\ u.pc = "begin" => ~u.asked
  /\ ~u.asked =>
       /\ consumed = {}
       /\ \/ obj.starts = 0 /\ s.pc \in {"wait", "start"}
          \/ /\ ~cmd.meld /\ obj.state = "ENDED" /\ u.pc \in LeavingPC
             /\ s.pc \in {"wait", "check", "terminate", "clear", "done"}

MeldInv ==
  cmd.meld =>
    /\ s.pc \notin {"wait", "check", "run", "switch", "clear"}
    /\ u.pc # "end"
    /\ u.pc \in {"delete", "instruct", "release"} => obj.state \in {"ENDED", "RUNNING"}
    /\ ~cmd.gui => obj.thread
    /\ ~cmd.gui /\ ~cmd.infinite => ~crashed

EventInv == ListInv /\ TakenInv /\ ConsumedInv /\ HeldInv /\ Accounted

ControlInv == LockInv /\ LoopInv /\ TerminalInv /\ UnaskedInv /\ MeldInv

AnyInv == TypeInv /\ EventInv /\ ControlInv

-----------------------------------------------------------------------------
(* Every run starts in the invariant. *)
LEMMA AnyInit == Init => AnyInv
<1>. SUFFICES ASSUME Init PROVE AnyInv
  OBVIOUS
<1>0. First \subseteq Ev /\ IsFiniteSet(First) /\ MaximumDate \in Nat /\ 0 \in Time
  BY ThreadsAssumption, MaximumDateAssumption, FS_Subset DEF Time
<1>1. /\ SetToSeq(First) \in Seq(First)
      /\ \A i, j \in DOMAIN SetToSeq(First) : SetToSeq(First)[i] = SetToSeq(First)[j] => i = j
      /\ \A e \in First : \E i \in DOMAIN SetToSeq(First) : SetToSeq(First)[i] = e
  BY <1>0, SetToSeqType
<1>2. SetToSeq(First) \in Seq(Ev) /\ <<>> \in Seq(Ev)
  BY <1>0, <1>1, EmptySeq
<1>3. eventsMap \in [Time -> Seq(Ev)]
  BY <1>2 DEF Init
<1>4. eventsMap[0] = SetToSeq(First) /\ \A d \in Time : d # 0 => eventsMap[d] = <<>>
  BY <1>0 DEF Init
<1>5. \A d \in Time : \A i \in DOMAIN eventsMap[d] : d = 0 /\ eventsMap[d][i] \in First
  <2>1. \A i \in DOMAIN SetToSeq(First) : SetToSeq(First)[i] \in First
    BY <1>1, LenProperties, ElementOfSeq
  <2>. QED BY <1>4, <2>1
<1>6. \A e : OnlyAt(eventsMap, e, 0)
  BY <1>1, <1>4, <1>5 DEF OnlyAt
<1>7. \A e : Pending(eventsMap, e) <=> e \in First
  BY <1>0, <1>1, <1>4, <1>5 DEF Pending
<1>8. TypeInv
  <2>1. cmd \in CommandLine /\ cmd.mode \in {"FASTEST", "REALTIME"}
    BY ThreadsAssumption DEF Init
  <2>. QED BY <1>0, <1>3, <2>1 DEF Init, TypeInv, ObjInv, SchedulerInv, MainInv, PC, MainPC, BeforeEnd
<1>9. EventInv
  <2>1. ListInv
    BY <1>0, <1>6, <1>7 DEF Init, ListInv
  <2>2. TakenInv /\ ConsumedInv /\ HeldInv
    BY DEF Init, TakenInv, ConsumedInv, HeldInv, AtEvent, Created, ClickPC
  <2>3. Accounted
    BY <1>7 DEF Init, Accounted
  <2>. QED BY <2>1, <2>2, <2>3 DEF EventInv
<1>10. ControlInv
  <2>1. LockInv
    BY ThreadsAssumption DEF Init, LockInv
  <2>2. LoopInv
    BY DEF Init, LoopInv, LoopPC, MeldPC, StartPC
  <2>3. TerminalInv
    BY ThreadsAssumption DEF Init, TerminalInv, WindowPC, ClickPC, BeforeEnd
  <2>4. UnaskedInv /\ MeldInv
    BY ThreadsAssumption DEF Init, UnaskedInv, MeldInv
  <2>. QED BY <2>1, <2>2, <2>3, <2>4 DEF ControlInv
<1>. QED BY <1>8, <1>9, <1>10 DEF AnyInv

-----------------------------------------------------------------------------
(* What a step may do. *)

(* Every step is one of these. *)
LEMMA Steps ==
  AnyNext <=>
    \/ Awake \/ CheckState \/ Run \/ Switch \/ Test \/ Inner \/ Take \/ Consume
    \/ HandlerLocks \/ HandlerInserts \/ EraseTaken \/ Again \/ Stats \/ Terminate
    \/ ClearThread \/ SemWait \/ MeldRun \/ MeldSwitch \/ Turn \/ Drain \/ Drained \/ Tick
    \/ StartSimulation \/ ClickTestsDate \/ ClickLocks \/ ClickInserts \/ LoopReturns
    \/ TerminalStart \/ TerminalWait \/ TerminalJoined \/ Stop \/ TestTerminate
    \/ InstructToTerminate \/ TestNotStarted \/ Release \/ ReadThread \/ ThreadJoined
    \/ Destroy \/ KeyStart \/ KeyStop \/ Click \/ Quit \/ MeldKeyStop \/ MeldStop
BY DEF AnyNext, Next, SchedulerStep, MainStep, UserChoice, MeldSchedulerStep

(* The scheduler thread changes nothing of u, the main thread nothing of s, *)
(* and most steps nothing of obj.                                          *)
LEMMA Frames ==
  /\ AnyNext => SchedulerStep \/ MeldSchedulerStep \/ UNCHANGED s
  /\ SchedulerStep \/ MeldSchedulerStep \/ Tick => UNCHANGED u
  /\ AnyNext => UNCHANGED obj \/ Awake \/ Run \/ Stats \/ Terminate \/ ClearThread
               \/ SemWait \/ MeldRun \/ Drained \/ StartSimulation \/ TerminalStart
               \/ Stop \/ InstructToTerminate \/ Release \/ Destroy \/ KeyStart
               \/ KeyStop \/ MeldKeyStop \/ MeldStop
<1>. USE DEF SchedulerStep, MeldSchedulerStep, mapVars, history, SGo, UGo
<1>1. SchedulerStep \/ MeldSchedulerStep \/ Tick => UNCHANGED u
  BY DEF Awake, CheckState, Run, Switch, Test, Inner, Take, Consume, HandlerLocks,
         HandlerInserts, EraseTaken, Again, Stats, Terminate, ClearThread, SemWait, MeldRun,
         MeldSwitch, Turn, Drain, Drained, Tick
<1>2. CheckState \/ Switch \/ Test \/ Inner \/ Take \/ Consume \/ HandlerLocks
      \/ HandlerInserts \/ EraseTaken \/ Again \/ MeldSwitch \/ Turn \/ Drain
      => UNCHANGED obj
  BY DEF CheckState, Switch, Test, Inner, Take, Consume, HandlerLocks, HandlerInserts,
         EraseTaken, Again, MeldSwitch, Turn, Drain
<1>3. StartSimulation \/ ClickTestsDate \/ ClickLocks \/ ClickInserts \/ LoopReturns
      \/ TerminalStart \/ TerminalWait \/ TerminalJoined \/ Stop \/ TestTerminate
      \/ InstructToTerminate \/ TestNotStarted \/ Release \/ ReadThread \/ ThreadJoined
      \/ Destroy \/ KeyStart \/ KeyStop \/ Click \/ Quit \/ MeldKeyStop \/ MeldStop
      => UNCHANGED s
  BY DEF StartSimulation, ClickTestsDate, ClickLocks, ClickInserts, LoopReturns, Quit,
         TerminalStart, TerminalWait, Reads, TerminalJoined, Joins, Stop, TestTerminate,
         InstructToTerminate, TestNotStarted, Release, ReadThread, ThreadJoined, Destroy,
         KeyStart, KeyStop, Click, MeldKeyStop, Stopped, MeldStop
<1>4. ClickTestsDate \/ ClickLocks \/ ClickInserts \/ LoopReturns \/ TerminalWait
      \/ TerminalJoined \/ TestTerminate \/ TestNotStarted \/ ReadThread \/ ThreadJoined
      \/ Click \/ Quit
      => UNCHANGED obj
  BY DEF ClickTestsDate, ClickLocks, ClickInserts, LoopReturns, Quit, TerminalWait, Reads,
         TerminalJoined, Joins, TestTerminate, TestNotStarted, ReadThread, ThreadJoined,
         Click
<1>5. Tick => UNCHANGED <<s, obj>>
  BY DEF Tick
<1>. QED BY <1>1, <1>2, <1>3, <1>4, <1>5, Steps

(* The types are kept. *)
LEMMA ObjStep == TypeInv /\ AnyNext => ObjInv'
<1>. SUFFICES ASSUME ObjInv, AnyNext, cmd.mode \in {"FASTEST", "REALTIME"}, cmd \in CommandLine
              PROVE  ObjInv'
  BY ThreadsAssumption DEF TypeInv
<1>. USE DEF ObjInv
<1>0. CASE UNCHANGED obj
  BY <1>0
<1>1. CASE Awake
  BY <1>1 DEF Awake, SGo
<1>2. CASE Run
  BY <1>2 DEF Run, SGo
<1>3. CASE Stats
  BY <1>3, ThreadsAssumption DEF Stats, SGo
<1>4. CASE Terminate
  BY <1>4 DEF Terminate, SGo
<1>5. CASE ClearThread
  BY <1>5 DEF ClearThread, SGo
<1>6. CASE SemWait
  BY <1>6 DEF SemWait, SGo
<1>7. CASE MeldRun
  BY <1>7 DEF MeldRun, SGo
<1>8. CASE Drained
  BY <1>8 DEF Drained, SGo
<1>9. CASE StartSimulation
  BY <1>9, ThreadsAssumption DEF StartSimulation, Started
<1>10. CASE TerminalStart
  BY <1>10 DEF TerminalStart, Started
<1>11. CASE Stop
  BY <1>11 DEF Stop, UGo
<1>12. CASE InstructToTerminate
  BY <1>12 DEF InstructToTerminate, UGo
<1>13. CASE Release
  <2>. DEFINE o == [obj EXCEPT !.state = "ENDED"]
  <2>1. /\ DOMAIN o = DOMAIN obj /\ o.state = "ENDED" /\ o.mode = obj.mode
        /\ o.starts = obj.starts /\ o.terminate = obj.terminate /\ o.thread = obj.thread
        /\ o.left = obj.left /\ o.alive = obj.alive
    OBVIOUS
  <2>2. obj' = Started(o, "FASTEST")
    BY <1>13 DEF Release
  <2>. HIDE DEF o
  <2>. QED BY <2>1, <2>2 DEF Started
<1>14. CASE Destroy
  BY <1>14 DEF Destroy, UGo
<1>15. CASE KeyStart
  BY <1>15 DEF KeyStart, Started
<1>16. CASE KeyStop
  BY <1>16 DEF KeyStop
<1>17. CASE MeldKeyStop
  BY <1>17, ThreadsAssumption DEF MeldKeyStop, Stopped
<1>18. CASE MeldStop
  BY <1>18, ThreadsAssumption DEF MeldStop, Stopped, UGo
<1>. QED BY Frames, <1>0, <1>1, <1>2, <1>3, <1>4, <1>5, <1>6, <1>7, <1>8, <1>9, <1>10,
            <1>11, <1>12, <1>13, <1>14, <1>15, <1>16, <1>17, <1>18

(* The main thread's record keeps its type.                                *)
LEMMA MainStepType == TypeInv /\ AnyNext => MainInv'
<1>. SUFFICES ASSUME MainInv, AnyNext, cmd \in CommandLine
              PROVE  MainInv'
  BY DEF TypeInv
<1>. USE DEF MainInv, MainPC, WindowPC, ClickPC, BeforeEnd, LeavingPC
<1>0. CASE UNCHANGED u
  BY <1>0
<1>s. SchedulerStep \/ MeldSchedulerStep \/ Tick => UNCHANGED u
  BY Frames
<1>1. CASE StartSimulation
  BY <1>1, ThreadsAssumption DEF StartSimulation
<1>2. CASE ClickTestsDate
  BY <1>2 DEF ClickTestsDate, UGo
<1>3. CASE ClickLocks
  BY <1>3 DEF ClickLocks, UGo
<1>4. CASE ClickInserts
  BY <1>4 DEF ClickInserts, UGo
<1>5. CASE LoopReturns
  BY <1>5 DEF LoopReturns, Quit, UGo
<1>6. CASE TerminalStart
  BY <1>6 DEF TerminalStart
<1>7. CASE TerminalWait
  BY <1>7 DEF TerminalWait, Reads, UGo
<1>8. CASE TerminalJoined
  BY <1>8 DEF TerminalJoined, Joins
<1>9. CASE Stop
  BY <1>9 DEF Stop, UGo
<1>10. CASE TestTerminate
  BY <1>10 DEF TestTerminate, UGo
<1>11. CASE InstructToTerminate
  BY <1>11 DEF InstructToTerminate, UGo
<1>12. CASE TestNotStarted
  BY <1>12 DEF TestNotStarted, UGo
<1>13. CASE Release
  BY <1>13 DEF Release, UGo
<1>14. CASE ReadThread
  BY <1>14 DEF ReadThread, Reads, UGo
<1>15. CASE ThreadJoined
  BY <1>15 DEF ThreadJoined, Joins
<1>16. CASE Destroy
  BY <1>16 DEF Destroy, UGo
<1>17. CASE KeyStart
  BY <1>17 DEF KeyStart
<1>18. CASE KeyStop
  BY <1>18 DEF KeyStop
<1>19. CASE Click
  BY <1>19 DEF Click
<1>20. CASE Quit
  BY <1>20 DEF Quit, UGo
<1>21. CASE MeldKeyStop
  BY <1>21 DEF MeldKeyStop, Stopped
<1>22. CASE MeldStop
  BY <1>22 DEF MeldStop, Stopped, UGo
<1>. QED BY Steps, <1>s, <1>0, <1>1, <1>2, <1>3, <1>4, <1>5, <1>6, <1>7, <1>8, <1>9,
            <1>10, <1>11, <1>12, <1>13, <1>14, <1>15, <1>16, <1>17, <1>18, <1>19, <1>20,
            <1>21, <1>22
   DEF SchedulerStep, MeldSchedulerStep

(* So does the scheduler thread's.                                         *)
LEMMA SchedulerStepType == TypeInv /\ LoopInv /\ AnyNext => SchedulerInv'
<1>. SUFFICES ASSUME SchedulerInv, AnyNext, obj.mode \in {"FASTEST", "REALTIME", "DEBUG"},
                     clock \in Time, LoopInv
              PROVE  SchedulerInv'
  BY DEF TypeInv, ObjInv
<1>. USE DEF SchedulerInv, PC
<1>0. CASE UNCHANGED s
  BY <1>0
<1>1. CASE Awake
  BY <1>1 DEF Awake, SGo
<1>2. CASE CheckState
  BY <1>2 DEF CheckState, SGo
<1>3. CASE Run
  BY <1>3 DEF Run, SGo
<1>4. CASE Switch
  BY <1>4 DEF Switch
<1>5. CASE Test
  BY <1>5 DEF Test
<1>6. CASE Inner
  BY <1>6 DEF Inner, SGo
<1>7. CASE Take
  BY <1>7 DEF Take
<1>8. CASE Consume
  BY <1>8 DEF Consume
<1>9. CASE HandlerLocks
  BY <1>9 DEF HandlerLocks, SGo
<1>10. CASE HandlerInserts
  BY <1>10 DEF HandlerInserts, SGo
<1>11. CASE EraseTaken
  <2>1. s.loop \in {"FASTEST", "REALTIME", "MELD"}
    BY <1>11 DEF EraseTaken, SGo, LoopInv, LoopPC
  <2>2. /\ AfterErase["FASTEST"] = "again" /\ AfterErase["REALTIME"] = "inner"
        /\ AfterErase["MELD"] = "drain"
    BY DEF AfterErase
  <2>. QED BY <1>11, <2>1, <2>2 DEF EraseTaken, SGo
<1>12. CASE Again
  BY <1>12 DEF Again, SGo
<1>13. CASE Stats
  BY <1>13 DEF Stats, SGo
<1>14. CASE Terminate
  BY <1>14 DEF Terminate, SGo
<1>15. CASE ClearThread
  BY <1>15 DEF ClearThread, SGo
<1>16. CASE SemWait
  BY <1>16 DEF SemWait, SGo
<1>17. CASE MeldRun
  BY <1>17 DEF MeldRun, SGo
<1>18. CASE MeldSwitch
  BY <1>18 DEF MeldSwitch
<1>19. CASE Turn
  BY <1>19 DEF Turn, SGo
<1>20. CASE Drain
  BY <1>20 DEF Drain, SGo
<1>21. CASE Drained
  BY <1>21 DEF Drained, SGo
<1>s. SchedulerStep \/ MeldSchedulerStep \/ UNCHANGED s
  BY Frames
<1>. QED BY <1>s, <1>0, <1>1, <1>2, <1>3, <1>4, <1>5, <1>6, <1>7, <1>8, <1>9, <1>10, <1>11,
            <1>12, <1>13, <1>14, <1>15, <1>16, <1>17, <1>18, <1>19, <1>20, <1>21
   DEF SchedulerStep, MeldSchedulerStep

(* What the steps change of the list, of the events and of the dates.      *)
LEMMA ListFrame ==
  AnyNext =>
    /\ UNCHANGED cmd
    /\ UNCHANGED now \/ Take
    /\ UNCHANGED clock \/ Tick
    /\ UNCHANGED eventsMap \/ HandlerInserts \/ ClickInserts \/ EraseTaken
    /\ UNCHANGED lock \/ HandlerLocks \/ ClickLocks \/ HandlerInserts \/ ClickInserts
    /\ UNCHANGED <<fresh, consumed, tooLate>> \/ Consume \/ Click
<1>. SUFFICES ASSUME AnyNext
              PROVE  /\ UNCHANGED cmd
                     /\ UNCHANGED now \/ Take
                     /\ UNCHANGED clock \/ Tick
                     /\ UNCHANGED eventsMap \/ HandlerInserts \/ ClickInserts \/ EraseTaken
                     /\ UNCHANGED lock \/ HandlerLocks \/ ClickLocks \/ HandlerInserts \/ ClickInserts
                     /\ UNCHANGED <<fresh, consumed, tooLate>> \/ Consume \/ Click
  OBVIOUS
<1>. USE DEF mapVars, history
<1>1. CASE Awake \/ CheckState \/ Run \/ Switch \/ Test \/ Inner \/ Again \/ Stats
           \/ Terminate \/ ClearThread \/ SemWait \/ MeldRun \/ MeldSwitch \/ Turn
           \/ Drain \/ Drained \/ StartSimulation \/ ClickTestsDate \/ LoopReturns
           \/ TerminalStart \/ TerminalWait \/ TerminalJoined \/ Stop \/ TestTerminate
           \/ InstructToTerminate \/ TestNotStarted \/ Release \/ ReadThread
           \/ ThreadJoined \/ Destroy \/ KeyStart \/ KeyStop \/ Quit \/ MeldKeyStop
           \/ MeldStop
  BY <1>1 DEF Awake, CheckState, Run, Switch, Test, Inner, Again, Stats, Terminate,
         ClearThread, SemWait, MeldRun, MeldSwitch, Turn, Drain, Drained, StartSimulation,
         ClickTestsDate, LoopReturns, Quit, TerminalStart, TerminalWait, Reads,
         TerminalJoined, Joins, Stop, TestTerminate, InstructToTerminate, TestNotStarted,
         Release, ReadThread, ThreadJoined, Destroy, KeyStart, KeyStop, MeldKeyStop,
         Stopped, MeldStop
<1>2. CASE Take
  BY <1>2 DEF Take
<1>3. CASE Consume
  BY <1>3 DEF Consume
<1>4. CASE Click
  BY <1>4 DEF Click
<1>5. CASE HandlerLocks \/ ClickLocks
  BY <1>5 DEF HandlerLocks, ClickLocks
<1>6. CASE HandlerInserts \/ ClickInserts
  BY <1>6 DEF HandlerInserts, ClickInserts
<1>7. CASE EraseTaken
  BY <1>7 DEF EraseTaken
<1>8. CASE Tick
  BY <1>8 DEF Tick
<1>. QED BY Steps, <1>1, <1>2, <1>3, <1>4, <1>5, <1>6, <1>7, <1>8

(* So do the list, the dates and the sets of events.                       *)
LEMMA ListStepType ==
  TypeInv /\ EventInv /\ LoopInv /\ AnyNext =>
    /\ cmd' \in CommandLine
    /\ eventsMap' \in [Time -> Seq(Ev)]
    /\ now' \in Time /\ clock' \in Time
    /\ fresh' \subseteq Ev /\ consumed' \subseteq Ev
<1>. SUFFICES ASSUME TypeInv, EventInv, LoopInv, AnyNext
              PROVE  /\ cmd' \in CommandLine
                     /\ eventsMap' \in [Time -> Seq(Ev)]
                     /\ now' \in Time /\ clock' \in Time
                     /\ fresh' \subseteq Ev /\ consumed' \subseteq Ev
  OBVIOUS
<1>0. /\ cmd \in CommandLine /\ eventsMap \in [Time -> Seq(Ev)]
      /\ now \in Time /\ clock \in Time /\ fresh \subseteq Ev /\ consumed \subseteq Ev
  BY DEF TypeInv
<1>1. cmd' \in CommandLine
  BY <1>0, ListFrame
<1>2. now' \in Time
  <2>1. CASE Take
    <3>1. FirstEvent \in [ev : Ev, date : Time]
      BY <1>0, <2>1, FirstEventIsFirst DEF Take, LoopInv
    <3>. QED BY <2>1, <3>1 DEF Take
  <2>. QED BY <1>0, <2>1, ListFrame
<1>3. clock' \in Time
  <2>1. CASE Tick
    BY <1>0, <2>1, MaximumDateAssumption DEF Tick, Time
  <2>. QED BY <1>0, <2>1, ListFrame
<1>4. eventsMap' \in [Time -> Seq(Ev)]
  <2>1. CASE HandlerInserts
    <3>1. s.new \in [ev : Ev, date : Time]
      BY <2>1 DEF HandlerInserts, SGo, EventInv, HeldInv, Held, Created, Event
    <3>2. Insert(s.new) \in [Time -> Seq(Ev)]
      BY <1>0, <3>1, InsertOne
    <3>. QED BY <2>1, <3>2 DEF HandlerInserts
  <2>2. CASE ClickInserts
    <3>1. u.new \in [ev : Ev, date : Time]
      BY <2>2 DEF ClickInserts, UGo, EventInv, HeldInv, Held, ClickPC, Event
    <3>2. Insert(u.new) \in [Time -> Seq(Ev)]
      BY <1>0, <3>1, InsertOne
    <3>. QED BY <2>2, <3>2 DEF ClickInserts
  <2>3. CASE EraseTaken
    <3>1. /\ s.pev \in [ev : Ev, date : Time]
          /\ \E i \in DOMAIN eventsMap[s.pev.date] : eventsMap[s.pev.date][i] = s.pev.ev
      BY <2>3 DEF EraseTaken, SGo, EventInv, TakenInv, AtEvent, Event
    <3>2. PICK d \in Time : OnlyAt(eventsMap, s.pev.ev, d)
      BY <3>1 DEF EventInv, ListInv
    <3>3. Erase(s.pev) \in [Time -> Seq(Ev)]
      BY <1>0, <3>1, <3>2, EraseOne
    <3>. QED BY <2>3, <3>3 DEF EraseTaken
  <2>. QED BY <1>0, <2>1, <2>2, <2>3, ListFrame
<1>5. fresh' \subseteq Ev /\ consumed' \subseteq Ev
  <2>1. CASE Consume
    <3>1. s.pev.ev \in Ev
      BY <2>1 DEF Consume, EventInv, TakenInv, AtEvent, Event
    <3>. QED BY <1>0, <2>1, <3>1 DEF Consume
  <2>2. CASE Click
    BY <1>0, <2>2 DEF Click
  <2>. QED BY <1>0, <2>1, <2>2, ListFrame
<1>. QED BY <1>1, <1>2, <1>3, <1>4, <1>5

-----------------------------------------------------------------------------
(* The events and who holds them. *)

(* A step that leaves the list and what the threads hold as they are.      *)
Quiet ==
  /\ UNCHANGED <<eventsMap, fresh, consumed, tooLate, cmd>>
  /\ s.pc \in AtEvent \/ s'.pc \in AtEvent =>
       /\ s'.pev = s.pev /\ s'.new = s.new
       /\ s.pc \in AtEvent /\ s'.pc \in AtEvent
       /\ s.pc \in Created <=> s'.pc \in Created
       /\ s.pc = "consume" <=> s'.pc = "consume"
  /\ u'.pc \in ClickPC => u.pc \in ClickPC /\ u'.new = u.new

(* Six steps do more than that.                                            *)
LEMMA QuietSteps ==
  TypeInv /\ AnyNext =>
    Quiet \/ Take \/ Consume \/ HandlerInserts \/ EraseTaken \/ Click \/ ClickInserts
<1>. SUFFICES ASSUME DOMAIN s = {"pc", "pev", "new", "loop", "limit"}, AnyNext,
                     DOMAIN u = {"pc", "new", "keys", "joined", "asked"},
                     ~Take, ~Consume, ~HandlerInserts, ~EraseTaken, ~Click, ~ClickInserts
              PROVE  Quiet
  BY DEF TypeInv, SchedulerInv, MainInv
<1>1. UNCHANGED <<eventsMap, fresh, consumed, tooLate, cmd>>
  BY ListFrame
<1>2. SchedulerStep \/ MeldSchedulerStep \/ Tick => UNCHANGED u
  BY Frames
<1>. USE DEF AtEvent, Created
<1>3. CASE Awake
  <2>1. UNCHANGED u
    BY <1>2, <1>3 DEF SchedulerStep, MeldSchedulerStep
  <2>2. s.pc \notin AtEvent /\ s'.pc \notin AtEvent
    BY <1>3 DEF Awake, SGo
  <2>. QED BY <1>1, <2>1, <2>2 DEF Quiet
<1>4. CASE CheckState
  <2>1. UNCHANGED u
    BY <1>2, <1>4 DEF SchedulerStep, MeldSchedulerStep
  <2>2. s.pc \notin AtEvent /\ s'.pc \notin AtEvent
    BY <1>4 DEF CheckState, SGo
  <2>. QED BY <1>1, <2>1, <2>2 DEF Quiet
<1>5. CASE Run
  <2>1. UNCHANGED u
    BY <1>2, <1>5 DEF SchedulerStep, MeldSchedulerStep
  <2>2. s.pc \notin AtEvent /\ s'.pc \notin AtEvent
    BY <1>5 DEF Run, SGo
  <2>. QED BY <1>1, <2>1, <2>2 DEF Quiet
<1>6. CASE Switch
  <2>1. UNCHANGED u
    BY <1>2, <1>6 DEF SchedulerStep, MeldSchedulerStep
  <2>2. s.pc \notin AtEvent /\ s'.pc \notin AtEvent
    BY <1>6 DEF Switch
  <2>. QED BY <1>1, <2>1, <2>2 DEF Quiet
<1>7. CASE Test
  <2>1. UNCHANGED u
    BY <1>2, <1>7 DEF SchedulerStep, MeldSchedulerStep
  <2>2. s.pc \notin AtEvent /\ s'.pc \notin AtEvent
    BY <1>7 DEF Test
  <2>. QED BY <1>1, <2>1, <2>2 DEF Quiet
<1>8. CASE Inner
  <2>1. UNCHANGED u
    BY <1>2, <1>8 DEF SchedulerStep, MeldSchedulerStep
  <2>2. s.pc \notin AtEvent /\ s'.pc \notin AtEvent
    BY <1>8 DEF Inner, SGo
  <2>. QED BY <1>1, <2>1, <2>2 DEF Quiet
<1>9. CASE HandlerLocks
  <2>1. UNCHANGED u
    BY <1>2, <1>9 DEF SchedulerStep, MeldSchedulerStep
  <2>2. s.pc = "lock" /\ s'.pc = "insert" /\ s'.pev = s.pev /\ s'.new = s.new
    BY <1>9 DEF HandlerLocks, SGo
  <2>. QED BY <1>1, <2>1, <2>2 DEF Quiet
<1>10. CASE Again
  <2>1. UNCHANGED u
    BY <1>2, <1>10 DEF SchedulerStep, MeldSchedulerStep
  <2>2. s.pc \notin AtEvent /\ s'.pc \notin AtEvent
    BY <1>10 DEF Again, SGo
  <2>. QED BY <1>1, <2>1, <2>2 DEF Quiet
<1>11. CASE Stats
  <2>1. UNCHANGED u
    BY <1>2, <1>11 DEF SchedulerStep, MeldSchedulerStep
  <2>2. s.pc \notin AtEvent /\ s'.pc \notin AtEvent
    BY <1>11 DEF Stats, SGo
  <2>. QED BY <1>1, <2>1, <2>2 DEF Quiet
<1>12. CASE Terminate
  <2>1. UNCHANGED u
    BY <1>2, <1>12 DEF SchedulerStep, MeldSchedulerStep
  <2>2. s.pc \notin AtEvent /\ s'.pc \notin AtEvent
    BY <1>12 DEF Terminate, SGo
  <2>. QED BY <1>1, <2>1, <2>2 DEF Quiet
<1>13. CASE ClearThread
  <2>1. UNCHANGED u
    BY <1>2, <1>13 DEF SchedulerStep, MeldSchedulerStep
  <2>2. s.pc \notin AtEvent /\ s'.pc \notin AtEvent
    BY <1>13 DEF ClearThread, SGo
  <2>. QED BY <1>1, <2>1, <2>2 DEF Quiet
<1>14. CASE SemWait
  <2>1. UNCHANGED u
    BY <1>2, <1>14 DEF SchedulerStep, MeldSchedulerStep
  <2>2. s.pc \notin AtEvent /\ s'.pc \notin AtEvent
    BY <1>14 DEF SemWait, SGo
  <2>. QED BY <1>1, <2>1, <2>2 DEF Quiet
<1>15. CASE MeldRun
  <2>1. UNCHANGED u
    BY <1>2, <1>15 DEF SchedulerStep, MeldSchedulerStep
  <2>2. s.pc \notin AtEvent /\ s'.pc \notin AtEvent
    BY <1>15 DEF MeldRun, SGo
  <2>. QED BY <1>1, <2>1, <2>2 DEF Quiet
<1>16. CASE MeldSwitch
  <2>1. UNCHANGED u
    BY <1>2, <1>16 DEF SchedulerStep, MeldSchedulerStep
  <2>2. s.pc \notin AtEvent /\ s'.pc \notin AtEvent
    BY <1>16 DEF MeldSwitch
  <2>. QED BY <1>1, <2>1, <2>2 DEF Quiet
<1>17. CASE Turn
  <2>1. UNCHANGED u
    BY <1>2, <1>17 DEF SchedulerStep, MeldSchedulerStep
  <2>2. s.pc \notin AtEvent /\ s'.pc \notin AtEvent
    BY <1>17 DEF Turn, SGo
  <2>. QED BY <1>1, <2>1, <2>2 DEF Quiet
<1>18. CASE Drain
  <2>1. UNCHANGED u
    BY <1>2, <1>18 DEF SchedulerStep, MeldSchedulerStep
  <2>2. s.pc \notin AtEvent /\ s'.pc \notin AtEvent
    BY <1>18 DEF Drain, SGo
  <2>. QED BY <1>1, <2>1, <2>2 DEF Quiet
<1>19. CASE Drained
  <2>1. UNCHANGED u
    BY <1>2, <1>19 DEF SchedulerStep, MeldSchedulerStep
  <2>2. s.pc \notin AtEvent /\ s'.pc \notin AtEvent
    BY <1>19 DEF Drained, SGo
  <2>. QED BY <1>1, <2>1, <2>2 DEF Quiet
<1>20. CASE StartSimulation
  <2>1. UNCHANGED s
    BY <1>20 DEF StartSimulation, mapVars, history
  <2>2. u'.pc \notin ClickPC
    BY <1>20 DEF StartSimulation, ClickPC
  <2>. QED BY <1>1, <2>1, <2>2 DEF Quiet
<1>21. CASE ClickTestsDate
  <2>1. UNCHANGED s
    BY <1>21 DEF ClickTestsDate, mapVars, history
  <2>2. u.pc \in ClickPC /\ u'.new = u.new
    BY <1>21 DEF ClickTestsDate, UGo, ClickPC
  <2>. QED BY <1>1, <2>1, <2>2 DEF Quiet
<1>22. CASE ClickLocks
  <2>1. UNCHANGED s
    BY <1>22 DEF ClickLocks, mapVars, history
  <2>2. u.pc \in ClickPC /\ u'.new = u.new
    BY <1>22 DEF ClickLocks, UGo, ClickPC
  <2>. QED BY <1>1, <2>1, <2>2 DEF Quiet
<1>23. CASE LoopReturns
  <2>1. UNCHANGED s
    BY <1>23 DEF LoopReturns, Quit, mapVars, history
  <2>2. u'.pc \notin ClickPC
    BY <1>23 DEF LoopReturns, Quit, UGo, ClickPC
  <2>. QED BY <1>1, <2>1, <2>2 DEF Quiet
<1>24. CASE TerminalStart
  <2>1. UNCHANGED s
    BY <1>24 DEF TerminalStart, mapVars, history
  <2>2. u'.pc \notin ClickPC
    BY <1>24 DEF TerminalStart, ClickPC
  <2>. QED BY <1>1, <2>1, <2>2 DEF Quiet
<1>25. CASE TerminalWait
  <2>1. UNCHANGED s
    BY <1>25 DEF TerminalWait, Reads, mapVars, history
  <2>2. u'.pc \notin ClickPC
    BY <1>25 DEF TerminalWait, Reads, UGo, ClickPC
  <2>. QED BY <1>1, <2>1, <2>2 DEF Quiet
<1>26. CASE TerminalJoined
  <2>1. UNCHANGED s
    BY <1>26 DEF TerminalJoined, Joins, mapVars, history
  <2>2. u'.pc \notin ClickPC
    BY <1>26 DEF TerminalJoined, Joins, ClickPC
  <2>. QED BY <1>1, <2>1, <2>2 DEF Quiet
<1>27. CASE Stop
  <2>1. UNCHANGED s
    BY <1>27 DEF Stop, mapVars, history
  <2>2. u'.pc \notin ClickPC
    BY <1>27 DEF Stop, UGo, ClickPC
  <2>. QED BY <1>1, <2>1, <2>2 DEF Quiet
<1>28. CASE TestTerminate
  <2>1. UNCHANGED s
    BY <1>28 DEF TestTerminate, mapVars, history
  <2>2. u'.pc \notin ClickPC
    BY <1>28 DEF TestTerminate, UGo, ClickPC
  <2>. QED BY <1>1, <2>1, <2>2 DEF Quiet
<1>29. CASE InstructToTerminate
  <2>1. UNCHANGED s
    BY <1>29 DEF InstructToTerminate, mapVars, history
  <2>2. u'.pc \notin ClickPC
    BY <1>29 DEF InstructToTerminate, UGo, ClickPC
  <2>. QED BY <1>1, <2>1, <2>2 DEF Quiet
<1>30. CASE TestNotStarted
  <2>1. UNCHANGED s
    BY <1>30 DEF TestNotStarted, mapVars, history
  <2>2. u'.pc \notin ClickPC
    BY <1>30 DEF TestNotStarted, UGo, ClickPC
  <2>. QED BY <1>1, <2>1, <2>2 DEF Quiet
<1>31. CASE Release
  <2>1. UNCHANGED s
    BY <1>31 DEF Release, mapVars, history
  <2>2. u'.pc \notin ClickPC
    BY <1>31 DEF Release, UGo, ClickPC
  <2>. QED BY <1>1, <2>1, <2>2 DEF Quiet
<1>32. CASE ReadThread
  <2>1. UNCHANGED s
    BY <1>32 DEF ReadThread, Reads, mapVars, history
  <2>2. u'.pc \notin ClickPC
    BY <1>32 DEF ReadThread, Reads, UGo, ClickPC
  <2>. QED BY <1>1, <2>1, <2>2 DEF Quiet
<1>33. CASE ThreadJoined
  <2>1. UNCHANGED s
    BY <1>33 DEF ThreadJoined, Joins, mapVars, history
  <2>2. u'.pc \notin ClickPC
    BY <1>33 DEF ThreadJoined, Joins, ClickPC
  <2>. QED BY <1>1, <2>1, <2>2 DEF Quiet
<1>34. CASE Destroy
  <2>1. UNCHANGED s
    BY <1>34 DEF Destroy, mapVars, history
  <2>2. u'.pc \notin ClickPC
    BY <1>34 DEF Destroy, UGo, ClickPC
  <2>. QED BY <1>1, <2>1, <2>2 DEF Quiet
<1>35. CASE KeyStart
  <2>1. UNCHANGED s
    BY <1>35 DEF KeyStart, mapVars, history
  <2>2. u'.pc \notin ClickPC
    BY <1>35 DEF KeyStart, ClickPC
  <2>. QED BY <1>1, <2>1, <2>2 DEF Quiet
<1>36. CASE KeyStop
  <2>1. UNCHANGED s
    BY <1>36 DEF KeyStop, mapVars, history
  <2>2. u'.pc \notin ClickPC
    BY <1>36 DEF KeyStop, ClickPC
  <2>. QED BY <1>1, <2>1, <2>2 DEF Quiet
<1>37. CASE Quit
  <2>1. UNCHANGED s
    BY <1>37 DEF Quit, mapVars, history
  <2>2. u'.pc \notin ClickPC
    BY <1>37 DEF Quit, UGo, ClickPC
  <2>. QED BY <1>1, <2>1, <2>2 DEF Quiet
<1>38. CASE MeldKeyStop
  <2>1. UNCHANGED s
    BY <1>38 DEF MeldKeyStop, Stopped, mapVars, history
  <2>2. u'.pc \notin ClickPC
    BY <1>38 DEF MeldKeyStop, Stopped, ClickPC
  <2>. QED BY <1>1, <2>1, <2>2 DEF Quiet
<1>39. CASE MeldStop
  <2>1. UNCHANGED s
    BY <1>39 DEF MeldStop, Stopped, mapVars, history
  <2>2. u'.pc \notin ClickPC
    BY <1>39 DEF MeldStop, Stopped, UGo, ClickPC
  <2>. QED BY <1>1, <2>1, <2>2 DEF Quiet
<1>40. CASE Tick
  BY <1>1, <1>2, <1>40 DEF Tick, Quiet
<1>. QED BY Steps, <1>3, <1>4, <1>5, <1>6, <1>7, <1>8, <1>9, <1>10, <1>11, <1>12, <1>13,
            <1>14, <1>15, <1>16, <1>17, <1>18, <1>19, <1>20, <1>21, <1>22, <1>23, <1>24,
            <1>25, <1>26, <1>27, <1>28, <1>29, <1>30, <1>31, <1>32, <1>33, <1>34, <1>35,
            <1>36, <1>37, <1>38, <1>39, <1>40
   DEF SchedulerStep, MeldSchedulerStep

(* A quiet step.                                                           *)
LEMMA EventQuiet == EventInv /\ Quiet => EventInv'
<1>. SUFFICES ASSUME ListInv, TakenInv, ConsumedInv, HeldInv, Accounted, Quiet
              PROVE  EventInv'
  BY DEF EventInv
<1>1. ListInv'
  BY DEF ListInv, Quiet
<1>2. TakenInv'
  BY DEF TakenInv, Quiet
<1>3. ConsumedInv'
  BY DEF ConsumedInv, Quiet
<1>4. HeldInv'
  BY DEF HeldInv, Held, Quiet, Created, AtEvent
<1>5. Accounted'
  BY DEF Accounted, Quiet, Created, AtEvent
<1>. QED BY <1>1, <1>2, <1>3, <1>4, <1>5 DEF EventInv

(* pev becomes the first event of the list.                                *)
LEMMA EventTake == TypeInv /\ LoopInv /\ EventInv /\ Take => EventInv'
<1>. SUFFICES ASSUME TypeInv, LoopInv, ListInv, TakenInv, ConsumedInv, HeldInv, Accounted, Take
              PROVE  EventInv'
  BY DEF EventInv
<1>0. /\ eventsMap \in [Time -> Seq(Ev)] /\ ~Empty
      /\ DOMAIN s = {"pc", "pev", "new", "loop", "limit"}
  BY DEF TypeInv, SchedulerInv, LoopInv, Take
<1>1. /\ FirstEvent \in Event
      /\ 1 \in DOMAIN eventsMap[FirstEvent.date]
      /\ eventsMap[FirstEvent.date][1] = FirstEvent.ev
  BY <1>0, FirstEventIsFirst DEF Event
<1>2. /\ s.pc = "take" /\ s'.pc = "consume" /\ s'.pev = FirstEvent
      /\ UNCHANGED <<eventsMap, fresh, consumed, tooLate, cmd, u>>
  BY <1>0 DEF Take, history
<1>3. Pending(eventsMap, FirstEvent.ev)
  BY <1>1 DEF Pending, Event
<1>4. FirstEvent.ev \notin consumed
  BY <1>2, <1>3 DEF ConsumedInv, AtEvent
<1>5. ListInv'
  BY <1>2 DEF ListInv
<1>6. TakenInv'
  BY <1>1, <1>2, <1>4 DEF TakenInv
<1>7. ConsumedInv'
  BY <1>2, <1>4 DEF ConsumedInv, AtEvent
<1>8. HeldInv'
  BY <1>2 DEF HeldInv, Held, Created
<1>9. Accounted'
  BY <1>2 DEF Accounted, Created
<1>. QED BY <1>5, <1>6, <1>7, <1>8, <1>9 DEF EventInv

(* pev is consumed; what its handler creates is held.                      *)
LEMMA EventConsume == TypeInv /\ EventInv /\ Consume => EventInv'
<1>. SUFFICES ASSUME TypeInv, ListInv, TakenInv, ConsumedInv, HeldInv, Accounted, Consume
              PROVE  EventInv'
  BY DEF EventInv
<1>0. /\ DOMAIN s = {"pc", "pev", "new", "loop", "limit"}
      /\ now \in Time /\ fresh \subseteq Ev
  BY DEF TypeInv, SchedulerInv
<1>1. /\ s.pc = "consume" /\ s'.pev = s.pev
      /\ consumed' = consumed \cup {s.pev.ev}
      /\ UNCHANGED <<eventsMap, cmd, u>>
  BY <1>0 DEF Consume, mapVars
<1>2. /\ s.pev \in Event /\ s.pev.ev \notin consumed
      /\ \E i \in DOMAIN eventsMap[s.pev.date] : eventsMap[s.pev.date][i] = s.pev.ev
  BY <1>1 DEF TakenInv, AtEvent
<1>3. Pending(eventsMap, s.pev.ev) /\ s.pev.ev \in Ev /\ s.pev.ev \notin fresh
  <2>1. Pending(eventsMap, s.pev.ev)
    BY <1>2 DEF Pending, Event
  <2>. QED BY <1>2, <2>1 DEF ListInv, Event
<1>4. CASE s' = [s EXCEPT !.pc = "erase"] /\ UNCHANGED <<fresh, tooLate>>
  <2>1. s'.pc = "erase"
    BY <1>0, <1>4
  <2>2. ListInv'
    BY <1>1, <1>3, <1>4 DEF ListInv
  <2>3. TakenInv'
    BY <1>1, <1>2, <2>1 DEF TakenInv
  <2>4. ConsumedInv'
    BY <1>1, <2>1 DEF ConsumedInv, AtEvent
  <2>5. HeldInv'
    BY <1>1, <1>3, <1>4, <2>1 DEF HeldInv, Held, Created
  <2>6. Accounted'
    BY <1>1, <1>4, <2>1 DEF Accounted, Created
  <2>. QED BY <2>2, <2>3, <2>4, <2>5, <2>6 DEF EventInv
<1>5. ASSUME NEW e \in fresh, NEW delay \in Delay, fresh' = fresh \ {e},
             tooLate' = (tooLate \/ ~Insertable(now + delay)),
             s' = IF Insertable(now + delay)
                  THEN [s EXCEPT !.pc = "lock", !.new = Dated(e, now + delay)]
                  ELSE [s EXCEPT !.pc = "erase"]
      PROVE  EventInv'
  <2>1. e # s.pev.ev /\ e \notin consumed /\ e \in Ev /\ ~Pending(eventsMap, e)
    BY <1>0, <1>3, <1>5 DEF ListInv
  <2>2. ListInv'
    BY <1>1, <1>3, <1>5 DEF ListInv
  <2>3. CASE Insertable(now + delay)
    <3>1. s'.pc = "lock" /\ s'.new = Dated(e, now + delay) /\ (tooLate => tooLate')
      BY <1>0, <1>5, <2>3
    <3>2. now + delay \in Time
      BY <1>0, <2>3, ThreadsAssumption, MaximumDateAssumption DEF Insertable, Time
    <3>3. s'.new \in Event /\ s'.new.ev = e
      BY <2>1, <3>1, <3>2 DEF Dated, Event
    <3>4. TakenInv'
      BY <1>1, <1>2, <3>1 DEF TakenInv
    <3>5. ConsumedInv'
      BY <1>1, <3>1 DEF ConsumedInv, AtEvent
    <3>6. HeldInv'
      BY <1>1, <1>3, <1>5, <2>1, <3>1, <3>3 DEF HeldInv, Held, Created
    <3>7. Accounted'
      BY <1>1, <1>5, <3>1, <3>3 DEF Accounted, Created
    <3>. QED BY <2>2, <3>4, <3>5, <3>6, <3>7 DEF EventInv
  <2>4. CASE ~Insertable(now + delay)
    <3>1. s'.pc = "erase" /\ tooLate' = TRUE
      BY <1>0, <1>5, <2>4
    <3>2. TakenInv'
      BY <1>1, <1>2, <3>1 DEF TakenInv
    <3>3. ConsumedInv'
      BY <1>1, <3>1 DEF ConsumedInv, AtEvent
    <3>4. HeldInv'
      BY <1>1, <1>3, <1>5, <2>1, <3>1 DEF HeldInv, Held, Created
    <3>5. Accounted'
      BY <3>1 DEF Accounted
    <3>. QED BY <2>2, <3>2, <3>3, <3>4, <3>5 DEF EventInv
  <2>. QED BY <2>3, <2>4
<1>. QED BY <1>4, <1>5 DEF Consume

(* An event somebody holds gets into the list.                             *)
LEMMA EventInsert ==
  ASSUME TypeInv, ListInv, NEW p, Held(p), eventsMap' = Insert(p), UNCHANGED <<fresh, consumed>>
  PROVE  /\ ListInv'
         /\ \A e : Pending(eventsMap', e) <=> Pending(eventsMap, e) \/ e = p.ev
         /\ \A c \in Time : \A i \in DOMAIN eventsMap[c] :
              i \in DOMAIN eventsMap'[c] /\ eventsMap'[c][i] = eventsMap[c][i]
<1>0. /\ eventsMap \in [Time -> Seq(Ev)] /\ p \in [ev : Ev, date : Time]
      /\ p.ev \notin fresh /\ ~Pending(eventsMap, p.ev)
  BY DEF TypeInv, Held, Event
<1>1. /\ \A e : Pending(eventsMap', e) <=> Pending(eventsMap, e) \/ e = p.ev
      /\ \A e, x : e # p.ev /\ OnlyAt(eventsMap, e, x) => OnlyAt(eventsMap', e, x)
      /\ OnlyAt(eventsMap', p.ev, p.date)
      /\ \A c \in Time : \A i \in DOMAIN eventsMap[c] :
           i \in DOMAIN eventsMap'[c] /\ eventsMap'[c][i] = eventsMap[c][i]
  BY <1>0, InsertOne
<1>2. ASSUME NEW e \in Ev
      PROVE  \E d \in Time : OnlyAt(eventsMap', e, d)
  <2>1. CASE e = p.ev
    BY <1>0, <1>1, <2>1
  <2>2. CASE e # p.ev
    BY <1>1, <2>2 DEF ListInv
  <2>. QED BY <2>1, <2>2
<1>3. \A e \in fresh : ~Pending(eventsMap', e)
  BY <1>0, <1>1 DEF ListInv
<1>4. ListInv'
  BY <1>2, <1>3 DEF ListInv
<1>. QED BY <1>1, <1>4

(* The handler's event gets into the list.                                 *)
LEMMA EventHandlerInserts == TypeInv /\ EventInv /\ HandlerInserts => EventInv'
<1>. SUFFICES ASSUME TypeInv, ListInv, TakenInv, ConsumedInv, HeldInv, Accounted, HandlerInserts
              PROVE  EventInv'
  BY DEF EventInv
<1>0. DOMAIN s = {"pc", "pev", "new", "loop", "limit"}
  BY DEF TypeInv, SchedulerInv
<1>1. /\ s.pc = "insert" /\ s'.pc = "erase" /\ s'.pev = s.pev /\ eventsMap' = Insert(s.new)
      /\ UNCHANGED <<cmd, fresh, consumed, tooLate, u>>
  BY <1>0 DEF HandlerInserts, SGo, history
<1>2. Held(s.new)
  BY <1>1 DEF HeldInv, Created
<1>3. /\ ListInv'
      /\ \A e : Pending(eventsMap', e) <=> Pending(eventsMap, e) \/ e = s.new.ev
      /\ \A c \in Time : \A i \in DOMAIN eventsMap[c] :
           i \in DOMAIN eventsMap'[c] /\ eventsMap'[c][i] = eventsMap[c][i]
  BY <1>1, <1>2, EventInsert
<1>4. TakenInv'
  BY <1>1, <1>3 DEF TakenInv, AtEvent, Event
<1>5. ConsumedInv'
  BY <1>1, <1>2, <1>3 DEF ConsumedInv, AtEvent, Held
<1>6. HeldInv'
  BY <1>1, <1>3 DEF HeldInv, Held, Created
<1>7. Accounted'
  BY <1>1, <1>3 DEF Accounted, Created
<1>. QED BY <1>3, <1>4, <1>5, <1>6, <1>7 DEF EventInv

(* The main thread's event gets into the list.                             *)
LEMMA EventClickInserts == TypeInv /\ EventInv /\ ClickInserts => EventInv'
<1>. SUFFICES ASSUME TypeInv, ListInv, TakenInv, ConsumedInv, HeldInv, Accounted, ClickInserts
              PROVE  EventInv'
  BY DEF EventInv
<1>0. DOMAIN u = {"pc", "new", "keys", "joined", "asked"}
  BY DEF TypeInv, MainInv
<1>1. /\ u.pc = "insert" /\ u'.pc = "loop" /\ eventsMap' = Insert(u.new)
      /\ UNCHANGED <<cmd, fresh, consumed, tooLate, s>>
  BY <1>0 DEF ClickInserts, UGo, history
<1>2. Held(u.new)
  BY <1>1 DEF HeldInv, ClickPC
<1>3. /\ ListInv'
      /\ \A e : Pending(eventsMap', e) <=> Pending(eventsMap, e) \/ e = u.new.ev
      /\ \A c \in Time : \A i \in DOMAIN eventsMap[c] :
           i \in DOMAIN eventsMap'[c] /\ eventsMap'[c][i] = eventsMap[c][i]
  BY <1>1, <1>2, EventInsert
<1>4. TakenInv'
  BY <1>1, <1>3 DEF TakenInv, AtEvent, Event
<1>5. ConsumedInv'
  BY <1>1, <1>2, <1>3 DEF ConsumedInv, AtEvent, Held
<1>6. HeldInv'
  BY <1>1, <1>3 DEF HeldInv, Held, Created, ClickPC
<1>7. Accounted'
  BY <1>1, <1>3 DEF Accounted, Created
<1>. QED BY <1>3, <1>4, <1>5, <1>6, <1>7 DEF EventInv

(* The event taken leaves the list.                                        *)
LEMMA EventErase == TypeInv /\ LoopInv /\ EventInv /\ EraseTaken => EventInv'
<1>. SUFFICES ASSUME TypeInv, LoopInv, ListInv, TakenInv, ConsumedInv, HeldInv, Accounted, EraseTaken
              PROVE  EventInv'
  BY DEF EventInv
<1>0. /\ DOMAIN s = {"pc", "pev", "new", "loop", "limit"}
      /\ eventsMap \in [Time -> Seq(Ev)]
  BY DEF TypeInv, SchedulerInv
<1>1. /\ s.pc = "erase" /\ s'.pc = AfterErase[s.loop] /\ eventsMap' = Erase(s.pev)
      /\ UNCHANGED <<cmd, fresh, consumed, tooLate, u>>
  BY <1>0 DEF EraseTaken, SGo, history
<1>2. s'.pc \notin AtEvent
  <2>1. s.loop \in {"FASTEST", "REALTIME", "MELD"}
    BY <1>1 DEF LoopInv, LoopPC
  <2>2. /\ AfterErase["FASTEST"] = "again" /\ AfterErase["REALTIME"] = "inner"
        /\ AfterErase["MELD"] = "drain"
    BY DEF AfterErase
  <2>. QED BY <1>1, <2>1, <2>2 DEF AtEvent
<1>3. /\ s.pev \in [ev : Ev, date : Time] /\ s.pev.ev \in consumed
      /\ \E i \in DOMAIN eventsMap[s.pev.date] : eventsMap[s.pev.date][i] = s.pev.ev
  BY <1>1 DEF TakenInv, AtEvent, Event
<1>4. PICK d \in Time : OnlyAt(eventsMap, s.pev.ev, d)
  BY <1>3 DEF ListInv
<1>5. /\ \A e : Pending(eventsMap', e) <=> Pending(eventsMap, e) /\ e # s.pev.ev
      /\ \A e, x : OnlyAt(eventsMap, e, x) => OnlyAt(eventsMap', e, x)
  BY <1>0, <1>1, <1>3, <1>4, EraseOne
<1>6. ListInv'
  BY <1>1, <1>5 DEF ListInv
<1>7. TakenInv'
  BY <1>2 DEF TakenInv
<1>8. ConsumedInv'
  BY <1>1, <1>5 DEF ConsumedInv, AtEvent
<1>9. HeldInv'
  BY <1>1, <1>2, <1>5 DEF HeldInv, Held, Created, AtEvent
<1>10. Accounted'
  BY <1>1, <1>3, <1>5 DEF Accounted, Created
<1>. QED BY <1>6, <1>7, <1>8, <1>9, <1>10 DEF EventInv

(* The main thread holds an event nobody has created.                      *)
LEMMA EventClick == TypeInv /\ TerminalInv /\ EventInv /\ Click => EventInv'
<1>. SUFFICES ASSUME TypeInv, TerminalInv, ListInv, TakenInv, ConsumedInv, HeldInv, Accounted, Click
              PROVE  EventInv'
  BY DEF EventInv
<1>0. /\ DOMAIN u = {"pc", "new", "keys", "joined", "asked"}
      /\ now \in Time /\ fresh \subseteq Ev
  BY DEF TypeInv, MainInv
<1>1. /\ u.pc = "loop" /\ UNCHANGED <<cmd, eventsMap, s, consumed, tooLate>>
  BY DEF Click, mapVars
<1>2. PICK e \in fresh : /\ fresh' = fresh \ {e}
                         /\ u' = [u EXCEPT !.pc = "date", !.new = Dated(e, now), !.keys = @ + 1]
  BY DEF Click
<1>3. u'.pc = "date" /\ u'.new = Dated(e, now)
  <2>. DEFINE w == [u EXCEPT !.pc = "date", !.new = Dated(e, now)]
  <2>1. w.pc = "date" /\ w.new = Dated(e, now) /\ DOMAIN w = DOMAIN u /\ w.keys = u.keys
    BY <1>0
  <2>2. u' = [w EXCEPT !.keys = u.keys + 1]
    BY <1>2
  <2>. HIDE DEF w
  <2>. QED BY <1>0, <2>1, <2>2
<1>4. u'.new \in Event /\ u'.new.ev = e
  BY <1>0, <1>3 DEF Dated, Event
<1>5. e \in Ev /\ e \notin consumed /\ ~Pending(eventsMap, e)
  BY <1>0 DEF ListInv
<1>6. ListInv'
  BY <1>1, <1>2 DEF ListInv
<1>7. TakenInv' /\ ConsumedInv'
  BY <1>1 DEF TakenInv, ConsumedInv, AtEvent
<1>8. HeldInv'
  <2>1. s.pc \in Created => Held(s.new) /\ s.new.ev # e
    BY DEF HeldInv, Held
  <2>. QED BY <1>1, <1>2, <1>3, <1>4, <1>5, <2>1 DEF HeldInv, Held, Created
<1>9. Accounted'
  BY <1>1 DEF Accounted, TerminalInv, WindowPC
<1>. QED BY <1>6, <1>7, <1>8, <1>9 DEF EventInv

(* Every step keeps what is said of the events.                            *)
LEMMA EventStep == TypeInv /\ LoopInv /\ TerminalInv /\ EventInv /\ AnyNext => EventInv'
BY QuietSteps, EventQuiet, EventTake, EventConsume, EventHandlerInserts, EventClickInserts,
   EventErase, EventClick

-----------------------------------------------------------------------------
(* Who is where. *)

(* What the steps change of who is at an insertion.                        *)
LEMMA InsertPlaces ==
  TypeInv /\ LoopInv /\ AnyNext =>
    /\ (s'.pc = "insert" <=> s.pc = "insert") \/ HandlerLocks \/ HandlerInserts
    /\ (u'.pc = "insert" <=> u.pc = "insert") \/ ClickLocks \/ ClickInserts
<1>. SUFFICES ASSUME DOMAIN s = {"pc", "pev", "new", "loop", "limit"}, AnyNext, LoopInv,
                     DOMAIN u = {"pc", "new", "keys", "joined", "asked"}
              PROVE  /\ (s'.pc = "insert" <=> s.pc = "insert") \/ HandlerLocks \/ HandlerInserts
                     /\ (u'.pc = "insert" <=> u.pc = "insert") \/ ClickLocks \/ ClickInserts
  BY DEF TypeInv, SchedulerInv, MainInv
<1>. DEFINE SSame == s'.pc = "insert" <=> s.pc = "insert"
            USame == u'.pc = "insert" <=> u.pc = "insert"
<1>1. ASSUME Awake \/ CheckState \/ Run \/ Switch \/ Test \/ Inner \/ Take \/ Consume \/ Again
      PROVE  SSame
  BY <1>1 DEF Awake, CheckState, Run, Switch, Test, Inner, Take, Consume, Again, SGo
<1>2. ASSUME Stats \/ Terminate \/ ClearThread \/ SemWait \/ MeldRun \/ MeldSwitch \/ Turn \/ Drain
             \/ Drained
      PROVE  SSame
  BY <1>2 DEF Stats, Terminate, ClearThread, SemWait, MeldRun, MeldSwitch, Turn, Drain,
         Drained, SGo
<1>3. ASSUME EraseTaken
      PROVE  SSame
  <2>1. s.loop \in {"FASTEST", "REALTIME", "MELD"}
    BY <1>3 DEF EraseTaken, SGo, LoopInv, LoopPC
  <2>2. /\ AfterErase["FASTEST"] = "again" /\ AfterErase["REALTIME"] = "inner"
        /\ AfterErase["MELD"] = "drain"
    BY DEF AfterErase
  <2>. QED BY <1>3, <2>1, <2>2 DEF EraseTaken, SGo
<1>4. ASSUME StartSimulation \/ ClickTestsDate \/ LoopReturns \/ TerminalStart \/ TerminalWait
             \/ TerminalJoined \/ Stop \/ TestTerminate \/ InstructToTerminate
             \/ TestNotStarted
      PROVE  USame
  BY <1>4 DEF StartSimulation, ClickTestsDate, LoopReturns, Quit, TerminalStart,
         TerminalWait, Reads, TerminalJoined, Joins, Stop, TestTerminate,
         InstructToTerminate, TestNotStarted, UGo
<1>5. ASSUME Release \/ ReadThread \/ ThreadJoined \/ Destroy \/ KeyStart \/ KeyStop \/ Click \/ Quit
             \/ MeldKeyStop \/ MeldStop
      PROVE  USame
  BY <1>5 DEF Release, ReadThread, Reads, ThreadJoined, Joins, Destroy, KeyStart, KeyStop,
         Click, Quit, MeldKeyStop, Stopped, MeldStop, UGo
<1>6. SchedulerStep \/ MeldSchedulerStep \/ UNCHANGED s
  BY Frames
<1>7. SSame \/ HandlerLocks \/ HandlerInserts
  BY <1>1, <1>2, <1>3, <1>6 DEF SchedulerStep, MeldSchedulerStep
<1>8. SchedulerStep \/ MeldSchedulerStep \/ Tick => UNCHANGED u
  BY Frames
<1>9. USame \/ ClickLocks \/ ClickInserts
  BY Steps, <1>4, <1>5, <1>8 DEF SchedulerStep, MeldSchedulerStep
<1>. QED BY <1>7, <1>9

(* The holder of the lock is at its insertion.                             *)
LEMMA LockStep == TypeInv /\ LoopInv /\ LockInv /\ AnyNext => LockInv'
<1>. SUFFICES ASSUME TypeInv, LoopInv, LockInv, AnyNext
              PROVE  LockInv'
  OBVIOUS
<1>. USE DEF LockInv
<1>0. /\ DOMAIN s = {"pc", "pev", "new", "loop", "limit"}
      /\ DOMAIN u = {"pc", "new", "keys", "joined", "asked"}
      /\ NULL \notin {"scheduler", "user"}
  BY ThreadsAssumption DEF TypeInv, SchedulerInv, MainInv
<1>1. CASE HandlerLocks
  <2>1. lock = NULL /\ lock' = "scheduler" /\ s'.pc = "insert" /\ u' = u
    BY <1>0, <1>1 DEF HandlerLocks, Locks, SGo
  <2>. QED BY <1>0, <2>1
<1>2. CASE HandlerInserts
  <2>1. s.pc = "insert" /\ lock' = NULL /\ s'.pc = "erase" /\ u' = u
    BY <1>0, <1>2 DEF HandlerInserts, SGo
  <2>. QED BY <1>0, <2>1
<1>3. CASE ClickLocks
  <2>1. lock = NULL /\ lock' = "user" /\ u'.pc = "insert" /\ s' = s
    BY <1>0, <1>3 DEF ClickLocks, Locks, UGo
  <2>. QED BY <1>0, <2>1
<1>4. CASE ClickInserts
  <2>1. u.pc = "insert" /\ lock' = NULL /\ u'.pc = "loop" /\ s' = s
    BY <1>0, <1>4 DEF ClickInserts, UGo
  <2>. QED BY <1>0, <2>1
<1>5. CASE ~HandlerLocks /\ ~HandlerInserts /\ ~ClickLocks /\ ~ClickInserts
  <2>1. lock' = lock
    BY <1>5, ListFrame
  <2>. QED BY <1>5, <2>1, InsertPlaces
<1>. QED BY <1>1, <1>2, <1>3, <1>4, <1>5

(* A list with an event has one after the main thread has inserted another.*)
LEMMA NotEmptied ==
  TypeInv /\ EventInv /\ ClickInserts /\ ~Empty => ~Empty'
<1>. SUFFICES ASSUME TypeInv, EventInv, ClickInserts, ~Empty
              PROVE  ~Empty'
  OBVIOUS
<1>1. /\ eventsMap \in [Time -> Seq(Ev)]
      /\ u.new \in [ev : Ev, date : Time]
      /\ eventsMap' = Insert(u.new)
  BY DEF TypeInv, ClickInserts, UGo, EventInv, HeldInv, Held, ClickPC, Event
<1>2. PICK e : Pending(eventsMap, e)
  BY <1>1, EmptyIsNothingPending DEF Empty
<1>3. eventsMap' \in [Time -> Seq(Ev)] /\ Pending(eventsMap', e)
  BY <1>1, <1>2, InsertOne
<1>. QED BY <1>3, EmptyIsNothingPending DEF Empty

(* A thread at the steps of a loop is in that loop, with an event to take. *)
LEMMA LoopStep == TypeInv /\ EventInv /\ LoopInv /\ AnyNext => LoopInv'
<1>. SUFFICES ASSUME TypeInv, EventInv, LoopInv, AnyNext
              PROVE  LoopInv'
  OBVIOUS
<1>. DEFINE Looping == /\ s'.pc \in LoopPC => s'.loop \in {"FASTEST", "REALTIME", "MELD"}
                       /\ s'.pc \in MeldPC => s'.loop = "MELD"
                       /\ s'.pc \in StartPC \/ (s'.pc \in LoopPC \cup MeldPC /\ s'.loop = "MELD") => cmd.meld
            Taking == s'.pc = "take" => ~Empty'
<1>0. /\ DOMAIN s = {"pc", "pev", "new", "loop", "limit"}
      /\ obj.mode \in {"FASTEST", "REALTIME", "DEBUG"}
      /\ s.pc \in LoopPC => s.loop \in {"FASTEST", "REALTIME", "MELD"}
      /\ s.pc \in MeldPC => s.loop = "MELD"
      /\ s.pc \in StartPC \/ (s.pc \in LoopPC \cup MeldPC /\ s.loop = "MELD") => cmd.meld
      /\ cmd' = cmd
  BY ListFrame DEF TypeInv, SchedulerInv, ObjInv, LoopInv
<1>1. ASSUME UNCHANGED s
      PROVE  Looping /\ Taking
  <2>1. s.pc = "take" => ~Empty
    BY DEF LoopInv
  <2>2. UNCHANGED eventsMap \/ HandlerInserts \/ EraseTaken \/ ClickInserts
    BY ListFrame
  <2>3. ~(s.pc = "take" /\ (HandlerInserts \/ EraseTaken))
    BY DEF HandlerInserts, EraseTaken, SGo
  <2>. QED BY <1>0, <1>1, <2>1, <2>2, <2>3, NotEmptied DEF Empty
<1>2. ASSUME Awake \/ CheckState \/ Run \/ Stats \/ Terminate \/ ClearThread \/ SemWait \/ MeldRun
      PROVE  Looping /\ s'.pc # "take"
  BY <1>0, <1>2 DEF Awake, CheckState, Run, Stats, Terminate, ClearThread, SemWait, MeldRun,
         SGo, LoopPC, MeldPC, StartPC
<1>3. ASSUME Switch \/ MeldSwitch
      PROVE  Looping /\ s'.pc # "take"
  BY <1>0, <1>3 DEF Switch, MeldSwitch, LoopPC, MeldPC, StartPC
<1>4. ASSUME Consume \/ Take \/ HandlerLocks \/ HandlerInserts \/ Again
      PROVE  Looping /\ s'.pc # "take"
  BY <1>0, <1>4 DEF Consume, Take, HandlerLocks, HandlerInserts, Again, SGo, LoopPC, MeldPC, StartPC
<1>5. ASSUME EraseTaken
      PROVE  Looping /\ s'.pc # "take"
  <2>1. s.loop \in {"FASTEST", "REALTIME", "MELD"}
    BY <1>0, <1>5 DEF EraseTaken, SGo, LoopPC
  <2>2. /\ AfterErase["FASTEST"] = "again" /\ AfterErase["REALTIME"] = "inner"
        /\ AfterErase["MELD"] = "drain"
    BY DEF AfterErase
  <2>. QED BY <1>0, <1>5, <2>1, <2>2 DEF EraseTaken, SGo, LoopPC, MeldPC, StartPC
<1>6. ASSUME Test \/ Inner
      PROVE  Looping /\ (s'.pc = "take" => ~Empty) /\ UNCHANGED eventsMap
  BY <1>0, <1>6 DEF Test, Inner, SGo, LoopPC, MeldPC, StartPC, mapVars
<1>7. ASSUME Turn \/ Drain \/ Drained
      PROVE  Looping /\ (s'.pc = "take" => ~Empty) /\ UNCHANGED eventsMap
  BY <1>0, <1>7 DEF Turn, Drain, Drained, SGo, LoopPC, MeldPC, StartPC, mapVars
<1>8. Looping /\ Taking
  <2>1. SchedulerStep \/ MeldSchedulerStep \/ UNCHANGED s
    BY Frames
  <2>2. UNCHANGED eventsMap => (Empty' <=> Empty)
    BY DEF Empty
  <2>. QED BY <1>1, <1>2, <1>3, <1>4, <1>5, <1>6, <1>7, <2>1, <2>2
           DEF SchedulerStep, MeldSchedulerStep, LoopPC
<1>. QED BY <1>0, <1>8 DEF LoopInv

(* Without a window: the terminal waits for the scheduler, which ends only *)
(* with an empty list.                                                     *)
LEMMA TerminalStep == TypeInv /\ LoopInv /\ TerminalInv /\ AnyNext => TerminalInv'
<1>. SUFFICES ASSUME TypeInv, LoopInv, TerminalInv, AnyNext, ~cmd.gui
              PROVE  TerminalInv'
  BY ListFrame DEF TerminalInv
<1>. DEFINE Ending == {"stats", "terminate", "clear", "done"}
            Waiting(o, sch, none) ==
              /\ o.mode = "FASTEST"
              /\ o.terminate => sch.pc \in {"clear", "done"}
              /\ o.state = "ENDED" => cmd.meld /\ sch.pc \in {"turn", "stats", "terminate", "done"} /\ none
            Loops(sch, none) ==
              /\ sch.loop \in {NULL, "FASTEST", "MELD"}
              /\ sch.pc \in Ending => none
<1>0. /\ DOMAIN s = {"pc", "pev", "new", "loop", "limit"}
      /\ DOMAIN u = {"pc", "new", "keys", "joined", "asked"}
      /\ DOMAIN obj = {"mode", "state", "terminate", "starts", "thread", "left", "alive"}
      /\ cmd' = cmd
  BY ListFrame DEF TypeInv, SchedulerInv, MainInv, ObjInv
<1>1. /\ u.pc \notin WindowPC
      /\ u.pc \in BeforeEnd => Waiting(obj, s, Empty)
      /\ u.pc \notin BeforeEnd => s.pc = "done" /\ u.joined
      /\ Loops(s, Empty)
  BY DEF TerminalInv
<1>. DEFINE Kept == /\ u'.pc \notin WindowPC
                    /\ u'.pc \in BeforeEnd => Waiting(obj', s', Empty')
                    /\ u'.pc \notin BeforeEnd => s'.pc = "done" /\ u'.joined
                    /\ Loops(s', Empty')
<1>3. UNCHANGED eventsMap => (Empty' <=> Empty)
  BY DEF Empty
<1>4. ASSUME ClickTestsDate \/ ClickLocks \/ ClickInserts \/ LoopReturns \/ KeyStart \/ KeyStop
             \/ Click \/ Quit \/ MeldKeyStop
      PROVE  FALSE
  BY <1>1, <1>4 DEF ClickTestsDate, ClickLocks, ClickInserts, LoopReturns, Quit, KeyStart,
         KeyStop, Click, MeldKeyStop, UGo, WindowPC, ClickPC
<1>5. ASSUME StartSimulation \/ TerminalStart \/ TerminalWait
      PROVE  Kept
  <2>1. /\ u.pc \in BeforeEnd /\ u'.pc \in BeforeEnd /\ u'.pc \notin WindowPC
        /\ UNCHANGED <<s, eventsMap>>
    BY <1>0, <1>5 DEF StartSimulation, TerminalStart, TerminalWait, Reads, UGo, BeforeEnd,
                      WindowPC, ClickPC, mapVars
  <2>2. /\ obj'.mode = obj.mode /\ obj'.terminate = obj.terminate
        /\ obj'.state \in {obj.state, "NOTSTARTED"}
    BY <1>0, <1>5 DEF StartSimulation, TerminalStart, TerminalWait, Reads, Started
  <2>. QED BY <1>1, <1>3, <2>1, <2>2
<1>6. ASSUME TerminalJoined
      PROVE  Kept
  <2>1. u'.pc = "stop" /\ u'.joined /\ s.pc = "done" /\ UNCHANGED <<s, eventsMap>>
    BY <1>0, <1>6 DEF TerminalJoined, Joins, mapVars
  <2>. QED BY <1>1, <1>3, <2>1 DEF BeforeEnd, WindowPC, ClickPC
<1>7. ASSUME Stop \/ TestTerminate \/ InstructToTerminate \/ TestNotStarted \/ Release
             \/ ReadThread \/ ThreadJoined \/ Destroy \/ MeldStop
      PROVE  Kept
  <2>1. u.pc \notin BeforeEnd /\ u'.pc \notin BeforeEnd /\ u'.pc \notin WindowPC
    BY <1>0, <1>7 DEF Stop, TestTerminate, InstructToTerminate, TestNotStarted, Release,
           ReadThread, Reads, ThreadJoined, Joins, Destroy, MeldStop, Stopped, UGo,
           BeforeEnd, WindowPC, ClickPC
  <2>2. (u.joined => u'.joined) /\ UNCHANGED <<s, eventsMap>>
    BY <1>0, <1>7 DEF Stop, TestTerminate, InstructToTerminate, TestNotStarted, Release,
           ReadThread, Reads, ThreadJoined, Joins, Destroy, MeldStop, Stopped, UGo, mapVars
  <2>. QED BY <1>1, <1>3, <2>1, <2>2
<1>8. ASSUME Tick
      PROVE  Kept
  BY <1>1, <1>3, <1>8 DEF Tick, mapVars
<1>9. ASSUME SchedulerStep \/ MeldSchedulerStep
      PROVE  Kept
  <2>1. UNCHANGED u
    BY <1>9, Frames
  <2>2. s.pc # "done"
    BY <1>9 DEF SchedulerStep, MeldSchedulerStep, Awake, CheckState, Run, Switch, Test,
           Inner, Take, Consume, HandlerLocks, HandlerInserts, EraseTaken, Again, Stats,
           Terminate, ClearThread, SemWait, MeldRun, MeldSwitch, Turn, Drain, Drained, SGo
  <2>3. u.pc \in BeforeEnd /\ Waiting(obj, s, Empty) /\ Loops(s, Empty)
    BY <1>1, <2>2
  <2>4. SUFFICES Waiting(obj', s', Empty') /\ Loops(s', Empty')
    BY <1>1, <2>1, <2>3
  <2>5. CASE Awake
    <3>1. UNCHANGED eventsMap
      BY <2>5 DEF Awake, mapVars
    <3>2. Waiting(obj', s', Empty) /\ Loops(s', Empty)
      BY <1>0, <2>3, <2>5 DEF Awake, SGo
    <3>. QED BY <1>3, <3>1, <3>2
  <2>6. CASE CheckState
    <3>1. UNCHANGED eventsMap
      BY <2>6 DEF CheckState, mapVars
    <3>2. Waiting(obj', s', Empty) /\ Loops(s', Empty)
      BY <1>0, <2>3, <2>6 DEF CheckState, SGo, Cancelled
    <3>. QED BY <1>3, <3>1, <3>2
  <2>7. CASE Run
    <3>1. UNCHANGED eventsMap
      BY <2>7 DEF Run, mapVars
    <3>2. Waiting(obj', s', Empty) /\ Loops(s', Empty)
      BY <1>0, <2>3, <2>7 DEF Run, SGo
    <3>. QED BY <1>3, <3>1, <3>2
  <2>8. CASE Switch
    <3>1. UNCHANGED eventsMap
      BY <2>8 DEF Switch, mapVars
    <3>2. Waiting(obj', s', Empty) /\ Loops(s', Empty)
      BY <1>0, <2>3, <2>8 DEF Switch
    <3>. QED BY <1>3, <3>1, <3>2
  <2>9. CASE Test
    <3>1. UNCHANGED eventsMap
      BY <2>9 DEF Test, mapVars
    <3>2. Waiting(obj', s', Empty) /\ Loops(s', Empty)
      BY <1>0, <2>3, <2>9 DEF Test, LoopEnds
    <3>. QED BY <1>3, <3>1, <3>2
  <2>10. CASE Inner
    <3>1. UNCHANGED eventsMap
      BY <2>10 DEF Inner, mapVars
    <3>2. Waiting(obj', s', Empty) /\ Loops(s', Empty)
      BY <1>0, <2>3, <2>10 DEF Inner, SGo
    <3>. QED BY <1>3, <3>1, <3>2
  <2>11. CASE Take
    <3>1. UNCHANGED eventsMap
      BY <2>11 DEF Take, mapVars
    <3>2. Waiting(obj', s', Empty) /\ Loops(s', Empty)
      BY <1>0, <2>3, <2>11 DEF Take
    <3>. QED BY <1>3, <3>1, <3>2
  <2>12. CASE Consume
    <3>1. UNCHANGED eventsMap
      BY <2>12 DEF Consume, mapVars
    <3>2. Waiting(obj', s', Empty) /\ Loops(s', Empty)
      BY <1>0, <2>3, <2>12 DEF Consume
    <3>. QED BY <1>3, <3>1, <3>2
  <2>13. CASE HandlerLocks
    <3>1. UNCHANGED eventsMap
      BY <2>13 DEF HandlerLocks, mapVars
    <3>2. Waiting(obj', s', Empty) /\ Loops(s', Empty)
      BY <1>0, <2>3, <2>13 DEF HandlerLocks, SGo
    <3>. QED BY <1>3, <3>1, <3>2
  <2>14. CASE HandlerInserts
    <3>1. s.pc = "insert" /\ s'.pc = "erase" /\ s'.loop = s.loop /\ UNCHANGED obj
      BY <1>0, <2>14 DEF HandlerInserts, SGo
    <3>. QED BY <2>3, <3>1
  <2>15. CASE EraseTaken
    <3>1. /\ s.pc = "erase" /\ s'.pc = AfterErase[s.loop] /\ s'.loop = s.loop /\ UNCHANGED obj
          /\ s.loop \in {"FASTEST", "REALTIME", "MELD"}
      BY <1>0, <2>15 DEF EraseTaken, SGo, LoopInv, LoopPC
    <3>2. /\ AfterErase["FASTEST"] = "again" /\ AfterErase["REALTIME"] = "inner"
          /\ AfterErase["MELD"] = "drain"
      BY DEF AfterErase
    <3>. QED BY <2>3, <3>1, <3>2
  <2>16. CASE Again
    <3>1. UNCHANGED eventsMap
      BY <2>16 DEF Again, mapVars
    <3>2. Waiting(obj', s', Empty) /\ Loops(s', Empty)
      BY <1>0, <2>3, <2>16 DEF Again, SGo, Stops
    <3>. QED BY <1>3, <3>1, <3>2
  <2>17. CASE Stats
    <3>1. UNCHANGED eventsMap
      BY <2>17 DEF Stats, mapVars
    <3>2. Waiting(obj', s', Empty) /\ Loops(s', Empty)
      BY <1>0, <2>3, <2>17 DEF Stats, SGo
    <3>. QED BY <1>3, <3>1, <3>2
  <2>18. CASE Terminate
    <3>1. UNCHANGED eventsMap
      BY <2>18 DEF Terminate, mapVars
    <3>2. Waiting(obj', s', Empty) /\ Loops(s', Empty)
      BY <1>0, <2>3, <2>18 DEF Terminate, SGo
    <3>. QED BY <1>3, <3>1, <3>2
  <2>19. CASE ClearThread
    <3>1. UNCHANGED eventsMap
      BY <2>19 DEF ClearThread, mapVars
    <3>2. Waiting(obj', s', Empty) /\ Loops(s', Empty)
      BY <1>0, <2>3, <2>19 DEF ClearThread, SGo
    <3>. QED BY <1>3, <3>1, <3>2
  <2>20. CASE SemWait
    <3>1. UNCHANGED eventsMap
      BY <2>20 DEF SemWait, mapVars
    <3>2. Waiting(obj', s', Empty) /\ Loops(s', Empty)
      BY <1>0, <2>3, <2>20 DEF SemWait, SGo
    <3>. QED BY <1>3, <3>1, <3>2
  <2>21. CASE MeldRun
    <3>1. UNCHANGED eventsMap
      BY <2>21 DEF MeldRun, mapVars
    <3>2. Waiting(obj', s', Empty) /\ Loops(s', Empty)
      BY <1>0, <2>3, <2>21 DEF MeldRun, SGo
    <3>. QED BY <1>3, <3>1, <3>2
  <2>22. CASE MeldSwitch
    <3>1. UNCHANGED eventsMap
      BY <2>22 DEF MeldSwitch, mapVars
    <3>2. Waiting(obj', s', Empty) /\ Loops(s', Empty)
      BY <1>0, <2>3, <2>22 DEF MeldSwitch
    <3>. QED BY <1>3, <3>1, <3>2
  <2>23. CASE Turn
    <3>1. UNCHANGED eventsMap
      BY <2>23 DEF Turn, mapVars
    <3>2. Waiting(obj', s', Empty) /\ Loops(s', Empty)
      BY <1>0, <2>3, <2>23 DEF Turn, SGo
    <3>. QED BY <1>3, <3>1, <3>2
  <2>24. CASE Drain
    <3>1. UNCHANGED eventsMap
      BY <2>24 DEF Drain, mapVars
    <3>2. Waiting(obj', s', Empty) /\ Loops(s', Empty)
      BY <1>0, <2>3, <2>24 DEF Drain, SGo
    <3>. QED BY <1>3, <3>1, <3>2
  <2>25. CASE Drained
    <3>1. UNCHANGED eventsMap
      BY <2>25 DEF Drained, mapVars
    <3>2. cmd.meld
      BY <2>25 DEF Drained, SGo, LoopInv, MeldPC
    <3>3. /\ s'.loop = s.loop /\ s'.pc = IF Empty \/ obj.terminate THEN "turn" ELSE "drain"
          /\ obj' = IF Empty THEN [obj EXCEPT !.state = "ENDED"] ELSE obj
      BY <1>0, <2>25 DEF Drained, SGo
    <3>4. CASE Empty
      <4>1. obj'.mode = obj.mode /\ obj'.terminate = obj.terminate /\ s'.pc = "turn"
        BY <1>0, <3>3, <3>4
      <4>2. s.pc = "drained"
        BY <2>25 DEF Drained, SGo
      <4>. QED BY <1>3, <2>3, <3>1, <3>2, <3>3, <3>4, <4>1, <4>2
    <3>5. CASE ~Empty
      <4>1. s.pc = "drained" /\ ~obj.terminate
        BY <2>3, <2>25 DEF Drained, SGo
      <4>. QED BY <1>3, <2>3, <3>1, <3>3, <3>5, <4>1
    <3>. QED BY <3>4, <3>5
  <2>. QED BY <1>9, <2>5, <2>6, <2>7, <2>8, <2>9, <2>10, <2>11, <2>12, <2>13, <2>14, <2>15,
              <2>16, <2>17, <2>18, <2>19, <2>20, <2>21, <2>22, <2>23, <2>24, <2>25
     DEF SchedulerStep, MeldSchedulerStep
<1>10. Kept
  BY Steps, <1>4, <1>5, <1>6, <1>7, <1>8, <1>9 DEF SchedulerStep, MeldSchedulerStep
<1>11. Kept => TerminalInv'
  BY <1>0 DEF TerminalInv
<1>. QED BY <1>10, <1>11

(* Nothing is consumed of a simulation nobody asked for: it is woken only  *)
(* by deleteScheduler, which has set state to ENDED.                       *)
LEMMA UnaskedStep == TypeInv /\ LoopInv /\ MeldInv /\ UnaskedInv /\ AnyNext => UnaskedInv'
<1>. SUFFICES ASSUME TypeInv, LoopInv, MeldInv, UnaskedInv, AnyNext
              PROVE  UnaskedInv'
  OBVIOUS
<1>. DEFINE Asleep(o, sch) == o.starts = 0 /\ sch.pc \in {"wait", "start"}
            Leaving(o, main, sch) ==
              /\ ~cmd.meld /\ o.state = "ENDED" /\ main.pc \in LeavingPC
              /\ sch.pc \in {"wait", "check", "terminate", "clear", "done"}
            Unrun == Asleep(obj, s) \/ Leaving(obj, u, s)
            Kept == Asleep(obj', s') \/ Leaving(obj', u', s')
<1>0. /\ DOMAIN s = {"pc", "pev", "new", "loop", "limit"}
      /\ DOMAIN u = {"pc", "new", "keys", "joined", "asked"}
      /\ DOMAIN obj = {"mode", "state", "terminate", "starts", "thread", "left", "alive"}
      /\ cmd' = cmd
      /\ SchedulerStep \/ MeldSchedulerStep => UNCHANGED u
  BY ListFrame, Frames DEF TypeInv, SchedulerInv, MainInv, ObjInv
<1>1. (u'.pc # "begin" /\ (u.asked => u'.asked)) \/ UNCHANGED u
  <2>1. CASE StartSimulation
    BY <1>0, <2>1 DEF StartSimulation, UnaskedInv
  <2>2. CASE ClickTestsDate \/ ClickLocks \/ ClickInserts \/ LoopReturns \/ TerminalStart
             \/ TerminalWait \/ TerminalJoined \/ Stop \/ TestTerminate \/ InstructToTerminate
             \/ TestNotStarted
    BY <1>0, <2>2 DEF ClickTestsDate, ClickLocks, ClickInserts, LoopReturns, Quit,
       TerminalStart, TerminalWait, Reads, TerminalJoined, Joins, Stop, TestTerminate,
       InstructToTerminate, TestNotStarted, UGo
  <2>3. CASE Release \/ ReadThread \/ ThreadJoined \/ Destroy \/ KeyStart \/ KeyStop
             \/ Click \/ Quit \/ MeldKeyStop \/ MeldStop
    BY <1>0, <2>3 DEF Release, ReadThread, Reads, ThreadJoined, Joins, Destroy, KeyStart,
       KeyStop, Click, Quit, MeldKeyStop, MeldStop, Stopped, UGo
  <2>4. SchedulerStep \/ MeldSchedulerStep \/ Tick => UNCHANGED u
    BY Frames
  <2>. QED BY Steps, <2>1, <2>2, <2>3, <2>4 DEF SchedulerStep, MeldSchedulerStep
<1>2. SUFFICES ASSUME ~u'.asked, ~u.asked, Unrun, consumed = {}
               PROVE  consumed' = {} /\ Kept
  BY <1>0, <1>1 DEF UnaskedInv
<1>3. UNCHANGED consumed
  <2>1. UNCHANGED <<fresh, consumed, tooLate>> \/ Consume \/ Click
    BY ListFrame
  <2>2. ~Consume
    BY <1>2 DEF Consume
  <2>3. Click => UNCHANGED consumed
    BY DEF Click
  <2>. QED BY <2>1, <2>2, <2>3
<1>4. ASSUME SchedulerStep \/ MeldSchedulerStep
      PROVE  Kept
  <2>1. CASE Leaving(obj, u, s) /\ Awake
    BY <1>0, <1>4, <2>1 DEF Awake, SGo
  <2>2. CASE Leaving(obj, u, s) /\ CheckState
    BY <1>0, <1>4, <2>2 DEF CheckState, SGo, Cancelled
  <2>3. CASE Leaving(obj, u, s) /\ Terminate
    BY <1>0, <1>4, <2>3 DEF Terminate, SGo
  <2>4. CASE Leaving(obj, u, s) /\ ClearThread
    BY <1>0, <1>4, <2>4 DEF ClearThread, SGo
  <2>5. s.pc \in {"wait", "start", "check", "terminate", "clear", "done"}
    BY <1>2
  <2>6. Asleep(obj, s) => ~Awake /\ ~SemWait /\ ~CheckState /\ ~Terminate /\ ~ClearThread
    <3>1. obj.starts = 0 => ~Awake /\ ~SemWait
      BY DEF Awake, SemWait
    <3>2. s.pc \in {"wait", "start"} => ~CheckState /\ ~Terminate /\ ~ClearThread
      BY DEF CheckState, Terminate, ClearThread, SGo
    <3>. QED BY <3>1, <3>2
  <2>7. Leaving(obj, u, s) => ~SemWait
    BY DEF SemWait, SGo
  <2>8. ~(Run \/ Switch \/ Test \/ Inner \/ Take \/ Consume \/ HandlerLocks \/ HandlerInserts
          \/ EraseTaken \/ Again \/ Stats \/ MeldRun \/ MeldSwitch \/ Turn \/ Drain \/ Drained)
    BY <2>5 DEF Run, Switch, Test, Inner, Take, Consume, HandlerLocks, HandlerInserts,
       EraseTaken, Again, Stats, MeldRun, MeldSwitch, Turn, Drain, Drained, SGo
  <2>. QED BY <1>2, <1>4, <2>1, <2>2, <2>3, <2>4, <2>6, <2>7, <2>8
           DEF SchedulerStep, MeldSchedulerStep
<1>5. CASE Tick
  BY <1>2, <1>3, <1>5 DEF Tick
<1>6. CASE StartSimulation
  <2>1. u.pc = "begin" /\ u'.asked = cmd.autoStart
    BY <1>0, <1>6 DEF StartSimulation
  <2>2. obj' = [obj EXCEPT !.state = "NOTSTARTED"] /\ UNCHANGED s
    BY <1>2, <1>6, <2>1 DEF StartSimulation
  <2>. QED BY <1>0, <1>2, <1>3, <2>1, <2>2 DEF LeavingPC
<1>7. ~KeyStart /\ ~TerminalStart
  BY <1>0, <1>2 DEF KeyStart, TerminalStart
<1>8. CASE ClickTestsDate \/ ClickLocks \/ ClickInserts \/ LoopReturns \/ TerminalWait
           \/ TerminalJoined \/ TestTerminate \/ TestNotStarted \/ Click \/ Quit
  <2>1. u.pc \notin LeavingPC \/ u'.pc \in LeavingPC
    BY <1>0, <1>8 DEF ClickTestsDate, ClickLocks, ClickInserts, LoopReturns, Quit,
       TerminalWait, Reads, TerminalJoined, Joins, TestTerminate, TestNotStarted, Click, UGo,
       LeavingPC
  <2>2. UNCHANGED <<s, obj>>
    BY <1>8 DEF ClickTestsDate, ClickLocks, ClickInserts, LoopReturns, Quit,
       TerminalWait, Reads, TerminalJoined, Joins, TestTerminate, TestNotStarted, Click
  <2>. QED BY <1>2, <1>3, <2>1, <2>2
<1>9. CASE ReadThread \/ ThreadJoined \/ Destroy
  <2>1. u'.pc \in LeavingPC
    BY <1>0, <1>9 DEF ReadThread, Reads, ThreadJoined, Joins, Destroy, UGo, LeavingPC
  <2>2. UNCHANGED s /\ obj'.state = obj.state /\ obj'.starts = obj.starts
    BY <1>0, <1>9 DEF ReadThread, Reads, ThreadJoined, Joins, Destroy
  <2>. QED BY <1>2, <1>3, <2>1, <2>2
<1>10. CASE Stop \/ InstructToTerminate \/ KeyStop \/ MeldKeyStop \/ MeldStop
  <2>1. u.pc \notin LeavingPC
    BY <1>10 DEF Stop, InstructToTerminate, KeyStop, MeldKeyStop, MeldStop, UGo, LeavingPC
  <2>2. UNCHANGED s /\ obj'.starts = obj.starts
    BY <1>0, <1>10 DEF Stop, InstructToTerminate, KeyStop, MeldKeyStop, MeldStop, Stopped
  <2>. QED BY <1>2, <1>3, <2>1, <2>2
<1>11. CASE Release
  <2>1. u.pc = "end" /\ u'.pc = "join thread" /\ UNCHANGED s
    BY <1>0, <1>11 DEF Release, UGo
  <2>2. obj'.state = "ENDED"
    BY <1>0, <1>11 DEF Release, Started
  <2>3. ~cmd.meld
    BY <2>1 DEF MeldInv
  <2>4. s.pc # "start"
    BY <2>3 DEF LoopInv, StartPC
  <2>. QED BY <1>2, <1>3, <2>1, <2>2, <2>3, <2>4 DEF LeavingPC
<1>. QED BY Steps, <1>2, <1>3, <1>4, <1>5, <1>6, <1>7, <1>8, <1>9, <1>10, <1>11
         DEF SchedulerStep, MeldSchedulerStep

(* A Meld scheduler stays among its own steps, and without a window        *)
(* nothing takes the thread away or races with it.                         *)
LEMMA MeldStepControl ==
  TypeInv /\ LoopInv /\ MeldInv /\ AnyNext =>
    (cmd'.meld =>
       /\ s'.pc \notin {"wait", "check", "run", "switch", "clear"}
       /\ u'.pc # "end"
       /\ u'.pc \in {"delete", "instruct", "release"} => obj'.state \in {"ENDED", "RUNNING"}
       /\ ~cmd'.gui => obj'.thread)
<1>. SUFFICES ASSUME TypeInv, LoopInv, MeldInv, AnyNext, cmd'.meld
              PROVE  /\ s'.pc \notin {"wait", "check", "run", "switch", "clear"}
                     /\ u'.pc # "end"
                     /\ u'.pc \in {"delete", "instruct", "release"}
                          => obj'.state \in {"ENDED", "RUNNING"}
                     /\ ~cmd'.gui => obj'.thread
  OBVIOUS
<1>. DEFINE Deleting == {"delete", "instruct", "release"}
<1>0. /\ DOMAIN s = {"pc", "pev", "new", "loop", "limit"}
      /\ DOMAIN u = {"pc", "new", "keys", "joined", "asked"}
      /\ DOMAIN obj = {"mode", "state", "terminate", "starts", "thread", "left", "alive"}
      /\ cmd' = cmd /\ cmd.meld
  BY ListFrame DEF TypeInv, SchedulerInv, MainInv, ObjInv
<1>1. /\ s.pc \notin {"wait", "check", "run", "switch", "clear"}
      /\ u.pc # "end"
      /\ u.pc \in Deleting => obj.state \in {"ENDED", "RUNNING"}
      /\ ~cmd.gui => obj.thread
  BY <1>0 DEF MeldInv
<1>2. s'.pc \notin {"wait", "check", "run", "switch", "clear"}
  <2>1. CASE Test \/ Inner \/ Take \/ Consume
    <3>1. CASE Test
      BY <1>0, <3>1 DEF Test
    <3>2. CASE Inner
      BY <1>0, <3>2 DEF Inner, SGo
    <3>3. CASE Take
      BY <1>0, <3>3 DEF Take
    <3>4. CASE Consume
      BY <1>0, <3>4 DEF Consume
    <3>. QED BY <2>1, <3>1, <3>2, <3>3, <3>4
  <2>6. CASE HandlerLocks \/ HandlerInserts \/ Again \/ Stats \/ Terminate
    BY <1>0, <2>6 DEF HandlerLocks, HandlerInserts, Again, Stats, Terminate, SGo
  <2>2. CASE SemWait \/ MeldRun \/ MeldSwitch \/ Turn \/ Drain \/ Drained
    <3>1. CASE SemWait
      BY <1>0, <3>1 DEF SemWait, SGo
    <3>2. CASE MeldRun
      BY <1>0, <3>2 DEF MeldRun, SGo
    <3>3. CASE MeldSwitch
      BY <1>0, <3>3 DEF MeldSwitch
    <3>4. CASE Turn
      BY <1>0, <3>4 DEF Turn, SGo
    <3>5. CASE Drain
      BY <1>0, <3>5 DEF Drain, SGo
    <3>6. CASE Drained
      BY <1>0, <3>6 DEF Drained, SGo
    <3>. QED BY <2>2, <3>1, <3>2, <3>3, <3>4, <3>5, <3>6
  <2>3. CASE EraseTaken
    <3>1. s.loop \in {"FASTEST", "REALTIME", "MELD"}
      BY <2>3 DEF EraseTaken, SGo, LoopInv, LoopPC
    <3>2. /\ AfterErase["FASTEST"] = "again" /\ AfterErase["REALTIME"] = "inner"
          /\ AfterErase["MELD"] = "drain"
      BY DEF AfterErase
    <3>. QED BY <1>0, <2>3, <3>1, <3>2 DEF EraseTaken, SGo
  <2>4. ~(Awake \/ CheckState \/ Run \/ Switch \/ ClearThread)
    BY <1>1 DEF Awake, CheckState, Run, Switch, ClearThread, SGo
  <2>5. SchedulerStep \/ MeldSchedulerStep \/ UNCHANGED s
    BY Frames
  <2>. QED BY <1>1, <2>1, <2>2, <2>3, <2>4, <2>5, <2>6 DEF SchedulerStep, MeldSchedulerStep
<1>3. u'.pc \in Deleting \cup {"end"} =>
        (u.pc \in Deleting /\ u'.pc # "end") \/ MeldStop
  <2>1. CASE StartSimulation \/ ClickTestsDate \/ ClickLocks \/ ClickInserts \/ LoopReturns
             \/ TerminalStart \/ TerminalWait \/ TerminalJoined \/ Quit
    <3>1. CASE StartSimulation
      BY <1>0, <3>1 DEF StartSimulation
    <3>2. CASE ClickTestsDate
      BY <1>0, <3>2 DEF ClickTestsDate, UGo
    <3>3. CASE ClickLocks
      BY <1>0, <3>3 DEF ClickLocks, UGo
    <3>4. CASE ClickInserts
      BY <1>0, <3>4 DEF ClickInserts, UGo
    <3>5. CASE LoopReturns
      BY <1>0, <3>5 DEF LoopReturns, Quit, UGo
    <3>6. CASE TerminalStart
      BY <1>0, <3>6 DEF TerminalStart
    <3>7. CASE TerminalWait
      BY <1>0, <3>7 DEF TerminalWait, Reads, UGo
    <3>8. CASE TerminalJoined
      BY <1>0, <3>8 DEF TerminalJoined, Joins
    <3>9. CASE Quit
      BY <1>0, <3>9 DEF Quit, UGo
    <3>. QED BY <2>1, <3>1, <3>2, <3>3, <3>4, <3>5, <3>6, <3>7, <3>8, <3>9
  <2>4. CASE Release \/ ReadThread \/ ThreadJoined \/ Destroy
    <3>1. CASE Release
      BY <1>0, <3>1 DEF Release, UGo
    <3>2. CASE ReadThread
      BY <1>0, <3>2 DEF ReadThread, Reads, UGo
    <3>3. CASE ThreadJoined
      BY <1>0, <3>3 DEF ThreadJoined, Joins
    <3>4. CASE Destroy
      BY <1>0, <3>4 DEF Destroy, UGo
    <3>. QED BY <2>4, <3>1, <3>2, <3>3, <3>4
  <2>5. CASE KeyStart \/ KeyStop \/ Click \/ MeldKeyStop
    <3>1. CASE KeyStart
      BY <1>0, <3>1 DEF KeyStart
    <3>2. CASE KeyStop
      BY <1>0, <3>2 DEF KeyStop
    <3>3. CASE Click
      BY <1>0, <3>3 DEF Click
    <3>4. CASE MeldKeyStop
      BY <1>0, <3>4 DEF MeldKeyStop
    <3>. QED BY <2>5, <3>1, <3>2, <3>3, <3>4
  <2>6. ~Stop
    BY <1>0 DEF Stop
  <2>2. CASE TestTerminate \/ InstructToTerminate \/ TestNotStarted
    BY <1>0, <1>1, <2>2 DEF TestTerminate, InstructToTerminate, TestNotStarted, UGo
  <2>3. SchedulerStep \/ MeldSchedulerStep \/ Tick => UNCHANGED u
    BY Frames
  <2>. QED BY Steps, <1>1, <2>1, <2>2, <2>3, <2>4, <2>5, <2>6
           DEF SchedulerStep, MeldSchedulerStep
<1>4. u.pc \in Deleting => obj'.state \in {obj.state, "RUNNING", "ENDED"}
  <2>1. CASE Awake \/ Run \/ Stats \/ Terminate \/ ClearThread \/ SemWait \/ MeldRun \/ Drained
    BY <1>0, <2>1 DEF Awake, Run, Stats, Terminate, ClearThread, SemWait, MeldRun, Drained
  <2>2. CASE TerminalStart \/ Stop \/ InstructToTerminate \/ Release \/ Destroy \/ KeyStart
             \/ KeyStop \/ MeldKeyStop \/ MeldStop
    BY <1>0, <2>2 DEF TerminalStart, Stop, InstructToTerminate, Release, Destroy, KeyStart,
       KeyStop, MeldKeyStop, MeldStop, Stopped, Started
  <2>3. u.pc \in Deleting => ~StartSimulation
    BY DEF StartSimulation
  <2>. QED BY Frames, <2>1, <2>2, <2>3
<1>5. MeldStop => obj'.state = "ENDED" /\ u'.pc = "delete"
  BY <1>0 DEF MeldStop, Stopped, UGo
<1>6. ~cmd.gui => obj'.thread
  <2>1. CASE Awake \/ Run \/ Stats \/ Terminate \/ SemWait \/ MeldRun \/ Drained
    BY <1>0, <1>1, <2>1 DEF Awake, Run, Stats, Terminate, SemWait, MeldRun, Drained
  <2>2. CASE StartSimulation \/ TerminalStart \/ Stop \/ InstructToTerminate \/ Release
             \/ Destroy \/ KeyStart \/ KeyStop
    BY <1>0, <1>1, <2>2 DEF StartSimulation, TerminalStart, Stop, InstructToTerminate, Release,
       Destroy, KeyStart, KeyStop, Started
  <2>3. CASE ~cmd.gui /\ (MeldKeyStop \/ MeldStop)
    BY <1>0, <1>1, <2>3 DEF MeldKeyStop, MeldStop, Stopped
  <2>4. ~ClearThread
    BY <1>1 DEF ClearThread, SGo
  <2>. QED BY Frames, <1>1, <2>1, <2>2, <2>3, <2>4
<1>7. u'.pc \in Deleting => obj'.state \in {"ENDED", "RUNNING"}
  BY <1>1, <1>3, <1>4, <1>5
<1>. QED BY <1>0, <1>2, <1>3, <1>5, <1>6, <1>7

(* The steps that may go wrong.                                            *)
LEMMA CrashFrame ==
  AnyNext => UNCHANGED crashed \/ Test \/ Inner \/ Take \/ EraseTaken \/ ClearThread
             \/ Drain \/ Drained \/ TerminalWait \/ ReadThread \/ Destroy \/ MeldKeyStop
             \/ MeldStop
<1>1. ASSUME Awake \/ CheckState \/ Run \/ Switch \/ Consume \/ HandlerLocks \/ HandlerInserts
             \/ Again \/ Stats \/ Terminate \/ SemWait \/ MeldRun \/ MeldSwitch \/ Turn \/ Tick
      PROVE  UNCHANGED crashed
  BY <1>1 DEF Awake, CheckState, Run, Switch, Consume, HandlerLocks, HandlerInserts, Again,
     Stats, Terminate, SemWait, MeldRun, MeldSwitch, Turn, Tick
<1>2. ASSUME StartSimulation \/ ClickTestsDate \/ ClickLocks \/ ClickInserts \/ LoopReturns
             \/ TerminalStart \/ TerminalJoined \/ Stop \/ TestTerminate \/ InstructToTerminate
             \/ TestNotStarted \/ Release \/ ThreadJoined \/ KeyStart \/ KeyStop \/ Click \/ Quit
      PROVE  UNCHANGED crashed
  BY <1>2 DEF StartSimulation, ClickTestsDate, ClickLocks, ClickInserts, LoopReturns,
     TerminalStart, TerminalJoined, Joins, Stop, TestTerminate, InstructToTerminate,
     TestNotStarted, Release, ThreadJoined, KeyStart, KeyStop, Click, Quit
<1>. QED BY Steps, <1>1, <1>2

(* Without a window the thread of Meld uses nothing that is gone.          *)
LEMMA MeldStep ==
  TypeInv /\ LockInv /\ LoopInv /\ TerminalInv /\ MeldInv /\ AnyNext => MeldInv'
<1>. SUFFICES ASSUME TypeInv, LockInv, LoopInv, TerminalInv, MeldInv, AnyNext,
                     cmd.meld, ~cmd.gui, ~cmd.infinite
              PROVE  ~crashed'
  BY MeldStepControl, ListFrame DEF MeldInv
<1>1. ~crashed /\ obj.thread /\ s.pc # "clear"
  BY DEF MeldInv
<1>2. /\ u.pc \notin WindowPC
      /\ u.pc \notin BeforeEnd => u.joined
  BY DEF TerminalInv
<1>3. lock # "user"
  BY <1>2 DEF LockInv, WindowPC, ClickPC
<1>4. Test \/ Inner \/ Take \/ EraseTaken \/ Drain \/ Drained => ~crashed'
  BY <1>3 DEF Test, Inner, Take, EraseTaken, Drain, Drained, RacesWithInsertion
<1>5. ~ClearThread
  BY <1>1 DEF ClearThread, SGo
<1>6. TerminalWait \/ ReadThread => ~crashed'
  BY <1>1 DEF TerminalWait, ReadThread, Reads
<1>7. Destroy => ~crashed'
  BY <1>2 DEF Destroy, UGo, BeforeEnd
<1>8. MeldKeyStop \/ MeldStop => ~crashed'
  BY DEF MeldKeyStop, MeldStop, Stopped
<1>. QED BY CrashFrame, <1>1, <1>4, <1>5, <1>6, <1>7, <1>8

-----------------------------------------------------------------------------
(* The theorems. *)

(* Every step keeps the invariant.                                         *)
LEMMA AnyStep == AnyInv /\ AnyNext => AnyInv'
<1>. SUFFICES ASSUME AnyInv, AnyNext
              PROVE  AnyInv'
  OBVIOUS
<1>1. TypeInv /\ EventInv /\ LockInv /\ LoopInv /\ TerminalInv /\ UnaskedInv /\ MeldInv
  BY DEF AnyInv, ControlInv
<1>2. TypeInv'
  BY <1>1, ObjStep, MainStepType, SchedulerStepType, ListStepType, ListFrame DEF TypeInv
<1>3. EventInv'
  BY <1>1, EventStep
<1>4. LockInv' /\ LoopInv'
  BY <1>1, LockStep, LoopStep
<1>5. TerminalInv'
  BY <1>1, TerminalStep
<1>6. UnaskedInv'
  BY <1>1, UnaskedStep
<1>7. MeldInv'
  BY <1>1, MeldStep
<1>. QED BY <1>2, <1>3, <1>4, <1>5, <1>6, <1>7 DEF AnyInv, ControlInv

(* What the threads keep true, for every command line: the types, where    *)
(* every event is, who holds the lock, and how far each thread is when the *)
(* other one is somewhere.                                                 *)
THEOREM AnyInvariant == AnySpec => []AnyInv
<1>1. ASSUME AnyInv, UNCHANGED vars
      PROVE  AnyInv'
  <2>. USE <1>1 DEF vars, mapVars, history
  <2>1. TypeInv'
    BY DEF AnyInv, TypeInv, ObjInv, SchedulerInv, MainInv
  <2>2. EventInv'
    BY DEF AnyInv, EventInv, ListInv, TakenInv, ConsumedInv, HeldInv, Held, Accounted
  <2>3. LockInv' /\ LoopInv' /\ TerminalInv'
    BY DEF AnyInv, ControlInv, LockInv, LoopInv, TerminalInv, Empty
  <2>4. UnaskedInv' /\ MeldInv'
    BY DEF AnyInv, ControlInv, UnaskedInv, MeldInv
  <2>. QED BY <2>1, <2>2, <2>3, <2>4 DEF AnyInv, ControlInv
<1>2. AnyInv /\ [AnyNext]_vars => AnyInv'
  BY <1>1, AnyStep
<1>. QED BY AnyInit, <1>2, PTL DEF AnySpec

(* The types, and the mutual exclusion of the insertions into the list.    *)
THEOREM ThreadsTyped == AnySpec => []ThreadsTypeOK
<1>1. ASSUME AnyInv
      PROVE  ThreadsTypeOK
  <2>1. TypeInv /\ ListInv /\ LockInv
    BY <1>1 DEF AnyInv, EventInv, ControlInv
  <2>2. ASSUME NEW d \in Time
        PROVE  ToSet(eventsMap[d]) \subseteq Ev \ fresh
    <3>1. eventsMap[d] \in Seq(Ev)
      BY <2>1 DEF TypeInv
    <3>2. \A i \in DOMAIN eventsMap[d] : eventsMap[d][i] \in Ev /\ Pending(eventsMap, eventsMap[d][i])
      BY <3>1, LenProperties, ElementOfSeq DEF Pending
    <3>3. \A i \in DOMAIN eventsMap[d] : eventsMap[d][i] \notin fresh
      BY <2>1, <3>2 DEF ListInv
    <3>. QED BY <3>2, <3>3 DEF ToSet
  <2>3. s.pc \in PC /\ now \in Time /\ clock \in Time
    BY <2>1 DEF TypeInv, SchedulerInv
  <2>4. lock = (IF s.pc = "insert" THEN "scheduler" ELSE IF u.pc = "insert" THEN "user" ELSE NULL)
    BY <2>1 DEF LockInv
  <2>. QED BY <2>2, <2>3, <2>4 DEF ThreadsTypeOK
<1>. QED BY AnyInvariant, <1>1, PTL

(* No event is consumed twice.                                             *)
THEOREM EachConsumedOnce == AnySpec => []ConsumedOnce
<1>1. AnyInv => ConsumedOnce
  BY DEF AnyInv, EventInv, TakenInv, ConsumedOnce, AtEvent
<1>. QED BY AnyInvariant, <1>1, PTL

(* Without a window the scheduler thread ends with every event consumed    *)
(* that was not too late.                                                  *)
THEOREM NoEventIsLost == AnySpec => []NoEventLost
<1>1. ASSUME AnyInv, ~cmd.gui, s.pc = "done", ~tooLate
      PROVE  consumed = Ev \ fresh
  <2>1. TypeInv /\ ListInv /\ Accounted /\ TerminalInv
    BY <1>1 DEF AnyInv, EventInv, ControlInv
  <2>2. eventsMap \in [Time -> Seq(Ev)] /\ Empty /\ consumed \subseteq Ev
    BY <1>1, <2>1 DEF TypeInv, TerminalInv
  <2>3. \A e : ~Pending(eventsMap, e)
    BY <2>2, EmptyIsNothingPending DEF Empty
  <2>4. \A e \in Ev \ fresh : e \in consumed
    BY <1>1, <2>1, <2>3 DEF Accounted, Created
  <2>. QED BY <2>1, <2>2, <2>4 DEF ListInv
<1>2. AnyInv => NoEventLost
  BY <1>1 DEF NoEventLost
<1>. QED BY AnyInvariant, <1>2, PTL

(* Nothing runs of a simulation that nobody started.                       *)
THEOREM OnlyAskedRuns == AnySpec => []NothingRunsUnasked
<1>1. AnyInv => NothingRunsUnasked
  BY DEF AnyInv, ControlInv, UnaskedInv, NothingRunsUnasked
<1>. QED BY AnyInvariant, <1>1, PTL

(* Without a window a simulation of a Meld program, whose length is not    *)
(* infinite, uses nothing that is gone.                                    *)
THEOREM MeldThreadJoined == AnySpec => []MeldJoins
<1>1. AnyInv => MeldJoins
  BY DEF AnyInv, ControlInv, MeldInv, MeldJoins
<1>. QED BY AnyInvariant, <1>1, PTL

-----------------------------------------------------------------------------
(* Without a user the list begins at currentDate: no event before it, and  *)
(* the event taken the first until it is erased.                           *)
FirstInv ==
  ~cmd.gui =>
    /\ \A c \in Time : c < now => eventsMap[c] = <<>>
    /\ s.pc \in AtEvent =>
         /\ s.pev.date = now
         /\ 1 \in DOMAIN eventsMap[now] /\ eventsMap[now][1] = s.pev.ev
    /\ s.pc \in Created => s.new.date >= now

(* Every step keeps the beginning of the list.                             *)
LEMMA FirstStep == AnyInv /\ FirstInv /\ AnyNext => FirstInv'
<1>. SUFFICES ASSUME AnyInv, FirstInv, AnyNext, ~cmd.gui
              PROVE  FirstInv'
  BY ListFrame DEF FirstInv
<1>0. /\ TypeInv /\ LoopInv /\ TerminalInv /\ TakenInv /\ HeldInv /\ ListInv
      /\ DOMAIN s = {"pc", "pev", "new", "loop", "limit"}
      /\ eventsMap \in [Time -> Seq(Ev)] /\ now \in Time
      /\ cmd' = cmd
  BY ListFrame DEF AnyInv, EventInv, ControlInv, TypeInv, SchedulerInv
<1>1. /\ \A c \in Time : c < now => eventsMap[c] = <<>>
      /\ s.pc \in AtEvent =>
           /\ s.pev.date = now
           /\ 1 \in DOMAIN eventsMap[now] /\ eventsMap[now][1] = s.pev.ev
      /\ s.pc \in Created => s.new.date >= now
  BY DEF FirstInv
<1>2. now' = now \/ Take
  BY ListFrame
<1>3. CASE Quiet /\ now' = now
  BY <1>1, <1>3 DEF FirstInv, Quiet, Created, AtEvent
<1>4. CASE Take
  <2>1. /\ FirstEvent \in [ev : Ev, date : Time]
        /\ IsFirstDate(eventsMap, FirstEvent.date)
        /\ 1 \in DOMAIN eventsMap[FirstEvent.date]
        /\ eventsMap[FirstEvent.date][1] = FirstEvent.ev
    BY <1>0, <1>4, FirstEventIsFirst DEF LoopInv, Take
  <2>2. s'.pc = "consume" /\ s'.pev = FirstEvent /\ now' = FirstEvent.date /\ eventsMap' = eventsMap
    BY <1>0, <1>4 DEF Take
  <2>. QED BY <2>1, <2>2 DEF FirstInv, IsFirstDate, Created
<1>5. CASE Consume
  <2>1. s.pc = "consume" /\ s'.pev = s.pev /\ UNCHANGED <<eventsMap, now>>
    BY <1>0, <1>5 DEF Consume, mapVars
  <2>2. s'.pc \in Created => s'.new.date >= now
    <3>1. CASE s' = [s EXCEPT !.pc = "erase"]
      BY <1>0, <3>1 DEF Created
    <3>2. ASSUME NEW e \in fresh, NEW delay \in Delay,
                 s' = IF Insertable(now + delay)
                      THEN [s EXCEPT !.pc = "lock", !.new = Dated(e, now + delay)]
                      ELSE [s EXCEPT !.pc = "erase"]
          PROVE  s'.pc \in Created => s'.new.date >= now
      <4>1. now \in Nat /\ now + delay \in Nat /\ now + delay >= now
        BY <1>0, ThreadsAssumption DEF Time
      <4>2. CASE Insertable(now + delay)
        <5>1. s'.new = Dated(e, now + delay)
          BY <1>0, <3>2, <4>2
        <5>. QED BY <4>1, <5>1 DEF Dated
      <4>3. CASE ~Insertable(now + delay)
        BY <1>0, <3>2, <4>3 DEF Created
      <4>. QED BY <4>2, <4>3
    <3>. QED BY <1>5, <3>1, <3>2 DEF Consume
  <2>. QED BY <1>1, <2>1, <2>2 DEF FirstInv, AtEvent
<1>6. CASE HandlerInserts
  <2>1. /\ s.pc = "insert" /\ s'.pc = "erase" /\ s'.pev = s.pev
        /\ eventsMap' = Insert(s.new) /\ now' = now
    BY <1>0, <1>6 DEF HandlerInserts, SGo
  <2>2. s.new \in [ev : Ev, date : Time] /\ s.new.date >= now
    BY <1>0, <1>1, <2>1 DEF HeldInv, Held, Created, Event
  <2>3. /\ \A c \in Time : c # s.new.date => eventsMap'[c] = eventsMap[c]
        /\ \A c \in Time : \A i \in DOMAIN eventsMap[c] :
             i \in DOMAIN eventsMap'[c] /\ eventsMap'[c][i] = eventsMap[c][i]
    BY <1>0, <2>1, <2>2, InsertOne
  <2>4. \A c \in Time : c < now => c # s.new.date
    BY <1>0, <2>2 DEF Time
  <2>. QED BY <1>0, <1>1, <2>1, <2>3, <2>4 DEF FirstInv, AtEvent, Created
<1>7. CASE EraseTaken
  <2>1. /\ s.pc = "erase" /\ s'.pc = AfterErase[s.loop] /\ eventsMap' = Erase(s.pev) /\ now' = now
    BY <1>0, <1>7 DEF EraseTaken, SGo
  <2>2. s'.pc \notin AtEvent
    <3>1. s.loop \in {"FASTEST", "REALTIME", "MELD"}
      BY <1>0, <2>1 DEF LoopInv, LoopPC
    <3>2. /\ AfterErase["FASTEST"] = "again" /\ AfterErase["REALTIME"] = "inner"
          /\ AfterErase["MELD"] = "drain"
      BY DEF AfterErase
    <3>. QED BY <2>1, <3>1, <3>2 DEF AtEvent
  <2>3. s.pev \in [ev : Ev, date : Time] /\ s.pev.date = now
    BY <1>0, <1>1, <2>1 DEF TakenInv, AtEvent, Event
  <2>4. \A c \in Time : c # now => eventsMap'[c] = eventsMap[c]
    BY <1>0, <2>1, <2>3 DEF Erase
  <2>5. \A c \in Time : c < now => c # now
    BY <1>0 DEF Time
  <2>. QED BY <1>1, <2>1, <2>2, <2>4, <2>5 DEF FirstInv, AtEvent, Created
<1>8. ~Click /\ ~ClickInserts
  BY <1>0 DEF Click, ClickInserts, UGo, TerminalInv, WindowPC, ClickPC
<1>. QED BY QuietSteps, <1>0, <1>2, <1>3, <1>4, <1>5, <1>6, <1>7, <1>8

(* Without a user the list begins at currentDate.                          *)
LEMMA FirstInvariant == AnySpec => []FirstInv
<1>1. Init => FirstInv
  BY DEF Init, FirstInv, AtEvent, Created, Time
<1>2. FirstInv /\ UNCHANGED vars => FirstInv'
  BY DEF FirstInv, vars, mapVars, history
<1>3. AnyInv /\ FirstInv /\ [AnyNext]_vars => FirstInv'
  BY <1>2, FirstStep
<1>. QED BY AnyInvariant, <1>1, <1>3, PTL DEF AnySpec

(* Whatever a handler schedules, the event it handles is the first of the  *)
(* list until it is erased: the order of the two does not matter.          *)
THEOREM HandledStaysFirst == AnySpec => []StaysFirst
<1>1. ASSUME AnyInv, FirstInv, ~cmd.gui, s.pc \in {"lock", "insert", "erase"}
      PROVE  IsFirstDate(eventsMap, s.pev.date) /\ Head(eventsMap[s.pev.date]) = s.pev.ev
  <2>1. /\ eventsMap \in [Time -> Seq(Ev)] /\ now \in Time
        /\ \A c \in Time : c < now => eventsMap[c] = <<>>
        /\ s.pev.date = now
        /\ 1 \in DOMAIN eventsMap[now] /\ eventsMap[now][1] = s.pev.ev
    BY <1>1 DEF AnyInv, TypeInv, FirstInv, AtEvent
  <2>2. eventsMap[now] # <<>>
    BY <2>1
  <2>. QED BY <2>1, <2>2 DEF IsFirstDate
<1>2. AnyInv /\ FirstInv => StaysFirst
  BY <1>1 DEF StaysFirst
<1>. QED BY AnyInvariant, FirstInvariant, <1>2, PTL

(* Without a user the date never goes back; with one it may.               *)
THEOREM DateAloneNeverGoesBack == AnySpec => [][~cmd.gui => now' >= now]_vars
<1>1. ASSUME AnyInv, FirstInv, AnyNext, ~cmd.gui
      PROVE  now' >= now
  <2>1. now \in Time /\ (now' = now \/ Take)
    BY <1>1, ListFrame DEF AnyInv, TypeInv
  <2>2. CASE Take
    <3>1. IsFirstDate(eventsMap, FirstEvent.date) /\ now' = FirstEvent.date
      BY <1>1, <2>2, FirstEventIsFirst DEF AnyInv, TypeInv, ControlInv, LoopInv, Take
    <3>2. FirstEvent.date \in Time /\ ~(FirstEvent.date < now)
      BY <1>1, <3>1 DEF FirstInv, IsFirstDate
    <3>. QED BY <2>1, <3>1, <3>2 DEF Time
  <2>. QED BY <2>1, <2>2 DEF Time
<1>2. AnyInv /\ FirstInv /\ [AnyNext]_vars => [~cmd.gui => now' >= now]_vars
  BY <1>1
<1>. QED BY AnyInvariant, FirstInvariant, <1>2, PTL DEF AnySpec
=============================================================================
