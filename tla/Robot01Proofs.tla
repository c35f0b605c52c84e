--------------------------- MODULE Robot01Proofs ---------------------------
(***************************************************************************)
(* The flood of the map of the target over the robot blocks, with its      *)
(* acknowledgements, while the first blocks it has reached already form    *)
(* trains: as long as no train has left, every block waits for as many     *)
(* answers as it is owed (EchoIsExact).                                    *)
(*                                                                         *)
(* A handler does something to the flood, then possibly something for the  *)
(* trains, which is quiet: it leaves the fields of the flood and sends     *)
(* noise behind what was sent.  So whatever is received is a reply of the  *)
(* flood: it takes a message, sends maps on M and an acknowledgement on A, *)
(* and gains or answers a parent (Replies), and what a block is owed is    *)
(* counted from these.  The invariant adds that noise comes behind the map *)
(* (so a block without the map forms no train), that parents have the map, *)
(* and that no blocks wait for each other in a circle.                     *)
(***************************************************************************)
EXTENDS Robot01, FiniteSetTheorems, SequenceTheorems, TLAPS

-----------------------------------------------------------------------------
FieldNames ==
  {"id", "targetGrid", "block2Answer", "nbreOfWaitedAnswers", "blockToUnlock", "gain", "goal", "motions",
   "motionVector", "nextMotionVector", "trainNext", "trainPrevious", "out", "depart", "fails"}

Record(m) == m = [x \in FieldNames |-> m[x]]
Sequence(q) == q \in Seq({q[k] : k \in DOMAIN q})
Echo(msg) == msg.type \in {"MAP", "ACKMAP"}
Noise(msg) ==
  msg.type \in {"TRAIN", "ACKTRAIN", "MOTIONDELAY", "ANSWERDELAY", "UNLOCK", "RELINKTRAIN"}

(* A block that has the map, and one that has not finished with it: it     *)
(* waits to be reached, or for answers to pass on.                         *)
HasMap(b) == block[b].targetGrid # <<>>
Parent(c) == block[c].block2Answer
Unready(b) == ~HasMap(b) \/ Parent(b) # NoItf

(* The interfaces of neighbors that a block keeps are linked with its own. *)
TiedTo(b, i) == i = NoItf \/ (i \in Interface /\ Peer(i) # NoItf /\ Peer(i)[1] = b)
Tied(m) == TiedTo(m.id, m.trainNext) /\ TiedTo(m.id, m.trainPrevious)

(* Blocks and queues.                                                      *)
BlocksOk ==
  /\ block = [b \in Robot |-> block[b]]
  /\ \A b \in Robot :
       /\ Record(block[b]) /\ block[b].id = b /\ block[b].fails = FALSE /\ Tied(block[b])
       /\ block[b].nbreOfWaitedAnswers \in Nat
       /\ block[b].targetGrid = <<>> \/ DOMAIN block[b].targetGrid # {}
       /\ ~HasMap(b) => Parent(b) = NoItf /\ block[b].nbreOfWaitedAnswers = 0
       /\ Unready(b) => block[b].trainNext = NoItf /\ block[b].motions = <<>>

QueuesOk ==
  /\ queue = [i \in Interface |-> queue[i]]
  /\ \A i \in Interface :
       /\ Sequence(queue[i])
       /\ Peer(i) = NoItf => queue[i] = <<>>
       /\ \A k \in DOMAIN queue[i] :
            /\ Echo(queue[i][k]) \/ Noise(queue[i][k])
            /\ queue[i][k].type = "MAP" => DOMAIN queue[i][k].grid # {}

(* A parent has the map, and its link is still there.                      *)
ParentsOk ==
  \A c \in Robot : Parent(c) # NoItf =>
    /\ Parent(c) \in {c} \X Face /\ Peer(Parent(c)) # NoItf
    /\ HasMap(Peer(Parent(c))[1])

(* What is sent to a block without the map comes behind the map, which is  *)
(* on its way from every neighbor that has it.                             *)
MapsAhead ==
  \A i \in Interface : (Peer(i) # NoItf /\ ~HasMap(Peer(i)[1])) =>
    /\ \A k \in DOMAIN queue[i] : Noise(queue[i][k]) =>
         \E j \in DOMAIN queue[i] : j < k /\ queue[i][j].type = "MAP"
    /\ HasMap(i[1]) => \E k \in DOMAIN queue[i] : queue[i][k].type = "MAP"

WaitsAreOwed == \A b \in Robot : block[b].nbreOfWaitedAnswers = Owed(b)

(* No blocks wait for each other in a circle.                              *)
NoCircle ==
  \A part \in (SUBSET Robot) \ {{}} :
    \E c \in part : Parent(c) = NoItf \/ Peer(Parent(c))[1] \notin part

Waiting ==
  /\ moving = {} /\ ends = {} /\ (\E s \in Start : place = s.cells) /\ \E b \in Robot : HasMap(b)
  /\ BlocksOk /\ QueuesOk /\ ParentsOk /\ MapsAhead /\ WaitsAreOwed /\ NoCircle

EchoInv == trains \in Nat /\ (trains = 0 => robotCrashed \in BOOLEAN) /\ (trains = 0 /\ ~robotCrashed => Waiting)

-----------------------------------------------------------------------------
(* Handlers.  What a handler does to its block and sends, apart from what  *)
(* belongs to the flood.                                                   *)
Handler(m) ==
  /\ Record(m) /\ m.id \in Robot /\ m.fails \in BOOLEAN
  /\ m.out = [i \in Interface |-> m.out[i]]
  /\ \A i \in Interface : Sequence(m.out[i])

Behind(q, r) ==
  /\ Len(q) <= Len(r)
  /\ \A k \in 1..Len(q) : r[k] = q[k]
  /\ \A k \in (Len(q) + 1)..Len(r) : Noise(r[k])

Quiet(m, n) ==
  /\ Handler(n)
  /\ n.id = m.id /\ n.targetGrid = m.targetGrid /\ n.block2Answer = m.block2Answer
  /\ n.nbreOfWaitedAnswers = m.nbreOfWaitedAnswers
  /\ \A i \in Interface : Behind(m.out[i], n.out[i]) /\ (Peer(i) = NoItf => n.out[i] = m.out[i])
  /\ n.fails = FALSE => m.fails = FALSE
  /\ n.fails = FALSE /\ Tied(m) =>
       Tied(n) /\ \A i \in Interface : n.out[i] # m.out[i] => i[1] = m.id \/ Peer(i)[1] = m.id

(* An interface on which a block may send: its own, or one linked with it. *)
Near(i, b) == i \in Interface /\ Peer(i) # NoItf => i[1] = b \/ Peer(i)[1] = b

Mutual == \A i \in Interface : Peer(i) # NoItf => Peer(i) \in Interface /\ Peer(Peer(i)) = i

(* A sequence and one more message.                                        *)
LEMMA Sequences ==
  ASSUME NEW q, Sequence(q)
  PROVE  /\ Len(q) \in Nat /\ DOMAIN q = 1..Len(q)
         /\ \A x : /\ Sequence(Append(q, x)) /\ Len(Append(q, x)) = Len(q) + 1
                   /\ \A k \in 1..Len(q) : Append(q, x)[k] = q[k]
                   /\ Append(q, x)[Len(q) + 1] = x
<1>. DEFINE S == {q[k] : k \in DOMAIN q}
<1>1. q \in Seq(S)
  BY DEF Sequence
<1>2. Len(q) \in Nat /\ DOMAIN q = 1..Len(q)
  BY <1>1
<1>3. ASSUME NEW x
      PROVE  /\ Sequence(Append(q, x)) /\ Len(Append(q, x)) = Len(q) + 1
             /\ \A k \in 1..Len(q) : Append(q, x)[k] = q[k]
             /\ Append(q, x)[Len(q) + 1] = x
  <2>. DEFINE T == S \cup {x}
              r == Append(q, x)
  <2>1. q \in Seq(T) /\ x \in T
    BY <1>1, <1>2
  <2>2. r \in Seq(T) /\ Len(r) = Len(q) + 1 /\ \A k \in 1..Len(q) : r[k] = q[k]
    BY <2>1, AppendProperties
  <2>3. r[Len(q) + 1] = x
    BY <2>1, AppendProperties
  <2>4. r \in Seq({r[k] : k \in DOMAIN r})
    <3>. HIDE DEF r, T
    <3>1. Len(r) \in Nat /\ r \in [1..Len(r) -> {r[k] : k \in DOMAIN r}]
      BY <2>2
    <3>. QED BY <3>1
  <2>. QED BY <2>2, <2>3, <2>4 DEF Sequence
<1>. QED BY <1>2, <1>3

(* A sequence that is not empty begins. *)
LEMMA HeadIsFirst ==
  ASSUME NEW q, Sequence(q), q # <<>>
  PROVE  1 \in DOMAIN q /\ q[1] = Head(q) /\ \A k \in DOMAIN q : ~(k < 1)
<1>1. q \in Seq({q[k] : k \in DOMAIN q})
  BY DEF Sequence
<1>2. Len(q) \in Nat /\ DOMAIN q = 1..Len(q) /\ Len(q) # 0
  BY <1>1
<1>3. q[1] = Head(q)
  BY <1>1
<1>4. 1 \in 1..Len(q) /\ \A k \in 1..Len(q) : ~(k < 1)
  BY <1>2
<1>. QED BY <1>2, <1>3, <1>4

(* Quiet steps follow each other.                                          *)
LEMMA QuietIsTransitive ==
  ASSUME NEW m, NEW n, NEW o, Handler(m), Quiet(m, n), Quiet(n, o)
  PROVE  Quiet(m, o)
<1>1. ASSUME NEW i \in Interface
      PROVE  Behind(m.out[i], o.out[i])
  <2>1. Behind(m.out[i], n.out[i]) /\ Behind(n.out[i], o.out[i])
    BY DEF Quiet
  <2>2. Len(m.out[i]) \in Nat /\ Len(n.out[i]) \in Nat /\ Len(o.out[i]) \in Nat
    BY Sequences DEF Quiet, Handler
  <2>. QED BY <2>1, <2>2 DEF Behind
<1>2. /\ Handler(o) /\ o.id = m.id /\ o.targetGrid = m.targetGrid /\ o.block2Answer = m.block2Answer
      /\ o.nbreOfWaitedAnswers = m.nbreOfWaitedAnswers
      /\ o.fails = FALSE => n.fails = FALSE /\ m.fails = FALSE
      /\ \A i \in Interface : Peer(i) = NoItf => o.out[i] = m.out[i]
  BY DEF Quiet
<1>3. ASSUME o.fails = FALSE, Tied(m)
      PROVE  Tied(o) /\ \A i \in Interface : o.out[i] # m.out[i] => i[1] = m.id \/ Peer(i)[1] = m.id
  BY <1>2, <1>3 DEF Quiet
<1>. QED BY <1>1, <1>2, <1>3 DEF Quiet

(* A handler that sets other fields.                                       *)
LEMMA QuietFields ==
  ASSUME NEW m, NEW n, Handler(m), Record(n), n.id = m.id, n.targetGrid = m.targetGrid,
         n.block2Answer = m.block2Answer, n.nbreOfWaitedAnswers = m.nbreOfWaitedAnswers, n.out = m.out,
         n.fails \in BOOLEAN, n.fails = FALSE => m.fails = FALSE,
         n.fails = FALSE /\ Tied(m) => Tied(n)
  PROVE  Quiet(m, n)
<1>1. \A i \in Interface : Behind(m.out[i], m.out[i])
  BY Sequences DEF Handler, Behind
<1>. QED BY <1>1 DEF Quiet, Handler

(* A message that is sent, or cannot be.                                   *)
Sends(m, n, i, msg) ==
  /\ Handler(n)
  /\ n.id = m.id /\ n.targetGrid = m.targetGrid /\ n.block2Answer = m.block2Answer
  /\ n.nbreOfWaitedAnswers = m.nbreOfWaitedAnswers
  /\ n.trainNext = m.trainNext /\ n.trainPrevious = m.trainPrevious /\ n.motions = m.motions
  /\ n.fails = FALSE => m.fails = FALSE /\ i # NoItf /\ Peer(i) # NoItf
  /\ \A j \in Interface :
       n.out[j] = IF j = i /\ i # NoItf /\ Peer(i) # NoItf THEN Append(m.out[j], msg) ELSE m.out[j]

(* What sendMessage does to the handler that calls it.                    *)
LEMMA SendOnSends ==
  ASSUME NEW m, Handler(m), NEW i, NEW msg
  PROVE  Sends(m, SendOn(m, i, msg), i, msg)
<1>. DEFINE n == SendOn(m, i, msg)
<1>1. CASE i = NoItf \/ Peer(i) = NoItf
  <2>1. n = [m EXCEPT !.fails = TRUE]
    BY <1>1 DEF SendOn, Fails
  <2>2. Record(n) /\ n.fails = TRUE /\ \A x \in FieldNames \ {"fails"} : n[x] = m[x]
    BY <2>1 DEF Handler, Record, FieldNames
  <2>. QED BY <1>1, <2>2 DEF FieldNames, Handler, Sends
<1>2. CASE i # NoItf /\ Peer(i) # NoItf
  <2>1. n = [m EXCEPT !.out = [m.out EXCEPT ![i] = Append(m.out[i], msg)]]
    BY <1>2 DEF SendOn
  <2>2. Record(n) /\ \A x \in FieldNames \ {"out"} : n[x] = m[x]
    BY <2>1 DEF Handler, Record, FieldNames
  <2>3. n.out = [m.out EXCEPT ![i] = Append(m.out[i], msg)]
    BY <2>1 DEF Handler, Record, FieldNames
  <2>4. \A j \in Interface : n.out[j] = IF j = i THEN Append(m.out[j], msg) ELSE m.out[j]
    BY <2>3 DEF Handler
  <2>5. n.out = [j \in Interface |-> n.out[j]]
    BY <2>3 DEF Handler
  <2>6. \A j \in Interface : Sequence(n.out[j])
    BY <2>4, Sequences DEF Handler
  <2>. QED BY <1>2, <2>2, <2>4, <2>5, <2>6 DEF FieldNames, Handler, Sends
<1>. QED BY <1>1, <1>2

(* What is sent is noise unless it is of the flood.                        *)
LEMMA SendOnIsQuiet ==
  ASSUME NEW m, Handler(m), NEW i, NEW msg, Noise(msg), Tied(m) => Near(i, m.id)
  PROVE  Quiet(m, SendOn(m, i, msg))
<1>. DEFINE n == SendOn(m, i, msg)
<1>1. Sends(m, n, i, msg)
  BY SendOnSends
<1>. HIDE DEF n
<1>2. ASSUME NEW j \in Interface
      PROVE  /\ Behind(m.out[j], n.out[j]) /\ (Peer(j) = NoItf => n.out[j] = m.out[j])
             /\ n.out[j] # m.out[j] => j = i /\ Peer(i) # NoItf
  <2>1. Sequence(m.out[j])
    BY DEF Handler
  <2>2. n.out[j] = IF j = i /\ i # NoItf /\ Peer(i) # NoItf THEN Append(m.out[j], msg) ELSE m.out[j]
    BY <1>1 DEF Sends
  <2>3. CASE n.out[j] = m.out[j]
    BY <2>1, <2>3, Sequences DEF Behind
  <2>4. CASE j = i /\ n.out[j] = Append(m.out[j], msg) /\ Peer(i) # NoItf
    BY <2>1, <2>4, Sequences DEF Behind
  <2>. QED BY <2>2, <2>3, <2>4
<1>3. /\ Handler(n) /\ n.id = m.id /\ n.targetGrid = m.targetGrid /\ n.block2Answer = m.block2Answer
      /\ n.nbreOfWaitedAnswers = m.nbreOfWaitedAnswers
      /\ n.trainNext = m.trainNext /\ n.trainPrevious = m.trainPrevious
      /\ n.fails = FALSE => m.fails = FALSE
  BY <1>1 DEF Sends
<1>4. Tied(m) => Tied(n) /\ \A j \in Interface : n.out[j] # m.out[j] => j[1] = m.id \/ Peer(j)[1] = m.id
  BY <1>2, <1>3 DEF Tied, Near
<1>5. Quiet(m, n)
  BY <1>2, <1>3, <1>4 DEF Quiet
<1>. QED BY <1>5 DEF n

-----------------------------------------------------------------------------
(* The handlers of trains are quiet.  A neighbor that a block keeps in its *)
(* train stays linked with it, unless the handler has failed.              *)
Ties(n, i) == n.fails = FALSE /\ Tied(n) => TiedTo(n.id, i)

(* The fields that trains use are not those of the flood.                 *)
LEMMA TrainFieldsAreQuiet ==
  ASSUME NEW m, NEW n, Handler(m), Quiet(m, n)
  PROVE  /\ \A u, v : Ties(n, u) /\ Ties(n, v) => Quiet(m, [n EXCEPT !.trainNext = u, !.trainPrevious = v])
         /\ \A u : Ties(n, u) => Quiet(m, [n EXCEPT !.trainNext = u])
         /\ \A u : Ties(n, u) => Quiet(m, [n EXCEPT !.trainPrevious = u])
         /\ \A u, v : Quiet(m, [n EXCEPT !.motionVector = u, !.nextMotionVector = v])
         /\ \A u : Quiet(m, [n EXCEPT !.motions = u])
         /\ \A u : Quiet(m, [n EXCEPT !.trainPrevious = NoItf, !.motions = u])
         /\ \A u, v, w : Ties(n, w) => Quiet(m, [n EXCEPT !.gain = u, !.goal = v, !.trainPrevious = w])
         /\ \A u : Quiet(m, [n EXCEPT !.blockToUnlock = u])
         /\ \A u : Quiet(m, [n EXCEPT !.blockToUnlock = u, !.trainNext = NoItf])
         /\ \A u : Quiet(m, [n EXCEPT !.depart = u])
         /\ Quiet(m, [n EXCEPT !.fails = TRUE])
<1>. DEFINE Same(o) == /\ Record(o) /\ o.id = n.id /\ o.targetGrid = n.targetGrid
                       /\ o.block2Answer = n.block2Answer
                       /\ o.nbreOfWaitedAnswers = n.nbreOfWaitedAnswers /\ o.out = n.out
            Sound(o) == o.fails = TRUE \/ (o.fails = n.fails /\ (n.fails = FALSE /\ Tied(n) => Tied(o)))
<1>1. Handler(n)
  BY DEF Quiet
<1>2. ASSUME NEW o, Same(o), Sound(o)
      PROVE  Quiet(m, o)
  <2>1. /\ o.fails \in BOOLEAN /\ (o.fails = FALSE => n.fails = FALSE)
        /\ (o.fails = FALSE /\ Tied(n) => Tied(o))
    BY <1>1, <1>2 DEF Handler
  <2>2. Quiet(n, o)
    BY <1>1, <1>2, <2>1, QuietFields
  <2>. QED BY <2>2, QuietIsTransitive
<1>3. Record(n)
  BY <1>1 DEF Handler
<1>. HIDE DEF Same, Sound
<1>4. ASSUME NEW u, NEW v, Ties(n, u), Ties(n, v)
      PROVE  Quiet(m, [n EXCEPT !.trainNext = u, !.trainPrevious = v])
  <2>. DEFINE o == [n EXCEPT !.trainNext = u, !.trainPrevious = v]
  <2>1. /\ Same(o) /\ o.fails = n.fails /\ o.id = n.id /\ o.trainNext = u /\ o.trainPrevious = v
    BY <1>3 DEF Same, Record, FieldNames
  <2>. HIDE DEF o
  <2>2. Sound(o)
    BY <1>4, <2>1 DEF Sound, Ties, Tied
  <2>3. Quiet(m, o)
    BY <1>2, <2>1, <2>2
  <2>. QED BY <2>3 DEF o
<1>5. ASSUME NEW u, Ties(n, u)
      PROVE  Quiet(m, [n EXCEPT !.trainNext = u])
  <2>. DEFINE o == [n EXCEPT !.trainNext = u]
  <2>1. /\ Same(o) /\ o.fails = n.fails /\ o.id = n.id
        /\ o.trainNext = u /\ o.trainPrevious = n.trainPrevious
    BY <1>3 DEF Same, Record, FieldNames
  <2>. HIDE DEF o
  <2>2. Sound(o)
    BY <1>5, <2>1 DEF Sound, Ties, Tied
  <2>3. Quiet(m, o)
    BY <1>2, <2>1, <2>2
  <2>. QED BY <2>3 DEF o
<1>6. ASSUME NEW u, Ties(n, u)
      PROVE  Quiet(m, [n EXCEPT !.trainPrevious = u])
  <2>. DEFINE o == [n EXCEPT !.trainPrevious = u]
  <2>1. /\ Same(o) /\ o.fails = n.fails /\ o.id = n.id
        /\ o.trainNext = n.trainNext /\ o.trainPrevious = u
    BY <1>3 DEF Same, Record, FieldNames
  <2>. HIDE DEF o
  <2>2. Sound(o)
    BY <1>6, <2>1 DEF Sound, Ties, Tied
  <2>3. Quiet(m, o)
    BY <1>2, <2>1, <2>2
  <2>. QED BY <2>3 DEF o
<1>7. ASSUME NEW o, Same(o), o.fails = n.fails, o.trainNext = n.trainNext,
             o.trainPrevious \in {n.trainPrevious, NoItf}
      PROVE  Quiet(m, o)
  <2>1. o.id = n.id
    BY <1>7 DEF Same
  <2>2. Sound(o)
    BY <1>7, <2>1 DEF Sound, Tied, TiedTo
  <2>. QED BY <1>2, <1>7, <2>2
<1>8. ASSUME NEW o, Same(o), o.fails = n.fails, o.trainNext \in {n.trainNext, NoItf},
             o.trainPrevious = n.trainPrevious
      PROVE  Quiet(m, o)
  <2>1. o.id = n.id
    BY <1>8 DEF Same
  <2>2. Sound(o)
    BY <1>8, <2>1 DEF Sound, Tied, TiedTo
  <2>. QED BY <1>2, <1>8, <2>2
<1>9. ASSUME NEW u, NEW v
      PROVE  Quiet(m, [n EXCEPT !.motionVector = u, !.nextMotionVector = v])
  <2>. DEFINE o == [n EXCEPT !.motionVector = u, !.nextMotionVector = v]
  <2>1. /\ Same(o) /\ o.fails = n.fails /\ o.trainNext = n.trainNext /\ o.trainPrevious = n.trainPrevious
    BY <1>3 DEF Same, Record, FieldNames
  <2>. HIDE DEF o
  <2>2. Quiet(m, o)
    BY <1>7, <2>1
  <2>. QED BY <2>2 DEF o
<1>10. ASSUME NEW u
       PROVE  Quiet(m, [n EXCEPT !.motions = u])
  <2>. DEFINE o == [n EXCEPT !.motions = u]
  <2>1. /\ Same(o) /\ o.fails = n.fails /\ o.trainNext = n.trainNext /\ o.trainPrevious = n.trainPrevious
    BY <1>3 DEF Same, Record, FieldNames
  <2>. HIDE DEF o
  <2>2. Quiet(m, o)
    BY <1>7, <2>1
  <2>. QED BY <2>2 DEF o
<1>11. ASSUME NEW u
       PROVE  Quiet(m, [n EXCEPT !.trainPrevious = NoItf, !.motions = u])
  <2>. DEFINE o == [n EXCEPT !.trainPrevious = NoItf, !.motions = u]
  <2>1. /\ Same(o) /\ o.fails = n.fails /\ o.trainNext = n.trainNext /\ o.trainPrevious = NoItf
    BY <1>3 DEF Same, Record, FieldNames
  <2>. HIDE DEF o
  <2>2. Quiet(m, o)
    BY <1>7, <2>1
  <2>. QED BY <2>2 DEF o
<1>12. ASSUME NEW u, NEW v, NEW w, Ties(n, w)
       PROVE  Quiet(m, [n EXCEPT !.gain = u, !.goal = v, !.trainPrevious = w])
  <2>. DEFINE o == [n EXCEPT !.gain = u, !.goal = v, !.trainPrevious = w]
  <2>1. /\ Same(o) /\ o.fails = n.fails /\ o.id = n.id
        /\ o.trainNext = n.trainNext /\ o.trainPrevious = w
    BY <1>3 DEF Same, Record, FieldNames
  <2>. HIDE DEF o
  <2>2. Sound(o)
    BY <1>12, <2>1 DEF Sound, Ties, Tied
  <2>3. Quiet(m, o)
    BY <1>2, <2>1, <2>2
  <2>. QED BY <2>3 DEF o
<1>13. ASSUME NEW u
       PROVE  Quiet(m, [n EXCEPT !.blockToUnlock = u])
  <2>. DEFINE o == [n EXCEPT !.blockToUnlock = u]
  <2>1. /\ Same(o) /\ o.fails = n.fails /\ o.trainNext = n.trainNext /\ o.trainPrevious = n.trainPrevious
    BY <1>3 DEF Same, Record, FieldNames
  <2>. HIDE DEF o
  <2>2. Quiet(m, o)
    BY <1>7, <2>1
  <2>. QED BY <2>2 DEF o
<1>14. ASSUME NEW u
       PROVE  Quiet(m, [n EXCEPT !.blockToUnlock = u, !.trainNext = NoItf])
  <2>. DEFINE o == [n EXCEPT !.blockToUnlock = u, !.trainNext = NoItf]
  <2>1. /\ Same(o) /\ o.fails = n.fails /\ o.trainNext = NoItf /\ o.trainPrevious = n.trainPrevious
    BY <1>3 DEF Same, Record, FieldNames
  <2>. HIDE DEF o
  <2>2. Quiet(m, o)
    BY <1>8, <2>1
  <2>. QED BY <2>2 DEF o
<1>15. ASSUME NEW u
       PROVE  Quiet(m, [n EXCEPT !.depart = u])
  <2>. DEFINE o == [n EXCEPT !.depart = u]
  <2>1. /\ Same(o) /\ o.fails = n.fails /\ o.trainNext = n.trainNext /\ o.trainPrevious = n.trainPrevious
    BY <1>3 DEF Same, Record, FieldNames
  <2>. HIDE DEF o
  <2>2. Quiet(m, o)
    BY <1>7, <2>1
  <2>. QED BY <2>2 DEF o
<1>16. Quiet(m, [n EXCEPT !.fails = TRUE])
  <2>. DEFINE o == [n EXCEPT !.fails = TRUE]
  <2>1. Same(o) /\ o.fails = TRUE
    BY <1>3 DEF Same, Record, FieldNames
  <2>. HIDE DEF o
  <2>2. Quiet(m, o)
    BY <1>2, <2>1 DEF Sound
  <2>. QED BY <2>2 DEF o
<1>. QED BY <1>4, <1>5, <1>6, <1>9, <1>10, <1>11, <1>12, <1>13, <1>14, <1>15, <1>16

(* A handler that does nothing. *)
LEMMA IdleIsQuiet ==
  ASSUME NEW m, Handler(m)
  PROVE  Quiet(m, m)
BY QuietFields DEF Handler

(* No neighbor is kept, or the one a message could be sent to.             *)
LEMMA NoNeighborTies ==
  ASSUME NEW n
  PROVE  Ties(n, NoItf)
BY DEF Ties, TiedTo

(* A neighbor that a message could be sent to is linked with the block.   *)
LEMMA SentTies ==
  ASSUME NoItf \notin Interface, Mutual, NEW m, Handler(m), NEW p, NEW msg
  PROVE  /\ Near(Link(m, p), m.id)
         /\ Ties(SendOn(m, Link(m, p), msg), Peer(Link(m, p)))
<1>. DEFINE i == Link(m, p)
            n == SendOn(m, i, msg)
<1>1. i = NoItf \/ (i \in Interface /\ i[1] = m.id)
  BY DEF Link, Own, Interface, Face, Handler
<1>2. Sends(m, n, i, msg)
  BY SendOnSends
<1>. HIDE DEF i, n
<1>3. ASSUME n.fails = FALSE
      PROVE  TiedTo(n.id, Peer(i))
  <2>1. i # NoItf /\ Peer(i) # NoItf /\ n.id = m.id
    BY <1>2, <1>3 DEF Sends
  <2>2. i \in Interface /\ i[1] = m.id
    BY <1>1, <2>1
  <2>3. Peer(i) \in Interface /\ Peer(Peer(i)) = i
    BY <2>1, <2>2 DEF Mutual
  <2>. QED BY <2>1, <2>2, <2>3 DEF TiedTo
<1>4. Near(i, m.id)
  BY <1>1 DEF Near
<1>. QED BY <1>3, <1>4 DEF Ties, i, n

(* The end of a train answers, the others ask on.                          *)
LEMMA AnswerTrainIsQuiet ==
  ASSUME NoItf \notin Interface, Mutual, NEW m, Handler(m), NEW capa
  PROVE  Quiet(m, AnswerTrain(m, capa))
<1>. DEFINE i == Link(m, capa.linkPrev)
            msg == [type |-> "ACKTRAIN", answer |-> m.gain > 0]
            sent == SendOn(m, i, msg)
            v == IF m.gain > 0 THEN Peer(i) ELSE NoItf
<1>1. Noise(msg)
  BY DEF Noise
<1>. HIDE DEF msg
<1>2. Near(i, m.id) /\ Ties(sent, Peer(i))
  BY SentTies
<1>3. Quiet(m, sent) /\ Quiet(m, Fails(m))
  BY <1>1, <1>2, SendOnIsQuiet, TrainFieldsAreQuiet, IdleIsQuiet DEF Fails
<1>4. Ties(sent, NoItf) /\ Ties(sent, v)
  BY <1>2, NoNeighborTies
<1>5. AnswerTrain(m, capa) = Fails(m)
      \/ AnswerTrain(m, capa) = [sent EXCEPT !.trainNext = NoItf, !.trainPrevious = v]
  BY DEF AnswerTrain, msg
<1>. HIDE DEF sent, v
<1>6. Quiet(m, [sent EXCEPT !.trainNext = NoItf, !.trainPrevious = v])
  BY <1>3, <1>4, TrainFieldsAreQuiet
<1>. QED BY <1>3, <1>5, <1>6

(* The next block of a train is asked.                                    *)
LEMMA AskNextIsQuiet ==
  ASSUME NoItf \notin Interface, Mutual, NEW m, Handler(m), NEW capa, NEW sender
  PROVE  Quiet(m, AskNext(m, capa, sender))
<1>. DEFINE i == Link(m, capa.linkNext)
            msg == IF sender = NoItf
                   THEN [type |-> "TRAIN", pos |-> Sum(place[m.id], m.motionVector), gain |-> 1]
                   ELSE [type |-> "TRAIN", pos |-> m.goal, gain |-> m.gain + 2 * Last(m.motions).gain]
            sent == SendOn(m, i, msg)
<1>1. Noise(msg)
  BY DEF Noise
<1>. HIDE DEF msg
<1>2. Near(i, m.id) /\ Ties(sent, Peer(i))
  BY SentTies
<1>3. Quiet(m, sent)
  BY <1>1, <1>2, SendOnIsQuiet
<1>4. AskNext(m, capa, sender) = [sent EXCEPT !.trainNext = Peer(i)]
  BY DEF AskNext, msg
<1>. HIDE DEF sent
<1>5. Quiet(m, [sent EXCEPT !.trainNext = Peer(i)])
  BY <1>2, <1>3, TrainFieldsAreQuiet
<1>. QED BY <1>4, <1>5

(* A block links its train, whichever rule it has.                        *)
LEMMA SendLinkTrainMessagesIsQuiet ==
  ASSUME NoItf \notin Interface, Mutual, NEW m, Handler(m), NEW sender, Tied(m) => Near(sender, m.id)
  PROVE  Quiet(m, SendLinkTrainMessages(m, sender))
<1>. DEFINE capa == Last(m.motions).capa
            moved == [m EXCEPT !.motionVector = MotionVectorAt(capa, 0, 1),
                               !.nextMotionVector = MotionVector(capa, 1)]
            no == [type |-> "ACKTRAIN", answer |-> FALSE]
            refused == SendOn(m, sender, no)
<1>1. Quiet(m, m)
  BY IdleIsQuiet
<1>2. \A u, v : Quiet(m, [m EXCEPT !.motionVector = u, !.nextMotionVector = v])
  BY <1>1, TrainFieldsAreQuiet
<1>3. Quiet(m, moved) /\ Handler(moved)
  <2>1. Quiet(m, moved)
    BY <1>2
  <2>. QED BY <2>1 DEF Quiet
<1>. HIDE DEF moved
<1>4. Quiet(m, AnswerTrain(moved, capa)) /\ Quiet(m, AskNext(moved, capa, sender))
  BY <1>3, AnswerTrainIsQuiet, AskNextIsQuiet, QuietIsTransitive
<1>5. Noise(no)
  BY DEF Noise
<1>. HIDE DEF no
<1>6. Quiet(m, refused)
  BY <1>5, SendOnIsQuiet
<1>7. Quiet(m, [refused EXCEPT !.trainNext = NoItf, !.trainPrevious = NoItf])
  BY <1>6, TrainFieldsAreQuiet, NoNeighborTies
<1>8. SendLinkTrainMessages(m, sender) \in
        {AnswerTrain(moved, capa), AskNext(moved, capa, sender),
         [refused EXCEPT !.trainNext = NoItf, !.trainPrevious = NoItf], m}
  BY DEF SendLinkTrainMessages, moved, no
<1>. QED BY <1>1, <1>4, <1>7, <1>8

(* A block looks for its motions, and may become a head.                  *)
LEMMA CalcPossibleMotionsIsQuiet ==
  ASSUME NoItf \notin Interface, Mutual, NEW m, Handler(m), NEW goal
  PROVE  Quiet(m, CalcPossibleMotions(m, goal))
<1>. DEFINE pm == GetPresenceMatrix(m.id)
            locked == IF goal = NoPoint THEN pm ELSE WithCell(pm, "locked", goal, place[m.id])
            found == [m EXCEPT !.motions = ValidateMulti(Caps, locked, GetLocalTargetGrid(m))]
<1>1. Quiet(m, m)
  BY IdleIsQuiet
<1>2. \A u : Quiet(m, [m EXCEPT !.motions = u])
  BY <1>1, TrainFieldsAreQuiet
<1>3. Quiet(m, found) /\ Handler(found)
  <2>1. Quiet(m, found)
    BY <1>2
  <2>. QED BY <2>1 DEF Quiet
<1>4. CalcPossibleMotions(m, goal) \in {found, SendLinkTrainMessages(found, NoItf)}
  BY DEF CalcPossibleMotions
<1>. HIDE DEF found
<1>5. Near(NoItf, found.id)
  BY DEF Near
<1>6. Quiet(found, SendLinkTrainMessages(found, NoItf))
  BY <1>3, <1>5, SendLinkTrainMessagesIsQuiet
<1>. QED BY <1>3, <1>4, <1>6, QuietIsTransitive

(* The dates are passed on.                                                *)
LEMMA SendBackIsQuiet ==
  ASSUME Mutual, NEW m, Handler(m), NEW i, NEW msg, Noise(msg), Tied(m) => TiedTo(m.id, i)
  PROVE  Quiet(m, SendBack(m, i, msg))
<1>1. CASE i = NoItf
  BY <1>1, TrainFieldsAreQuiet, IdleIsQuiet DEF SendBack, Fails
<1>2. CASE i # NoItf
  <2>1. Tied(m) => Near(Peer(i), m.id)
    BY <1>2 DEF TiedTo, Near
  <2>. QED BY <1>2, <2>1, SendOnIsQuiet DEF SendBack
<1>. QED BY <1>1, <1>2

(* The order to move is passed on or the date sent back.                  *)
LEMMA SendAnswerDelayOrMotionDelayIsQuiet ==
  ASSUME Mutual, NEW m, Handler(m)
  PROVE  Quiet(m, SendAnswerDelayOrMotionDelay(m))
<1>. DEFINE answer == [type |-> "ANSWERDELAY", date |-> m.id]
            order == [type |-> "MOTIONDELAY", unlock |-> FALSE]
            told == IF m.trainPrevious = NoItf THEN m ELSE SendBack(m, m.trainPrevious, answer)
            gone == Departs(told, m.id)
<1>1. Noise(answer) /\ Noise(order)
  BY DEF Noise
<1>. HIDE DEF answer, order
<1>2. Quiet(m, m) /\ Quiet(m, told)
  BY <1>1, IdleIsQuiet, SendBackIsQuiet DEF Tied
<1>. HIDE DEF told
<1>3. Quiet(m, gone)
  BY <1>2, TrainFieldsAreQuiet DEF Departs
<1>. HIDE DEF gone
<1>4. \A u : /\ Quiet(m, [gone EXCEPT !.blockToUnlock = u])
             /\ Quiet(m, [gone EXCEPT !.blockToUnlock = u, !.trainNext = NoItf])
  BY <1>3, TrainFieldsAreQuiet
<1>5. Quiet(m, SendBack(m, m.trainNext, order))
  BY <1>1, SendBackIsQuiet DEF Tied
<1>6. Quiet(m, [SendBack(m, m.trainNext, order) EXCEPT !.blockToUnlock = NoItf])
  BY <1>5, TrainFieldsAreQuiet
<1>7. \/ SendAnswerDelayOrMotionDelay(m) = [gone EXCEPT !.blockToUnlock = NoItf]
      \/ SendAnswerDelayOrMotionDelay(m)
           = [gone EXCEPT !.blockToUnlock = m.trainNext[1], !.trainNext = NoItf]
      \/ SendAnswerDelayOrMotionDelay(m) = m
      \/ SendAnswerDelayOrMotionDelay(m)
           = [SendBack(m, m.trainNext, order) EXCEPT !.blockToUnlock = NoItf]
  BY DEF SendAnswerDelayOrMotionDelay, gone, told, answer, order
<1>8. CASE SendAnswerDelayOrMotionDelay(m) = [gone EXCEPT !.blockToUnlock = NoItf]
  BY <1>4, <1>8
<1>9. CASE SendAnswerDelayOrMotionDelay(m)
             = [gone EXCEPT !.blockToUnlock = m.trainNext[1], !.trainNext = NoItf]
  <2>1. Quiet(m, [gone EXCEPT !.blockToUnlock = m.trainNext[1], !.trainNext = NoItf])
    BY <1>4
  <2>. QED BY <1>9, <2>1
<1>. QED BY <1>2, <1>6, <1>7, <1>8, <1>9

-----------------------------------------------------------------------------
(* A block that is not ready has no motions and no next block in a train,  *)
(* and what it is sent of a train does not give it any.                    *)
Still(m, n) == Handler(n) /\ n.motions = m.motions /\ n.trainNext \in {m.trainNext, NoItf}

(* Handlers that leave the motions and get no next block.                 *)
LEMMA StillFields ==
  ASSUME NEW m, NEW n, Handler(m), Still(m, n)
  PROVE  /\ Still(m, [n EXCEPT !.fails = TRUE])
         /\ \A u : Still(m, [n EXCEPT !.trainPrevious = u])
         /\ \A u : Still(m, [n EXCEPT !.depart = u])
         /\ \A u : Still(m, [n EXCEPT !.blockToUnlock = u])
         /\ \A u : Still(m, [n EXCEPT !.blockToUnlock = u, !.trainNext = NoItf])
         /\ \A u, v, w : Still(m, [n EXCEPT !.gain = u, !.goal = v, !.trainPrevious = w])
         /\ \A i, msg : Still(m, SendOn(n, i, msg)) /\ Still(m, SendBack(n, i, msg))
<1>1. Record(n) /\ Handler(n)
  BY DEF Still, Handler
<1>2. ASSUME NEW o, Record(o), o.id = n.id, o.out = n.out, o.motions = n.motions,
             o.fails \in {n.fails, TRUE}, o.trainNext \in {n.trainNext, NoItf}
      PROVE  Still(m, o)
  BY <1>2 DEF Still, Handler
<1>. DEFINE Same(o) == /\ Record(o) /\ o.id = n.id /\ o.out = n.out /\ o.motions = n.motions
                       /\ o.fails \in {n.fails, TRUE}
                       /\ o.trainNext \in {n.trainNext, NoItf}
<1>3. \A o : Same(o) => Still(m, o)
  BY <1>2
<1>. HIDE DEF Same
<1>4. Same([n EXCEPT !.fails = TRUE])
  BY <1>1 DEF Same, Record, FieldNames
<1>5. \A u : Same([n EXCEPT !.trainPrevious = u])
  BY <1>1 DEF Same, Record, FieldNames
<1>6. \A u : Same([n EXCEPT !.depart = u])
  BY <1>1 DEF Same, Record, FieldNames
<1>7. \A u : Same([n EXCEPT !.blockToUnlock = u])
  BY <1>1 DEF Same, Record, FieldNames
<1>8. ASSUME NEW u PROVE Same([n EXCEPT !.blockToUnlock = u, !.trainNext = NoItf])
  BY <1>1 DEF Same, Record, FieldNames
<1>9. ASSUME NEW u, NEW v, NEW w PROVE Same([n EXCEPT !.gain = u, !.goal = v, !.trainPrevious = w])
  BY <1>1 DEF Same, Record, FieldNames
<1>10. \A i, msg : Still(m, SendOn(n, i, msg))
  <2>. SUFFICES ASSUME NEW i, NEW msg PROVE Still(m, SendOn(n, i, msg))
    OBVIOUS
  <2>. DEFINE o == SendOn(n, i, msg)
  <2>1. Sends(n, o, i, msg)
    BY <1>1, SendOnSends
  <2>. HIDE DEF o
  <2>2. Still(m, o)
    BY <2>1 DEF Sends, Still
  <2>. QED BY <2>2 DEF o
<1>11. \A i, msg : Still(m, SendBack(n, i, msg))
  BY <1>3, <1>4, <1>10 DEF SendBack, Fails
<1>. QED BY <1>3, <1>4, <1>5, <1>6, <1>7, <1>8, <1>9, <1>10, <1>11

(* The order to move does not bring a next block.                         *)
LEMMA SendAnswerDelayOrMotionDelayIsStill ==
  ASSUME NEW m, NEW o, Handler(m), Still(m, o)
  PROVE  Still(m, SendAnswerDelayOrMotionDelay(o))
<1>. DEFINE answer == [type |-> "ANSWERDELAY", date |-> o.id]
            order == [type |-> "MOTIONDELAY", unlock |-> FALSE]
            told == IF o.trainPrevious = NoItf THEN o ELSE SendBack(o, o.trainPrevious, answer)
            gone == Departs(told, o.id)
<1>1. Still(m, told)
  BY StillFields
<1>. HIDE DEF told
<1>2. Still(m, gone)
  BY <1>1, StillFields DEF Departs
<1>. HIDE DEF gone
<1>3. Still(m, [gone EXCEPT !.blockToUnlock = NoItf])
  BY <1>2, StillFields
<1>4. Still(m, [gone EXCEPT !.blockToUnlock = o.trainNext[1], !.trainNext = NoItf])
  BY <1>2, StillFields
<1>5. Still(m, SendBack(o, o.trainNext, order))
  BY StillFields
<1>6. Still(m, [SendBack(o, o.trainNext, order) EXCEPT !.blockToUnlock = NoItf])
  BY <1>5, StillFields
<1>7. \/ SendAnswerDelayOrMotionDelay(o) = [gone EXCEPT !.blockToUnlock = NoItf]
      \/ SendAnswerDelayOrMotionDelay(o)
           = [gone EXCEPT !.blockToUnlock = o.trainNext[1], !.trainNext = NoItf]
      \/ SendAnswerDelayOrMotionDelay(o) = o
      \/ SendAnswerDelayOrMotionDelay(o)
           = [SendBack(o, o.trainNext, order) EXCEPT !.blockToUnlock = NoItf]
  BY DEF SendAnswerDelayOrMotionDelay, gone, told
<1>8. CASE SendAnswerDelayOrMotionDelay(o)
             = [gone EXCEPT !.blockToUnlock = o.trainNext[1], !.trainNext = NoItf]
  BY <1>4, <1>8
<1>. QED BY <1>3, <1>6, <1>7, <1>8

-----------------------------------------------------------------------------
(* What a block with the map does with a message of a train.               *)
LEMMA OnTrainIsQuiet ==
  ASSUME NoItf \notin Interface, Mutual, NEW m, Handler(m), NEW msg, NEW from, NEW on,
         TiedTo(m.id, from), Near(on, m.id)
  PROVE  /\ Quiet(m, OnTrain(m, msg, from, on))
         /\ m.block2Answer # NoItf => Still(m, OnTrain(m, msg, from, on))
<1>. DEFINE asked == [m EXCEPT !.gain = @ + msg.gain, !.goal = msg.pos, !.trainPrevious = from]
            found == CalcPossibleMotions(asked, msg.pos)
<1>1. Quiet(m, m) /\ Still(m, m)
  BY IdleIsQuiet DEF Still
<1>2. Quiet(m, [m EXCEPT !.gain = m.gain + msg.gain, !.goal = msg.pos, !.trainPrevious = from])
  BY <1>1, TrainFieldsAreQuiet DEF Ties
<1>3. Still(m, [m EXCEPT !.gain = m.gain + msg.gain, !.goal = msg.pos, !.trainPrevious = from])
  BY <1>1, StillFields
<1>4. asked = [m EXCEPT !.gain = m.gain + msg.gain, !.goal = msg.pos, !.trainPrevious = from]
  OBVIOUS
<1>5. asked.block2Answer = m.block2Answer
  BY DEF Handler, Record, FieldNames
<1>6. OnTrain(m, msg, from, on) =
        IF m.block2Answer # NoItf THEN asked ELSE SendLinkTrainMessages(found, on)
  BY DEF OnTrain
<1>. HIDE DEF asked
<1>7. Quiet(m, asked) /\ Handler(asked) /\ Still(m, asked)
  BY <1>2, <1>3, <1>4 DEF Quiet
<1>8. Quiet(asked, found)
  BY <1>7, CalcPossibleMotionsIsQuiet
<1>9. Handler(found)
  BY <1>8 DEF Quiet
<1>. HIDE DEF found
<1>10. found.id = m.id
  BY <1>7, <1>8 DEF Quiet
<1>11. Quiet(m, SendLinkTrainMessages(found, on))
  BY <1>7, <1>8, <1>9, <1>10, SendLinkTrainMessagesIsQuiet, QuietIsTransitive
<1>. QED BY <1>6, <1>7, <1>11

(* The answer of a train.                                                 *)
LEMMA OnAckTrainIsQuiet ==
  ASSUME NoItf \notin Interface, Mutual, NEW m, Handler(m), NEW msg
  PROVE  /\ m.block2Answer = NoItf => Quiet(m, OnAckTrain(m, msg))
         /\ m.trainNext = NoItf /\ m.motions = <<>> =>
              Quiet(m, OnAckTrain(m, msg)) /\ Still(m, OnAckTrain(m, msg))
<1>. DEFINE next == [m EXCEPT !.trainPrevious = NoItf, !.motions = SubSeq(@, 1, Len(@) - 1)]
            yes == [type |-> "ACKTRAIN", answer |-> TRUE]
            free == [m EXCEPT !.block2Answer = NoItf]
<1>1. Quiet(m, m) /\ Still(m, m)
  BY IdleIsQuiet DEF Still
<1>2. Noise(yes)
  BY DEF Noise
<1>. HIDE DEF yes
<1>3. Quiet(m, SendBack(m, m.trainPrevious, yes)) /\ Still(m, SendBack(m, m.trainPrevious, yes))
  BY <1>1, <1>2, SendBackIsQuiet, StillFields DEF Tied
<1>4. Quiet(m, Fails(m)) /\ Still(m, Fails(m))
  BY <1>1, TrainFieldsAreQuiet, StillFields DEF Fails
<1>5. Quiet(m, [m EXCEPT !.trainPrevious = NoItf]) /\ Still(m, [m EXCEPT !.trainPrevious = NoItf])
  BY <1>1, TrainFieldsAreQuiet, NoNeighborTies, StillFields
<1>6. Quiet(m, next) /\ Handler(next)
  <2>1. \A u : Quiet(m, [m EXCEPT !.trainPrevious = NoItf, !.motions = u])
    BY <1>1, TrainFieldsAreQuiet
  <2>2. next = [m EXCEPT !.trainPrevious = NoItf, !.motions = SubSeq(m.motions, 1, Len(m.motions) - 1)]
    OBVIOUS
  <2>. HIDE DEF next
  <2>3. Quiet(m, [m EXCEPT !.trainPrevious = NoItf, !.motions = SubSeq(m.motions, 1, Len(m.motions) - 1)])
    BY <2>1
  <2>4. Quiet(m, next)
    BY <2>2, <2>3
  <2>. QED BY <2>4 DEF Quiet
<1>7. Quiet(m, SendLinkTrainMessages(next, m.trainNext))
  <2>1. next.id = m.id /\ next.trainNext = m.trainNext
    BY DEF Handler, Record, FieldNames
  <2>. HIDE DEF next
  <2>2. Tied(next) => Near(m.trainNext, m.id)
    BY <2>1 DEF Tied, TiedTo, Near
  <2>. QED BY <1>6, <2>1, <2>2, SendLinkTrainMessagesIsQuiet, QuietIsTransitive
<1>8. m.block2Answer = NoItf => Quiet(m, SendAnswerDelayOrMotionDelay(free))
  <2>. HAVE m.block2Answer = NoItf
  <2>1. free = m
    BY DEF Handler, Record, FieldNames
  <2>. QED BY <2>1, SendAnswerDelayOrMotionDelayIsQuiet
<1>9. OnAckTrain(m, msg) =
        IF msg.answer /\ m.trainPrevious # NoItf THEN SendBack(m, m.trainPrevious, yes)
        ELSE IF msg.answer /\ m.trainNext = NoItf THEN Fails(m)
        ELSE IF msg.answer THEN SendAnswerDelayOrMotionDelay(free)
        ELSE IF m.motions = <<>> THEN [m EXCEPT !.trainPrevious = NoItf]
        ELSE IF next.motions = <<>> THEN next ELSE SendLinkTrainMessages(next, m.trainNext)
  BY DEF OnAckTrain, yes
<1>. HIDE DEF next, free
<1>. QED BY <1>3, <1>4, <1>5, <1>6, <1>7, <1>8, <1>9

(* The order to move.                                                     *)
LEMMA OnMotionDelayIsQuiet ==
  ASSUME Mutual, NEW m, Handler(m), NEW msg
  PROVE  Quiet(m, OnMotionDelay(m, msg)) /\ Still(m, OnMotionDelay(m, msg))
<1>. DEFINE o == IF msg.unlock THEN [m EXCEPT !.trainPrevious = NoItf] ELSE m
<1>1. Quiet(m, m) /\ Still(m, m)
  BY IdleIsQuiet DEF Still
<1>2. Quiet(m, o) /\ Still(m, o)
  BY <1>1, TrainFieldsAreQuiet, NoNeighborTies, StillFields
<1>3. OnMotionDelay(m, msg) = SendAnswerDelayOrMotionDelay(o)
  BY DEF OnMotionDelay
<1>. HIDE DEF o
<1>4. Handler(o)
  BY <1>2 DEF Quiet
<1>. QED BY <1>2, <1>3, <1>4, SendAnswerDelayOrMotionDelayIsQuiet, QuietIsTransitive,
            SendAnswerDelayOrMotionDelayIsStill

(* The date of the departure.                                             *)
LEMMA OnAnswerDelayIsQuiet ==
  ASSUME Mutual, NEW m, Handler(m), NEW msg, Noise(msg)
  PROVE  Quiet(m, OnAnswerDelay(m, msg)) /\ Still(m, OnAnswerDelay(m, msg))
<1>. DEFINE left == Departs(m, msg.date)
            gone == [left EXCEPT !.blockToUnlock = NoItf]
<1>1. Quiet(m, m) /\ Still(m, m)
  BY IdleIsQuiet DEF Still
<1>2. Quiet(m, left) /\ Still(m, left)
  BY <1>1, TrainFieldsAreQuiet, StillFields DEF Departs
<1>. HIDE DEF left
<1>3. Quiet(m, gone) /\ Still(m, gone)
  BY <1>2, TrainFieldsAreQuiet, StillFields
<1>4. OnAnswerDelay(m, msg) = IF m.trainPrevious = NoItf THEN gone ELSE SendBack(gone, m.trainPrevious, msg)
  BY DEF OnAnswerDelay, left
<1>5. gone.trainPrevious = m.trainPrevious /\ gone.id = m.id
  BY DEF left, Departs, Handler, Record, FieldNames
<1>. HIDE DEF gone
<1>6. Handler(gone)
  BY <1>3 DEF Quiet
<1>7. Tied(gone) => TiedTo(gone.id, m.trainPrevious)
  BY <1>5 DEF Tied
<1>8. Quiet(m, SendBack(gone, m.trainPrevious, msg))
  BY <1>3, <1>6, <1>7, SendBackIsQuiet, QuietIsTransitive
<1>9. Still(m, SendBack(gone, m.trainPrevious, msg))
  BY <1>3, StillFields
<1>. QED BY <1>3, <1>4, <1>8, <1>9

(* The order to move for a block that was locked.                         *)
LEMMA OnUnlockIsQuiet ==
  ASSUME NEW m, Handler(m), NEW msg
  PROVE  Quiet(m, OnUnlock(m, msg)) /\ Still(m, OnUnlock(m, msg))
<1>. DEFINE order == [type |-> "MOTIONDELAY", unlock |-> TRUE]
<1>1. Quiet(m, m) /\ Still(m, m)
  BY IdleIsQuiet DEF Still
<1>2. Noise(order)
  BY DEF Noise
<1>. HIDE DEF order
<1>3. \A i \in Open(m) : Quiet(m, SendOn(m, i, order)) /\ Still(m, SendOn(m, i, order))
  BY <1>1, <1>2, SendOnIsQuiet, StillFields DEF Open, Near
<1>4. OnUnlock(m, msg) = m \/ \E i \in Open(m) : OnUnlock(m, msg) = SendOn(m, i, order)
  BY DEF OnUnlock, order
<1>. QED BY <1>1, <1>3, <1>4

(* A block with the map that receives a message of a train.                *)
LEMMA NoiseIsQuiet ==
  ASSUME NoItf \notin Interface, Mutual, NEW m, Handler(m), NEW msg, Noise(msg),
         NEW from, NEW on, NEW rest, TiedTo(m.id, from), Near(on, m.id),
         m.block2Answer # NoItf => m.trainNext = NoItf /\ m.motions = <<>>
  PROVE  LET n == Handled(m, msg, from, on, rest)
         IN  /\ Quiet(m, n)
             /\ m.block2Answer # NoItf => n.trainNext = NoItf /\ n.motions = <<>>
<1>. DEFINE n == Handled(m, msg, from, on, rest)
<1>1. Quiet(m, n) /\ (m.block2Answer # NoItf => Still(m, n))
  <2>1. CASE msg.type = "TRAIN"
    BY <2>1, OnTrainIsQuiet DEF Handled
  <2>2. CASE msg.type = "ACKTRAIN"
    BY <2>2, OnAckTrainIsQuiet DEF Handled
  <2>3. CASE msg.type = "MOTIONDELAY"
    BY <2>3, OnMotionDelayIsQuiet DEF Handled
  <2>4. CASE msg.type = "ANSWERDELAY"
    BY <2>4, OnAnswerDelayIsQuiet DEF Handled
  <2>5. CASE msg.type = "UNLOCK"
    BY <2>5, OnUnlockIsQuiet DEF Handled
  <2>6. CASE msg.type = "RELINKTRAIN"
    <3>1. /\ msg.type # "MAP" /\ msg.type # "ACKMAP" /\ msg.type # "TRAIN" /\ msg.type # "ACKTRAIN"
          /\ msg.type # "MOTIONDELAY" /\ msg.type # "ANSWERDELAY" /\ msg.type # "UNLOCK"
      BY <2>6
    <3>2. n = m
      BY <2>6, <3>1, Zenon DEF Handled
    <3>. QED BY <3>2, IdleIsQuiet DEF Still
  <2>. QED BY <2>1, <2>2, <2>3, <2>4, <2>5, <2>6 DEF Noise
<1>. QED BY <1>1 DEF Still

-----------------------------------------------------------------------------
(* An interface that faces one block is linked with it.                    *)
LEMMA PeerThere ==
  ASSUME NEW i, NEW c, i[1] \notin moving,
         {b \in Robot \ moving : place[b] = NeighborCell[place[i[1]]][i[2]]} = {c}
  PROVE  Peer(i) = <<c, CHOOSE f \in Face : NeighborCell[place[c]][f] = place[i[1]]>>
<1>1. (CHOOSE b \in {c} : TRUE) = c /\ {c} # {}
  OBVIOUS
<1>. QED BY <1>1 DEF Peer

(* Before the blocks move, links are mutual, and lead from any of the      *)
(* blocks to the others.                                                   *)
LEMMA LinksAreMutual ==
  ASSUME RobotAssumption, moving = {}, NEW s \in Start, place = s.cells
  PROVE  /\ \A i \in Interface : Peer(i) # NoItf => Peer(i) \in Interface /\ Peer(Peer(i)) = i
         /\ \A part \in (SUBSET Robot) \ {{}, Robot} :
              \E i \in Interface : i[1] \in part /\ Peer(i) # NoItf /\ Peer(i)[1] \in Robot \ part
<1>1. /\ \A b \in Robot : place[b] \in DOMAIN NeighborCell
      /\ \A b, c \in Robot : place[b] = place[c] => b = c
  BY DEF RobotAssumption
<1>2. ASSUME NEW b \in Robot, NEW f \in Face, NEW c \in Robot, NeighborCell[place[b]][f] = place[c]
      PROVE  /\ Peer(<<b, f>>) = <<c, CHOOSE g \in Face : NeighborCell[place[c]][g] = place[b]>>
             /\ (CHOOSE g \in Face : NeighborCell[place[c]][g] = place[b]) \in Face
             /\ NeighborCell[place[c]][CHOOSE g \in Face : NeighborCell[place[c]][g] = place[b]] = place[b]
             /\ (CHOOSE g \in Face : NeighborCell[place[b]][g] = place[c]) = f
  <2>. DEFINE there == {x \in Robot \ moving : place[x] = NeighborCell[place[b]][f]}
  <2>1. there = {c}
    BY <1>1, <1>2
  <2>2. (CHOOSE x \in there : TRUE) = c /\ there # {}
    BY <2>1
  <2>3. \E g \in Face : NeighborCell[place[c]][g] = place[b]
    BY <1>1, <1>2 DEF RobotAssumption, NextTo
  <2>4. \A g \in Face : NeighborCell[place[b]][g] = place[c] => g = f
    <3>1. place[b] \in DOMAIN NeighborCell /\ NeighborCell[place[b]][f] \in DOMAIN NeighborCell
      BY <1>1, <1>2
    <3>2. \A g \in Face : NeighborCell[place[b]][g] = NeighborCell[place[b]][f] => g = f
      BY <3>1 DEF RobotAssumption
    <3>. QED BY <1>2, <3>2
  <2>5. Peer(<<b, f>>) = <<c, CHOOSE g \in Face : NeighborCell[place[c]][g] = place[b]>>
    <3>1. <<b, f>>[1] = b /\ <<b, f>>[2] = f
      OBVIOUS
    <3>2. <<b, f>>[1] \notin moving
            /\ {x \in Robot \ moving : place[x] = NeighborCell[place[<<b, f>>[1]]][<<b, f>>[2]]} = {c}
      BY <2>1, <3>1
    <3>3. Peer(<<b, f>>) = <<c, CHOOSE g \in Face : NeighborCell[place[c]][g] = place[<<b, f>>[1]]>>
      BY <3>2, PeerThere
    <3>. QED BY <3>1, <3>3
  <2>. QED BY <1>2, <2>3, <2>4, <2>5
<1>3. ASSUME NEW b \in Robot, NEW f \in Face, Peer(<<b, f>>) # NoItf
      PROVE  Peer(<<b, f>>) \in Interface /\ Peer(Peer(<<b, f>>)) = <<b, f>>
  <2>1. PICK c \in Robot : NeighborCell[place[b]][f] = place[c]
    BY <1>3 DEF Peer
  <2>. DEFINE g == CHOOSE g \in Face : NeighborCell[place[c]][g] = place[b]
  <2>a. Peer(<<b, f>>) = <<c, g>>
    BY <1>2, <2>1
  <2>b. g \in Face
    BY <1>2, <2>1
  <2>2. Peer(<<b, f>>) = <<c, g>> /\ g \in Face /\ NeighborCell[place[c]][g] = place[b]
    BY <1>2, <2>1, <2>a, <2>b
  <2>3. (CHOOSE h \in Face : NeighborCell[place[b]][h] = place[c]) = f
    BY <1>2, <2>1
  <2>. HIDE DEF g
  <2>4. Peer(<<c, g>>) = <<b, CHOOSE h \in Face : NeighborCell[place[b]][h] = place[c]>>
    BY <1>2, <2>2
  <2>5. Peer(Peer(<<b, f>>)) = <<b, f>>
    BY <2>2, <2>3, <2>4
  <2>. QED BY <2>2, <2>5 DEF Interface
<1>4. ASSUME NEW part \in (SUBSET Robot) \ {{}, Robot}
      PROVE  \E i \in Interface : i[1] \in part /\ Peer(i) # NoItf /\ Peer(i)[1] \in Robot \ part
  <2>1. PICK b \in part, c \in Robot \ part : NextTo(place[b], place[c])
    BY DEF RobotAssumption
  <2>2. PICK f \in Face : NeighborCell[place[b]][f] = place[c]
    BY <2>1 DEF NextTo
  <2>. DEFINE g == CHOOSE g \in Face : NeighborCell[place[c]][g] = place[b]
  <2>3. Peer(<<b, f>>) = <<c, g>> /\ g \in Face
    <3>1. b \in Robot /\ c \in Robot
      OBVIOUS
    <3>2. Peer(<<b, f>>) = <<c, g>>
      BY <1>2, <2>2, <3>1
    <3>3. (CHOOSE h \in Face : NeighborCell[place[c]][h] = place[b]) \in Face
      BY <1>2, <2>2, <3>1
    <3>. QED BY <3>2, <3>3
  <2>. HIDE DEF g
  <2>4. Peer(<<b, f>>) \in Interface
    BY <2>3 DEF Interface
  <2>5. Peer(<<b, f>>) # NoItf
    BY <2>4 DEF RobotAssumption
  <2>6. <<b, f>> \in Interface
    BY DEF Interface
  <2>. QED BY <2>1, <2>3, <2>5, <2>6
<1>. QED BY <1>3, <1>4 DEF Interface

-----------------------------------------------------------------------------
(* Counting messages.  The places of the messages of a type in the queues  *)
(* of some interfaces.                                                     *)
Tokens(q, type, on) ==
  UNION {{i} \X {k \in DOMAIN q[i] : q[i][k].type = type} : i \in on}

(* The messages of a type, by the interface and the place in its queue.   *)
LEMMA TokensAre ==
  ASSUME NEW q, NEW type, NEW on
  PROVE  /\ \A t \in Tokens(q, type, on) :
              \E i \in on : \E k \in DOMAIN q[i] : t = <<i, k>> /\ q[i][k].type = type
         /\ \A i, k : <<i, k>> \in Tokens(q, type, on)
                       <=> i \in on /\ k \in DOMAIN q[i] /\ q[i][k].type = type
BY DEF Tokens

(* There are finitely many messages.                                      *)
LEMMA TokensAreFinite ==
  ASSUME NEW q, NEW type, NEW on, IsFiniteSet(on), \A i \in on : Sequence(q[i])
  PROVE  IsFiniteSet(Tokens(q, type, on)) /\ Cardinality(Tokens(q, type, on)) \in Nat
<1>. DEFINE Part(i) == {i} \X {k \in DOMAIN q[i] : q[i][k].type = type}
            parts == {Part(i) : i \in on}
<1>1. IsFiniteSet(parts)
  <2>1. [i \in on |-> Part(i)] \in Surjection(on, parts)
    BY DEF Surjection
  <2>. HIDE DEF parts, Part
  <2>. QED BY <2>1, FS_Surjection
<1>2. ASSUME NEW i \in on
      PROVE  IsFiniteSet(Part(i))
  <2>. DEFINE K == {k \in DOMAIN q[i] : q[i][k].type = type}
  <2>1. Len(q[i]) \in Nat /\ DOMAIN q[i] = 1..Len(q[i])
    BY Sequences
  <2>2. IsFiniteSet(1..Len(q[i]))
    <3>1. \A m, n \in Int : IsFiniteSet(m..n)
      BY FS_Interval
    <3>. QED BY <2>1, <3>1
  <2>3. K \in SUBSET (1..Len(q[i]))
    BY <2>1
  <2>. HIDE DEF K
  <2>4. IsFiniteSet(K)
    BY <2>2, <2>3, FS_Subset
  <2>5. IsFiniteSet({i})
    BY FS_Singleton
  <2>6. IsFiniteSet({i} \X K)
    BY <2>4, <2>5, FS_Product
  <2>. QED BY <2>6 DEF K
<1>3. \A p \in parts : IsFiniteSet(p)
  BY <1>2
<1>4. Tokens(q, type, on) = UNION parts
  BY DEF Tokens
<1>. HIDE DEF parts, Part
<1>5. IsFiniteSet(UNION parts)
  BY <1>1, <1>3, FS_UNION
<1>. QED BY <1>4, <1>5, FS_CardinalityType

(* The first message of a queue is taken. *)
LEMMA TokensTaken ==
  ASSUME NEW q, NEW r, NEW type, NEW on, IsFiniteSet(on), \A i \in on : Sequence(q[i]),
         NEW h, Sequence(q[h]), q[h] # <<>>,
         \A i \in on : r[i] = IF i = h THEN Tail(q[h]) ELSE q[i]
  PROVE  Cardinality(Tokens(r, type, on)) =
           Cardinality(Tokens(q, type, on)) - (IF h \in on /\ Head(q[h]).type = type THEN 1 ELSE 0)
<1>. DEFINE T == Tokens(q, type, on)
            U == T \ {<<h, 1>>}
            V == Tokens(r, type, on)
            g == [t \in U |-> IF t[1] = h THEN <<h, t[2] - 1>> ELSE t]
            n == Len(q[h])
<1>1. /\ n \in Nat /\ DOMAIN q[h] = 1..n /\ n > 0
      /\ DOMAIN Tail(q[h]) = 1..(n - 1) /\ Head(q[h]) = q[h][1]
      /\ \A k \in 1..(n - 1) : Tail(q[h])[k] = q[h][k + 1]
  BY DEF Sequence
<1>2. IsFiniteSet(T) /\ Cardinality(T) \in Nat
  BY TokensAreFinite
<1>. HIDE DEF n
<1>3. <<h, 1>> \in T <=> h \in on /\ Head(q[h]).type = type
  BY <1>1, TokensAre
<1>4. IsFiniteSet(U) /\ Cardinality(U) = IF <<h, 1>> \in T THEN Cardinality(T) - 1 ELSE Cardinality(T)
  <2>. HIDE DEF T
  <2>. QED BY <1>2, FS_RemoveElement
<1>5. ASSUME h \in on, NEW k \in Nat
      PROVE  <<h, k + 1>> \in U <=> <<h, k>> \in V
  <2>1. r[h] = Tail(q[h])
    BY <1>5
  <2>a. DOMAIN r[h] = 1..(n - 1)
    BY <1>1, <2>1
  <2>b. k \in 1..(n - 1) => r[h][k] = q[h][k + 1]
    BY <1>1, <2>1
  <2>2. <<h, k>> \in V <=> k \in 1..(n - 1) /\ q[h][k + 1].type = type
    <3>1. <<h, k>> \in V <=> h \in on /\ k \in DOMAIN r[h] /\ r[h][k].type = type
      BY TokensAre
    <3>. QED BY <1>5, <2>a, <2>b, <3>1
  <2>3. <<h, k + 1>> \in T <=> k + 1 \in 1..n /\ q[h][k + 1].type = type
    BY <1>1, <1>5, TokensAre
  <2>4. <<h, k + 1>> = <<h, 1>> <=> k = 0
    OBVIOUS
  <2>5. k \in 1..(n - 1) <=> k + 1 \in 1..n /\ k # 0
    BY <1>1
  <2>. HIDE DEF T, V
  <2>. QED BY <2>2, <2>3, <2>4, <2>5
<1>6. ASSUME NEW i, i # h, NEW k
      PROVE  <<i, k>> \in U <=> <<i, k>> \in V
  <2>1. <<i, k>> # <<h, 1>>
    BY <1>6
  <2>2. i \in on => r[i] = q[i]
    BY <1>6
  <2>. QED BY <2>1, <2>2, TokensAre
<1>7. ASSUME NEW t \in U
      PROVE  \/ \E k \in Nat : h \in on /\ t = <<h, k + 1>> /\ g[t] = <<h, k>>
             \/ \E i, k : i # h /\ t = <<i, k>> /\ g[t] = t
  <2>1. PICK i \in on : \E k \in DOMAIN q[i] : t = <<i, k>>
    BY TokensAre
  <2>2. PICK k \in DOMAIN q[i] : t = <<i, k>>
    BY <2>1
  <2>3. CASE i = h
    <3>1. k - 1 \in Nat /\ (k - 1) + 1 = k
      BY <1>1, <2>3
    <3>2. g[t] = <<h, k - 1>>
      BY <2>2, <2>3
    <3>3. t = <<h, (k - 1) + 1>>
      BY <2>2, <2>3, <3>1
    <3>. QED BY <2>3, <3>1, <3>2, <3>3
  <2>4. CASE i # h
    BY <2>2, <2>4
  <2>. QED BY <2>3, <2>4
<1>8. ASSUME NEW v \in V
      PROVE  \/ \E k \in Nat : h \in on /\ v = <<h, k>>
             \/ \E i, k : i # h /\ v = <<i, k>>
  <2>1. PICK i \in on : \E k \in DOMAIN r[i] : v = <<i, k>>
    BY TokensAre
  <2>2. PICK k \in DOMAIN r[i] : v = <<i, k>>
    BY <2>1
  <2>3. i = h => k \in Nat
    <3>1. i = h => DOMAIN r[i] = 1..(n - 1)
      BY <1>1
    <3>. QED BY <1>1, <3>1
  <2>. QED BY <2>2, <2>3
<1>9. g \in [U -> V]
  <2>. SUFFICES ASSUME NEW t \in U PROVE g[t] \in V
    OBVIOUS
  <2>. HIDE DEF g, U, V
  <2>. QED BY <1>5, <1>6, <1>7
<1>10. ASSUME NEW t \in U, NEW u \in U, g[t] = g[u]
       PROVE  t = u
  <2>. HIDE DEF g, U
  <2>1. CASE \E k \in Nat : h \in on /\ t = <<h, k + 1>> /\ g[t] = <<h, k>>
    BY <1>7, <1>10, <2>1
  <2>2. CASE \E i, k : i # h /\ t = <<i, k>> /\ g[t] = t
    BY <1>7, <1>10, <2>2
  <2>. QED BY <1>7, <2>1, <2>2
<1>11. ASSUME NEW v \in V
       PROVE  \E t \in U : g[t] = v
  <2>1. CASE \E k \in Nat : h \in on /\ v = <<h, k>>
    <3>1. PICK k \in Nat : h \in on /\ v = <<h, k>>
      BY <2>1
    <3>2. <<h, k + 1>> \in U
      BY <1>5, <3>1
    <3>3. g[<<h, k + 1>>] = <<h, (k + 1) - 1>> /\ (k + 1) - 1 = k
      BY <3>2
    <3>. HIDE DEF g, U
    <3>. QED BY <3>1, <3>2, <3>3
  <2>2. CASE \E i, k : i # h /\ v = <<i, k>>
    <3>1. PICK i, k : i # h /\ v = <<i, k>>
      BY <2>2
    <3>2. v \in U
      BY <1>6, <3>1
    <3>3. g[v] = v
      BY <3>1, <3>2
    <3>. QED BY <3>2, <3>3
  <2>. QED BY <1>8, <2>1, <2>2
<1>. HIDE DEF T, U, V, g
<1>12. g \in Bijection(U, V)
  BY <1>9, <1>10, <1>11 DEF Bijection, Injection, Surjection, IsInjective
<1>13. Cardinality(V) = Cardinality(U)
  BY <1>4, <1>12, FS_Bijection DEF ExistsBijection
<1>. QED BY <1>2, <1>3, <1>4, <1>13 DEF T, V

(* A sequence of anything is one of its elements. *)
LEMMA SequenceOf ==
  ASSUME NEW M, NEW r \in Seq(M)
  PROVE  Sequence(r)
<1>1. Len(r) \in Nat /\ r \in [1..Len(r) -> {r[k] : k \in DOMAIN r}]
  OBVIOUS
<1>. QED BY <1>1 DEF Sequence

(* A sequence behind another one. *)
Joins(a, b, r) ==
  /\ Sequence(r) /\ Len(r) = Len(a) + Len(b)
  /\ Len(a) \in Nat /\ DOMAIN a = 1..Len(a) /\ Len(b) \in Nat /\ DOMAIN b = 1..Len(b)
  /\ DOMAIN r = 1..(Len(a) + Len(b))
  /\ \A k \in 1..Len(a) : r[k] = a[k]
  /\ \A k \in 1..Len(b) : r[k + Len(a)] = b[k]

(* Where the messages of a concatenation come from.                       *)
LEMMA Concatenated ==
  ASSUME NEW a, NEW b, Sequence(a), Sequence(b), NEW r, r = a \o b
  PROVE  Joins(a, b, r)
<1>. DEFINE M == {a[k] : k \in DOMAIN a} \cup {b[k] : k \in DOMAIN b}
<1>1. a \in Seq(M) /\ b \in Seq(M)
  BY DEF Sequence
<1>. HIDE DEF M
<1>2. r \in Seq(M) /\ Len(r) = Len(a) + Len(b)
  BY <1>1, ConcatProperties
<1>3. \A k \in 1..(Len(a) + Len(b)) : r[k] = IF k <= Len(a) THEN a[k] ELSE b[k - Len(a)]
  BY <1>1, ConcatProperties
<1>4. /\ Len(a) \in Nat /\ DOMAIN a = 1..Len(a) /\ Len(b) \in Nat /\ DOMAIN b = 1..Len(b)
      /\ DOMAIN r = 1..(Len(a) + Len(b))
  BY <1>1, <1>2
<1>5. \A k \in 1..Len(a) : r[k] = a[k]
  BY <1>3, <1>4
<1>6. ASSUME NEW k \in 1..Len(b)
      PROVE  r[k + Len(a)] = b[k]
  <2>1. /\ k + Len(a) \in 1..(Len(a) + Len(b)) /\ ~(k + Len(a) <= Len(a))
        /\ (k + Len(a)) - Len(a) = k
    BY <1>4
  <2>. QED BY <1>3, <2>1
<1>7. Sequence(r)
  BY <1>2, SequenceOf
<1>. QED BY <1>2, <1>4, <1>5, <1>6, <1>7 DEF Joins

(* Messages are put behind those of the queues. *)
Put(q, s, r, on) == \A i \in on : Sequence(q[i]) /\ Sequence(s[i]) /\ r[i] = q[i] \o s[i]

(* Messages that are put behind others add to their number.               *)
LEMMA TokensPut ==
  ASSUME NEW q, NEW r, NEW s, NEW type, NEW on, IsFiniteSet(on), Put(q, s, r, on)
  PROVE  Cardinality(Tokens(r, type, on)) =
           Cardinality(Tokens(q, type, on)) + Cardinality(Tokens(s, type, on))
<1>. DEFINE T == Tokens(q, type, on)
            S == Tokens(s, type, on)
            V == Tokens(r, type, on)
            g == [t \in S |-> <<t[1], t[2] + Len(q[t[1]])>>]
            U == V \ T
<1>1. ASSUME NEW i \in on
      PROVE  /\ Len(q[i]) \in Nat /\ DOMAIN q[i] = 1..Len(q[i])
             /\ Len(s[i]) \in Nat /\ DOMAIN s[i] = 1..Len(s[i])
             /\ DOMAIN r[i] = 1..(Len(q[i]) + Len(s[i]))
             /\ \A k \in 1..Len(q[i]) : r[i][k] = q[i][k]
             /\ \A k \in 1..Len(s[i]) : r[i][k + Len(q[i])] = s[i][k]
  <2>. DEFINE a == q[i]
              b == s[i]
              c == r[i]
  <2>1. Sequence(a) /\ Sequence(b) /\ c = a \o b
    BY DEF Put
  <2>. HIDE DEF a, b, c
  <2>2. /\ Len(a) \in Nat /\ DOMAIN a = 1..Len(a) /\ Len(b) \in Nat /\ DOMAIN b = 1..Len(b)
        /\ DOMAIN c = 1..(Len(a) + Len(b))
        /\ \A k \in 1..Len(a) : c[k] = a[k]
        /\ \A k \in 1..Len(b) : c[k + Len(a)] = b[k]
    BY <2>1, Concatenated DEF Joins
  <2>. QED BY <2>2 DEF a, b, c
<1>2. IsFiniteSet(T) /\ Cardinality(T) \in Nat /\ IsFiniteSet(S) /\ Cardinality(S) \in Nat
  BY TokensAreFinite DEF Put
<1>3. ASSUME NEW i \in on, NEW k \in 1..Len(s[i])
      PROVE  <<i, k>> \in S <=> <<i, k + Len(q[i])>> \in U
  <2>1. k + Len(q[i]) \in 1..(Len(q[i]) + Len(s[i])) /\ k + Len(q[i]) \notin 1..Len(q[i])
    <3>. DEFINE x == Len(q[i])
                y == Len(s[i])
    <3>1. x \in Nat /\ y \in Nat /\ k \in 1..y
      BY <1>1
    <3>. HIDE DEF x, y
    <3>2. k + x \in 1..(x + y) /\ k + x \notin 1..x
      BY <3>1
    <3>. QED BY <3>2 DEF x, y
  <2>2. k + Len(q[i]) \in DOMAIN r[i] /\ r[i][k + Len(q[i])] = s[i][k]
    BY <1>1, <2>1
  <2>3. <<i, k + Len(q[i])>> \notin T
    BY <1>1, <2>1, TokensAre
  <2>4. <<i, k + Len(q[i])>> \in V <=> s[i][k].type = type
    BY <2>2, TokensAre
  <2>5. <<i, k>> \in S <=> s[i][k].type = type
    BY <1>1, TokensAre
  <2>. QED BY <2>3, <2>4, <2>5
<1>4. T \subseteq V
  <2>. SUFFICES ASSUME NEW t \in T PROVE t \in V
    OBVIOUS
  <2>1. PICK i \in on : \E k \in DOMAIN q[i] : t = <<i, k>> /\ q[i][k].type = type
    BY TokensAre
  <2>2. PICK k \in DOMAIN q[i] : t = <<i, k>> /\ q[i][k].type = type
    BY <2>1
  <2>a. k \in 1..Len(q[i])
    BY <1>1
  <2>b. r[i][k] = q[i][k]
    BY <1>1, <2>a
  <2>c. k \in 1..(Len(q[i]) + Len(s[i]))
    <3>. DEFINE x == Len(q[i])
                y == Len(s[i])
    <3>1. x \in Nat /\ y \in Nat /\ k \in 1..x
      BY <1>1, <2>a
    <3>. HIDE DEF x, y
    <3>2. k \in 1..(x + y)
      BY <3>1
    <3>. QED BY <3>2 DEF x, y
  <2>3. k \in DOMAIN r[i] /\ r[i][k] = q[i][k]
    BY <1>1, <2>b, <2>c
  <2>. QED BY <2>2, <2>3, TokensAre
<1>5. ASSUME NEW t \in S
      PROVE  \E i \in on : \E k \in 1..Len(s[i]) : t = <<i, k>> /\ g[t] = <<i, k + Len(q[i])>>
  <2>1. PICK i \in on : \E k \in DOMAIN s[i] : t = <<i, k>>
    BY TokensAre
  <2>2. PICK k \in DOMAIN s[i] : t = <<i, k>>
    BY <2>1
  <2>3. g[t] = <<i, k + Len(q[i])>>
    BY <2>2
  <2>. QED BY <1>1, <2>2, <2>3
<1>6. ASSUME NEW v \in U
      PROVE  \E i \in on : \E k \in 1..Len(s[i]) : v = <<i, k + Len(q[i])>>
  <2>1. PICK i \in on : \E k \in DOMAIN r[i] : v = <<i, k>> /\ r[i][k].type = type
    BY TokensAre
  <2>2. PICK k \in DOMAIN r[i] : v = <<i, k>> /\ r[i][k].type = type
    BY <2>1
  <2>3. Len(q[i]) \in Nat /\ k \in 1..(Len(q[i]) + Len(s[i])) /\ Len(s[i]) \in Nat
    BY <1>1, <2>2
  <2>4. ASSUME k \in 1..Len(q[i]) PROVE FALSE
    <3>1. k \in DOMAIN q[i] /\ q[i][k].type = type
      BY <1>1, <2>2, <2>4
    <3>. QED BY <2>2, <3>1, TokensAre
  <2>5. k - Len(q[i]) \in 1..Len(s[i]) /\ (k - Len(q[i])) + Len(q[i]) = k
    <3>. DEFINE x == Len(q[i])
                y == Len(s[i])
    <3>1. x \in Nat /\ y \in Nat /\ k \in 1..(x + y) /\ k \notin 1..x
      BY <2>3, <2>4
    <3>. HIDE DEF x, y
    <3>2. k - x \in 1..y /\ (k - x) + x = k
      BY <3>1
    <3>. QED BY <3>2 DEF x, y
  <2>6. v = <<i, (k - Len(q[i])) + Len(q[i])>>
    BY <2>2, <2>5
  <2>. QED BY <2>5, <2>6
<1>. HIDE DEF U, V, T
<1>7. g \in [S -> U]
  <2>. SUFFICES ASSUME NEW t \in S PROVE g[t] \in U
    OBVIOUS
  <2>. HIDE DEF g, S
  <2>. QED BY <1>3, <1>5
<1>8. ASSUME NEW t \in S, NEW u \in S, g[t] = g[u]
      PROVE  t = u
  <2>. HIDE DEF g, S
  <2>1. PICK i \in on : \E k \in 1..Len(s[i]) : t = <<i, k>> /\ g[t] = <<i, k + Len(q[i])>>
    BY <1>5
  <2>2. PICK k \in 1..Len(s[i]) : t = <<i, k>> /\ g[t] = <<i, k + Len(q[i])>>
    BY <2>1
  <2>3. PICK j \in on : \E l \in 1..Len(s[j]) : u = <<j, l>> /\ g[u] = <<j, l + Len(q[j])>>
    BY <1>5
  <2>4. PICK l \in 1..Len(s[j]) : u = <<j, l>> /\ g[u] = <<j, l + Len(q[j])>>
    BY <2>3
  <2>5. i = j /\ k + Len(q[i]) = l + Len(q[j])
    BY <1>8, <2>2, <2>4
  <2>6. Len(q[i]) \in Nat /\ k \in Int /\ l \in Int
    BY <1>1, <2>5
  <2>7. k = l
    BY <2>5, <2>6
  <2>. QED BY <2>2, <2>4, <2>5, <2>7
<1>9. ASSUME NEW v \in U
      PROVE  \E t \in S : g[t] = v
  <2>1. PICK i \in on : \E k \in 1..Len(s[i]) : v = <<i, k + Len(q[i])>>
    BY <1>6
  <2>2. PICK k \in 1..Len(s[i]) : v = <<i, k + Len(q[i])>>
    BY <2>1
  <2>3. <<i, k>> \in S
    BY <1>3, <2>2
  <2>4. g[<<i, k>>] = <<i, k + Len(q[i])>>
    BY <2>3
  <2>. QED BY <2>2, <2>3, <2>4
<1>. HIDE DEF S, g
<1>10. g \in Bijection(S, U)
  BY <1>7, <1>8, <1>9 DEF Bijection, Injection, Surjection, IsInjective
<1>11. IsFiniteSet(U) /\ Cardinality(U) = Cardinality(S)
  BY <1>2, <1>10, FS_Bijection DEF ExistsBijection
<1>12. V = T \cup U /\ T \cap U = {}
  BY <1>4 DEF U
<1>13. Cardinality(T \cup U) = Cardinality(T) + Cardinality(U) - Cardinality(T \cap U)
  BY <1>2, <1>11, FS_Union
<1>14. Cardinality(T \cap U) = 0
  BY <1>12, FS_EmptySet
<1>. QED BY <1>2, <1>11, <1>12, <1>13, <1>14 DEF T, S, V

-----------------------------------------------------------------------------
(* Noise adds nothing to what is counted.                                  *)
LEMMA TokensBehind ==
  ASSUME NEW x, NEW n, Handler(x), Quiet(x, n), NEW type \in {"MAP", "ACKMAP"}, NEW on \in SUBSET Interface
  PROVE  Tokens(n.out, type, on) = Tokens(x.out, type, on)
<1>1. ASSUME NEW j \in on, NEW k
      PROVE  k \in DOMAIN n.out[j] /\ n.out[j][k].type = type
               <=> k \in DOMAIN x.out[j] /\ x.out[j][k].type = type
  <2>. DEFINE a == x.out[j]
              c == n.out[j]
  <2>1. Behind(a, c) /\ Sequence(a) /\ Sequence(c)
    BY DEF Quiet, Handler
  <2>. HIDE DEF a, c
  <2>2. Len(a) \in Nat /\ DOMAIN a = 1..Len(a) /\ Len(c) \in Nat /\ DOMAIN c = 1..Len(c)
    BY <2>1, Sequences
  <2>3. /\ k \in DOMAIN a => k \in DOMAIN c /\ c[k] = a[k]
        /\ k \in DOMAIN c /\ k \notin DOMAIN a => Noise(c[k])
    BY <2>1, <2>2 DEF Behind
  <2>4. \A m : Noise(m) => m.type # type
    BY DEF Noise
  <2>5. (k \in DOMAIN c /\ c[k].type = type) <=> (k \in DOMAIN a /\ a[k].type = type)
    BY <2>3, <2>4
  <2>. QED BY <2>5 DEF a, c
<1>2. ASSUME NEW t
      PROVE  t \in Tokens(n.out, type, on) <=> t \in Tokens(x.out, type, on)
  <2>1. ASSUME t \in Tokens(n.out, type, on)
        PROVE  t \in Tokens(x.out, type, on)
    <3>1. PICK j \in on : \E k \in DOMAIN n.out[j] : t = <<j, k>> /\ n.out[j][k].type = type
      BY <2>1, TokensAre
    <3>2. PICK k \in DOMAIN n.out[j] : t = <<j, k>> /\ n.out[j][k].type = type
      BY <3>1
    <3>3. k \in DOMAIN x.out[j] /\ x.out[j][k].type = type
      BY <1>1, <3>2
    <3>. QED BY <3>2, <3>3, TokensAre
  <2>2. ASSUME t \in Tokens(x.out, type, on)
        PROVE  t \in Tokens(n.out, type, on)
    <3>1. PICK j \in on : \E k \in DOMAIN x.out[j] : t = <<j, k>> /\ x.out[j][k].type = type
      BY <2>2, TokensAre
    <3>2. PICK k \in DOMAIN x.out[j] : t = <<j, k>> /\ x.out[j][k].type = type
      BY <3>1
    <3>3. k \in DOMAIN n.out[j] /\ n.out[j][k].type = type
      BY <1>1, <3>2
    <3>. QED BY <3>2, <3>3, TokensAre
  <2>. QED BY <2>1, <2>2
<1>. QED BY <1>2

(* A message is taken, and others are sent behind those that wait.         *)
LEMMA TokensAfter ==
  ASSUME NEW q, NEW r, NEW s, NEW h \in Interface, q[h] # <<>>, IsFiniteSet(Interface),
         \A j \in Interface : Sequence(q[j]), Put([q EXCEPT ![h] = Tail(q[h])], s, r, Interface),
         q = [j \in Interface |-> q[j]], NEW type, NEW on \in SUBSET Interface
  PROVE  /\ Cardinality(Tokens(r, type, on)) =
              Cardinality(Tokens(q, type, on)) - (IF h \in on /\ Head(q[h]).type = type THEN 1 ELSE 0)
                + Cardinality(Tokens(s, type, on))
         /\ Cardinality(Tokens(q, type, on)) \in Nat /\ Cardinality(Tokens(s, type, on)) \in Nat
         /\ Cardinality(Tokens(r, type, on)) \in Nat
<1>. DEFINE p == [q EXCEPT ![h] = Tail(q[h])]
<1>1. IsFiniteSet(on)
  BY FS_Subset
<1>2. \A j \in Interface : p[j] = IF j = h THEN Tail(q[h]) ELSE q[j]
  OBVIOUS
<1>3. Put(p, s, r, Interface)
  OBVIOUS
<1>. HIDE DEF p
<1>4. Sequence(Tail(q[h]))
  <2>1. q[h] \in Seq({q[h][k] : k \in DOMAIN q[h]})
    BY DEF Sequence
  <2>2. Tail(q[h]) \in Seq({q[h][k] : k \in DOMAIN q[h]})
    BY <2>1
  <2>. QED BY <2>2, SequenceOf
<1>5. \A j \in on : Sequence(q[j]) /\ Sequence(p[j]) /\ Sequence(s[j])
  BY <1>2, <1>3, <1>4 DEF Put
<1>6. Cardinality(Tokens(p, type, on)) =
        Cardinality(Tokens(q, type, on)) - (IF h \in on /\ Head(q[h]).type = type THEN 1 ELSE 0)
  <2>1. \A j \in on : p[j] = IF j = h THEN Tail(q[h]) ELSE q[j]
    BY <1>2
  <2>2. Sequence(q[h]) /\ \A j \in on : Sequence(q[j])
    BY <1>5
  <2>. QED BY <1>1, <2>1, <2>2, TokensTaken
<1>7. Cardinality(Tokens(r, type, on)) = Cardinality(Tokens(p, type, on)) + Cardinality(Tokens(s, type, on))
  <2>1. Put(p, s, r, on)
    BY <1>3, <1>5 DEF Put
  <2>. QED BY <1>1, <2>1, TokensPut
<1>8. /\ Cardinality(Tokens(q, type, on)) \in Nat /\ Cardinality(Tokens(s, type, on)) \in Nat
      /\ Cardinality(Tokens(p, type, on)) \in Nat
  BY <1>1, <1>5, TokensAreFinite
<1>. QED BY <1>6, <1>7, <1>8

(* The interfaces are as many as the blocks and their faces allow.         *)
LEMMA InterfacesAreFinite ==
  ASSUME RobotAssumption
  PROVE  IsFiniteSet(Interface)
<1>1. IsFiniteSet(Face)
  <2>1. \A m, n \in Int : IsFiniteSet(m..n)
    BY FS_Interval
  <2>2. 0 \in Int /\ 5 \in Int
    OBVIOUS
  <2>. QED BY <2>1, <2>2, Zenon DEF Face
<1>2. IsFiniteSet(Robot)
  BY DEF RobotAssumption
<1>. QED BY <1>1, <1>2, FS_Product DEF Interface

(* What is sent: maps on M, an acknowledgement on the one of A, if any.    *)
Acked(A, c) == IF \E a \in A : Peer(a)[1] = c THEN 1 ELSE 0

Flooding(x, M, A) ==
  /\ M \in SUBSET ({x.id} \X Face) /\ A \in SUBSET Interface /\ M \cap A = {}
  /\ A = {} \/ \E a : A = {a}
  /\ \A j \in M \cup A : Peer(j) # NoItf
  /\ \A j \in Interface :
       x.out[j] = IF j \in M THEN <<[type |-> "MAP", grid |-> x.targetGrid]>>
                  ELSE IF j \in A THEN <<[type |-> "ACKMAP"]>> ELSE <<>>

FloodingCounts(x, M, A, c) ==
  /\ Cardinality(Tokens(x.out, "MAP", {c} \X Face)) = IF c = x.id THEN Cardinality(M) ELSE 0
  /\ Cardinality(M) \in Nat
  /\ Cardinality(Tokens(x.out, "ACKMAP", Towards(c))) = Acked(A, c)

(* What a handler of the flood sends, counted.                            *)
LEMMA FloodingTokens ==
  ASSUME IsFiniteSet(Interface), NEW x, x.id \in Robot, NEW M, NEW A, Flooding(x, M, A), NEW c \in Robot
  PROVE  FloodingCounts(x, M, A, c)
<1>1. M \subseteq Interface /\ A \subseteq Interface
  BY DEF Flooding, Interface
<1>2. IsFiniteSet(M) /\ Cardinality(M) \in Nat
  BY <1>1, FS_Subset, FS_CardinalityType
<1>3. ASSUME NEW j \in Interface, NEW k
      PROVE  /\ (k \in DOMAIN x.out[j] /\ x.out[j][k].type = "MAP") <=> (j \in M /\ k = 1)
             /\ (k \in DOMAIN x.out[j] /\ x.out[j][k].type = "ACKMAP") <=> (j \in A /\ k = 1)
  <2>1. CASE j \in M
    <3>1. x.out[j] = <<[type |-> "MAP", grid |-> x.targetGrid]>> /\ j \notin A
      BY <2>1 DEF Flooding
    <3>2. DOMAIN x.out[j] = {1} /\ x.out[j][1] = [type |-> "MAP", grid |-> x.targetGrid]
      BY <3>1
    <3>. QED BY <2>1, <3>1, <3>2
  <2>2. CASE j \notin M /\ j \in A
    <3>1. x.out[j] = <<[type |-> "ACKMAP"]>>
      BY <2>2 DEF Flooding
    <3>2. DOMAIN x.out[j] = {1} /\ x.out[j][1] = [type |-> "ACKMAP"]
      BY <3>1
    <3>. QED BY <2>2, <3>2
  <2>3. CASE j \notin M /\ j \notin A
    <3>1. x.out[j] = <<>>
      BY <2>3 DEF Flooding
    <3>2. DOMAIN x.out[j] = {}
      BY <3>1
    <3>. QED BY <2>3, <3>2
  <2>. QED BY <2>1, <2>2, <2>3
<1>4. Tokens(x.out, "MAP", {c} \X Face) = IF c = x.id THEN M \X {1} ELSE {}
  <2>1. {c} \X Face \subseteq Interface
    BY DEF Interface
  <2>2. \A j \in {c} \X Face : j \in M => c = x.id
    BY DEF Flooding
  <2>3. c = x.id => M \subseteq {c} \X Face
    BY DEF Flooding
  <2>4. ASSUME NEW t
        PROVE  t \in Tokens(x.out, "MAP", {c} \X Face) <=> t \in IF c = x.id THEN M \X {1} ELSE {}
    <3>1. ASSUME t \in Tokens(x.out, "MAP", {c} \X Face)
          PROVE  t \in IF c = x.id THEN M \X {1} ELSE {}
      <4>1. PICK j \in {c} \X Face : \E k \in DOMAIN x.out[j] : t = <<j, k>> /\ x.out[j][k].type = "MAP"
        BY <3>1, TokensAre
      <4>2. PICK k \in DOMAIN x.out[j] : t = <<j, k>> /\ x.out[j][k].type = "MAP"
        BY <4>1
      <4>3. j \in M /\ k = 1
        BY <1>3, <2>1, <4>2
      <4>. QED BY <2>2, <4>2, <4>3
    <3>2. ASSUME c = x.id, t \in M \X {1}
          PROVE  t \in Tokens(x.out, "MAP", {c} \X Face)
      <4>1. PICK j \in M : t = <<j, 1>>
        BY <3>2
      <4>2. 1 \in DOMAIN x.out[j] /\ x.out[j][1].type = "MAP"
        BY <1>1, <1>3
      <4>. QED BY <2>3, <3>2, <4>1, <4>2, TokensAre
    <3>. QED BY <3>1, <3>2
  <2>. QED BY <2>4
<1>5. Tokens(x.out, "ACKMAP", Towards(c)) = {a \in A : Peer(a)[1] = c} \X {1}
  <2>1. Towards(c) \subseteq Interface
    BY DEF Towards
  <2>2. ASSUME NEW t
        PROVE  t \in Tokens(x.out, "ACKMAP", Towards(c)) <=> t \in {a \in A : Peer(a)[1] = c} \X {1}
    <3>1. ASSUME t \in Tokens(x.out, "ACKMAP", Towards(c))
          PROVE  t \in {a \in A : Peer(a)[1] = c} \X {1}
      <4>1. PICK j \in Towards(c) : \E k \in DOMAIN x.out[j] : t = <<j, k>> /\ x.out[j][k].type = "ACKMAP"
        BY <3>1, TokensAre
      <4>2. PICK k \in DOMAIN x.out[j] : t = <<j, k>> /\ x.out[j][k].type = "ACKMAP"
        BY <4>1
      <4>3. j \in A /\ k = 1
        BY <1>3, <2>1, <4>2
      <4>. QED BY <4>2, <4>3 DEF Towards
    <3>2. ASSUME t \in {a \in A : Peer(a)[1] = c} \X {1}
          PROVE  t \in Tokens(x.out, "ACKMAP", Towards(c))
      <4>1. PICK j \in A : t = <<j, 1>> /\ Peer(j)[1] = c
        BY <3>2
      <4>2. 1 \in DOMAIN x.out[j] /\ x.out[j][1].type = "ACKMAP"
        BY <1>1, <1>3
      <4>3. j \in Towards(c)
        BY <1>1, <4>1 DEF Towards, Flooding
      <4>. QED BY <4>1, <4>2, <4>3, TokensAre
    <3>. QED BY <3>1, <3>2
  <2>. QED BY <2>2
<1>6. Cardinality(M \X {1}) = Cardinality(M)
  <2>1. IsFiniteSet({1}) /\ Cardinality({1}) = 1
    BY FS_Singleton
  <2>2. Cardinality(M \X {1}) = Cardinality(M) * Cardinality({1})
    BY <1>2, <2>1, FS_Product
  <2>. QED BY <1>2, <2>1, <2>2
<1>7. Cardinality({a \in A : Peer(a)[1] = c} \X {1}) = Acked(A, c)
  <2>1. CASE \E a \in A : Peer(a)[1] = c
    <3>1. PICK a : A = {a} /\ Peer(a)[1] = c
      BY <2>1 DEF Flooding
    <3>2. {e \in A : Peer(e)[1] = c} \X {1} = {<<a, 1>>}
      BY <3>1
    <3>. QED BY <2>1, <3>2, FS_Singleton DEF Acked
  <2>2. CASE ~\E a \in A : Peer(a)[1] = c
    <3>1. {e \in A : Peer(e)[1] = c} \X {1} = {}
      BY <2>2
    <3>. QED BY <2>2, <3>1, FS_EmptySet DEF Acked
  <2>. QED BY <2>1, <2>2
<1>. QED BY <1>2, <1>4, <1>5, <1>6, <1>7, FS_EmptySet DEF FloodingCounts

-----------------------------------------------------------------------------
(* A message is received through i, and what it does to the flood is that  *)
(* of x: the handler n may do more for the trains.                         *)
Receiver(i) == Peer(i)[1]
Message(i) == Head(queue[i])

Taken(i, c) ==
  IF (Message(i).type = "MAP" /\ i[1] = c) \/ (Message(i).type = "ACKMAP" /\ Receiver(i) = c) THEN 1 ELSE 0

Sent(i, M, A, c) ==
  (IF Receiver(i) = c THEN Cardinality(M) ELSE 0) + Acked(A, c)

Gained(i, x, c) ==
  IF x.block2Answer \notin {Parent(Receiver(i)), NoItf} /\ Peer(x.block2Answer)[1] = c THEN 1 ELSE 0

Lost(i, x, c) ==
  IF Parent(Receiver(i)) \notin {x.block2Answer, NoItf} /\ Peer(Parent(Receiver(i)))[1] = c THEN 1 ELSE 0

Replies(i, x, n, M, A) ==
  /\ i \in Interface /\ queue[i] # <<>> /\ Peer(i) # NoItf
  /\ Handler(x) /\ x.id = Receiver(i) /\ Tied(x) /\ Quiet(x, n)
  /\ Flooding(x, M, A)
  /\ DOMAIN x.targetGrid # {} /\ x.nbreOfWaitedAnswers \in Int
  /\ \/ HasMap(Receiver(i)) /\ x.block2Answer \in {Parent(Receiver(i)), NoItf}
     \/ /\ ~HasMap(Receiver(i)) /\ Message(i).type = "MAP" /\ x.block2Answer \in {Peer(i), NoItf}
        /\ \A j \in {x.id} \X Face : Peer(j) # NoItf => j \in M \cup {Peer(i)}
  /\ x.block2Answer # NoItf => n.trainNext = NoItf /\ n.motions = <<>>
  /\ \A c \in Robot :
       (IF c = x.id THEN x.nbreOfWaitedAnswers ELSE block[c].nbreOfWaitedAnswers)
         = block[c].nbreOfWaitedAnswers - Taken(i, c) + Sent(i, M, A, c) + Gained(i, x, c) - Lost(i, x, c)

Handles(i, n) ==
  /\ Effect(n, [queue EXCEPT ![i] = Tail(@)])
  /\ UNCHANGED <<place, moving, ends>>

(* The block afterwards, and the others.                                   *)
Changed(x, n) ==
  /\ x.id \in Robot /\ n.id = x.id
  /\ block' = [b \in Robot |-> IF b = x.id THEN Asleep(n) ELSE block[b]]
  /\ block' = [b \in Robot |-> block'[b]]
  /\ block'[x.id] = Asleep(n)
  /\ Record(Asleep(n)) /\ Asleep(n).fails = FALSE
  /\ \A f \in FieldNames \ {"out", "depart", "fails"} : Asleep(n)[f] = n[f]
  /\ \A b \in Robot : b # x.id => block'[b] = block[b]
  /\ HasMap(x.id)'
  /\ \A b \in Robot : HasMap(b) => HasMap(b)'
  /\ \A b \in Robot : b # x.id => (HasMap(b)' <=> HasMap(b))
  /\ Parent(x.id)' = x.block2Answer
  /\ \A b \in Robot : b # x.id => Parent(b)' = Parent(b)
  /\ \A j : Peer(j)' = Peer(j)

(* A handler changes its own block only.                                   *)
LEMMA BlocksAfter ==
  ASSUME BlocksOk, NEW i, NEW x, NEW n, NEW M, NEW A, Replies(i, x, n, M, A), Handles(i, n)
  PROVE  Changed(x, n)
<1>1. x.id \in Robot /\ n.id = x.id /\ Handler(n) /\ n.targetGrid = x.targetGrid
      /\ n.block2Answer = x.block2Answer
  BY DEF Replies, Handler, Quiet
<1>2. block = [b \in Robot |-> block[b]]
  BY DEF BlocksOk
<1>3. block' = [block EXCEPT ![x.id] = Asleep(n)]
  BY <1>1 DEF Handles, Effect
<1>4. /\ Record(Asleep(n)) /\ Asleep(n).fails = FALSE
      /\ \A f \in FieldNames \ {"out", "depart", "fails"} : Asleep(n)[f] = n[f]
  <2>1. Record(n)
    BY <1>1 DEF Handler
  <2>. QED BY <2>1 DEF Asleep, Record, FieldNames
<1>. DEFINE y == Asleep(n)
<1>5. y.targetGrid = x.targetGrid /\ y.block2Answer = x.block2Answer
  BY <1>1, <1>4 DEF FieldNames
<1>6. x.targetGrid # <<>>
  BY DEF Replies
<1>. HIDE DEF y
<1>7. block' = [block EXCEPT ![x.id] = y]
  BY <1>3 DEF y
<1>8. /\ block' = [b \in Robot |-> IF b = x.id THEN y ELSE block[b]]
      /\ block'[x.id] = y
      /\ \A b \in Robot : b # x.id => block'[b] = block[b]
  BY <1>1, <1>2, <1>7
<1>9. block' = [b \in Robot |-> block'[b]]
  BY <1>8
<1>10. HasMap(x.id)' /\ Parent(x.id)' = x.block2Answer
  BY <1>5, <1>6, <1>8 DEF HasMap, Parent
<1>11. \A b \in Robot : b # x.id => (HasMap(b)' <=> HasMap(b)) /\ Parent(b)' = Parent(b)
  BY <1>8 DEF HasMap, Parent
<1>12. \A j : Peer(j)' = Peer(j)
  <2>1. place' = place /\ moving' = moving
    BY DEF Handles
  <2>. QED BY <2>1 DEF Peer
<1>. QED BY <1>1, <1>4, <1>8, <1>9, <1>10, <1>11, <1>12 DEF y, Changed

(* The queues afterwards.                                                  *)
LEMMA QueuesAfter ==
  ASSUME QueuesOk, NEW i, NEW x, NEW n, NEW M, NEW A, Replies(i, x, n, M, A), Handles(i, n)
  PROVE  /\ queue' = [j \in Interface |-> queue'[j]]
         /\ \A j \in Interface : Sequence(queue[j]) /\ Sequence(n.out[j])
         /\ Put([queue EXCEPT ![i] = Tail(queue[i])], n.out, queue', Interface)
<1>1. /\ i \in Interface /\ queue = [j \in Interface |-> queue[j]]
      /\ \A j \in Interface : Sequence(queue[j])
  BY DEF QueuesOk, Replies
<1>2. \A j \in Interface : Sequence(n.out[j])
  BY DEF Replies, Quiet, Handler
<1>. DEFINE q == [queue EXCEPT ![i] = Tail(queue[i])]
<1>3. queue' = [j \in Interface |-> q[j] \o n.out[j]]
  BY DEF Handles, Effect
<1>4. Sequence(Tail(queue[i]))
  <2>1. queue[i] \in Seq({queue[i][k] : k \in DOMAIN queue[i]}) /\ queue[i] # <<>>
    BY <1>1 DEF Sequence, Replies
  <2>2. Tail(queue[i]) \in Seq({queue[i][k] : k \in DOMAIN queue[i]})
    BY <2>1
  <2>. QED BY <2>2, SequenceOf
<1>5. \A j \in Interface : q[j] = IF j = i THEN Tail(queue[i]) ELSE queue[j]
  BY <1>1
<1>. HIDE DEF q
<1>6. \A j \in Interface : Sequence(q[j])
  BY <1>1, <1>4, <1>5
<1>7. queue' = [j \in Interface |-> queue'[j]] /\ \A j \in Interface : queue'[j] = q[j] \o n.out[j]
  BY <1>3
<1>8. Put(q, n.out, queue', Interface)
  BY <1>2, <1>6, <1>7 DEF Put
<1>. QED BY <1>1, <1>2, <1>7, <1>8 DEF q

(* A handler gains or answers the parent of its block.                    *)
LEMMA ChildrenAfter ==
  ASSUME RobotAssumption, Mutual, BlocksOk, ParentsOk,
         NEW i, NEW x, NEW n, NEW M, NEW A, Replies(i, x, n, M, A), Handles(i, n), NEW c \in Robot
  PROVE  /\ Cardinality(Children(c)') = Cardinality(Children(c)) + Gained(i, x, c) - Lost(i, x, c)
         /\ Cardinality(Children(c)) \in Nat /\ Cardinality(Children(c)') \in Nat
<1>1. Changed(x, n)
  BY BlocksAfter
<1>. DEFINE b == x.id
            C == Children(c)
            D == Children(c)'
<1>2. /\ b \in Robot /\ Parent(b)' = x.block2Answer /\ b = Receiver(i)
      /\ \A d \in Robot : d # b => Parent(d)' = Parent(d)
      /\ \A j : Peer(j)' = Peer(j)
  <2>1. /\ x.id \in Robot /\ Parent(x.id)' = x.block2Answer
        /\ \A d \in Robot : d # x.id => Parent(d)' = Parent(d)
        /\ \A j : Peer(j)' = Peer(j)
    BY <1>1 DEF Changed
  <2>2. x.id = Receiver(i)
    BY DEF Replies
  <2>. QED BY <2>1, <2>2
<1>3. D = {d \in Robot : Parent(d)' \in Interface /\ Peer(Parent(d)')[1] = c}
  BY <1>2 DEF Children, Parent
<1>4. C = {d \in Robot : Parent(d) \in Interface /\ Peer(Parent(d))[1] = c}
  BY DEF Children, Parent
<1>5. IsFiniteSet(C) /\ IsFiniteSet(D)
  <2>1. IsFiniteSet(Robot)
    BY DEF RobotAssumption
  <2>2. C \subseteq Robot /\ D \subseteq Robot
    BY <1>3, <1>4
  <2>. HIDE DEF C, D
  <2>. QED BY <2>1, <2>2, FS_Subset
<1>6. NoItf \notin Interface
  BY DEF RobotAssumption
<1>7. Peer(i) \in Interface /\ i \in Interface
  BY DEF Replies, Mutual
<1>8. Parent(b) = NoItf \/ Parent(b) \in Interface
  BY <1>2 DEF ParentsOk, Interface
<1>9. x.block2Answer \in {Parent(b), NoItf} \/ (Parent(b) = NoItf /\ x.block2Answer = Peer(i))
  BY <1>2 DEF Replies, BlocksOk
<1>. DEFINE p == Parent(b)
            v == x.block2Answer
<1>10. Gained(i, x, c) = (IF v \notin {p, NoItf} /\ Peer(v)[1] = c THEN 1 ELSE 0)
  BY <1>2 DEF Gained
<1>11. Lost(i, x, c) = (IF p \notin {v, NoItf} /\ Peer(p)[1] = c THEN 1 ELSE 0)
  BY <1>2 DEF Lost
<1>12. /\ b \in D <=> v \in Interface /\ Peer(v)[1] = c
       /\ b \in C <=> p \in Interface /\ Peer(p)[1] = c
       /\ \A d : d # b => (d \in C <=> d \in D)
  BY <1>2, <1>3, <1>4
<1>. HIDE DEF b, C, D, p, v
<1>13. CASE v = p
  <2>1. C = D
    BY <1>12, <1>13
  <2>2. Gained(i, x, c) = 0 /\ Lost(i, x, c) = 0
    BY <1>10, <1>11, <1>13
  <2>3. Cardinality(C) \in Nat
    BY <1>5, FS_CardinalityType
  <2>. QED BY <2>1, <2>2, <2>3 DEF C, D
<1>14. CASE v = NoItf /\ p # NoItf
  <2>1. D = C \ {b}
    BY <1>6, <1>12, <1>14
  <2>2. Gained(i, x, c) = 0 /\ Lost(i, x, c) = IF b \in C THEN 1 ELSE 0
    <3>1. p \in Interface
      BY <1>8, <1>14 DEF p, b
    <3>. QED BY <1>10, <1>11, <1>12, <1>14, <3>1
  <2>3. Cardinality(D) = IF b \in C THEN Cardinality(C) - 1 ELSE Cardinality(C)
    BY <1>5, <2>1, FS_RemoveElement
  <2>4. Cardinality(C) \in Nat /\ Cardinality(D) \in Nat
    BY <1>5, FS_CardinalityType
  <2>. QED BY <2>2, <2>3, <2>4 DEF C, D
<1>15. CASE p = NoItf /\ v = Peer(i)
  <2>1. b \notin C
    BY <1>6, <1>12, <1>15
  <2>2. D = IF Peer(v)[1] = c THEN C \cup {b} ELSE C
    BY <1>7, <1>12, <1>15, <2>1
  <2>3. v # NoItf /\ v # p
    BY <1>6, <1>7, <1>15
  <2>4. Lost(i, x, c) = 0 /\ Gained(i, x, c) = IF Peer(v)[1] = c THEN 1 ELSE 0
    BY <1>10, <1>11, <1>15, <2>3
  <2>5. Cardinality(C \cup {b}) = Cardinality(C) + 1
    BY <1>5, <2>1, FS_AddElement
  <2>6. Cardinality(C) \in Nat /\ Cardinality(D) \in Nat
    BY <1>5, FS_CardinalityType
  <2>7. CASE Peer(v)[1] = c
    BY <2>2, <2>4, <2>5, <2>6, <2>7 DEF C, D
  <2>8. CASE Peer(v)[1] # c
    BY <2>2, <2>4, <2>6, <2>8 DEF C, D
  <2>. QED BY <2>7, <2>8
<1>16. v = p \/ (v = NoItf /\ p # NoItf) \/ (p = NoItf /\ v = Peer(i))
  BY <1>9 DEF p, v
<1>. QED BY <1>13, <1>14, <1>15, <1>16

(* What a block is owed, by the queues and by its children.                *)
LEMMA OwedIs ==
  ASSUME NEW c \in Robot
  PROVE  Owed(c) = Cardinality(Tokens(queue, "MAP", {c} \X Face))
                     + Cardinality(Tokens(queue, "ACKMAP", Towards(c))) + Cardinality(Children(c))
BY DEF Owed, InTransit, Tokens

(* A handler changes what is owed by what it takes, what it sends, and the *)
(* parent that it gains or answers.                                        *)
LEMMA OwedAfter ==
  ASSUME RobotAssumption, Mutual, BlocksOk, QueuesOk, ParentsOk,
         NEW i, NEW x, NEW n, NEW M, NEW A, Replies(i, x, n, M, A), Handles(i, n), NEW c \in Robot
  PROVE  /\ Owed(c)' = Owed(c) - Taken(i, c) + Sent(i, M, A, c) + Gained(i, x, c) - Lost(i, x, c)
         /\ Owed(c)' \in Nat
<1>1. Changed(x, n)
  BY BlocksAfter
<1>. DEFINE F == {c} \X Face
            W == Towards(c)
<1>2. IsFiniteSet(Interface)
  BY InterfacesAreFinite
<1>3. /\ i \in Interface /\ queue[i] # <<>> /\ Peer(i) # NoItf /\ Handler(x) /\ Quiet(x, n)
      /\ Flooding(x, M, A) /\ x.id = Receiver(i)
  BY DEF Replies
<1>4. F \in SUBSET Interface /\ W \in SUBSET Interface
  BY DEF Interface, Towards
<1>5. W = Towards(c)'
  <2>1. \A j : Peer(j)' = Peer(j)
    BY <1>1 DEF Changed
  <2>. QED BY <2>1 DEF Towards
<1>. HIDE DEF F, W
<1>6. queue = [j \in Interface |-> queue[j]]
  BY DEF QueuesOk
<1>. DEFINE next == queue'
            q == queue
            s == n.out
<1>7. (\A j \in Interface : Sequence(q[j])) /\ Put([q EXCEPT ![i] = Tail(q[i])], s, next, Interface)
  BY QueuesAfter
<1>8. q[i] # <<>> /\ q = [j \in Interface |-> q[j]]
  BY <1>3, <1>6
<1>. HIDE DEF next, q, s
<1>9. ASSUME NEW type, NEW on \in SUBSET Interface
      PROVE  /\ Cardinality(Tokens(next, type, on)) =
                  Cardinality(Tokens(q, type, on)) - (IF i \in on /\ Head(q[i]).type = type THEN 1 ELSE 0)
                    + Cardinality(Tokens(s, type, on))
             /\ Cardinality(Tokens(q, type, on)) \in Nat /\ Cardinality(Tokens(s, type, on)) \in Nat
             /\ Cardinality(Tokens(next, type, on)) \in Nat
  BY <1>2, <1>3, <1>7, <1>8, TokensAfter
<1>10. /\ Cardinality(Tokens(next, "MAP", F)) =
           Cardinality(Tokens(q, "MAP", F)) - (IF i \in F /\ Head(q[i]).type = "MAP" THEN 1 ELSE 0)
             + Cardinality(Tokens(s, "MAP", F))
      /\ Cardinality(Tokens(next, "ACKMAP", W)) =
           Cardinality(Tokens(q, "ACKMAP", W)) - (IF i \in W /\ Head(q[i]).type = "ACKMAP" THEN 1 ELSE 0)
             + Cardinality(Tokens(s, "ACKMAP", W))
      /\ Cardinality(Tokens(q, "MAP", F)) \in Nat /\ Cardinality(Tokens(q, "ACKMAP", W)) \in Nat
      /\ Cardinality(Tokens(next, "MAP", F)) \in Nat /\ Cardinality(Tokens(next, "ACKMAP", W)) \in Nat
  BY <1>4, <1>9
<1>11. Tokens(s, "MAP", F) = Tokens(x.out, "MAP", F) /\ Tokens(s, "ACKMAP", W) = Tokens(x.out, "ACKMAP", W)
  BY <1>3, <1>4, TokensBehind DEF s
<1>12. /\ Cardinality(Tokens(x.out, "MAP", F)) = IF c = x.id THEN Cardinality(M) ELSE 0
       /\ Cardinality(Tokens(x.out, "ACKMAP", W)) = Acked(A, c)
       /\ Cardinality(M) \in Nat
  <2>1. x.id \in Robot
    BY <1>3 DEF Handler
  <2>2. FloodingCounts(x, M, A, c)
    BY <1>2, <1>3, <2>1, FloodingTokens
  <2>. QED BY <2>2 DEF FloodingCounts, F, W
<1>13. (i \in F <=> i[1] = c) /\ (i \in W <=> Receiver(i) = c)
  BY <1>3 DEF F, W, Interface, Towards, Receiver
<1>14. Cardinality(Tokens(s, "MAP", F)) = (IF Receiver(i) = c THEN Cardinality(M) ELSE 0)
       /\ Cardinality(Tokens(s, "ACKMAP", W)) = Acked(A, c)
  BY <1>3, <1>11, <1>12
<1>15. Sent(i, M, A, c) = Cardinality(Tokens(s, "MAP", F)) + Cardinality(Tokens(s, "ACKMAP", W))
  BY <1>14 DEF Sent
<1>16. Taken(i, c) = (IF i \in F /\ Head(q[i]).type = "MAP" THEN 1 ELSE 0)
                       + (IF i \in W /\ Head(q[i]).type = "ACKMAP" THEN 1 ELSE 0)
  BY <1>13 DEF Taken, Message, q
<1>17. /\ Cardinality(Children(c)') = Cardinality(Children(c)) + Gained(i, x, c) - Lost(i, x, c)
       /\ Cardinality(Children(c)) \in Nat /\ Cardinality(Children(c)') \in Nat
  BY ChildrenAfter
<1>18. Owed(c) = Cardinality(Tokens(q, "MAP", F)) + Cardinality(Tokens(q, "ACKMAP", W)) + Cardinality(Children(c))
  BY OwedIs DEF q, F, W
<1>19. Owed(c)' = Cardinality(Tokens(next, "MAP", F)) + Cardinality(Tokens(next, "ACKMAP", W))
                    + Cardinality(Children(c)')
  BY <1>5 DEF Owed, InTransit, Tokens, next, F
<1>20. Gained(i, x, c) \in Nat /\ Lost(i, x, c) \in Nat /\ Cardinality(Tokens(s, "MAP", F)) \in Nat
       /\ Cardinality(Tokens(s, "ACKMAP", W)) \in Nat
  BY <1>12, <1>14 DEF Gained, Lost, Acked
<1>. DEFINE a1 == Cardinality(Tokens(q, "MAP", F))
            a2 == Cardinality(Tokens(q, "ACKMAP", W))
            a3 == Cardinality(Children(c))
            b1 == Cardinality(Tokens(next, "MAP", F))
            b2 == Cardinality(Tokens(next, "ACKMAP", W))
            b3 == Cardinality(Children(c)')
            s1 == Cardinality(Tokens(s, "MAP", F))
            s2 == Cardinality(Tokens(s, "ACKMAP", W))
            t1 == IF i \in F /\ Head(q[i]).type = "MAP" THEN 1 ELSE 0
            t2 == IF i \in W /\ Head(q[i]).type = "ACKMAP" THEN 1 ELSE 0
            g == Gained(i, x, c)
            l == Lost(i, x, c)
<1>21. /\ a1 \in Nat /\ a2 \in Nat /\ a3 \in Nat /\ b1 \in Nat /\ b2 \in Nat /\ b3 \in Nat
       /\ s1 \in Nat /\ s2 \in Nat /\ t1 \in Nat /\ t2 \in Nat /\ g \in Nat /\ l \in Nat
       /\ b1 = a1 - t1 + s1 /\ b2 = a2 - t2 + s2 /\ b3 = a3 + g - l
  BY <1>10, <1>17, <1>20
<1>22. Taken(i, c) = t1 + t2 /\ Sent(i, M, A, c) = s1 + s2
  BY <1>15, <1>16
<1>23. Owed(c) = a1 + a2 + a3 /\ Owed(c)' = b1 + b2 + b3
  BY <1>18, <1>19
<1>. HIDE DEF a1, a2, a3, b1, b2, b3, s1, s2, t1, t2, g, l
<1>24. b1 + b2 + b3 = (a1 + a2 + a3) - (t1 + t2) + (s1 + s2) + g - l /\ b1 + b2 + b3 \in Nat
  BY <1>21
<1>. QED BY <1>22, <1>23, <1>24 DEF g, l

(* A handler counts what it changes.                                      *)
LEMMA WaitsAfter ==
  ASSUME RobotAssumption, Mutual, BlocksOk, QueuesOk, ParentsOk, WaitsAreOwed,
         NEW i, NEW x, NEW n, NEW M, NEW A, Replies(i, x, n, M, A), Handles(i, n)
  PROVE  WaitsAreOwed' /\ x.nbreOfWaitedAnswers \in Nat /\ n.nbreOfWaitedAnswers = x.nbreOfWaitedAnswers
<1>1. Changed(x, n)
  BY BlocksAfter
<1>2. n.nbreOfWaitedAnswers = x.nbreOfWaitedAnswers /\ x.id \in Robot
  BY DEF Replies, Quiet, Handler
<1>3. block'[x.id].nbreOfWaitedAnswers = x.nbreOfWaitedAnswers
  <2>1. block'[x.id] = Asleep(n) /\ Asleep(n)["nbreOfWaitedAnswers"] = n["nbreOfWaitedAnswers"]
    <3>1. "nbreOfWaitedAnswers" \in FieldNames \ {"out", "depart", "fails"}
      BY DEF FieldNames
    <3>2. block'[x.id] = Asleep(n)
      BY <1>1 DEF Changed
    <3>3. \A f \in FieldNames \ {"out", "depart", "fails"} : Asleep(n)[f] = n[f]
      BY <1>1 DEF Changed
    <3>. QED BY <3>1, <3>2, <3>3
  <2>. QED BY <1>2, <2>1
<1>4. \A b \in Robot : b # x.id => block'[b] = block[b]
  BY <1>1 DEF Changed
<1>5. ASSUME NEW c \in Robot
      PROVE  (IF c = x.id THEN x.nbreOfWaitedAnswers ELSE block[c].nbreOfWaitedAnswers) = Owed(c)'
             /\ Owed(c)' \in Nat
  <2>1. (IF c = x.id THEN x.nbreOfWaitedAnswers ELSE block[c].nbreOfWaitedAnswers) =
          block[c].nbreOfWaitedAnswers - Taken(i, c) + Sent(i, M, A, c) + Gained(i, x, c) - Lost(i, x, c)
    BY DEF Replies
  <2>2. block[c].nbreOfWaitedAnswers = Owed(c)
    BY DEF WaitsAreOwed
  <2>3. Owed(c)' = Owed(c) - Taken(i, c) + Sent(i, M, A, c) + Gained(i, x, c) - Lost(i, x, c)
        /\ Owed(c)' \in Nat
    BY OwedAfter
  <2>. QED BY <2>1, <2>2, <2>3
<1>6. \A c \in Robot : block'[c].nbreOfWaitedAnswers = Owed(c)'
  BY <1>3, <1>4, <1>5
<1>. QED BY <1>2, <1>5, <1>6 DEF WaitsAreOwed

-----------------------------------------------------------------------------
(* The blocks are as they must be after a handler that has not failed.     *)
LEMMA BlocksOkAfter ==
  ASSUME RobotAssumption, Mutual, BlocksOk, QueuesOk, ParentsOk, WaitsAreOwed,
         NEW i, NEW x, NEW n, NEW M, NEW A, Replies(i, x, n, M, A), Handles(i, n), n.fails = FALSE
  PROVE  BlocksOk'
<1>1. Changed(x, n)
  BY BlocksAfter
<1>. DEFINE y == Asleep(n)
<1>2. Handler(x) /\ Quiet(x, n) /\ Tied(x) /\ DOMAIN x.targetGrid # {} /\ x.id \in Robot
      /\ (x.block2Answer # NoItf => n.trainNext = NoItf /\ n.motions = <<>>)
  BY DEF Replies, Handler
<1>3. /\ n.id = x.id /\ Tied(n) /\ n.targetGrid = x.targetGrid /\ n.block2Answer = x.block2Answer
      /\ n.nbreOfWaitedAnswers = x.nbreOfWaitedAnswers
  BY <1>2 DEF Quiet
<1>4. x.nbreOfWaitedAnswers \in Nat
  BY WaitsAfter
<1>5. Record(y) /\ y.fails = FALSE
  BY <1>1 DEF Changed
<1>6. /\ y.id = n.id /\ y.targetGrid = n.targetGrid /\ y.block2Answer = n.block2Answer
      /\ y.nbreOfWaitedAnswers = n.nbreOfWaitedAnswers /\ y.trainNext = n.trainNext
      /\ y.trainPrevious = n.trainPrevious /\ y.motions = n.motions
  <2>1. \A f \in FieldNames \ {"out", "depart", "fails"} : Asleep(n)[f] = n[f]
    BY <1>1 DEF Changed
  <2>. QED BY <2>1 DEF FieldNames
<1>7. block'[x.id] = y
  BY <1>1 DEF Changed
<1>8. \A b \in Robot : b # x.id => block'[b] = block[b]
  BY <1>1 DEF Changed
<1>9. block' = [b \in Robot |-> block'[b]]
  BY <1>1 DEF Changed
<1>10. \A j : Peer(j)' = Peer(j)
  BY <1>1 DEF Changed
<1>. HIDE DEF y
<1>11. Tied(y)
  BY <1>3, <1>6 DEF Tied
<1>12. x.targetGrid # <<>>
  BY <1>2
<1>. DEFINE Ok(b, m) ==
       /\ Record(m) /\ m.id = b /\ m.fails = FALSE /\ Tied(m)
       /\ m.nbreOfWaitedAnswers \in Nat
       /\ m.targetGrid = <<>> \/ DOMAIN m.targetGrid # {}
       /\ m.targetGrid = <<>> => m.block2Answer = NoItf /\ m.nbreOfWaitedAnswers = 0
       /\ m.targetGrid = <<>> \/ m.block2Answer # NoItf => m.trainNext = NoItf /\ m.motions = <<>>
<1>13. Ok(x.id, y)
  BY <1>2, <1>3, <1>4, <1>5, <1>6, <1>11, <1>12
<1>14. \A b \in Robot : Ok(b, block[b])
  BY DEF BlocksOk, HasMap, Parent, Unready
<1>15. \A b \in Robot : Ok(b, block'[b])
  <2>. HIDE DEF Ok
  <2>. QED BY <1>7, <1>8, <1>13, <1>14
<1>16. ASSUME NEW b \in Robot
       PROVE  Tied(block[b])'
  <2>1. Tied(block'[b])
    BY <1>15
  <2>. QED BY <1>10, <2>1 DEF Tied, TiedTo
<1>. QED BY <1>9, <1>15, <1>16 DEF BlocksOk, HasMap, Parent, Unready

(* The queues hold messages of the flood and noise, on links only.         *)
QueueGrows(i, n, j) ==
  LET q == [queue EXCEPT ![i] = Tail(queue[i])][j]
      s == n.out[j]
      l == Len(q)
  IN  /\ Sequence(queue'[j]) /\ l \in Nat /\ DOMAIN q = 1..l /\ DOMAIN s = 1..Len(s) /\ Len(s) \in Nat
      /\ Len(queue'[j]) = l + Len(s) /\ DOMAIN queue'[j] = 1..(l + Len(s))
      /\ \A k \in 1..l : queue'[j][k] = q[k]
      /\ \A k \in 1..Len(s) : queue'[j][k + l] = s[k]
      /\ \A k \in DOMAIN queue'[j] : k \in 1..l \/ (k - l \in 1..Len(s) /\ queue'[j][k] = s[k - l])
      /\ j # i => q = queue[j]
      /\ j = i => \A k \in 1..l : k + 1 \in DOMAIN queue[i] /\ q[k] = queue[i][k + 1]

(* A queue afterwards is what it was, without what was taken, and what is sent. *)
LEMMA QueueAfter ==
  ASSUME QueuesOk, NEW i, NEW x, NEW n, NEW M, NEW A, Replies(i, x, n, M, A), Handles(i, n),
         NEW j \in Interface
  PROVE  QueueGrows(i, n, j)
<1>. DEFINE q == [queue EXCEPT ![i] = Tail(queue[i])][j]
            s == n.out[j]
            r == queue'[j]
<1>1. Put([queue EXCEPT ![i] = Tail(queue[i])], n.out, queue', Interface)
  BY QueuesAfter
<1>2. Sequence(q) /\ Sequence(s) /\ r = q \o s
  BY <1>1 DEF Put
<1>3. /\ j # i => q = queue[j]
      /\ j = i => q = Tail(queue[i])
  BY DEF QueuesOk
<1>4. Sequence(queue[i]) /\ queue[i] # <<>>
  BY DEF QueuesOk, Replies
<1>. HIDE DEF q, s, r
<1>5. /\ Sequence(r) /\ Len(r) = Len(q) + Len(s)
      /\ Len(q) \in Nat /\ DOMAIN q = 1..Len(q) /\ Len(s) \in Nat /\ DOMAIN s = 1..Len(s)
      /\ DOMAIN r = 1..(Len(q) + Len(s))
      /\ \A k \in 1..Len(q) : r[k] = q[k]
      /\ \A k \in 1..Len(s) : r[k + Len(q)] = s[k]
  <2>1. Joins(q, s, r)
    BY <1>2, Concatenated
  <2>. QED BY <2>1 DEF Joins
<1>6. ASSUME NEW k \in DOMAIN r, k \notin 1..Len(q)
      PROVE  k - Len(q) \in 1..Len(s) /\ r[k] = s[k - Len(q)]
  <2>1. k - Len(q) \in 1..Len(s) /\ (k - Len(q)) + Len(q) = k
    <3>. DEFINE a == Len(q)
                b == Len(s)
    <3>1. a \in Nat /\ b \in Nat /\ k \in 1..(a + b) /\ k \notin 1..a
      BY <1>5, <1>6
    <3>. HIDE DEF a, b
    <3>2. k - a \in 1..b /\ (k - a) + a = k
      BY <3>1
    <3>. QED BY <3>2 DEF a, b
  <2>. QED BY <1>5, <2>1
<1>7. ASSUME j = i, NEW k \in 1..Len(q)
      PROVE  k + 1 \in DOMAIN queue[i] /\ q[k] = queue[i][k + 1]
  <2>. DEFINE z == queue[i]
  <2>1. z \in Seq({z[e] : e \in DOMAIN z}) /\ z # <<>> /\ q = Tail(z)
    BY <1>3, <1>4, <1>7 DEF Sequence
  <2>. HIDE DEF z
  <2>2. Len(z) \in Nat /\ DOMAIN z = 1..Len(z) /\ Len(q) = Len(z) - 1
        /\ \A e \in 1..(Len(z) - 1) : q[e] = z[e + 1]
    BY <2>1
  <2>3. k \in 1..(Len(z) - 1) /\ k + 1 \in 1..Len(z)
    BY <2>2
  <2>. QED BY <2>2, <2>3 DEF z
<1>. QED BY <1>2, <1>3, <1>5, <1>6, <1>7 DEF QueueGrows, q, s, r

(* A handler sends a message of the flood first, then noise, on the links  *)
(* of its block.                                                           *)
Outgoing(x, n, M, A, j) ==
  /\ \A k \in DOMAIN n.out[j] :
       \/ k = 1 /\ j \in M /\ n.out[j][k] = [type |-> "MAP", grid |-> x.targetGrid]
       \/ k = 1 /\ j \in A /\ n.out[j][k] = [type |-> "ACKMAP"]
       \/ Noise(n.out[j][k]) /\ (j \in M => k > 1)
            /\ (n.fails = FALSE => j[1] = x.id \/ Peer(j)[1] = x.id)
  /\ j \in M => 1 \in DOMAIN n.out[j] /\ n.out[j][1] = [type |-> "MAP", grid |-> x.targetGrid]
  /\ Peer(j) = NoItf => DOMAIN n.out[j] = {}

(* What a handler leaves in its interfaces.                               *)
LEMMA OutIs ==
  ASSUME NEW i, NEW x, NEW n, NEW M, NEW A, Replies(i, x, n, M, A), NEW j \in Interface
  PROVE  Outgoing(x, n, M, A, j)
<1>. DEFINE a == x.out[j]
            c == n.out[j]
<1>1. /\ Sequence(a) /\ Sequence(c) /\ Behind(a, c) /\ (Peer(j) = NoItf => c = a)
      /\ (n.fails = FALSE => (c # a => j[1] = x.id \/ Peer(j)[1] = x.id))
  BY DEF Replies, Handler, Quiet
<1>2. /\ a = (IF j \in M THEN <<[type |-> "MAP", grid |-> x.targetGrid]>>
               ELSE IF j \in A THEN <<[type |-> "ACKMAP"]>> ELSE <<>>)
      /\ (j \in M \cup A => Peer(j) # NoItf)
  BY DEF Replies, Flooding
<1>. HIDE DEF a, c
<1>3. Len(a) \in Nat /\ DOMAIN a = 1..Len(a) /\ Len(c) \in Nat /\ DOMAIN c = 1..Len(c)
  BY <1>1, Sequences
<1>4. ASSUME NEW k \in DOMAIN c, k \notin DOMAIN a
      PROVE  Noise(c[k]) /\ c # a
  BY <1>1, <1>3, <1>4 DEF Behind
<1>5. \A k \in DOMAIN a : k \in DOMAIN c /\ c[k] = a[k]
  BY <1>1, <1>3 DEF Behind
<1>6. CASE j \in M
  <2>1. DOMAIN a = {1} /\ a[1] = [type |-> "MAP", grid |-> x.targetGrid]
    BY <1>2, <1>6
  <2>2. \A k \in DOMAIN c : k = 1 \/ (k > 1 /\ k \notin DOMAIN a)
    <3>1. \A k \in DOMAIN c : k \in Int /\ k >= 1
      BY <1>3
    <3>2. \A k \in DOMAIN c : k # 1 => k > 1
      BY <3>1
    <3>. QED BY <2>1, <3>2
  <2>3. 1 \in DOMAIN c /\ c[1] = [type |-> "MAP", grid |-> x.targetGrid]
    BY <1>5, <2>1
  <2>4. Peer(j) # NoItf
    BY <1>2, <1>6
  <2>5. \A k \in DOMAIN c : k # 1 => /\ Noise(c[k]) /\ k > 1
                                     /\ (n.fails = FALSE => j[1] = x.id \/ Peer(j)[1] = x.id)
    BY <1>1, <1>4, <2>2
  <2>. QED BY <1>6, <2>3, <2>4, <2>5 DEF Outgoing, c
<1>7. CASE j \notin M /\ j \in A
  <2>1. DOMAIN a = {1} /\ a[1] = [type |-> "ACKMAP"]
    BY <1>2, <1>7
  <2>2. 1 \in DOMAIN c /\ c[1] = [type |-> "ACKMAP"]
    BY <1>5, <2>1
  <2>3. Peer(j) # NoItf
    BY <1>2, <1>7
  <2>4. \A k \in DOMAIN c : k # 1 => Noise(c[k]) /\ (n.fails = FALSE => j[1] = x.id \/ Peer(j)[1] = x.id)
    BY <1>1, <1>4, <2>1
  <2>. QED BY <1>7, <2>2, <2>3, <2>4 DEF Outgoing, c
<1>8. CASE j \notin M /\ j \notin A
  <2>1. DOMAIN a = {}
    BY <1>2, <1>8
  <2>2. Peer(j) = NoItf => DOMAIN c = {}
    BY <1>1, <2>1
  <2>3. \A k \in DOMAIN c : Noise(c[k]) /\ (n.fails = FALSE => j[1] = x.id \/ Peer(j)[1] = x.id)
    BY <1>1, <1>4, <2>1
  <2>. QED BY <1>8, <2>2, <2>3 DEF Outgoing, c
<1>. QED BY <1>6, <1>7, <1>8

(* The queues are as they must be afterwards.                             *)
LEMMA QueuesOkAfter ==
  ASSUME QueuesOk, NEW i, NEW x, NEW n, NEW M, NEW A, Replies(i, x, n, M, A), Handles(i, n),
         \A j : Peer(j)' = Peer(j)
  PROVE  QueuesOk'
<1>1. queue' = [j \in Interface |-> queue'[j]]
  BY QueuesAfter
<1>. DEFINE Ok(msg) == (Echo(msg) \/ Noise(msg)) /\ (msg.type = "MAP" => DOMAIN msg.grid # {})
<1>2. \A j \in Interface : \A k \in DOMAIN queue[j] : Ok(queue[j][k])
  BY DEF QueuesOk
<1>3. ASSUME NEW j \in Interface, NEW k \in DOMAIN n.out[j]
      PROVE  Ok(n.out[j][k])
  <2>1. Outgoing(x, n, M, A, j)
    BY OutIs
  <2>2. DOMAIN x.targetGrid # {}
    BY DEF Replies
  <2>3. \A m : Noise(m) => m.type # "MAP"
    BY DEF Noise
  <2>. QED BY <2>1, <2>2, <2>3 DEF Outgoing, Echo
<1>. HIDE DEF Ok
<1>4. ASSUME NEW j \in Interface
      PROVE  /\ Sequence(queue'[j])
             /\ \A k \in DOMAIN queue'[j] : Ok(queue'[j][k])
             /\ Peer(j) = NoItf => queue'[j] = <<>>
  <2>. DEFINE q == [queue EXCEPT ![i] = Tail(queue[i])][j]
              l == Len(q)
              s == n.out[j]
              r == queue'[j]
  <2>1. QueueGrows(i, n, j)
    BY QueueAfter
  <2>2. /\ Sequence(r) /\ l \in Nat /\ DOMAIN q = 1..l /\ DOMAIN s = 1..Len(s) /\ Len(s) \in Nat
        /\ Len(r) = l + Len(s) /\ DOMAIN r = 1..(l + Len(s))
        /\ \A k \in 1..l : r[k] = q[k]
        /\ \A k \in DOMAIN r : k \in 1..l \/ (k - l \in 1..Len(s) /\ r[k] = s[k - l])
        /\ j # i => q = queue[j]
        /\ j = i => \A k \in 1..l : k + 1 \in DOMAIN queue[i] /\ q[k] = queue[i][k + 1]
    BY <2>1 DEF QueueGrows
  <2>3. i \in Interface /\ Peer(i) # NoItf
    BY DEF Replies
  <2>4. \A k \in DOMAIN s : Ok(s[k])
    BY <1>3
  <2>5. Peer(j) = NoItf => DOMAIN s = {}
    BY OutIs DEF Outgoing
  <2>6. Peer(j) = NoItf => queue[j] = <<>>
    BY DEF QueuesOk
  <2>. HIDE DEF q, l, s, r
  <2>7. \A k \in 1..l : Ok(q[k])
    <3>1. CASE j = i
      BY <1>2, <2>2, <2>3, <3>1
    <3>2. CASE j # i
      BY <1>2, <2>2, <3>2
    <3>. QED BY <3>1, <3>2
  <2>8. \A k \in DOMAIN r : Ok(r[k])
    BY <2>2, <2>4, <2>7
  <2>9. ASSUME Peer(j) = NoItf
        PROVE  r = <<>>
    <3>1. j # i /\ q = <<>> /\ DOMAIN s = {}
      BY <2>2, <2>3, <2>5, <2>6, <2>9
    <3>2. Len(q) = 0 /\ l = 0 /\ Len(s) = 0
      <4>1. l = 0
        BY <3>1 DEF l
      <4>2. Len(s) = 0
        BY <2>2, <3>1
      <4>. QED BY <4>1, <4>2 DEF l
    <3>3. Len(r) = 0
      BY <2>2, <3>2
    <3>4. r \in Seq({r[k] : k \in DOMAIN r})
      BY <2>2 DEF Sequence
    <3>. QED BY <3>3, <3>4
  <2>. QED BY <2>2, <2>8, <2>9 DEF r
<1>. QED BY <1>1, <1>4 DEF QueuesOk, Ok

(* What a block is owed is a number of things.                             *)
LEMMA OwedIsCount ==
  ASSUME RobotAssumption, QueuesOk, NEW c \in Robot
  PROVE  /\ Cardinality(Tokens(queue, "MAP", {c} \X Face)) \in Nat
         /\ IsFiniteSet(Tokens(queue, "MAP", {c} \X Face))
         /\ Cardinality(Tokens(queue, "ACKMAP", Towards(c))) \in Nat
         /\ IsFiniteSet(Tokens(queue, "ACKMAP", Towards(c)))
         /\ Cardinality(Children(c)) \in Nat /\ IsFiniteSet(Children(c))
<1>1. IsFiniteSet(Interface)
  BY InterfacesAreFinite
<1>2. {c} \X Face \in SUBSET Interface /\ Towards(c) \in SUBSET Interface /\ Children(c) \in SUBSET Robot
  BY DEF Interface, Towards, Children
<1>3. IsFiniteSet({c} \X Face) /\ IsFiniteSet(Towards(c))
  BY <1>1, <1>2, FS_Subset
<1>4. \A j \in Interface : Sequence(queue[j])
  BY DEF QueuesOk
<1>5. \A type, on : on \in SUBSET Interface /\ IsFiniteSet(on) =>
        IsFiniteSet(Tokens(queue, type, on)) /\ Cardinality(Tokens(queue, type, on)) \in Nat
  BY <1>4, TokensAreFinite
<1>6. IsFiniteSet(Robot)
  BY DEF RobotAssumption
<1>7. IsFiniteSet(Children(c)) /\ Cardinality(Children(c)) \in Nat
  BY <1>2, <1>6, FS_Subset, FS_CardinalityType
<1>. QED BY <1>2, <1>3, <1>5, <1>7

(* A block from which the map is on its way has it.                        *)
LEMMA SenderHasMap ==
  ASSUME RobotAssumption, BlocksOk, QueuesOk, WaitsAreOwed,
         NEW i \in Interface, NEW k \in DOMAIN queue[i], queue[i][k].type = "MAP"
  PROVE  HasMap(i[1])
<1>. DEFINE c == i[1]
            T == Tokens(queue, "MAP", {c} \X Face)
            a2 == Cardinality(Tokens(queue, "ACKMAP", Towards(c)))
            a3 == Cardinality(Children(c))
<1>1. c \in Robot /\ i \in {c} \X Face
  BY DEF Interface
<1>2. <<i, k>> \in T
  BY <1>1, TokensAre
<1>3. Cardinality(T) \in Nat /\ IsFiniteSet(T) /\ a2 \in Nat /\ a3 \in Nat
  BY <1>1, OwedIsCount
<1>4. Owed(c) = Cardinality(T) + a2 + a3
  BY <1>1, OwedIs
<1>5. block[c].nbreOfWaitedAnswers = Owed(c)
  BY <1>1 DEF WaitsAreOwed
<1>6. ~HasMap(c) => block[c].nbreOfWaitedAnswers = 0
  BY <1>1 DEF BlocksOk
<1>. HIDE DEF T, a2, a3, c
<1>7. Cardinality(T) # 0
  BY <1>2, <1>3, FS_EmptySet
<1>8. Owed(c) # 0
  BY <1>3, <1>4, <1>7
<1>. QED BY <1>5, <1>6, <1>8 DEF c

(* Who receives, from whom, and whom it answers to.                       *)
LEMMA ReplyIsKnown ==
  ASSUME RobotAssumption, Mutual, BlocksOk, QueuesOk, WaitsAreOwed,
         NEW i, NEW x, NEW n, NEW M, NEW A, Replies(i, x, n, M, A)
  PROVE  /\ i \in Interface /\ Peer(i) \in Interface /\ Peer(Peer(i)) = i /\ Peer(i)[1] = x.id
         /\ x.id \in Robot
         /\ ~HasMap(x.id) => HasMap(i[1])
         /\ HasMap(x.id) => x.block2Answer \in {Parent(x.id), NoItf}
         /\ ~HasMap(x.id) => x.block2Answer \in {Peer(i), NoItf} /\ Parent(x.id) = NoItf
<1>1. /\ i \in Interface /\ queue[i] # <<>> /\ Peer(i) # NoItf /\ x.id = Receiver(i)
      /\ Sequence(queue[i]) /\ x.id \in Robot
  BY DEF Replies, Handler, QueuesOk
<1>2. Peer(i) \in Interface /\ Peer(Peer(i)) = i /\ Peer(i)[1] = x.id
  BY <1>1 DEF Mutual, Receiver
<1>3. ~HasMap(x.id) => HasMap(i[1])
  <2>. HAVE ~HasMap(x.id)
  <2>1. Message(i).type = "MAP"
    BY <1>1 DEF Replies
  <2>2. 1 \in DOMAIN queue[i] /\ queue[i][1] = Head(queue[i])
    BY <1>1, HeadIsFirst
  <2>. QED BY <1>1, <2>1, <2>2, SenderHasMap DEF Message
<1>4. ~HasMap(x.id) => Parent(x.id) = NoItf
  BY <1>1 DEF BlocksOk
<1>. QED BY <1>1, <1>2, <1>3, <1>4 DEF Replies

(* A parent has the map afterwards.                                       *)
LEMMA ParentsOkAfter ==
  ASSUME RobotAssumption, Mutual, BlocksOk, QueuesOk, ParentsOk, WaitsAreOwed,
         NEW i, NEW x, NEW n, NEW M, NEW A, Replies(i, x, n, M, A), Handles(i, n)
  PROVE  ParentsOk'
<1>1. Changed(x, n)
  BY BlocksAfter
<1>2. /\ i \in Interface /\ Peer(i) \in Interface /\ Peer(Peer(i)) = i /\ Peer(i)[1] = x.id
      /\ x.id \in Robot
      /\ ~HasMap(x.id) => HasMap(i[1])
      /\ HasMap(x.id) => x.block2Answer \in {Parent(x.id), NoItf}
      /\ ~HasMap(x.id) => x.block2Answer \in {Peer(i), NoItf} /\ Parent(x.id) = NoItf
  BY ReplyIsKnown
<1>3. Parent(x.id)' = x.block2Answer
  BY <1>1 DEF Changed
<1>4. \A b \in Robot : b # x.id => Parent(b)' = Parent(b)
  BY <1>1 DEF Changed
<1>5. \A b \in Robot : HasMap(b) => HasMap(b)'
  BY <1>1 DEF Changed
<1>6. \A j : Peer(j)' = Peer(j)
  BY <1>1 DEF Changed
<1>7. i \in Interface /\ i # NoItf /\ i[1] \in Robot /\ NoItf \notin Interface
  BY <1>2 DEF Interface, RobotAssumption
<1>. DEFINE Good(c, p) == p # NoItf => p \in {c} \X Face /\ Peer(p) # NoItf /\ HasMap(Peer(p)[1])
<1>8. \A c \in Robot : Good(c, Parent(c))
  BY DEF ParentsOk
<1>9. Good(x.id, x.block2Answer)
  <2>1. CASE HasMap(x.id)
    BY <1>2, <1>8, <2>1
  <2>2. CASE ~HasMap(x.id)
    <3>1. Peer(i) \in {x.id} \X Face
      BY <1>2 DEF Interface
    <3>. QED BY <1>2, <1>7, <2>2, <3>1
  <2>. QED BY <2>1, <2>2
<1>10. ASSUME NEW c \in Robot, Parent(c)' # NoItf
      PROVE  Parent(c)' \in {c} \X Face /\ Peer(Parent(c)') # NoItf /\ block'[Peer(Parent(c)')[1]].targetGrid # <<>>
  <2>. DEFINE p == Parent(c)'
  <2>1. Good(c, p)
    <3>. HIDE DEF Good
    <3>. QED BY <1>3, <1>4, <1>8, <1>9
  <2>. HIDE DEF p
  <2>2. p # NoItf
    BY <1>10 DEF p
  <2>3. p \in {c} \X Face /\ Peer(p) # NoItf /\ HasMap(Peer(p)[1])
    BY <2>1, <2>2
  <2>4. Peer(p)[1] \in Robot
    <3>1. Peer(p) \in Interface
      BY <2>3 DEF Mutual, Interface
    <3>. QED BY <3>1 DEF Interface
  <2>5. block'[Peer(p)[1]].targetGrid # <<>>
    BY <1>5, <2>3, <2>4 DEF HasMap
  <2>. QED BY <2>3, <2>5 DEF p, HasMap
<1>. QED BY <1>6, <1>10 DEF ParentsOk, HasMap, Parent

(* A block gets its parent when it gets the map, from one that has it.    *)
LEMMA NoCircleAfter ==
  ASSUME RobotAssumption, Mutual, BlocksOk, QueuesOk, ParentsOk, WaitsAreOwed, NoCircle,
         NEW i, NEW x, NEW n, NEW M, NEW A, Replies(i, x, n, M, A), Handles(i, n)
  PROVE  NoCircle'
<1>1. Changed(x, n)
  BY BlocksAfter
<1>. DEFINE b == x.id
<1>2. /\ i \in Interface /\ Peer(i) \in Interface /\ Peer(Peer(i)) = i /\ Peer(i)[1] = b
      /\ b \in Robot
      /\ ~HasMap(b) => HasMap(i[1])
      /\ HasMap(b) => x.block2Answer \in {Parent(b), NoItf}
      /\ ~HasMap(b) => x.block2Answer \in {Peer(i), NoItf} /\ Parent(b) = NoItf
  BY ReplyIsKnown
<1>3. Parent(b)' = x.block2Answer
  BY <1>1 DEF Changed
<1>4. \A c \in Robot : c # b => Parent(c)' = Parent(c)
  BY <1>1 DEF Changed
<1>5. \A j : Peer(j)' = Peer(j)
  BY <1>1 DEF Changed
<1>. HIDE DEF b
<1>6. ASSUME NEW part \in (SUBSET Robot) \ {{}}
      PROVE  \E c \in part : Parent(c)' = NoItf \/ Peer(Parent(c)')[1] \notin part
  <2>1. CASE b \notin part \/ HasMap(b)
    <3>1. PICK c \in part : Parent(c) = NoItf \/ Peer(Parent(c))[1] \notin part
      BY DEF NoCircle
    <3>2. Parent(c)' \in {Parent(c), NoItf}
      BY <1>2, <1>3, <1>4, <2>1
    <3>. QED BY <3>1, <3>2
  <2>2. CASE b \in part /\ ~HasMap(b) /\ part = {b}
    <3>1. x.block2Answer = NoItf \/ (x.block2Answer = Peer(i) /\ Peer(Peer(i))[1] = i[1] /\ i[1] # b)
      BY <1>2, <2>2
    <3>. QED BY <1>3, <2>2, <3>1
  <2>3. CASE b \in part /\ ~HasMap(b) /\ part # {b}
    <3>1. part \ {b} \in (SUBSET Robot) \ {{}}
      BY <2>3
    <3>2. PICK c \in part \ {b} : Parent(c) = NoItf \/ Peer(Parent(c))[1] \notin part \ {b}
      BY <3>1 DEF NoCircle
    <3>3. Parent(c) # NoItf => Peer(Parent(c))[1] # b
      BY <2>3, <3>2 DEF ParentsOk
    <3>4. Parent(c)' = Parent(c)
      BY <1>4, <3>2
    <3>. QED BY <3>2, <3>3, <3>4
  <2>. QED BY <2>1, <2>2, <2>3
<1>. QED BY <1>5, <1>6 DEF NoCircle, Parent

(* Noise stays behind the map, and a block that gets the map sends it on. *)
LEMMA MapsAheadAfter ==
  ASSUME RobotAssumption, Mutual, BlocksOk, QueuesOk, ParentsOk, WaitsAreOwed, MapsAhead,
         NEW i, NEW x, NEW n, NEW M, NEW A, Replies(i, x, n, M, A), Handles(i, n), n.fails = FALSE
  PROVE  MapsAhead'
<1>1. Changed(x, n)
  BY BlocksAfter
<1>. DEFINE b == x.id
<1>2. /\ i \in Interface /\ Peer(i) \in Interface /\ Peer(Peer(i)) = i /\ Peer(i)[1] = b
      /\ b \in Robot
      /\ ~HasMap(b) => HasMap(i[1])
  BY ReplyIsKnown
<1>3. HasMap(b)'
  BY <1>1 DEF Changed
<1>4. \A c \in Robot : c # b => (HasMap(c)' <=> HasMap(c))
  BY <1>1 DEF Changed
<1>5. \A j : Peer(j)' = Peer(j)
  BY <1>1 DEF Changed
<1>6. ~HasMap(b) => \A j \in {b} \X Face : Peer(j) # NoItf => j \in M \cup {Peer(i)}
  BY DEF Replies
<1>. HIDE DEF b
<1>7. ASSUME NEW j \in Interface, Peer(j) # NoItf, block'[Peer(j)[1]].targetGrid = <<>>
      PROVE  /\ \A k \in DOMAIN queue'[j] : Noise(queue'[j][k]) =>
                  \E e \in DOMAIN queue'[j] : e < k /\ queue'[j][e].type = "MAP"
             /\ HasMap(j[1])' => \E k \in DOMAIN queue'[j] : queue'[j][k].type = "MAP"
  <2>. DEFINE q == queue[j]
              l == Len(q)
              s == n.out[j]
              r == queue'[j]
  <2>1. Peer(j)[1] \in Robot /\ Peer(j)[1] # b /\ j # i /\ j[1] \in Robot
    <3>1. Peer(j) \in Interface
      BY <1>7 DEF Mutual
    <3>2. Peer(j)[1] \in Robot /\ j[1] \in Robot
      BY <3>1 DEF Interface
    <3>3. Peer(j)[1] # b
      BY <1>3, <1>7 DEF HasMap
    <3>. QED BY <1>2, <3>2, <3>3
  <2>2. ~HasMap(Peer(j)[1])
    BY <1>4, <1>7, <2>1 DEF HasMap
  <2>3. QueueGrows(i, n, j)
    BY QueueAfter
  <2>4. [queue EXCEPT ![i] = Tail(queue[i])][j] = queue[j]
    BY <2>1 DEF QueuesOk
  <2>5. /\ l \in Nat /\ DOMAIN q = 1..l /\ DOMAIN s = 1..Len(s) /\ Len(s) \in Nat
        /\ DOMAIN r = 1..(l + Len(s))
        /\ \A k \in 1..l : r[k] = q[k]
        /\ \A k \in 1..Len(s) : r[k + l] = s[k]
        /\ \A k \in DOMAIN r : k \in 1..l \/ (k - l \in 1..Len(s) /\ r[k] = s[k - l])
    BY <2>3, <2>4 DEF QueueGrows
  <2>6. Outgoing(x, n, M, A, j)
    BY OutIs
  <2>. HIDE DEF q, l, s, r
  <2>7. j[1] = b /\ ~HasMap(b) => j \in M
    <3>1. j[1] = b => j \in {b} \X Face
      BY DEF Interface
    <3>2. j = Peer(i) /\ ~HasMap(b) => FALSE
      BY <1>2, <2>2
    <3>. QED BY <1>6, <1>7, <3>1, <3>2
  <2>8. j \in M => 1 + l \in DOMAIN r /\ r[1 + l].type = "MAP"
    <3>. HAVE j \in M
    <3>1. 1 \in 1..Len(s) /\ s[1].type = "MAP"
      BY <2>5, <2>6 DEF Outgoing, s
    <3>. DEFINE z == Len(s)
    <3>2. z \in Nat /\ 1 \in 1..z /\ l \in Nat
      BY <2>5, <3>1
    <3>. HIDE DEF z
    <3>3. 1 + l \in 1..(l + z)
      BY <3>2
    <3>. QED BY <2>5, <3>1, <3>3 DEF z
  <2>9. HasMap(j[1]) => \E e \in 1..l : e \in DOMAIN r /\ r[e].type = "MAP"
    <3>. HAVE HasMap(j[1])
    <3>1. PICK e \in DOMAIN queue[j] : queue[j][e].type = "MAP"
      BY <1>7, <2>2 DEF MapsAhead
    <3>. DEFINE z == Len(s)
    <3>2. z \in Nat /\ e \in 1..l /\ l \in Nat
      BY <2>5, <3>1 DEF q
    <3>. HIDE DEF z
    <3>3. e \in 1..(l + z)
      BY <3>2
    <3>. QED BY <2>5, <3>1, <3>2, <3>3 DEF q, z
  <2>10. ASSUME NEW k \in DOMAIN r, Noise(r[k])
         PROVE  \E e \in DOMAIN r : e < k /\ r[e].type = "MAP"
    <3>1. CASE k \in 1..l
      <4>1. k \in DOMAIN queue[j] /\ Noise(queue[j][k])
        BY <2>5, <2>10, <3>1 DEF q
      <4>2. PICK e \in DOMAIN queue[j] : e < k /\ queue[j][e].type = "MAP"
        BY <1>7, <2>2, <4>1 DEF MapsAhead
      <4>. DEFINE z == Len(s)
      <4>3. z \in Nat /\ e \in 1..l /\ l \in Nat
        BY <2>5, <4>2 DEF q
      <4>. HIDE DEF z
      <4>4. e \in 1..(l + z)
        BY <4>3
      <4>. QED BY <2>5, <4>2, <4>3, <4>4 DEF q, z
    <3>2. CASE k \notin 1..l
      <4>1. k - l \in DOMAIN s /\ r[k] = s[k - l]
        BY <2>5, <3>2
      <4>2. s[k - l].type # "MAP" /\ s[k - l].type # "ACKMAP"
        BY <2>10, <4>1 DEF Noise
      <4>3. (j \in M => k - l > 1) /\ (j[1] = b \/ Peer(j)[1] = b)
        BY <2>6, <4>1, <4>2 DEF Outgoing, s, b
      <4>4. j[1] = b
        BY <2>1, <4>3
      <4>5. k - l >= 1 /\ k \in Int /\ l \in Int
        <5>. DEFINE z == Len(s)
        <5>1. z \in Nat /\ l \in Nat /\ k - l \in 1..z /\ k \in 1..(l + z)
          BY <2>5, <4>1
        <5>. HIDE DEF z
        <5>. QED BY <5>1
      <4>6. CASE HasMap(b)
        <5>1. PICK e \in 1..l : e \in DOMAIN r /\ r[e].type = "MAP"
          BY <2>9, <4>4, <4>6
        <5>2. e < k
          BY <4>5, <5>1
        <5>. QED BY <5>1, <5>2
      <4>7. CASE ~HasMap(b)
        <5>1. j \in M
          BY <2>7, <4>4, <4>7
        <5>2. 1 + l < k
          BY <4>3, <4>5, <5>1
        <5>. QED BY <2>8, <5>1, <5>2
      <4>. QED BY <4>6, <4>7
    <3>. QED BY <3>1, <3>2
  <2>11. HasMap(j[1])' => \E k \in DOMAIN r : r[k].type = "MAP"
    <3>1. HasMap(j[1])' => HasMap(j[1]) \/ (j[1] = b /\ ~HasMap(b))
      BY <1>4, <2>1
    <3>2. HasMap(j[1]) => \E k \in DOMAIN r : r[k].type = "MAP"
      BY <2>9
    <3>3. j[1] = b /\ ~HasMap(b) => \E k \in DOMAIN r : r[k].type = "MAP"
      BY <2>7, <2>8
    <3>. QED BY <3>1, <3>2, <3>3
  <2>. QED BY <2>10, <2>11 DEF r
<1>. QED BY <1>5, <1>7 DEF MapsAhead, HasMap

-----------------------------------------------------------------------------
(* A block that receives a message through i.                              *)
Receiving(i, m) ==
  /\ i \in Interface /\ queue[i] # <<>> /\ Peer(i) # NoItf /\ i # NoItf
  /\ Peer(i) \in Interface /\ Peer(Peer(i)) = i
  /\ Handler(m) /\ m.id = Receiver(i) /\ m.id \in Robot /\ Tied(m) /\ m.fails = FALSE
  /\ \A j \in Interface : m.out[j] = <<>>
  /\ m.nbreOfWaitedAnswers = block[Receiver(i)].nbreOfWaitedAnswers /\ m.nbreOfWaitedAnswers \in Nat
  /\ m.block2Answer = Parent(Receiver(i)) /\ m.targetGrid = block[Receiver(i)].targetGrid
  /\ HasMap(Receiver(i)) => DOMAIN m.targetGrid # {}
  /\ ~HasMap(Receiver(i)) => m.block2Answer = NoItf /\ m.nbreOfWaitedAnswers = 0
  /\ ~HasMap(Receiver(i)) \/ m.block2Answer # NoItf => m.trainNext = NoItf /\ m.motions = <<>>

(* The block at the beginning of its handler.                             *)
LEMMA AwakeIs ==
  ASSUME RobotAssumption, Mutual, BlocksOk, NEW i \in Interface, queue[i] # <<>>, Peer(i) # NoItf
  PROVE  Receiving(i, Awake(block[Receiver(i)]))
<1>. DEFINE b == Receiver(i)
            m == Awake(block[b])
<1>1. Peer(i) \in Interface /\ Peer(Peer(i)) = i /\ b \in Robot /\ i # NoItf
  <2>1. Peer(i) \in Interface /\ Peer(Peer(i)) = i
    BY DEF Mutual
  <2>. QED BY <2>1 DEF Interface, Receiver, RobotAssumption
<1>. HIDE DEF b
<1>2. /\ Record(block[b]) /\ block[b].id = b /\ block[b].fails = FALSE /\ Tied(block[b])
      /\ block[b].nbreOfWaitedAnswers \in Nat
      /\ block[b].targetGrid = <<>> \/ DOMAIN block[b].targetGrid # {}
      /\ ~HasMap(b) => Parent(b) = NoItf /\ block[b].nbreOfWaitedAnswers = 0
      /\ Unready(b) => block[b].trainNext = NoItf /\ block[b].motions = <<>>
  BY <1>1 DEF BlocksOk
<1>3. m = [block[b] EXCEPT !.out = Silence]
  BY DEF Awake
<1>4. Record(m) /\ m.out = Silence /\ \A f \in FieldNames \ {"out"} : m[f] = block[b][f]
  BY <1>2, <1>3 DEF Record, FieldNames
<1>. HIDE DEF m
<1>5. m.id = b /\ m.fails = FALSE /\ m.nbreOfWaitedAnswers = block[b].nbreOfWaitedAnswers
      /\ m.block2Answer = Parent(b) /\ m.targetGrid = block[b].targetGrid
      /\ m.trainNext = block[b].trainNext /\ m.trainPrevious = block[b].trainPrevious
      /\ m.motions = block[b].motions
  BY <1>2, <1>4 DEF FieldNames, Parent
<1>6. \A j \in Interface : m.out[j] = <<>>
  BY <1>4 DEF Silence
<1>7. m.out = [j \in Interface |-> m.out[j]]
  BY <1>4 DEF Silence
<1>8. \A j \in Interface : Sequence(m.out[j])
  <2>1. <<>> \in Seq({})
    OBVIOUS
  <2>2. Sequence(<<>>)
    BY <2>1, SequenceOf
  <2>. QED BY <1>6, <2>2
<1>9. Handler(m)
  BY <1>1, <1>4, <1>5, <1>7, <1>8 DEF Handler
<1>10. Tied(m)
  BY <1>2, <1>5 DEF Tied
<1>11. Receiving(i, m)
  BY <1>1, <1>2, <1>5, <1>6, <1>9, <1>10 DEF Receiving, HasMap, Unready, b
<1>. QED BY <1>11 DEF m, b

(* A message of a train: the flood does not move.                          *)
LEMMA NoiseReplies ==
  ASSUME RobotAssumption, Mutual, BlocksOk, MapsAhead, QueuesOk, NEW i, NEW m, Receiving(i, m), NEW rest,
         Noise(Message(i))
  PROVE  \E x, M, A : Replies(i, x, Handled(m, Message(i), i, Peer(i), rest), M, A)
<1>. DEFINE n == Handled(m, Message(i), i, Peer(i), rest)
<1>1. HasMap(Receiver(i))
  <2>1. queue[i] # <<>> /\ Sequence(queue[i])
    BY DEF QueuesOk, Receiving
  <2>2. 1 \in DOMAIN queue[i] /\ queue[i][1] = Message(i) /\ \A j \in DOMAIN queue[i] : ~(j < 1)
    BY <2>1, HeadIsFirst DEF Message
  <2>3. ~HasMap(Receiver(i)) => \E j \in DOMAIN queue[i] : j < 1
    BY <2>2 DEF MapsAhead, Receiving, Receiver
  <2>. QED BY <2>2, <2>3
<1>2. TiedTo(m.id, i) /\ Near(Peer(i), m.id)
  BY DEF Receiving, TiedTo, Near, Receiver
<1>3. m.block2Answer # NoItf => m.trainNext = NoItf /\ m.motions = <<>>
  BY DEF Receiving
<1>4. NoItf \notin Interface /\ Handler(m)
  BY DEF RobotAssumption, Receiving
<1>5. Quiet(m, n) /\ (m.block2Answer # NoItf => n.trainNext = NoItf /\ n.motions = <<>>)
  BY <1>2, <1>3, <1>4, NoiseIsQuiet
<1>. HIDE DEF n
<1>6. Flooding(m, {}, {})
  BY DEF Flooding, Receiving
<1>7. Message(i).type \notin {"MAP", "ACKMAP"}
  BY DEF Noise
<1>8. Cardinality({}) = 0
  BY FS_EmptySet
<1>9. ASSUME NEW c \in Robot
      PROVE  /\ Taken(i, c) = 0 /\ Sent(i, {}, {}, c) = 0 /\ Gained(i, m, c) = 0 /\ Lost(i, m, c) = 0
             /\ c = m.id => m.nbreOfWaitedAnswers = block[c].nbreOfWaitedAnswers
             /\ block[c].nbreOfWaitedAnswers \in Nat
  BY <1>7, <1>8 DEF Taken, Sent, Acked, Gained, Lost, Receiving, BlocksOk
<1>10. ASSUME NEW c \in Robot
       PROVE  (IF c = m.id THEN m.nbreOfWaitedAnswers ELSE block[c].nbreOfWaitedAnswers)
                = block[c].nbreOfWaitedAnswers - Taken(i, c) + Sent(i, {}, {}, c) + Gained(i, m, c) - Lost(i, m, c)
  BY <1>9 DEF Receiving
<1>11. Replies(i, m, n, {}, {})
  BY <1>1, <1>5, <1>6, <1>10 DEF Replies, Receiving
<1>. QED BY <1>11 DEF n

(* An acknowledgement is sent.                                            *)
LEMMA AckIsFlooding ==
  ASSUME NEW m, Handler(m), \A j \in Interface : m.out[j] = <<>>,
         NEW p \in Interface, Peer(p) # NoItf, p # NoItf
  PROVE  /\ Handler(SendAckMap(m, p)) /\ Flooding(SendAckMap(m, p), {}, {p})
         /\ SendAckMap(m, p) = [m EXCEPT !.out[p] = Append(@, [type |-> "ACKMAP"])]
<1>. DEFINE ack == [type |-> "ACKMAP"]
            n == SendOn(m, p, ack)
<1>1. Sends(m, n, p, ack)
  BY SendOnSends
<1>2. n = SendAckMap(m, p)
  BY DEF SendAckMap
<1>3. SendAckMap(m, p) = [m EXCEPT !.out[p] = Append(@, [type |-> "ACKMAP"])]
  BY DEF SendAckMap, SendOn
<1>. HIDE DEF n
<1>4. Append(<<>>, ack) = <<ack>>
  OBVIOUS
<1>5. \A j \in Interface : n.out[j] = IF j = p THEN <<ack>> ELSE <<>>
  <2>1. \A j \in Interface : n.out[j] = IF j = p THEN Append(m.out[j], ack) ELSE m.out[j]
    BY <1>1 DEF Sends
  <2>. HIDE DEF ack
  <2>. QED BY <1>4, <2>1
<1>6. Flooding(n, {}, {p})
  BY <1>5 DEF Flooding
<1>. QED BY <1>1, <1>2, <1>3, <1>6 DEF Sends

(* The map again: it is acknowledged at once.                             *)
LEMMA RepeatedMapReplies ==
  ASSUME RobotAssumption, BlocksOk, NEW i, NEW m, Receiving(i, m), NEW rest,
         Message(i).type = "MAP", HasMap(Receiver(i))
  PROVE  \E x, M, A : Replies(i, x, Handled(m, Message(i), i, Peer(i), rest), M, A)
<1>. DEFINE n == SendAckMap(m, Peer(i))
<1>1. Handled(m, Message(i), i, Peer(i), rest) = n
  BY DEF Handled, OnMap, Receiving, HasMap
<1>2. Handler(m) /\ Peer(i) \in Interface /\ Peer(Peer(i)) # NoItf /\ Peer(i) # NoItf
      /\ \A j \in Interface : m.out[j] = <<>>
  BY DEF Receiving
<1>3. Handler(n) /\ Flooding(n, {}, {Peer(i)})
  BY <1>2, AckIsFlooding
<1>4. Sends(m, n, Peer(i), [type |-> "ACKMAP"])
  BY <1>2, SendOnSends DEF SendAckMap
<1>. HIDE DEF n
<1>5. /\ n.id = m.id /\ n.targetGrid = m.targetGrid /\ n.block2Answer = m.block2Answer
      /\ n.nbreOfWaitedAnswers = m.nbreOfWaitedAnswers
      /\ n.trainNext = m.trainNext /\ n.trainPrevious = m.trainPrevious /\ n.motions = m.motions
  BY <1>4 DEF Sends
<1>6. Tied(n)
  BY <1>5 DEF Receiving, Tied
<1>7. Quiet(n, n)
  BY <1>3, IdleIsQuiet
<1>8. ASSUME NEW c \in Robot
      PROVE  (IF c = n.id THEN n.nbreOfWaitedAnswers ELSE block[c].nbreOfWaitedAnswers)
                = block[c].nbreOfWaitedAnswers - Taken(i, c) + Sent(i, {}, {Peer(i)}, c)
                    + Gained(i, n, c) - Lost(i, n, c)
  <2>1. Taken(i, c) = IF i[1] = c THEN 1 ELSE 0
    BY DEF Taken
  <2>2. Sent(i, {}, {Peer(i)}, c) = IF i[1] = c THEN 1 ELSE 0
    BY FS_EmptySet DEF Sent, Acked, Receiving
  <2>3. Gained(i, n, c) = 0 /\ Lost(i, n, c) = 0
    BY <1>5 DEF Gained, Lost, Receiving
  <2>4. block[c].nbreOfWaitedAnswers \in Nat
    BY DEF BlocksOk
  <2>5. c = n.id => n.nbreOfWaitedAnswers = block[c].nbreOfWaitedAnswers
    BY <1>5 DEF Receiving
  <2>. QED BY <2>1, <2>2, <2>3, <2>4, <2>5
<1>9. /\ i \in Interface /\ queue[i] # <<>> /\ Peer(i) # NoItf /\ n.id = Receiver(i)
      /\ DOMAIN n.targetGrid # {} /\ n.nbreOfWaitedAnswers \in Int
      /\ n.block2Answer = Parent(Receiver(i))
      /\ n.block2Answer # NoItf => n.trainNext = NoItf /\ n.motions = <<>>
  BY <1>5 DEF Receiving
<1>10. Replies(i, n, n, {}, {Peer(i)})
  BY <1>3, <1>6, <1>7, <1>8, <1>9 DEF Replies
<1>. QED BY <1>1, <1>10

(* A block that has sent its map to its neighbors except one.              *)
Mapped(m, except, n) ==
  /\ Handler(n) /\ Flooding(n, Open(m) \ {except}, {})
  /\ n.id = m.id /\ n.targetGrid = m.targetGrid /\ n.block2Answer = m.block2Answer
  /\ n.nbreOfWaitedAnswers = m.nbreOfWaitedAnswers + Cardinality(Open(m) \ {except})
  /\ n.trainNext = m.trainNext /\ n.trainPrevious = m.trainPrevious /\ n.motions = m.motions
  /\ n.fails = m.fails /\ Cardinality(Open(m) \ {except}) \in Nat /\ IsFiniteSet(Open(m) \ {except})

(* The map is sent to the neighbors.                                       *)
LEMMA MapIsFlooding ==
  ASSUME NoItf \notin Interface, IsFiniteSet(Interface),
         NEW m, Handler(m), \A j \in Interface : m.out[j] = <<>>,
         NEW except, NEW n, n = SendMapToNeighbors(m, except)
  PROVE  Mapped(m, except, n)
<1>. DEFINE on == Open(m) \ {except}
            map == [type |-> "MAP", grid |-> m.targetGrid]
            out == [j \in Interface |-> IF j \in on THEN Append(m.out[j], map) ELSE m.out[j]]
<1>1. m.id \in Robot /\ Record(m)
  BY DEF Handler
<1>2. on \subseteq Interface /\ on \in SUBSET ({m.id} \X Face) /\ \A j \in on : Peer(j) # NoItf
  BY <1>1 DEF Open, Interface
<1>3. IsFiniteSet(on) /\ Cardinality(on) \in Nat
  <2>. HIDE DEF on
  <2>. QED BY <1>2, FS_Subset, FS_CardinalityType
<1>4. n = [[m EXCEPT !.out = out] EXCEPT !.nbreOfWaitedAnswers = @ + Cardinality(on)]
  BY DEF SendMapToNeighbors, SendToAll
<1>5. Append(<<>>, map) = <<map>>
  OBVIOUS
<1>. HIDE DEF on, map
<1>6. \A j \in Interface : out[j] = IF j \in on THEN <<map>> ELSE <<>>
  BY <1>5
<1>7. out = [j \in Interface |-> out[j]]
  OBVIOUS
<1>. HIDE DEF out
<1>. DEFINE sent == [m EXCEPT !.out = out]
<1>8. Record(sent) /\ sent.out = out /\ \A f \in FieldNames \ {"out"} : sent[f] = m[f]
  BY <1>1 DEF Record, FieldNames
<1>9. n = [sent EXCEPT !.nbreOfWaitedAnswers = sent.nbreOfWaitedAnswers + Cardinality(on)]
  BY <1>4
<1>. HIDE DEF sent
<1>10. /\ Record(n) /\ n.nbreOfWaitedAnswers = sent.nbreOfWaitedAnswers + Cardinality(on)
       /\ \A f \in FieldNames \ {"nbreOfWaitedAnswers"} : n[f] = sent[f]
  BY <1>8, <1>9 DEF Record, FieldNames
<1>11. /\ n.id = m.id /\ n.targetGrid = m.targetGrid /\ n.block2Answer = m.block2Answer
       /\ n.nbreOfWaitedAnswers = m.nbreOfWaitedAnswers + Cardinality(on)
       /\ n.trainNext = m.trainNext /\ n.trainPrevious = m.trainPrevious /\ n.motions = m.motions
       /\ n.fails = m.fails /\ n.out = out
  BY <1>8, <1>10 DEF FieldNames
<1>12. \A j \in Interface : Sequence(out[j])
  <2>1. Sequence(<<>>) /\ Sequence(<<map>>)
    <3>1. <<>> \in Seq({map}) /\ <<map>> \in Seq({map})
      OBVIOUS
    <3>. QED BY <3>1, SequenceOf
  <2>. QED BY <1>6, <2>1
<1>13. Handler(n)
  BY <1>7, <1>10, <1>11, <1>12 DEF Handler
<1>14. Flooding(n, on, {})
  BY <1>2, <1>6, <1>11 DEF Flooding, map
<1>. QED BY <1>3, <1>11, <1>13, <1>14 DEF on, Mapped

(* The map for the first time: it is passed on, or, from a block without   *)
(* other neighbors, acknowledged.                                          *)
LEMMA FirstMapReplies ==
  ASSUME RobotAssumption, Mutual, BlocksOk, QueuesOk, NEW i, NEW m, Receiving(i, m), NEW rest,
         Message(i).type = "MAP", ~HasMap(Receiver(i))
  PROVE  \E x, M, A : Replies(i, x, Handled(m, Message(i), i, Peer(i), rest), M, A)
<1>. DEFINE on == Peer(i)
            grid == InitGrid(Message(i).grid, rest)
            asked == [m EXCEPT !.targetGrid = grid, !.block2Answer = on, !.nbreOfWaitedAnswers = 0]
            first == SendMapToNeighbors(asked, on)
            acked == SendAckMap(first, on)
            done == [acked EXCEPT !.block2Answer = NoItf, !.gain = 0]
            last == CalcPossibleMotions(done, NoPoint)
            n == Handled(m, Message(i), i, on, rest)
            M == Open(asked) \ {on}
<1>1. NoItf \notin Interface /\ IsFiniteSet(Interface)
  BY InterfacesAreFinite DEF RobotAssumption
<1>2. /\ i \in Interface /\ queue[i] # <<>> /\ on # NoItf /\ i # NoItf /\ on \in Interface /\ Peer(on) = i
      /\ Handler(m) /\ m.id = Receiver(i) /\ m.id \in Robot /\ Tied(m) /\ m.fails = FALSE
      /\ \A j \in Interface : m.out[j] = <<>>
      /\ block[Receiver(i)].nbreOfWaitedAnswers = 0 /\ Parent(Receiver(i)) = NoItf
      /\ m.targetGrid = <<>> /\ m.trainNext = NoItf /\ m.motions = <<>>
  BY DEF Receiving, HasMap
<1>3. DOMAIN grid # {}
  <2>1. 1 \in DOMAIN queue[i] /\ queue[i][1] = Message(i)
    BY <1>2, HeadIsFirst DEF QueuesOk, Message
  <2>2. DOMAIN Message(i).grid # {}
    BY <1>2, <2>1 DEF QueuesOk
  <2>. QED BY <2>2 DEF InitGrid
<1>4. n = IF first.nbreOfWaitedAnswers = 0 THEN last ELSE first
  BY <1>2 DEF Handled, OnMap
<1>. HIDE DEF grid, n
<1>5. /\ Handler(asked) /\ asked.id = m.id /\ asked.targetGrid = grid /\ asked.block2Answer = on
      /\ asked.nbreOfWaitedAnswers = 0 /\ asked.trainNext = m.trainNext
      /\ asked.trainPrevious = m.trainPrevious /\ asked.motions = m.motions
      /\ asked.fails = m.fails /\ asked.out = m.out
  BY <1>2 DEF Handler, Record, FieldNames
<1>. HIDE DEF asked
<1>6. /\ Handler(first) /\ Flooding(first, M, {})
      /\ first.id = m.id /\ first.targetGrid = grid /\ first.block2Answer = on
      /\ first.nbreOfWaitedAnswers = 0 + Cardinality(M)
      /\ first.trainNext = m.trainNext /\ first.trainPrevious = m.trainPrevious /\ first.motions = m.motions
      /\ first.fails = m.fails /\ Cardinality(M) \in Nat /\ IsFiniteSet(M)
  <2>1. \A j \in Interface : asked.out[j] = <<>>
    BY <1>2, <1>5
  <2>2. Mapped(asked, on, first)
    BY <1>1, <1>5, <2>1, MapIsFlooding
  <2>. QED BY <1>5, <2>2 DEF Mapped
<1>7. \A j \in {m.id} \X Face : Peer(j) # NoItf => j \in M \cup {on}
  BY <1>5 DEF Open
<1>8. \A c \in Robot : block[c].nbreOfWaitedAnswers \in Nat
  BY DEF BlocksOk
<1>. HIDE DEF M, first
<1>9. \A c : Taken(i, c) = IF i[1] = c THEN 1 ELSE 0
  BY DEF Taken
<1>10. CASE first.nbreOfWaitedAnswers # 0
  <2>1. n = first
    BY <1>4, <1>10
  <2>2. Quiet(first, first) /\ Tied(first)
    BY <1>2, <1>6, IdleIsQuiet DEF Tied
  <2>3. ASSUME NEW c \in Robot
        PROVE  (IF c = first.id THEN first.nbreOfWaitedAnswers ELSE block[c].nbreOfWaitedAnswers)
                 = block[c].nbreOfWaitedAnswers - Taken(i, c) + Sent(i, M, {}, c)
                     + Gained(i, first, c) - Lost(i, first, c)
    <3>1. Sent(i, M, {}, c) = IF m.id = c THEN Cardinality(M) ELSE 0
      BY <1>2, <1>6 DEF Sent, Acked
    <3>2. Gained(i, first, c) = IF i[1] = c THEN 1 ELSE 0
      BY <1>2, <1>6 DEF Gained
    <3>3. Lost(i, first, c) = 0
      BY <1>2 DEF Lost
    <3>4. first.id = m.id /\ first.nbreOfWaitedAnswers = 0 + Cardinality(M) /\ Cardinality(M) \in Nat
          /\ block[m.id].nbreOfWaitedAnswers = 0 /\ block[c].nbreOfWaitedAnswers \in Nat
      BY <1>2, <1>6, <1>8
    <3>5. Taken(i, c) = IF i[1] = c THEN 1 ELSE 0
      BY <1>9
    <3>6. CASE c = m.id
      BY <3>1, <3>2, <3>3, <3>4, <3>5, <3>6
    <3>7. CASE c # m.id
      BY <3>1, <3>2, <3>3, <3>4, <3>5, <3>7
    <3>. QED BY <3>6, <3>7
  <2>4. Replies(i, first, first, M, {})
    BY <1>2, <1>3, <1>6, <1>7, <2>2, <2>3 DEF Replies
  <2>. QED BY <2>1, <2>4 DEF n
<1>11. CASE first.nbreOfWaitedAnswers = 0
  <2>1. M = {}
    BY <1>6, <1>11, FS_EmptySet
  <2>2. \A j \in Interface : first.out[j] = <<>>
    BY <1>6, <2>1 DEF Flooding
  <2>3. Peer(on) # NoItf
    BY <1>2
  <2>4. Handler(acked) /\ Flooding(acked, {}, {on})
    BY <1>2, <1>6, <2>2, <2>3, AckIsFlooding
  <2>5. Sends(first, acked, on, [type |-> "ACKMAP"])
    BY <1>6, SendOnSends DEF SendAckMap
  <2>. HIDE DEF acked
  <2>6. /\ acked.id = m.id /\ acked.targetGrid = grid /\ acked.nbreOfWaitedAnswers = 0
        /\ acked.trainNext = m.trainNext /\ acked.trainPrevious = m.trainPrevious
    BY <1>6, <1>11, <2>5 DEF Sends
  <2>7. /\ Handler(done) /\ done.id = acked.id /\ done.targetGrid = acked.targetGrid
        /\ done.nbreOfWaitedAnswers = acked.nbreOfWaitedAnswers /\ done.block2Answer = NoItf
        /\ done.trainNext = acked.trainNext /\ done.trainPrevious = acked.trainPrevious
        /\ done.out = acked.out
    BY <2>4 DEF Handler, Record, FieldNames
  <2>. HIDE DEF done
  <2>8. Flooding(done, {}, {on})
    BY <2>4, <2>7 DEF Flooding
  <2>9. Quiet(done, last)
    BY <1>1, <2>7, CalcPossibleMotionsIsQuiet
  <2>. HIDE DEF last
  <2>10. Tied(done)
    BY <1>2, <2>6, <2>7 DEF Tied
  <2>11. ASSUME NEW c \in Robot
         PROVE  (IF c = done.id THEN done.nbreOfWaitedAnswers ELSE block[c].nbreOfWaitedAnswers)
                  = block[c].nbreOfWaitedAnswers - Taken(i, c) + Sent(i, {}, {on}, c)
                      + Gained(i, done, c) - Lost(i, done, c)
    <3>1. Sent(i, {}, {on}, c) = IF i[1] = c THEN 1 ELSE 0
      BY <1>2, FS_EmptySet DEF Sent, Acked
    <3>2. Gained(i, done, c) = 0 /\ Lost(i, done, c) = 0
      BY <1>2, <2>7 DEF Gained, Lost
    <3>3. c = done.id => block[c].nbreOfWaitedAnswers = 0 /\ done.nbreOfWaitedAnswers = 0
      BY <1>2, <2>6, <2>7
    <3>4. Taken(i, c) = IF i[1] = c THEN 1 ELSE 0
      BY <1>9
    <3>5. block[c].nbreOfWaitedAnswers \in Nat
      BY <1>8
    <3>6. Taken(i, c) = Sent(i, {}, {on}, c) /\ Taken(i, c) \in Nat
      BY <3>1, <3>4
    <3>7. (IF c = done.id THEN done.nbreOfWaitedAnswers ELSE block[c].nbreOfWaitedAnswers)
            = block[c].nbreOfWaitedAnswers
      BY <3>3
    <3>. QED BY <3>2, <3>5, <3>6, <3>7
  <2>12. \A j \in {done.id} \X Face : Peer(j) # NoItf => j \in {} \cup {Peer(i)}
    BY <1>7, <2>1, <2>6, <2>7
  <2>13. /\ i \in Interface /\ queue[i] # <<>> /\ Peer(i) # NoItf /\ Handler(done) /\ done.id = Receiver(i)
         /\ DOMAIN done.targetGrid # {} /\ done.nbreOfWaitedAnswers \in Int /\ done.block2Answer = NoItf
         /\ ~HasMap(Receiver(i)) /\ Message(i).type = "MAP"
    BY <1>2, <1>3, <2>6, <2>7
  <2>14. Replies(i, done, last, {}, {on})
    BY <2>8, <2>9, <2>10, <2>11, <2>12, <2>13 DEF Replies
  <2>. QED BY <1>4, <1>11, <2>14 DEF n
<1>. QED BY <1>10, <1>11

(* An acknowledgement: the last one is passed on to the parent.            *)
LEMMA AckReplies ==
  ASSUME RobotAssumption, Mutual, BlocksOk, QueuesOk, ParentsOk, WaitsAreOwed,
         NEW i, NEW m, Receiving(i, m), NEW rest, Message(i).type = "ACKMAP"
  PROVE  \E x, M, A : Replies(i, x, Handled(m, Message(i), i, Peer(i), rest), M, A)
<1>. DEFINE less == [m EXCEPT !.nbreOfWaitedAnswers = @ - 1]
            p == m.block2Answer
            sent == SendAckMap(less, p)
            acked == [sent EXCEPT !.block2Answer = NoItf]
            alone == [less EXCEPT !.gain = 0]
            done == [acked EXCEPT !.gain = 0]
            n == Handled(m, Message(i), i, Peer(i), rest)
            w == m.nbreOfWaitedAnswers
<1>1. NoItf \notin Interface
  BY DEF RobotAssumption
<1>2. /\ i \in Interface /\ queue[i] # <<>> /\ Peer(i) # NoItf
      /\ Handler(m) /\ m.id = Receiver(i) /\ m.id \in Robot /\ Tied(m)
      /\ \A j \in Interface : m.out[j] = <<>>
      /\ block[Receiver(i)].nbreOfWaitedAnswers = w /\ w \in Nat /\ Parent(Receiver(i)) = p
      /\ p # NoItf => m.trainNext = NoItf /\ m.motions = <<>>
  BY DEF Receiving
<1>3. HasMap(Receiver(i)) /\ w # 0 /\ DOMAIN m.targetGrid # {}
  <2>. DEFINE c == Receiver(i)
              T == Tokens(queue, "ACKMAP", Towards(c))
              a1 == Cardinality(Tokens(queue, "MAP", {c} \X Face))
              a3 == Cardinality(Children(c))
  <2>1. 1 \in DOMAIN queue[i] /\ queue[i][1].type = "ACKMAP"
    BY <1>2, HeadIsFirst DEF QueuesOk, Message
  <2>2. <<i, 1>> \in T
    BY <1>2, <2>1, TokensAre DEF Towards, Receiver
  <2>3. Cardinality(T) \in Nat /\ IsFiniteSet(T) /\ a1 \in Nat /\ a3 \in Nat
    BY <1>2, OwedIsCount
  <2>4. Owed(c) = a1 + Cardinality(T) + a3
    BY <1>2, OwedIs
  <2>5. w = Owed(c)
    BY <1>2 DEF WaitsAreOwed
  <2>. HIDE DEF T, a1, a3
  <2>6. Cardinality(T) # 0
    BY <2>2, <2>3, FS_EmptySet
  <2>7. w # 0
    BY <2>3, <2>4, <2>5, <2>6
  <2>8. HasMap(c)
    BY <1>2, <2>7 DEF BlocksOk
  <2>. QED BY <2>7, <2>8 DEF Receiving
<1>4. n = IF less.nbreOfWaitedAnswers # 0 THEN less
          ELSE CalcPossibleMotions(IF p = NoItf THEN alone ELSE done, NoPoint)
  <2>1. less.block2Answer = p
    BY <1>2 DEF Handler, Record, FieldNames
  <2>. QED BY DEF Handled, OnAckMap
<1>. HIDE DEF n
<1>5. /\ Handler(less) /\ less.id = m.id /\ less.targetGrid = m.targetGrid /\ less.block2Answer = p
      /\ less.nbreOfWaitedAnswers = w - 1 /\ less.trainNext = m.trainNext
      /\ less.trainPrevious = m.trainPrevious /\ less.motions = m.motions /\ less.out = m.out
  BY <1>2 DEF Handler, Record, FieldNames
<1>. HIDE DEF less
<1>6. \A j \in Interface : less.out[j] = <<>>
  BY <1>2, <1>5
<1>7. \A c \in Robot : block[c].nbreOfWaitedAnswers \in Nat
  BY DEF BlocksOk
<1>8. \A c : Taken(i, c) = IF m.id = c THEN 1 ELSE 0
  BY <1>2 DEF Taken
<1>9. Sent(i, {}, {}, m.id) = 0 /\ \A c : Sent(i, {}, {}, c) = 0
  BY FS_EmptySet DEF Sent, Acked
<1>10. Flooding(less, {}, {})
  BY <1>6 DEF Flooding
<1>11. CASE less.nbreOfWaitedAnswers # 0
  <2>1. n = less
    BY <1>4, <1>11
  <2>2. Quiet(less, less) /\ Tied(less)
    BY <1>2, <1>5, IdleIsQuiet DEF Tied
  <2>3. ASSUME NEW c \in Robot
        PROVE  (IF c = less.id THEN less.nbreOfWaitedAnswers ELSE block[c].nbreOfWaitedAnswers)
                 = block[c].nbreOfWaitedAnswers - Taken(i, c) + Sent(i, {}, {}, c)
                     + Gained(i, less, c) - Lost(i, less, c)
    <3>1. Gained(i, less, c) = 0 /\ Lost(i, less, c) = 0
      BY <1>2, <1>5 DEF Gained, Lost
    <3>2. c = less.id => block[c].nbreOfWaitedAnswers = w
      BY <1>2, <1>5
    <3>. QED BY <1>2, <1>5, <1>7, <1>8, <1>9, <3>1, <3>2
  <2>4. Replies(i, less, less, {}, {})
    BY <1>2, <1>3, <1>5, <1>10, <2>2, <2>3 DEF Replies
  <2>. QED BY <2>1, <2>4 DEF n
<1>12. CASE less.nbreOfWaitedAnswers = 0 /\ p = NoItf
  <2>1. n = CalcPossibleMotions(alone, NoPoint)
    BY <1>4, <1>12
  <2>2. /\ Handler(alone) /\ alone.id = m.id /\ alone.targetGrid = m.targetGrid /\ alone.block2Answer = p
        /\ alone.nbreOfWaitedAnswers = w - 1 /\ alone.trainNext = m.trainNext
        /\ alone.trainPrevious = m.trainPrevious /\ alone.motions = m.motions /\ alone.out = m.out
    BY <1>5 DEF Handler, Record, FieldNames
  <2>. HIDE DEF alone
  <2>3. Quiet(alone, n)
    BY <1>1, <2>1, <2>2, CalcPossibleMotionsIsQuiet
  <2>4. Flooding(alone, {}, {}) /\ Tied(alone)
    BY <1>2, <2>2 DEF Flooding, Tied
  <2>5. ASSUME NEW c \in Robot
        PROVE  (IF c = alone.id THEN alone.nbreOfWaitedAnswers ELSE block[c].nbreOfWaitedAnswers)
                 = block[c].nbreOfWaitedAnswers - Taken(i, c) + Sent(i, {}, {}, c)
                     + Gained(i, alone, c) - Lost(i, alone, c)
    <3>1. Gained(i, alone, c) = 0 /\ Lost(i, alone, c) = 0
      BY <1>2, <2>2 DEF Gained, Lost
    <3>2. c = alone.id => block[c].nbreOfWaitedAnswers = w
      BY <1>2, <2>2
    <3>. QED BY <1>2, <1>7, <1>8, <1>9, <2>2, <3>1, <3>2
  <2>6. Replies(i, alone, n, {}, {})
    BY <1>2, <1>3, <1>12, <2>2, <2>3, <2>4, <2>5 DEF Replies
  <2>. QED BY <2>6 DEF n
<1>13. CASE less.nbreOfWaitedAnswers = 0 /\ p # NoItf
  <2>1. n = CalcPossibleMotions(done, NoPoint)
    BY <1>4, <1>13
  <2>2. p \in {m.id} \X Face /\ Peer(p) # NoItf /\ p \in Interface
    <3>1. p \in {m.id} \X Face /\ Peer(p) # NoItf
      BY <1>2, <1>13 DEF ParentsOk
    <3>. QED BY <1>2, <3>1 DEF Interface
  <2>3. Handler(sent) /\ Flooding(sent, {}, {p})
    BY <1>5, <1>6, <1>13, <2>2, AckIsFlooding
  <2>4. Sends(less, sent, p, [type |-> "ACKMAP"])
    BY <1>5, SendOnSends DEF SendAckMap
  <2>. HIDE DEF sent
  <2>5. /\ sent.id = m.id /\ sent.targetGrid = m.targetGrid /\ sent.nbreOfWaitedAnswers = w - 1
        /\ sent.trainNext = m.trainNext /\ sent.trainPrevious = m.trainPrevious
    BY <1>5, <2>4 DEF Sends
  <2>6. /\ Handler(done) /\ done.id = sent.id /\ done.targetGrid = sent.targetGrid
        /\ done.nbreOfWaitedAnswers = sent.nbreOfWaitedAnswers /\ done.block2Answer = NoItf
        /\ done.trainNext = sent.trainNext /\ done.trainPrevious = sent.trainPrevious
        /\ done.out = sent.out
    <3>1. acked = [sent EXCEPT !.block2Answer = NoItf] /\ done = [acked EXCEPT !.gain = 0]
      OBVIOUS
    <3>2. /\ Record(acked) /\ acked.block2Answer = NoItf
          /\ \A f \in FieldNames \ {"block2Answer"} : acked[f] = sent[f]
      BY <2>3 DEF Handler, Record, FieldNames
    <3>. HIDE DEF acked
    <3>3. Record(done) /\ \A f \in FieldNames \ {"gain"} : done[f] = acked[f]
      BY <3>1, <3>2 DEF Record, FieldNames
    <3>. HIDE DEF done
    <3>. QED BY <2>3, <3>2, <3>3 DEF Handler, FieldNames
  <2>. HIDE DEF done
  <2>7. Flooding(done, {}, {p})
    BY <2>3, <2>6 DEF Flooding
  <2>8. Quiet(done, n)
    BY <1>1, <2>1, <2>6, CalcPossibleMotionsIsQuiet
  <2>9. Tied(done)
    BY <1>2, <2>5, <2>6 DEF Tied
  <2>10. ASSUME NEW c \in Robot
         PROVE  (IF c = done.id THEN done.nbreOfWaitedAnswers ELSE block[c].nbreOfWaitedAnswers)
                  = block[c].nbreOfWaitedAnswers - Taken(i, c) + Sent(i, {}, {p}, c)
                      + Gained(i, done, c) - Lost(i, done, c)
    <3>1. Sent(i, {}, {p}, c) = IF Peer(p)[1] = c THEN 1 ELSE 0
      BY FS_EmptySet DEF Sent, Acked
    <3>2. Gained(i, done, c) = 0 /\ Lost(i, done, c) = IF Peer(p)[1] = c THEN 1 ELSE 0
      BY <1>2, <1>13, <2>6 DEF Gained, Lost
    <3>3. c = done.id => block[c].nbreOfWaitedAnswers = w
      BY <1>2, <2>5, <2>6
    <3>. QED BY <1>2, <1>7, <1>8, <2>5, <2>6, <3>1, <3>2, <3>3
  <2>11. /\ i \in Interface /\ queue[i] # <<>> /\ Peer(i) # NoItf /\ Handler(done) /\ done.id = Receiver(i)
         /\ DOMAIN done.targetGrid # {} /\ done.nbreOfWaitedAnswers \in Int /\ done.block2Answer = NoItf
         /\ HasMap(Receiver(i))
    <3>1. w - 1 \in Int
      BY <1>2
    <3>. QED BY <1>2, <1>3, <2>5, <2>6, <3>1
  <2>12. Replies(i, done, n, {}, {p})
    BY <2>7, <2>8, <2>9, <2>10, <2>11 DEF Replies
  <2>. QED BY <2>12 DEF n
<1>. QED BY <1>11, <1>12, <1>13

-----------------------------------------------------------------------------
(* Whatever is received is a reply of the flood.                           *)
LEMMA ReceptionReplies ==
  ASSUME RobotAssumption, Mutual, Waiting, NEW i, NEW m, Receiving(i, m), NEW rest
  PROVE  \E x, M, A : Replies(i, x, Handled(m, Message(i), i, Peer(i), rest), M, A)
<1>1. BlocksOk /\ QueuesOk /\ ParentsOk /\ MapsAhead /\ WaitsAreOwed
  BY DEF Waiting
<1>2. Echo(Message(i)) \/ Noise(Message(i))
  <2>1. i \in Interface /\ queue[i] # <<>> /\ Sequence(queue[i])
    BY <1>1 DEF QueuesOk, Receiving
  <2>2. 1 \in DOMAIN queue[i] /\ queue[i][1] = Message(i)
    BY <2>1, HeadIsFirst DEF Message
  <2>. QED BY <1>1, <2>1, <2>2 DEF QueuesOk
<1>3. CASE Noise(Message(i))
  BY <1>1, <1>3, NoiseReplies
<1>4. CASE Message(i).type = "MAP" /\ HasMap(Receiver(i))
  BY <1>1, <1>4, RepeatedMapReplies
<1>5. CASE Message(i).type = "MAP" /\ ~HasMap(Receiver(i))
  BY <1>1, <1>5, FirstMapReplies
<1>6. CASE Message(i).type = "ACKMAP"
  BY <1>1, <1>6, AckReplies
<1>. QED BY <1>2, <1>3, <1>4, <1>5, <1>6 DEF Echo

(* A reply that does not fail leaves the flood in order.                   *)
LEMMA ReplyKeepsWaiting ==
  ASSUME RobotAssumption, Mutual, Waiting,
         NEW i, NEW x, NEW n, NEW M, NEW A, Replies(i, x, n, M, A), Handles(i, n), n.fails = FALSE
  PROVE  Waiting'
<1>1. BlocksOk /\ QueuesOk /\ ParentsOk /\ MapsAhead /\ WaitsAreOwed /\ NoCircle
      /\ moving = {} /\ ends = {} /\ (\E s \in Start : place = s.cells) /\ \E b \in Robot : HasMap(b)
  BY DEF Waiting
<1>2. Changed(x, n)
  BY <1>1, BlocksAfter
<1>3. BlocksOk'
  BY <1>1, BlocksOkAfter
<1>4. QueuesOk'
  <2>1. \A j : Peer(j)' = Peer(j)
    BY <1>2 DEF Changed
  <2>. QED BY <1>1, <2>1, QueuesOkAfter
<1>5. ParentsOk'
  BY <1>1, ParentsOkAfter
<1>6. MapsAhead'
  BY <1>1, MapsAheadAfter
<1>7. WaitsAreOwed'
  BY <1>1, WaitsAfter
<1>8. NoCircle'
  BY <1>1, NoCircleAfter
<1>9. \E b \in Robot : HasMap(b)'
  <2>1. \A b \in Robot : HasMap(b) => HasMap(b)'
    BY <1>2 DEF Changed
  <2>. QED BY <1>1, <2>1
<1>10. place' = place /\ moving' = moving /\ ends' = ends
  BY DEF Handles
<1>. QED BY <1>1, <1>3, <1>4, <1>5, <1>6, <1>7, <1>8, <1>9, <1>10 DEF Waiting

(* The blocks do not move as long as no train has left.                    *)
LEMMA WaitingLinksAreMutual ==
  ASSUME RobotAssumption, Waiting
  PROVE  /\ Mutual
         /\ \A part \in (SUBSET Robot) \ {{}, Robot} :
              \E i \in Interface : i[1] \in part /\ Peer(i) # NoItf /\ Peer(i)[1] \in Robot \ part
<1>1. PICK s \in Start : moving = {} /\ place = s.cells
  BY DEF Waiting
<1>2. /\ \A i \in Interface : Peer(i) # NoItf => Peer(i) \in Interface /\ Peer(Peer(i)) = i
      /\ \A part \in (SUBSET Robot) \ {{}, Robot} :
           \E i \in Interface : i[1] \in part /\ Peer(i) # NoItf /\ Peer(i)[1] \in Robot \ part
  BY <1>1, LinksAreMutual
<1>. QED BY <1>2 DEF Mutual

(* A reception, before and after the first departure.                      *)
LEMMA ReceiveKeepsEcho ==
  ASSUME RobotAssumption, EchoInv, NEW i \in Interface, Receive(i)
  PROVE  EchoInv'
<1>1. trains' = trains /\ trains \in Nat /\ ~robotCrashed
  BY DEF Receive, EchoInv
<1>2. CASE trains # 0
  BY <1>1, <1>2 DEF EchoInv
<1>3. CASE trains = 0
  <2>1. Waiting
    BY <1>1, <1>3 DEF EchoInv
  <2>2. Mutual
    BY <2>1, WaitingLinksAreMutual
  <2>3. BlocksOk
    BY <2>1 DEF Waiting
  <2>4. queue[i] # <<>> /\ Peer(i) # NoItf
    BY DEF Receive
  <2>. DEFINE m == Awake(block[Receiver(i)])
  <2>5. Receiving(i, m)
    BY <2>2, <2>3, <2>4, AwakeIs
  <2>6. PICK rest \in Rest : Handles(i, Handled(m, Message(i), i, Peer(i), rest))
    BY DEF Receive, Handles, Message, Receiver
  <2>. HIDE DEF m
  <2>. DEFINE n == Handled(m, Message(i), i, Peer(i), rest)
  <2>7. PICK x, M, A : Replies(i, x, n, M, A)
    BY <2>1, <2>2, <2>5, ReceptionReplies
  <2>8. Handles(i, n)
    BY <2>6
  <2>. HIDE DEF n
  <2>9. robotCrashed' = n.fails /\ n.fails \in BOOLEAN
    BY <2>7, <2>8 DEF Handles, Effect, Replies, Quiet, Handler
  <2>10. n.fails = FALSE => Waiting'
    BY <2>1, <2>2, <2>7, <2>8, ReplyKeepsWaiting
  <2>. QED BY <1>1, <1>3, <2>9, <2>10 DEF EchoInv
<1>. QED BY <1>2, <1>3

(* Nothing is lost and nobody moves before the first departure.            *)
LEMMA OthersKeepEcho ==
  ASSUME RobotAssumption, EchoInv,
         (\E i \in Interface : Drop(i)) \/ \E b \in Robot : Depart(b) \/ Land(b) \/ TranslationEnd(b)
  PROVE  EchoInv'
<1>1. trains \in Nat
  BY DEF EchoInv
<1>2. CASE \E b \in Robot : Depart(b)
  <2>1. trains' = trains + 1
    BY <1>2 DEF Depart
  <2>2. trains' \in Nat /\ trains' # 0
    BY <1>1, <2>1
  <2>. QED BY <2>2 DEF EchoInv
<1>3. ASSUME ~\E b \in Robot : Depart(b)
      PROVE  trains' = trains /\ ~robotCrashed
  BY <1>3 DEF Drop, Land, TranslationEnd
<1>4. CASE trains # 0 /\ ~\E b \in Robot : Depart(b)
  BY <1>1, <1>3, <1>4 DEF EchoInv
<1>5. CASE trains = 0 /\ ~\E b \in Robot : Depart(b)
  <2>1. moving = {} /\ ends = {} /\ \A i \in Interface : Peer(i) = NoItf => queue[i] = <<>>
    BY <1>3, <1>5 DEF EchoInv, Waiting, QueuesOk
  <2>2. ~\E i \in Interface : Drop(i)
    BY <2>1 DEF Drop
  <2>3. ~\E b \in Robot : Land(b)
    BY <2>1 DEF Land
  <2>4. ~\E b \in Robot : TranslationEnd(b)
    BY <2>1 DEF TranslationEnd
  <2>. QED BY <1>5, <2>2, <2>3, <2>4
<1>. QED BY <1>2, <1>4, <1>5

(* Nor when nothing happens.                                               *)
LEMMA StutteringKeepsEcho ==
  ASSUME EchoInv, UNCHANGED robotVars
  PROVE  EchoInv'
<1>1. /\ place' = place /\ moving' = moving /\ block' = block /\ queue' = queue /\ ends' = ends
      /\ robotCrashed' = robotCrashed /\ trains' = trains
  BY DEF robotVars
<1>2. \A j : Peer(j)' = Peer(j)
  BY <1>1 DEF Peer
<1>3. \A b : HasMap(b)' = HasMap(b) /\ Parent(b)' = Parent(b) /\ Unready(b)' = Unready(b)
  BY <1>1 DEF HasMap, Parent, Unready
<1>4. \A b : Tied(block[b])' = Tied(block[b])
  BY <1>1, <1>2 DEF Tied, TiedTo
<1>5. BlocksOk' = BlocksOk
  BY <1>1, <1>3, <1>4 DEF BlocksOk
<1>6. QueuesOk' = QueuesOk
  BY <1>1, <1>2 DEF QueuesOk
<1>7. ParentsOk' = ParentsOk
  BY <1>2, <1>3 DEF ParentsOk
<1>8. MapsAhead' = MapsAhead
  BY <1>1, <1>2, <1>3 DEF MapsAhead
<1>9. WaitsAreOwed' = WaitsAreOwed
  <2>1. \A c : Owed(c)' = Owed(c)
    <3>. TAKE c
    <3>1. InTransit("MAP", {c} \X Face)' = InTransit("MAP", {c} \X Face)
      BY <1>1 DEF InTransit
    <3>2. Towards(c)' = Towards(c)
      BY <1>2 DEF Towards
    <3>3. InTransit("ACKMAP", Towards(c))' = InTransit("ACKMAP", Towards(c))
      BY <1>1, <3>2 DEF InTransit
    <3>4. Children(c)' = Children(c)
      BY <1>1, <1>2 DEF Children
    <3>. QED BY <3>1, <3>3, <3>4 DEF Owed
  <2>. QED BY <1>1, <2>1 DEF WaitsAreOwed
<1>10. NoCircle' = NoCircle
  BY <1>2, <1>3 DEF NoCircle
<1>. QED BY <1>1, <1>3, <1>5, <1>6, <1>7, <1>8, <1>9, <1>10 DEF EchoInv, Waiting

-----------------------------------------------------------------------------
(* A block that starts. *)
Fresh(m, b, grid) ==
  /\ Record(m) /\ m.id = b /\ m.targetGrid = grid /\ m.block2Answer = NoItf
  /\ m.nbreOfWaitedAnswers = 0 /\ m.trainNext = NoItf /\ m.trainPrevious = NoItf /\ m.motions = <<>>
  /\ m.fails = FALSE /\ m.out = Silence

(* The fields of a block that starts.                                      *)
LEMMA FieldsAre ==
  ASSUME NEW b, NEW grid
  PROVE  Fresh(Awake(Fields(b, grid)), b, grid)
<1>. DEFINE m == Awake(Fields(b, grid))
            f == Fields(b, grid)
<1>1. /\ Record(f) /\ f.id = b /\ f.targetGrid = grid /\ f.block2Answer = NoItf
      /\ f.nbreOfWaitedAnswers = 0 /\ f.trainNext = NoItf /\ f.trainPrevious = NoItf /\ f.motions = <<>>
      /\ f.fails = FALSE
  BY DEF Fields, Record, FieldNames
<1>2. m = [f EXCEPT !.out = Silence]
  BY DEF Awake
<1>. HIDE DEF f, m
<1>3. Record(m) /\ m.out = Silence /\ \A x \in FieldNames \ {"out"} : m[x] = f[x]
  BY <1>1, <1>2 DEF Record, FieldNames
<1>4. /\ m.id = b /\ m.targetGrid = grid /\ m.block2Answer = NoItf
      /\ m.nbreOfWaitedAnswers = 0 /\ m.trainNext = NoItf /\ m.trainPrevious = NoItf /\ m.motions = <<>>
      /\ m.fails = FALSE
  BY <1>1, <1>3 DEF FieldNames
<1>. QED BY <1>3, <1>4 DEF Fresh, m

(* The start: the master sends its map.                                    *)
LEMMA StartIsWaiting ==
  ASSUME RobotAssumption, NEW s \in Start, NEW rest, StartFrom(s, rest)
  PROVE  EchoInv
<1>. DEFINE b == s.master
            grid == InitGrid(s.target, rest)
            m == Awake(Fields(b, grid))
            x == SendMapToNeighbors(m, NoItf)
            M == Open(m) \ {NoItf}
<1>1. /\ b \in Robot /\ NoItf \notin Interface /\ IsFiniteSet(Interface)
      /\ moving = {} /\ ends = {} /\ place = s.cells /\ trains = 0 /\ robotCrashed = FALSE
  BY InterfacesAreFinite DEF RobotAssumption, StartFrom
<1>2. DOMAIN grid # {}
  BY DEF InitGrid, RobotAssumption
<1>. HIDE DEF grid
<1>3. /\ Record(m) /\ m.id = b /\ m.targetGrid = grid /\ m.block2Answer = NoItf
      /\ m.nbreOfWaitedAnswers = 0 /\ m.trainNext = NoItf /\ m.trainPrevious = NoItf /\ m.motions = <<>>
      /\ m.fails = FALSE /\ m.out = Silence
  <2>1. Fresh(m, b, grid)
    BY FieldsAre
  <2>. QED BY <2>1 DEF Fresh
<1>4. Sequence(<<>>) /\ Silence = [j \in Interface |-> Silence[j]] /\ \A j \in Interface : Silence[j] = <<>>
  <2>1. <<>> \in Seq({})
    OBVIOUS
  <2>. QED BY <2>1, SequenceOf DEF Silence
<1>. DEFINE Started(c) == Startup(c, s, rest)
<1>5. /\ block = [c \in Robot |-> Asleep(Started(c))]
      /\ queue = [j \in Interface |-> Started(j[1]).out[j]]
  BY DEF StartFrom
<1>6. Started(b) = x
  BY DEF Startup, grid
<1>7. \A c \in Robot : c # b => Started(c) = Awake(Fields(c, <<>>))
  BY DEF Startup
<1>. HIDE DEF m, Started, b
<1>8. Handler(m) /\ \A j \in Interface : m.out[j] = <<>>
  BY <1>1, <1>3, <1>4 DEF Handler
<1>9. /\ Handler(x) /\ Flooding(x, M, {})
      /\ x.id = m.id /\ x.targetGrid = m.targetGrid /\ x.block2Answer = m.block2Answer
      /\ x.nbreOfWaitedAnswers = m.nbreOfWaitedAnswers + Cardinality(M)
      /\ x.trainNext = m.trainNext /\ x.trainPrevious = m.trainPrevious /\ x.motions = m.motions
      /\ x.fails = m.fails /\ Cardinality(M) \in Nat /\ IsFiniteSet(M)
  <2>1. Mapped(m, NoItf, x)
    BY <1>1, <1>8, MapIsFlooding
  <2>. QED BY <2>1 DEF Mapped
<1>10. \A j \in Interface : j[1] = b /\ Peer(j) # NoItf => j \in M
  BY <1>1, <1>3 DEF Open, Interface
<1>. HIDE DEF x, M
<1>11. /\ Handler(x) /\ Flooding(x, M, {}) /\ x.id = b /\ x.targetGrid = grid /\ x.block2Answer = NoItf
       /\ x.nbreOfWaitedAnswers = Cardinality(M) /\ Cardinality(M) \in Nat
       /\ x.trainNext = NoItf /\ x.trainPrevious = NoItf /\ x.motions = <<>> /\ x.fails = FALSE
  BY <1>3, <1>9
<1>12. ASSUME NEW c \in Robot
       PROVE  /\ Record(Started(c)) /\ Started(c).id = c /\ Started(c).block2Answer = NoItf
              /\ Started(c).nbreOfWaitedAnswers = (IF c = b THEN Cardinality(M) ELSE 0)
              /\ Started(c).trainNext = NoItf /\ Started(c).trainPrevious = NoItf /\ Started(c).motions = <<>>
              /\ Started(c).targetGrid = (IF c = b THEN grid ELSE <<>>)
              /\ \A j \in Interface : j[1] = c => Started(c).out[j] = x.out[j]
  <2>1. CASE c = b
    BY <1>6, <1>11, <2>1 DEF Handler
  <2>2. CASE c # b
    <3>1. /\ Record(Started(c)) /\ Started(c).id = c /\ Started(c).block2Answer = NoItf
          /\ Started(c).nbreOfWaitedAnswers = 0
          /\ Started(c).trainNext = NoItf /\ Started(c).trainPrevious = NoItf /\ Started(c).motions = <<>>
          /\ Started(c).targetGrid = <<>> /\ Started(c).out = Silence
      <4>1. Fresh(Awake(Fields(c, <<>>)), c, <<>>)
        BY FieldsAre
      <4>2. Started(c) = Awake(Fields(c, <<>>))
        BY <1>7, <2>2
      <4>. QED BY <4>1, <4>2 DEF Fresh
    <3>2. \A j \in Interface : j[1] = c => j \notin M
      BY <1>11, <2>2 DEF Flooding
    <3>3. \A j \in Interface : j[1] = c => x.out[j] = <<>>
      BY <1>11, <3>2 DEF Flooding
    <3>. QED BY <1>4, <2>2, <3>1, <3>3
  <2>. QED BY <2>1, <2>2
<1>13. ASSUME NEW c \in Robot
       PROVE  /\ Record(block[c]) /\ block[c].id = c /\ block[c].fails = FALSE /\ Parent(c) = NoItf
              /\ block[c].nbreOfWaitedAnswers = (IF c = b THEN Cardinality(M) ELSE 0)
              /\ block[c].trainNext = NoItf /\ block[c].trainPrevious = NoItf /\ block[c].motions = <<>>
              /\ block[c].targetGrid = (IF c = b THEN grid ELSE <<>>)
  <2>. DEFINE z == Started(c)
              y == Asleep(z)
  <2>1. block[c] = y
    BY <1>5
  <2>2. Record(z)
    BY <1>12
  <2>. HIDE DEF z
  <2>3. Record(y) /\ y.fails = FALSE /\ \A f \in FieldNames \ {"out", "depart", "fails"} : y[f] = z[f]
    BY <2>2 DEF Asleep, Record, FieldNames
  <2>. HIDE DEF y
  <2>4. /\ y.id = z.id /\ y.block2Answer = z.block2Answer /\ y.nbreOfWaitedAnswers = z.nbreOfWaitedAnswers
        /\ y.trainNext = z.trainNext /\ y.trainPrevious = z.trainPrevious /\ y.motions = z.motions
        /\ y.targetGrid = z.targetGrid
    BY <2>3 DEF FieldNames
  <2>. QED BY <1>12, <2>1, <2>3, <2>4 DEF Parent, z
<1>14. \A c \in Robot : HasMap(c) <=> c = b
  <2>1. grid # <<>>
    BY <1>2
  <2>2. \A c \in Robot : block[c].targetGrid = IF c = b THEN grid ELSE <<>>
    BY <1>13
  <2>. QED BY <2>1, <2>2 DEF HasMap
<1>15. \A j \in Interface : queue[j] = x.out[j]
  <2>. TAKE j \in Interface
  <2>1. j[1] \in Robot
    BY DEF Interface
  <2>2. queue[j] = Started(j[1]).out[j]
    BY <1>5
  <2>. QED BY <1>12, <2>1, <2>2
<1>16. \A j \in Interface : queue[j] = IF j \in M THEN <<[type |-> "MAP", grid |-> grid]>> ELSE <<>>
  BY <1>11, <1>15 DEF Flooding
<1>17. BlocksOk
  <2>1. \A c \in Robot : Tied(block[c])
    BY <1>13 DEF Tied, TiedTo
  <2>2. block = [c \in Robot |-> block[c]]
    BY <1>5
  <2>3. \A c \in Robot : HasMap(c) => DOMAIN block[c].targetGrid # {}
    BY <1>2, <1>13, <1>14
  <2>4. \A c \in Robot : Record(block[c]) /\ block[c].id = c /\ block[c].fails = FALSE /\ Parent(c) = NoItf
          /\ block[c].trainNext = NoItf /\ block[c].motions = <<>>
    BY <1>13
  <2>5. \A c \in Robot : block[c].nbreOfWaitedAnswers = IF c = b THEN Cardinality(M) ELSE 0
    BY <1>13
  <2>6. \A c \in Robot : block[c].nbreOfWaitedAnswers \in Nat /\ (~HasMap(c) => block[c].nbreOfWaitedAnswers = 0)
    BY <1>11, <1>14, <2>5
  <2>7. \A c \in Robot : block[c].targetGrid = <<>> \/ DOMAIN block[c].targetGrid # {}
    BY <2>3 DEF HasMap
  <2>. QED BY <2>1, <2>2, <2>4, <2>6, <2>7 DEF BlocksOk
<1>18. QueuesOk
  <2>1. queue = [j \in Interface |-> queue[j]]
    BY <1>5
  <2>2. \A j \in Interface : Sequence(queue[j])
    BY <1>11, <1>15 DEF Handler
  <2>3. \A j \in Interface : Peer(j) = NoItf => queue[j] = <<>>
    BY <1>11, <1>16 DEF Flooding
  <2>4. \A j \in Interface : \A k \in DOMAIN queue[j] : queue[j][k] = [type |-> "MAP", grid |-> grid]
    BY <1>16
  <2>5. \A j \in Interface : \A k \in DOMAIN queue[j] : Echo(queue[j][k]) /\ DOMAIN queue[j][k].grid # {}
    BY <1>2, <2>4 DEF Echo
  <2>. QED BY <2>1, <2>2, <2>3, <2>5 DEF QueuesOk
<1>19. ParentsOk /\ NoCircle
  <2>1. \A c \in Robot : Parent(c) = NoItf
    BY <1>13
  <2>2. ParentsOk
    BY <2>1 DEF ParentsOk
  <2>3. ASSUME NEW part \in (SUBSET Robot) \ {{}}
        PROVE  \E c \in part : Parent(c) = NoItf
    BY <2>1
  <2>4. NoCircle
    BY <2>3 DEF NoCircle
  <2>. QED BY <2>2, <2>4
<1>20. MapsAhead
  <2>1. \A j \in Interface : \A k \in DOMAIN queue[j] : ~Noise(queue[j][k])
    BY <1>16 DEF Noise
  <2>2. ASSUME NEW j \in Interface, Peer(j) # NoItf, HasMap(j[1])
        PROVE  1 \in DOMAIN queue[j] /\ queue[j][1].type = "MAP"
    <3>1. j[1] \in Robot
      BY DEF Interface
    <3>2. j \in M
      BY <1>10, <1>14, <2>2, <3>1
    <3>. QED BY <1>16, <3>2
  <2>. QED BY <2>1, <2>2 DEF MapsAhead
<1>21. WaitsAreOwed
  <2>1. ASSUME NEW c \in Robot
        PROVE  Owed(c) = IF c = b THEN Cardinality(M) ELSE 0
    <3>1. Tokens(queue, "MAP", {c} \X Face) = Tokens(x.out, "MAP", {c} \X Face)
      BY <1>15 DEF Tokens, Interface
    <3>2. Tokens(queue, "ACKMAP", Towards(c)) = Tokens(x.out, "ACKMAP", Towards(c))
      BY <1>15 DEF Tokens, Towards
    <3>3. FloodingCounts(x, M, {}, c)
      BY <1>1, <1>11, FloodingTokens
    <3>4. Acked({}, c) = 0
      BY DEF Acked
    <3>5. Children(c) = {}
      BY <1>1, <1>13 DEF Children, Parent
    <3>6. Cardinality(Children(c)) = 0
      BY <3>5, FS_EmptySet
    <3>7. Owed(c) = Cardinality(Tokens(queue, "MAP", {c} \X Face))
                      + Cardinality(Tokens(queue, "ACKMAP", Towards(c))) + Cardinality(Children(c))
      BY OwedIs
    <3>. QED BY <1>11, <3>1, <3>2, <3>3, <3>4, <3>6, <3>7 DEF FloodingCounts
  <2>. QED BY <1>13, <2>1 DEF WaitsAreOwed
<1>22. \E c \in Robot : HasMap(c)
  BY <1>1, <1>14 DEF b
<1>23. Waiting
  BY <1>1, <1>17, <1>18, <1>19, <1>20, <1>21, <1>22 DEF Waiting
<1>. QED BY <1>1, <1>23 DEF EchoInv

-----------------------------------------------------------------------------
(* What is owed, and the end of the echo.                                  *)
LEMMA NothingOwed ==
  ASSUME RobotAssumption, Waiting, NEW c \in Robot, Owed(c) = 0
  PROVE  /\ \A i \in Interface : i[1] = c => \A k \in DOMAIN queue[i] : queue[i][k].type # "MAP"
         /\ \A d \in Robot : Parent(d) \in Interface => Peer(Parent(d))[1] # c
<1>. DEFINE T == Tokens(queue, "MAP", {c} \X Face)
            U == Tokens(queue, "ACKMAP", Towards(c))
            V == Children(c)
<1>1. /\ Cardinality(T) \in Nat /\ IsFiniteSet(T) /\ Cardinality(U) \in Nat
      /\ Cardinality(V) \in Nat /\ IsFiniteSet(V)
  BY OwedIsCount DEF Waiting
<1>2. Owed(c) = Cardinality(T) + Cardinality(U) + Cardinality(V)
  BY OwedIs
<1>3. \A i \in Interface : \A k :
        i[1] = c /\ k \in DOMAIN queue[i] /\ queue[i][k].type = "MAP" => <<i, k>> \in T
  <2>1. \A i \in Interface : i[1] = c => i \in {c} \X Face
    BY DEF Interface
  <2>. QED BY <2>1, TokensAre
<1>4. \A d \in Robot : Parent(d) \in Interface /\ Peer(Parent(d))[1] = c => d \in V
  BY DEF Children, Parent
<1>. HIDE DEF T, U, V
<1>5. Cardinality(T) = 0 /\ Cardinality(V) = 0
  BY <1>1, <1>2
<1>6. T = {} /\ V = {}
  BY <1>1, <1>5, FS_EmptySet
<1>. QED BY <1>3, <1>4, <1>6

(* When no root waits for answers nobody does, and the map is everywhere. *)
LEMMA EchoIsComplete ==
  ASSUME RobotAssumption, Waiting,
         \A b \in Robot : HasMap(b) /\ Parent(b) = NoItf => block[b].nbreOfWaitedAnswers = 0
  PROVE  \A b \in Robot : HasMap(b) /\ block[b].nbreOfWaitedAnswers = 0
<1>1. /\ BlocksOk /\ ParentsOk /\ MapsAhead /\ WaitsAreOwed /\ NoCircle
      /\ (\E b \in Robot : HasMap(b)) /\ NoItf \notin Interface
  BY DEF Waiting, RobotAssumption
<1>2. /\ Mutual
      /\ \A part \in (SUBSET Robot) \ {{}, Robot} :
           \E i \in Interface : i[1] \in part /\ Peer(i) # NoItf /\ Peer(i)[1] \in Robot \ part
  BY WaitingLinksAreMutual
<1>3. \A b \in Robot : Parent(b) = NoItf
  <2>. DEFINE part == {c \in Robot : Parent(c) # NoItf}
  <2>1. SUFFICES ASSUME part # {} PROVE FALSE
    OBVIOUS
  <2>2. PICK c \in part : Peer(Parent(c))[1] \notin part
    BY <1>1, <2>1 DEF NoCircle
  <2>. DEFINE d == Peer(Parent(c))[1]
  <2>3. Parent(c) \in Interface /\ Peer(Parent(c)) # NoItf /\ HasMap(d)
    BY <1>1, <2>2 DEF ParentsOk, Interface
  <2>4. d \in Robot
    <3>1. Peer(Parent(c)) \in Interface
      BY <1>2, <2>3 DEF Mutual
    <3>. QED BY <3>1 DEF Interface
  <2>5. Owed(d) = 0
    BY <1>1, <2>2, <2>3, <2>4 DEF WaitsAreOwed
  <2>. QED BY <2>2, <2>3, <2>4, <2>5, NothingOwed
<1>4. \A b \in Robot : block[b].nbreOfWaitedAnswers = 0
  BY <1>1, <1>3 DEF BlocksOk
<1>5. \A b \in Robot : HasMap(b)
  <2>. DEFINE part == {c \in Robot : HasMap(c)}
  <2>1. SUFFICES ASSUME part # Robot PROVE FALSE
    OBVIOUS
  <2>2. PICK i \in Interface : i[1] \in part /\ Peer(i) # NoItf /\ Peer(i)[1] \in Robot \ part
    <3>1. part \in (SUBSET Robot) \ {{}, Robot}
      BY <1>1, <2>1
    <3>. HIDE DEF part
    <3>. QED BY <1>2, <3>1
  <2>3. \E k \in DOMAIN queue[i] : queue[i][k].type = "MAP"
    BY <1>1, <2>2 DEF MapsAhead
  <2>4. Owed(i[1]) = 0
    BY <1>1, <1>4, <2>2 DEF WaitsAreOwed
  <2>. QED BY <2>2, <2>3, <2>4, NothingOwed
<1>. QED BY <1>4, <1>5

(* The invariant says what is wanted.                                     *)
LEMMA EchoInvImplies ==
  ASSUME RobotAssumption, EchoInv
  PROVE  EchoIsExact
<1>1. ASSUME trains = 0, ~robotCrashed
      PROVE  /\ \A b \in Robot : block[b].nbreOfWaitedAnswers = Owed(b)
             /\ (\A b \in Robot : block[b].targetGrid # <<>> /\ block[b].block2Answer = NoItf
                                  => block[b].nbreOfWaitedAnswers = 0)
                => \A b \in Robot : block[b].targetGrid # <<>> /\ block[b].nbreOfWaitedAnswers = 0
  <2>1. Waiting
    BY <1>1 DEF EchoInv
  <2>2. \A b \in Robot : block[b].nbreOfWaitedAnswers = Owed(b)
    BY <2>1 DEF Waiting, WaitsAreOwed
  <2>3. (\A b \in Robot : HasMap(b) /\ Parent(b) = NoItf => block[b].nbreOfWaitedAnswers = 0)
          => \A b \in Robot : HasMap(b) /\ block[b].nbreOfWaitedAnswers = 0
    BY <2>1, EchoIsComplete
  <2>. QED BY <2>2, <2>3 DEF HasMap, Parent
<1>. QED BY <1>1 DEF EchoIsExact

(* The flood with its acknowledgements is in order until the first train   *)
(* leaves: queues, parents and counts of answers (sendMapToNeighbors,      *)
(* sendAckMap and their handlers), whatever the first trains do meanwhile. *)
THEOREM EchoInvariance ==
  ASSUME RobotAssumption
  PROVE  RobotSpec => []EchoInv
<1>1. RobotInit => EchoInv
  BY StartIsWaiting DEF RobotInit
<1>2. ASSUME EchoInv, RobotNext
      PROVE  EchoInv'
  <2>1. CASE \E i \in Interface : Receive(i)
    BY <1>2, <2>1, ReceiveKeepsEcho
  <2>2. CASE (\E i \in Interface : Drop(i)) \/ \E b \in Robot : Depart(b) \/ Land(b) \/ TranslationEnd(b)
    BY <1>2, <2>2, OthersKeepEcho
  <2>. QED BY <1>2, <2>1, <2>2 DEF RobotNext
<1>3. ASSUME EchoInv, UNCHANGED robotVars
      PROVE  EchoInv'
  BY <1>3, StutteringKeepsEcho
<1>. QED BY <1>1, <1>2, <1>3, PTL DEF RobotSpec

(* As long as no train has left, the answers that a block waits for are    *)
(* those it is owed, and when no block without a parent waits, every block *)
(* has the map and waits for nobody.                                       *)
THEOREM EchoExactness ==
  ASSUME RobotAssumption
  PROVE  RobotSpec => []EchoIsExact
<1>1. EchoInv => EchoIsExact
  BY EchoInvImplies
<1>. QED BY <1>1, EchoInvariance, PTL
=============================================================================
