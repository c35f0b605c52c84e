--------------------------- MODULE DistanceFlood ---------------------------
(***************************************************************************)
(* The block code distanceRB: every block computes how many hops it is     *)
(* away from the master, the block whose id is 1.  The blocks do not move  *)
(* and nothing is cut, so that a message that is sent is received once;    *)
(* but it is sent after a random delay, and the messages of a link arrive  *)
(* in any order.  The runs are on a lattice (MCDistanceFlood).             *)
(***************************************************************************)
EXTENDS Integers, FiniteSets

CONSTANTS Block, Master,
          Link,          \* the pairs of blocks whose interfaces are connected
          MaxDistance,   \* UINT16_MAX, which also stands for "unknown"
          HopDistance    \* what the block code computes

ASSUME FloodAssumption ==
  /\ IsFiniteSet(Block)
  /\ Master \in Block
  /\ Link \subseteq Block \X Block
  /\ \A b, c \in Block : <<b, c>> \in Link => b # c /\ <<c, b>> \in Link
  /\ MaxDistance \in Nat \ {0}

Distance == 0..MaxDistance

(* A function that is 0 at the master and grows by at most 1 over a link:  *)
(* a lower bound of the number of hops.                                    *)
Potential == {H \in [Block -> Distance] :
                /\ H[Master] = 0
                /\ \A b, c \in Block : <<b, c>> \in Link => H[c] <= H[b] + 1}

(* The number of hops, or MaxDistance if it is not smaller, is the         *)
(* greatest of them.                                                       *)
ASSUME HopDistanceAssumption ==
  /\ HopDistance \in Potential
  /\ \A H \in Potential : \A b \in Block : H[b] <= HopDistance[b]

VARIABLES
  distance,        \* of each block; not initialized before its first startup()
  inTransit,       \* on each link, how many messages with each distance
  pendingStarts    \* how many times startup() of each block is still to run

vars == <<distance, inTransit, pendingStarts>>

(* startup() runs when the code starts, and again for each neighbour that  *)
(* was added to the block when the world linked it: BlockCode takes        *)
(* EVENT_ADD_NEIGHBOR for a start.                                         *)
Starts == [b \in Block |-> 1 + Cardinality({c \in Block : <<b, c>> \in Link})]

Started(b) == pendingStarts[b] < Starts[b]

AllStarted == \A b \in Block : pendingStarts[b] = 0

Quiet == \A l \in Link, d \in Distance : inTransit[l][d] = 0

Init == /\ distance \in [Block -> Distance]
        /\ inTransit = [l \in Link |-> [d \in Distance |-> 0]]
        /\ pendingStarts = Starts

-----------------------------------------------------------------------------
(* What is in transit once b has sent d to its neighbours except those of  *)
(* a set.                                                                  *)
SendMessageToAllNeighbors(transit, b, d, except) ==
  [l \in Link |-> IF l[1] = b /\ l[2] \notin except
                  THEN [transit[l] EXCEPT ![d] = @ + 1] ELSE transit[l]]

Startup(b) ==
  /\ pendingStarts[b] > 0
  /\ pendingStarts' = [pendingStarts EXCEPT ![b] = @ - 1]
  /\ distance' = [distance EXCEPT ![b] = IF b = Master THEN 0 ELSE MaxDistance]
  /\ inTransit' = IF b = Master THEN SendMessageToAllNeighbors(inTransit, b, 0, {})
                                ELSE inTransit

(* Mutant: the receiver does not count its own hop.                        *)
HopForgotten(d) == d

(* uint16_t d = *(msg->getData())+1 *)
Hop(d) == (d + 1) % (MaxDistance + 1)

Delivered(l, data) == [inTransit EXCEPT ![l][data] = @ - 1]

(* Mutants: a block relays only the first distance it learns; it keeps     *)
(* the first distance it learns; it leaves a message it has no use for.    *)
RelaysOnce(sender, b, data) ==
  LET d == Hop(data)
      transit == Delivered(<<sender, b>>, data)
  IN  IF distance[b] > d
      THEN /\ distance' = [distance EXCEPT ![b] = d]
           /\ inTransit' = IF distance[b] = MaxDistance
                           THEN SendMessageToAllNeighbors(transit, b, d, {sender}) ELSE transit
      ELSE /\ inTransit' = transit
           /\ UNCHANGED distance

KeepsFirst(sender, b, data) ==
  LET d == Hop(data)
      transit == Delivered(<<sender, b>>, data)
  IN  IF distance[b] = MaxDistance /\ d < MaxDistance
      THEN /\ distance' = [distance EXCEPT ![b] = d]
           /\ inTransit' = SendMessageToAllNeighbors(transit, b, d, {sender})
      ELSE /\ inTransit' = transit
           /\ UNCHANGED distance

TakesIfBetter(sender, b, data) ==
  LET d == Hop(data)
  IN  IF distance[b] > d
      THEN /\ distance' = [distance EXCEPT ![b] = d]
           /\ inTransit' = SendMessageToAllNeighbors(Delivered(<<sender, b>>, data), b, d, {sender})
      ELSE UNCHANGED <<inTransit, distance>>

MyBroadcastMsgFunc(sender, b, data) ==
  LET d == Hop(data)
      transit == Delivered(<<sender, b>>, data)
  IN  IF distance[b] > d
      THEN /\ distance' = [distance EXCEPT ![b] = d]
           /\ inTransit' = SendMessageToAllNeighbors(transit, b, d, {sender})
      ELSE /\ inTransit' = transit
           /\ UNCHANGED distance

(* All the starts are at date 0, and a message takes 2000 at least. *)
Receive(sender, b, data) ==
  /\ AllStarted
  /\ <<sender, b>> \in Link
  /\ inTransit[<<sender, b>>][data] > 0
  /\ MyBroadcastMsgFunc(sender, b, data)
  /\ UNCHANGED pendingStarts

Next == \/ \E b \in Block : Startup(b)
        \/ \E sender, b \in Block, data \in Distance : Receive(sender, b, data)

Spec == Init /\ [][Next]_vars

(* The scheduler thread consumes events as long as there are any. *)
FairSpec == Spec /\ WF_vars(Next)

-----------------------------------------------------------------------------
TypeOK == /\ distance \in [Block -> Distance]
          /\ inTransit \in [Link -> [Distance -> Nat]]
          /\ pendingStarts \in [Block -> Nat]
          /\ \A b \in Block : pendingStarts[b] <= Starts[b]

(* No block ever believes it is closer to the master than it is, and no    *)
(* message says so, in whatever order the messages arrive                  *)
(* (myBROADCAST_MSGFunc; the sum of 16 bits does not wrap).                *)
NeverUnderestimates ==
  /\ \A b \in Block : Started(b) => HopDistance[b] <= distance[b]
  /\ \A l \in Link, d \in Distance : inTransit[l][d] > 0 => HopDistance[l[1]] <= d

(* A block whose distance is too large for that of its neighbour will hear *)
(* from it: although startup() runs several times, each time forgetting    *)
(* the distance, and a block does not answer the sender of its distance    *)
(* (the guard and the exception of myBROADCAST_MSGFunc).                   *)
BetterDistanceIsComing ==
  \A b, c \in Block :
    /\ <<b, c>> \in Link
    /\ Started(b) /\ Started(c)
    /\ distance[b] < MaxDistance
    => \/ distance[c] <= distance[b] + 1
       \/ \E d \in 0..distance[b] : inTransit[<<b, c>>][d] > 0

(* Before the last start only the master has sent, and its messages are    *)
(* all there.                                                              *)
NothingReceivedYet ==
  ~AllStarted =>
    /\ \A b \in Block \ {Master} : Started(b) => distance[b] = MaxDistance
    /\ \A l \in Link, d \in Distance : inTransit[l][d] > 0 => l[1] = Master
    /\ Started(Master) => \A l \in Link : l[1] = Master => inTransit[l][0] > 0

(* What a block has sent was its distance, and its distance only shrinks;  *)
(* it sends only when it has one.                                          *)
MessagesAreOld ==
  \A l \in Link, d \in Distance :
    inTransit[l][d] > 0 => Started(l[1]) /\ distance[l[1]] <= d /\ d < MaxDistance

(* The inductive invariant: the starts, which run startup() of a block     *)
(* several times, and the flood do not disturb each other, and the master  *)
(* keeps its 0 (startup, myBROADCAST_MSGFunc).                             *)
FloodInv == /\ TypeOK
            /\ NeverUnderestimates
            /\ BetterDistanceIsComing
            /\ NothingReceivedYet
            /\ MessagesAreOld
            /\ Started(Master) => distance[Master] = 0

(* When no message is left, the distances are exact.                       *)
FloodIsExact == AllStarted /\ Quiet => distance = HopDistance

(* The distances of the blocks stop changing (a block sends only when its  *)
(* distance shrinks).                                                      *)
FloodSettles == <>[](AllStarted /\ Quiet)
=============================================================================
