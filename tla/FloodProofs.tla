------------------------------ MODULE FloodProofs ------------------------------
(***************************************************************************)
(* The floods end exactly, on any links and in whatever order the messages *)
(* are received: distanceRB with a bound on the distances, then those of   *)
(* sphereCatoms3D, smartBlocks1 and csgCatoms3D.  The balls around their   *)
(* source are defined by recursion: what they are is proved from their     *)
(* definition with the least counterexample.                               *)
(***************************************************************************)
EXTENDS DistanceFlood, Floods, Bags, FiniteSetTheorems, WellFoundedInduction, TLAPS

-----------------------------------------------------------------------------
(* distanceRB *)
(* Every block has a first startup() (CodeStartEvent).                     *)
LEMMA StartsType == Starts \in [Block -> Nat \ {0}]
<1> SUFFICES ASSUME NEW b \in Block
             PROVE  1 + Cardinality({c \in Block : <<b, c>> \in Link}) \in Nat \ {0}
    BY DEF Starts
<1>1. IsFiniteSet({c \in Block : <<b, c>> \in Link})
  BY FloodAssumption, FS_Subset
<1>2. Cardinality({c \in Block : <<b, c>> \in Link}) \in Nat
  BY <1>1, FS_CardinalityType
<1> QED  BY <1>2

(* A number below n is its own remainder (the uint16_t of distanceRB).     *)
LEMMA SmallRemainder ==
  ASSUME NEW n \in Nat \ {0}, NEW x \in 0..(n - 1)
  PROVE  x % n = x
<1> DEFINE q == x \div n
           r == x % n
<1>1. q \in Int /\ r \in 0..(n - 1) /\ x = n * q + r
  BY SMTT(30)
<1> HIDE DEF q, r
<1>2. q = 0
  <2>1. CASE q >= 1
    <3>1. n * q >= n
      BY <2>1, <1>1, SMTT(30)
    <3> QED  BY <3>1, <1>1
  <2>2. CASE q <= -1
    <3>1. n * q <= -n
      BY <2>2, <1>1, SMTT(30)
    <3> QED  BY <3>1, <1>1
  <2> QED  BY <2>1, <2>2, <1>1
<1>3. r = x
  BY <1>1, <1>2
<1> QED  BY <1>3 DEF r

(* The 16-bit sum of the receiver does not wrap for a distance that is     *)
(* known.                                                                  *)
LEMMA HopIsNext ==
  ASSUME NEW d \in Distance, d < MaxDistance
  PROVE  Hop(d) = d + 1 /\ Hop(d) \in Distance
<1>1. /\ d + 1 \in 0..MaxDistance
      /\ d + 1 \in 0..((MaxDistance + 1) - 1)
      /\ MaxDistance + 1 \in Nat \ {0}
  BY FloodAssumption DEF Distance
<1>2. (d + 1) % (MaxDistance + 1) = d + 1
  <2> DEFINE n == MaxDistance + 1
             x == d + 1
  <2>1. n \in Nat \ {0} /\ x \in 0..(n - 1)
    BY <1>1
  <2> HIDE DEF n, x
  <2>2. x % n = x
    BY <2>1, SmallRemainder
  <2> QED  BY <2>2 DEF n, x
<1> QED  BY <1>1, <1>2 DEF Hop, Distance

(* What a broadcast adds to the messages on their way                      *)
(* (sendMessageToAllNeighbors).                                            *)
LEMMA SendEffect ==
  ASSUME NEW transit \in [Link -> [Distance -> Nat]],
         NEW b \in Block, NEW d \in Distance, NEW except
  PROVE  LET sent == SendMessageToAllNeighbors(transit, b, d, except)
         IN  /\ sent \in [Link -> [Distance -> Nat]]
             /\ \A l \in Link, e \in Distance :
                  /\ transit[l][e] > 0 => sent[l][e] > 0
                  /\ sent[l][e] > 0 => transit[l][e] > 0 \/ (l[1] = b /\ e = d)
             /\ \A l \in Link : l[1] = b /\ l[2] \notin except => sent[l][d] > 0
<1> DEFINE sent == SendMessageToAllNeighbors(transit, b, d, except)
<1>1. ASSUME NEW l \in Link
      PROVE  /\ sent[l] \in [Distance -> Nat]
             /\ \A e \in Distance : transit[l][e] > 0 => sent[l][e] > 0
             /\ \A e \in Distance : sent[l][e] > 0 => transit[l][e] > 0 \/ (l[1] = b /\ e = d)
             /\ l[1] = b /\ l[2] \notin except => sent[l][d] > 0
  <2>1. transit[l] \in [Distance -> Nat]
    OBVIOUS
  <2>2. CASE l[1] = b /\ l[2] \notin except
    <3>1. sent[l] = [transit[l] EXCEPT ![d] = @ + 1]
      BY <2>2 DEF SendMessageToAllNeighbors
    <3> QED  BY <2>1, <2>2, <3>1
  <2>3. CASE ~(l[1] = b /\ l[2] \notin except)
    <3>1. sent[l] = transit[l]
      BY <2>3 DEF SendMessageToAllNeighbors
    <3> QED  BY <2>1, <2>3, <3>1
  <2> QED  BY <2>2, <2>3
<1>2. sent \in [Link -> [Distance -> Nat]]
  BY <1>1 DEF SendMessageToAllNeighbors
<1> QED  BY <1>1, <1>2

(* What the delivery of one message takes away (NetworkInterfaceReceive    *)
(* Event).                                                                 *)
LEMMA DeliveredEffect ==
  ASSUME NEW l \in Link, NEW d \in Distance,
         inTransit \in [Link -> [Distance -> Nat]],
         inTransit[l][d] > 0
  PROVE  /\ Delivered(l, d) \in [Link -> [Distance -> Nat]]
         /\ \A k \in Link, e \in Distance :
              /\ Delivered(l, d)[k][e] > 0 => inTransit[k][e] > 0
              /\ inTransit[k][e] > 0 => Delivered(l, d)[k][e] > 0 \/ (k = l /\ e = d)
<1>1. inTransit[l] \in [Distance -> Nat] /\ inTransit[l][d] - 1 \in Nat
  OBVIOUS
<1>2. [inTransit[l] EXCEPT ![d] = @ - 1] \in [Distance -> Nat]
  BY <1>1
<1>3. Delivered(l, d) = [inTransit EXCEPT ![l] = [inTransit[l] EXCEPT ![d] = @ - 1]]
  BY DEF Delivered
<1>4. Delivered(l, d) \in [Link -> [Distance -> Nat]]
  BY <1>2, <1>3
<1>5. ASSUME NEW k \in Link, NEW e \in Distance
      PROVE  /\ Delivered(l, d)[k][e] > 0 => inTransit[k][e] > 0
             /\ inTransit[k][e] > 0 => Delivered(l, d)[k][e] > 0 \/ (k = l /\ e = d)
  <2>1. inTransit[k] \in [Distance -> Nat]
    OBVIOUS
  <2>2. CASE k = l
    <3>1. Delivered(l, d)[k] = [inTransit[l] EXCEPT ![d] = @ - 1]
      BY <1>3, <2>2
    <3> QED  BY <1>1, <2>1, <2>2, <3>1
  <2>3. CASE k # l
    <3>1. Delivered(l, d)[k] = inTransit[k]
      BY <1>3, <2>3
    <3> QED  BY <2>1, <2>3, <3>1
  <2> QED  BY <2>2, <2>3
<1> QED  BY <1>4, <1>5

-----------------------------------------------------------------------------
(* Nothing is started and nothing is on its way at the beginning.          *)
LEMMA FloodInit == Init => FloodInv
<1> SUFFICES ASSUME Init PROVE FloodInv
    OBVIOUS
<1>1. TypeOK
  <2>1. \A b \in Block : Starts[b] \in Nat
    BY StartsType
  <2> QED  BY <2>1, StartsType DEF Init, TypeOK
<1>2. \A b \in Block : ~Started(b)
  BY StartsType DEF Init, Started
<1>3. \A l \in Link, d \in Distance : inTransit[l][d] = 0
  BY DEF Init
<1> QED  BY <1>1, <1>2, <1>3, FloodAssumption
         DEF FloodInv, NeverUnderestimates, BetterDistanceIsComing, NothingReceivedYet, MessagesAreOld

(* startup() preserves the invariant, the first time and the others.       *)
LEMMA FloodStartup ==
  ASSUME FloodInv, NEW x \in Block, Startup(x)
  PROVE  FloodInv'
<1> USE FloodAssumption
<1>0. /\ MaxDistance \in Distance /\ 0 \in Distance
      /\ \A b \in Block : Starts[b] \in Nat \ {0}
      /\ Link \subseteq Block \X Block
  BY StartsType DEF Distance
<1>1. /\ pendingStarts \in [Block -> Nat]
      /\ distance \in [Block -> Distance]
      /\ inTransit \in [Link -> [Distance -> Nat]]
      /\ \A b \in Block : pendingStarts[b] <= Starts[b]
  BY DEF FloodInv, TypeOK
<1>2. /\ pendingStarts[x] > 0
      /\ pendingStarts' = [pendingStarts EXCEPT ![x] = @ - 1]
      /\ distance' = [distance EXCEPT ![x] = IF x = Master THEN 0 ELSE MaxDistance]
      /\ ~AllStarted
  BY <1>1 DEF Startup, AllStarted
<1>3. /\ \A b \in Block : Started(b) => Started(b)'
      /\ \A b \in Block \ {x} : Started(b)' => Started(b)
      /\ Started(x)'
  BY <1>0, <1>1, <1>2 DEF Started
<1>4. /\ distance' \in [Block -> Distance]
      /\ \A b \in Block \ {x} : distance'[b] = distance[b]
      /\ distance'[x] = IF x = Master THEN 0 ELSE MaxDistance
  BY <1>0, <1>1, <1>2
<1>5. /\ inTransit' \in [Link -> [Distance -> Nat]]
      /\ \A l \in Link, d \in Distance :
           /\ inTransit[l][d] > 0 => inTransit'[l][d] > 0
           /\ inTransit'[l][d] > 0 => inTransit[l][d] > 0 \/ (x = Master /\ l[1] = Master /\ d = 0)
      /\ x = Master => \A l \in Link : l[1] = Master => inTransit'[l][0] > 0
  <2>1. CASE x = Master
    BY <1>0, <1>1, <2>1, SendEffect DEF Startup
  <2>2. CASE x # Master
    BY <1>1, <2>2 DEF Startup
  <2> QED  BY <2>1, <2>2
<1>6. /\ \A b \in Block \ {Master} : Started(b) => distance[b] = MaxDistance
      /\ \A l \in Link, d \in Distance : inTransit[l][d] > 0 => l[1] = Master
      /\ Started(Master) => \A l \in Link : l[1] = Master => inTransit[l][0] > 0
      /\ Started(Master) => distance[Master] = 0
  BY <1>2 DEF FloodInv, NothingReceivedYet
(* Still nobody but the master has a distance. *)
<1>7. /\ \A b \in Block \ {Master} : Started(b)' => distance'[b] = MaxDistance
      /\ \A l \in Link, d \in Distance : inTransit'[l][d] > 0 => l[1] = Master
      /\ Started(Master)' => \A l \in Link : l[1] = Master => inTransit'[l][0] > 0
      /\ Started(Master)' => distance'[Master] = 0
  <2>1. \A b \in Block \ {Master} : Started(b)' => distance'[b] = MaxDistance
    BY <1>3, <1>4, <1>6
  <2>2. \A l \in Link, d \in Distance : inTransit'[l][d] > 0 => l[1] = Master
    BY <1>5, <1>6
  <2>3. Started(Master)' => \A l \in Link : l[1] = Master => inTransit'[l][0] > 0
    BY <1>0, <1>3, <1>5, <1>6
  <2>4. Started(Master)' => distance'[Master] = 0
    BY <1>3, <1>4, <1>6
  <2> QED  BY <2>1, <2>2, <2>3, <2>4
<1>8. TypeOK'
  BY <1>0, <1>1, <1>2, <1>4, <1>5 DEF TypeOK
<1>9. NeverUnderestimates'
  <2>1. /\ HopDistance[Master] = 0
        /\ \A b \in Block : HopDistance[b] \in Distance
    BY HopDistanceAssumption DEF Potential
  <2>2. \A b \in Block : Started(b)' => HopDistance[b] <= distance'[b]
    BY <1>7, <2>1 DEF Distance
  <2>3. \A l \in Link, d \in Distance : inTransit'[l][d] > 0 => HopDistance[l[1]] <= d
    BY <1>7, <2>1 DEF Distance
  <2> QED  BY <2>2, <2>3 DEF NeverUnderestimates
<1>10. BetterDistanceIsComing'
  <2> SUFFICES ASSUME NEW b \in Block, NEW c \in Block, <<b, c>> \in Link,
                      Started(b)', Started(c)', distance'[b] < MaxDistance
               PROVE  \E d \in 0..distance'[b] : inTransit'[<<b, c>>][d] > 0
      BY DEF BetterDistanceIsComing
  <2>1. b = Master
    BY <1>7
  <2>2. distance'[b] = 0 /\ inTransit'[<<b, c>>][0] > 0
    BY <1>7, <2>1
  <2> QED  BY <2>2
<1>11. NothingReceivedYet'
  BY <1>7 DEF NothingReceivedYet
<1>12. MessagesAreOld'
  <2> SUFFICES ASSUME NEW l \in Link, NEW d \in Distance, inTransit'[l][d] > 0
               PROVE  Started(l[1])' /\ distance'[l[1]] <= d /\ d < MaxDistance
      BY DEF MessagesAreOld
  <2>1. l[1] = Master
    BY <1>7
  <2>2. Started(Master)'
    BY <1>3, <1>5, <2>1 DEF FloodInv, MessagesAreOld
  <2>3. d < MaxDistance
    BY <1>0, <1>5 DEF FloodInv, MessagesAreOld
  <2> QED  BY <1>7, <2>1, <2>2, <2>3 DEF Distance
<1> QED  BY <1>7, <1>8, <1>9, <1>10, <1>11, <1>12 DEF FloodInv

(* A receipt preserves the invariant, whatever message arrives first.      *)
LEMMA FloodReceive ==
  ASSUME FloodInv, NEW s \in Block, NEW b \in Block, NEW data \in Distance, Receive(s, b, data)
  PROVE  FloodInv'
<1> USE FloodAssumption
<1> DEFINE l0 == <<s, b>>
           e == data + 1
<1>0. /\ AllStarted /\ AllStarted'
      /\ pendingStarts' = pendingStarts
      /\ l0 \in Link /\ l0[1] = s /\ l0[2] = b /\ s # b
      /\ inTransit[l0][data] > 0
      /\ Link \subseteq Block \X Block
  BY DEF Receive, AllStarted
<1>1. /\ pendingStarts \in [Block -> Nat]
      /\ distance \in [Block -> Distance]
      /\ inTransit \in [Link -> [Distance -> Nat]]
  BY DEF FloodInv, TypeOK
<1>2. \A x \in Block : Started(x) /\ Started(x)'
  BY <1>0, StartsType DEF AllStarted, Started
<1>3. \A l \in Link : l[1] \in Block /\ l[2] \in Block /\ l = <<l[1], l[2]>>
  BY <1>0
<1>4. /\ distance[s] <= data /\ data < MaxDistance
      /\ Hop(data) = e /\ e \in Distance
  BY <1>0, HopIsNext DEF FloodInv, MessagesAreOld
<1>5. /\ Delivered(l0, data) \in [Link -> [Distance -> Nat]]
      /\ \A l \in Link, d \in Distance :
           /\ Delivered(l0, data)[l][d] > 0 => inTransit[l][d] > 0
           /\ inTransit[l][d] > 0 => Delivered(l0, data)[l][d] > 0 \/ (l = l0 /\ d = data)
  BY <1>0, <1>1, DeliveredEffect
<1> HIDE DEF l0
(* What both branches have in common: the distance of b is now at most e,  *)
(* and when it changed, b has told its other neighbours.                   *)
<1>6. /\ distance' \in [Block -> Distance]
      /\ \A x \in Block \ {b} : distance'[x] = distance[x]
      /\ distance'[b] <= distance[b] /\ distance'[b] <= e
      /\ distance'[b] # distance[b] => distance'[b] = e
      /\ inTransit' \in [Link -> [Distance -> Nat]]
      /\ \A l \in Link, d \in Distance :
           /\ inTransit'[l][d] > 0 =>
                inTransit[l][d] > 0 \/ (l[1] = b /\ d = e /\ distance'[b] = e /\ e < distance[b])
           /\ inTransit[l][d] > 0 => inTransit'[l][d] > 0 \/ (l = l0 /\ d = data)
      /\ distance'[b] # distance[b] =>
           \A l \in Link : l[1] = b /\ l[2] # s => inTransit'[l][e] > 0
  <2>1. CASE distance[b] > e
    <3>1. /\ distance' = [distance EXCEPT ![b] = e]
          /\ inTransit' = SendMessageToAllNeighbors(Delivered(l0, data), b, e, {s})
      BY <1>4, <2>1 DEF Receive, MyBroadcastMsgFunc, l0
    <3>2. /\ distance' \in [Block -> Distance] /\ distance'[b] = e
          /\ \A x \in Block \ {b} : distance'[x] = distance[x]
      BY <1>1, <1>4, <3>1
    <3>3. /\ inTransit' \in [Link -> [Distance -> Nat]]
          /\ \A l \in Link, d \in Distance :
               /\ Delivered(l0, data)[l][d] > 0 => inTransit'[l][d] > 0
               /\ inTransit'[l][d] > 0 => Delivered(l0, data)[l][d] > 0 \/ (l[1] = b /\ d = e)
          /\ \A l \in Link : l[1] = b /\ l[2] \notin {s} => inTransit'[l][e] > 0
      BY <1>4, <1>5, <3>1, SendEffect
    <3>4. distance[b] \in Int /\ e \in Int
      BY <1>1, <1>4 DEF Distance
    <3>5. \A l \in Link, d \in Distance :
            /\ inTransit'[l][d] > 0 =>
                 inTransit[l][d] > 0 \/ (l[1] = b /\ d = e /\ distance'[b] = e /\ e < distance[b])
            /\ inTransit[l][d] > 0 => inTransit'[l][d] > 0 \/ (l = l0 /\ d = data)
      BY <1>5, <2>1, <3>2, <3>3, <3>4
    <3> HIDE DEF e
    <3>6. distance'[b] <= distance[b] /\ distance'[b] <= e
      BY <2>1, <3>2, <3>4
    <3> QED  BY <3>2, <3>3, <3>5, <3>6
  <2>2. CASE ~(distance[b] > e)
    <3>1. distance' = distance /\ inTransit' = Delivered(l0, data)
      BY <1>4, <2>2 DEF Receive, MyBroadcastMsgFunc, l0
    <3>2. distance[b] \in Int /\ e \in Int
      BY <1>1, <1>4 DEF Distance
    <3>3. distance'[b] <= distance[b] /\ distance'[b] <= e
      BY <2>2, <3>1, <3>2
    <3> QED  BY <1>1, <1>5, <3>1, <3>3
  <2> QED  BY <2>1, <2>2
<1>7. /\ data \in Int /\ 0 <= data /\ MaxDistance \in Int
      /\ \A x \in Block : distance[x] \in Int /\ distance'[x] \in Int /\ 0 <= distance'[x]
      /\ \A x \in Block : distance'[x] <= distance[x]
  <2>1. \A x \in Block : distance[x] \in Int /\ distance'[x] \in Int /\ 0 <= distance'[x]
    BY <1>1, <1>6 DEF Distance
  <2>2. \A x \in Block : distance'[x] <= distance[x]
    BY <1>6, <2>1
  <2> QED  BY <2>1, <2>2 DEF Distance
<1>8. TypeOK'
  BY <1>0, <1>1, <1>6 DEF TypeOK, FloodInv
<1>9. NeverUnderestimates'
  <2>0. /\ \A x \in Block : HopDistance[x] \in Int /\ HopDistance[x] <= distance[x]
        /\ HopDistance[s] <= data /\ HopDistance[b] <= HopDistance[s] + 1
        /\ \A l \in Link, d \in Distance : inTransit[l][d] > 0 => HopDistance[l[1]] <= d
    <3>1. \A x \in Block : HopDistance[x] \in Int
      BY HopDistanceAssumption DEF Potential, Distance
    <3>2. HopDistance[b] <= HopDistance[s] + 1
      BY <1>0, HopDistanceAssumption DEF Potential, l0
    <3>3. /\ \A x \in Block : HopDistance[x] <= distance[x]
          /\ \A l \in Link, d \in Distance : inTransit[l][d] > 0 => HopDistance[l[1]] <= d
      BY <1>2 DEF FloodInv, NeverUnderestimates
    <3> QED  BY <1>0, <3>1, <3>2, <3>3
  <2>1. HopDistance[b] <= e
    BY <1>7, <2>0
  <2>2. \A x \in Block : HopDistance[x] <= distance'[x]
    BY <1>6, <2>0, <2>1
  <2>3. \A l \in Link, d \in Distance : inTransit'[l][d] > 0 => HopDistance[l[1]] <= d
    BY <1>6, <2>0, <2>1
  <2> QED  BY <2>2, <2>3 DEF NeverUnderestimates
<1>10. BetterDistanceIsComing'
  <2> SUFFICES ASSUME NEW x \in Block, NEW y \in Block, <<x, y>> \in Link,
                      distance'[x] < MaxDistance,
                      ~(distance'[y] <= distance'[x] + 1)
               PROVE  \E d \in 0..distance'[x] : inTransit'[<<x, y>>][d] > 0
      BY DEF BetterDistanceIsComing
  <2>1. CASE distance'[x] # distance[x]
    <3>1. x = b /\ distance'[b] = e
      BY <1>6, <2>1
    <3>2. y # s
      (* s had at most data when it sent. *)
      <4>1. distance'[s] <= data
        BY <1>0, <1>4, <1>6
      <4> QED  BY <1>7, <3>1, <4>1
    <3>3. inTransit'[<<x, y>>][e] > 0
      BY <1>6, <2>1, <3>1, <3>2
    <3> QED  BY <1>4, <3>1, <3>3 DEF Distance
  <2>2. CASE distance'[x] = distance[x]
    <3>1. ~(distance[y] <= distance[x] + 1) /\ distance[x] < MaxDistance
      BY <1>7, <2>2
    <3>2. PICK d \in 0..distance[x] : inTransit[<<x, y>>][d] > 0
      BY <1>2, <3>1 DEF FloodInv, BetterDistanceIsComing
    <3>3. d \in Distance
      BY <1>1, <3>2 DEF Distance
    <3>4. CASE <<x, y>> = l0 /\ d = data
      (* The message that was received served y. *)
      <4>1. y = b /\ distance'[b] <= e /\ d = data
        BY <1>6, <3>4 DEF l0
      <4> QED  BY <1>7, <2>2, <3>2, <4>1
    <3>5. CASE ~(<<x, y>> = l0 /\ d = data)
      BY <1>6, <2>2, <3>2, <3>3, <3>5
    <3> QED  BY <3>4, <3>5
  <2> QED  BY <2>1, <2>2
<1>11. NothingReceivedYet'
  BY <1>0 DEF NothingReceivedYet
<1>12. MessagesAreOld'
  <2> SUFFICES ASSUME NEW l \in Link, NEW d \in Distance, inTransit'[l][d] > 0
               PROVE  distance'[l[1]] <= d /\ d < MaxDistance
      BY <1>2, <1>3 DEF MessagesAreOld
  <2>1. CASE inTransit[l][d] > 0
    <3>1. distance[l[1]] <= d /\ d < MaxDistance
      BY <2>1 DEF FloodInv, MessagesAreOld
    <3> QED  BY <1>3, <1>7, <3>1 DEF Distance
  <2>2. CASE l[1] = b /\ d = e /\ distance'[b] = e /\ e < distance[b]
    <3>1. distance[b] <= MaxDistance
      BY <1>1 DEF Distance
    <3> QED  BY <1>7, <2>2, <3>1
  <2> QED  BY <1>6, <2>1, <2>2
<1>13. distance'[Master] = 0
  <2>1. distance[Master] = 0
    BY <1>2 DEF FloodInv
  <2> QED  BY <1>7, <2>1
<1> QED  BY <1>8, <1>9, <1>10, <1>11, <1>12, <1>13 DEF FloodInv

-----------------------------------------------------------------------------
(* No sequence of starts and receipts leaves the inductive invariant.      *)
THEOREM FloodInvariant == Spec => []FloodInv
<1>1. FloodInv /\ [Next]_vars => FloodInv'
  <2> SUFFICES ASSUME FloodInv, [Next]_vars PROVE FloodInv'
      OBVIOUS
  <2>1. ASSUME NEW b \in Block, Startup(b) PROVE FloodInv'
    BY <2>1, FloodStartup
  <2>2. ASSUME NEW s \in Block, NEW b \in Block, NEW data \in Distance, Receive(s, b, data)
        PROVE  FloodInv'
    BY <2>2, FloodReceive
  <2>3. CASE UNCHANGED vars
    BY <2>3 DEF vars, FloodInv, TypeOK, NeverUnderestimates, BetterDistanceIsComing,
                NothingReceivedYet, MessagesAreOld, Started, AllStarted
  <2> QED  BY <2>1, <2>2, <2>3 DEF Next
<1> QED  BY <1>1, FloodInit, PTL DEF Spec

(* Distances fit in their 16 bits, and no message is delivered that was    *)
(* not sent.                                                               *)
THEOREM FloodTypeCorrect == Spec => []TypeOK
<1>1. FloodInv => TypeOK
  BY DEF FloodInv
<1> QED  BY <1>1, FloodInvariant, PTL

(* No block believes it is closer to the master than it is.                *)
THEOREM FloodNeverUnderestimates == Spec => []NeverUnderestimates
<1>1. FloodInv => NeverUnderestimates
  BY DEF FloodInv
<1> QED  BY <1>1, FloodInvariant, PTL

(* A block that believes it is too far away will hear a better distance.   *)
THEOREM FloodBetterDistanceIsComing == Spec => []BetterDistanceIsComing
<1>1. FloodInv => BetterDistanceIsComing
  BY DEF FloodInv
<1> QED  BY <1>1, FloodInvariant, PTL

(* When no message is left, each block has the number of hops to the       *)
(* master: the distances are at least that (NeverUnderestimates), and they *)
(* grow by at most one over each link (BetterDistanceIsComing).            *)
THEOREM FloodExact == Spec => []FloodIsExact
<1>1. FloodInv => FloodIsExact
  <2> SUFFICES ASSUME FloodInv, AllStarted, Quiet PROVE distance = HopDistance
      BY DEF FloodIsExact
  <2>1. distance \in [Block -> Distance] /\ MaxDistance \in Int /\ Master \in Block
    BY FloodAssumption DEF FloodInv, TypeOK
  <2>2. \A b \in Block : Started(b)
    BY StartsType DEF AllStarted, Started
  <2>3. distance \in Potential
    <3>1. distance[Master] = 0
      BY <2>1, <2>2 DEF FloodInv
    <3>2. ASSUME NEW b \in Block, NEW c \in Block, <<b, c>> \in Link
          PROVE  distance[c] <= distance[b] + 1
      <4>1. /\ distance[b] \in Int /\ distance[c] \in Int
            /\ distance[c] <= MaxDistance
            /\ \A d \in 0..distance[b] : d \in Distance
        BY <2>1 DEF Distance
      <4>2. CASE distance[b] < MaxDistance
        BY <2>2, <3>2, <4>1, <4>2 DEF Quiet, FloodInv, BetterDistanceIsComing
      <4>3. CASE ~(distance[b] < MaxDistance)
        BY <2>1, <4>1, <4>3
      <4> QED  BY <4>2, <4>3
    <3> QED  BY <2>1, <3>1, <3>2 DEF Potential
  <2>4. /\ HopDistance \in [Block -> Distance]
        /\ \A b \in Block : distance[b] <= HopDistance[b]
    BY <2>3, HopDistanceAssumption DEF Potential
  <2>5. \A b \in Block : HopDistance[b] <= distance[b]
    BY <2>2 DEF FloodInv, NeverUnderestimates
  <2>6. \A b \in Block : distance[b] = HopDistance[b]
    BY <2>1, <2>4, <2>5 DEF Distance
  <2> QED  BY <2>1, <2>4, <2>6
<1> QED  BY <1>1, FloodInvariant, PTL

-----------------------------------------------------------------------------
(* Balls and bags *)

(* Every set of numbers that is not empty has a least one: what stands for *)
(* induction in the proofs about recursive definitions.                    *)
LEMMA LeastNumber ==
  ASSUME NEW T, T \subseteq Nat, T # {}
  PROVE  \E n \in T : \A m \in T : n <= m
<1> DEFINE R == OpToRel(<, Nat)
<1>1. IsWellFoundedOn(R, Nat)
  BY NatLessThanWellFounded
<1>2. R = {ss \in Nat \X Nat : ss[1] < ss[2]}
  BY DEF OpToRel
<1> HIDE DEF R
<1>3. \A x, y \in Nat : <<y, x>> \in R <=> y < x
  BY <1>2
<1>4. PICK x \in T : \A y \in T : ~(<<y, x>> \in R)
  BY <1>1, WFMin
<1>5. ASSUME NEW y \in T PROVE x <= y
  <2>1. x \in Nat /\ y \in Nat
    OBVIOUS
  <2>2. ~(y < x)
    BY <1>3, <1>4, <2>1
  <2> QED  BY <2>1, <2>2
<1> QED  BY <1>5

(* The nodes reached in at most n steps over the links L, n up to N.       *)
Grown(Node, L, S) == S \cup {c \in Node : \E b \in S : <<b, c>> \in L}

AreLevels(f, Node, root, L, N) ==
  f = [n \in 0..N |-> IF n = 0 THEN {root} ELSE Grown(Node, L, f[n - 1])]

Levels(Node, root, L, N) == CHOOSE f : AreLevels(f, Node, root, L, N)

(* There is such a function.                                               *)
LEMMA LevelsExist ==
  ASSUME NEW Node, NEW root, NEW L, NEW N \in Nat
  PROVE  \E f : AreLevels(f, Node, root, L, N)
<1> DEFINE Fits(f, k) == AreLevels(f, Node, root, L, k)
           T == {k \in Nat : ~\E f : Fits(f, k)}
<1>1. ASSUME T # {} PROVE FALSE
  <2>1. PICK k \in T : \A m \in T : k <= m
    BY <1>1, LeastNumber
  <2>2. k \in Nat /\ ~\E f : Fits(f, k)
    OBVIOUS
  <2>3. CASE k = 0
    <3>1. Fits([n \in 0..0 |-> {root}], 0)
      BY DEF AreLevels
    <3> QED  BY <2>2, <2>3, <3>1
  <2>4. CASE k # 0
    <3>1. k - 1 \in Nat /\ k - 1 \notin T
      BY <2>1, <2>2, <2>4
    <3>2. PICK f : Fits(f, k - 1)
      BY <3>1
    <3> DEFINE g == [n \in 0..k |-> IF n = k THEN Grown(Node, L, f[k - 1]) ELSE f[n]]
    <3>3. ASSUME NEW n \in 0..k
          PROVE  g[n] = IF n = 0 THEN {root} ELSE Grown(Node, L, g[n - 1])
      <4>1. CASE n = k
         BY <4>1, <2>2, <2>4
      <4>2. CASE n # k
         <5>1. n \in 0..(k - 1) /\ (n # 0 => n - 1 \in 0..(k - 1) /\ n - 1 \in 0..k /\ n - 1 # k)
           BY <4>2, <2>2
         <5>2. f[n] = IF n = 0 THEN {root} ELSE Grown(Node, L, f[n - 1])
           BY <3>2, <5>1 DEF AreLevels
         <5> QED  BY <4>2, <5>1, <5>2
      <4> QED  BY <4>1, <4>2
    <3>4. Fits(g, k)
      BY <3>3 DEF AreLevels
    <3> QED  BY <2>2, <3>4
  <2> QED  BY <2>3, <2>4
<1> QED  BY <1>1

(* What the definition gives: each level is the one before with its        *)
(* neighbours.                                                             *)
LEMMA LevelsDef ==
  ASSUME NEW Node, NEW root \in Node, NEW L, NEW N \in Nat
  PROVE  LET B == Levels(Node, root, L, N)
         IN  /\ B \in [0..N -> SUBSET Node]
             /\ B[0] = {root}
             /\ \A n \in 1..N : B[n] = Grown(Node, L, B[n - 1])
<1> DEFINE B == Levels(Node, root, L, N)
<1>1. B = [n \in 0..N |-> IF n = 0 THEN {root} ELSE Grown(Node, L, B[n - 1])]
  <2>1. AreLevels(B, Node, root, L, N)
    BY LevelsExist DEF Levels
  <2> QED  BY <2>1 DEF AreLevels
<1> HIDE DEF B
<1>2. B[0] = {root} /\ \A n \in 1..N : B[n] = Grown(Node, L, B[n - 1])
  <2>1. \A n \in 0..N : B[n] = IF n = 0 THEN {root} ELSE Grown(Node, L, B[n - 1])
    BY <1>1
  <2>2. 0 \in 0..N /\ \A n \in 1..N : n \in 0..N /\ n # 0
    OBVIOUS
  <2> QED  BY <2>1, <2>2
<1> DEFINE T == {n \in 0..N : ~(B[n] \subseteq Node)}
<1>3. ASSUME T # {} PROVE FALSE
  <2>0. T \subseteq Nat
    OBVIOUS
  <2>1. PICK n \in T : \A m \in T : n <= m
    BY <1>3, <2>0, LeastNumber
  <2>2. n # 0
    BY <1>2
  <2>3. n - 1 \in 0..N /\ n \in 1..N /\ n - 1 \notin T
    BY <2>1, <2>2
  <2>4. B[n - 1] \subseteq Node
    BY <2>3
  <2> QED  BY <1>2, <2>3, <2>4 DEF Grown
<1>4. \A n \in 0..N : B[n] \subseteq Node
  BY <1>3
<1>5. B \in [0..N -> SUBSET Node]
  BY <1>1, <1>4
<1> QED  BY <1>2, <1>5 DEF B

(* The levels grow.                                                        *)
LEMMA LevelsGrow ==
  ASSUME NEW Node, NEW root \in Node, NEW L, NEW N \in Nat
  PROVE  LET B == Levels(Node, root, L, N)
         IN  \A j \in 0..N : \A i \in 0..j : B[i] \subseteq B[j]
<1> DEFINE B == Levels(Node, root, L, N)
           T == {j \in 0..N : \E i \in 0..j : ~(B[i] \subseteq B[j])}
<1>1. \A n \in 1..N : B[n - 1] \subseteq B[n]
  BY LevelsDef DEF Grown
<1> HIDE DEF B
<1>2. ASSUME T # {} PROVE FALSE
  <2>0. T \subseteq Nat
    OBVIOUS
  <2>1. PICK j \in T : \A m \in T : j <= m
    BY <1>2, <2>0, LeastNumber
  <2>2. PICK i \in 0..j : ~(B[i] \subseteq B[j])
    OBVIOUS
  <2>3. i # j /\ j \in 1..N /\ i \in 0..(j - 1) /\ j - 1 \in 0..N
    BY <2>2
  <2>4. j - 1 \notin T
    BY <2>1, <2>3
  <2>5. B[i] \subseteq B[j - 1]
    BY <2>3, <2>4
  <2> QED  BY <1>1, <2>2, <2>3, <2>5
<1> QED  BY <1>2 DEF B

(* Distances that are not too small, and differ by at most 1 over a link.  *)
AreDistances(dist, Node, root, L, N) ==
  /\ root \in Node /\ L \in SUBSET (Node \X Node) /\ N \in Nat
  /\ dist \in [Node -> 0..N] /\ dist[root] = 0
  /\ \A c \in Node : dist[c] < N => c \in Levels(Node, root, L, N)[dist[c]]
  /\ \A b, c \in Node : <<b, c>> \in L /\ dist[b] < N => dist[c] <= dist[b] + 1

(* They are those of the levels.                                           *)
LEMMA LevelsAreDistances ==
  ASSUME NEW dist, NEW Node, NEW root, NEW L, NEW N, AreDistances(dist, Node, root, L, N)
  PROVE  /\ \A n \in 0..N : \A c \in Levels(Node, root, L, N)[n] : dist[c] <= n
         /\ \A n \in 1..(N - 1) : \A c \in Node :
              dist[c] = n <=> c \in Levels(Node, root, L, N)[n] \ Levels(Node, root, L, N)[n - 1]
<1> DEFINE B == Levels(Node, root, L, N)
           T == {n \in 0..N : \E c \in B[n] : ~(dist[c] <= n)}
<1>a. /\ root \in Node /\ L \in SUBSET (Node \X Node) /\ N \in Nat
      /\ dist \in [Node -> 0..N] /\ dist[root] = 0
      /\ \A b, c \in Node : <<b, c>> \in L /\ dist[b] < N => dist[c] <= dist[b] + 1
  BY DEF AreDistances
<1>0. /\ B \in [0..N -> SUBSET Node]
      /\ B[0] = {root}
      /\ \A n \in 1..N : B[n] = Grown(Node, L, B[n - 1])
      /\ \A j \in 0..N : \A i \in 0..j : B[i] \subseteq B[j]
      /\ \A c \in Node : dist[c] < N => c \in B[dist[c]]
  BY <1>a, LevelsDef, LevelsGrow DEF AreDistances
<1> HIDE DEF B
<1>1. ASSUME T # {} PROVE FALSE
  <2>0. T \subseteq Nat
    BY <1>a
  <2>1. PICK n \in T : \A m \in T : n <= m
    BY <1>1, <2>0, LeastNumber
  <2>2. PICK c \in B[n] : ~(dist[c] <= n)
    OBVIOUS
  <2>3. n # 0
    BY <1>a, <1>0, <2>2
  <2>4. n \in 1..N /\ n - 1 \in 0..N /\ n - 1 \notin T
    BY <1>a, <2>1, <2>3
  <2>5. \A b \in B[n - 1] : dist[b] <= n - 1
    BY <2>4
  <2>6. c \in Node /\ dist[c] \in 0..N
    BY <1>a, <1>0, <2>4
  <2>7. c \notin B[n - 1]
    BY <2>2, <2>4, <2>5, <2>6
  <2>8. PICK b \in B[n - 1] : <<b, c>> \in L
    <3>1. c \in Grown(Node, L, B[n - 1])
      BY <1>a, <1>0, <2>4
    <3> QED  BY <2>7, <3>1 DEF Grown
  <2>9. b \in Node /\ dist[b] \in 0..N /\ dist[b] <= n - 1
    BY <1>a, <1>0, <2>4, <2>5
  <2> QED  BY <1>a, <2>2, <2>4, <2>6, <2>8, <2>9
<1>2. \A n \in 0..N : \A c \in B[n] : dist[c] <= n
  BY <1>1
<1>3. ASSUME NEW n \in 1..(N - 1)
      PROVE  \A c \in Node : dist[c] = n <=> c \in B[n] \ B[n - 1]
  <2>1. n \in 0..N /\ n - 1 \in 0..N /\ n < N
    BY <1>a
  <2>2. ASSUME NEW c \in Node, dist[c] = n PROVE c \in B[n] \ B[n - 1]
    <3>1. c \in B[n]
      BY <1>a, <1>0, <2>1, <2>2
    <3>2. c \notin B[n - 1]
      BY <1>a, <1>2, <2>1, <2>2
    <3> QED  BY <3>1, <3>2
  <2>3. ASSUME NEW c \in B[n] \ B[n - 1] PROVE c \in Node /\ dist[c] = n
    <3>1. c \in Node /\ dist[c] \in 0..N /\ dist[c] <= n
      BY <1>a, <1>0, <1>2, <2>1
    <3>2. c \in B[dist[c]]
      BY <1>a, <1>0, <2>1, <3>1
    <3>3. ~(dist[c] <= n - 1)
      <4> SUFFICES ASSUME dist[c] <= n - 1 PROVE FALSE
        OBVIOUS
      <4>1. dist[c] \in 0..(n - 1)
        BY <3>1
      <4>2. B[dist[c]] \subseteq B[n - 1]
        BY <1>a, <1>0, <2>1, <4>1
      <4> QED  BY <3>2, <4>2
    <3> QED  BY <3>1, <3>3
  <2> QED  BY <2>2, <2>3
<1> QED  BY <1>2, <1>3 DEF B

(* Once there are as many levels as nodes, nothing is added. *)
LEMMA LevelsStop ==
  ASSUME NEW Node, IsFiniteSet(Node), NEW root \in Node, NEW L
  PROVE  /\ Cardinality(Node) \in Nat \ {0}
         /\ Levels(Node, root, L, Cardinality(Node))[Cardinality(Node)]
              \subseteq Levels(Node, root, L, Cardinality(Node))[Cardinality(Node) - 1]
<1> DEFINE N == Cardinality(Node)
           B == Levels(Node, root, L, N)
           T == {n \in 0..N : ~(Cardinality(B[n]) >= n + 1)}
<1>1. N \in Nat \ {0}
  BY FS_CardinalityType, FS_EmptySet
<1>2. /\ B \in [0..N -> SUBSET Node] /\ B[0] = {root}
      /\ \A n \in 1..N : B[n] = Grown(Node, L, B[n - 1])
      /\ \A j \in 0..N : \A i \in 0..j : B[i] \subseteq B[j]
  BY <1>1, LevelsDef, LevelsGrow
<1> HIDE DEF B, N
<1>3. \A n \in 0..N : /\ IsFiniteSet(B[n]) /\ Cardinality(B[n]) \in Nat /\ Cardinality(B[n]) <= N
  BY <1>2, FS_Subset, FS_CardinalityType DEF N
<1>4. ASSUME ~(B[N] \subseteq B[N - 1]) PROVE FALSE
  <2>1. ASSUME NEW n \in 1..N, B[n] = B[n - 1] PROVE FALSE
    <3> DEFINE U == {k \in n..N : B[k] # B[n]}
    <3>1. ASSUME U # {} PROVE FALSE
      <4>0. U \subseteq Nat
        BY <1>1
      <4>1. PICK k \in U : \A j \in U : k <= j
        BY <3>1, <4>0, LeastNumber
      <4>2. k # n /\ k - 1 \in n..N /\ k \in 1..N /\ k - 1 \notin U
        BY <1>1, <4>1
      <4>3. B[k] = Grown(Node, L, B[k - 1]) /\ B[n] = Grown(Node, L, B[n - 1]) /\ B[k - 1] = B[n]
        BY <1>2, <4>2
      <4> QED  BY <2>1, <4>1, <4>3
    <3>2. B[N] = B[n]
      BY <1>1, <3>1
    <3>3. B[n - 1] \subseteq B[N - 1]
      <4>1. n - 1 \in 0..(N - 1) /\ N - 1 \in 0..N
        BY <1>1
      <4> QED  BY <1>2, <4>1
    <3> QED  BY <1>4, <2>1, <3>2, <3>3
  <2>2. ASSUME T # {} PROVE FALSE
    <3>0. T \subseteq Nat
      BY <1>1
    <3>1. PICK n \in T : \A j \in T : n <= j
      BY <2>2, <3>0, LeastNumber
    <3>2. CASE n = 0
      <4>1. Cardinality(B[0]) = 1
        BY <1>2, FS_Singleton
      <4> QED  BY <3>1, <3>2, <4>1
    <3>3. CASE n # 0
      <4>1. n \in 1..N /\ n - 1 \in 0..N /\ n - 1 \in 0..n /\ n - 1 \notin T
        BY <1>1, <3>1, <3>3
      <4>2. B[n - 1] \subseteq B[n] /\ B[n - 1] # B[n]
        BY <1>2, <2>1, <4>1
      <4>3. Cardinality(B[n - 1]) < Cardinality(B[n])
        <5>1. Cardinality(B[n - 1]) <= Cardinality(B[n])
          BY <1>3, <4>1, <4>2, FS_Subset
        <5>2. Cardinality(B[n - 1]) # Cardinality(B[n])
          BY <1>3, <4>1, <4>2, FS_Subset
        <5> QED  BY <1>3, <4>1, <5>1, <5>2
      <4>4. Cardinality(B[n - 1]) >= n
        BY <4>1
      <4> QED  BY <1>3, <3>1, <4>1, <4>3, <4>4
    <3> QED  BY <3>2, <3>3
  <2>3. Cardinality(B[N]) >= N + 1 /\ Cardinality(B[N]) <= N
    BY <1>1, <1>3, <2>2
  <2> QED  BY <1>1, <1>3, <2>3
<1> QED  BY <1>1, <1>4 DEF B, N

-----------------------------------------------------------------------------
(* One message of a bag is taken out; other copies of it may stay.         *)
LEMMA BagTake ==
  ASSUME NEW bag, IsABag(bag), NEW m \in BagToSet(bag)
  PROVE  /\ IsABag(bag (-) SetToBag({m}))
         /\ BagToSet(bag (-) SetToBag({m})) \subseteq BagToSet(bag)
         /\ BagToSet(bag) \ {m} \subseteq BagToSet(bag (-) SetToBag({m}))
BY DEF IsABag, BagToSet, SetToBag, (-)

(* Messages are put into a bag.                                            *)
LEMMA BagPut ==
  ASSUME NEW bag, IsABag(bag), NEW S
  PROVE  /\ IsABag(bag (+) SetToBag(S))
         /\ BagToSet(bag (+) SetToBag(S)) = BagToSet(bag) \cup S
BY DEF IsABag, BagToSet, SetToBag, (+)

(* A bag made of a set, and the empty one.                                 *)
LEMMA BagNew ==
  /\ IsABag(EmptyBag) /\ BagToSet(EmptyBag) = {}
  /\ \A S : IsABag(SetToBag(S)) /\ BagToSet(SetToBag(S)) = S
BY DEF IsABag, BagToSet, SetToBag, EmptyBag

-----------------------------------------------------------------------------
(* sphereCatoms3D *)

(* The bags and the cardinalities of the instance are those of this module. *)
LEMMA SphereBags ==
  /\ \A S : Sphere!SetToBag(S) = SetToBag(S)
  /\ \A S : Sphere!BagToSet(S) = BagToSet(S)
  /\ \A S : Sphere!Cardinality(S) = Cardinality(S)
  /\ \A S : Sphere!IsFiniteSet(S) <=> IsFiniteSet(S)
  /\ \A A, B : Sphere!(-)(A, B) = A (-) B
  /\ \A A, B : Sphere!(+)(A, B) = A (+) B
  /\ Sphere!EmptyBag = EmptyBag
BY DEF Sphere!SetToBag, SetToBag, Sphere!BagToSet, BagToSet, Sphere!Cardinality, Cardinality,
       Sphere!IsFiniteSet, IsFiniteSet, Sphere!(-), (-), Sphere!(+), (+), Sphere!EmptyBag, EmptyBag

SphereSent(c, d) == {Sphere!Message(n, d + 1) : n \in {x \in SphereCatom : <<c, x>> \in sphereLinks}}

Far == Sphere!INF

SphereLevels == Levels(SphereCatom, Source, sphereLinks, Far)

(* The messages are typed, none is there before the start, none is closer  *)
(* than it can be; the array counts the catoms as their distances are; a   *)
(* catom whose distance is too large for that of a neighbour will hear.    *)
SphereTyped ==
  /\ sphereLinks \in SUBSET (SphereCatom \X SphereCatom)
  /\ sphereDistance \in [SphereCatom -> 0..Far]
  /\ radius \in [0..Far -> Int]
  /\ IsABag(sphereBag)
  /\ BagToSet(sphereBag) \subseteq [to : SphereCatom, distance : 1..Far]

SphereStarted ==
  /\ sphereDistance[Source] \in {0, Far}
  /\ sphereDistance[Source] # 0 => BagToSet(sphereBag) = {} /\ \A c \in SphereCatom : sphereDistance[c] = Far

SphereCounted ==
  \A d \in 1..(Far - 1) : radius[d] = Cardinality({c \in SphereCatom : sphereDistance[c] = d})

SphereReached ==
  /\ \A c \in SphereCatom : sphereDistance[c] < Far => c \in SphereLevels[sphereDistance[c]]
  /\ \A m \in BagToSet(sphereBag) : m.to \in SphereLevels[m.distance]

SphereComing ==
  \A b, c \in SphereCatom : <<b, c>> \in sphereLinks /\ sphereDistance[b] < Far =>
    sphereDistance[c] <= sphereDistance[b] + 1 \/ Sphere!Message(c, sphereDistance[b] + 1) \in BagToSet(sphereBag)

SphereInv == SphereTyped /\ SphereStarted /\ SphereCounted /\ SphereReached /\ SphereComing

(* The bound of the distances is a number.                                 *)
LEMMA FarType ==
  ASSUME Sphere!GraphAssumption
  PROVE  Far \in Nat \ {0} /\ IsFiniteSet(SphereCatom) /\ Source \in SphereCatom
<1>1. IsFiniteSet(SphereCatom) /\ Source \in SphereCatom
  BY SphereBags DEF Sphere!GraphAssumption
<1>2. Cardinality(SphereCatom) \in Nat /\ (Cardinality(SphereCatom) = 0 <=> SphereCatom = {})
  BY <1>1, FS_CardinalityType, FS_EmptySet
<1> QED  BY <1>1, <1>2, SphereBags DEF Far, Sphere!INF

(* The spheres that the model compares the array with are these levels.    *)
LEMMA SphereBall == Sphere!Ball = SphereLevels
BY DEF Sphere!Ball, Far, SphereLevels, Levels, AreLevels, Grown

(* What a catom sends.                                                     *)
LEMMA SphereSends ==
  ASSUME SphereTyped, NEW c \in SphereCatom, NEW d \in 0..(Far - 1),
         NEW bag, IsABag(bag)
  PROVE  LET sent == bag (+) Sphere!SendDistanceMessage(c, d)
         IN  /\ IsABag(sent)
             /\ BagToSet(sent) = BagToSet(bag) \cup SphereSent(c, d)
BY BagPut, SphereBags DEF SphereSent, Sphere!SendDistanceMessage

(* Each neighbour is told, one hop more.                                   *)
LEMMA SphereSentIs ==
  ASSUME NEW c \in SphereCatom, NEW d
  PROVE  /\ \A m \in SphereSent(c, d) :
              m.to \in SphereCatom /\ m.distance = d + 1 /\ <<c, m.to>> \in sphereLinks /\ m = Sphere!Message(m.to, d + 1)
         /\ \A n \in SphereCatom : <<c, n>> \in sphereLinks => Sphere!Message(n, d + 1) \in SphereSent(c, d)
<1>1. ASSUME NEW m \in SphereSent(c, d)
      PROVE  m.to \in SphereCatom /\ m.distance = d + 1 /\ <<c, m.to>> \in sphereLinks /\ m = Sphere!Message(m.to, d + 1)
  <2>1. PICK n \in SphereCatom : <<c, n>> \in sphereLinks /\ m = Sphere!Message(n, d + 1)
    BY DEF SphereSent
  <2>2. m.to = n /\ m.distance = d + 1
    BY <2>1 DEF Sphere!Message
  <2> QED  BY <2>1, <2>2
<1>2. \A n \in SphereCatom : <<c, n>> \in sphereLinks => Sphere!Message(n, d + 1) \in SphereSent(c, d)
  BY DEF SphereSent
<1> QED  BY <1>1, <1>2

(* Nothing is counted at the beginning.                                    *)
LEMMA SphereInit == Sphere!GraphAssumption /\ Sphere!Init => SphereInv
<1> SUFFICES ASSUME Sphere!GraphAssumption, Sphere!Init PROVE SphereInv
    OBVIOUS
<1>1. Far \in Nat \ {0} /\ IsFiniteSet(SphereCatom) /\ Source \in SphereCatom
  BY FarType
<1>2. /\ sphereLinks \in SUBSET (SphereCatom \X SphereCatom)
      /\ sphereDistance = [c \in SphereCatom |-> Far]
      /\ radius = [d \in 0..Far |-> 0]
      /\ IsABag(sphereBag) /\ BagToSet(sphereBag) = {}
  BY BagNew, SphereBags DEF Sphere!Init, Sphere!GraphAssumption, Far
<1>3. SphereTyped
  BY <1>1, <1>2 DEF SphereTyped
<1>4. SphereStarted
  BY <1>1, <1>2 DEF SphereStarted
<1>5. SphereCounted
  <2> SUFFICES ASSUME NEW d \in 1..(Far - 1)
               PROVE  radius[d] = Cardinality({c \in SphereCatom : sphereDistance[c] = d})
      BY DEF SphereCounted
  <2>1. {c \in SphereCatom : sphereDistance[c] = d} = {}
    BY <1>1, <1>2
  <2>2. radius[d] = 0
    BY <1>1, <1>2
  <2> QED  BY <2>1, <2>2, FS_EmptySet
<1>6. SphereReached
  BY <1>1, <1>2 DEF SphereReached
<1>7. SphereComing
  BY <1>1, <1>2 DEF SphereComing
<1> QED  BY <1>3, <1>4, <1>5, <1>6, <1>7 DEF SphereInv

(* The source starts once, with distance 0.                                *)
LEMMA SphereStartup ==
  ASSUME Sphere!GraphAssumption, SphereInv, Sphere!Startup
  PROVE  SphereInv'
<1>0. Far \in Nat \ {0} /\ IsFiniteSet(SphereCatom) /\ Source \in SphereCatom /\ Far' = Far
  BY FarType DEF Far, Sphere!INF
<1>1. /\ sphereDistance[Source] = Far
      /\ sphereDistance' = [sphereDistance EXCEPT ![Source] = 0]
      /\ sphereBag' = Sphere!SendDistanceMessage(Source, 0)
      /\ sphereLinks' = sphereLinks /\ radius' = radius
  BY DEF Sphere!Startup, Far
<1>2. IsABag(sphereBag') /\ BagToSet(sphereBag') = SphereSent(Source, 0)
  BY <1>1, BagNew, SphereBags DEF Sphere!SendDistanceMessage, SphereSent
<1>3. SphereTyped
  BY DEF SphereInv
<1>4. \A c \in SphereCatom : sphereDistance'[c] = IF c = Source THEN 0 ELSE Far
  BY <1>0, <1>1 DEF SphereInv, SphereTyped, SphereStarted
<1>5. SphereTyped'
  <2>1. \A n \in SphereCatom : Sphere!Message(n, 0 + 1) \in [to : SphereCatom, distance : 1..Far]
    BY <1>0 DEF Sphere!Message
  <2>2. BagToSet(sphereBag') \subseteq [to : SphereCatom, distance : 1..Far]
    <3>1. \A x \in SphereSent(Source, 0) : x.to \in SphereCatom /\ x = Sphere!Message(x.to, 0 + 1)
      BY <1>0, SphereSentIs
    <3> QED  BY <1>2, <2>1, <3>1
  <2>3. sphereDistance' \in [SphereCatom -> 0..Far]
    BY <1>0, <1>1, <1>3 DEF SphereTyped
  <2> QED  BY <1>0, <1>1, <1>2, <1>3, <2>2, <2>3 DEF SphereTyped
<1>6. SphereStarted'
  BY <1>0, <1>4 DEF SphereStarted
<1>7. SphereCounted'
  <2> SUFFICES ASSUME NEW d \in 1..(Far - 1)
               PROVE  radius'[d] = Cardinality({c \in SphereCatom : sphereDistance'[c] = d})
      BY <1>0 DEF SphereCounted
  <2>1. {c \in SphereCatom : sphereDistance'[c] = d} = {c \in SphereCatom : sphereDistance[c] = d}
    BY <1>0, <1>1, <1>4 DEF SphereInv, SphereStarted
  <2> QED  BY <1>1, <2>1 DEF SphereInv, SphereCounted
<1>8. SphereReached'
  <2>1. SphereLevels' = SphereLevels
    BY <1>0, <1>1 DEF SphereLevels, Far
  <2>2. /\ SphereLevels[0] = {Source}
        /\ SphereLevels[1] = Grown(SphereCatom, sphereLinks, SphereLevels[0])
    <3>1. 1 \in 1..Far
      BY <1>0
    <3> QED  BY <1>0, <3>1, LevelsDef DEF SphereLevels, Far
  <2>3. \A n \in SphereCatom : <<Source, n>> \in sphereLinks => n \in SphereLevels[1]
    BY <2>2 DEF Grown
  <2>4. ASSUME NEW m \in BagToSet(sphereBag') PROVE m.to \in SphereLevels[m.distance]
    <3>1. m.to \in SphereCatom /\ m.distance = 0 + 1 /\ <<Source, m.to>> \in sphereLinks
      BY <1>0, <1>2, SphereSentIs
    <3> QED  BY <2>3, <3>1
  <2>5. ASSUME NEW c \in SphereCatom, sphereDistance'[c] < Far PROVE c \in SphereLevels[sphereDistance'[c]]
    BY <1>0, <1>4, <2>2, <2>5
  <2> QED  BY <1>0, <2>1, <2>4, <2>5 DEF SphereReached
<1>9. SphereComing'
  <2> SUFFICES ASSUME NEW b \in SphereCatom, NEW c \in SphereCatom, <<b, c>> \in sphereLinks, sphereDistance'[b] < Far
               PROVE  Sphere!Message(c, sphereDistance'[b] + 1) \in BagToSet(sphereBag')
      BY <1>0, <1>1 DEF SphereComing
  <2>1. b = Source /\ sphereDistance'[b] = 0
    BY <1>0, <1>4
  <2> QED  BY <1>2, <2>1, SphereSentIs
<1> QED  BY <1>5, <1>6, <1>7, <1>8, <1>9 DEF SphereInv

(* A catom that learns a shorter distance moves from one sphere to another.*)
LEMMA SphereReceive ==
  ASSUME Sphere!GraphAssumption, SphereInv, NEW m \in Sphere!BagToSet(sphereBag), Sphere!Receive(m)
  PROVE  SphereInv'
<1>0. Far \in Nat \ {0} /\ IsFiniteSet(SphereCatom) /\ Source \in SphereCatom /\ Far' = Far
  BY FarType DEF Far, Sphere!INF
<1>1. m \in BagToSet(sphereBag) /\ sphereLinks' = sphereLinks
  BY SphereBags DEF Sphere!Receive
<1>2. SphereTyped /\ m.to \in SphereCatom /\ m.distance \in 1..Far /\ m = Sphere!Message(m.to, m.distance)
  BY <1>1 DEF SphereInv, SphereTyped, Sphere!Message
<1>3. sphereDistance[Source] = 0
  BY <1>1, <1>2 DEF SphereInv, SphereStarted
<1> DEFINE rest == sphereBag (-) SetToBag({m})
<1>4. /\ IsABag(rest) /\ BagToSet(rest) \subseteq BagToSet(sphereBag)
      /\ BagToSet(sphereBag) \ {m} \subseteq BagToSet(rest)
  BY <1>1, <1>2, BagTake DEF SphereTyped
<1>5. \A c \in SphereCatom : sphereDistance[c] \in 0..Far
  BY <1>2 DEF SphereTyped
<1>6. SphereLevels' = SphereLevels
  BY <1>0, <1>1 DEF SphereLevels, Far
<1>7. CASE ~(m.distance < sphereDistance[m.to])
  <2>1. sphereBag' = rest /\ sphereDistance' = sphereDistance /\ radius' = radius
    BY <1>7, SphereBags DEF Sphere!Receive
  <2> HIDE DEF rest
  <2>2. SphereTyped'
    BY <1>0, <1>1, <1>2, <1>4, <2>1 DEF SphereTyped
  <2>3. SphereStarted' /\ SphereCounted' /\ SphereReached'
    BY <1>0, <1>1, <1>3, <1>4, <1>6, <2>1 DEF SphereInv, SphereStarted, SphereCounted, SphereReached
  <2>4. SphereComing'
    <3> SUFFICES ASSUME NEW b \in SphereCatom, NEW c \in SphereCatom, <<b, c>> \in sphereLinks, sphereDistance[b] < Far,
                        ~(sphereDistance[c] <= sphereDistance[b] + 1)
                 PROVE  Sphere!Message(c, sphereDistance[b] + 1) \in BagToSet(rest)
        BY <1>0, <1>1, <2>1 DEF SphereComing
    <3>1. Sphere!Message(c, sphereDistance[b] + 1) \in BagToSet(sphereBag)
      BY DEF SphereInv, SphereComing
    <3>2. Sphere!Message(c, sphereDistance[b] + 1) # m
      BY <1>2, <1>5, <1>7 DEF Sphere!Message
    <3> QED  BY <1>4, <3>1, <3>2
  <2> QED  BY <2>2, <2>3, <2>4 DEF SphereInv
<1>8. CASE m.distance < sphereDistance[m.to]
  <2> DEFINE to == m.to
             d == m.distance
  <2>1. /\ sphereDistance' = [sphereDistance EXCEPT ![to] = d]
        /\ radius' = Sphere!Recount(sphereDistance[to], d)
        /\ sphereBag' = rest (+) Sphere!SendDistanceMessage(to, d)
    BY <1>8, SphereBags DEF Sphere!Receive
  <2>2. to \in SphereCatom /\ d \in 1..(Far - 1) /\ d < sphereDistance[to] /\ to # Source /\ d \in 0..(Far - 1)
    BY <1>0, <1>2, <1>3, <1>5, <1>8
  <2>3. \A c \in SphereCatom : sphereDistance'[c] = IF c = to THEN d ELSE sphereDistance[c]
    BY <1>2, <2>1, <2>2 DEF SphereTyped
  <2>4. to \in SphereLevels[d]
    BY <1>1 DEF SphereInv, SphereReached
  <2> HIDE DEF rest, to, d
  <2>5. IsABag(sphereBag') /\ BagToSet(sphereBag') = BagToSet(rest) \cup SphereSent(to, d)
    BY <1>2, <1>4, <2>1, <2>2, SphereSends
  <2>6. SphereTyped'
    <3>1. sphereDistance' \in [SphereCatom -> 0..Far]
      BY <1>0, <1>2, <2>1, <2>2 DEF SphereTyped
    <3>2. radius' \in [0..Far -> Int]
      BY <1>0, <1>2, <2>1 DEF SphereTyped, Sphere!Recount
    <3>3. \A x \in SphereSent(to, d) : x \in [to : SphereCatom, distance : 1..Far]
      <4>1. \A n \in SphereCatom : Sphere!Message(n, d + 1) \in [to : SphereCatom, distance : 1..Far]
        BY <1>0, <2>2 DEF Sphere!Message
      <4>2. \A x \in SphereSent(to, d) : x.to \in SphereCatom /\ x = Sphere!Message(x.to, d + 1)
        BY <2>2, SphereSentIs
      <4> QED  BY <4>1, <4>2
    <3> QED  BY <1>0, <1>1, <1>2, <1>4, <2>5, <3>1, <3>2, <3>3 DEF SphereTyped
  <2>7. SphereStarted'
    BY <1>0, <1>3, <2>2, <2>3 DEF SphereStarted
  <2>8. SphereCounted'
    <3> SUFFICES ASSUME NEW k \in 1..(Far - 1)
                 PROVE  radius'[k] = Cardinality({c \in SphereCatom : sphereDistance'[c] = k})
        BY <1>0 DEF SphereCounted
    <3> DEFINE before == {c \in SphereCatom : sphereDistance[c] = k}
               after == {c \in SphereCatom : sphereDistance'[c] = k}
    <3>1. IsFiniteSet(before) /\ Cardinality(before) \in Nat /\ radius[k] = Cardinality(before)
      <4>1. IsFiniteSet(before)
        BY <1>0, FS_Subset
      <4> QED  BY <4>1, FS_CardinalityType DEF SphereInv, SphereCounted
    <3>2. radius'[k] = radius[k] + (IF k = d THEN 1 ELSE 0)
                                 - (IF k = sphereDistance[to] /\ sphereDistance[to] # Far THEN 1 ELSE 0)
      BY <1>0, <1>2, <2>1 DEF SphereTyped, Sphere!Recount, Far
    <3>3. CASE k = d
      <4>1. after = before \cup {to} /\ to \notin before
        BY <2>2, <2>3, <3>3, <1>5
      <4>2. Cardinality(after) = Cardinality(before) + 1
        BY <3>1, <4>1, FS_AddElement
      <4> QED  BY <2>2, <3>1, <3>2, <3>3, <4>2
    <3>4. CASE k # d /\ k = sphereDistance[to]
      <4>1. after = before \ {to} /\ to \in before
        BY <2>2, <2>3, <3>4, <1>5
      <4>2. Cardinality(after) = Cardinality(before) - 1
        BY <3>1, <4>1, FS_RemoveElement
      <4> QED  BY <1>0, <3>1, <3>2, <3>4, <4>2
    <3>5. CASE k # d /\ k # sphereDistance[to]
      <4>1. after = before
        BY <2>2, <2>3, <3>5
      <4>2. radius[k] \in Nat /\ radius[k] = Cardinality(after)
        BY <3>1, <4>1
      <4>3. radius'[k] = radius[k] + 0 - 0
        BY <3>2, <3>5
      <4> QED  BY <4>2, <4>3
    <3> QED  BY <3>3, <3>4, <3>5
  <2>9. SphereReached'
    <3>1. \A c \in SphereCatom : sphereDistance'[c] < Far => c \in SphereLevels[sphereDistance'[c]]
      BY <2>3, <2>4 DEF SphereInv, SphereReached
    <3>2. ASSUME NEW x \in SphereSent(to, d) PROVE x.to \in SphereLevels[x.distance]
      <4>1. x.to \in SphereCatom /\ x.distance = d + 1 /\ <<to, x.to>> \in sphereLinks
        BY <2>2, SphereSentIs
      <4>2. d + 1 \in 1..Far /\ (d + 1) - 1 = d
        BY <1>0, <2>2
      <4>3. SphereLevels[d + 1] = Grown(SphereCatom, sphereLinks, SphereLevels[d])
        BY <1>0, <4>2, LevelsDef DEF SphereLevels, Far
      <4> QED  BY <2>4, <4>1, <4>3 DEF Grown
    <3>3. \A x \in BagToSet(sphereBag') : x.to \in SphereLevels[x.distance]
      BY <1>4, <2>5, <3>2 DEF SphereInv, SphereReached
    <3> QED  BY <1>0, <1>6, <3>1, <3>3 DEF SphereReached
  <2>10. SphereComing'
    <3> SUFFICES ASSUME NEW b \in SphereCatom, NEW c \in SphereCatom, <<b, c>> \in sphereLinks, sphereDistance'[b] < Far,
                        ~(sphereDistance'[c] <= sphereDistance'[b] + 1)
                 PROVE  Sphere!Message(c, sphereDistance'[b] + 1) \in BagToSet(sphereBag')
        BY <1>0, <1>1 DEF SphereComing
    <3>1. CASE b = to
      BY <2>2, <2>3, <2>5, <3>1, SphereSentIs
    <3>2. CASE b # to
      <4>1. sphereDistance'[b] = sphereDistance[b] /\ ~(sphereDistance[c] <= sphereDistance[b] + 1)
        BY <1>5, <2>2, <2>3, <3>2
      <4>2. Sphere!Message(c, sphereDistance[b] + 1) \in BagToSet(sphereBag)
        BY <4>1 DEF SphereInv, SphereComing
      <4>3. Sphere!Message(c, sphereDistance[b] + 1) # m
        <5> SUFFICES ASSUME Sphere!Message(c, sphereDistance[b] + 1) = m PROVE FALSE
          OBVIOUS
        <5>1. c = to /\ d = sphereDistance[b] + 1
          BY DEF Sphere!Message, to, d
        <5> QED  BY <1>5, <2>2, <2>3, <4>1, <5>1
      <4> QED  BY <1>4, <2>5, <4>1, <4>2, <4>3
    <3> QED  BY <3>1, <3>2
  <2> QED  BY <2>6, <2>7, <2>8, <2>9, <2>10 DEF SphereInv
<1> QED  BY <1>7, <1>8

(* The invariant of sphereCatoms3D.                                        *)
THEOREM SphereInvariance ==
  Sphere!Spec => []SphereInv
<1> SUFFICES ASSUME Sphere!GraphAssumption PROVE Sphere!Spec => []SphereInv
    BY FloodsAssumption
<1>1. ASSUME SphereInv, [Sphere!Next]_(Sphere!vars) PROVE SphereInv'
  <2>1. CASE Sphere!Startup
    BY <1>1, <2>1, SphereStartup
  <2>2. ASSUME NEW m \in Sphere!BagToSet(sphereBag), Sphere!Receive(m) PROVE SphereInv'
    BY <1>1, <2>2, SphereReceive
  <2>3. CASE UNCHANGED Sphere!vars
    <3>1. sphereLinks' = sphereLinks /\ sphereDistance' = sphereDistance /\ radius' = radius /\ sphereBag' = sphereBag
      BY <2>3 DEF Sphere!vars
    <3> QED  BY <1>1, <3>1 DEF SphereInv, SphereTyped, SphereStarted, SphereCounted, SphereReached,
                               SphereComing, SphereLevels, Far, Sphere!INF
  <2> QED  BY <1>1, <2>1, <2>2, <2>3 DEF Sphere!Next
<1>2. Sphere!Init => SphereInv
  BY SphereInit
<1> QED  BY <1>1, <1>2, PTL DEF Sphere!Spec

(* When no message is left the distances are exact and the array counts    *)
(* them.                                                                   *)
LEMMA SphereExact ==
  ASSUME Sphere!GraphAssumption, SphereInv
  PROVE  Sphere!HistogramIsExact
<1> SUFFICES ASSUME sphereDistance[Source] = 0, sphereBag = EmptyBag, NEW d \in 1..(Far - 1)
             PROVE  radius[d] = Cardinality(SphereLevels[d] \ SphereLevels[d - 1])
    BY SphereBags, SphereBall DEF Sphere!HistogramIsExact, Sphere!Quiet, Far
<1>1. Far \in Nat \ {0} /\ Source \in SphereCatom /\ BagToSet(sphereBag) = {}
  BY FarType, BagNew
<1>2. AreDistances(sphereDistance, SphereCatom, Source, sphereLinks, Far)
  BY <1>1 DEF AreDistances, SphereInv, SphereTyped, SphereReached, SphereComing, SphereLevels
<1>3. \A c \in SphereCatom : sphereDistance[c] = d <=> c \in SphereLevels[d] \ SphereLevels[d - 1]
  BY <1>2, LevelsAreDistances DEF SphereLevels
<1>4. SphereLevels[d] \subseteq SphereCatom
  BY <1>1, LevelsDef DEF SphereLevels
<1>5. {c \in SphereCatom : sphereDistance[c] = d} = SphereLevels[d] \ SphereLevels[d - 1]
  BY <1>3, <1>4
<1> QED  BY <1>5 DEF SphereInv, SphereCounted

-----------------------------------------------------------------------------
(* smartBlocks1 *)

(* The bags and the cardinalities of the instance are those of this module. *)
LEMMA SmartBags ==
  /\ \A S : Smart!SetToBag(S) = SetToBag(S)
  /\ \A S : Smart!BagToSet(S) = BagToSet(S)
  /\ \A S : Smart!Cardinality(S) = Cardinality(S)
  /\ \A S : Smart!IsFiniteSet(S) <=> IsFiniteSet(S)
  /\ \A A, B : Smart!(-)(A, B) = A (-) B
  /\ \A A, B : Smart!(+)(A, B) = A (+) B
  /\ Smart!EmptyBag = EmptyBag
BY DEF Smart!SetToBag, SetToBag, Smart!BagToSet, BagToSet, Smart!Cardinality, Cardinality,
       Smart!IsFiniteSet, IsFiniteSet, Smart!(-), (-), Smart!(+), (+), Smart!EmptyBag, EmptyBag

Unreached == Smart!MAX_DIST
SmartLevels == Levels(SmartBlock, SmartMaster, smartLinks, Unreached)
Joined(b, c) == <<b, c>> \in smartLinks

Hops(from, to, d) == Smart!Dist(from, to, d)
Answer(from, to, d) == Smart!Ack(TRUE, from, to, d)

SmartMessage ==
  [type : {"DIST", "ACK"}, from : SmartBlock, to : SmartBlock, distance : 0..Unreached, path : BOOLEAN]

(* The links join blocks in both directions; a message follows a link.     *)
SmartTyped ==
  /\ smartLinks \in SUBSET (SmartBlock \X SmartBlock)
  /\ \A b, c \in SmartBlock : Joined(b, c) => Joined(c, b)
  /\ my_distance \in [SmartBlock -> 0..Unreached]
  /\ colored \subseteq SmartBlock
  /\ IsABag(smartBag)
  /\ BagToSet(smartBag) \subseteq SmartMessage
  /\ \A m \in BagToSet(smartBag) : m.type = "DIST" => Joined(m.from, m.to)

SmartStarted ==
  /\ my_distance[SmartMaster] \in {0, Unreached}
  /\ my_distance[SmartMaster] # 0 => BagToSet(smartBag) = {} /\ \A b \in SmartBlock : my_distance[b] = Unreached

(* No distance is too small.                                               *)
SmartReached ==
  /\ \A b \in SmartBlock : my_distance[b] < Unreached => b \in SmartLevels[my_distance[b]]
  /\ \A m \in BagToSet(smartBag) : m.type = "DIST" =>
       m.distance > 0 /\ m.to \in SmartLevels[m.distance] /\ my_distance[m.from] <= m.distance - 1

(* A block whose distance is too large will hear from its neighbour.       *)
SmartComing ==
  \A b, c \in SmartBlock : Joined(b, c) /\ my_distance[b] < Unreached =>
    my_distance[c] <= my_distance[b] + 1 \/ Hops(b, c, my_distance[b] + 1) \in BagToSet(smartBag)

(* The distance of a block is the right one.                               *)
Exact(b) ==
  my_distance[b] < Unreached /\ \A n \in 0..Unreached : b \in SmartLevels[n] => my_distance[b] <= n

(* c is a neighbour of b, one hop closer to the master.                    *)
Closer(b, c) == Joined(b, c) /\ my_distance[c] = my_distance[b] - 1

(* A block learns its distance from a neighbour that has its own.          *)
SmartLearned == \A b \in SmartBlock : Exact(b) /\ b # SmartMaster => \E c \in SmartBlock : Closer(b, c)

(* The path so far: its blocks are at their distances, and its end has     *)
(* told a block that is closer.                                            *)
Told(b, c, path) == c \in path \/ Answer(b, c, my_distance[b]) \in BagToSet(smartBag)

IsPath(path) ==
  \A b \in path : Exact(b) /\ (b # SmartMaster => \E c \in SmartBlock : Closer(b, c) /\ Told(b, c, path))

SmartMarked ==
  \E path \in SUBSET colored :
    /\ IsPath(path)
    /\ Exact(Goal) => \A c \in SmartBlock : Smart!Neighbors(Goal) = {c} => Told(Goal, c, path)

SmartInv ==
  SmartTyped /\ SmartStarted /\ SmartReached /\ SmartComing /\ SmartLearned /\ SmartMarked

(* The bound of the distances is the number of blocks.                     *)
LEMMA UnreachedType ==
  ASSUME Smart!GraphAssumption
  PROVE  /\ IsFiniteSet(SmartBlock) /\ SmartMaster \in SmartBlock /\ Goal \in SmartBlock /\ Goal # SmartMaster
         /\ Unreached = Cardinality(SmartBlock) /\ Unreached \in Nat \ {0}
<1>1. IsFiniteSet(SmartBlock) /\ SmartMaster \in SmartBlock /\ Goal \in SmartBlock /\ Goal # SmartMaster
  BY SmartBags DEF Smart!GraphAssumption
<1>2. Unreached = Cardinality(SmartBlock)
  BY SmartBags DEF Unreached, Smart!MAX_DIST
<1>3. Cardinality(SmartBlock) \in Nat \ {0}
  BY <1>1, FS_CardinalityType, FS_EmptySet
<1> QED  BY <1>1, <1>2, <1>3

(* The balls that the model speaks of are these levels.                    *)
LEMMA SmartBall == Smart!Ball = SmartLevels
BY DEF Smart!Ball, Unreached, SmartLevels, Levels, AreLevels, Grown

(* What the messages are.                                                  *)
LEMMA HopsAre ==
  ASSUME NEW from, NEW to, NEW d
  PROVE  /\ Hops(from, to, d).type = "DIST" /\ Hops(from, to, d).from = from
         /\ Hops(from, to, d).to = to /\ Hops(from, to, d).distance = d
         /\ from \in SmartBlock /\ to \in SmartBlock /\ d \in 0..Unreached => Hops(from, to, d) \in SmartMessage
BY DEF Hops, Smart!Dist, SmartMessage

(* What the acknowledgements are.                                          *)
LEMMA AnswersAre ==
  ASSUME NEW from, NEW to, NEW d
  PROVE  /\ Answer(from, to, d).type = "ACK" /\ Answer(from, to, d).from = from
         /\ Answer(from, to, d).to = to /\ Answer(from, to, d).distance = d
         /\ from \in SmartBlock /\ to \in SmartBlock /\ d \in 0..Unreached => Answer(from, to, d) \in SmartMessage
BY DEF Answer, Smart!Ack, SmartMessage

(* A message is taken, others are sent.                                    *)
LEMMA Handed ==
  ASSUME IsABag(smartBag), NEW m \in BagToSet(smartBag), NEW sent, Smart!Deliver(m, sent)
  PROVE  /\ IsABag(smartBag')
         /\ BagToSet(smartBag') \subseteq BagToSet(smartBag) \cup sent
         /\ (BagToSet(smartBag) \ {m}) \cup sent \subseteq BagToSet(smartBag')
<1> DEFINE rest == smartBag (-) SetToBag({m})
<1>1. smartBag' = rest (+) SetToBag(sent)
  BY SmartBags DEF Smart!Deliver
<1>2. IsABag(rest) /\ BagToSet(rest) \subseteq BagToSet(smartBag) /\ BagToSet(smartBag) \ {m} \subseteq BagToSet(rest)
  BY BagTake
<1> HIDE DEF rest
<1>3. IsABag(smartBag') /\ BagToSet(smartBag') = BagToSet(rest) \cup sent
  BY <1>1, <1>2, BagPut
<1> QED  BY <1>2, <1>3

(* A neighbour of a block is at most one level further.                    *)
LEMMA NextLevel ==
  ASSUME Smart!GraphAssumption, SmartTyped, NEW b \in SmartBlock, NEW c \in SmartBlock, Joined(b, c),
         NEW n \in 0..(Unreached - 1), b \in SmartLevels[n]
  PROVE  c \in SmartLevels[n + 1]
<1>1. Unreached \in Nat /\ SmartMaster \in SmartBlock /\ n + 1 \in 1..Unreached /\ (n + 1) - 1 = n
  BY UnreachedType
<1>2. SmartLevels[n + 1] = Grown(SmartBlock, smartLinks, SmartLevels[n])
  BY <1>1, LevelsDef DEF SmartLevels
<1> QED  BY <1>2 DEF Grown, Joined

(* Next to a block that is at its distance, one that is closer is at its   *)
(* own.                                                                    *)
LEMMA CloserIsExact ==
  ASSUME Smart!GraphAssumption, SmartTyped, NEW b \in SmartBlock, NEW c \in SmartBlock, Exact(b), Closer(b, c)
  PROVE  Exact(c)
<1>1. Unreached \in Nat /\ my_distance[b] \in 0..Unreached /\ my_distance[c] \in 0..Unreached
      /\ Joined(c, b) /\ my_distance[c] = my_distance[b] - 1 /\ my_distance[b] < Unreached
  BY UnreachedType DEF SmartTyped, Exact, Closer
<1>2. ASSUME NEW n \in 0..Unreached, c \in SmartLevels[n] PROVE my_distance[c] <= n
  <2>1. CASE n = Unreached
    BY <1>1, <2>1
  <2>2. CASE n # Unreached
    <3>1. n \in 0..(Unreached - 1) /\ n + 1 \in 0..Unreached
      BY <1>1, <2>2
    <3>2. b \in SmartLevels[n + 1]
      BY <1>1, <1>2, <3>1, NextLevel
    <3>3. my_distance[b] <= n + 1
      BY <3>1, <3>2 DEF Exact
    <3> QED  BY <1>1, <3>3
  <2> QED  BY <2>1, <2>2
<1> QED  BY <1>1, <1>2 DEF Exact

(* At the beginning nothing is known and nothing is coloured.              *)
LEMMA SmartInit == Smart!GraphAssumption /\ Smart!Init => SmartInv
<1> SUFFICES ASSUME Smart!GraphAssumption, Smart!Init PROVE SmartInv
    OBVIOUS
<1>1. Unreached \in Nat \ {0} /\ SmartMaster \in SmartBlock /\ Goal \in SmartBlock
  BY UnreachedType
<1>2. /\ smartLinks \in SUBSET (SmartBlock \X SmartBlock)
      /\ \A b, c \in SmartBlock : <<b, c>> \in smartLinks => <<c, b>> \in smartLinks
      /\ my_distance = [b \in SmartBlock |-> Unreached]
      /\ colored = {} /\ IsABag(smartBag) /\ BagToSet(smartBag) = {}
  BY BagNew, SmartBags DEF Smart!Init, Smart!GraphAssumption, Unreached
<1>3. \A b \in SmartBlock : my_distance[b] = Unreached /\ ~Exact(b)
  BY <1>1, <1>2 DEF Exact
<1>4. SmartTyped
  BY <1>1, <1>2 DEF SmartTyped, Joined
<1>5. SmartStarted /\ SmartReached /\ SmartComing /\ SmartLearned
  BY <1>1, <1>2, <1>3 DEF SmartStarted, SmartReached, SmartComing, SmartLearned
<1>6. SmartMarked
  <2>1. {} \in SUBSET colored /\ IsPath({})
    BY DEF IsPath
  <2> QED  BY <1>1, <1>3, <2>1 DEF SmartMarked
<1> QED  BY <1>4, <1>5, <1>6 DEF SmartInv

(* The master starts once, with distance 0.                                *)
LEMMA SmartStartup ==
  ASSUME Smart!GraphAssumption, SmartInv, Smart!Startup
  PROVE  SmartInv'
<1>0. Unreached \in Nat \ {0} /\ SmartMaster \in SmartBlock /\ Goal \in SmartBlock /\ Goal # SmartMaster /\ Unreached' = Unreached
  BY UnreachedType DEF Unreached, Smart!MAX_DIST
<1> DEFINE sent == {Hops(SmartMaster, n, 1) : n \in {x \in SmartBlock : Joined(SmartMaster, x)}}
<1>1. /\ my_distance[SmartMaster] = Unreached
      /\ my_distance' = [my_distance EXCEPT ![SmartMaster] = 0]
      /\ smartBag' = SetToBag(sent)
      /\ smartLinks' = smartLinks /\ colored' = colored
  BY SmartBags DEF Smart!Startup, Unreached, Hops, Smart!Neighbors, Joined
<1>2. IsABag(smartBag') /\ BagToSet(smartBag') = sent
  BY <1>1, BagNew
<1>3. ASSUME NEW m \in sent
      PROVE  /\ m \in SmartMessage /\ m.type = "DIST" /\ m.from = SmartMaster /\ m.distance = 1
             /\ m.to \in SmartBlock /\ Joined(SmartMaster, m.to)
  <2>1. PICK n \in SmartBlock : m = Hops(SmartMaster, n, 1) /\ Joined(SmartMaster, n)
    OBVIOUS
  <2> QED  BY <1>0, <2>1, HopsAre
<1>4. \A n \in SmartBlock : Joined(SmartMaster, n) => Hops(SmartMaster, n, 1) \in sent
  OBVIOUS
<1> HIDE DEF sent
<1>5. SmartTyped
  BY DEF SmartInv
<1>6. \A b \in SmartBlock : my_distance'[b] = IF b = SmartMaster THEN 0 ELSE Unreached
  BY <1>0, <1>1 DEF SmartInv, SmartTyped, SmartStarted
<1>7. SmartTyped'
  <2>1. my_distance' \in [SmartBlock -> 0..Unreached]
    BY <1>0, <1>1, <1>5 DEF SmartTyped
  <2>2. \A m \in BagToSet(smartBag') : m \in SmartMessage /\ (m.type = "DIST" => Joined(m.from, m.to))
    BY <1>2, <1>3
  <2> QED  BY <1>0, <1>1, <1>2, <1>5, <2>1, <2>2 DEF SmartTyped, Joined, SmartMessage
<1>8. SmartStarted'
  BY <1>0, <1>6 DEF SmartStarted
<1>9. SmartLevels' = SmartLevels
  BY <1>0, <1>1 DEF SmartLevels
<1>10. SmartReached'
  <2>1. SmartMaster \in SmartLevels[0]
    BY <1>0, LevelsDef DEF SmartLevels
  <2>2. ASSUME NEW m \in sent PROVE m.to \in SmartLevels[m.distance]
    <3>1. 0 \in 0..(Unreached - 1) /\ 0 + 1 = 1
      BY <1>0
    <3> QED  BY <1>0, <1>3, <1>5, <2>1, <2>2, <3>1, NextLevel
  <2>3. \A m \in sent : m.distance > 0 /\ my_distance'[m.from] <= m.distance - 1
    BY <1>0, <1>3, <1>6
  <2>4. \A b \in SmartBlock : my_distance'[b] < Unreached => b \in SmartLevels[my_distance'[b]]
    BY <1>0, <1>6, <2>1
  <2> QED  BY <1>0, <1>2, <1>9, <2>2, <2>3, <2>4 DEF SmartReached
<1>11. SmartComing'
  <2> SUFFICES ASSUME NEW b \in SmartBlock, NEW c \in SmartBlock, Joined(b, c), my_distance'[b] < Unreached
               PROVE  Hops(b, c, my_distance'[b] + 1) \in BagToSet(smartBag')
      BY <1>0, <1>1 DEF SmartComing, Joined, Hops, Smart!Dist
  <2>1. b = SmartMaster /\ my_distance'[b] + 1 = 1
    BY <1>0, <1>6
  <2> QED  BY <1>2, <1>4, <2>1
<1>12. \A b \in SmartBlock : Exact(b)' => b = SmartMaster
  BY <1>0, <1>6 DEF Exact
<1>13. SmartLearned'
  BY <1>12 DEF SmartLearned
<1>14. SmartMarked'
  <2>1. {} \in SUBSET colored' /\ IsPath({})'
    BY DEF IsPath
  <2>2. ~Exact(Goal)'
    BY <1>0, <1>12
  <2> QED  BY <2>1, <2>2 DEF SmartMarked
<1> QED  BY <1>7, <1>8, <1>10, <1>11, <1>13, <1>14 DEF SmartInv

(* A shorter distance comes: to a block that was not at its distance.      *)
LEMMA SmartReceiveDist ==
  ASSUME Smart!GraphAssumption, SmartInv, NEW m \in BagToSet(smartBag), Smart!ReceiveDist(m)
  PROVE  SmartInv'
<1>0. Unreached \in Nat \ {0} /\ SmartMaster \in SmartBlock /\ Goal \in SmartBlock /\ Goal # SmartMaster /\ Unreached' = Unreached
  BY UnreachedType DEF Unreached, Smart!MAX_DIST
<1> DEFINE to == m.to
           from == m.from
           d == m.distance
           shorter == d < my_distance[to]
           hops == {Hops(to, n, d + 1) : n \in {x \in SmartBlock : Joined(to, x) /\ x # from}}
           acks == {Smart!Ack(to = Goal, to, n, d) : n \in {x \in {from} : Smart!ICanAck(m)}}
           sent == IF shorter THEN hops \cup acks ELSE {}
<1>1. SmartTyped
  BY DEF SmartInv
<1>2. /\ m.type = "DIST" /\ m \in SmartMessage /\ to \in SmartBlock /\ from \in SmartBlock /\ d \in 0..Unreached
      /\ Joined(from, to) /\ Joined(to, from)
  BY <1>1 DEF Smart!ReceiveDist, SmartTyped, SmartMessage
<1>3. d > 0 /\ to \in SmartLevels[d] /\ my_distance[from] <= d - 1
  BY <1>2 DEF SmartInv, SmartReached
<1>4. Smart!Deliver(m, sent)
  BY DEF Smart!ReceiveDist, Smart!Neighbors, Joined, Hops
<1>5. /\ my_distance' = IF shorter THEN [my_distance EXCEPT ![to] = d] ELSE my_distance
      /\ smartLinks' = smartLinks /\ colored' = colored
  BY DEF Smart!ReceiveDist
<1>6. \A b \in SmartBlock : my_distance[b] \in 0..Unreached
  BY <1>1 DEF SmartTyped
<1>7. \A b \in SmartBlock : my_distance'[b] = IF shorter /\ b = to THEN d ELSE my_distance[b]
  BY <1>1, <1>2, <1>5 DEF SmartTyped
<1>8. shorter => d \in 1..(Unreached - 1) /\ to # SmartMaster
  <2>1. my_distance[SmartMaster] = 0
    BY DEF SmartInv, SmartStarted
  <2> QED  BY <1>0, <1>2, <1>3, <1>6, <2>1
<1>9. ASSUME NEW x \in sent
      PROVE  /\ x \in SmartMessage
             /\ x.type = "DIST" => /\ shorter /\ x.from = to /\ x.distance = d + 1
                                   /\ x.to \in SmartBlock /\ Joined(to, x.to)
  <2>1. CASE x \in hops /\ shorter
    <3>1. PICK n \in SmartBlock : x = Hops(to, n, d + 1) /\ Joined(to, n)
      BY <2>1
    <3> QED  BY <1>0, <1>2, <1>8, <2>1, <3>1, HopsAre
  <2>2. CASE x \in acks
    <3>1. x = Smart!Ack(to = Goal, to, from, d)
      BY <2>2
    <3>2. CASE to = Goal
      <4>1. x = Smart!Ack(TRUE, to, from, d)
        BY <3>1, <3>2
      <4> QED  BY <1>2, <4>1 DEF Smart!Ack, SmartMessage
    <3>3. CASE to # Goal
      <4>1. x = Smart!Ack(FALSE, to, from, d)
        BY <3>1, <3>3
      <4> QED  BY <1>2, <4>1 DEF Smart!Ack, SmartMessage
    <3> QED  BY <3>2, <3>3
  <2> QED  BY <2>1, <2>2
<1>10. shorter => \A n \in SmartBlock : Joined(to, n) /\ n # from => Hops(to, n, d + 1) \in sent
  OBVIOUS
<1>11. shorter /\ to = Goal /\ Smart!Neighbors(Goal) = {from} => Answer(Goal, from, d) \in sent
  BY DEF Answer, Smart!ICanAck
<1> HIDE DEF sent, hops, acks
<1>12. /\ IsABag(smartBag')
       /\ BagToSet(smartBag') \subseteq BagToSet(smartBag) \cup sent
       /\ (BagToSet(smartBag) \ {m}) \cup sent \subseteq BagToSet(smartBag')
  BY <1>1, <1>4, Handed DEF SmartTyped
<1>13. SmartLevels' = SmartLevels
  BY <1>0, <1>5 DEF SmartLevels
<1>14. SmartTyped'
  <2>1. my_distance' \in [SmartBlock -> 0..Unreached]
    BY <1>0, <1>1, <1>2, <1>5 DEF SmartTyped
  <2>2. \A x \in BagToSet(smartBag') : x \in SmartMessage /\ (x.type = "DIST" => Joined(x.from, x.to))
    BY <1>1, <1>9, <1>12 DEF SmartTyped
  <2> QED  BY <1>0, <1>1, <1>5, <1>12, <2>1, <2>2 DEF SmartTyped, Joined, SmartMessage
<1>15. SmartStarted'
  BY <1>0, <1>7, <1>8 DEF SmartInv, SmartStarted
<1>16. SmartReached'
  <2>1. \A b \in SmartBlock : my_distance'[b] < Unreached => b \in SmartLevels[my_distance'[b]]
    BY <1>3, <1>7 DEF SmartInv, SmartReached
  <2>2. ASSUME NEW x \in BagToSet(smartBag), x.type = "DIST"
        PROVE  x.distance > 0 /\ x.to \in SmartLevels[x.distance] /\ my_distance'[x.from] <= x.distance - 1
    <3>1. x.distance > 0 /\ x.to \in SmartLevels[x.distance] /\ my_distance[x.from] <= x.distance - 1
      BY <2>2 DEF SmartInv, SmartReached
    <3>2. x.from \in SmartBlock /\ x.distance \in 0..Unreached
      BY <1>1 DEF SmartTyped, SmartMessage
    <3> QED  BY <1>0, <1>2, <1>6, <1>7, <3>1, <3>2
  <2>3. ASSUME NEW x \in sent, x.type = "DIST"
        PROVE  x.distance > 0 /\ x.to \in SmartLevels[x.distance] /\ my_distance'[x.from] <= x.distance - 1
    <3>1. shorter /\ x.from = to /\ x.distance = d + 1 /\ x.to \in SmartBlock /\ Joined(to, x.to)
      BY <1>9, <2>3
    <3>2. d \in 0..(Unreached - 1)
      BY <1>8, <3>1
    <3>3. x.to \in SmartLevels[d + 1]
      BY <1>1, <1>2, <1>3, <3>1, <3>2, NextLevel
    <3> QED  BY <1>2, <1>7, <3>1, <3>2, <3>3
  <2> QED  BY <1>0, <1>12, <1>13, <2>1, <2>2, <2>3 DEF SmartReached
<1>17. SmartComing'
  <2> SUFFICES ASSUME NEW b \in SmartBlock, NEW c \in SmartBlock, Joined(b, c), my_distance'[b] < Unreached,
                      ~(my_distance'[c] <= my_distance'[b] + 1)
               PROVE  Hops(b, c, my_distance'[b] + 1) \in BagToSet(smartBag')
      BY <1>0, <1>5 DEF SmartComing, Joined, Hops, Smart!Dist
  <2>1. CASE shorter /\ b = to
    <3>1. my_distance'[b] = d
      BY <1>7, <2>1
    <3>2. c # from
      BY <1>2, <1>3, <1>6, <1>7, <2>1, <3>1
    <3> QED  BY <1>10, <1>12, <2>1, <3>1, <3>2
  <2>2. CASE ~(shorter /\ b = to)
    <3>1. my_distance'[b] = my_distance[b] /\ ~(my_distance[c] <= my_distance[b] + 1)
      BY <1>2, <1>6, <1>7, <2>2
    <3>2. Hops(b, c, my_distance[b] + 1) \in BagToSet(smartBag)
      BY <3>1 DEF SmartInv, SmartComing
    <3>3. Hops(b, c, my_distance[b] + 1) # m
      <4> SUFFICES ASSUME Hops(b, c, my_distance[b] + 1) = m PROVE FALSE
        OBVIOUS
      <4>1. c = to /\ d = my_distance[b] + 1
        BY HopsAre
      <4> QED  BY <1>2, <1>6, <1>7, <3>1, <4>1
    <3> QED  BY <1>12, <3>1, <3>2, <3>3
  <2> QED  BY <2>1, <2>2
<1>18. \A b \in SmartBlock : Exact(b) => my_distance'[b] = my_distance[b] /\ ~(shorter /\ b = to)
  BY <1>2, <1>3, <1>6, <1>7 DEF Exact
<1>19. \A b \in SmartBlock : Exact(b) => Exact(b)'
  BY <1>0, <1>13, <1>18 DEF Exact
<1>20. ASSUME NEW b \in SmartBlock, Exact(b)' PROVE Exact(b) \/ (shorter /\ b = to)
  BY <1>0, <1>7, <1>13, <1>20 DEF Exact
<1>21. ASSUME NEW b \in SmartBlock, NEW c \in SmartBlock, Exact(b), Closer(b, c) PROVE Closer(b, c)'
  <2>1. Exact(c)
    BY <1>1, <1>21, CloserIsExact
  <2> QED  BY <1>5, <1>18, <1>21, <2>1 DEF Closer, Joined
<1>22. ASSUME shorter, Exact(to)' PROVE Closer(to, from)'
  <2>1. my_distance[from] \in 0..(Unreached - 1) /\ from # to /\ my_distance'[to] = d
        /\ my_distance'[from] = my_distance[from] /\ Joined(to, from)'
    BY <1>0, <1>2, <1>3, <1>5, <1>6, <1>7, <1>8, <1>22 DEF Joined
  <2>2. from \in SmartLevels[my_distance[from]]
    BY <1>0, <1>2, <2>1 DEF SmartInv, SmartReached
  <2>3. to \in SmartLevels[my_distance[from] + 1]
    BY <1>1, <1>2, <2>1, <2>2, NextLevel
  <2>4. my_distance[from] + 1 \in 0..Unreached
    BY <1>0, <2>1
  <2>5. d <= my_distance[from] + 1
    BY <1>0, <1>13, <1>22, <2>1, <2>3, <2>4 DEF Exact
  <2> QED  BY <1>2, <1>3, <2>1, <2>5 DEF Closer
<1>23. SmartLearned'
  <2> SUFFICES ASSUME NEW b \in SmartBlock, Exact(b)', b # SmartMaster PROVE \E c \in SmartBlock : Closer(b, c)'
      BY DEF SmartLearned
  <2>1. CASE Exact(b)
    BY <1>21, <2>1 DEF SmartInv, SmartLearned
  <2>2. CASE shorter /\ b = to
    BY <1>2, <1>22, <2>2
  <2> QED  BY <1>20, <2>1, <2>2
<1>24. SmartMarked'
  <2>1. PICK path \in SUBSET colored :
          /\ IsPath(path)
          /\ Exact(Goal) => \A c \in SmartBlock : Smart!Neighbors(Goal) = {c} => Told(Goal, c, path)
    BY DEF SmartInv, SmartMarked
  <2>2. path \subseteq SmartBlock
    BY <1>1, <2>1 DEF SmartTyped
  <2>3. ASSUME NEW b \in SmartBlock, NEW c \in SmartBlock, Exact(b), Told(b, c, path) PROVE Told(b, c, path)'
    <3>1. CASE c \in path
      BY <3>1 DEF Told
    <3>2. CASE Answer(b, c, my_distance[b]) \in BagToSet(smartBag)
      <4>1. Answer(b, c, my_distance[b]) # m
        BY <1>2, AnswersAre
      <4>2. Answer(b, c, my_distance[b]) \in BagToSet(smartBag')
        BY <1>12, <3>2, <4>1
      <4>3. Answer(b, c, my_distance[b])' = Answer(b, c, my_distance[b])
        BY <1>18, <2>3 DEF Answer, Smart!Ack
      <4> QED  BY <4>2, <4>3 DEF Told
    <3> QED  BY <2>3, <3>1, <3>2 DEF Told
  <2>4. IsPath(path)'
    <3> SUFFICES ASSUME NEW b \in path
                 PROVE  Exact(b)' /\ (b # SmartMaster => \E c \in SmartBlock : Closer(b, c)' /\ Told(b, c, path)')
        BY DEF IsPath
    <3>1. Exact(b) /\ b \in SmartBlock
      BY <2>1, <2>2 DEF IsPath
    <3>2. ASSUME b # SmartMaster PROVE \E c \in SmartBlock : Closer(b, c)' /\ Told(b, c, path)'
      <4>1. PICK c \in SmartBlock : Closer(b, c) /\ Told(b, c, path)
        BY <2>1, <3>2 DEF IsPath
      <4> QED  BY <1>21, <2>3, <3>1, <4>1
    <3> QED  BY <1>19, <3>1, <3>2
  <2>5. ASSUME Exact(Goal)', NEW c \in SmartBlock, Smart!Neighbors(Goal)' = {c} PROVE Told(Goal, c, path)'
    <3>1. Smart!Neighbors(Goal) = {c}
      BY <1>5, <2>5 DEF Smart!Neighbors
    <3>2. CASE Exact(Goal)
      BY <1>0, <2>1, <2>3, <3>1, <3>2
    <3>3. CASE shorter /\ Goal = to
      <4>1. c = from
        BY <1>2, <3>1, <3>3 DEF Smart!Neighbors, Joined
      <4>2. Answer(Goal, c, d) \in BagToSet(smartBag')
        BY <1>11, <1>12, <3>1, <3>3, <4>1
      <4>3. Answer(Goal, c, my_distance[Goal])' = Answer(Goal, c, d)
        BY <1>0, <1>7, <3>3 DEF Answer, Smart!Ack
      <4> QED  BY <4>2, <4>3 DEF Told
    <3> QED  BY <1>0, <1>20, <2>5, <3>2, <3>3
  <2>6. path \in SUBSET colored'
    BY <1>5, <2>1
  <2> QED  BY <2>4, <2>5, <2>6 DEF SmartMarked
<1> QED  BY <1>14, <1>15, <1>16, <1>17, <1>23, <1>24 DEF SmartInv

(* An acknowledgement comes.  If it comes from the end of the path, the    *)
(* block that takes it is the next one.                                    *)
LEMMA SmartReceiveAck ==
  ASSUME Smart!GraphAssumption, SmartInv, NEW m \in BagToSet(smartBag), Smart!ReceiveAck(m)
  PROVE  SmartInv'
<1>0. Unreached \in Nat \ {0} /\ SmartMaster \in SmartBlock /\ Goal \in SmartBlock /\ Goal # SmartMaster /\ Unreached' = Unreached
  BY UnreachedType DEF Unreached, Smart!MAX_DIST
<1> DEFINE to == m.to
           from == m.from
           d == m.distance
           onPath == Smart!OnPath(m)
           acks == {Answer(to, n, my_distance[to]) : n \in {x \in SmartBlock : Joined(to, x) /\ x # from}}
           sent == IF onPath THEN acks ELSE {}
<1>1. SmartTyped
  BY DEF SmartInv
<1>2. m.type = "ACK" /\ to \in SmartBlock /\ from \in SmartBlock /\ d \in 0..Unreached
  BY <1>1 DEF Smart!ReceiveAck, SmartTyped, SmartMessage
<1>3. onPath <=> m.path /\ d = my_distance[to] + 1
  BY DEF Smart!OnPath
<1>4. Smart!Deliver(m, sent)
  BY DEF Smart!ReceiveAck, Smart!Neighbors, Joined, Answer
<1>5. /\ colored' = IF onPath THEN colored \cup {to} ELSE colored
      /\ smartLinks' = smartLinks /\ my_distance' = my_distance
  BY DEF Smart!ReceiveAck
<1>6. \A b \in SmartBlock : my_distance[b] \in 0..Unreached
  BY <1>1 DEF SmartTyped
<1>7. ASSUME NEW x \in sent PROVE x \in SmartMessage /\ x.type = "ACK"
  <2>1. PICK n \in SmartBlock : x = Answer(to, n, my_distance[to])
    OBVIOUS
  <2> QED  BY <1>2, <1>6, <2>1, AnswersAre
<1>8. onPath => \A n \in SmartBlock : Joined(to, n) /\ n # from => Answer(to, n, my_distance[to]) \in sent
  OBVIOUS
<1> HIDE DEF sent, acks, onPath
<1>9. /\ IsABag(smartBag')
      /\ BagToSet(smartBag') \subseteq BagToSet(smartBag) \cup sent
      /\ (BagToSet(smartBag) \ {m}) \cup sent \subseteq BagToSet(smartBag')
  BY <1>1, <1>4, Handed DEF SmartTyped
<1>10. SmartLevels' = SmartLevels
  BY <1>0, <1>5 DEF SmartLevels
<1>11. SmartTyped'
  <2>1. \A x \in BagToSet(smartBag') : x \in SmartMessage /\ (x.type = "DIST" => Joined(x.from, x.to))
    BY <1>1, <1>7, <1>9 DEF SmartTyped
  <2>2. colored' \subseteq SmartBlock
    BY <1>1, <1>2, <1>5 DEF SmartTyped
  <2> QED  BY <1>0, <1>1, <1>5, <1>9, <2>1, <2>2 DEF SmartTyped, Joined, SmartMessage
<1>12. SmartStarted'
  BY <1>0, <1>5 DEF SmartInv, SmartStarted
<1>13. SmartReached'
  <2>1. \A x \in BagToSet(smartBag') : x.type = "DIST" => x \in BagToSet(smartBag)
    BY <1>7, <1>9
  <2> QED  BY <1>0, <1>5, <1>10, <2>1 DEF SmartInv, SmartReached
<1>14. SmartComing'
  <2> SUFFICES ASSUME NEW b \in SmartBlock, NEW c \in SmartBlock, Joined(b, c), my_distance[b] < Unreached,
                      ~(my_distance[c] <= my_distance[b] + 1)
               PROVE  Hops(b, c, my_distance[b] + 1) \in BagToSet(smartBag')
      BY <1>0, <1>5 DEF SmartComing, Joined, Hops, Smart!Dist
  <2>1. Hops(b, c, my_distance[b] + 1) \in BagToSet(smartBag)
    BY DEF SmartInv, SmartComing
  <2>2. Hops(b, c, my_distance[b] + 1) # m
    BY <1>2, HopsAre
  <2> QED  BY <1>9, <2>1, <2>2
<1>15. \A b \in SmartBlock : Exact(b)' <=> Exact(b)
  BY <1>0, <1>5, <1>10 DEF Exact
<1>16. \A b, c \in SmartBlock : Closer(b, c)' <=> Closer(b, c)
  BY <1>5 DEF Closer, Joined
<1>17. SmartLearned'
  BY <1>15, <1>16 DEF SmartInv, SmartLearned
<1>18. SmartMarked'
  <2>1. PICK path \in SUBSET colored :
          /\ IsPath(path)
          /\ Exact(Goal) => \A c \in SmartBlock : Smart!Neighbors(Goal) = {c} => Told(Goal, c, path)
    BY DEF SmartInv, SmartMarked
  <2>2. path \subseteq SmartBlock
    BY <1>1, <2>1 DEF SmartTyped
  <2> DEFINE live == Exact(from) /\ Closer(from, to) /\ m = Answer(from, to, my_distance[from])
  <2>0. PICK longer \in SUBSET SmartBlock : longer = IF live THEN path \cup {to} ELSE path
    BY <1>2, <2>2
  <2>3. live => onPath
    <3> SUFFICES ASSUME live PROVE m.path /\ d = my_distance[to] + 1
        BY <1>3
    <3>1. d = my_distance[from]
      BY AnswersAre
    <3>2. m.path
      BY DEF Answer, Smart!Ack
    <3> QED  BY <1>2, <1>6, <3>1, <3>2 DEF Closer
  <2>4. longer \in SUBSET colored'
    BY <1>5, <2>0, <2>1, <2>3
  <2>5. ASSUME NEW b \in SmartBlock, NEW c \in SmartBlock, Exact(b), Closer(b, c), Told(b, c, path)
        PROVE  Told(b, c, longer)'
    <3>1. CASE c \in path
      BY <2>0, <3>1 DEF Told
    <3>2. CASE Answer(b, c, my_distance[b]) \in BagToSet(smartBag) \ {m}
      <4>1. Answer(b, c, my_distance[b]) \in BagToSet(smartBag')
        BY <1>9, <3>2
      <4> QED  BY <1>5, <4>1 DEF Told, Answer, Smart!Ack
    <3>3. CASE Answer(b, c, my_distance[b]) = m
      <4>1. b = from /\ c = to
        BY <3>3, AnswersAre
      <4> QED  BY <2>0, <2>5, <3>3, <4>1 DEF Told
    <3> QED  BY <2>5, <3>1, <3>2, <3>3 DEF Told
  <2>6. ASSUME live, to # SmartMaster PROVE \E c \in SmartBlock : Closer(to, c)' /\ Told(to, c, longer)'
    <3>1. Exact(to)
      BY <1>1, <1>2, <2>6, CloserIsExact
    <3>2. PICK c \in SmartBlock : Closer(to, c)
      BY <1>2, <2>6, <3>1 DEF SmartInv, SmartLearned
    <3>3. c # from
      BY <1>2, <1>6, <2>6, <3>2 DEF Closer
    <3>4. Answer(to, c, my_distance[to]) \in BagToSet(smartBag')
      BY <1>8, <1>9, <2>3, <2>6, <3>2, <3>3 DEF Closer
    <3> QED  BY <1>2, <1>5, <1>16, <3>2, <3>4 DEF Told, Answer, Smart!Ack
  <2>7. IsPath(longer)'
    <3> SUFFICES ASSUME NEW b \in longer
                 PROVE  Exact(b)' /\ (b # SmartMaster => \E c \in SmartBlock : Closer(b, c)' /\ Told(b, c, longer)')
        BY DEF IsPath
    <3>1. CASE live /\ b = to
      BY <1>1, <1>2, <1>15, <2>6, <3>1, CloserIsExact
    <3>2. CASE b \in path
      <4>1. Exact(b) /\ b \in SmartBlock /\ (b # SmartMaster => \E c \in SmartBlock : Closer(b, c) /\ Told(b, c, path))
        BY <2>1, <2>2, <3>2 DEF IsPath
      <4> QED  BY <1>15, <1>16, <2>5, <4>1
    <3> QED  BY <2>0, <3>1, <3>2
  <2>8. ASSUME Exact(Goal)', NEW c \in SmartBlock, Smart!Neighbors(Goal)' = {c} PROVE Told(Goal, c, longer)'
    <3>1. Exact(Goal) /\ Smart!Neighbors(Goal) = {c}
      BY <1>0, <1>5, <1>15, <2>8 DEF Smart!Neighbors
    <3>2. PICK x \in SmartBlock : Closer(Goal, x)
      BY <1>0, <3>1 DEF SmartInv, SmartLearned
    <3>3. x = c
      BY <3>1, <3>2 DEF Closer, Joined, Smart!Neighbors
    <3> QED  BY <1>0, <2>1, <2>5, <3>1, <3>2, <3>3
  <2> QED  BY <2>4, <2>7, <2>8 DEF SmartMarked
<1> QED  BY <1>11, <1>12, <1>13, <1>14, <1>17, <1>18 DEF SmartInv

(* The invariant of smartBlocks1.                                          *)
THEOREM SmartInvariance ==
  Smart!Spec => []SmartInv
<1> SUFFICES ASSUME Smart!GraphAssumption PROVE Smart!Spec => []SmartInv
    BY FloodsAssumption
<1>1. ASSUME SmartInv, [Smart!Next]_(Smart!vars) PROVE SmartInv'
  <2>1. CASE Smart!Startup
    BY <1>1, <2>1, SmartStartup
  <2>2. ASSUME NEW m \in BagToSet(smartBag), Smart!ReceiveDist(m) PROVE SmartInv'
    BY <1>1, <2>2, SmartReceiveDist
  <2>3. ASSUME NEW m \in BagToSet(smartBag), Smart!ReceiveAck(m) PROVE SmartInv'
    BY <1>1, <2>3, SmartReceiveAck
  <2>4. CASE UNCHANGED Smart!vars
    <3>1. smartLinks' = smartLinks /\ my_distance' = my_distance /\ colored' = colored /\ smartBag' = smartBag
      BY <2>4 DEF Smart!vars
    <3>2. Unreached' = Unreached
      BY DEF Unreached, Smart!MAX_DIST
    <3>3. SmartLevels' = SmartLevels
      BY <3>1, <3>2 DEF SmartLevels
    <3>4. SmartTyped' /\ SmartStarted' /\ SmartReached' /\ SmartComing'
      BY <1>1, <3>1, <3>2, <3>3 DEF SmartInv, SmartTyped, SmartStarted, SmartReached, SmartComing,
                                    SmartMessage, Joined, Hops, Smart!Dist
    <3>5. SmartLearned'
      BY <1>1, <3>1, <3>2, <3>3 DEF SmartInv, SmartLearned, Exact, Closer, Joined
    <3>6. SmartMarked'
      <4>1. /\ \A b : Exact(b)' <=> Exact(b)
            /\ \A b, c : Closer(b, c)' <=> Closer(b, c)
            /\ \A b, c, path : Told(b, c, path)' <=> Told(b, c, path)
            /\ Smart!Neighbors(Goal)' = Smart!Neighbors(Goal)
        BY <3>1, <3>2, <3>3 DEF Exact, Closer, Told, Joined, Answer, Smart!Ack, Smart!Neighbors
      <4>2. \A path : IsPath(path)' <=> IsPath(path)
        BY <4>1 DEF IsPath
      <4> QED  BY <1>1, <3>1, <4>1, <4>2 DEF SmartInv, SmartMarked
    <3> QED  BY <3>4, <3>5, <3>6 DEF SmartInv
  <2> QED  BY <1>1, <2>1, <2>2, <2>3, <2>4, SmartBags DEF Smart!Next
<1>2. Smart!Init => SmartInv
  BY SmartInit
<1> QED  BY <1>1, <1>2, PTL DEF Smart!Spec

(* When no message is left and block 2 is at the end of a branch, the path *)
(* has come to the master.                                                 *)
LEMMA SmartExact ==
  ASSUME Smart!GraphAssumption, SmartInv
  PROVE  Smart!PathIsMarked
<1> SUFFICES ASSUME my_distance[SmartMaster] = 0, smartBag = EmptyBag, Cardinality(Smart!Neighbors(Goal)) = 1,
                    Goal \in SmartLevels[Unreached]
             PROVE  \E path \in SUBSET colored :
                      /\ Smart!Neighbors(Goal) \subseteq path
                      /\ \A n \in 1..(Unreached - 1) :
                           \A b \in path \cap (SmartLevels[n] \ SmartLevels[n - 1]) :
                             \E c \in Smart!Neighbors(b) : c \in SmartLevels[n - 1] /\ c \in path
    BY SmartBags, SmartBall DEF Smart!PathIsMarked, Smart!Quiet, Unreached
<1>0. /\ Unreached \in Nat \ {0} /\ IsFiniteSet(SmartBlock) /\ SmartMaster \in SmartBlock /\ Goal \in SmartBlock
      /\ Goal # SmartMaster /\ BagToSet(smartBag) = {} /\ Unreached = Cardinality(SmartBlock)
  BY UnreachedType, BagNew
<1>1. SmartTyped /\ \A b \in SmartBlock : my_distance[b] \in 0..Unreached
  BY DEF SmartInv, SmartTyped
<1>2. AreDistances(my_distance, SmartBlock, SmartMaster, smartLinks, Unreached)
  BY <1>0, <1>1 DEF AreDistances, SmartInv, SmartTyped, SmartReached, SmartComing, SmartLevels, Joined
<1>3. \A n \in 0..Unreached : \A c \in SmartLevels[n] : my_distance[c] <= n
  BY <1>2, LevelsAreDistances DEF SmartLevels
<1>4. Exact(Goal)
  <2>1. Goal \in SmartLevels[Unreached - 1]
    BY <1>0, LevelsStop DEF SmartLevels
  <2> QED  BY <1>0, <1>1, <1>3, <2>1 DEF Exact
<1>5. PICK path \in SUBSET colored :
        /\ IsPath(path)
        /\ Exact(Goal) => \A c \in SmartBlock : Smart!Neighbors(Goal) = {c} => Told(Goal, c, path)
  BY DEF SmartInv, SmartMarked
<1>6. \A b, c \in SmartBlock : Told(b, c, path) => c \in path
  BY <1>0 DEF Told
<1>7. Smart!Neighbors(Goal) \subseteq path
  <2>1. Smart!Neighbors(Goal) \subseteq SmartBlock /\ IsFiniteSet(Smart!Neighbors(Goal))
    BY <1>0, FS_Subset DEF Smart!Neighbors
  <2>2. PICK c : Smart!Neighbors(Goal) = {c}
    BY <2>1, FS_Singleton
  <2>3. c \in SmartBlock
    BY <2>1, <2>2
  <2> QED  BY <1>0, <1>4, <1>5, <1>6, <2>2, <2>3
<1>8. ASSUME NEW n \in 1..(Unreached - 1), NEW b \in path, b \in SmartLevels[n], b \notin SmartLevels[n - 1]
      PROVE  \E c \in Smart!Neighbors(b) : c \in SmartLevels[n - 1] /\ c \in path
  <2>1. b \in SmartBlock /\ Exact(b)
    BY <1>1, <1>5 DEF SmartTyped, IsPath
  <2>2. my_distance[b] = n
    BY <1>0, <1>2, <1>8, <2>1, LevelsAreDistances DEF SmartLevels
  <2>3. b # SmartMaster
    BY <1>0, <1>8, <2>2
  <2>4. PICK c \in SmartBlock : Closer(b, c) /\ Told(b, c, path)
    BY <1>5, <1>8, <2>3 DEF IsPath
  <2>5. c \in path /\ my_distance[c] = n - 1 /\ Joined(b, c)
    BY <1>6, <2>1, <2>2, <2>4 DEF Closer
  <2>6. c \in SmartLevels[n - 1]
    BY <1>0, <2>5 DEF SmartInv, SmartReached
  <2> QED  BY <2>5, <2>6 DEF Smart!Neighbors, Joined
<1> QED  BY <1>5, <1>7, <1>8

-----------------------------------------------------------------------------
(* csgCatoms3D *)

Space == Int \X Int \X Int

(* Where a cell is, in the axes of the connectors: odd layers are shifted. *)
Place(p) == <<p[1] + p[2] + (IF p[3] % 2 = 0 THEN 0 ELSE 1), p[2] - p[1], p[3]>>

Minus(p, q) == <<p[1] - q[1], p[2] - q[2], p[3] - q[3]>>

(* A vector as the catom that is turned sees it.                           *)
Plain(k, v) ==
  LET m == Csg!TabOrientation[k + 1]
  IN  <<Csg!Dot(m[1], v), Csg!Dot(m[2], v), Csg!Dot(m[3], v)>>

Spin(code, v) == IF code >= 12 THEN Csg!Up(Plain(code % 12, v)) ELSE Plain(code % 12, v)

Vector(v) ==
  /\ v \in Space
  /\ v[1] \in -1..1 /\ v[2] \in -1..1 /\ v[3] \in -1..1
  /\ \/ v[1] = 0 /\ v[2] # 0 /\ v[3] # 0
     \/ v[1] # 0 /\ v[2] = 0 /\ v[3] # 0
     \/ v[1] # 0 /\ v[2] # 0 /\ v[3] = 0

(* The twelve connectors.                                                  *)
LEMMA Connectors == Csg!Connector = 0..11
BY DEF Csg!Connector, Csg!Direction

(* The three coordinates of a vector.                                      *)
LEMMA SpaceIs == \A p \in Space : p[1] \in Int /\ p[2] \in Int /\ p[3] \in Int /\ p = <<p[1], p[2], p[3]>>
BY DEF Space

(* The cell in the direction of a connector is a connector further.        *)
LEMMA CellInIs ==
  ASSUME NEW p \in Space, NEW d \in Csg!Connector
  PROVE  /\ Csg!CellIn(p, d) \in Space
         /\ Place(Csg!CellIn(p, d)) = Csg!At(Place(p), Csg!ConnectorPosition[d])
<1> DEFINE t == (IF p[3] % 2 = 0 THEN Csg!FCCCellsEven ELSE Csg!FCCCellsOdd)[d + 1]
<1>1. Csg!CellIn(p, d) = <<p[1] + t[1], p[2] + t[2], p[3] + t[3]>>
  <2>1. Csg!RelativeConnectivity("FCCLattice", p) = IF p[3] % 2 = 0 THEN Csg!FCCCellsEven ELSE Csg!FCCCellsOdd
    BY DEF Csg!RelativeConnectivity, Csg!RelativeCells, Csg!IsEven
  <2> QED  BY <2>1 DEF Csg!CellIn, Csg!NextCell, Csg!Plus
<1>2. p[1] \in Int /\ p[2] \in Int /\ p[3] \in Int
  BY SpaceIs
<1>3. d \in 0..11
  BY Connectors
<1>4. /\ t[1] \in Int /\ t[2] \in Int /\ t[3] \in Int
      /\ LET c == Csg!ConnectorPosition[d]
             up == IF t[3] = 0 THEN 0 ELSE IF p[3] % 2 = 0 THEN 1 ELSE -1
         IN  c = <<t[1] + t[2] + up, t[2] - t[1], t[3]>> /\ t[3] \in -1..1
  <2>1. CASE p[3] % 2 = 0
    BY <1>3, <2>1, Connectors DEF Csg!FCCCellsEven, Csg!ConnectorPosition
  <2>2. CASE p[3] % 2 # 0
    BY <1>3, <2>2, Connectors DEF Csg!FCCCellsOdd, Csg!ConnectorPosition
  <2> QED  BY <2>1, <2>2
<1> HIDE DEF t
<1>5. (p[3] + t[3]) % 2 = 0 <=> (IF t[3] = 0 THEN p[3] % 2 = 0 ELSE p[3] % 2 # 0)
  BY <1>2, <1>4
<1>6. Csg!CellIn(p, d) \in Space
  BY <1>1, <1>2, <1>4 DEF Space
<1>7. Place(Csg!CellIn(p, d)) = Csg!At(Place(p), Csg!ConnectorPosition[d])
  <2> DEFINE up == IF t[3] = 0 THEN 0 ELSE IF p[3] % 2 = 0 THEN 1 ELSE -1
  <2>1. Csg!ConnectorPosition[d] = <<t[1] + t[2] + up, t[2] - t[1], t[3]>>
    BY <1>4
  <2>2. (IF (p[3] + t[3]) % 2 = 0 THEN 0 ELSE 1) = (IF p[3] % 2 = 0 THEN 0 ELSE 1) + up
    BY <1>2, <1>4, <1>5
  <2> QED  BY <1>1, <1>2, <1>4, <2>1, <2>2 DEF Place, Csg!At
<1> QED  BY <1>6, <1>7

(* The connectors and their vectors name each other.                       *)
LEMMA ConnectorsAre ==
  /\ \A i \in Csg!Connector : Vector(Csg!ConnectorPosition[i])
  /\ \A v : Vector(v) => Csg!DirectionOf(v) \in Csg!Connector
                         /\ Csg!ConnectorPosition[Csg!DirectionOf(v)] = v
<1>1. ASSUME NEW i \in Csg!Connector PROVE Vector(Csg!ConnectorPosition[i])
  BY Connectors DEF Csg!ConnectorPosition, Vector, Space
<1>2. ASSUME NEW v, Vector(v) PROVE \E i \in Csg!Connector : Csg!ConnectorPosition[i] = v
  <2> DEFINE P == Csg!ConnectorPosition
  <2>1. /\ P[0] = <<1, -1, 0>> /\ P[1] = <<1, 1, 0>> /\ P[2] = <<1, 0, 1>> /\ P[3] = <<0, 1, 1>>
        /\ P[4] = <<-1, 0, 1>> /\ P[5] = <<0, -1, 1>> /\ P[6] = <<-1, 1, 0>> /\ P[7] = <<-1, -1, 0>>
        /\ P[8] = <<-1, 0, -1>> /\ P[9] = <<0, -1, -1>> /\ P[10] = <<1, 0, -1>> /\ P[11] = <<0, 1, -1>>
    BY Connectors DEF Csg!ConnectorPosition
  <2> HIDE DEF P
  <2>2. v = <<v[1], v[2], v[3]>> /\ v[1] \in {-1, 0, 1} /\ v[2] \in {-1, 0, 1} /\ v[3] \in {-1, 0, 1}
    BY <1>2 DEF Vector, Space
  <2>3. \E i \in 0..11 : P[i] = v
    BY <1>2, <2>1, <2>2 DEF Vector
  <2> QED  BY <2>3, Connectors DEF P
<1>3. \A v : Vector(v) => Csg!DirectionOf(v) \in Csg!Connector /\ Csg!ConnectorPosition[Csg!DirectionOf(v)] = v
  BY <1>2 DEF Csg!DirectionOf
<1> QED  BY <1>1, <1>3

(* The twelve matrices exchange the coordinates and change signs.          *)
LEMMA PlainIs ==
  ASSUME NEW v \in Space, NEW k \in 0..11
  PROVE  Plain(k, v) =
         CASE k = 0 -> <<v[1], v[2], v[3]>>
             [] k = 1 -> <<v[1], -v[2], -v[3]>>
             [] k = 2 -> <<v[3], -v[1], -v[2]>>
             [] k = 3 -> <<v[2], -v[3], -v[1]>>
             [] k = 4 -> <<v[3], v[1], v[2]>>
             [] k = 5 -> <<-v[2], -v[3], v[1]>>
             [] k = 6 -> <<-v[1], -v[2], v[3]>>
             [] k = 7 -> <<-v[1], v[2], -v[3]>>
             [] k = 8 -> <<-v[3], v[1], -v[2]>>
             [] k = 9 -> <<-v[2], v[3], -v[1]>>
             [] k = 10 -> <<-v[3], -v[1], v[2]>>
             [] k = 11 -> <<v[2], v[3], v[1]>>
<1>1. v[1] \in Int /\ v[2] \in Int /\ v[3] \in Int
  BY SpaceIs
<1>c0. CASE k = 0
  BY <1>1, <1>c0 DEF Plain, Csg!TabOrientation, Csg!Dot
<1>c1. CASE k = 1
  BY <1>1, <1>c1 DEF Plain, Csg!TabOrientation, Csg!Dot
<1>c2. CASE k = 2
  BY <1>1, <1>c2 DEF Plain, Csg!TabOrientation, Csg!Dot
<1>c3. CASE k = 3
  BY <1>1, <1>c3 DEF Plain, Csg!TabOrientation, Csg!Dot
<1>c4. CASE k = 4
  BY <1>1, <1>c4 DEF Plain, Csg!TabOrientation, Csg!Dot
<1>c5. CASE k = 5
  BY <1>1, <1>c5 DEF Plain, Csg!TabOrientation, Csg!Dot
<1>c6. CASE k = 6
  BY <1>1, <1>c6 DEF Plain, Csg!TabOrientation, Csg!Dot
<1>c7. CASE k = 7
  BY <1>1, <1>c7 DEF Plain, Csg!TabOrientation, Csg!Dot
<1>c8. CASE k = 8
  BY <1>1, <1>c8 DEF Plain, Csg!TabOrientation, Csg!Dot
<1>c9. CASE k = 9
  BY <1>1, <1>c9 DEF Plain, Csg!TabOrientation, Csg!Dot
<1>c10. CASE k = 10
  BY <1>1, <1>c10 DEF Plain, Csg!TabOrientation, Csg!Dot
<1>c11. CASE k = 11
  BY <1>1, <1>c11 DEF Plain, Csg!TabOrientation, Csg!Dot
<1> QED  BY <1>c0, <1>c1, <1>c2, <1>c3, <1>c4, <1>c5, <1>c6, <1>c7, <1>c8, <1>c9, <1>c10, <1>c11

(* The twelve rotations are linear, keep the vectors of the connectors,    *)
(* and can be undone.                                                      *)
LEMMA PlainRotates ==
  ASSUME NEW k \in 0..11
  PROVE  /\ \A v \in Space : Plain(k, v) \in Space /\ (Vector(v) => Vector(Plain(k, v)))
         /\ \A v, w \in Space : /\ Plain(k, Csg!At(v, w)) = Csg!At(Plain(k, v), Plain(k, w))
                                /\ Plain(k, v) = Plain(k, w) => v = w
         /\ Plain(k, <<0, 0, 0>>) = <<0, 0, 0>>
<1>1. ASSUME NEW v \in Space PROVE Plain(k, v) \in Space /\ (Vector(v) => Vector(Plain(k, v)))
  <2>1. v[1] \in Int /\ v[2] \in Int /\ v[3] \in Int
    BY SpaceIs
  <2>2. /\ Plain(k, v)[1] \in Int /\ Plain(k, v)[2] \in Int /\ Plain(k, v)[3] \in Int
        /\ Plain(k, v) = <<Plain(k, v)[1], Plain(k, v)[2], Plain(k, v)[3]>>
    BY <2>1, PlainIs
  <2>3. Plain(k, v) \in Space
    BY <2>2 DEF Space
  <2>4. Vector(v) => Vector(Plain(k, v))
    BY <2>1, <2>3, PlainIs, SMTT(60) DEF Vector
  <2> QED  BY <2>3, <2>4
<1>2. ASSUME NEW v \in Space, NEW w \in Space
      PROVE  /\ Plain(k, Csg!At(v, w)) = Csg!At(Plain(k, v), Plain(k, w))
             /\ Plain(k, v) = Plain(k, w) => v = w
  <2>1. Csg!At(v, w) \in Space
    BY SpaceIs DEF Csg!At, Space
  <2>2. Plain(k, Csg!At(v, w)) = Csg!At(Plain(k, v), Plain(k, w))
    BY <2>1, PlainIs, SpaceIs DEF Csg!At
  <2>3. Plain(k, v) = Plain(k, w) => v = w
    BY PlainIs, SpaceIs
  <2> QED  BY <2>2, <2>3
<1>3. Plain(k, <<0, 0, 0>>) = <<0, 0, 0>>
  <2>1. <<0, 0, 0>> \in Space
    BY DEF Space
  <2> QED  BY <2>1, PlainIs
<1> QED  BY <1>1, <1>2, <1>3

(* So is the half turn of the codes from 12 on.                            *)
LEMMA UpRotates ==
  /\ \A v \in Space : Csg!Up(v) \in Space /\ (Vector(v) => Vector(Csg!Up(v)))
  /\ \A v, w \in Space : /\ Csg!Up(Csg!At(v, w)) = Csg!At(Csg!Up(v), Csg!Up(w))
                         /\ Csg!Up(v) = Csg!Up(w) => v = w
  /\ Csg!Up(<<0, 0, 0>>) = <<0, 0, 0>>
<1>1. ASSUME NEW v \in Space PROVE Csg!Up(v) \in Space /\ (Vector(v) => Vector(Csg!Up(v)))
  BY SpaceIs DEF Csg!Up, Space, Vector
<1>2. ASSUME NEW v \in Space, NEW w \in Space
      PROVE  /\ Csg!Up(Csg!At(v, w)) = Csg!At(Csg!Up(v), Csg!Up(w))
             /\ Csg!Up(v) = Csg!Up(w) => v = w
  BY SpaceIs DEF Csg!At, Csg!Up
<1>3. Csg!Up(<<0, 0, 0>>) = <<0, 0, 0>>
  <2>1. <<0, 0, 0>> \in Space /\ Csg!At(<<0, 0, 0>>, <<0, 0, 0>>) = <<0, 0, 0>>
    BY DEF Space, Csg!At
  <2>2. PICK z \in Space : z = Csg!Up(<<0, 0, 0>>) /\ Csg!At(z, z) = z
    BY <1>1, <1>2, <2>1
  <2>3. z[1] + z[1] = z[1] /\ z[2] + z[2] = z[2] /\ z[3] + z[3] = z[3]
    <3>1. Csg!At(z, z)[1] = z[1] /\ Csg!At(z, z)[2] = z[2] /\ Csg!At(z, z)[3] = z[3]
      BY <2>2
    <3> QED  BY <3>1 DEF Csg!At
  <2>4. z = <<0, 0, 0>>
    <3>1. z[1] \in Int /\ z[2] \in Int /\ z[3] \in Int /\ z = <<z[1], z[2], z[3]>>
      BY SpaceIs
    <3>2. \A x \in Int : x + x = x => x = 0
      OBVIOUS
    <3>3. z[1] = 0 /\ z[2] = 0 /\ z[3] = 0
      BY <2>3, <3>1, <3>2
    <3> QED  BY <3>1, <3>3
  <2> QED  BY <2>2, <2>4
<1> QED  BY <1>1, <1>2, <1>3

(* So are the twenty-four.                                                 *)
LEMMA SpinRotates ==
  ASSUME NEW code \in 0..23
  PROVE  /\ \A v \in Space : Spin(code, v) \in Space /\ (Vector(v) => Vector(Spin(code, v)))
         /\ \A v, w \in Space : /\ Spin(code, Csg!At(v, w)) = Csg!At(Spin(code, v), Spin(code, w))
                                /\ Spin(code, v) = Spin(code, w) => v = w
         /\ Spin(code, <<0, 0, 0>>) = <<0, 0, 0>>
<1>1. code % 12 \in 0..11
  OBVIOUS
<1>2. ASSUME NEW v \in Space PROVE Spin(code, v) \in Space /\ (Vector(v) => Vector(Spin(code, v)))
  BY <1>1, PlainRotates, UpRotates DEF Spin
<1>3. ASSUME NEW v \in Space, NEW w \in Space
      PROVE  /\ Spin(code, Csg!At(v, w)) = Csg!At(Spin(code, v), Spin(code, w))
             /\ Spin(code, v) = Spin(code, w) => v = w
  <2> DEFINE k == code % 12
  <2>1. /\ Plain(k, v) \in Space /\ Plain(k, w) \in Space
        /\ Plain(k, Csg!At(v, w)) = Csg!At(Plain(k, v), Plain(k, w))
        /\ Plain(k, v) = Plain(k, w) => v = w
    BY <1>1, PlainRotates
  <2>2. /\ Csg!Up(Csg!At(Plain(k, v), Plain(k, w))) = Csg!At(Csg!Up(Plain(k, v)), Csg!Up(Plain(k, w)))
        /\ Csg!Up(Plain(k, v)) = Csg!Up(Plain(k, w)) => Plain(k, v) = Plain(k, w)
    BY <2>1, UpRotates
  <2> QED  BY <2>1, <2>2 DEF Spin
<1>4. Spin(code, <<0, 0, 0>>) = <<0, 0, 0>>
  BY <1>1, PlainRotates, UpRotates DEF Spin
<1> QED  BY <1>2, <1>3, <1>4

(* The connector of a catom that is turned faces the vector that is turned. *)
LEMMA TurnedIs ==
  ASSUME NEW code \in 0..23, NEW i \in Csg!Connector
  PROVE  /\ Csg!Turned[code][i] \in Csg!Connector
         /\ Csg!ConnectorPosition[Csg!Turned[code][i]] = Spin(code, Csg!ConnectorPosition[i])
<1>1. Vector(Csg!ConnectorPosition[i]) /\ Csg!ConnectorPosition[i] \in Space
  BY ConnectorsAre DEF Vector
<1>2. Vector(Spin(code, Csg!ConnectorPosition[i]))
  BY <1>1, SpinRotates
<1>3. Csg!Turned[code][i] = Csg!DirectionOf(Spin(code, Csg!ConnectorPosition[i]))
  BY DEF Csg!Turned, Spin, Plain
<1> QED  BY <1>2, <1>3, ConnectorsAre

-----------------------------------------------------------------------------
(* The bags of the instance are those of this module.                      *)
LEMMA CsgBags ==
  /\ \A S : Csg!SetToBag(S) = SetToBag(S)
  /\ \A S : Csg!BagToSet(S) = BagToSet(S)
  /\ \A A, B : Csg!(-)(A, B) = A (-) B
  /\ \A A, B : Csg!(+)(A, B) = A (+) B
  /\ Csg!EmptyBag = EmptyBag
BY DEF Csg!SetToBag, SetToBag, Csg!BagToSet, BagToSet, Csg!(-), (-), Csg!(+), (+), Csg!EmptyBag, EmptyBag

Placed(c) == Csg!HasPosition(c)

CsgTyped ==
  /\ cell \in [CsgCatom -> Space]
  /\ csgCode \in [CsgCatom -> 0..23]
  /\ myPosition \in [CsgCatom -> Space \cup {NoPosition}]
  /\ visible \in [CsgCatom -> BOOLEAN]
  /\ IsABag(csgBag)
  /\ BagToSet(csgBag) \subseteq [to : CsgCatom, position : Space]

(* The flood starts with catom 1.                                          *)
CsgStarted == ~Placed(1) => BagToSet(csgBag) = {} /\ \A c \in CsgCatom : ~Placed(c)

(* A position is that of the cell, seen from catom 1 by a catom turned as  *)
(* it is.                                                                  *)
SeenFrom1(c, p) == Spin(csgCode[1], p) = Minus(Place(cell[c]), Place(cell[1]))

Alike == \A c, d \in CsgCatom : csgCode[c] = csgCode[d]

CsgSeen ==
  Alike => /\ \A c \in CsgCatom : Placed(c) => SeenFrom1(c, myPosition[c])
           /\ \A m \in BagToSet(csgBag) : SeenFrom1(m.to, m.position)

(* A catom that has a position shows as the shape says, and its neighbours *)
(* have one or will have.                                                  *)
CsgDrawn ==
  \A c \in CsgCatom :
    /\ visible[c] <=> (Placed(c) => CsgShape(myPosition[c]))
    /\ Placed(c) => \A l \in Csg!Neighbors(c) : Placed(l[2]) \/ \E m \in BagToSet(csgBag) : m.to = l[2]

CsgInv == CsgTyped /\ CsgStarted /\ CsgSeen /\ CsgDrawn

(* The assumption on the placements, with the names of this module.        *)
LEMMA PlacementIs ==
  ASSUME Csg!PlacementAssumption
  PROVE  /\ 1 \in CsgCatom /\ NoPosition \notin Space
         /\ CsgPlacements \subseteq [CsgCatom -> Space] /\ CsgCodes \subseteq [CsgCatom -> 0..23]
BY DEF Csg!PlacementAssumption, Csg!Position, Space

(* What a catom that has taken a place sends: where its neighbours are.    *)
CsgSent(c, p) == {Csg!Message(l[2], Csg!At(p, Csg!ConnectorPosition[l[1]])) : l \in Csg!Neighbors(c)}

(* The neighbour on a connector is where the connector points.             *)
LEMMA NeighborsAre ==
  ASSUME CsgTyped, NEW c \in CsgCatom, NEW l \in Csg!Neighbors(c)
  PROVE  /\ l[1] \in Csg!Connector /\ l[2] \in CsgCatom
         /\ Place(cell[l[2]]) = Csg!At(Place(cell[c]), Spin(csgCode[c], Csg!ConnectorPosition[l[1]]))
         /\ Csg!ConnectorPosition[l[1]] \in Space
<1>1. l[1] \in Csg!Connector /\ l[2] \in CsgCatom /\ cell[l[2]] = Csg!CellIn(cell[c], Csg!Turned[csgCode[c]][l[1]])
  BY DEF Csg!Neighbors
<1>2. cell[c] \in Space /\ csgCode[c] \in 0..23
  BY DEF CsgTyped
<1>3. /\ Csg!Turned[csgCode[c]][l[1]] \in Csg!Connector
      /\ Csg!ConnectorPosition[Csg!Turned[csgCode[c]][l[1]]] = Spin(csgCode[c], Csg!ConnectorPosition[l[1]])
  BY <1>1, <1>2, TurnedIs
<1>4. Place(cell[l[2]]) = Csg!At(Place(cell[c]), Csg!ConnectorPosition[Csg!Turned[csgCode[c]][l[1]]])
  BY <1>1, <1>2, <1>3, CellInIs
<1>5. Csg!ConnectorPosition[l[1]] \in Space
  BY <1>1, ConnectorsAre DEF Vector
<1> QED  BY <1>1, <1>3, <1>4, <1>5

(* A place that is told is right if that of the teller is.                 *)
LEMMA ToldRight ==
  ASSUME Csg!PlacementAssumption, CsgTyped, Alike, NEW c \in CsgCatom, NEW p \in Space, SeenFrom1(c, p),
         NEW l \in Csg!Neighbors(c)
  PROVE  SeenFrom1(l[2], Csg!At(p, Csg!ConnectorPosition[l[1]]))
<1> DEFINE o == csgCode[1]
           v == Csg!ConnectorPosition[l[1]]
<1>1. /\ 1 \in CsgCatom /\ o \in 0..23 /\ csgCode[c] = o /\ v \in Space /\ l[2] \in CsgCatom
      /\ cell[c] \in Space /\ cell[1] \in Space
      /\ Place(cell[l[2]]) = Csg!At(Place(cell[c]), Spin(o, v))
  BY PlacementIs, NeighborsAre DEF CsgTyped, Alike
<1> HIDE DEF o, v
<1>2. /\ Spin(o, Csg!At(p, v)) = Csg!At(Spin(o, p), Spin(o, v))
      /\ Spin(o, v) \in Space /\ Spin(o, p) \in Space
  BY <1>1, SpinRotates
<1>3. Place(cell[c]) \in Space /\ Place(cell[1]) \in Space
  BY <1>1, SpaceIs DEF Place, Space
<1>4. Spin(o, p) = Minus(Place(cell[c]), Place(cell[1]))
  BY DEF SeenFrom1, o
<1>5. Csg!At(Spin(o, p), Spin(o, v)) = Minus(Csg!At(Place(cell[c]), Spin(o, v)), Place(cell[1]))
  BY <1>2, <1>3, <1>4, SpaceIs DEF Csg!At, Minus
<1>6. Spin(o, Csg!At(p, v)) = Minus(Place(cell[l[2]]), Place(cell[1]))
  BY <1>1, <1>2, <1>5
<1> QED  BY <1>6 DEF SeenFrom1, o, v

(* The messages that a catom sends, one for each of its links.             *)
LEMMA CsgSends ==
  ASSUME CsgTyped, NEW c \in CsgCatom, NEW p \in Space
  PROVE  /\ Csg!SendCSGMessage(c, p) = SetToBag(CsgSent(c, p))
         /\ CsgSent(c, p) \subseteq [to : CsgCatom, position : Space]
         /\ \A m \in CsgSent(c, p) : \E l \in Csg!Neighbors(c) :
              m.to = l[2] /\ m.position = Csg!At(p, Csg!ConnectorPosition[l[1]])
         /\ \A l \in Csg!Neighbors(c) : \E m \in CsgSent(c, p) : m.to = l[2]
<1>1. Csg!SendCSGMessage(c, p) = SetToBag(CsgSent(c, p))
  BY CsgBags DEF Csg!SendCSGMessage, Csg!PlaceOf, CsgSent
<1>2. ASSUME NEW l \in Csg!Neighbors(c)
      PROVE  LET m == Csg!Message(l[2], Csg!At(p, Csg!ConnectorPosition[l[1]]))
             IN  /\ m \in CsgSent(c, p) /\ m \in [to : CsgCatom, position : Space]
                 /\ m.to = l[2] /\ m.position = Csg!At(p, Csg!ConnectorPosition[l[1]])
  <2> DEFINE q == Csg!At(p, Csg!ConnectorPosition[l[1]])
             m == Csg!Message(l[2], q)
  <2>1. l[2] \in CsgCatom /\ Csg!ConnectorPosition[l[1]] \in Space
    BY NeighborsAre
  <2>2. q \in Space
    BY <2>1, SpaceIs DEF Csg!At, Space
  <2>3. m \in CsgSent(c, p)
    BY DEF CsgSent
  <2> HIDE DEF q
  <2>4. m \in [to : CsgCatom, position : Space] /\ m.to = l[2] /\ m.position = q
    BY <2>1, <2>2 DEF Csg!Message
  <2> QED  BY <2>3, <2>4 DEF q
<1>3. ASSUME NEW m \in CsgSent(c, p)
      PROVE  \E l \in Csg!Neighbors(c) : m = Csg!Message(l[2], Csg!At(p, Csg!ConnectorPosition[l[1]]))
  BY DEF CsgSent
<1> QED  BY <1>1, <1>2, <1>3

(* At the beginning no catom knows where it is.                            *)
LEMMA CsgInit == Csg!PlacementAssumption /\ Csg!Init => CsgInv
<1> SUFFICES ASSUME Csg!PlacementAssumption, Csg!Init PROVE CsgInv
    OBVIOUS
<1>1. /\ cell \in [CsgCatom -> Space] /\ csgCode \in [CsgCatom -> 0..23]
      /\ myPosition = [c \in CsgCatom |-> NoPosition] /\ visible = [c \in CsgCatom |-> TRUE]
      /\ IsABag(csgBag) /\ BagToSet(csgBag) = {}
  BY PlacementIs, BagNew, CsgBags DEF Csg!Init
<1>2. \A c \in CsgCatom : ~Placed(c) /\ visible[c] = TRUE
  BY <1>1 DEF Placed, Csg!HasPosition
<1>3. CsgTyped
  BY <1>1 DEF CsgTyped
<1> QED  BY <1>1, <1>2, <1>3 DEF CsgInv, CsgStarted, CsgSeen, CsgDrawn

(* A catom takes a right place.                                            *)
LEMMA CsgTakePosition ==
  ASSUME Csg!PlacementAssumption, CsgInv, NEW c \in CsgCatom, NEW p \in Space, NEW rest,
         ~Placed(c), Alike => SeenFrom1(c, p),
         IsABag(rest), BagToSet(rest) \subseteq BagToSet(csgBag),
         \A m \in BagToSet(csgBag) : m.to # c => m \in BagToSet(rest),
         c = 1 \/ Placed(1),
         Csg!TakePosition(c, p, rest), UNCHANGED <<cell, csgCode>>
  PROVE  CsgInv'
<1>1. CsgTyped /\ p # NoPosition /\ NoPosition \notin Space
  BY PlacementIs DEF CsgInv
<1>2. /\ myPosition' = [myPosition EXCEPT ![c] = p]
      /\ visible' = [visible EXCEPT ![c] = @ /\ CsgShape(p)]
      /\ csgBag' = rest (+) Csg!SendCSGMessage(c, p)
      /\ cell' = cell /\ csgCode' = csgCode
  BY CsgBags DEF Csg!TakePosition
<1>3. IsABag(csgBag') /\ BagToSet(csgBag') = BagToSet(rest) \cup CsgSent(c, p)
  BY <1>1, <1>2, CsgSends, BagPut
<1>4. \A b \in CsgCatom : myPosition'[b] = IF b = c THEN p ELSE myPosition[b]
  BY <1>1, <1>2 DEF CsgTyped
<1>5. \A b \in CsgCatom : Placed(b)' <=> b = c \/ Placed(b)
  BY <1>1, <1>4 DEF Placed, Csg!HasPosition
<1>6. \A b \in CsgCatom : visible'[b] <=> (IF b = c THEN CsgShape(p) ELSE visible[b])
  <2>1. visible[c]
    BY DEF CsgInv, CsgDrawn
  <2>2. visible'[c] = (visible[c] /\ CsgShape(p))
    BY <1>1, <1>2 DEF CsgTyped
  <2>3. visible'[c] <=> CsgShape(p)
    BY <2>1, <2>2
  <2>4. \A b \in CsgCatom : b # c => visible'[b] = visible[b]
    BY <1>1, <1>2 DEF CsgTyped
  <2> QED  BY <2>3, <2>4
<1>7. CsgTyped'
  <2>1. myPosition' \in [CsgCatom -> Space \cup {NoPosition}]
    BY <1>1, <1>2 DEF CsgTyped
  <2>2. visible' \in [CsgCatom -> BOOLEAN]
    BY <1>1, <1>2 DEF CsgTyped
  <2> QED  BY <1>1, <1>2, <1>3, <2>1, <2>2, CsgSends DEF CsgTyped
<1>8. CsgStarted'
  <2>1. 1 \in CsgCatom
    BY PlacementIs
  <2> QED  BY <1>5, <2>1 DEF CsgStarted
<1>9. CsgSeen'
  <2> SUFFICES ASSUME Alike
               PROVE  /\ \A b \in CsgCatom : Placed(b)' => SeenFrom1(b, myPosition'[b])
                      /\ \A m \in BagToSet(csgBag') : SeenFrom1(m.to, m.position)
      BY <1>2 DEF CsgSeen, Alike, SeenFrom1
  <2>1. \A b \in CsgCatom : Placed(b)' => SeenFrom1(b, myPosition'[b])
    BY <1>4, <1>5 DEF CsgInv, CsgSeen
  <2>2. ASSUME NEW m \in CsgSent(c, p) PROVE SeenFrom1(m.to, m.position)
    <3>1. PICK l \in Csg!Neighbors(c) : m.to = l[2] /\ m.position = Csg!At(p, Csg!ConnectorPosition[l[1]])
      BY <1>1, CsgSends
    <3> QED  BY <1>1, <3>1, ToldRight
  <2> QED  BY <1>3, <2>1, <2>2 DEF CsgInv, CsgSeen
<1>10. CsgDrawn'
  <2> SUFFICES ASSUME NEW b \in CsgCatom
               PROVE  /\ visible'[b] <=> (Placed(b)' => CsgShape(myPosition'[b]))
                      /\ Placed(b)' => \A l \in Csg!Neighbors(b) :
                           Placed(l[2])' \/ \E m \in BagToSet(csgBag') : m.to = l[2]
      BY <1>2 DEF CsgDrawn, Csg!Neighbors
  <2>1. visible'[b] <=> (Placed(b)' => CsgShape(myPosition'[b]))
    BY <1>4, <1>5, <1>6 DEF CsgInv, CsgDrawn
  <2>2. ASSUME Placed(b)', NEW l \in Csg!Neighbors(b)
        PROVE  Placed(l[2])' \/ \E m \in BagToSet(csgBag') : m.to = l[2]
    <3>1. l[2] \in CsgCatom
      BY <1>1, NeighborsAre
    <3>2. CASE b = c
      BY <1>1, <1>3, <2>2, <3>2, CsgSends
    <3>3. CASE b # c
      <4>1. Placed(l[2]) \/ \E m \in BagToSet(csgBag) : m.to = l[2]
        BY <1>5, <2>2, <3>3 DEF CsgInv, CsgDrawn
      <4> QED  BY <1>3, <1>5, <3>1, <4>1
    <3> QED  BY <3>2, <3>3
  <2> QED  BY <2>1, <2>2
<1> QED  BY <1>7, <1>8, <1>9, <1>10 DEF CsgInv

(* CsgCatom 1 starts at the origin.                                           *)
LEMMA CsgStartup ==
  ASSUME Csg!PlacementAssumption, CsgInv, Csg!Startup
  PROVE  CsgInv'
<1>1. /\ ~Placed(1) /\ Csg!TakePosition(1, <<0, 0, 0>>, EmptyBag) /\ UNCHANGED <<cell, csgCode>>
  BY CsgBags DEF Csg!Startup, Placed
<1>2. 1 \in CsgCatom /\ CsgTyped /\ BagToSet(csgBag) = {} /\ <<0, 0, 0>> \in Space
  BY <1>1, PlacementIs DEF CsgInv, CsgStarted, Space
<1>3. SeenFrom1(1, <<0, 0, 0>>)
  <2>1. csgCode[1] \in 0..23 /\ cell[1] \in Space
    BY <1>2 DEF CsgTyped
  <2>2. Place(cell[1]) \in Space
    BY <2>1, SpaceIs DEF Place, Space
  <2>3. Minus(Place(cell[1]), Place(cell[1])) = <<0, 0, 0>>
    BY <2>2, SpaceIs DEF Minus
  <2> QED  BY <2>1, <2>3, SpinRotates DEF SeenFrom1
<1> QED  BY <1>1, <1>2, <1>3, BagNew, CsgTakePosition

(* A catom takes the first place that it is told.                          *)
LEMMA CsgReceive ==
  ASSUME Csg!PlacementAssumption, CsgInv, NEW m \in BagToSet(csgBag), Csg!Receive(m)
  PROVE  CsgInv'
<1> DEFINE rest == csgBag (-) SetToBag({m})
<1>1. CsgTyped /\ m.to \in CsgCatom /\ m.position \in Space
  BY DEF CsgInv, CsgTyped
<1>2. /\ IsABag(rest) /\ BagToSet(rest) \subseteq BagToSet(csgBag)
      /\ BagToSet(csgBag) \ {m} \subseteq BagToSet(rest)
  BY <1>1, BagTake DEF CsgTyped
<1>3. /\ \/ ~Placed(m.to) /\ Csg!TakePosition(m.to, m.position, rest)
         \/ Placed(m.to) /\ csgBag' = rest /\ UNCHANGED <<myPosition, visible>>
      /\ UNCHANGED <<cell, csgCode>>
  BY CsgBags DEF Csg!Receive, Placed
<1> HIDE DEF rest
<1>4. CASE ~Placed(m.to) /\ Csg!TakePosition(m.to, m.position, rest)
  <2>1. Alike => SeenFrom1(m.to, m.position)
    BY DEF CsgInv, CsgSeen
  <2>2. Placed(1)
    BY DEF CsgInv, CsgStarted
  <2>3. \A x \in BagToSet(csgBag) : x.to # m.to => x \in BagToSet(rest)
    BY <1>2
  <2> QED  BY <1>1, <1>2, <1>3, <1>4, <2>1, <2>2, <2>3, CsgTakePosition
<1>5. CASE Placed(m.to) /\ csgBag' = rest /\ UNCHANGED <<myPosition, visible>>
  <2>1. /\ cell' = cell /\ csgCode' = csgCode /\ myPosition' = myPosition /\ visible' = visible /\ csgBag' = rest
        /\ \A c : Placed(c)' <=> Placed(c)
    BY <1>3, <1>5 DEF Placed, Csg!HasPosition
  <2>2. CsgTyped' /\ CsgStarted'
    BY <1>1, <1>2, <2>1 DEF CsgInv, CsgTyped, CsgStarted
  <2>3. CsgSeen'
    BY <1>2, <2>1 DEF CsgInv, CsgSeen, Alike, SeenFrom1
  <2>4. CsgDrawn'
    <3> SUFFICES ASSUME NEW c \in CsgCatom, Placed(c), NEW l \in Csg!Neighbors(c)
                 PROVE  Placed(l[2]) \/ \E x \in BagToSet(rest) : x.to = l[2]
        BY <2>1 DEF CsgInv, CsgDrawn, Csg!Neighbors
    <3>1. Placed(l[2]) \/ \E x \in BagToSet(csgBag) : x.to = l[2]
      BY DEF CsgInv, CsgDrawn
    <3> QED  BY <1>2, <1>5, <3>1
  <2> QED  BY <2>2, <2>3, <2>4 DEF CsgInv
<1> QED  BY <1>3, <1>4, <1>5

(* The invariant of csgCatoms3D.                                           *)
THEOREM CsgInvariance ==
  Csg!Spec => []CsgInv
<1> SUFFICES ASSUME Csg!PlacementAssumption PROVE Csg!Spec => []CsgInv
    BY FloodsAssumption
<1>1. ASSUME CsgInv, [Csg!Next]_(Csg!vars) PROVE CsgInv'
  <2>1. CASE Csg!Startup
    BY <1>1, <2>1, CsgStartup
  <2>2. ASSUME NEW m \in BagToSet(csgBag), Csg!Receive(m) PROVE CsgInv'
    BY <1>1, <2>2, CsgReceive
  <2>3. CASE UNCHANGED Csg!vars
    <3>1. /\ cell' = cell /\ csgCode' = csgCode /\ myPosition' = myPosition /\ visible' = visible
          /\ csgBag' = csgBag
      BY <2>3 DEF Csg!vars
    <3> QED  BY <1>1, <3>1 DEF CsgInv, CsgTyped, CsgStarted, CsgSeen, CsgDrawn, Placed, Csg!HasPosition,
                               Alike, SeenFrom1, Csg!Neighbors
  <2> QED  BY <1>1, <2>1, <2>2, <2>3, CsgBags DEF Csg!Next
<1>2. Csg!Init => CsgInv
  BY CsgInit
<1> QED  BY <1>1, <1>2, PTL DEF Csg!Spec

(* Neighbours agree on where they are.                                     *)
LEMMA CsgAgrees ==
  ASSUME Csg!PlacementAssumption, CsgInv
  PROVE  Csg!CoordinatesAgree
<1> SUFFICES ASSUME Alike, NEW c \in CsgCatom, Placed(c), NEW l \in Csg!Neighbors(c), Placed(l[2])
             PROVE  myPosition[l[2]] = Csg!At(myPosition[c], Csg!ConnectorPosition[l[1]])
    BY DEF Csg!CoordinatesAgree, Alike, Placed
<1> DEFINE o == csgCode[1]
           q == Csg!At(myPosition[c], Csg!ConnectorPosition[l[1]])
<1>1. CsgTyped /\ 1 \in CsgCatom /\ l[2] \in CsgCatom /\ Csg!ConnectorPosition[l[1]] \in Space
  BY PlacementIs, NeighborsAre DEF CsgInv
<1>2. myPosition[c] \in Space /\ myPosition[l[2]] \in Space /\ o \in 0..23
  BY <1>1 DEF CsgTyped, Placed, Csg!HasPosition
<1>3. SeenFrom1(c, myPosition[c]) /\ SeenFrom1(l[2], myPosition[l[2]])
  BY <1>1 DEF CsgInv, CsgSeen
<1>4. SeenFrom1(l[2], q)
  BY <1>1, <1>2, <1>3, ToldRight
<1>5. q \in Space
  BY <1>1, <1>2, SpaceIs DEF Csg!At, Space
<1> HIDE DEF q
<1>6. Spin(o, myPosition[l[2]]) = Spin(o, q)
  BY <1>3, <1>4 DEF SeenFrom1
<1>7. myPosition[l[2]] = q
  BY <1>2, <1>5, <1>6, SpinRotates
<1> QED  BY <1>7 DEF q

(* When no message is left the flood has gone over every link.             *)
LEMMA CsgDraws ==
  ASSUME CsgInv
  PROVE  Csg!ShapeIsDrawn
BY BagNew, CsgBags DEF CsgInv, CsgDrawn, Csg!ShapeIsDrawn, Placed

-----------------------------------------------------------------------------
(* When no message of sphereCatoms3D is left, the static array holds the   *)
(* number of catoms at each distance.                                      *)
THEOREM HistogramExact ==
  Sphere!Spec => []Sphere!HistogramIsExact
<1> SUFFICES ASSUME Sphere!GraphAssumption PROVE Sphere!Spec => []Sphere!HistogramIsExact
    BY FloodsAssumption
<1>1. SphereInv => Sphere!HistogramIsExact
  BY SphereExact
<1> QED  BY <1>1, SphereInvariance, PTL

(* When no message of smartBlocks1 is left and block 2 ends a branch, a    *)
(* shortest path is coloured.                                              *)
THEOREM PathMarked ==
  Smart!Spec => []Smart!PathIsMarked
<1> SUFFICES ASSUME Smart!GraphAssumption PROVE Smart!Spec => []Smart!PathIsMarked
    BY FloodsAssumption
<1>1. SmartInv => Smart!PathIsMarked
  BY SmartExact
<1> QED  BY <1>1, SmartInvariance, PTL

(* The catoms of csgCatoms3D agree on where they are, and draw the shape.  *)
THEOREM ShapeDrawn ==
  Csg!Spec => [](Csg!CoordinatesAgree /\ Csg!ShapeIsDrawn)
<1> SUFFICES ASSUME Csg!PlacementAssumption PROVE Csg!Spec => [](Csg!CoordinatesAgree /\ Csg!ShapeIsDrawn)
    BY FloodsAssumption
<1>1. CsgInv => Csg!CoordinatesAgree /\ Csg!ShapeIsDrawn
  BY CsgAgrees, CsgDraws
<1> QED  BY <1>1, CsgInvariance, PTL

(* The three floods.                                                       *)
THEOREM EachFloodIsExact ==
  Sphere!Spec /\ Smart!Spec /\ Csg!Spec => []FloodsAreExact
<1>1. Sphere!HistogramIsExact /\ Smart!PathIsMarked /\ Csg!CoordinatesAgree /\ Csg!ShapeIsDrawn
        => FloodsAreExact
  BY DEF FloodsAreExact
<1> QED  BY <1>1, HistogramExact, PathMarked, ShapeDrawn, PTL
=============================================================================
