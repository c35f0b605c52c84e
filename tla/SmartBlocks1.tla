--------------------------- MODULE SmartBlocks1 ---------------------------
(* The block code smartBlocks1: a flood of distances from block 1, and      *)
(* acknowledgements that come back from block 2 along the shortest paths    *)
(* and colour them.  Each message is sent after a delay of its own, so that *)
(* an acknowledgement overtakes the distances sent before it: messages are  *)
(* received in any order.                                                   *)
(*                                                                          *)
(* isAck is written for every side of the block when it takes a distance,   *)
(* and read only just after: it is true everywhere when the sender is the   *)
(* only neighbour.  startup() of all the blocks runs at date 0, before any  *)
(* message is received; only that of the master shows.                      *)
EXTENDS Integers, FiniteSets, Bags

CONSTANTS Block, Master, Goal,   \* the blocks 1 and 2
          Graphs                 \* the links that the blocks may have

GraphAssumption ==
  /\ IsFiniteSet(Block) /\ Master \in Block /\ Goal \in Block \ {Master}
  /\ \A links \in Graphs : /\ links \subseteq Block \X Block
                          /\ \A b, c \in Block : <<b, c>> \in links => b # c /\ <<c, b>> \in links

MAX_DIST == Cardinality(Block)

VARIABLES linked, my_distance, colored, inTransit

vars == <<linked, my_distance, colored, inTransit>>

Neighbors(b) == {n \in Block : <<b, n>> \in linked}

Dist(from, to, d) == [type |-> "DIST", from |-> from, to |-> to, distance |-> d, path |-> FALSE]

Ack(path, from, to, d) == [type |-> "ACK", from |-> from, to |-> to, distance |-> d, path |-> path]

Init ==
  /\ linked \in Graphs
  /\ my_distance = [b \in Block |-> MAX_DIST]
  /\ colored = {}
  /\ inTransit = EmptyBag

Startup ==
  /\ my_distance[Master] = MAX_DIST
  /\ my_distance' = [my_distance EXCEPT ![Master] = 0]
  /\ inTransit' = SetToBag({Dist(Master, n, 1) : n \in Neighbors(Master)})
  /\ UNCHANGED <<linked, colored>>

ICanAck(m) == Neighbors(m.to) \ {m.from} = {}

Deliver(m, sent) == inTransit' = (inTransit (-) SetToBag({m})) (+) SetToBag(sent)

ReceiveDist(m) ==
  /\ m.type = "DIST"
  /\ IF m.distance < my_distance[m.to]
     THEN /\ my_distance' = [my_distance EXCEPT ![m.to] = m.distance]
          /\ Deliver(m, {Dist(m.to, n, m.distance + 1) : n \in Neighbors(m.to) \ {m.from}}
                          \cup {Ack(m.to = Goal, m.to, n, m.distance) : n \in {x \in {m.from} : ICanAck(m)}})
     ELSE Deliver(m, {}) /\ UNCHANGED my_distance
  /\ UNCHANGED <<linked, colored>>

(* Bug: a block that is coloured already does not forward.                  *)
OnPathOnce(m) == m.path /\ m.distance = my_distance[m.to] + 1 /\ m.to \notin colored
OnPath(m) == m.path /\ m.distance = my_distance[m.to] + 1

ReceiveAck(m) ==
  /\ m.type = "ACK"
  /\ IF OnPath(m)
     THEN /\ colored' = colored \cup {m.to}
          /\ Deliver(m, {Ack(TRUE, m.to, n, my_distance[m.to]) : n \in Neighbors(m.to) \ {m.from}})
     ELSE Deliver(m, {}) /\ UNCHANGED colored
  /\ UNCHANGED <<linked, my_distance>>

Next == Startup \/ \E m \in BagToSet(inTransit) : ReceiveDist(m) \/ ReceiveAck(m)

Spec == Init /\ [][Next]_vars

---------------------------------------------------------------------------
Quiet == my_distance[Master] = 0 /\ inTransit = EmptyBag

Ball == LET ball[n \in 0..MAX_DIST] ==
              IF n = 0 THEN {Master}
              ELSE ball[n - 1] \cup {c \in Block : \E b \in ball[n - 1] : <<b, c>> \in linked}
        IN  ball

(* When no message is left and block 2 is at the end of a branch, a         *)
(* shortest path from it to the master is coloured: a set of coloured       *)
(* blocks, the neighbour of block 2 among them, each with one of them next  *)
(* to it and one hop closer to the master.  The distances were still        *)
(* changing when the acknowledgements ran: the ACK of a distance that no    *)
(* longer holds is dropped, a new one follows when block 2 learns the new   *)
(* one (processLocalEvent); the blocks that older ACKs coloured stay so.    *)
PathIsMarked ==
  Quiet /\ Cardinality(Neighbors(Goal)) = 1 /\ Goal \in Ball[MAX_DIST] =>
    \E path \in SUBSET colored :
      /\ Neighbors(Goal) \subseteq path
      /\ \A n \in 1..(MAX_DIST - 1) :
           \A b \in path \cap (Ball[n] \ Ball[n - 1]) :
             \E c \in Neighbors(b) : c \in Ball[n - 1] /\ c \in path
=============================================================================
