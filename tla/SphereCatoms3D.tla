-------------------------- MODULE SphereCatoms3D --------------------------
(* The block code sphereCatoms3D: the catoms learn how many hops they are   *)
(* away from the source, and all of them keep one static array, radius,     *)
(* that counts the catoms at each distance.  A message takes its own time:  *)
(* those in transit are received in any order.                              *)
EXTENDS Integers, FiniteSets, Bags

CONSTANTS Catom, Source,
          Graphs      \* the links that the catoms may have, as sets of pairs

GraphAssumption ==
  IsFiniteSet(Catom) /\ Source \in Catom /\ Graphs \subseteq SUBSET (Catom \X Catom)

(* More than any distance. *)
INF == Cardinality(Catom)

VARIABLES linked,     \* the pairs of catoms whose connectors are linked
          distance,
          radius,     \* how many catoms have each distance
          inTransit   \* a bag of messages

vars == <<linked, distance, radius, inTransit>>

Message(to, d) == [to |-> to, distance |-> d]

SendDistanceMessage(c, d) == SetToBag({Message(n, d + 1) : n \in {x \in Catom : <<c, x>> \in linked}})

Init ==
  /\ linked \in Graphs
  /\ distance = [c \in Catom |-> INF]
  /\ radius = [d \in 0..INF |-> 0]
  /\ inTransit = EmptyBag

Startup ==
  /\ distance[Source] = INF
  /\ distance' = [distance EXCEPT ![Source] = 0]
  /\ inTransit' = SendDistanceMessage(Source, 0)
  /\ UNCHANGED <<linked, radius>>

(* Bug: a catom that finds a shorter distance stays counted at the old one. *)
CountedTwice(old, new) == [radius EXCEPT ![new] = @ + 1]

Recount(old, new) ==
  [d \in DOMAIN radius |-> radius[d] + (IF d = new THEN 1 ELSE 0)
                                     - (IF d = old /\ old # INF THEN 1 ELSE 0)]

Receive(m) ==
  LET rest == inTransit (-) SetToBag({m})
  IN  /\ IF m.distance < distance[m.to]
         THEN /\ distance' = [distance EXCEPT ![m.to] = m.distance]
              /\ radius' = Recount(distance[m.to], m.distance)
              /\ inTransit' = rest (+) SendDistanceMessage(m.to, m.distance)
         ELSE /\ inTransit' = rest
              /\ UNCHANGED <<distance, radius>>
      /\ UNCHANGED linked

Next == Startup \/ \E m \in BagToSet(inTransit) : Receive(m)

Spec == Init /\ [][Next]_vars

---------------------------------------------------------------------------
Quiet == distance[Source] = 0 /\ inTransit = EmptyBag

(* The catoms at most n hops away from the source. *)
Ball == LET ball[n \in 0..INF] ==
              IF n = 0 THEN {Source}
              ELSE ball[n - 1] \cup {c \in Catom : \E b \in ball[n - 1] : <<b, c>> \in linked}
        IN  ball

(* When no message is left, the array holds the number of catoms on each    *)
(* sphere around the source, whatever the distances each of them believed   *)
(* before (processLocalEvent; the source does not count itself).            *)
HistogramIsExact ==
  Quiet => \A d \in 1..(INF - 1) : radius[d] = Cardinality(Ball[d] \ Ball[d - 1])
=============================================================================
