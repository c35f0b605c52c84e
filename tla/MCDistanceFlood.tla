--------------------------- MODULE MCDistanceFlood ---------------------------
(* The flood of distanceRB over the blocks of a configuration on a lattice. *)
EXTENDS DistanceFlood, Lattice

(* A triangle of 2D catoms with a tail of two; the last is three hops away  *)
(* from the master, as far as MaxDistance in the configuration.             *)
MCBlock == 1..5
Placement == << <<0, 0, 0>>, <<1, 0, 0>>, <<0, 0, 1>>, <<0, 0, 2>>, <<0, 0, 3>> >>
MCMaster == 1
MCLink == {<<b, c>> \in MCBlock \X MCBlock :
             \E d \in Direction("HLattice") :
               NextCell("HLattice", Placement[b], d) = Placement[c]}

(* The blocks at most n hops away from the master. *)
Ball[n \in 0..Cardinality(MCBlock)] ==
  IF n = 0 THEN {MCMaster}
  ELSE Ball[n - 1] \cup {c \in MCBlock : \E b \in Ball[n - 1] : <<b, c>> \in MCLink}

(* The number of hops by its usual definition; HopDistanceAssumption        *)
(* compares it with that of the block code's module.                        *)
MCHopDistance ==
  [b \in MCBlock |-> CHOOSE n \in Distance :
                       /\ n < MaxDistance => b \in Ball[n]
                       /\ \A k \in 0..(n - 1) : b \notin Ball[k]]
=============================================================================
