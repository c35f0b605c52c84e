----------------------------- MODULE ConfigStat ------------------------------
(***************************************************************************)
(* The measures of a configuration (configStat.cpp): the distances between  *)
(* all the blocks along the links, the radius and the diameter, the centre  *)
(* and the centroid.  The distances of one block are found by going over    *)
(* the links of all blocks in the order of their ids, again and again, until *)
(* a pass changes nothing; every distance found is noted for both ends.     *)
(*                                                                         *)
(* The matrices are indexed by block id and have a row more than there are  *)
(* blocks: the ids are taken to be 1, 2, and so on.                         *)
(***************************************************************************)
EXTENDS Integers, Sequences, FiniteSets, FiniteSetsExt, SequencesExt, Functions

CONSTANTS NumBlocks,  \* the blocks of the world
          IntMax,     \* INT_MAX: no path
          IntSize     \* the number of values of an int, 2 * (IntMax + 1)

Id == 1..NumBlocks

VARIABLES linked,                    \* the links of the world
          distance,                  \* distanceMatrix
          source, pass,              \* s and i of computeDistanceMatrix
          eccentricity, closeness,   \* what is computed from the distances
          center, centroid, radius, diameter

results == <<eccentricity, closeness, center, centroid, radius, diameter>>
vars    == <<linked, distance, source, pass, results>>

Graphs == {g \in SUBSET (Id \X Id) : \A i, j \in Id :
             (<<i, j>> \in g => i # j) /\ (<<i, j>> \in g <=> <<j, i>> \in g)}

-----------------------------------------------------------------------------
(* computeDistanceMatrix *)

\* The pairs in the order of the two inner loops.
Pairs == [k \in 1..(NumBlocks * NumBlocks) |->
            <<((k - 1) \div NumBlocks) + 1, ((k - 1) % NumBlocks) + 1>>]

\* Mutant: a distance is noted only if there was none yet.
ShorterOnlyFirst(row, u, v) == row[u] # IntMax /\ row[v] = IntMax

Shorter(row, u, v) == row[u] # IntMax /\ row[u] + 1 < row[v]

Relax(g, row, pair) ==
  IF pair \in g /\ Shorter(row, pair[1], pair[2])
    THEN [row EXCEPT ![pair[2]] = row[pair[1]] + 1]
    ELSE row

\* A pass over all links changes the row of s in place, and the column of s
\* with it; the first element of the row is set to 0 before the first pass.
Row(s) == [distance[s] EXCEPT ![s] = 0]
PassOver(s) == FoldLeft(LAMBDA row, pair : Relax(linked, row, pair), Row(s), Pairs)

NoteBothWays(s, row) ==
  [i \in Id |-> IF i = s THEN row
                ELSE IF row[i] # Row(s)[i] THEN [distance[i] EXCEPT ![s] = row[i]]
                ELSE distance[i]]

Pass ==
  /\ source \in Id
  /\ LET row == PassOver(source) IN
     /\ distance' = NoteBothWays(source, row)
     /\ IF row = Row(source) \/ pass = NumBlocks
          THEN source' = source + 1 /\ pass' = 1
          ELSE source' = source /\ pass' = pass + 1
  /\ UNCHANGED <<linked, results>>

-----------------------------------------------------------------------------
(* computeCenter and computeCentroid *)

AsInt(n) == ((n + IntMax + 1) % IntSize) - IntMax - 1

\* Mutant: the last block is left out of the sum.
SumOfOthers(row) == FoldFunctionOnSet(LAMBDA n, sum : AsInt(n + sum), 0, row, Id \ {NumBlocks})

SumOf(row) == FoldFunctionOnSet(LAMBDA n, sum : AsInt(n + sum), 0, row, Id)

Measure ==
  /\ source = NumBlocks + 1
  /\ eccentricity' = [i \in Id |-> Max(Range(distance[i]))]
  /\ closeness'    = [i \in Id |-> SumOf(distance[i])]
  /\ radius'   = Min(Range(eccentricity'))
  /\ diameter' = Max(Range(eccentricity'))
  /\ center'   = {i \in Id : eccentricity'[i] = radius'}
  /\ centroid' = {i \in Id : closeness'[i] = Min(Range(closeness'))}
  /\ source' = source + 1
  /\ UNCHANGED <<linked, distance, pass>>

Init ==
  /\ linked \in Graphs
  /\ distance = [i \in Id |-> [j \in Id |-> IntMax]]
  /\ source = 1 /\ pass = 1
  /\ eccentricity = [i \in Id |-> 0] /\ closeness = [i \in Id |-> 0]
  /\ center = {} /\ centroid = {} /\ radius = 0 /\ diameter = 0

Next == Pass \/ Measure

Spec == Init /\ [][Next]_vars

-----------------------------------------------------------------------------
(* Properties *)

\* Reference: the blocks within n links of a block, and the exact distance.
Ball[n \in 0..NumBlocks] ==
  [i \in Id |-> IF n = 0 THEN {i}
                ELSE Ball[n - 1][i] \cup {j \in Id : \E k \in Ball[n - 1][i] : <<k, j>> \in linked}]

Exact(i, j) ==
  IF \E n \in 0..NumBlocks : j \in Ball[n][i]
    THEN Min({n \in 0..NumBlocks : j \in Ball[n][i]}) ELSE IntMax

\* The rows that are finished hold the exact distances, whatever the order in
\* which the links are gone over and although a row starts with what the rows
\* before it have noted; no distance is ever too short (configStat.cpp:84).
DistancesAreExact ==
  \A i, j \in Id : /\ i < source => distance[i][j] = Exact(i, j)
                   /\ distance[i][j] >= Exact(i, j)

\* In a connected configuration the diameter is at most twice the radius, and
\* the blocks of the centroid are those with the least mean distance to all
\* others: the sums do not overflow (configStat.cpp:133, 154).
CentersAreCentral ==
  source = NumBlocks + 2 /\ (\A i, j \in Id : Exact(i, j) # IntMax) =>
    /\ radius <= diameter /\ diameter <= 2 * radius
    /\ center # {} /\ centroid # {}
    /\ \A i \in centroid, j \in Id :
         MapThenSumSet(LAMBDA k : Exact(i, k), Id) <= MapThenSumSet(LAMBDA k : Exact(j, k), Id)
=============================================================================
