---------------------------- MODULE MeldNetwork ----------------------------
(***************************************************************************)
(* Blocks that run one Meld program (meldBlockCode.cpp) and exchange facts *)
(* over their links.  A link is what FifoLink promises: in order and lost  *)
(* with its content when it is cut.  Steps that one date of the scheduler  *)
(* puts in a row are one action: a computation puts what it sends on the   *)
(* links, a reception hands the fact to the machine.  The pending          *)
(* ComputePredicateEvents of a block are one flag: each arrival schedules  *)
(* one, and one more than needed finds nothing to do.                      *)
(***************************************************************************)
EXTENDS MeldVM

CONSTANTS
  Block,       \* identifiers of the blocks, distinct from VACANT
  Faces,       \* the interfaces of a block, in the order of their numbers
  Opposite,    \* Lattice::getOppositeDirection
  NeighborCell,    \* the cell next to a cell through a face
  Placements,  \* the initial cells of the blocks
  Cell,        \* the cells blocks may be put in
  Disturbed,   \* bound: per program, the blocks that move or the user taps
  MaxMoves,    \* bound: how often a block leaves its cell
  MaxTaps,     \* bound: how often the user taps a block
  MaxTime      \* bound: the last date

VARIABLES
  vm,       \* per block, its machine
  at,       \* per block, its cell, or Moving
  notices,  \* per block, the local events about neighbors, in order
  compute,  \* the blocks with a ComputePredicateEvent scheduled
  wire,     \* per ordered pair of blocks, the facts on their way
  moves, taps

vars == <<vm, at, notices, compute, wire, moves, taps>>

Face == ToSet(Faces)

Moving == <<>>

(* The blocks around a cell: what the interfaces are connected to.         *)
NeighborAt(cells, b, f) ==
  LET there == {c \in Block : /\ Moving \notin {cells[b], cells[c]}
                              /\ cells[c] = NeighborCell[cells[b]][f]}
  IN IF there = {} THEN VACANT ELSE CHOOSE c \in there : TRUE

Links(cells) == [b \in Block |-> [f \in Face |-> NeighborAt(cells, b, f)]]

(* addNeighbor names the face opposite to the one the link is on, and so   *)
(* does removeNeighbor.                                                    *)
AddNotice(f, c) == [kind |-> "add", face |-> Opposite[f], target |-> c]
RemoveNotice(f) == [kind |-> "remove", face |-> Opposite[f], target |-> VACANT]

Notices(link, old) ==
  FlattenSeq([k \in DOMAIN Faces |->
     LET f == Faces[k]
     IN IF link[f] = old[f] THEN <<>>
        ELSE (IF old[f] # VACANT THEN <<RemoveNotice(f)>> ELSE <<>>)
             \o (IF link[f] # VACANT THEN <<AddNotice(f, link[f])>> ELSE <<>>)])

(* MeldBlockCode::init, and the axioms of the program.                     *)
StartFace(m, f) == EnqueueFace([m EXCEPT !.neighbors[f] = m.link[f]], m.link[f], f, 1)

Started(b, prog, cells) ==
  LET m == EnqueueCount(EnqueueInit(Machine(b, prog, Face)), 0, 1)
      linked == [m EXCEPT !.link = Links(cells)[b], !.position = cells[b]]
  IN EnqueueAt(FoldLeft(StartFace, linked, Faces), cells[b], 1)

Init ==
  /\ \E prog \in Program, cells \in Placements :
       /\ at = cells
       /\ vm = [b \in Block |-> Started(b, prog, cells)]
       /\ notices = [b \in Block |-> Notices(Links(cells)[b], [f \in Face |-> VACANT])]
  /\ compute = Block
  /\ wire = [p \in Block \X Block |-> <<>>]
  /\ moves = 0 /\ taps = 0

(* EVENT_COMPUTE_PREDICATE, then EVENT_SEND_MESSAGE for what it sends; a   *)
(* busy machine asks for another one, 0.1 to 1 ms later: the notices of a  *)
(* date go before the computations of the dates that follow.               *)
Sent(b, m) ==
  [p \in Block \X Block |->
     wire[p] \o IF p[1] # b THEN <<>> ELSE SelectSeq(m.out, LAMBDA x : x.to = p[2])]

(* Bug: it does not ask. *)
ComputeOnce(b) ==
  /\ b \in compute /\ notices[b] = <<>>
  /\ \E m \in ProcessOneRule(vm[b], Faces) :
       /\ vm' = [vm EXCEPT ![b] = [m EXCEPT !.out = <<>>]]
       /\ wire' = Sent(b, m)
  /\ compute' = compute \ {b}
  /\ UNCHANGED <<at, notices, moves, taps>>

Compute(b) ==
  /\ b \in compute /\ notices[b] = <<>>
  /\ \E m \in ProcessOneRule(vm[b], Faces) :
       /\ vm' = [vm EXCEPT ![b] = [m EXCEPT !.out = <<>>]]
       /\ wire' = Sent(b, m)
       /\ compute' = IF m.waiting THEN compute ELSE compute \ {b}
  /\ UNCHANGED <<at, notices, moves, taps>>

(* EVENT_ADD_NEIGHBOR and EVENT_REMOVE_NEIGHBOR: the machine is told of    *)
(* the opposite face; the removal retracts a vacant fact.                  *)
Notice(b) ==
  /\ notices[b] # <<>>
  /\ LET e == Head(notices[b])
         m == [vm[b] EXCEPT !.neighbors[e.face] = e.target]
     IN vm' = [vm EXCEPT ![b] =
                 EnqueueFace(m, e.target, e.face, IF e.kind = "add" THEN 1 ELSE -1)]
  /\ notices' = [notices EXCEPT ![b] = Tail(@)]
  /\ compute' = compute \cup {b}
  /\ UNCHANGED <<at, wire, moves, taps>>

(* EVENT_RECEIVE_MESSAGE, then EVENT_ADD_TUPLE or EVENT_REMOVE_TUPLE.      *)
Receive(a, b) ==
  /\ wire[a, b] # <<>> /\ FaceOf(vm[b], a) # {}
  /\ LET x == Head(wire[a, b])
         face == Min(FaceOf(vm[b], a))
     IN vm' = [vm EXCEPT ![b] = ReceiveTuple(@, x.fact, IF x.add THEN 1 ELSE -1, face)]
  /\ wire' = [wire EXCEPT ![a, b] = Tail(@)]
  /\ compute' = compute \cup {b}
  /\ UNCHANGED <<at, notices, moves, taps>>

(* EVENT_TAP *)
Tap(b) ==
  /\ taps < MaxTaps /\ b \in Disturbed[vm[b].prog]
  /\ vm' = [vm EXCEPT ![b] = EnqueueTap(@)]
  /\ compute' = compute \cup {b}
  /\ taps' = taps + 1
  /\ UNCHANGED <<at, notices, wire, moves>>

(* The blocks see their new surroundings; a cut link loses its content.    *)
Rewire(cells, machine) ==
  LET links == Links(cells)
      linked(p) == \E f \in Face : links[p[1]][f] = p[2]
  IN /\ at' = cells
     /\ vm' = [b \in Block |-> [machine[b] EXCEPT !.link = links[b]]]
     /\ notices' = [b \in Block |-> notices[b] \o Notices(links[b], vm[b].link)]
     /\ wire' = [p \in Block \X Block |-> IF linked(p) THEN wire[p] ELSE <<>>]

(* World::disconnectBlock when a motion starts.                            *)
Leave(b) ==
  /\ moves < MaxMoves /\ b \in Disturbed[vm[b].prog]
  /\ at[b] # Moving
  /\ Rewire([at EXCEPT ![b] = Moving], vm)
  /\ moves' = moves + 1
  /\ UNCHANGED <<compute, taps>>

(* World::connectBlock when it ends, and EVENT_TRANSLATION_END.            *)
Arrive(b, c) ==
  /\ at[b] = Moving /\ b \in Disturbed[vm[b].prog]
  /\ \A a \in Block : at[a] # c
  /\ Rewire([at EXCEPT ![b] = c], [vm EXCEPT ![b] = [EnqueueAt(@, c, 1) EXCEPT !.position = c]])
  /\ compute' = compute \cup {b}
  /\ UNCHANGED <<moves, taps>>

(* The date of the scheduler reaches delayed facts: until then the blocks  *)
(* that wait for them compute in vain.                                     *)
Idle(b) == /\ notices[b] = <<>> /\ vm[b].newTuples = <<>> /\ vm[b].newStratTuples = <<>>
           /\ \A e \in ToSet(vm[b].delayedTuples) : e.priority > vm[b].now
           /\ \A r \in DOMAIN Rules(vm[b]) : ~Active(vm[b], r) \/ Rules(vm[b])[r].persistent

Quiet == /\ \A b \in Block : Idle(b)
         /\ \A p \in DOMAIN wire : wire[p] = <<>>

Tick ==
  /\ Quiet
  /\ \E b \in Block : vm[b].delayedTuples # <<>> /\ vm[b].now < MaxTime
  /\ vm' = [b \in Block |-> [vm[b] EXCEPT !.now = @ + 1]]
  /\ UNCHANGED <<at, notices, compute, wire, moves, taps>>

Next ==
  \/ \E b \in Block : Compute(b) \/ Notice(b) \/ Tap(b) \/ Leave(b)
  \/ \E a, b \in Block : Receive(a, b)
  \/ \E b \in Block, c \in Cell : Arrive(b, c)
  \/ Tick

Spec == Init /\ [][Next]_vars

(* The scheduler consumes every event, and the date passes.  Nothing       *)
(* forces the user or a motion.  A computation must come when it has       *)
(* something to do: this is WF_vars(Compute(b)) with its enabling spelt    *)
(* out, and somewhat weaker.                                               *)
Due(b) == b \in compute /\ notices[b] = <<>> /\ ~Idle(b)

Fairness ==
  /\ \A b \in Block : []<>~Due(b) \/ []<><<Compute(b)>>_vars
  /\ \A b \in Block : WF_vars(Notice(b))
  /\ \A a, b \in Block : WF_vars(Receive(a, b))
  /\ WF_vars(Tick)

FairSpec == Spec /\ Fairness

-----------------------------------------------------------------------------
(* Queues hold facts of the program's types with a count that is not zero, *)
(* the database holds facts that were derived more often than retracted.   *)
MeldTypeOK ==
  /\ compute \subseteq Block
  /\ \A b \in Block :
       /\ \A e \in ToSet(vm[b].newTuples) \cup ToSet(vm[b].newStratTuples) :
            e.fact.type \in Types(vm[b]) /\ e.count # 0
       /\ \A t \in Types(vm[b]) : \A e \in ToSet(vm[b].tuples[t]) :
            e.fact.type = t /\ e.count > 0
       /\ vm[b].out = <<>> /\ vm[b].reg = <<>>

Known(m, t) == {e.fact.args : e \in ToSet(m.tuples[t])}

(* The number of times a machine still has to count a fact, or has.        *)
Counted(q, fact) ==
  FoldLeft(LAMBDA s, e : IF e.fact = fact THEN s + e.count ELSE s, 0, q)

OnWire(q, fact) ==
  FoldLeft(LAMBDA s, x : IF x.fact = fact THEN (IF x.add THEN s + 1 ELSE s - 1) ELSE s, 0, q)

Total(a, b, fact) ==
  OnWire(wire[a, b], fact) + Counted(vm[b].newTuples, fact)
    + Counted(vm[b].newStratTuples, fact) + Counted(vm[b].tuples[fact.type], fact)

=============================================================================
