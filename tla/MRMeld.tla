------------------------------- MODULE MRMeld -------------------------------
(***************************************************************************)
(* Robots that run one Meld program (MRMeldBlockCode.cpp) among the other  *)
(* programs of MeldNetwork.  A robot has one interface, never connected:   *)
(* its lattice lists the robots, facts for one go to it directly, and its  *)
(* program moves it.  A motion is over before the next one starts.         *)
(***************************************************************************)
EXTENDS MeldNetwork

CONSTANTS
  Robotic,       \* the programs of robots
  RobotPlaces    \* their first cells

RobotFace == <<0>>
Broadcast == 255   \* the face of what no interface received: -1, in a byte

(* The lattice lists the robots in the order the world adds them.          *)
Connected == SetToSortSeq(Block, <)

EdgeTo(m, b) == IF b = m.id THEN m ELSE EnqueueEdge(m, b, 1)

(* MRMeldBlockCode::init *)
RobotStarted(b, prog, cells) ==
  LET m == EnqueueCount(EnqueueInit(Machine(b, prog, ToSet(RobotFace))), 0, 1)
      placed == [m EXCEPT !.connected = Block, !.position = cells[b]]
  IN EnqueueAt(FoldLeft(EdgeTo, placed, Connected), cells[b], 1)

RobotInit ==
  /\ at \in RobotPlaces
  /\ \E prog \in Robotic : vm = [b \in Block |-> RobotStarted(b, prog, at)]
  /\ notices = [b \in Block |-> <<>>]
  /\ compute = Block
  /\ wire = [p \in Block \X Block |-> <<>>]
  /\ moves = 0 /\ taps = 0

IsRobot(b) == vm[b].prog \in Robotic

(* EVENT_RECEIVE_MESSAGE_FROM_BLOCK, then EVENT_ADD_TUPLE or               *)
(* EVENT_REMOVE_TUPLE.                                                     *)
ReceiveFromBlock(a, b) ==
  /\ wire[a, b] # <<>> /\ IsRobot(b)
  /\ LET x == Head(wire[a, b])
     IN vm' = [vm EXCEPT ![b] = ReceiveTuple(@, x.fact, IF x.add THEN 1 ELSE -1, Broadcast)]
  /\ wire' = [wire EXCEPT ![a, b] = Tail(@)]
  /\ compute' = compute \cup {b}
  /\ UNCHANGED <<at, notices, moves, taps>>

(* TranslationStart: the robot leaves its cell.                            *)
TranslationStart(b) ==
  /\ IsRobot(b) /\ vm[b].going # <<>> /\ at[b] # Moving
  /\ at' = [at EXCEPT ![b] = Moving]
  /\ UNCHANGED <<vm, notices, compute, wire, moves, taps>>

(* TranslationStop and TranslationEnd: it is in the cell it was sent to.   *)
(* Bug: its machine is not told. *)
TranslationForgets(b) ==
  /\ IsRobot(b) /\ at[b] = Moving
  /\ at' = [at EXCEPT ![b] = vm[b].going]
  /\ vm' = [vm EXCEPT ![b].going = <<>>]
  /\ compute' = compute \cup {b}
  /\ UNCHANGED <<notices, wire, moves, taps>>

TranslationEnd(b) ==
  /\ IsRobot(b) /\ at[b] = Moving
  /\ at' = [at EXCEPT ![b] = vm[b].going]
  /\ LET there == [vm[b] EXCEPT !.position = vm[b].going, !.going = <<>>]
     IN vm' = [vm EXCEPT ![b] = EnqueueAt(there, vm[b].going, 1)]
  /\ compute' = compute \cup {b}
  /\ UNCHANGED <<notices, wire, moves, taps>>

AnyInit == Init \/ RobotInit

AnyNext ==
  \/ Next
  \/ \E b \in Block : TranslationStart(b) \/ TranslationEnd(b)
  \/ \E a, b \in Block : ReceiveFromBlock(a, b)

AnySpec == AnyInit /\ [][AnyNext]_vars

(* Motions start and end, and their messages arrive.                       *)
RobotFairness ==
  /\ \A b \in Block : WF_vars(TranslationStart(b)) /\ WF_vars(TranslationEnd(b))
  /\ \A a, b \in Block : WF_vars(ReceiveFromBlock(a, b))

FairAnySpec == AnySpec /\ Fairness /\ RobotFairness

(* Nothing is left to compute and nobody is to move.                       *)
AtRest == Quiet /\ \A b \in Block : vm[b].going = <<>>
=============================================================================
