------------------------------- MODULE MCMeld -------------------------------
(***************************************************************************)
(* Instances of MRMeld for TLC: rainbow.meld, a gradient of heights, as    *)
(* its byte code rainbow.bb has it, and cycle.meld, a linear fact that     *)
(* comes back after a delay, on blocks of the cubic lattice; demo.meld,    *)
(* which leads robots through a gate and into a row.                       *)
(***************************************************************************)
EXTENDS MRMeld, Lattice

MCFaces == <<0, 1, 2, 3, 4, 5>>
MCOpposite == OppositeDirections("SCLattice")

MCCell == GridCell(<<3, 1, 2>>)
MCNeighborCell == NeighborCells("SCLattice", <<3, 1, 2>>, <<>>)

-----------------------------------------------------------------------------
(* Instructions. *)
Const(n) == [kind |-> "int", val |-> n]
Host == [kind |-> "host"]
Reg(r) == [kind |-> "reg", reg |-> r]
Field(r, f) == [kind |-> "field", reg |-> r, field |-> f]
NewFact(t, r) == [op |-> "ALLOC", type |-> t, dst |-> Reg(r)]
Move(src, dst) == [op |-> "MOVE", src |-> src, dst |-> dst]
Op(f, a, b, dst) == [op |-> "OP", fun |-> f, a |-> a, b |-> b, dst |-> dst]
If(r, body) == [op |-> "IF", reg |-> r, body |-> body, else |-> <<>>]
IterOver(t, r, match, body) ==
  [op |-> "ITER", type |-> t, dst |-> Reg(r), match |-> match, body |-> body]
Where(f, v) == <<[field |-> f, val |-> v]>>
AddFact(r) == [op |-> "ADDTUPLE", reg |-> r]
SendTo(r, rt) == [op |-> "SEND", reg |-> r, rt |-> rt]
SendLater(r, rt, d) == [op |-> "SEND_DELAY", reg |-> r, rt |-> rt, delay |-> d]
Act(r) == [op |-> "RUNACTION", reg |-> r]
Consume(r) == [op |-> "REMOVE", reg |-> r]
Return == [op |-> "RETURN"]
ReturnDerived == [op |-> "RETURN_DERIVED"]
NextOne == [op |-> "NEXT"]

Plain == [linear |-> FALSE, action |-> FALSE, agg |-> "NONE", field |-> 0,
          arity |-> 0, round |-> 0, code |-> <<Return>>]
Fields(n, round, code) ==
  [Plain EXCEPT !.arity = n, !.round = round, !.code = code \o <<Return>>]

-----------------------------------------------------------------------------
(* rainbow *)
SendLevel(level, rt) ==
  <<NewFact("neighbor-level", 2), Move(Host, Field(2, 0)), Move(level, Field(2, 1)),
    Move(rt, Reg(3)), SendTo(2, 3), NextOne>>

AddLevel(value) == <<NewFact("level", 2), Move(value, Field(2, 0)), AddFact(2)>>

AddLevelOff(value, f) ==
  <<NewFact("level", 2), Move(value, Reg(3)), Move(Const(1), Reg(4)),
    Op(f, Reg(3), Reg(4), Reg(3)), Move(Reg(3), Field(2, 0)), AddFact(2)>>

Derive(t) == <<NewFact(t, 1), Move(Field(0, 0), Field(1, 0)), AddFact(1)>>

OnFace(f, fun, t) ==
  <<Move(Field(0, 1), Reg(1)), Op(fun, Reg(1), Const(f), Reg(1)), If(1, Derive(t))>>

Rainbow ==
  [t \in {"_init"} |-> [Plain EXCEPT !.linear = TRUE]] @@
  [t \in {"setcolor2"} |-> [Fields(1, 1, <<>>) EXCEPT !.action = TRUE]] @@
  [t \in {"vacant"} |-> Fields(1, 1,
     <<Move(Field(0, 0), Reg(1)), Op("EQUAL", Reg(1), Const(0), Reg(1)),
       If(1, <<NewFact("noBottomNeighbor", 1), AddFact(1)>>)>>)] @@
  [t \in {"tap"} |-> [Fields(0, 1, <<>>) EXCEPT !.linear = TRUE]] @@
  [t \in {"neighbor"} |-> Fields(2, 0,
     OnFace(0, "EQUAL", "bottomNeighbor") \o OnFace(5, "EQUAL", "topNeighbor") \o
     <<Op("NOTEQUAL", Field(0, 1), Const(0), Reg(1)), If(1,
         <<Op("NOTEQUAL", Field(0, 1), Const(5), Reg(1)), If(1, Derive("sideNeighbor"))>>),
       IterOver("level", 1, <<>>, SendLevel(Field(1, 0), Field(0, 0)))>>)] @@
  [t \in {"neighborCount"} |-> Fields(1, 1, <<>>)] @@
  [t \in {"level"} |-> [Fields(1, 1,
     <<IterOver("neighbor", 1, <<>>, SendLevel(Field(0, 0), Field(1, 0))),
       NewFact("setcolor2", 1), Move(Field(0, 0), Field(1, 0)), Act(1)>>)
       EXCEPT !.agg = "MAX", !.field = 1]] @@
  [t \in {"bottomNeighbor"} |-> Fields(1, 0,
     <<IterOver("neighbor-level", 1, Where(0, Field(0, 0)),
                AddLevelOff(Field(1, 1), "PLUS") \o <<NextOne>>)>>)] @@
  [t \in {"topNeighbor"} |-> Fields(1, 0,
     <<IterOver("neighbor-level", 1, Where(0, Field(0, 0)),
                AddLevelOff(Field(1, 1), "MINUS") \o <<NextOne>>)>>)] @@
  [t \in {"sideNeighbor"} |-> Fields(1, 0,
     <<IterOver("neighbor-level", 1, Where(0, Field(0, 0)),
                AddLevel(Field(1, 1)) \o <<NextOne>>)>>)] @@
  [t \in {"noBottomNeighbor"} |-> Fields(0, 1, AddLevel(Const(0)))] @@
  [t \in {"neighbor-level"} |-> Fields(2, 1,
     <<IterOver("sideNeighbor", 1, Where(0, Field(0, 0)),
                AddLevel(Field(0, 1)) \o <<NextOne>>),
       IterOver("bottomNeighbor", 1, Where(0, Field(0, 0)),
                AddLevelOff(Field(0, 1), "PLUS") \o <<NextOne>>),
       IterOver("topNeighbor", 1, Where(0, Field(0, 0)),
                AddLevelOff(Field(0, 1), "MINUS") \o <<NextOne>>)>>)]

(* topNeighborRed: a color while there is a block on top, another one else *)
Show(f, n) ==
  <<Op("EQUAL", Field(0, f), Const(5), Reg(1)),
    If(1, <<NewFact("setcolor2", 1), Move(Const(n), Field(1, 0)), Act(1)>>)>>

TopNeighborRed ==
  [t \in {"_init"} |-> [Plain EXCEPT !.linear = TRUE]] @@
  [t \in {"setcolor2"} |-> [Fields(1, 1, <<>>) EXCEPT !.action = TRUE]] @@
  [t \in {"tap"} |-> [Fields(0, 1, <<>>) EXCEPT !.linear = TRUE]] @@
  [t \in {"neighborCount"} |-> Fields(1, 1, <<>>)] @@
  [t \in {"neighbor"} |-> Fields(2, 1, Show(1, 0))] @@
  [t \in {"vacant"} |-> Fields(1, 1, Show(0, 2))]

(* cycle: color(X, N) -o setColor2(X, N), color(X, N + 1)@+Delay *)
Delay == 1

Cycle ==
  [t \in {"_init"} |-> [Plain EXCEPT !.linear = TRUE]] @@
  [t \in {"setcolor2"} |-> [Fields(1, 1, <<>>) EXCEPT !.action = TRUE]] @@
  [t \in {"tap"} |-> [Fields(0, 1, <<>>) EXCEPT !.linear = TRUE]] @@
  [t \in {"color"} |-> [Fields(1, 1, <<>>) EXCEPT !.linear = TRUE]]

Axioms(body) ==
  [preds |-> {"_init"}, persistent |-> FALSE,
   code |-> <<IterOver("_init", 0, <<>>,
                       body \o <<Consume(0), ReturnDerived>>), Return>>]

NextColor ==
  [preds |-> {"color"}, persistent |-> FALSE,
   code |-> <<IterOver("color", 0, <<>>,
     <<NewFact("setcolor2", 1), Move(Field(0, 0), Field(1, 0)), Act(1),
       NewFact("color", 2), Op("PLUS", Field(0, 0), Const(1), Reg(3)),
       Move(Reg(3), Field(2, 0)), SendLater(2, 2, Delay),
       Consume(0), ReturnDerived>>), Return>>]

(* demo: the corridor, the line behind the gate and the row, for the       *)
(* robots of the instance (config.xml has five).                           *)
Corridor == 3
TargetY == 7
Others == Cardinality(Block) - 1

LinearType(n) == [Fields(n, 1, <<>>) EXCEPT !.linear = TRUE]

Demo ==
  [t \in {"_init"} |-> [Plain EXCEPT !.linear = TRUE]] @@
  [t \in {"moveto"} |-> [Fields(3, 1, <<>>) EXCEPT !.action = TRUE]] @@
  [t \in {"edge"} |-> Fields(1, 0, <<>>)] @@ [t \in {"at"} |-> Fields(3, 0, <<>>)] @@
  [t \in {"ready", "readycount"} |-> LinearType(1)] @@
  [t \in {"stage1", "stage2", "stage3", "stage4", "stage5"} |-> LinearType(0)]

Rule(preds, t, body) ==
  [preds |-> preds, persistent |-> FALSE, code |-> <<IterOver(t, 0, <<>>, body), Return>>]

(* Where a robot in a stage is to go, and the next stage when it is there. *)
GoTo(x, y) ==
  <<NewFact("moveto", 2), Move(x, Field(2, 0)), Move(y, Field(2, 1)),
    Move(Const(0), Field(2, 2)), Act(2), ReturnDerived>>

Advance(stage) == <<NewFact(stage, 2), AddFact(2), Consume(0), ReturnDerived>>

AtPlace(match, body) == <<IterOver("at", 1, match, body \o <<NextOne>>), NextOne>>

Step2(preds, t, away, there) ==
  [preds |-> preds, persistent |-> FALSE,
   code |-> <<IterOver(t, 0, <<>>, away), IterOver(t, 0, <<>>, there), Return>>]

OwnPlus(n, r) ==
  <<Move(Const(n), Reg(r)), Move(Host, Reg(r + 1)),
    [op |-> "CALL1", src |-> Reg(r + 1), dst |-> Reg(r + 1)],
    Op("PLUS", Reg(r), Reg(r + 1), Reg(r))>>

OwnLine(r) == OwnPlus(TargetY, r) \o <<Op("MINUS", Reg(r), Const(1), Reg(r))>>

Stage1 ==
  Step2({"stage1", "at"}, "stage1",
    AtPlace(<<>>, <<Op("NOTEQUAL", Field(1, 0), Const(Corridor), Reg(2)),
                    If(2, GoTo(Const(Corridor), Field(1, 1)))>>),
    AtPlace(Where(0, Const(Corridor)), Advance("stage2")))

Stage2 ==
  Rule({"stage2"}, "stage2",
    <<[op |-> "RESET_LINEAR", body |->
         <<IterOver("edge", 1, <<>>,
             <<NewFact("ready", 2), Move(Host, Field(2, 0)), Move(Field(1, 0), Reg(3)),
               SendTo(2, 3), ReturnDerived, NextOne>>),
           [op |-> "END_LINEAR"]>>],
      Consume(0), ReturnDerived>>)

CountReady ==
  Step2({"ready", "readycount"}, "ready",
    <<IterOver("readycount", 1, <<>>,
        <<Op("LESSER", Field(1, 0), Const(Others - 1), Reg(2)),
          If(2, <<Op("PLUS", Field(1, 0), Const(1), Reg(2)), Consume(0),
                  [op |-> "UPDATE", src |-> Reg(2), dst |-> Field(1, 0)],
                  ReturnDerived>>), NextOne>>), NextOne>>,
    <<IterOver("readycount", 1, Where(0, Const(Others - 1)),
        <<NewFact("stage3", 2), AddFact(2), Consume(1), Consume(0), ReturnDerived,
          NextOne>>), NextOne>>)

Stage3 ==
  Step2({"stage3", "at"}, "stage3",
    AtPlace(<<>>, OwnLine(3) \o <<Op("NOTEQUAL", Field(1, 1), Reg(3), Reg(2)),
      If(2, <<NewFact("moveto", 2), Move(Field(1, 0), Field(2, 0))>> \o OwnLine(3) \o
            <<Move(Reg(3), Field(2, 1)), Move(Const(0), Field(2, 2)), Act(2),
              ReturnDerived>>)>>),
    AtPlace(<<>>, OwnLine(3) \o <<Op("EQUAL", Field(1, 1), Reg(3), Reg(2)),
      If(2, Advance("stage4"))>>))

Stage4 ==
  Step2({"stage4", "at"}, "stage4",
    AtPlace(<<>>, OwnPlus(0, 4) \o
      <<Op("NOTEQUAL", Field(1, 0), Reg(4), Reg(2)),
        [op |-> "NOT", src |-> Reg(2), dst |-> Reg(3)],
        If(3, <<Op("NOTEQUAL", Field(1, 1), Const(TargetY + 1), Reg(2))>>),
        If(2, OwnPlus(0, 3) \o GoTo(Reg(3), Const(TargetY + 1)))>>),
    AtPlace(Where(1, Const(TargetY + 1)), OwnPlus(0, 3) \o
      <<Op("EQUAL", Field(1, 0), Reg(3), Reg(2)), If(2, Advance("stage5"))>>))

MCProgram == {"rainbow", "cycle", "topNeighborRed", "demo"}
MCTypesOf ==
  [p \in MCProgram |-> CASE p = "rainbow" -> Rainbow [] p = "cycle" -> Cycle
                         [] p = "demo" -> Demo [] OTHER -> TopNeighborRed]

DemoAxioms ==
  Axioms(<<NewFact("readycount", 1), Move(Const(0), Field(1, 0)), AddFact(1),
           NewFact("stage1", 1), AddFact(1)>>)

MCRulesOf ==
  [p \in MCProgram |->
     IF p = "demo" THEN <<DemoAxioms, Stage1, Stage2, CountReady, Stage3, Stage4>>
     ELSE IF p # "cycle" THEN <<Axioms(<<>>)>>
     ELSE <<Axioms(<<NewFact("color", 1), Move(Const(0), Field(1, 0)), AddFact(1),
                     NewFact("setcolor2", 2), Move(Const(0), Field(2, 0)), Act(2)>>),
            NextColor>>]

(* A column of two and a block hanging beside its top; a row.              *)
Column == [b \in Block |-> CASE b = 1 -> <<0, 0, 0>> [] b = 2 -> <<0, 0, 1>>
                             [] OTHER -> <<1, 0, 1>>]
Row == [b \in Block |-> <<b - 1, 0, 0>>]
MCColumn == {Column}
MCRow == {Row}

(* One robot starts out of the corridor.  In one instance nothing happens to the gradient and the hanging block   *)
(* of the cycle is tapped and moved; in the other the end of a row leaves. *)
MCRobots == {[b \in Block |-> <<IF b = 1 THEN 4 ELSE Corridor, b - 1, 0>>]}

MCDisturbed == [p \in MCProgram |-> IF p = "cycle" THEN {3} ELSE {}]
MCMovers == [p \in MCProgram |-> {3}]

-----------------------------------------------------------------------------
(* What the programs compute. *)
Running(p) == {b \in Block : vm[b].prog = p}
Rainbows == Running("rainbow")
Height(b) == at[b][3] - Min({at[a][3] : a \in Block})

(* Facts sent to a neighbor are retracted as often as the fact they are    *)
(* derived from changes: counting what is on the link, queued and in its   *)
(* database, a block holds of each neighbor's levels the one it has now,   *)
(* once for each fact that they are neighbors (execute_iter,               *)
(* aggregate_recalc, tuple_do_handle, receive_tuple).                      *)
FactsAreCounted ==
  \A a, b \in Rainbows : \A h \in -2..3 :
    a # b => Total(a, b, Fact("neighbor-level", <<a, h>>)) =
               Cardinality({x \in Known(vm[a], "neighbor") : x[1] = b /\ <<h>> \in Known(vm[a], "level")})

(* When the blocks have nothing left to compute, the transient facts that  *)
(* wrong notices and messages in any order derived are gone: each block    *)
(* knows its links and its height, and shows it.                           *)
HeightsAgree ==
  Quiet => \A b \in Rainbows :
    /\ Known(vm[b], "neighbor") = {<<vm[b].link[f], f>> : f \in {f \in Face : vm[b].link[f] # VACANT}}
    /\ Known(vm[b], "vacant") = {<<f>> : f \in {f \in Face : vm[b].link[f] = VACANT}}
    /\ Known(vm[b], "neighborCount") = {<<NeighborCount(vm[b])>>}
    /\ Known(vm[b], "level") = {<<Height(b)>>}
    /\ vm[b].color = Height(b)

(* meldInterpretVM.cpp:3243 asks that a block never have more facts about  *)
(* its ports than it has: here, when it has nothing left to compute.       *)
PortFactsFit ==
  \A b \in Running("topNeighborRed") : Idle(b) /\ vm[b].neighbors = vm[b].link =>
    Cardinality(Known(vm[b], "neighbor")) + Cardinality(Known(vm[b], "vacant")) <= Len(Faces)

(* A linear fact is consumed once: the block has the color it derives, in  *)
(* its database, queued or delayed, never twice.                           *)
Tokens(m) ==
  Len(m.tuples["color"]) + Len(m.delayedTuples) +
  Len(SelectSeq(m.newStratTuples, LAMBDA e : e.fact.type = "color"))

LinearIsConserved ==
  \A b \in Running("cycle") :
    Tokens(vm[b]) = IF vm[b].color = -1 THEN 0 ELSE 1

(* demo.meld: no robot turns into the gate before the last one has reached *)
(* the corridor, although the facts that tell come in any order, also      *)
(* before the robot itself is there (tuple_send, processOneRule, moveTo).  *)
Robots == {b \in Block : IsRobot(b)}
Bound(b) == IF at[b] = Moving THEN vm[b].going ELSE at[b]
InGate(b) == Bound(b)[2] >= TargetY
InCorridor(b) == at[b] # Moving /\ at[b][1] = Corridor

GateIsShared ==
  \A b, c \in Robots : InGate(b) => InGate(c) \/ InCorridor(c)

(* When the robots are at rest each one is at its place of the row, in the *)
(* last stage, and knows where it is; no fact of the way is left.          *)
RowIsFormed ==
  AtRest => \A b \in Robots :
    /\ at[b] = <<b, TargetY + 1, 0>> /\ Known(vm[b], "at") = {at[b]}
    /\ \A t \in {"stage1", "stage2", "stage3", "stage4", "ready", "readycount"} :
         vm[b].tuples[t] = <<>>
    /\ Len(vm[b].tuples["stage5"]) = 1

(* The computation ends, and the motions it asks for, whatever the order   *)
(* of messages and derivations.                                            *)
SettlesDown == <>[]AtRest
=============================================================================
