------------------------------- MODULE MeldVM -------------------------------
(***************************************************************************)
(* The interpreter of compiled Meld programs that one block runs           *)
(* (meldInterpretVM.cpp): the facts it knows, the queues of facts to add   *)
(* or to retract, and what one computation step makes of them.  Everything *)
(* is an operator on the record of a machine; MeldNetwork makes actions of *)
(* them.  ITER visits the facts of a type in a random order, so what runs  *)
(* byte code returns the set of its outcomes.                              *)
(*                                                                         *)
(* Byte code is a sequence of instruction records: the body that the inner *)
(* and outer jumps of ITER, IF, IF_ELSE and RESET_LINEAR delimit is a      *)
(* field of the instruction, and the MV... instructions are one MOVE from  *)
(* an operand to a place.  A register holds a fact by value: what is       *)
(* written into a fact of the database through its pointer is one          *)
(* instruction with the UPDATE that notes it.                              *)
(***************************************************************************)
EXTENDS Integers, Sequences, SequencesExt, FiniteSetsExt

CONSTANTS
  Program,   \* the names of the programs
  TypesOf,   \* per program and type: linear, action, agg, field, arity, round, code
  RulesOf,   \* per program, its rules: preds, persistent and code
  VACANT     \* the neighbor of a face where there is no block

(* What readProgram finds in the program of a machine.                     *)
Types(m) == DOMAIN TypesOf[m.prog]
Type(m, t) == TypesOf[m.prog][t]
Rules(m) == RulesOf[m.prog]
Linear(m, t) == Type(m, t).linear
Aggregate(m, t) == Type(m, t).agg # "NONE"
Fact(t, args) == [type |-> t, args |-> args]

(* A machine when its block is created: every queue is empty.              *)
Machine(id, prog, faces) ==
  [id |-> id, prog |-> prog, now |-> 0, link |-> [f \in faces |-> VACANT],
   tuples |-> [t \in DOMAIN TypesOf[prog] |-> <<>>], newTuples |-> <<>>,
   newStratTuples |-> <<>>, delayedTuples |-> <<>>,
   receivedTuples |-> [f \in faces |-> <<>>],
   neighbors |-> [f \in faces |-> VACANT], numNeighbors |-> 0,
   waiting |-> FALSE, reg |-> <<>>, out |-> <<>>, color |-> -1,
   connected |-> {}, position |-> <<>>, going |-> <<>>]

(* Queues: in order of arrival, or of priority and then of arrival.        *)
Entry(fact, n) == [fact |-> fact, count |-> n, of |-> <<>>]

PEnqueue(q, e) ==
  LET before == SelectSeq(q, LAMBDA x : x.priority <= e.priority)
  IN before \o <<e>> \o SelectSeq(q, LAMBDA x : x.priority > e.priority)

EnqueueNewTuple(m, fact, n) ==
  IF Type(m, fact.type).round > 0
  THEN [m EXCEPT !.newStratTuples =
          PEnqueue(@, [priority |-> Type(m, fact.type).round, fact |-> fact,
                       count |-> n, rt |-> m.id])]
  ELSE [m EXCEPT !.newTuples = Append(@, Entry(fact, n))]

(* The facts about its surroundings; a program need not have their types.  *)
EnqueueIfTyped(m, t, args, n) ==
  IF t \in Types(m) THEN EnqueueNewTuple(m, Fact(t, args), n) ELSE m

EnqueueFace(m, neighbor, face, n) ==
  IF neighbor = VACANT THEN EnqueueIfTyped(m, "vacant", <<face>>, n)
  ELSE EnqueueIfTyped(m, "neighbor", <<neighbor, face>>, n)

EnqueueAt(m, pos, n) == EnqueueIfTyped(m, "at", pos, n)
EnqueueEdge(m, neighbor, n) == EnqueueIfTyped(m, "edge", <<neighbor>>, n)
EnqueueCount(m, c, n) == EnqueueIfTyped(m, "neighborCount", <<c>>, n)
EnqueueTap(m) == EnqueueIfTyped(m, "tap", <<>>, 1)
EnqueueInit(m) == EnqueueIfTyped(m, "_init", <<>>, 1)

(* Facts for other blocks leave by the interface to them, now or later; a  *)
(* block with one interface broadcasts to those its lattice connects.      *)
FaceOf(m, id) == {f \in DOMAIN m.link : m.link[f] = id}

TupleSend(m, fact, rt, delay, n) ==
  IF delay > 0 THEN
    [m EXCEPT !.delayedTuples =
       PEnqueue(@, [priority |-> m.now + delay, fact |-> fact, count |-> n,
                    rt |-> rt])]
  ELSE IF rt = m.id THEN EnqueueNewTuple(m, fact, n)
  ELSE IF FaceOf(m, rt) # {} \/ rt \in m.connected THEN
    [m EXCEPT !.out = Append(@, [to |-> rt, fact |-> fact, add |-> n > 0])]
  ELSE m

(* A received fact is kept with its face, to be retracted with the link.   *)
ReceiveTuple(m, fact, n, face) ==
  LET q == m.receivedTuples[face]
      known == {k \in DOMAIN q : q[k] = fact}
      kept == IF n > 0 THEN Append(q, fact)
              ELSE IF known = {} THEN q ELSE RemoveAt(q, Min(known))
      noted == IF Linear(m, fact.type) \/ Type(m, fact.type).action THEN m
               ELSE [m EXCEPT !.receivedTuples[face] = kept]
  IN EnqueueNewTuple(noted, fact, n)

(* Operands and places of the instructions that move data.                 *)
Value(m, v) ==
  CASE v.kind = "int" -> v.val
    [] v.kind = "host" -> m.id
    [] v.kind = "reg" -> m.reg[v.reg]
    [] v.kind = "field" -> m.reg[v.reg].args[v.field + 1]

Store(m, p, x) ==
  IF p.kind = "reg" THEN [m EXCEPT !.reg = (p.reg :> x) @@ @]
  ELSE [m EXCEPT !.reg[p.reg].args[p.field + 1] = x]

Copy(m, i) == Store(m, i.dst, Value(m, i.src))

(* The operations, on integers and node identifiers; division rounds       *)
(* towards zero.                                                           *)
Magnitude(a) == IF a < 0 THEN -a ELSE a
Truncated(a, b) ==
  IF (a < 0) = (b < 0) THEN Magnitude(a) \div Magnitude(b)
  ELSE -(Magnitude(a) \div Magnitude(b))

Logical(f, a, b) ==
  CASE f = "OR" -> a \/ b [] f = "EQUAL" -> a = b [] f = "NOTEQUAL" -> a # b

Comparison(f, a, b) ==
  CASE f = "LESSER" -> a < b  [] f = "LESSEREQUAL" -> a <= b
    [] f = "GREATER" -> a > b [] f = "GREATEREQUAL" -> a >= b

Arithmetic(f, a, b) ==
  CASE f = "PLUS" -> a + b [] f = "MINUS" -> a - b [] f = "MUL" -> a * b
    [] f = "DIV" -> Truncated(a, b) [] f = "MOD" -> a - b * Truncated(a, b)

Operation(m, i) ==
  LET a == Value(m, i.a)
      b == Value(m, i.b)
  IN Store(m, i.dst,
       CASE i.fun \in {"OR", "EQUAL", "NOTEQUAL"} -> Logical(i.fun, a, b)
         [] i.fun \in {"LESSER", "LESSEREQUAL", "GREATER", "GREATEREQUAL"} ->
              Comparison(i.fun, a, b)
         [] OTHER -> Arithmetic(i.fun, a, b))

(* An action fact changes the block, only when it is derived.  A block     *)
(* that is to move is no longer at its position; the TranslationStart is   *)
(* scheduled.                                                              *)
SetColor(m, color) == [m EXCEPT !.color = color]

(* Bug: the block knows its new position before it is there. *)
MoveToAtOnce(m, pos) == [EnqueueAt(EnqueueAt(m, m.position, -1), pos, 1) EXCEPT !.going = pos]

MoveTo(m, pos) == [EnqueueAt(m, m.position, -1) EXCEPT !.going = pos]

RunAction(m, fact, n) ==
  CASE n <= 0 -> m
    [] n > 0 /\ fact.type = "moveto" -> MoveTo(m, fact.args)
    [] n > 0 /\ fact.type # "moveto" -> SetColor(m, fact.args[1])

Alloc(m, i) ==
  Store(m, i.dst, Fact(i.type, [k \in 1..Type(m, i.type).arity |-> 0]))

AddTuple(m, i, n) == EnqueueNewTuple(m, m.reg[i.reg], n)

Send(m, i, n) == TupleSend(m, m.reg[i.reg], m.reg[i.rt], 0, n)

SendDelay(m, i, n) ==
  TupleSend(m, m.reg[i.reg], IF i.reg = i.rt THEN m.id ELSE m.reg[i.rt], i.delay, n)

(* UPDATE: the fact of the database that a register holds changes a field, *)
(* without its byte code being run.                                        *)
Update(m, i) ==
  LET old == m.reg[i.dst.reg]
      q == m.tuples[old.type]
      k == Min({k \in DOMAIN q : q[k].fact = old})
      new == Store(m, i.dst, Value(m, i.src))
  IN [new EXCEPT !.tuples[old.type][k].fact = new.reg[i.dst.reg]]

(* CALL1 knows node2int, and an identifier is an integer.                  *)
NodeToInt(m, i) == Copy(m, i)

(* The instructions that do not branch.                                    *)
Execute(m, i, n) ==
  CASE i.op = "ALLOC" -> Alloc(m, i)
    [] i.op = "MOVE" -> Copy(m, i)
    [] i.op = "CALL1" -> NodeToInt(m, i)
    [] i.op = "UPDATE" -> Update(m, i)
    [] i.op = "OP" -> Operation(m, i)
    [] i.op = "NOT" -> Store(m, i.dst, ~Value(m, i.src))
    [] i.op = "ADDTUPLE" -> AddTuple(m, i, n)
    [] i.op = "SEND" -> Send(m, i, n)
    [] i.op = "SEND_DELAY" -> SendDelay(m, i, n)
    [] i.op = "RUNACTION" -> RunAction(m, m.reg[i.reg], n)

(* IF runs its body or not, IF_ELSE one of two, and then what follows.     *)
Branch(m, i) == IF m.reg[i.reg] THEN i.body ELSE i.else

(* What an instruction that ends a piece of byte code returns.             *)
Returns == [RETURN |-> "RET", NEXT |-> "NEXT", END_LINEAR |-> "LINEAR",
            RETURN_LINEAR |-> "LINEAR", RETURN_DERIVED |-> "DERIVED"]

Leaves(ret, lin) == ret \in {"LINEAR", "RET"} \/ (ret = "DERIVED" /\ lin)

Matches(m, i, fact) ==
  \A k \in DOMAIN i.match : fact.args[i.match[k].field + 1] = Value(m, i.match[k].val)

Orders(q) == {[k \in DOMAIN q |-> q[p[k]].fact] : p \in SetToSeqs(DOMAIN q)}

RECURSIVE Run(_, _, _, _), Visit(_, _, _, _, _, _), TupleHandle(_, _, _)

(* ITER runs its body for the matching facts, in a random order, until a   *)
(* return that leaves the rule.                                            *)
Visit(m, i, list, n, lin, inner) ==
  IF list = <<>> THEN {[m |-> m, ret |-> "NO_RET"]}
  ELSE IF ~Matches(m, i, Head(list)) THEN Visit(m, i, Tail(list), n, lin, inner)
  ELSE UNION {IF Leaves(r.ret, lin) THEN {r}
              ELSE Visit(r.m, i, Tail(list), n, lin, inner) :
                r \in Run(Store(m, i.dst, Head(list)), i.body, n, inner)}

Iter(m, i, n, lin) ==
  UNION {Visit(m, i, list, n, lin, lin \/ Linear(m, i.type)) :
           list \in Orders(m.tuples[i.type])}

(* Bug: the consumed fact stays. *)
RemoveNothing(m, i, n) == {m}

(* REMOVE retracts the linear fact a rule consumes, when it is derived.    *)
ExecuteRemove(m, i, n) ==
  IF n > 0 THEN {[x EXCEPT !.reg[i.reg] = 0] : x \in TupleHandle(m, m.reg[i.reg], -1)}
  ELSE {m}

Run(m, code, n, lin) ==
  LET i == Head(code)
      rest == Tail(code)
  IN CASE i.op \in DOMAIN Returns -> {[m |-> m, ret |-> Returns[i.op]]}
       [] i.op = "ITER" ->
            UNION {IF Leaves(r.ret, lin) THEN {r} ELSE Run(r.m, rest, n, lin) :
                     r \in Iter(m, i, n, lin)}
       [] i.op = "RESET_LINEAR" ->
            UNION {Run(r.m, rest, n, lin) : r \in Run(m, i.body, n, FALSE)}
       [] i.op = "IF" ->
            Run(m, Branch(m, i) \o rest, n, lin)
       [] i.op = "REMOVE" -> UNION {Run(x, rest, n, lin) : x \in ExecuteRemove(m, i, n)}
       [] OTHER -> Run(Execute(m, i, n), rest, n, lin)

(* The byte code of a fact, run with the fact in register 0.               *)
Process(m, fact, n, lin) ==
  {r.m : r \in Run(Store(m, [kind |-> "reg", reg |-> 0], fact), Type(m, fact.type).code, n, lin)}

(* A fact goes when it is retracted as often as it was derived.            *)
Exhausted(count) == count <= 0

(* A fact without aggregate: derivations of the same fact are counted, the *)
(* byte code runs for the first one and for the last retraction only.  A   *)
(* linear fact is an entry for each occurrence, counted downwards.         *)
PlainHandle(m, fact, n) ==
  LET t == fact.type
      q == m.tuples[t]
      same == {k \in DOMAIN q : q[k].fact = fact}
      dead == {k \in same : Exhausted(q[k].count + n)}
      last == IF dead = {} THEN Len(q) ELSE Min(dead)
      counted == [k \in DOMAIN q |-> IF k \in same /\ k <= last
                                     THEN [q[k] EXCEPT !.count = @ + n] ELSE q[k]]
      noted == [m EXCEPT !.tuples[t] = counted]
      Without(x) == [x EXCEPT !.tuples[t] = RemoveAt(@, last)]
  IN IF dead # {} THEN
       {Without(x) : x \in IF Linear(m, t) THEN {noted} ELSE Process(noted, fact, n, FALSE)}
     ELSE IF n <= 0 \/ (same # {} /\ ~Linear(m, t)) THEN {noted}
     ELSE Process([noted EXCEPT !.tuples[t] = Append(@, Entry(fact, n))],
                  fact, n, Linear(m, t))

(* The value of an aggregate over the queue of the facts it stands for.    *)
Better(agg, a, b) == IF agg = "MAX" THEN a > b ELSE agg = "MIN" /\ a < b

AggregateValue(agg, f, q) ==
  CASE agg = "FIRST" -> q[1].fact.args[f]
    [] agg = "SUM" -> FoldSeq(LAMBDA e, s : s + e.fact.args[f] * e.count, 0, q)
    [] OTHER -> FoldSeq(LAMBDA e, s : IF Better(agg, e.fact.args[f], s)
                                      THEN e.fact.args[f] ELSE s,
                        q[1].fact.args[f], q)

(* Bug: a changed aggregate is not noticed. *)
RecalcNever(m, t, k) == {m}

(* Bug: the old value is not retracted. *)
RecalcForgets(m, t, k) ==
  LET e == m.tuples[t][k]
      f == Type(m, t).field
      new == [e.fact EXCEPT !.args[f] = AggregateValue(Type(m, t).agg, f, e.of)]
  IN Process([m EXCEPT !.tuples[t][k].fact = new], new, 1, FALSE)

(* A changed aggregate is retracted with its old value and derived with    *)
(* the new one.                                                            *)
Recalc(m, t, k) ==
  LET e == m.tuples[t][k]
      f == Type(m, t).field
      v == AggregateValue(Type(m, t).agg, f, e.of)
      new == [e.fact EXCEPT !.args[f] = v]
  IN IF Type(m, t).agg = "FIRST" \/ e.fact.args[f] = v THEN {m}
     ELSE UNION {Process([x EXCEPT !.tuples[t][k].fact = new], new, 1, FALSE) :
                   x \in Process(m, e.fact, -1, FALSE)}

(* A fact with an aggregate: the facts that agree on the other fields are  *)
(* one entry, with the queue of their derivations.                         *)
AggregateHandle(m, fact, n) ==
  LET t == fact.type
      f == Type(m, t).field
      q == m.tuples[t]
      group == {k \in DOMAIN q : \A a \in DOMAIN fact.args :
                                   a = f \/ q[k].fact.args[a] = fact.args[a]}
      k == Min(group)
      of == q[k].of
      same == {j \in DOMAIN of : of[j].fact = fact}
      j == Min(same)
      gone == Exhausted(of[j].count + n)
      alone == <<Entry(fact, n)>>
      first == [fact EXCEPT !.args[f] = AggregateValue(Type(m, t).agg, f, alone)]
      With(s) == [m EXCEPT !.tuples[t][k].of = s]
  IN CASE group = {} /\ n > 0 ->
            Process([m EXCEPT !.tuples[t] = Append(@, [fact |-> first, count |-> 1,
                                                       of |-> alone])],
                    fact, n, FALSE)
       [] group # {} /\ Type(m, t).agg = "FIRST" /\ n > 0 -> {m}
       [] group # {} /\ same # {} /\ gone /\ Len(of) = 1 ->
            Process([m EXCEPT !.tuples[t] = RemoveAt(@, k)], q[k].fact, -1, FALSE)
       [] group # {} /\ same # {} /\ gone /\ Len(of) > 1 ->
            Recalc(With(RemoveAt(of, j)), t, k)
       [] group # {} /\ same # {} /\ ~gone ->
            Recalc(With([of EXCEPT ![j].count = @ + n]), t, k)
       [] group # {} /\ same = {} /\ n > 0 ->
            Recalc(With(Append(of, Entry(fact, n))), t, k)
       [] OTHER -> {m}

TupleHandle(m, fact, n) ==
  IF Type(m, fact.type).action THEN {RunAction(m, fact, n)}
  ELSE IF Aggregate(m, fact.type) /\ ~Linear(m, fact.type) THEN AggregateHandle(m, fact, n)
  ELSE PlainHandle(m, fact, n)

(* A rule is ready when there is a fact of each of its types; persistent   *)
(* rules keep the machine busy and do nothing.                             *)
Active(m, r) == \A t \in Rules(m)[r].preds : m.tuples[t] # <<>>
Runnable(m) == {r \in DOMAIN Rules(m) : Active(m, r) /\ ~Rules(m)[r].persistent}

RunRules(m) ==
  LET busy == [m EXCEPT !.waiting = \/ m.delayedTuples # <<>>
                                    \/ \E r \in DOMAIN Rules(m) : Active(m, r)]
  IN IF Runnable(m) = {} THEN {busy}
     ELSE {r.m : r \in Run([busy EXCEPT !.waiting = TRUE],
                           Rules(m)[Min(Runnable(m))].code, 1, FALSE)}

(* One fact, in the order new, delayed and due, stratified; else one rule. *)
Busy(m) == [m EXCEPT !.waiting = TRUE]

TakeOne(m) ==
  LET new == Head(m.newTuples)
      due == Head(m.delayedTuples)
      strat == Head(m.newStratTuples)
  IN IF m.newTuples # <<>> THEN
       TupleHandle(Busy([m EXCEPT !.newTuples = Tail(@)]), new.fact, new.count)
     ELSE IF m.delayedTuples # <<>> /\ due.priority <= m.now THEN
       {TupleSend(Busy([m EXCEPT !.delayedTuples = Tail(@)]),
                  due.fact, due.rt, 0, due.count)}
     ELSE IF m.newStratTuples # <<>> THEN
       TupleHandle(Busy([m EXCEPT !.newStratTuples = Tail(@)]),
                   strat.fact, strat.count)
     ELSE RunRules(m)

(* Then the facts about the surroundings follow the links.                 *)
NeighborCount(m) == Cardinality({f \in DOMAIN m.link : m.link[f] # VACANT})

UpdateCount(m) ==
  LET c == NeighborCount(m)
  IN IF c = m.numNeighbors THEN m
     ELSE EnqueueCount([EnqueueCount(m, m.numNeighbors, -1)
                          EXCEPT !.numNeighbors = c, !.waiting = TRUE], c, 1)

UpdateFace(m, f) ==
  LET old == EnqueueFace(Busy(m), m.neighbors[f], f, -1)
      lost == FoldLeft(LAMBDA x, fact : EnqueueNewTuple(x, fact, -1),
                       old, m.receivedTuples[f])
  IN IF m.link[f] = m.neighbors[f] THEN m
     ELSE EnqueueFace([lost EXCEPT !.receivedTuples[f] = <<>>,
                                   !.neighbors[f] = m.link[f]], m.link[f], f, 1)

UpdateFaces(m, faces) ==
  FoldLeft(UpdateFace, m, SelectSeq(faces, LAMBDA f : f \in DOMAIN m.link))

ProcessOneRule(m, faces) ==
  {[UpdateFaces(UpdateCount(x), faces) EXCEPT !.reg = <<>>] :
     x \in TakeOne([m EXCEPT !.waiting = FALSE])}
=============================================================================
