---------------------------- MODULE MeldDebugger ----------------------------
(***************************************************************************)
(* The debugger of the Meld machines (Debugger/debug_Simhandler,           *)
(* debug_Simprompt, concurrentQueue): its prompt, the packets its messages *)
(* are cut into, the cache in which those of the machines are put together *)
(* again, and the count of the answers the prompt waits for.  The machines *)
(* are external: a machine that runs answers the first break or pause, and *)
(* every machine answers what it is asked.                                 *)
(***************************************************************************)
EXTENDS Integers, Sequences, SequencesExt, FiniteSets, FiniteSetsExt

CONSTANTS Node,      \* the machines
          NoNode,    \* an identifier that no machine has
          Room,      \* getMaxCharArraySize
          Lengths,   \* the lengths of what the user types
          Answers,   \* the lengths of what the machines answer
          Commands,  \* what the user types, at most
          MaxPauses  \* bound: the packets of a machine that may wait when
                     \* one more pause is asked for

VARIABLES prompt,    \* what run() does: prompt, waiting, or aborted
          queue,     \* messageQueue
          cache,     \* rcvMessageList
          numberExpected,
          okayToBroadcastPause,
          wire,      \* the packets on the way to each machine
          machine,   \* external: what each machine holds and does
          said,      \* the messages said to the debugger and not yet handled
          handled,   \* the last message handled
          timeBreak, \* the time breakpoint: none, set, reached
          typed      \* the commands the user has typed

vars == <<prompt, queue, cache, numberExpected, okayToBroadcastPause, wire, machine, said,
          handled, timeBreak, typed>>

Simulator == 0
Content(n, len) == [i \in 1..len |-> <<n, i>>]
Msg(instruction, node, content) == [instruction |-> instruction, node |-> node, content |-> content]
Packet(m, priority, content) ==
  [instruction |-> m.instruction, node |-> m.node, priority |-> priority, content |-> content]

(***************************************************************************)
(* packList: as long as the content and its end do not fit, Room           *)
(* characters go and one more is dropped; the header comes last.  Nothing  *)
(* is left to drop when exactly Room characters remain: substr throws.     *)
(***************************************************************************)
Throws(content) == (Len(content) + 1) % (Room + 1) = 0
Cuts(content) == (Len(content) + 1) \div (Room + 1)
Piece(content, i) ==
  SubSeq(content, i * (Room + 1) + 1, Min({i * (Room + 1) + Room, Len(content)}))
Header(m, count) == Packet(m, 0, count)

PackList(m) ==
  LET cuts == Cuts(m.content)
  IN [i \in 1..cuts + 1 |-> Packet(m, i, Piece(m.content, i - 1))] \o <<Header(m, cuts + 2)>>

(***************************************************************************)
(* The cache: one list of pieces per instruction and node.                 *)
(***************************************************************************)
(* Bug: a new piece goes to the front of its list.                         *)
InsertMsgFront(list, p) ==
  LET at == {i \in DOMAIN list : list[i].instruction = p.instruction /\ list[i].node = p.node}
  IN IF at # {} THEN [list EXCEPT ![Min(at)].pieces = <<p>> \o @]
     ELSE Append(list, [instruction |-> p.instruction, node |-> p.node, pieces |-> <<p>>])

InsertMsg(list, p) ==
  LET at == {i \in DOMAIN list : list[i].instruction = p.instruction /\ list[i].node = p.node}
  IN IF at # {} THEN [list EXCEPT ![Min(at)].pieces = Append(@, p)]
     ELSE Append(list, [instruction |-> p.instruction, node |-> p.node, pieces |-> <<p>>])

Complete(container) ==
  \E i \in DOMAIN container.pieces :
     container.pieces[i].priority = 0 /\ container.pieces[i].content = Len(container.pieces)

CheckAndGet(list) == {i \in DOMAIN list : Complete(list[i])}

BuildString(container) ==
  LET pieces == SelectSeq(container.pieces, LAMBDA p : p.priority # 0)
  IN FoldLeft(LAMBDA acc, p : acc \o p.content, <<>>, pieces)

(***************************************************************************)
(* sendMsg: the packets of a message, to every machine or to one.          *)
(***************************************************************************)
Broadcast(instruction, content) ==
  wire' = [n \in Node |-> wire[n] \o PackList(Msg(instruction, Simulator, content))]

(* Two packets the simulator writes to its own debugger.                   *)
Own(instruction) ==
  LET m == Msg(instruction, Simulator, Content(Simulator, 1))
  IN <<Packet(m, 1, m.content), Header(m, 2)>>
SaidOwn(instruction) ==
  [said EXCEPT ![Simulator] = Append(@, Msg(instruction, Simulator, Content(Simulator, 1)))]

Waits(n) == /\ numberExpected' = n
            /\ prompt' = IF n = 0 THEN "prompt" ELSE "waiting"

(***************************************************************************)
(* debugController: what the user types.                                   *)
(***************************************************************************)
Type(instruction) ==
  /\ prompt = "prompt" /\ typed < Commands /\ typed' = typed + 1
  /\ UNCHANGED <<cache, machine, handled>>

Run ==
  /\ Type("continue")
  /\ Broadcast("continue", Content(Simulator, 1))
  /\ okayToBroadcastPause' = TRUE
  /\ Waits(Cardinality(Node))
  /\ UNCHANGED <<queue, said, timeBreak>>

(* dump, break, remove, print and mode: to all, or to one node, which may  *)
(* not exist.  What is typed may be long enough to be cut.                 *)
Ask(instruction, len) ==
  /\ Type(instruction)
  /\ IF Throws(Content(Simulator, len))
     THEN prompt' = "aborted" /\ UNCHANGED <<wire, numberExpected>>
     ELSE Broadcast(instruction, Content(Simulator, len)) /\ Waits(Cardinality(Node))
  /\ UNCHANGED <<queue, said, okayToBroadcastPause, timeBreak>>

AskOne(instruction, n) ==
  /\ Type(instruction)
  /\ IF n \in Node
     THEN /\ wire' = [wire EXCEPT ![n] = @ \o PackList(Msg(instruction, Simulator, <<>>))]
          /\ UNCHANGED <<queue, said>>
     ELSE /\ queue' = queue \o Own("printContent") /\ said' = SaidOwn("printContent")
          /\ UNCHANGED wire
  /\ Waits(1)
  /\ UNCHANGED <<okayToBroadcastPause, timeBreak>>

BreakTime ==
  /\ Type("time") /\ timeBreak = "none"
  /\ queue' = queue \o Own("printContent") /\ said' = SaidOwn("printContent")
  /\ timeBreak' = "set"
  /\ Waits(1)
  /\ UNCHANGED <<wire, okayToBroadcastPause>>

(***************************************************************************)
(* receiveMsg, one packet at a time, and debugMasterController.            *)
(***************************************************************************)
(* Bug: a message that pauses the others is not counted.                   *)
CountedAnswers(m) ==
  numberExpected' = IF m.instruction = "breakFound" THEN numberExpected ELSE numberExpected - 1

Counted(m) == numberExpected' = numberExpected - 1

Master(m) ==
  IF m.instruction \in {"breakFound", "time"} /\ okayToBroadcastPause
  THEN Broadcast("pause", <<>>) /\ okayToBroadcastPause' = FALSE
  ELSE UNCHANGED <<wire, okayToBroadcastPause>>

Handle(list, i) ==
  LET m == Msg(list[i].instruction, list[i].node, BuildString(list[i]))
  IN /\ handled' = m
     /\ said' = [said EXCEPT ![m.node] =
                   SelectSeq(@, LAMBDA o : o.instruction # m.instruction)]
     /\ cache' = RemoveAt(list, i)
     /\ Master(m) /\ Counted(m)

ReceiveMsg ==
  LET list == InsertMsg(cache, Head(queue))
      ready == CheckAndGet(list)
  IN /\ prompt = "waiting" /\ queue # <<>>
     /\ queue' = Tail(queue)
     /\ IF ready # {} THEN Handle(list, Min(ready))
        ELSE /\ cache' = list
             /\ UNCHANGED <<handled, said, wire, okayToBroadcastPause, numberExpected>>
     /\ prompt' = IF queue' = <<>> /\ numberExpected' = 0 THEN "prompt" ELSE "waiting"
     /\ UNCHANGED <<machine, timeBreak, typed>>

(* handlePauseCommand: the thread of the scheduler comes to an equilibrium *)
(* (meldProcessScheduler.cpp:141), whatever the prompt does and whether the *)
(* machines have been asked to pause or not.                                *)
HandlePauseCommand ==
  /\ prompt # "aborted" /\ \A n \in Node : Len(wire[n]) <= MaxPauses
  /\ Broadcast("pause", <<>>) /\ okayToBroadcastPause' = FALSE
  /\ UNCHANGED <<prompt, queue, cache, numberExpected, machine, said, handled, timeBreak, typed>>

(* handleBreakAtTimeReached, in the thread of the scheduler.               *)
BreakAtTimeReached ==
  /\ timeBreak = "set" /\ \E n \in Node : machine[n].runs
  /\ timeBreak' = "reached"
  /\ queue' = queue \o Own("time") /\ said' = SaidOwn("time")
  /\ UNCHANGED <<prompt, cache, numberExpected, okayToBroadcastPause, wire, machine, handled, typed>>

(***************************************************************************)
(* External: the machines.  Their packets keep every character.            *)
(***************************************************************************)
Say(n, instruction, len) ==
  LET m == Msg(instruction, n, Content(n, len))
      k == IF len + 1 > Room THEN (len + Room - 1) \div Room ELSE 1
      Part(i) == SubSeq(m.content, (i - 1) * Room + 1, Min({i * Room, len}))
  IN /\ machine' = [machine EXCEPT
           ![n].out = [i \in 1..k |-> Packet(m, i, Part(i))] \o <<Header(m, k + 1)>>,
           ![n].runs = @ /\ instruction \notin {"breakFound", "pause"}]
     /\ said' = [said EXCEPT ![n] = Append(@, m)]

Answer(n) ==
  LET p == Head(wire[n])
  IN /\ wire[n] # <<>> /\ machine[n].out = <<>>
     /\ wire' = [wire EXCEPT ![n] = Tail(@)]
     /\ IF p.priority # 0 THEN UNCHANGED <<machine, said>>
        ELSE IF p.instruction = "continue"
             THEN machine' = [machine EXCEPT ![n].runs = TRUE] /\ UNCHANGED said
        ELSE IF p.instruction = "pause"
             THEN IF machine[n].runs THEN \E len \in Answers : Say(n, "pause", len)
                  ELSE UNCHANGED <<machine, said>>
        ELSE \E len \in Answers : Say(n, "printContent", len)
     /\ UNCHANGED <<prompt, queue, cache, numberExpected, okayToBroadcastPause, handled, timeBreak, typed>>

Break(n) ==
  /\ machine[n].runs /\ machine[n].out = <<>>
  /\ Say(n, "breakFound", 1)
  /\ UNCHANGED <<prompt, queue, cache, numberExpected, okayToBroadcastPause, wire, handled, timeBreak, typed>>

(* The simulator hands each packet to the debugger as it reads it.         *)
MessageQueueInsert(n) ==
  /\ machine[n].out # <<>>
  /\ queue' = Append(queue, Head(machine[n].out))
  /\ machine' = [machine EXCEPT ![n].out = Tail(@)]
  /\ UNCHANGED <<prompt, cache, numberExpected, okayToBroadcastPause, wire, said, handled, timeBreak, typed>>

(***************************************************************************)
(* Specification                                                           *)
(***************************************************************************)
Init ==
  /\ prompt = "prompt" /\ queue = <<>> /\ cache = <<>> /\ numberExpected = 0
  /\ okayToBroadcastPause = TRUE
  /\ wire = [n \in Node |-> <<>>]
  /\ machine = [n \in Node |-> [out |-> <<>>, runs |-> FALSE]]
  /\ said = [n \in Node \cup {Simulator} |-> <<>>]
  /\ handled = Msg("none", Simulator, <<>>)
  /\ timeBreak = "none" /\ typed = 0

UserTypes ==
  \/ Run \/ BreakTime
  \/ \E i \in {"dump", "breakpoint"}, len \in Lengths : Ask(i, len)
  \/ \E n \in Node \cup {NoNode} : AskOne("dump", n)

Next ==
  \/ UserTypes \/ ReceiveMsg \/ HandlePauseCommand \/ BreakAtTimeReached
  \/ \E n \in Node : Answer(n) \/ Break(n) \/ MessageQueueInsert(n)

(* Weak fairness of the debugger's thread, of the machines and of the      *)
(* simulator's thread that reads them, by what each has to do.             *)
ReceiveDue == prompt = "waiting" /\ queue # <<>>
AnswerDue(n) == wire[n] # <<>> /\ machine[n].out = <<>>
InsertDue(n) == machine[n].out # <<>>

Spec == /\ Init /\ [][Next]_vars
        /\ []<>~ReceiveDue \/ []<><<ReceiveMsg>>_vars
        /\ \A n \in Node : /\ []<>~AnswerDue(n) \/ []<><<Answer(n)>>_vars
                           /\ []<>~InsertDue(n) \/ []<><<MessageQueueInsert(n)>>_vars

(***************************************************************************)
(* Properties                                                              *)
(***************************************************************************)
(* Whatever the order in which the packets of the machines come in, what   *)
(* the debugger handles is a whole message of one of them.                 *)
OnlyWholeMessages ==
  [][handled' # handled =>
       \E i \in DOMAIN said[handled'.node] : said[handled'.node][i] = handled']_vars

(* The prompt comes back after a question, and after a run that a machine  *)
(* or the user has stopped, unless a time breakpoint was reached: its      *)
(* message is one more than numberExpected counts.                         *)
Stopped == \A n \in Node : ~machine[n].runs
PromptComesBack ==
  (prompt = "waiting" /\ Stopped) ~> (prompt = "prompt" \/ ~Stopped \/ timeBreak = "reached")
=============================================================================
