---------------------------- MODULE MeldProcess ----------------------------
(***************************************************************************)
(* The Meld process scheduler in its fastest, "deterministic" mode         *)
(* (meldProcessScheduler, meldProcessVM): every block runs its program in  *)
(* a process of its own, behind a socket, and the simulator may move its   *)
(* date only past what no machine can still ask for.  The machines and     *)
(* the block code that feeds them are external: no application of the      *)
(* repository builds a MeldProcessVM.                                      *)
(***************************************************************************)
EXTENDS Naturals, Sequences, SequencesExt, FiniteSets, FiniteSetsExt

CONSTANTS VM,      \* the identifiers of the blocks that run a machine, from 1 on
          Peer,    \* [VM -> SUBSET VM], the blocks wired to each of them
          Draw,    \* [VM -> Seq(Nat)], what each block's generator gives
          Budget,  \* [VM -> Nat], what each program asks for, at most
          Inputs   \* what the user does, at most

VARIABLES now,         \* currentDate
          events,      \* eventsMap, in its order
          vm,          \* the MeldProcessVM of each block
          fromVM,      \* the commands each machine has written
          toVM,        \* the commands written to each machine
          machine,     \* external: the machines
          minReached,  \* minReallyReached of dateHasBeenReachedByAll
          phase,       \* where startPaused stands
          processed,   \* hasProcessed
          debug,       \* the debugger: on or off, and its time breakpoint
          inputs       \* what the user has done

vars == <<now, events, vm, fromVM, toVM, machine, minReached, phase, processed, debug, inputs>>

Least(d, e) == IF d < e THEN d ELSE e
Most(d, e) == IF d < e THEN e ELSE d
Cmd(type, ts, arg) == [type |-> type, ts |-> ts, arg |-> arg]

(***************************************************************************)
(* The event list of this mode: the events of one date follow their random *)
(* numbers, those without one first, and the blocks' identifiers.          *)
(***************************************************************************)
NewEvent(kind, date, rand, block, arg) ==
  [kind |-> kind, date |-> date, rand |-> rand, block |-> block, arg |-> arg]

SameDate(evs, ev) == {i \in DOMAIN evs : evs[i].date = ev.date}
RangeEnd(evs, ev) == 1 + Cardinality({i \in DOMAIN evs : evs[i].date <= ev.date})

(* Where the scan of the events of that date stops.                        *)
FirstStop(evs, ev) ==
  Min({i \in SameDate(evs, ev) : evs[i].rand # 0 /\ evs[i].rand >= ev.rand}
        \cup {RangeEnd(evs, ev)})

(* The inner loop, over equal random numbers, has no bound but the map's.  *)
InnerStop(evs, ev, from) ==
  Min({i \in from..Len(evs) : evs[i].rand # ev.rand \/ evs[i].block > ev.block}
        \cup {Len(evs) + 1})

IsEqualAt(evs, ev, i) == i < RangeEnd(evs, ev) /\ evs[i].rand = ev.rand

(* An insertion hinted past the date goes to the end of the date.          *)
Place(evs, ev) ==
  LET stop == FirstStop(evs, ev)
  IN IF IsEqualAt(evs, ev, stop)
     THEN Least(InnerStop(evs, ev, stop), RangeEnd(evs, ev)) ELSE stop

ReadsPastEnd(evs, ev) ==
  LET stop == FirstStop(evs, ev)
  IN IsEqualAt(evs, ev, stop) /\ InnerStop(evs, ev, stop) > Len(evs)

(* Bug: the random numbers are not looked at.                              *)
InsertLast(evs, ev) == InsertAt(evs, RangeEnd(evs, ev), ev)

Insert(evs, ev) == InsertAt(evs, Place(evs, ev), ev)

(* The state a command or an event works on.                               *)
Hold(evs, over, v) == [events |-> evs, over |-> over, vm |-> v]
ScheduleIn(st, ev) ==
  [st EXCEPT !.events = Insert(st.events, ev),
             !.over = @ \/ ReadsPastEnd(st.events, ev)]

(* An event that draws the next number of its block.                       *)
DrawIn(st, kind, date, b, arg) ==
  ScheduleIn([st EXCEPT !.vm.drawn = @ + 1],
             NewEvent(kind, date, Draw[b][1 + (st.vm.drawn % Len(Draw[b]))], b, arg))

(***************************************************************************)
(* handleCommand: what a machine asks for takes place at its own date, or  *)
(* now if the simulator is already later.                                  *)
(***************************************************************************)
Wired(b) == {w \in Peer[b] : vm[w].alive}

(* Bug: a machine that has answered any command is taken to be idle.       *)
HandleCommandAnyEnd(st, b, c) ==
  LET date == Most(now, c.ts)
      set == [st EXCEPT !.vm.localDate = date]
  IN CASE c.type = "setColor" -> ScheduleIn(set, NewEvent("setColor", date, 0, b, 0))
       [] c.type = "sendMessage" ->
            IF c.arg \in Wired(b) THEN DrawIn(set, "sendMessage", date, b, c.arg) ELSE set
       [] c.type = "workEnd" -> [set EXCEPT !.vm.hasWork = FALSE]
       [] c.type = "pollStart" ->
            DrawIn([set EXCEPT !.vm.polling = TRUE], "endPoll", date + 1, b, 0)
       [] OTHER -> set

HandleCommand(st, b, c) ==
  LET date == Most(now, c.ts)
      set == [st EXCEPT !.vm.localDate = date]
  IN CASE c.type = "setColor" -> ScheduleIn(set, NewEvent("setColor", date, 0, b, 0))
       [] c.type = "sendMessage" ->
            IF c.arg \in Wired(b) THEN DrawIn(set, "sendMessage", date, b, c.arg) ELSE set
       [] c.type = "workEnd" ->
            IF c.arg = st.vm.nbSent THEN [set EXCEPT !.vm.hasWork = FALSE] ELSE set
       [] c.type = "pollStart" ->
            DrawIn([set EXCEPT !.vm.polling = TRUE], "endPoll", date + 1, b, 0)
       [] OTHER -> set

(* The read handler of a machine's socket takes every command it holds.    *)
ReadAll(b) ==
  LET st == FoldLeft(LAMBDA acc, c : HandleCommand(acc, b, c),
                     Hold(events, FALSE, vm[b]), fromVM[b])
  IN /\ fromVM[b] # <<>>
     /\ events' = st.events
     /\ vm' = [vm EXCEPT ![b] = st.vm]
     /\ fromVM' = [fromVM EXCEPT ![b] = <<>>]
     /\ phase' \in {"check"} \cup (IF st.over THEN {"crashed"} ELSE {})

(***************************************************************************)
(* dateHasBeenReachedByAll                                                 *)
(***************************************************************************)
Alive == {b \in VM : vm[b].alive}
Idle(b) == ~vm[b].hasWork \/ vm[b].polling
Busy == {b \in Alive : ~Idle(b)}
LocalDates(S) == {vm[b].localDate : b \in S}

(* min2 is not initialised before the first block of the map is idle: what *)
(* it held then only lowers the date that is remembered.                   *)
Remembered ==
  IF Min(Alive) \in Busy THEN {0, Min(LocalDates(Alive))} ELSE {Min(LocalDates(Alive))}

ReachedByAll(date) ==
  \/ (date < minReached \/ Busy = {}) /\ minReached' = minReached
  \/ /\ ~(date < minReached \/ Busy = {})
     /\ minReached' \in Remembered
     /\ date < Min(LocalDates(Busy))

NotReached(date) ==
  /\ ~(date < minReached \/ Busy = {})
  /\ minReached' \in Remembered
  /\ date >= Min(LocalDates(Busy))

Equilibrium == \A b \in Alive : ~vm[b].hasWork

(***************************************************************************)
(* sendCommand, and the block code's part of an event.                     *)
(***************************************************************************)
(* Bug: a command to a machine that was idle does not wake it.             *)
SentAsleep(m, date, type) ==
  [m EXCEPT !.nbSent = @ + 1, !.localDate = Most(date, @)]

(* Bug: the commands sent to a machine that still works are not counted.   *)
SentUncounted(m, date, type) ==
  [m EXCEPT !.nbSent = IF m.hasWork THEN @ ELSE @ + 1, !.localDate = Most(date, @),
            !.hasWork = @ \/ type # "stop"]

Sent(m, date, type) ==
  [m EXCEPT !.nbSent = @ + 1, !.localDate = Most(date, @),
            !.hasWork = @ \/ type # "stop"]

SendCommand(b, date, type, m) ==
  /\ vm' = [vm EXCEPT ![b] = Sent(m, date, type)]
  /\ toVM' = [toVM EXCEPT ![b] = Append(@, Cmd(type, date, 0))]

(* The events that become a command of the block's machine.                *)
CommandEvents == {"setId", "receive", "tap", "endPoll"}
Transmission == 1

(* What the event does, at its date.  A stopped block ignores its events.  *)
Effect(ev) ==
  LET m == vm[ev.block]
      rest == Tail(events)
      ignored == UNCHANGED <<vm, toVM>> /\ events' = rest
  IN CASE ev.kind \in CommandEvents ->
            IF ~m.alive THEN ignored
            ELSE /\ SendCommand(ev.block, ev.date, ev.kind,
                                [m EXCEPT !.polling = @ /\ ev.kind # "endPoll"])
                 /\ events' = rest
       [] ev.kind = "stop" -> SendCommand(ev.block, ev.date, "stop", m) /\ events' = rest
       [] ev.kind = "sendMessage" /\ m.alive ->
            /\ events' = Insert(rest, NewEvent("receive", ev.date + Transmission, 0, ev.arg, ev.block))
            /\ UNCHANGED <<vm, toVM>>
       [] OTHER -> ignored

(* A pause stops the thread, but for the debugger: the thread then tells   *)
(* it that the time breakpoint is reached, and goes on.                    *)
Broken(kind) ==
  LET break == kind = "pause"
  IN /\ phase' = IF break /\ ~debug.on THEN "paused" ELSE "check"
     /\ debug' = [debug EXCEPT !.break = IF break /\ debug.on /\ @ = "none" THEN "told" ELSE @]

(* The scheduler consumes the first event, or waits for a machine.         *)
Consume ==
  /\ phase = "pick" /\ events # <<>>
  /\ \/ Head(events).date = now /\ minReached' = minReached
     \/ Head(events).date # now /\ ReachedByAll(Head(events).date)
  /\ now' = Head(events).date
  /\ Effect(Head(events))
  /\ Broken(Head(events).kind)
  /\ processed' = TRUE
  /\ UNCHANGED <<fromVM, machine, inputs>>

Wait ==
  /\ phase = "pick" /\ events # <<>>
  /\ Head(events).date # now /\ NotReached(Head(events).date)
  /\ phase' = "wait" /\ processed' = TRUE
  /\ UNCHANGED <<now, events, vm, fromVM, toVM, machine, debug, inputs>>

(* waitForOneCommand blocks until a machine has written, and both it and   *)
(* the turns of the loop take what the other machines have written.        *)
Read ==
  /\ phase \in {"wait", "check"}
  /\ \E b \in VM : ReadAll(b)
  /\ UNCHANGED <<now, toVM, machine, minReached, processed, debug, inputs>>

Checked ==
  /\ phase = "check" /\ \A b \in VM : fromVM[b] = <<>>
  /\ phase' = "pick"
  /\ UNCHANGED <<now, events, vm, fromVM, toVM, machine, minReached, processed, debug, inputs>>

(* The debugger's messages are written at once, and are not counted.       *)
BroadcastPause ==
  /\ toVM' = [b \in VM |-> Append(toVM[b], Cmd("pause", now, 0))]
  /\ debug' = [debug EXCEPT !.break = "paused"]

(* The debugger's thread reads the message of the time breakpoint.         *)
HandleBreak ==
  /\ debug.break = "told" /\ BroadcastPause
  /\ UNCHANGED <<now, events, vm, fromVM, machine, minReached, phase, processed, inputs>>

(* No event is left: the equilibrium is announced if no machine works.     *)
Rest ==
  /\ phase = "pick" /\ events = <<>>
  /\ processed' = (processed /\ ~Equilibrium)
  /\ phase' = "check"
  /\ IF debug.on /\ processed /\ Equilibrium THEN BroadcastPause ELSE UNCHANGED <<toVM, debug>>
  /\ UNCHANGED <<now, events, vm, fromVM, machine, minReached, inputs>>

(***************************************************************************)
(* The user: a tap, the end of a block, a pause and its end.               *)
(***************************************************************************)
Add1(ev) ==
  /\ phase # "crashed" /\ inputs < Inputs /\ inputs' = inputs + 1
  /\ events' = Insert(events, ev)
  /\ UNCHANGED <<now, fromVM, toVM, machine, minReached, phase, processed, debug>>

TapBlock(b) == vm[b].alive /\ Add1(NewEvent("tap", now, 0, b, 0)) /\ UNCHANGED vm
StopBlock(b) ==
  /\ vm[b].alive
  /\ Add1(NewEvent("stop", now, 0, b, 0))
  /\ vm' = [vm EXCEPT ![b].alive = FALSE]
Pause == Add1(NewEvent("pause", now, 0, Min(VM), 0)) /\ UNCHANGED vm
Unpause ==
  /\ phase = "paused" /\ phase' = "check"
  /\ UNCHANGED <<now, events, vm, fromVM, toVM, machine, minReached, processed, debug, inputs>>

(***************************************************************************)
(* External: the machines.  A machine takes its commands in order, each    *)
(* costs it time, and asks for something while its budget lasts; while it  *)
(* polls, it only takes commands in.                                       *)
(***************************************************************************)
Asks(b, date) ==
  {<<>>} \cup {<<Cmd("sendMessage", date, w)>> : w \in VM \ {b}}
         \cup {<<Cmd(t, date, 0)>> : t \in {"setColor", "pollStart", "timeInfo"}}

Work(b) ==
  LET m == machine[b]
      c == Head(toVM[b])
      date == Most(m.clock, c.ts) + 1
      quiet == c.type \in {"stop", "pause"} \/ (m.polls /\ c.type # "endPoll") \/ m.budget = 0
  IN /\ m.runs /\ toVM[b] # <<>>
     /\ toVM' = [toVM EXCEPT ![b] = Tail(@)]
     /\ \E out \in IF quiet THEN {<<>>} ELSE Asks(b, date) :
          /\ fromVM' = [fromVM EXCEPT ![b] = @ \o out]
          /\ machine' = [machine EXCEPT ![b] =
               [clock |-> date, done |-> IF c.type = "pause" THEN m.done ELSE m.done + 1,
                told |-> m.told /\ c.type = "pause",
                polls |-> (m.polls /\ c.type # "endPoll") \/ (out # <<>> /\ out[1].type = "pollStart"),
                budget |-> m.budget - Len(out), runs |-> c.type \notin {"stop", "pause"}]]
     /\ UNCHANGED <<now, events, vm, minReached, phase, processed, debug, inputs>>

Tell(b) ==
  LET m == machine[b]
  IN /\ m.runs /\ toVM[b] = <<>> /\ ~m.polls /\ ~m.told
     /\ fromVM' = [fromVM EXCEPT ![b] = Append(@, Cmd("workEnd", m.clock, m.done))]
     /\ machine' = [machine EXCEPT ![b].told = TRUE]
     /\ UNCHANGED <<now, events, vm, toVM, minReached, phase, processed, debug, inputs>>

(***************************************************************************)
(* Specification                                                           *)
(***************************************************************************)
NewVM == [alive |-> TRUE, localDate |-> 0, hasWork |-> TRUE, polling |-> FALSE,
          nbSent |-> 0, drawn |-> 0]
NewMachine(b) ==
  [clock |-> 0, done |-> 0, told |-> TRUE, polls |-> FALSE, budget |-> Budget[b], runs |-> TRUE]

Init ==
  /\ now = 0 /\ minReached = 0 /\ phase = "check"
  /\ events = [i \in 1..Cardinality(VM) |-> NewEvent("setId", 0, 0, SetToSortSeq(VM, <)[i], 0)]
  /\ vm = [b \in VM |-> NewVM]
  /\ fromVM = [b \in VM |-> <<>>] /\ toVM = [b \in VM |-> <<>>]
  /\ machine = [b \in VM |-> NewMachine(b)]
  /\ processed = FALSE /\ inputs = 0
  /\ debug \in [on : BOOLEAN, break : {"none"}]

Scheduler == Consume \/ Wait \/ Read \/ Checked \/ Rest
User == (\E b \in VM : TapBlock(b) \/ StopBlock(b)) \/ Pause \/ Unpause
Next == Scheduler \/ HandleBreak \/ User \/ \E b \in VM : Work(b) \/ Tell(b)

(* Weak fairness of the scheduler's thread and of every machine, by what   *)
(* each has to do: no fairness is asked of the user.                       *)
SchedulerDue ==
  phase \notin {"paused", "crashed"} /\ (phase = "wait" => \E b \in VM : fromVM[b] # <<>>)
MachineDue(b) ==
  /\ machine[b].runs
  /\ toVM[b] # <<>> \/ (~machine[b].polls /\ ~machine[b].told)

Spec == /\ Init /\ [][Next]_vars
        /\ []<>~SchedulerDue \/ []<><<Scheduler>>_vars
        /\ \A b \in VM : []<>~MachineDue(b) \/ []<><<Work(b) \/ Tell(b)>>_vars

(***************************************************************************)
(* Properties                                                              *)
(***************************************************************************)
(* The events of a date come in the order of their random numbers, then of *)
(* their blocks, whatever the order in which they were scheduled.          *)
Before(e, f) ==
  \/ e.date < f.date
  \/ e.date = f.date /\ (e.rand < f.rand \/ (e.rand = f.rand /\ (e.rand = 0 \/ e.block <= f.block)))
EventsInOrder == \A i, j \in DOMAIN events : i < j => Before(events[i], events[j])

(* Once the simulator is at a date, no machine adds to what happens at     *)
(* that date, however late its commands are read: the mode is the          *)
(* deterministic one the scheduler announces.                              *)
Asked(evs, date) ==
  {i \in DOMAIN evs : /\ evs[i].kind \in {"setColor", "sendMessage", "endPoll"}
                      /\ evs[i].date = date /\ vm[evs[i].block].alive}
DateIsClosed ==
  [][now' = now => Cardinality(Asked(events', now)) <= Cardinality(Asked(events, now))]_vars

(* The equilibrium is only announced when no living machine has anything   *)
(* left to do or to ask for.                                               *)
NothingToDo(b) == \A i \in DOMAIN toVM[b] : toVM[b][i].type = "pause"
NothingAsked(b) == \A i \in DOMAIN fromVM[b] : fromVM[b][i].type \in {"workEnd", "timeInfo"}
EquilibriumIsReal ==
  [][(processed /\ ~processed') => \A b \in Alive : NothingToDo(b) /\ NothingAsked(b)]_vars

(* The machines always come to an equilibrium that is announced, unless    *)
(* the user or the debugger leaves the simulation paused.                  *)
ComesToRest ==
  <>[](phase \in {"paused", "crashed"} \/ debug.break # "none" \/ (events = <<>> /\ ~processed))
=============================================================================
