-------------------------- MODULE SchedulerThreads --------------------------
(***************************************************************************)
(* The two threads of a simulation: the scheduler thread, which runs       *)
(* CPPScheduler::startPaused, and the main thread, which starts it, runs   *)
(* the GLUT loop or waits, and deletes the scheduler.  A step is an access *)
(* to what they share.  Handlers are abstract: the consumption of an event *)
(* schedules at most one more.                                             *)
(***************************************************************************)
EXTENDS EventList, FiniteSets, SequencesExt

CONSTANTS
  Ev, First,     \* events of a run; those the configuration file schedules
  Delay,         \* dates between an event and the one its handler schedules
  NULL,
  CommandLine,   \* the command lines a run starts with
  MaxKeys        \* bound: keys pressed and menu choices made

ASSUME ThreadsAssumption ==
  /\ IsFiniteSet(Ev) /\ First \subseteq Ev /\ NULL \notin Ev \cup {"scheduler", "user"}
  /\ Delay \subseteq Nat
  /\ \A c \in CommandLine :
       /\ {c.gui, c.autoStart, c.autoStop, c.infinite, c.meld} \subseteq BOOLEAN
       /\ c.mode \in (IF c.gui THEN {"FASTEST", "REALTIME"} ELSE {"FASTEST"})
  /\ MaxKeys \in Nat

VARIABLES
  cmd,             \* GUIisEnabled (no -t), autoStart (-r, -R), autoStop (-x),
                   \* infinite (-s inf), schedulerMode after loadScheduler,
                   \* meld (the scheduler is of MeldInterpretScheduler)
  eventsMap, now,  \* Scheduler::eventsMap, currentDate
  lock,            \* holder of mutex_schedule
  obj,             \* the other members of the Scheduler object
  s, u,            \* program counter and locals, scheduler and main thread
  fresh,           \* events nobody has created yet
  consumed,        \* events consumed
  tooLate,         \* an event was refused for being after maximumDate
  crashed,         \* freed memory, NULL or torn data used, or std::terminate
  clock            \* time since the start, in the dates REALTIME compares

mapVars == <<eventsMap, now, lock>>
history == <<cmd, fresh, consumed, tooLate>>  \* and what never changes
vars == <<mapVars, obj, s, u, history, crashed, clock>>

Dated(e, d) == [ev |-> e, date |-> d]

Init ==
  /\ cmd \in CommandLine
  /\ eventsMap = [d \in Time |-> IF d = 0 THEN SetToSeq(First) ELSE <<>>]
  /\ now = 0 /\ lock = NULL
  /\ obj = [mode |-> cmd.mode, state |-> "NOTREADY", terminate |-> FALSE, starts |-> 0,
            thread |-> TRUE,  \* schedulerThread is set
            left   |-> FALSE, \* glutLeaveMainLoop was called
            alive  |-> TRUE]
  /\ s = [pc |-> IF cmd.meld THEN "start" ELSE "wait", pev |-> NULL, new |-> NULL, loop |-> NULL, limit |-> 0]
  /\ u = [pc |-> "begin", new |-> NULL, keys |-> 0,
          joined |-> FALSE, \* the thread was joined
          asked |-> FALSE]  \* a start was asked for
  /\ fresh = Ev \ First /\ consumed = {} /\ tooLate = FALSE
  /\ crashed = FALSE
  /\ clock = 0

-----------------------------------------------------------------------------
(* Scheduler::schedule: the tests of the date, outside the lock, then the  *)
(* insertion, inside.                                                      *)

Insertable(d) == d \in now..MaximumDate

Insert(p) == [eventsMap EXCEPT ![p.date] = Append(@, p.ev)]

(* mutex_schedule.lock() *)
Locks(t) == lock = NULL /\ lock' = t

(* What the scheduler thread does to the map it does without the lock: if  *)
(* the main thread is inside insert() meanwhile, anything may happen.      *)
RacesWithInsertion == crashed' \in IF lock = "user" THEN BOOLEAN ELSE {FALSE}

-----------------------------------------------------------------------------
(* The scheduler thread. *)

SGo(from, to) == ~crashed /\ s.pc = from /\ s' = [s EXCEPT !.pc = to]

Empty == \A d \in Time : eventsMap[d] = <<>>

(* sem_schedulerStart->wait() *)
Awake ==
  /\ SGo("wait", "check")
  /\ obj.starts > 0
  /\ obj' = [obj EXCEPT !.starts = @ - 1]
  /\ UNCHANGED <<mapVars, u, history, crashed, clock>>

CancelledMutant == FALSE  \* state not looked at

(* Simulation terminated before the scheduler started. *)
Cancelled == obj.state = "ENDED"

CheckState ==
  /\ SGo("check", IF Cancelled THEN "terminate" ELSE "run")
  /\ UNCHANGED <<mapVars, obj, u, history, crashed, clock>>

Run ==
  /\ SGo("run", "switch")
  /\ obj' = [obj EXCEPT !.state = "RUNNING"]
  /\ UNCHANGED <<mapVars, u, history, crashed, clock>>

(* switch (schedulerMode): DEBUG, which stop() sets, has no loop. *)
Switch ==
  /\ ~crashed /\ s.pc = "switch"
  /\ s' = [s EXCEPT !.pc = IF obj.mode = "DEBUG" THEN "stats" ELSE "test",
                    !.loop = obj.mode]
  /\ UNCHANGED <<mapVars, obj, u, history, crashed, clock>>

FirstEvent == CHOOSE p \in {Dated(eventsMap[d][1], d) : d \in {d \in Time : eventsMap[d] # <<>>}} :
                IsFirstDate(eventsMap, p.date)

(* The loop ends with an empty list unless its length is infinite; in      *)
(* REALTIME, also when state is ENDED.                                     *)
LoopEnds == ~cmd.infinite /\ (Empty \/ (s.loop = "REALTIME" /\ obj.state = "ENDED"))

Test ==
  /\ ~crashed /\ s.pc = "test"
  /\ s' = IF LoopEnds THEN [s EXCEPT !.pc = "stats"]
          ELSE IF Empty THEN [s EXCEPT !.pc = "again"]
          ELSE IF s.loop = "FASTEST" THEN [s EXCEPT !.pc = "take"]
          ELSE [s EXCEPT !.pc = "inner", !.limit = clock, !.pev = FirstEvent]
  /\ RacesWithInsertion
  /\ UNCHANGED <<mapVars, obj, u, history, clock>>

(* The inner loop of REALTIME tests the date of pev, which after its first *)
(* turn is the event just consumed, not the one it will consume.           *)
InTime == s.pev.date <= s.limit

Inner ==
  /\ SGo("inner", IF ~Empty /\ InTime THEN "take" ELSE "again")
  /\ RacesWithInsertion
  /\ UNCHANGED <<mapVars, obj, u, history, clock>>

Take ==
  /\ ~crashed /\ s.pc = "take"
  /\ s' = [s EXCEPT !.pc = "consume", !.pev = FirstEvent]
  /\ now' = FirstEvent.date
  /\ RacesWithInsertion
  /\ UNCHANGED <<eventsMap, lock, obj, u, history, clock>>

(* pev->consume(): the handler schedules nothing, or an event some time    *)
(* after now, which is refused if it is after maximumDate.                 *)
Consume ==
  /\ ~crashed /\ s.pc = "consume"
  /\ consumed' = consumed \cup {s.pev.ev}
  /\ \/ s' = [s EXCEPT !.pc = "erase"] /\ UNCHANGED <<fresh, tooLate>>
     \/ \E e \in fresh, delay \in Delay :
          /\ fresh' = fresh \ {e}
          /\ tooLate' = (tooLate \/ ~Insertable(now + delay))
          /\ s' = IF Insertable(now + delay)
                  THEN [s EXCEPT !.pc = "lock", !.new = Dated(e, now + delay)]
                  ELSE [s EXCEPT !.pc = "erase"]
  /\ UNCHANGED <<cmd, mapVars, obj, u, crashed, clock>>

HandlerLocks ==
  /\ SGo("lock", "insert")
  /\ Locks("scheduler")
  /\ UNCHANGED <<eventsMap, now, obj, u, history, crashed, clock>>

HandlerInserts ==
  /\ SGo("insert", "erase")
  /\ eventsMap' = Insert(s.new) /\ lock' = NULL
  /\ UNCHANGED <<now, obj, u, history, crashed, clock>>

EraseMutant(p) == [eventsMap EXCEPT ![p.date] = <<>>]  \* by key

(* eventsMap.erase(first): the iterator still is at the event taken.       *)
Place(p) == CHOOSE i \in DOMAIN eventsMap[p.date] : eventsMap[p.date][i] = p.ev

Erase(p) == [eventsMap EXCEPT ![p.date] = RemoveAt(@, Place(p))]

AfterErase == [REALTIME |-> "inner", FASTEST |-> "again", MELD |-> "drain"]

EraseTaken ==
  /\ SGo("erase", AfterErase[s.loop])
  /\ eventsMap' = Erase(s.pev)
  /\ RacesWithInsertion
  /\ UNCHANGED <<now, lock, obj, u, history, clock>>

StopsMutant == FALSE  \* terminate not looked at

Stops == obj.terminate

Again ==
  /\ SGo("again", IF Stops THEN "stats" ELSE "test")
  /\ UNCHANGED <<mapVars, obj, u, history, crashed, clock>>

(* Out of the loops; glutLeaveMainLoop() if autoStop. *)
Stats ==
  /\ SGo("stats", "terminate")
  /\ obj' = [obj EXCEPT !.left = @ \/ (cmd.autoStop /\ ~obj.terminate)]
  /\ UNCHANGED <<mapVars, u, history, crashed, clock>>

Terminate ==
  /\ SGo("terminate", IF cmd.meld THEN "done" ELSE "clear")
  /\ obj' = [obj EXCEPT !.terminate = TRUE]
  /\ UNCHANGED <<mapVars, u, history, crashed, clock>>

(* schedulerThread = NULL, a write to freed memory if the main thread has  *)
(* deleted the scheduler.                                                  *)
ClearThread ==
  /\ SGo("clear", "done")
  /\ obj' = [obj EXCEPT !.thread = FALSE]
  /\ crashed' \in IF obj.alive THEN {FALSE} ELSE BOOLEAN
  /\ UNCHANGED <<mapVars, u, history, clock>>

SchedulerStep ==
  \/ Awake \/ CheckState \/ Run \/ Switch \/ Test \/ Inner \/ Take \/ Consume
  \/ HandlerLocks \/ HandlerInserts \/ EraseTaken \/ Again \/ Stats
  \/ Terminate \/ ClearThread

(* The clock that REALTIME follows. *)
Tick ==
  /\ ~crashed
  /\ s.loop = "REALTIME" /\ clock < MaximumDate
  /\ clock' = clock + 1
  /\ UNCHANGED <<mapVars, obj, s, u, history, crashed>>

-----------------------------------------------------------------------------
(* The main thread. *)

UGo(from, to) == ~crashed /\ u.pc = from /\ u' = [u EXCEPT !.pc = to]

(* Scheduler::start *)
Started(o, mode) == [o EXCEPT !.mode = mode, !.starts = @ + 1]

(* Simulator::startSimulation: NOTSTARTED, and start() with -r or -R. *)
StartSimulation ==
  /\ ~crashed /\ u.pc = "begin"
  /\ u' = [u EXCEPT !.pc = IF cmd.gui THEN "loop" ELSE "run", !.asked = cmd.autoStart]
  /\ LET ready == [obj EXCEPT !.state = "NOTSTARTED"]
     IN obj' = IF cmd.autoStart THEN Started(ready, obj.mode) ELSE ready
  /\ UNCHANGED <<mapVars, s, history, crashed, clock>>

(* Keys of keyboardFunc: r and R start, d stops, q leaves. *)
KeyStart ==
  /\ ~crashed /\ u.pc = "loop" /\ u.keys < MaxKeys
  /\ u' = [u EXCEPT !.keys = @ + 1, !.asked = TRUE]
  /\ \E mode \in {"REALTIME", "FASTEST"} : obj' = Started(obj, mode)
  /\ UNCHANGED <<mapVars, s, history, crashed, clock>>

KeyStop ==
  /\ ~crashed /\ u.pc = "loop" /\ u.keys < MaxKeys /\ ~cmd.meld
  /\ u' = [u EXCEPT !.keys = @ + 1]
  /\ obj' = [obj EXCEPT !.mode = "DEBUG"]
  /\ UNCHANGED <<mapVars, s, history, crashed, clock>>

(* A menu choice or a tap: an event for now(), which schedule() then tests *)
(* against a currentDate that may have moved.                              *)
Click ==
  /\ ~crashed /\ u.pc = "loop" /\ u.keys < MaxKeys
  /\ \E e \in fresh :
       /\ fresh' = fresh \ {e}
       /\ u' = [u EXCEPT !.pc = "date", !.new = Dated(e, now), !.keys = @ + 1]
  /\ UNCHANGED <<cmd, mapVars, obj, s, consumed, tooLate, crashed, clock>>

ClickTestsDate ==
  /\ UGo("date", IF Insertable(u.new.date) THEN "lock" ELSE "loop")
  /\ UNCHANGED <<mapVars, obj, s, history, crashed, clock>>

ClickLocks ==
  /\ UGo("lock", "insert")
  /\ Locks("user")
  /\ UNCHANGED <<eventsMap, now, obj, s, history, crashed, clock>>

ClickInserts ==
  /\ UGo("insert", "loop")
  /\ eventsMap' = Insert(u.new) /\ lock' = NULL
  /\ UNCHANGED <<now, obj, s, history, crashed, clock>>

(* The key q, or the return of the loop after glutLeaveMainLoop(). *)
Quit ==
  /\ UGo("loop", "stop")
  /\ UNCHANGED <<mapVars, obj, s, history, crashed, clock>>

LoopReturns == obj.left /\ Quit

(* GlutContext::mainLoop in terminal mode: start(), then                   *)
(* waitForSchedulerEnd() reads schedulerThread and joins it.               *)
TerminalStart ==
  /\ ~crashed /\ u.pc = "run"
  /\ u' = [u EXCEPT !.pc = "wait", !.asked = TRUE]
  /\ obj' = Started(obj, obj.mode)
  /\ UNCHANGED <<mapVars, s, history, crashed, clock>>

Reads(from, to) ==
  /\ UGo(from, to)
  /\ crashed' = ~obj.thread
  /\ UNCHANGED <<mapVars, obj, s, history, clock>>

JoinsMutant(from, to) ==  \* returns at once
  /\ UGo(from, to)
  /\ UNCHANGED <<mapVars, obj, s, history, crashed, clock>>

Joins(from, to) ==
  /\ ~crashed /\ u.pc = from /\ s.pc = "done"
  /\ u' = [u EXCEPT !.pc = to, !.joined = TRUE]
  /\ UNCHANGED <<mapVars, obj, s, history, crashed, clock>>

TerminalWait == Reads("wait", "join")

TerminalJoined == Joins("join", "stop")

(* s->stop(), then Scheduler::deleteScheduler. *)
Stop ==
  /\ UGo("stop", "delete") /\ ~cmd.meld
  /\ obj' = [obj EXCEPT !.mode = "DEBUG"]
  /\ UNCHANGED <<mapVars, s, history, crashed, clock>>

TestTerminate ==
  /\ UGo("delete", IF obj.terminate THEN "destroy" ELSE "instruct")
  /\ UNCHANGED <<mapVars, obj, s, history, crashed, clock>>

InstructToTerminate ==
  /\ UGo("instruct", "release")
  /\ obj' = [obj EXCEPT !.terminate = TRUE]
  /\ UNCHANGED <<mapVars, s, history, crashed, clock>>

TestNotStarted ==
  /\ UGo("release", IF obj.state = "NOTSTARTED" THEN "end" ELSE "join thread")
  /\ UNCHANGED <<mapVars, obj, s, history, crashed, clock>>

Release ==
  /\ UGo("end", "join thread")
  /\ obj' = Started([obj EXCEPT !.state = "ENDED"], "FASTEST")
  /\ UNCHANGED <<mapVars, s, history, crashed, clock>>

ReadThread == Reads("join thread", "joining")

ThreadJoined == Joins("joining", "destroy")

(* The destructor deletes the std::thread it finds, which calls            *)
(* std::terminate if nobody has joined it.                                 *)
Destroy ==
  /\ UGo("destroy", "exit")
  /\ crashed' = (obj.thread /\ ~u.joined)
  /\ obj' = [obj EXCEPT !.alive = FALSE]
  /\ UNCHANGED <<mapVars, s, history, clock>>

UserChoice == KeyStart \/ KeyStop \/ Click \/ Quit

MainStep ==
  \/ StartSimulation \/ ClickTestsDate \/ ClickLocks \/ ClickInserts
  \/ LoopReturns \/ TerminalStart \/ TerminalWait \/ TerminalJoined
  \/ Stop \/ TestTerminate \/ InstructToTerminate \/ TestNotStarted
  \/ Release \/ ReadThread \/ ThreadJoined \/ Destroy

Next == SchedulerStep \/ MainStep \/ UserChoice \/ Tick

Spec == Init /\ [][Next]_vars

(* Both threads run; the user need not press a key. *)
FairSpec == Spec /\ WF_vars(SchedulerStep) /\ WF_vars(MainStep) /\ WF_vars(Tick)

-----------------------------------------------------------------------------
(* Properties. *)

PC == {"wait", "check", "run", "switch", "test", "inner", "take", "consume", "lock",
       "insert", "erase", "again", "stats", "terminate", "clear", "done",
       "start", "starting", "choose", "turn", "drain", "drained"}  \* MELD

(* Types, and the mutual exclusion that schedule() relies on: the holder   *)
(* of mutex_schedule, and only it, is at its insertion                     *)
(* (scheduler.cpp:87-95).                                                  *)
ThreadsTypeOK ==
  /\ s.pc \in PC
  /\ now \in Time /\ clock \in Time
  /\ \A d \in Time : ToSet(eventsMap[d]) \subseteq Ev \ fresh
  /\ lock = (IF s.pc = "insert" THEN "scheduler" ELSE IF u.pc = "insert" THEN "user" ELSE NULL)

(* Whatever the handler schedules, the event it handles stays the first of *)
(* the list until it is erased: erasing it before or after the handler is  *)
(* the same (cppScheduler.cpp:81-87).  True without a user.                *)
StaysFirst ==
  ~cmd.gui /\ s.pc \in {"lock", "insert", "erase"} =>
    IsFirstDate(eventsMap, s.pev.date) /\ Head(eventsMap[s.pev.date]) = s.pev.ev

(* No event is consumed twice, whatever is inserted between its            *)
(* consumption and its erasure (cppScheduler.cpp:84-87).                   *)
ConsumedOnce == s.pc = "consume" => s.pev.ev \notin consumed

(* In terminal mode the scheduler ends with every event consumed, unless   *)
(* one was refused for its date (cppScheduler.cpp:62, scheduler.h:32).     *)
NoEventLost == ~cmd.gui /\ s.pc = "done" /\ ~tooLate => consumed = Ev \ fresh

(* Leaving a simulation nobody started runs none of it, although           *)
(* deleteScheduler has to wake the scheduler thread (scheduler.h:112-116,  *)
(* cppScheduler.cpp:50).                                                   *)
NothingRunsUnasked == consumed # {} => u.asked

(* A simulation in terminal mode ends (openglViewer.cpp:499-526).          *)
Finishes == cmd.gui \/ <>(u.pc = "exit" \/ crashed)

(* The date never goes back: schedule() is said to ignore an event in the  *)
(* past (scheduler.h:166).                                                 *)
DateNeverGoesBack == [][now' >= now]_vars
=============================================================================
