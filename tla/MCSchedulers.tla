---------------------------- MODULE MCSchedulers ----------------------------
(***************************************************************************)
(* The schedulers and their threads, for TLC: of block codes and of Meld   *)
(* programs, of Meld machines in processes, and the debugger's prompt.  A  *)
(* simulation has one of them, named by scheduler; the variables of the    *)
(* others keep the value they start with.                                  *)
(***************************************************************************)
EXTENDS MeldInterpretScheduler

CONSTANTS Schedulers,  \* the schedulers that a behaviour may have
          e1, e2, e3

VARIABLES
  scheduler,
  date, events, vm, fromVM, toVM, machine, minReached, phase, processed, debug, inputs,
  prompt, queue, cache, numberExpected, okayToBroadcastPause, wire, node, said, handled,
  timeBreak, typed

-----------------------------------------------------------------------------
(* The threads of the scheduler, with and without a window.                *)
MCEv == {e1, e2, e3}
MCFirst == {e1}
MCDelay == {0, 1}

Window == [gui |-> TRUE, autoStart |-> FALSE, autoStop |-> TRUE, infinite |-> FALSE,
           mode |-> "REALTIME", meld |-> FALSE]
WindowForever == [Window EXCEPT !.infinite = TRUE]
Terminal == [gui |-> FALSE, autoStart |-> TRUE, autoStop |-> FALSE, infinite |-> FALSE,
             mode |-> "FASTEST", meld |-> FALSE]
MeldWindow == [Window EXCEPT !.meld = TRUE]
MeldTerminal == [Terminal EXCEPT !.meld = TRUE]
MeldForever == [MeldTerminal EXCEPT !.infinite = TRUE]

Everything == {WindowForever, Terminal, MeldWindow, MeldTerminal, MeldForever}
OnlyWindow == {Window}

-----------------------------------------------------------------------------
(* Two machines wired to each other; the first asks for two events.        *)
Two == {1, 2}
Wired == [b \in Two |-> Two \ {b}]
Drawn == [b \in Two |-> <<2, 1>>]
Asks == <<2, 1>>
Process ==
  INSTANCE MeldProcess WITH VM <- Two, Peer <- Wired, Draw <- Drawn, Budget <- Asks, Inputs <- 1,
    now <- date

(* Two machines that stop or answer in one piece or more.                  *)
Debugger ==
  INSTANCE MeldDebugger WITH Node <- Two, NoNode <- 9, Room <- 2, Lengths <- {1, 2, 4},
    Answers <- {1, 3}, Commands <- 2, MaxPauses <- 2, machine <- node

-----------------------------------------------------------------------------
processVars == <<date, events, vm, fromVM, toVM, machine, minReached, phase, processed, debug, inputs>>
debuggerVars == <<prompt, queue, cache, numberExpected, okayToBroadcastPause, wire, node, said, handled,
                  timeBreak, typed>>
allVars == <<scheduler, vars, processVars, debuggerVars>>

Threads == scheduler = "threads" /\ UNCHANGED <<scheduler, processVars, debuggerVars>>
Machines == scheduler = "process" /\ UNCHANGED <<scheduler, vars, debuggerVars>>
Prompt == scheduler = "debugger" /\ UNCHANGED <<scheduler, vars, processVars>>

(* The scheduler that runs starts anywhere, the others at one place.       *)
AllInit ==
  /\ scheduler \in Schedulers
  /\ Init /\ (scheduler # "threads" => cmd = CHOOSE c \in CommandLine : TRUE)
  /\ Process!Init /\ (scheduler # "process" => ~debug.on)
  /\ Debugger!Init

AllNext ==
  \/ Threads /\ AnyNext
  \/ Machines /\ Process!Next
  \/ Prompt /\ Debugger!Next

AllSpec == AllInit /\ [][AllNext]_allVars

(* The fairness of each of them, on the steps it takes when it runs.       *)
FairAllSpec ==
  /\ AllSpec
  /\ WF_allVars(Threads /\ (SchedulerStep \/ MeldSchedulerStep))
  /\ WF_allVars(Threads /\ (MainStep \/ MeldStop))
  /\ WF_allVars(Threads /\ Tick)
  /\ []<>~(scheduler = "process" /\ Process!SchedulerDue) \/ []<><<Machines /\ Process!Scheduler>>_allVars
  /\ \A b \in Two : \/ []<>~(scheduler = "process" /\ Process!MachineDue(b))
                    \/ []<><<Machines /\ (Process!Work(b) \/ Process!Tell(b))>>_allVars
  /\ []<>~Debugger!ReceiveDue \/ []<><<Prompt /\ Debugger!ReceiveMsg>>_allVars
  /\ \A n \in Two :
       /\ []<>~Debugger!AnswerDue(n) \/ []<><<Prompt /\ Debugger!Answer(n)>>_allVars
       /\ []<>~Debugger!InsertDue(n) \/ []<><<Prompt /\ Debugger!MessageQueueInsert(n)>>_allVars

-----------------------------------------------------------------------------
(* A simulation in a terminal ends; one of machines comes to an equilibrium*)
(* that is announced, unless it is left paused; and the prompt comes back. *)
AllFinish ==
  /\ scheduler = "threads" => Finishes
  /\ scheduler = "process" => Process!ComesToRest
  /\ Debugger!PromptComesBack

(* Once the main thread has left the GLUT loop the simulator exits.        *)
QuitAlwaysEnds == (scheduler = "threads" /\ u.pc = "stop") ~> (u.pc = "exit" \/ crashed)

(* The simulator and its machines agree: events come in the order of their *)
(* draws, nothing is added to a date once it has come, the equilibrium is  *)
(* announced when no machine has anything left to do, and the debugger     *)
(* handles the messages of the machines whole.                             *)
MachinesAgree ==
  /\ [][scheduler = "process" => Process!EventsInOrder']_processVars
  /\ Process!DateIsClosed
  /\ Process!EquilibriumIsReal
  /\ Debugger!OnlyWholeMessages
=============================================================================
