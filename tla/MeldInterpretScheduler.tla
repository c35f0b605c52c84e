----------------------- MODULE MeldInterpretScheduler -----------------------
(***************************************************************************)
(* The scheduler of Meld programs beside the one of block codes.  Its      *)
(* thread runs MeldInterpretScheduler::startPaused: REALTIME has the loop  *)
(* of CPPScheduler, FASTEST three nested loops of its own.  Its stop()     *)
(* detaches the thread, and the thread does not clear schedulerThread.     *)
(* A machine always has work, so equilibrium() is false.  The debugging    *)
(* mode, which waits for three starts, is not modelled, and nothing sets   *)
(* the state to PAUSED.                                                    *)
(***************************************************************************)
EXTENDS SchedulerThreads

(* SemWaitOrReadDebugMessage() *)
SemWait ==
  /\ SGo("start", "starting")
  /\ obj.starts > 0
  /\ obj' = [obj EXCEPT !.starts = @ - 1]
  /\ UNCHANGED <<mapVars, u, history, crashed, clock>>

(* It runs whatever the state was. *)
MeldRun ==
  /\ SGo("starting", "choose")
  /\ obj' = [obj EXCEPT !.state = "RUNNING"]
  /\ UNCHANGED <<mapVars, u, history, crashed, clock>>

MeldSwitch ==
  /\ ~crashed /\ s.pc = "choose"
  /\ s' = IF obj.mode = "FASTEST" THEN [s EXCEPT !.pc = "turn", !.loop = "MELD"]
          ELSE [s EXCEPT !.pc = "test", !.loop = "REALTIME"]
  /\ UNCHANGED <<mapVars, obj, u, history, crashed, clock>>

(* while (state != ENDED) *)
Turn ==
  /\ SGo("turn", IF obj.state = "ENDED" THEN "stats" ELSE "drain")
  /\ UNCHANGED <<mapVars, obj, u, history, crashed, clock>>

(* The innermost loop takes the first event as long as there is one; with  *)
(* an infinite length also when there is none, through a pointer that is   *)
(* not one.                                                                *)
Drain ==
  /\ SGo("drain", IF Empty THEN "drained" ELSE "take")
  /\ crashed' \in IF Empty /\ cmd.infinite THEN {TRUE}
                  ELSE IF lock = "user" THEN BOOLEAN ELSE {FALSE}
  /\ UNCHANGED <<mapVars, obj, u, history, clock>>

(* Bug: an empty list is not the end. *)
DrainedNever ==
  /\ SGo("drained", IF obj.terminate THEN "turn" ELSE "drain")
  /\ UNCHANGED <<mapVars, obj, u, history, crashed, clock>>

(* Out of it, an empty list ends the simulation, terminate this turn only: *)
(* equilibrium() does not.                                                 *)
Drained ==
  /\ SGo("drained", IF Empty \/ obj.terminate THEN "turn" ELSE "drain")
  /\ obj' = IF Empty THEN [obj EXCEPT !.state = "ENDED"] ELSE obj
  /\ RacesWithInsertion
  /\ UNCHANGED <<mapVars, u, history, clock>>

MeldSchedulerStep == SemWait \/ MeldRun \/ MeldSwitch \/ Turn \/ Drain \/ Drained

(* stop(): with a window the thread is let go, a NULL pointer used if it   *)
(* already was.                                                            *)
Stopped ==
  /\ cmd.meld
  /\ crashed' = (cmd.gui /\ ~obj.thread)
  /\ obj' = [obj EXCEPT !.state = "ENDED", !.thread = @ /\ ~cmd.gui]
  /\ UNCHANGED <<mapVars, s, history, clock>>

MeldKeyStop ==
  /\ ~crashed /\ u.pc = "loop" /\ u.keys < MaxKeys
  /\ u' = [u EXCEPT !.keys = @ + 1]
  /\ Stopped

MeldStop == UGo("stop", "delete") /\ Stopped

AnyNext == Next \/ MeldSchedulerStep \/ MeldKeyStop \/ MeldStop

(* Both threads run, as in FairSpec. *)
AnyFairSpec ==
  /\ Init /\ [][AnyNext]_vars
  /\ WF_vars(SchedulerStep \/ MeldSchedulerStep) /\ WF_vars(MainStep \/ MeldStop)
  /\ WF_vars(Tick)

AnySpec == Init /\ [][AnyNext]_vars

-----------------------------------------------------------------------------
(* Without a window a Meld simulation ends in order: schedulerThread is    *)
(* not cleared before the main thread has joined it, nothing else touches  *)
(* the list (meldInterpretScheduler.cpp:255-292, openglViewer.cpp:512).    *)
MeldJoins == cmd.meld /\ ~cmd.gui /\ ~cmd.infinite => ~crashed
=============================================================================
