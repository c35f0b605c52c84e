------------------------------- MODULE Windows -------------------------------
(***************************************************************************)
(* The two sliding windows of the viewer and the keys (interface.cpp,       *)
(* openglViewer.cpp): the main window and the window of the debugger with   *)
(* its input line.  A key goes to the input line while it has the focus,    *)
(* and is a command of the viewer otherwise; both may change the mode of    *)
(* the scheduler.  Of the geometry of a window there remain the level it is *)
(* slid to and which of its two buttons answers.                            *)
(***************************************************************************)
EXTENDS Integers

VARIABLES main, debug,  \* the two windows
          mode,         \* Scheduler::schedulerMode
          hasFocus,     \* GlutInputWindow::hasFocus
          text          \* GlutInputWindow::text is not empty

windows == <<main, debug>>
input   == <<mode, hasFocus, text>>
vars    == <<windows, input>>

Modes == {"realtime", "fastest", "debug"}
Panel == [openingLevel : {0, 1}, buttonOpen : BOOLEAN, buttonClose : BOOLEAN]

-----------------------------------------------------------------------------
(* The windows slide open and shut *)

SlideOpen(w)  == [w EXCEPT !.openingLevel = @ + 1,
                           !.buttonOpen = FALSE, !.buttonClose = TRUE]
SlideClose(w) == [w EXCEPT !.openingLevel = @ - 1,
                           !.buttonOpen = TRUE, !.buttonClose = FALSE]

\* A click is released over one of the two buttons: one that is not active
\* does not answer, and the click goes on to what lies behind.
ClickButton ==
  /\ \/ /\ main.buttonOpen   /\ main' = SlideOpen(main)    /\ debug' = debug
     \/ /\ main.buttonClose  /\ main' = SlideClose(main)   /\ debug' = debug
     \/ /\ debug.buttonOpen  /\ debug' = SlideOpen(debug)  /\ main' = main
     \/ /\ debug.buttonClose /\ debug' = SlideClose(debug) /\ main' = main
  /\ UNCHANGED input

-----------------------------------------------------------------------------
(* The debugger's input line *)

\* Mutant: a click gives the focus whatever the mode is.
ClickInputAnyMode ==
  /\ debug.openingLevel = 1 /\ hasFocus' = TRUE /\ UNCHANGED <<windows, mode, text>>

\* A press or a release of the left button on the input line: the window gives
\* it the focus only in the debug mode of the scheduler.
ClickInput ==
  /\ debug.openingLevel = 1
  /\ hasFocus' = (mode = "debug")
  /\ UNCHANGED <<windows, mode, text>>

\* Scheduler::debug: run and step go on in real time and, like help, give up
\* the focus; of any other command nothing is done.
Command == \/ hasFocus' = FALSE /\ mode' = "realtime"
           \/ hasFocus' = FALSE /\ mode' = mode
           \/ UNCHANGED <<hasFocus, mode>>

\* A key goes to the input line while it has the focus: a letter or a
\* correction, escape, or the end of a command that is not empty.
Type ==
  /\ hasFocus
  /\ \/ text' \in BOOLEAN /\ (text \/ text') /\ UNCHANGED <<mode, hasFocus>>
     \/ hasFocus' = FALSE /\ UNCHANGED <<mode, text>>
     \/ text /\ text' = FALSE /\ Command
  /\ UNCHANGED windows

\* Without the focus the same keys are the viewer's commands: r, R, d and i.
\* Mutant: the key always opens.
OpenCloseOnlyOpens == SlideOpen(main)

OpenClose == IF main.buttonOpen THEN SlideOpen(main) ELSE SlideClose(main)

Key ==
  /\ ~hasFocus
  /\ \/ mode' \in Modes /\ main' = main
     \/ main' = OpenClose /\ mode' = mode
  /\ UNCHANGED <<debug, hasFocus, text>>

-----------------------------------------------------------------------------

NewPanel == [openingLevel |-> 0, buttonOpen |-> TRUE, buttonClose |-> FALSE]

Init ==
  /\ main = NewPanel /\ debug = NewPanel
  /\ mode = "realtime" /\ hasFocus = FALSE /\ text = FALSE

Next == ClickButton \/ ClickInput \/ Type \/ Key

Spec == Init /\ [][Next]_vars

-----------------------------------------------------------------------------
(* Properties *)

\* A window is slid open exactly when its button to close it is the one that
\* answers, by clicks and by keys (interface.cpp:240, 261, 396).
PanelsAgree ==
  \A w \in {main, debug} : w \in Panel /\ w.buttonClose = (w.openingLevel = 1)
                                      /\ w.buttonOpen = ~w.buttonClose

\* What is typed goes to the input line only in the debug mode: out of it the
\* keys are the viewer's (interface.cpp:413, 430, scheduler.cpp:148).
TypedInDebugMode == hasFocus => mode = "debug"
=============================================================================
