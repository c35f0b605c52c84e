------------------------- MODULE CountingSemaphore -------------------------
(***************************************************************************)
(* What a semaphore promises: a signal is one permit, a wait returns by    *)
(* taking one, and no permit is made up or lost.                           *)
(***************************************************************************)
EXTENDS Naturals

CONSTANTS Thread, MaxSignals

VARIABLES permits, waiting, signals

cvars == <<permits, waiting, signals>>

CInit == permits = 0 /\ waiting = {} /\ signals = 0

CallWait(t) ==
  /\ t \notin waiting
  /\ waiting' = waiting \cup {t}
  /\ UNCHANGED <<permits, signals>>

ReturnFromWait(t) ==
  /\ t \in waiting /\ permits > 0
  /\ permits' = permits - 1
  /\ waiting' = waiting \ {t}
  /\ UNCHANGED signals

Signal(t) ==
  /\ t \notin waiting /\ signals < MaxSignals
  /\ permits' = permits + 1
  /\ signals' = signals + 1
  /\ UNCHANGED waiting

CNext == \E t \in Thread : CallWait(t) \/ ReturnFromWait(t) \/ Signal(t)

CSpec == CInit /\ [][CNext]_cvars
=============================================================================
