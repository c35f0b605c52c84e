------------------------ MODULE LightweightSemaphore ------------------------
(***************************************************************************)
(* LightweightSemaphore of sema.h, on which the scheduler thread waits     *)
(* until Scheduler::start: an atomic counter, and a semaphore of the       *)
(* operating system for the threads that find it empty.  One step is one   *)
(* atomic access.  signal() is called with its default count of 1.         *)
(***************************************************************************)
EXTENDS Integers, FiniteSets

CONSTANTS
  Thread,
  Spin,        \* turns of waitWithPartialSpinning, 10000 in the code
  MaxSignals   \* bound: calls of signal()

ASSUME SemaphoreAssumption == IsFiniteSet(Thread) /\ Spin \in Nat /\ MaxSignals \in Nat

VARIABLES
  m_count,   \* signals, minus the threads that have taken or wait for one
  m_sema,    \* value of the semaphore of the operating system
  pc,        \* where each thread is
  oldCount,  \* its local copy of m_count
  spin,      \* turns it has left
  signals    \* calls of signal() so far

vars == <<m_count, m_sema, pc, oldCount, spin, signals>>

Init ==
  /\ m_count = 0 /\ m_sema = 0
  /\ pc = [t \in Thread |-> "idle"]
  /\ oldCount = [t \in Thread |-> 0]
  /\ spin = [t \in Thread |-> 0]
  /\ signals = 0

Go(t, from, to) == pc[t] = from /\ pc' = [pc EXCEPT ![t] = to]

(* wait(): tryWait() first, that is one turn more than Spin. *)
Wait(t) ==
  /\ Go(t, "idle", "load")
  /\ spin' = [spin EXCEPT ![t] = Spin]
  /\ UNCHANGED <<m_count, m_sema, oldCount, signals>>

(* m_count.load(), then the exchange if it was positive. *)
Load(t) ==
  /\ Go(t, "load", IF m_count > 0 THEN "exchange" ELSE "turn")
  /\ oldCount' = [oldCount EXCEPT ![t] = m_count]
  /\ UNCHANGED <<m_count, m_sema, spin, signals>>

StillMutant(t) == TRUE  \* stores without comparing

Still(t) == m_count = oldCount[t]

(* m_count.compare_exchange_strong(oldCount, oldCount - 1) *)
Exchange(t) ==
  \/ /\ Still(t)
     /\ Go(t, "exchange", "idle")
     /\ m_count' = oldCount[t] - 1
     /\ UNCHANGED <<m_sema, oldCount, spin, signals>>
  \/ /\ m_count # oldCount[t]
     /\ Go(t, "exchange", "turn")
     /\ UNCHANGED <<m_count, m_sema, oldCount, spin, signals>>

(* while (spin--) *)
Turn(t) ==
  /\ Go(t, "turn", IF spin[t] > 0 THEN "load" ELSE "subtract")
  /\ spin' = [spin EXCEPT ![t] = IF @ > 0 THEN @ - 1 ELSE 0]
  /\ UNCHANGED <<m_count, m_sema, oldCount, signals>>

(* m_count.fetch_sub(1), and to the operating system if nothing was left. *)
Subtract(t) ==
  /\ Go(t, "subtract", IF m_count <= 0 THEN "blocked" ELSE "idle")
  /\ m_count' = m_count - 1
  /\ UNCHANGED <<m_sema, oldCount, spin, signals>>

(* m_sema.wait() returns. *)
Wake(t) ==
  /\ Go(t, "blocked", "idle")
  /\ m_sema > 0
  /\ m_sema' = m_sema - 1
  /\ UNCHANGED <<m_count, oldCount, spin, signals>>

MustReleaseMutant == m_count <= 0  \* one too early

MustReleaseLate == m_count < -1  \* one too late

(* toRelease, the smaller of -oldCount and 1, is positive. *)
MustRelease == m_count < 0

(* signal(): m_count.fetch_add(1), then m_sema.signal() if a thread waits. *)
Signal(t) ==
  /\ signals < MaxSignals
  /\ Go(t, "idle", IF MustRelease THEN "release" ELSE "idle")
  /\ m_count' = m_count + 1
  /\ signals' = signals + 1
  /\ UNCHANGED <<m_sema, oldCount, spin>>

Release(t) ==
  /\ Go(t, "release", "idle")
  /\ m_sema' = m_sema + 1
  /\ UNCHANGED <<m_count, oldCount, spin, signals>>

Inside(t) ==
  Load(t) \/ Exchange(t) \/ Turn(t) \/ Subtract(t) \/ Wake(t) \/ Release(t)

Next == \E t \in Thread : Wait(t) \/ Signal(t) \/ Inside(t)

Spec == Init /\ [][Next]_vars

(* A thread inside wait() or signal() goes on. *)
FairSpec == Spec /\ \A t \in Thread : WF_vars(Inside(t))

-----------------------------------------------------------------------------
(* Properties. *)

At(p) == {t \in Thread : pc[t] = p}

InWait == {t \in Thread : pc[t] \notin {"idle", "release"}}

Position == {"idle", "load", "exchange", "turn", "subtract", "blocked", "release"}

(* Types of the members of sema.h:171-172 and of the locals of wait(). *)
SemaTypeOK ==
  /\ m_count \in Int /\ m_sema \in Nat /\ signals \in Nat
  /\ pc \in [Thread -> Position]
  /\ oldCount \in [Thread -> Int]
  /\ spin \in [Thread -> Nat]

(* A negative m_count counts the threads that block and for which no       *)
(* release is on its way: none is forgotten and none is released twice     *)
(* (sema.h:188-192, 215-220).                                              *)
EveryBlockedIsCounted ==
  Cardinality(At("blocked")) =
    m_sema + Cardinality(At("release")) + (IF m_count < 0 THEN -m_count ELSE 0)

(* The exchange only ever takes a positive count down (sema.h:184).        *)
ExchangesPositive == \A t \in At("exchange") : oldCount[t] > 0

SemaInv == SemaTypeOK /\ EveryBlockedIsCounted /\ ExchangesPositive

(* It is a counting semaphore. *)
CS == INSTANCE CountingSemaphore
        WITH permits <- m_count + Cardinality(At("blocked")), waiting <- InWait

ImplementsCountingSemaphore == CS!CSpec

(* No wake-up is lost: it does not stay so that a thread waits and there  *)
(* is a permit for it (sema.h:207-221).                                    *)
NoLostWakeup ==
  []<>(InWait = {} \/ m_count + Cardinality(At("blocked")) = 0)
=============================================================================
