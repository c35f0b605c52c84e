--------------------- MODULE LightweightSemaphoreProofs ---------------------
(***************************************************************************)
(* The semaphore counts right and implements CountingSemaphore, for any    *)
(* finite set of threads, any spin count and any number of signals.        *)
(***************************************************************************)
EXTENDS LightweightSemaphore, FiniteSetTheorems, TLAPS

USE SemaphoreAssumption

(* The threads at a place form a finite set. *)
LEMMA AtFinite ==
  ASSUME NEW p
  PROVE  /\ IsFiniteSet(At(p))
         /\ Cardinality(At(p)) \in Nat
<1>1. At(p) \subseteq Thread
  BY DEF At
<1> QED
  BY <1>1, FS_Subset, FS_CardinalityType

(* A thread that moves enters one such set and leaves another. *)
LEMMA MoveSets ==
  ASSUME SemaTypeOK, NEW t \in Thread, NEW p, NEW q, Go(t, p, q), p # q
  PROVE  /\ At(p)' = At(p) \ {t} /\ t \in At(p)
         /\ At(q)' = At(q) \cup {t} /\ t \notin At(q)
         /\ \A o : o \notin {p, q} => At(o)' = At(o)
BY DEF Go, At, SemaTypeOK

(* The numbers of threads at each place after a move. *)
LEMMA MoveCounts ==
  ASSUME SemaTypeOK, NEW t \in Thread, NEW p, NEW q, Go(t, p, q), p # q
  PROVE  /\ Cardinality(At(p)') = Cardinality(At(p)) - 1
         /\ Cardinality(At(q)') = Cardinality(At(q)) + 1
         /\ \A o : o \notin {p, q} => Cardinality(At(o)') = Cardinality(At(o))
<1>1. Cardinality(At(p)') = Cardinality(At(p)) - 1
  BY MoveSets, AtFinite, FS_RemoveElement
<1>2. Cardinality(At(q)') = Cardinality(At(q)) + 1
  BY MoveSets, AtFinite, FS_AddElement
<1>3. ASSUME NEW o, o \notin {p, q}
      PROVE  Cardinality(At(o)') = Cardinality(At(o))
  BY <1>3, MoveSets
<1> QED
  BY <1>1, <1>2, <1>3

(* A move keeps the types of pc. *)
LEMMA MoveType ==
  ASSUME SemaTypeOK, NEW t \in Thread, NEW p, NEW q \in Position, Go(t, p, q)
  PROVE  pc' \in [Thread -> Position]
BY DEF SemaTypeOK, Go

(* The invariant holds at the start: nobody is anywhere but idle. *)
LEMMA SemaInit == Init => SemaInv
<1> SUFFICES ASSUME Init PROVE SemaInv
  OBVIOUS
<1>1. SemaTypeOK
  BY DEF Init, SemaTypeOK, Position
<1>2. At("blocked") = {} /\ At("release") = {} /\ At("exchange") = {}
  BY DEF Init, At
<1>3. EveryBlockedIsCounted
  BY <1>2, FS_EmptySet DEF Init, EveryBlockedIsCounted
<1>4. ExchangesPositive
  BY <1>2 DEF ExchangesPositive
<1> QED
  BY <1>1, <1>3, <1>4 DEF SemaInv

(* Each step of a thread keeps the invariant. *)
LEMMA SemaStep ==
  ASSUME SemaInv, NEW t \in Thread, Wait(t) \/ Signal(t) \/ Inside(t)
  PROVE  SemaInv'
<1> USE DEF SemaInv
<1>0. /\ \A p : Cardinality(At(p)) \in Nat
      /\ m_count \in Int /\ m_sema \in Nat
  BY AtFinite DEF SemaTypeOK
<1>1. CASE Wait(t)
  <2>1. SemaTypeOK'
    BY <1>1, MoveType DEF Wait, SemaTypeOK, Position
  <2>2. Go(t, "idle", "load")
    BY <1>1 DEF Wait
  <2>3. EveryBlockedIsCounted'
    BY <1>1, <2>2, MoveCounts DEF Wait, EveryBlockedIsCounted
  <2>4. ExchangesPositive'
    BY <1>1, <2>2, MoveSets DEF Wait, ExchangesPositive
  <2> QED
    BY <2>1, <2>3, <2>4
<1>2. CASE Signal(t)
  <2>1. PICK q \in {"release", "idle"} : q = (IF m_count < 0 THEN "release" ELSE "idle") /\ Go(t, "idle", q)
    BY <1>2 DEF Signal, MustRelease
  <2>2. SemaTypeOK'
    BY <1>2, <2>1, MoveType DEF Signal, SemaTypeOK, Position
  <2>3. CASE m_count < 0
    <3>1. Cardinality(At("release")') = Cardinality(At("release")) + 1
          /\ At("blocked")' = At("blocked") /\ At("exchange")' = At("exchange")
      BY <2>1, <2>3, MoveCounts, MoveSets
    <3> QED
      BY <1>0, <1>2, <2>2, <2>3, <3>1 DEF Signal, EveryBlockedIsCounted, ExchangesPositive
  <2>4. CASE ~(m_count < 0)
    <3>1. pc' = pc
      BY <2>1, <2>4 DEF Go, SemaTypeOK
    <3>2. \A o : At(o)' = At(o)
      BY <3>1 DEF At
    <3> QED
      BY <1>0, <1>2, <2>2, <2>4, <3>2 DEF Signal, EveryBlockedIsCounted, ExchangesPositive
  <2> QED
    BY <2>3, <2>4
<1>3. CASE Load(t)
  <2>1. PICK q \in {"exchange", "turn"} : q = (IF m_count > 0 THEN "exchange" ELSE "turn") /\ Go(t, "load", q)
    BY <1>3 DEF Load
  <2>2. SemaTypeOK'
    BY <1>3, <2>1, MoveType DEF Load, SemaTypeOK, Position
  <2>3. EveryBlockedIsCounted'
    BY <1>3, <2>1, MoveCounts DEF Load, EveryBlockedIsCounted
  <2>4. /\ oldCount'[t] = m_count
        /\ \A r \in Thread : r # t => oldCount'[r] = oldCount[r]
    BY <1>3 DEF Load, SemaTypeOK
  <2>5. /\ q = "turn" => At("exchange")' = At("exchange") /\ t \notin At("exchange")
        /\ q = "exchange" => At("exchange")' = At("exchange") \cup {t}
    <3>1. ASSUME q = "turn"
          PROVE  At("exchange")' = At("exchange") /\ t \notin At("exchange")
      <4>1. Go(t, "load", "turn")
        BY <2>1, <3>1
      <4>2. At("exchange")' = At("exchange")
        BY <4>1, MoveSets
      <4>3. t \notin At("exchange")
        BY <4>1 DEF Go, At
      <4> QED
        BY <4>2, <4>3
    <3>2. ASSUME q = "exchange"
          PROVE  At("exchange")' = At("exchange") \cup {t}
      <4>1. Go(t, "load", "exchange")
        BY <2>1, <3>2
      <4> QED
        BY <4>1, MoveSets
    <3> QED
      BY <3>1, <3>2
  <2>6. At("exchange") \subseteq Thread
    BY DEF At
  <2>7. ExchangesPositive'
    BY <2>1, <2>4, <2>5, <2>6 DEF ExchangesPositive
  <2> QED
    BY <2>2, <2>3, <2>7
<1>4. CASE Exchange(t)
  <2>1. CASE Go(t, "exchange", "idle") /\ m_count' = oldCount[t] - 1 /\ Still(t)
              /\ UNCHANGED <<m_sema, oldCount, spin, signals>>
    <3>1. SemaTypeOK'
      BY <2>1, MoveType DEF SemaTypeOK, Position
    <3>2. m_count > 0 /\ m_count' = m_count - 1
      BY <2>1, MoveSets DEF Still, ExchangesPositive
    <3>3. EveryBlockedIsCounted'
      BY <1>0, <2>1, <3>2, MoveCounts DEF EveryBlockedIsCounted
    <3>4. ExchangesPositive'
      BY <2>1, MoveSets DEF ExchangesPositive
    <3> QED
      BY <3>1, <3>3, <3>4
  <2>2. CASE Go(t, "exchange", "turn") /\ UNCHANGED <<m_count, m_sema, oldCount, spin, signals>>
    <3>1. SemaTypeOK'
      BY <2>2, MoveType DEF SemaTypeOK, Position
    <3>2. EveryBlockedIsCounted'
      BY <2>2, MoveCounts DEF EveryBlockedIsCounted
    <3>3. ExchangesPositive'
      BY <2>2, MoveSets DEF ExchangesPositive
    <3> QED
      BY <3>1, <3>2, <3>3
  <2> QED
    BY <1>4, <2>1, <2>2 DEF Exchange
<1>5. CASE Turn(t)
  <2>1. PICK q \in {"load", "subtract"} : Go(t, "turn", q)
    BY <1>5 DEF Turn
  <2>2. SemaTypeOK'
    BY <1>5, <2>1, MoveType DEF Turn, SemaTypeOK, Position
  <2>3. EveryBlockedIsCounted'
    BY <1>5, <2>1, MoveCounts DEF Turn, EveryBlockedIsCounted
  <2>4. ExchangesPositive'
    BY <1>5, <2>1, MoveSets DEF Turn, ExchangesPositive
  <2> QED
    BY <2>2, <2>3, <2>4
<1>6. CASE Subtract(t)
  <2>1. PICK q \in {"blocked", "idle"} : q = (IF m_count <= 0 THEN "blocked" ELSE "idle") /\ Go(t, "subtract", q)
    BY <1>6 DEF Subtract
  <2>2. SemaTypeOK'
    BY <1>6, <2>1, MoveType DEF Subtract, SemaTypeOK, Position
  <2>3. ExchangesPositive'
    BY <1>6, <2>1, MoveSets DEF Subtract, ExchangesPositive
  <2>4. CASE m_count <= 0
    BY <1>0, <1>6, <2>1, <2>2, <2>3, <2>4, MoveCounts DEF Subtract, EveryBlockedIsCounted
  <2>5. CASE ~(m_count <= 0)
    BY <1>0, <1>6, <2>1, <2>2, <2>3, <2>5, MoveCounts DEF Subtract, EveryBlockedIsCounted
  <2> QED
    BY <2>4, <2>5
<1>7. CASE Wake(t)
  <2>1. Go(t, "blocked", "idle")
    BY <1>7 DEF Wake
  <2>2. SemaTypeOK'
    BY <1>7, <2>1, MoveType DEF Wake, SemaTypeOK, Position
  <2>3. EveryBlockedIsCounted'
    BY <1>0, <1>7, <2>1, MoveCounts DEF Wake, EveryBlockedIsCounted
  <2>4. ExchangesPositive'
    BY <1>7, <2>1, MoveSets DEF Wake, ExchangesPositive
  <2> QED
    BY <2>2, <2>3, <2>4
<1>8. CASE Release(t)
  <2>1. Go(t, "release", "idle")
    BY <1>8 DEF Release
  <2>2. SemaTypeOK'
    BY <1>8, <2>1, MoveType DEF Release, SemaTypeOK, Position
  <2>3. EveryBlockedIsCounted'
    BY <1>0, <1>8, <2>1, MoveCounts DEF Release, EveryBlockedIsCounted
  <2>4. ExchangesPositive'
    BY <1>8, <2>1, MoveSets DEF Release, ExchangesPositive
  <2> QED
    BY <2>2, <2>3, <2>4
<1> QED
  BY <1>1, <1>2, <1>3, <1>4, <1>5, <1>6, <1>7, <1>8 DEF Inside

(* The invariant holds in every reachable state: every thread that blocks  *)
(* is counted, and released once (sema.h:188-221).                         *)
THEOREM SemaInvariance == Spec => []SemaInv
<1>1. SemaInv /\ [Next]_vars => SemaInv'
  <2> SUFFICES ASSUME SemaInv, [Next]_vars PROVE SemaInv'
    OBVIOUS
  <2>1. CASE Next
    BY <2>1, SemaStep DEF Next
  <2>2. CASE UNCHANGED vars
    BY <2>2 DEF vars, SemaInv, SemaTypeOK, EveryBlockedIsCounted, ExchangesPositive, At
  <2> QED
    BY <2>1, <2>2
<1> QED
  BY SemaInit, <1>1, PTL DEF Spec

-----------------------------------------------------------------------------
(* The refinement. *)

(* What a move does to the set of the threads inside wait().               *)
LEMMA MoveInWait ==
  ASSUME SemaTypeOK, NEW t \in Thread, NEW p \in Position, NEW q \in Position, Go(t, p, q)
  PROVE  /\ t \in InWait <=> p \notin {"idle", "release"}
         /\ q \in {"idle", "release"} => InWait' = InWait \ {t}
         /\ q \notin {"idle", "release"} => InWait' = InWait \cup {t}
BY DEF SemaTypeOK, Go, InWait

(* Each step of a thread is a step of the counting semaphore, or none.     *)
LEMMA SemaSimulates ==
  ASSUME SemaInv, NEW t \in Thread, Wait(t) \/ Signal(t) \/ Inside(t)
  PROVE  [CS!CNext]_(CS!cvars)
<1> USE DEF SemaInv
<1> DEFINE Blocked == Cardinality(At("blocked"))
           Releasing == Cardinality(At("release"))
           Permits == m_count + Blocked
<1>0. /\ Blocked \in Nat /\ Releasing \in Nat
      /\ m_count \in Int /\ m_sema \in Nat
  BY AtFinite DEF SemaTypeOK
<1>s. ASSUME Permits' = Permits, InWait' = InWait, signals' = signals
      PROVE  [CS!CNext]_(CS!cvars)
  BY <1>s DEF CS!cvars
<1>r. ASSUME t \in InWait, Permits > 0, Permits' = Permits - 1, InWait' = InWait \ {t},
             signals' = signals
      PROVE  [CS!CNext]_(CS!cvars)
  BY <1>r DEF CS!CNext, CS!ReturnFromWait
<1>1. CASE Wait(t)
  <2>1. Go(t, "idle", "load")
    BY <1>1 DEF Wait
  <2>2. Permits' = Permits /\ signals' = signals
    BY <1>1, <2>1, MoveCounts DEF Wait
  <2>3. t \notin InWait /\ InWait' = InWait \cup {t}
    BY <2>1, MoveInWait DEF Position
  <2>4. CS!CallWait(t)
    BY <2>2, <2>3 DEF CS!CallWait
  <2> QED
    BY <2>4 DEF CS!CNext
<1>2. CASE Signal(t)
  <2>1. PICK q \in {"release", "idle"} : Go(t, "idle", q)
    BY <1>2 DEF Signal
  <2>2. t \notin InWait /\ InWait' = InWait
    BY <2>1, MoveInWait DEF Position
  <2>3. At("blocked")' = At("blocked")
    <3>1. CASE q = "release"
      <4>1. Go(t, "idle", "release")
        BY <2>1, <3>1
      <4> QED
        BY <4>1, MoveSets
    <3>2. CASE q = "idle"
      BY <2>1, <3>2 DEF Go, At, SemaTypeOK
    <3> QED
      BY <3>1, <3>2
  <2>4. Permits' = Permits + 1 /\ signals < MaxSignals /\ signals' = signals + 1
    BY <1>0, <1>2, <2>3 DEF Signal
  <2>5. CS!Signal(t)
    BY <2>2, <2>4 DEF CS!Signal
  <2> QED
    BY <2>5 DEF CS!CNext
<1>3. CASE Load(t)
  <2>1. PICK q \in {"exchange", "turn"} : Go(t, "load", q)
    BY <1>3 DEF Load
  <2>2. InWait' = InWait
    BY <2>1, MoveInWait DEF Position
  <2>3. Permits' = Permits
    BY <1>3, <2>1, MoveCounts DEF Load
  <2> QED
    BY <1>3, <1>s, <2>2, <2>3 DEF Load
<1>4. CASE Exchange(t)
  <2>1. CASE Go(t, "exchange", "idle") /\ m_count' = oldCount[t] - 1 /\ Still(t)
              /\ UNCHANGED <<m_sema, oldCount, spin, signals>>
    <3>1. m_count > 0 /\ m_count' = m_count - 1
      BY <2>1, MoveSets DEF Still, ExchangesPositive
    <3>2. Permits' = Permits - 1 /\ Permits > 0
      BY <1>0, <2>1, <3>1, MoveCounts
    <3>3. t \in InWait /\ InWait' = InWait \ {t}
      BY <2>1, MoveInWait DEF Position
    <3> QED
      BY <1>r, <2>1, <3>2, <3>3
  <2>2. CASE Go(t, "exchange", "turn") /\ UNCHANGED <<m_count, m_sema, oldCount, spin, signals>>
    <3>1. Permits' = Permits
      BY <2>2, MoveCounts
    <3>2. InWait' = InWait
      BY <2>2, MoveInWait DEF Position
    <3> QED
      BY <1>s, <2>2, <3>1, <3>2
  <2> QED
    BY <1>4, <2>1, <2>2 DEF Exchange
<1>5. CASE Turn(t)
  <2>1. PICK q \in {"load", "subtract"} : Go(t, "turn", q)
    BY <1>5 DEF Turn
  <2>2. InWait' = InWait
    BY <2>1, MoveInWait DEF Position
  <2>3. Permits' = Permits
    BY <1>5, <2>1, MoveCounts DEF Turn
  <2> QED
    BY <1>5, <1>s, <2>2, <2>3 DEF Turn
<1>6. CASE Subtract(t)
  <2>1. CASE m_count <= 0
    <3>1. Go(t, "subtract", "blocked")
      BY <1>6, <2>1 DEF Subtract
    <3>2. Permits' = Permits
      BY <1>0, <1>6, <3>1, MoveCounts DEF Subtract
    <3>3. InWait' = InWait
      BY <3>1, MoveInWait DEF Position
    <3> QED
      BY <1>6, <1>s, <3>2, <3>3 DEF Subtract
  <2>2. CASE ~(m_count <= 0)
    <3>1. Go(t, "subtract", "idle")
      BY <1>6, <2>2 DEF Subtract
    <3>2. Permits' = Permits - 1 /\ Permits > 0
      BY <1>0, <1>6, <2>2, <3>1, MoveCounts DEF Subtract
    <3>3. t \in InWait /\ InWait' = InWait \ {t}
      BY <3>1, MoveInWait DEF Position
    <3> QED
      BY <1>6, <1>r, <3>2, <3>3 DEF Subtract
  <2> QED
    BY <2>1, <2>2
<1>7. CASE Wake(t)
  <2>1. Go(t, "blocked", "idle")
    BY <1>7 DEF Wake
  <2>2. Permits' = Permits - 1
    BY <1>0, <1>7, <2>1, MoveCounts DEF Wake
  <2>3. Permits > 0
    BY <1>0, <1>7 DEF Wake, EveryBlockedIsCounted
  <2>4. t \in InWait /\ InWait' = InWait \ {t}
    BY <2>1, MoveInWait DEF Position
  <2> QED
    BY <1>7, <1>r, <2>2, <2>3, <2>4 DEF Wake
<1>8. CASE Release(t)
  <2>1. Go(t, "release", "idle")
    BY <1>8 DEF Release
  <2>2. Permits' = Permits
    BY <1>8, <2>1, MoveCounts DEF Release
  <2>3. InWait' = InWait
    BY <2>1, MoveInWait DEF Position
  <2> QED
    BY <1>8, <1>s, <2>2, <2>3 DEF Release
<1> QED
  BY <1>1, <1>2, <1>3, <1>4, <1>5, <1>6, <1>7, <1>8 DEF Inside

(* LightweightSemaphore implements a counting semaphore: no wait returns   *)
(* without a signal of its own (sema.h:168-222).                           *)
THEOREM SemaImplementation == Spec => ImplementsCountingSemaphore
<1>1. Init => CS!CInit
  <2> SUFFICES ASSUME Init PROVE CS!CInit
    OBVIOUS
  <2>1. At("blocked") = {} /\ InWait = {}
    BY DEF Init, At, InWait
  <2> QED
    BY <2>1, FS_EmptySet DEF Init, CS!CInit
<1>2. SemaInv /\ [Next]_vars => [CS!CNext]_(CS!cvars)
  <2> SUFFICES ASSUME SemaInv, [Next]_vars PROVE [CS!CNext]_(CS!cvars)
    OBVIOUS
  <2>1. CASE Next
    BY <2>1, SemaSimulates DEF Next
  <2>2. CASE UNCHANGED vars
    BY <2>2 DEF vars, CS!cvars, InWait, At
  <2> QED
    BY <2>1, <2>2
<1> QED
  BY <1>1, <1>2, SemaInvariance, PTL DEF Spec, ImplementsCountingSemaphore, CS!CSpec
=============================================================================
