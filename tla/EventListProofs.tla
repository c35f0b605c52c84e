--------------------------- MODULE EventListProofs ---------------------------
(***************************************************************************)
(* What scheduling and erasing events do to the set of pending events.     *)
(***************************************************************************)
EXTENDS EventList, SequencesExt, TLAPS, SequenceTheorems, FiniteSetTheorems,
        WellFoundedInduction

-----------------------------------------------------------------------------
(* Counting: what the loops over sequences rest on.                        *)

(* Every set of numbers that is not empty has a least one.                 *)
LEMMA LeastNumber ==
  ASSUME NEW T, T \subseteq Nat, T # {}
  PROVE  \E n \in T : \A m \in T : n <= m
<1>. DEFINE R == OpToRel(<, Nat)
<1>1. IsWellFoundedOn(R, Nat)
  BY NatLessThanWellFounded
<1>2. R = {ss \in Nat \X Nat : ss[1] < ss[2]}
  BY DEF OpToRel
<1>. HIDE DEF R
<1>3. \A x, y \in Nat : <<y, x>> \in R <=> y < x
  BY <1>2
<1>4. PICK x \in T : \A y \in T : ~(<<y, x>> \in R)
  BY <1>1, WFMin
<1>5. ASSUME NEW y \in T
      PROVE  x <= y
  <2>1. x \in Nat /\ y \in Nat
    OBVIOUS
  <2>2. ~(y < x)
    BY <1>3, <1>4, <2>1
  <2>. QED BY <2>1, <2>2
<1>. QED BY <1>5

(* A set that has 0 and with each number the next has them all.            *)
LEMMA Counting ==
  ASSUME NEW N \in Nat, NEW T, 0 \in T, \A n \in 1..N : n - 1 \in T => n \in T
  PROVE  \A n \in 0..N : n \in T
<1>. DEFINE U == {n \in 0..N : n \notin T}
<1>1. ASSUME U # {} PROVE FALSE
  <2>1. U \subseteq Nat
    OBVIOUS
  <2>2. PICK n \in U : \A m \in U : n <= m
    BY <1>1, <2>1, LeastNumber
  <2>3. n # 0 /\ n \in 1..N
    BY <2>2
  <2>4. n - 1 \in 0..N /\ ~(n <= n - 1)
    BY <2>3
  <2>5. n - 1 \in T
    BY <2>2, <2>4
  <2>. QED BY <2>2, <2>3, <2>5
<1>. QED BY <1>1

(* A loop of N turns, each of which maps a state in S to one in S.         *)
IsLoop(f, S, N, first, turn) ==
  /\ f \in [0..N -> S]
  /\ f[0] = first
  /\ \A n \in 1..N : f[n] = turn[<<f[n - 1], n>>]

(* There is a function of its states.                                      *)
LEMMA LoopExists ==
  ASSUME NEW S, NEW N \in Nat, NEW first \in S, NEW turn \in [S \X (1..N) -> S]
  PROVE  \E f : IsLoop(f, S, N, first, turn)
<1>. DEFINE Fits(f, k) == /\ f \in [0..k -> S] /\ f[0] = first
                         /\ \A n \in 1..k : f[n] = turn[<<f[n - 1], n>>]
            T == {k \in 0..N : \E f : Fits(f, k)}
<1>1. 0 \in T
  <2>1. Fits([n \in 0..0 |-> first], 0) /\ 0 \in 0..N
    OBVIOUS
  <2>. HIDE DEF Fits
  <2>. QED BY <2>1
<1>2. ASSUME NEW k \in 1..N, k - 1 \in T
      PROVE  k \in T
  <2>1. PICK f : Fits(f, k - 1)
    BY <1>2
  <2>. DEFINE g == [n \in 0..k |-> IF n = k THEN turn[<<f[k - 1], k>>] ELSE f[n]]
  <2>2. f[k - 1] \in S /\ turn[<<f[k - 1], k>>] \in S
    BY <2>1
  <2>3. g \in [0..k -> S] /\ g[0] = first
    BY <2>1, <2>2
  <2>4. ASSUME NEW n \in 1..k
        PROVE  g[n] = turn[<<g[n - 1], n>>]
    <3>1. n - 1 \in 0..k /\ n - 1 # k /\ g[n - 1] = f[n - 1] /\ n \in 0..k
      OBVIOUS
    <3>2. CASE n = k
      BY <3>1, <3>2
    <3>3. CASE n # k
      <4>1. n \in 1..(k - 1) /\ g[n] = f[n]
        BY <3>1, <3>3
      <4>. QED BY <2>1, <3>1, <4>1
    <3>. QED BY <3>2, <3>3
  <2>5. Fits(g, k)
    BY <2>3, <2>4
  <2>6. k \in 0..N
    OBVIOUS
  <2>. QED BY <2>5, <2>6
<1>. HIDE DEF T
<1>3. N \in T
  BY <1>1, <1>2, Counting
<1>4. PICK f : Fits(f, N)
  BY <1>3 DEF T
<1>. QED BY <1>4 DEF IsLoop

-----------------------------------------------------------------------------

(* The elements of a finite set, in a sequence, each of them once.         *)
LEMMA SetToSeqType ==
  ASSUME NEW S, IsFiniteSet(S)
  PROVE  /\ SetToSeq(S) \in Seq(S)
         /\ \A i, j \in DOMAIN SetToSeq(S) : SetToSeq(S)[i] = SetToSeq(S)[j] => i = j
         /\ \A e \in S : \E i \in DOMAIN SetToSeq(S) : SetToSeq(S)[i] = e
<1>. DEFINE n == Cardinality(S)
            f == SetToSeq(S)
<1>1. n \in Nat /\ ExistsBijection(1..n, S)
  BY FS_CardinalityType
<1>2. \E g \in [1..n -> S] : IsInjective(g)
  BY <1>1 DEF ExistsBijection, Bijection, Injection
<1>3. f \in [1..n -> S] /\ IsInjective(f)
  BY <1>2 DEF SetToSeq
<1>. HIDE DEF n, f
<1>4. f \in Injection(1..n, S)
  BY <1>3 DEF Injection
<1>5. Cardinality(1..n) = n
  BY <1>1, FS_Interval
<1>6. f \in Surjection(1..n, S)
  BY <1>4, <1>5, FS_Injection DEF n
<1>. QED BY <1>1, <1>3, <1>6 DEF IsInjective, Surjection, f

(* Scheduling keeps a list of events of E one. *)
LEMMA ScheduleAllType ==
  ASSUME NEW E, NEW q \in [Time -> Seq(E)], NEW t \in Time, NEW d \in Nat,
         NEW s \in Seq(E)
  PROVE  ScheduleAll(q, t, d, s) \in [Time -> Seq(E)]
<1>1. ASSUME d \in t..MaximumDate
      PROVE  q[d] \o s \in Seq(E)
  BY <1>1, MaximumDateAssumption, ConcatProperties DEF Time
<1>. QED BY <1>1 DEF ScheduleAll

(* The entries of the list after scheduling: the old ones, and the new. *)
Entries(q, t, d, s, r) ==
  /\ \A c \in Time :
       /\ d \notin t..MaximumDate \/ c # d => r[c] = q[c]
       /\ d \in t..MaximumDate /\ c = d =>
            /\ DOMAIN r[c] = 1..(Len(q[c]) + Len(s))
            /\ \A i \in 1..Len(q[c]) : r[c][i] = q[c][i]
            /\ \A i \in 1..Len(s) : r[c][Len(q[c]) + i] = s[i]
       /\ Len(q[c]) \in Nat /\ DOMAIN q[c] = 1..Len(q[c])
  /\ Len(s) \in Nat /\ DOMAIN s = 1..Len(s)

(* The entries of a date after scheduling: those it had, and behind them,  *)
(* if the date is the scheduled one and not refused, the new ones.         *)
LEMMA ScheduleAllEntries ==
  ASSUME NEW E, NEW q \in [Time -> Seq(E)], NEW t \in Time, NEW d \in Nat,
         NEW s \in Seq(E), NEW r, r = ScheduleAll(q, t, d, s)
  PROVE  Entries(q, t, d, s, r)
<1>. SUFFICES ASSUME NEW c \in Time
     PROVE  /\ d \notin t..MaximumDate \/ c # d => r[c] = q[c]
            /\ d \in t..MaximumDate /\ c = d =>
                 /\ DOMAIN r[c] = 1..(Len(q[c]) + Len(s))
                 /\ \A i \in 1..Len(q[c]) : r[c][i] = q[c][i]
                 /\ \A i \in 1..Len(s) : r[c][Len(q[c]) + i] = s[i]
            /\ Len(q[c]) \in Nat /\ DOMAIN q[c] = 1..Len(q[c])
            /\ Len(s) \in Nat /\ DOMAIN s = 1..Len(s)
  BY LenProperties DEF Entries
<1>1. d \notin t..MaximumDate \/ c # d => r[c] = q[c]
  BY DEF ScheduleAll
<1>2. /\ Len(q[c]) \in Nat /\ DOMAIN q[c] = 1..Len(q[c])
      /\ Len(s) \in Nat /\ DOMAIN s = 1..Len(s)
  BY LenProperties
<1>3. ASSUME d \in t..MaximumDate, c = d
      PROVE  /\ DOMAIN r[c] = 1..(Len(q[c]) + Len(s))
             /\ \A i \in 1..Len(q[c]) : r[c][i] = q[c][i]
             /\ \A i \in 1..Len(s) : r[c][Len(q[c]) + i] = s[i]
  <2>1. r[c] = q[c] \o s
    BY <1>3 DEF ScheduleAll
  <2>2. QED BY <1>2, <2>1, ConcatProperties, LenProperties
<1>. QED BY <1>1, <1>2, <1>3

(* After scheduling, an event is pending iff it was or is one of the new.  *)
LEMMA ScheduleAllPending ==
  ASSUME NEW E, NEW q \in [Time -> Seq(E)], NEW t \in Time, NEW d \in Nat,
         NEW s \in Seq(E), NEW r, r = ScheduleAll(q, t, d, s), NEW e
  PROVE  Pending(r, e) <=>
           \/ Pending(q, e)
           \/ d \in t..MaximumDate /\ \E i \in DOMAIN s : s[i] = e
<1>e. Entries(q, t, d, s, r)
  BY ScheduleAllEntries
<1>0. t \in Nat /\ MaximumDate \in Nat
  BY MaximumDateAssumption DEF Time
<1>1. ASSUME NEW c \in Time, NEW i \in DOMAIN q[c]
      PROVE  i \in DOMAIN r[c] /\ r[c][i] = q[c][i]
  <2>1. CASE d \notin t..MaximumDate \/ c # d
    BY <2>1, <1>e DEF Entries
  <2>2. CASE d \in t..MaximumDate /\ c = d
    <3>1. /\ i \in 1..Len(q[c]) /\ Len(q[c]) \in Nat /\ Len(s) \in Nat
          /\ DOMAIN r[c] = 1..(Len(q[c]) + Len(s))
      BY <2>2, <1>e DEF Entries
    <3>2. r[c][i] = q[c][i]
      BY <2>2, <3>1, <1>e DEF Entries
    <3>3. QED BY <3>1, <3>2
  <2>3. QED BY <2>1, <2>2
<1>2. ASSUME d \in t..MaximumDate, NEW i \in DOMAIN s
      PROVE  /\ d \in Time
             /\ Len(q[d]) + i \in DOMAIN r[d] /\ r[d][Len(q[d]) + i] = s[i]
  <2>1. d \in Time
    BY <1>0, <1>2 DEF Time
  <2>2. QED BY <1>2, <2>1, <1>e DEF Entries
<1>3. ASSUME NEW c \in Time, NEW i \in DOMAIN r[c]
      PROVE  \/ i \in DOMAIN q[c] /\ r[c][i] = q[c][i]
             \/ d \in t..MaximumDate /\ \E j \in DOMAIN s : r[c][i] = s[j]
  <2>1. CASE d \notin t..MaximumDate \/ c # d
    BY <2>1, <1>e DEF Entries
  <2>2. CASE d \in t..MaximumDate /\ c = d
    <3>1. i \in 1..(Len(q[c]) + Len(s)) /\ Len(q[c]) \in Nat /\ Len(s) \in Nat
      BY <2>2, <1>e DEF Entries
    <3>2. CASE i \in 1..Len(q[c])
      BY <2>2, <3>2, <1>e DEF Entries
    <3>3. CASE i \notin 1..Len(q[c])
      <4>1. PICK j \in 1..Len(s) : i = Len(q[c]) + j
        <5>1. i - Len(q[c]) \in 1..Len(s) /\ i = Len(q[c]) + (i - Len(q[c]))
          BY <3>1, <3>3
        <5>2. QED BY <5>1
      <4>2. QED BY <2>2, <4>1, <1>e DEF Entries
    <3>4. QED BY <3>2, <3>3
  <2>3. QED BY <2>1, <2>2
<1>4. ASSUME Pending(q, e)
      PROVE  Pending(r, e)
  BY <1>1, <1>4 DEF Pending
<1>5. ASSUME d \in t..MaximumDate, NEW i \in DOMAIN s, s[i] = e
      PROVE  Pending(r, e)
  BY <1>2, <1>5 DEF Pending
<1>6. ASSUME Pending(r, e)
      PROVE  \/ Pending(q, e)
             \/ d \in t..MaximumDate /\ \E i \in DOMAIN s : s[i] = e
  <2>1. PICK c \in Time : \E i \in DOMAIN r[c] : r[c][i] = e
    BY <1>6 DEF Pending
  <2>2. PICK i \in DOMAIN r[c] : r[c][i] = e
    BY <2>1
  <2>3. QED BY <1>3, <2>2 DEF Pending
<1>. QED BY <1>4, <1>5, <1>6

(* An event that is not among the scheduled ones stays pending once.       *)
LEMMA ScheduleAllOther ==
  ASSUME NEW E, NEW q \in [Time -> Seq(E)], NEW t \in Time, NEW d \in Nat,
         NEW s \in Seq(E), NEW r, r = ScheduleAll(q, t, d, s),
         NEW e, NEW x, \A i \in DOMAIN s : s[i] # e, OnlyAt(q, e, x)
  PROVE  OnlyAt(r, e, x)
<1>e. Entries(q, t, d, s, r)
  BY ScheduleAllEntries
<1>1. ASSUME NEW c \in Time, NEW i \in DOMAIN r[c], r[c][i] = e
      PROVE  i \in DOMAIN q[c] /\ q[c][i] = e
  <2>1. CASE d \notin t..MaximumDate \/ c # d
    BY <1>1, <2>1, <1>e DEF Entries
  <2>2. CASE d \in t..MaximumDate /\ c = d
    <3>1. i \in 1..(Len(q[c]) + Len(s)) /\ Len(q[c]) \in Nat /\ Len(s) \in Nat
      BY <2>2, <1>e DEF Entries
    <3>2. CASE i \in 1..Len(q[c])
      BY <1>1, <2>2, <3>2, <1>e DEF Entries
    <3>3. CASE i \notin 1..Len(q[c])
      <4>1. PICK j \in 1..Len(s) : i = Len(q[c]) + j
        <5>1. i - Len(q[c]) \in 1..Len(s) /\ i = Len(q[c]) + (i - Len(q[c]))
          BY <3>1, <3>3
        <5>2. QED BY <5>1
      <4>2. QED BY <1>1, <2>2, <4>1, <1>e DEF Entries
    <3>4. QED BY <3>2, <3>3
  <2>3. QED BY <2>1, <2>2
<1>2. QED BY <1>1 DEF OnlyAt

(* Scheduling one event: what becomes of the others, and of itself if it   *)
(* was not pending.                                                        *)
LEMMA ScheduleOne ==
  ASSUME NEW E, NEW q \in [Time -> Seq(E)], NEW t \in Time, NEW d \in Nat,
         NEW f \in E, NEW r, r = Schedule(q, t, d, f)
  PROVE  /\ r \in [Time -> Seq(E)]
         /\ \A e : Pending(r, e) <=>
                     \/ Pending(q, e)
                     \/ d \in t..MaximumDate /\ e = f
         /\ \A e, x : e # f /\ OnlyAt(q, e, x) => OnlyAt(r, e, x)
         /\ ~Pending(q, f) => OnlyAt(r, f, d)
         /\ \A c \in Time : c < t => r[c] = q[c]
<1>. DEFINE s == <<f>>
<1>0. r = ScheduleAll(q, t, d, s)
  BY DEF Schedule
<1>1. s \in Seq(E) /\ DOMAIN s = {1} /\ s[1] = f /\ Len(s) = 1
  OBVIOUS
<1>. HIDE DEF s
<1>e. Entries(q, t, d, s, r)
  BY <1>0, <1>1, ScheduleAllEntries
<1>3. r \in [Time -> Seq(E)]
  BY <1>0, <1>1, ScheduleAllType
<1>4. ASSUME NEW e
      PROVE  Pending(r, e) <=> \/ Pending(q, e)
                               \/ d \in t..MaximumDate /\ e = f
  <2>1. (\E i \in DOMAIN s : s[i] = e) <=> e = f
    BY <1>1
  <2>2. Pending(r, e) <=> \/ Pending(q, e)
                          \/ d \in t..MaximumDate /\ \E i \in DOMAIN s : s[i] = e
    BY <1>0, <1>1, ScheduleAllPending
  <2>3. QED BY <2>1, <2>2
<1>5. ASSUME NEW e, NEW x, e # f, OnlyAt(q, e, x)
      PROVE  OnlyAt(r, e, x)
  <2>1. \A i \in DOMAIN s : s[i] # e
    BY <1>1, <1>5
  <2>2. QED BY <1>0, <1>1, <1>5, <2>1, ScheduleAllOther
<1>6. ASSUME NEW c \in Time, c < t
      PROVE  r[c] = q[c]
  BY <1>0, <1>6, MaximumDateAssumption DEF ScheduleAll, Time
<1>7. ASSUME ~Pending(q, f)
      PROVE  OnlyAt(r, f, d)
  <2>1. ASSUME NEW c \in Time, NEW i \in DOMAIN r[c], r[c][i] = f
        PROVE  c = d /\ i = Len(q[c]) + 1
    <3>1. ~(i \in DOMAIN q[c] /\ q[c][i] = f)
      BY <1>7 DEF Pending
    <3>2. CASE d \notin t..MaximumDate \/ c # d
      BY <1>e, <2>1, <3>1, <3>2 DEF Entries
    <3>3. CASE d \in t..MaximumDate /\ c = d
      <4>1. /\ DOMAIN r[c] = 1..(Len(q[c]) + 1)
            /\ DOMAIN q[c] = 1..Len(q[c]) /\ Len(q[c]) \in Nat
        BY <1>1, <1>e, <3>3 DEF Entries
      <4>2. \A j \in 1..Len(q[c]) : r[c][j] = q[c][j]
        BY <1>e, <3>3 DEF Entries
      <4>3. i \in 1..(Len(q[c]) + 1) /\ i \notin 1..Len(q[c])
        BY <2>1, <3>1, <4>1, <4>2
      <4>4. QED BY <3>3, <4>1, <4>3
    <3>4. QED BY <3>2, <3>3
  <2>2. QED BY <2>1 DEF OnlyAt
<1>. QED BY <1>3, <1>4, <1>5, <1>6, <1>7

(* Erasing the first event: the others stay, and it is gone if it was      *)
(* pending once.                                                           *)
Erased(E, q, t, r, h) ==
  /\ r \in [Time -> Seq(E)]
  /\ h \in E
  /\ Pending(q, h)
  /\ \A x : OnlyAt(q, h, x) => x = t /\ ~Pending(r, h)
  /\ \A e : Pending(r, e) => Pending(q, e)
  /\ \A e : e # h /\ Pending(q, e) => Pending(r, e)
  /\ \A e, x : OnlyAt(q, e, x) => OnlyAt(r, e, x)
  /\ \A c \in Time : c < t => r[c] = <<>>

(* Erasing the first event leaves Erased(q, h, t, r): see above.           *)
LEMMA EraseFirstPending ==
  ASSUME NEW E, NEW q \in [Time -> Seq(E)], NEW t \in Time, IsFirstDate(q, t),
         NEW r, r = EraseFirst(q, t), NEW h, h = Head(q[t])
  PROVE  Erased(E, q, t, r, h)
<1>1. /\ q[t] \in Seq(E) /\ q[t] # <<>>
      /\ Len(q[t]) \in Nat \ {0} /\ DOMAIN q[t] = 1..Len(q[t])
      /\ h \in E /\ h = q[t][1]
      /\ Tail(q[t]) \in Seq(E)
      /\ Len(Tail(q[t])) = Len(q[t]) - 1
      /\ DOMAIN Tail(q[t]) = 1..(Len(q[t]) - 1)
      /\ \A i \in 1..(Len(q[t]) - 1) : Tail(q[t])[i] = q[t][i+1]
  <2>1. q[t] \in Seq(E) /\ q[t] # <<>>
    BY DEF IsFirstDate
  <2>2. QED BY <2>1, HeadTailProperties, LenProperties
<1>2. r \in [Time -> Seq(E)]
  BY <1>1 DEF EraseFirst
<1>3. r[t] = Tail(q[t]) /\ \A c \in Time : c # t => r[c] = q[c]
  BY DEF EraseFirst
<1>4. Pending(q, h)
  BY <1>1 DEF Pending
<1>5. ASSUME NEW c \in Time, NEW i \in DOMAIN r[c]
      PROVE  \E j \in DOMAIN q[c] : /\ q[c][j] = r[c][i]
                                    /\ j = IF c = t THEN i + 1 ELSE i
  <2>1. CASE c # t
    BY <1>3, <2>1
  <2>2. CASE c = t
    <3>1. i \in 1..(Len(q[t]) - 1) /\ r[c][i] = q[t][i + 1]
      BY <1>1, <1>3, <2>2
    <3>2. i + 1 \in DOMAIN q[c]
      BY <1>1, <2>2, <3>1
    <3>3. QED BY <2>2, <3>1, <3>2
  <2>3. QED BY <2>1, <2>2
<1>6. ASSUME NEW e, Pending(r, e)
      PROVE  Pending(q, e)
  <2>0. PICK c \in Time : \E i \in DOMAIN r[c] : r[c][i] = e
    BY <1>6 DEF Pending
  <2>1. PICK i \in DOMAIN r[c] : r[c][i] = e
    BY <2>0
  <2>2. PICK j \in DOMAIN q[c] : q[c][j] = e
    BY <1>5, <2>1
  <2>3. QED BY <2>2 DEF Pending
<1>7. ASSUME NEW e, e # h, Pending(q, e)
      PROVE  Pending(r, e)
  <2>0. PICK c \in Time : \E j \in DOMAIN q[c] : q[c][j] = e
    BY <1>7 DEF Pending
  <2>1. PICK j \in DOMAIN q[c] : q[c][j] = e
    BY <2>0
  <2>2. CASE c # t
    BY <1>3, <2>1, <2>2 DEF Pending
  <2>3. CASE c = t
    <3>0. j \in 1..Len(q[t]) /\ j # 1 /\ Len(q[t]) \in Nat
      BY <1>1, <1>7, <2>1, <2>3
    <3>1. j - 1 \in 1..(Len(q[t]) - 1) /\ (j - 1) + 1 = j
      BY <3>0
    <3>2. j - 1 \in DOMAIN r[c] /\ r[c][j - 1] = e
      BY <1>1, <1>3, <2>1, <2>3, <3>1
    <3>3. QED BY <3>2 DEF Pending
  <2>4. QED BY <2>2, <2>3
<1>8. ASSUME NEW x, OnlyAt(q, h, x)
      PROVE  x = t /\ ~Pending(r, h)
  <2>1. x = t
    BY <1>1, <1>8 DEF OnlyAt
  <2>2. ASSUME NEW c \in Time, NEW i \in DOMAIN r[c], r[c][i] = h
        PROVE  FALSE
    <3>1. c = t /\ i + 1 \in DOMAIN q[t] /\ q[t][i + 1] = h /\ i \in Nat \ {0}
      BY <1>1, <1>3, <1>5, <1>8, <2>1, <2>2 DEF OnlyAt
    <3>2. QED BY <1>1, <1>8, <3>1 DEF OnlyAt
  <2>3. QED BY <2>1, <2>2 DEF Pending
<1>9. ASSUME NEW e, NEW x, OnlyAt(q, e, x)
      PROVE  OnlyAt(r, e, x)
  <2>1. ASSUME NEW c \in Time, NEW i \in DOMAIN r[c], r[c][i] = e
        PROVE  c = x /\ \A j \in DOMAIN r[c] : r[c][j] = e => i = j
    <3>1. c = x
      BY <1>5, <1>9, <2>1 DEF OnlyAt
    <3>2. ASSUME NEW j \in DOMAIN r[c], r[c][j] = e
          PROVE  i = j
      <4>1. CASE c # t
        BY <1>3, <1>9, <2>1, <3>2, <4>1 DEF OnlyAt
      <4>2. CASE c = t
        <5>1. /\ i + 1 \in DOMAIN q[c] /\ q[c][i + 1] = e
              /\ j + 1 \in DOMAIN q[c] /\ q[c][j + 1] = e
          BY <1>5, <2>1, <3>2, <4>2
        <5>2. i + 1 = j + 1
          BY <1>9, <5>1 DEF OnlyAt
        <5>3. i \in Int /\ j \in Int
          BY <1>1, <1>3, <2>1, <3>2, <4>2
        <5>4. QED BY <5>2, <5>3
      <4>3. QED BY <4>1, <4>2
    <3>3. QED BY <3>1, <3>2
  <2>2. QED BY <2>1 DEF OnlyAt
<1>10. ASSUME NEW c \in Time, c < t
       PROVE  r[c] = <<>>
  <2>1. c # t
    BY <1>10 DEF Time
  <2>2. QED BY <1>3, <1>10, <2>1 DEF IsFirstDate
<1>. QED BY <1>1, <1>2, <1>4, <1>6, <1>7, <1>8, <1>9, <1>10 DEF Erased

-----------------------------------------------------------------------------
(* Events scheduled one after the other, each for its own date.            *)

DatedBy(E) == [date : Nat, event : E]

(* Their dates and events.                                                 *)
LEMMA DatedEvents ==
  ASSUME NEW E, NEW s \in Seq(DatedBy(E))
  PROVE  /\ Len(s) \in Nat /\ DOMAIN s = 1..Len(s)
         /\ \A n \in 1..Len(s) : s[n].date \in Nat /\ s[n].event \in E
<1>1. Len(s) \in Nat /\ DOMAIN s = 1..Len(s) /\ \A n \in 1..Len(s) : s[n] \in DatedBy(E)
  OBVIOUS
<1>2. \A x \in DatedBy(E) : x.date \in Nat /\ x.event \in E
  BY DEF DatedBy
<1>. QED BY <1>1, <1>2

(* The lists the loop of ScheduleEach goes through.                        *)
AreSchedules(f, E, q, t, s) ==
  /\ f \in [0..Len(s) -> [Time -> Seq(E)]]
  /\ f[0] = q
  /\ \A n \in 1..Len(s) : f[n] = Schedule(f[n - 1], t, s[n].date, s[n].event)

(* ScheduleEach gives the last of them.                                    *)
LEMMA ScheduleEachDef ==
  ASSUME NEW E, NEW q \in [Time -> Seq(E)], NEW t \in Time, NEW s \in Seq(DatedBy(E))
  PROVE  \E f : AreSchedules(f, E, q, t, s) /\ ScheduleEach(q, t, s) = f[Len(s)]
<1>. DEFINE N == Len(s)
            S == [Time -> Seq(E)]
            Is(f) == f = [n \in 0..N |-> IF n = 0 THEN q
                            ELSE Schedule(f[n - 1], t, s[n].date, s[n].event)]
            turn == [x \in S \X (1..N) |-> Schedule(x[1], t, s[x[2]].date, s[x[2]].event)]
            f == CHOOSE g : Is(g)
<1>1. N \in Nat /\ \A n \in 1..N : s[n].date \in Nat /\ s[n].event \in E
  BY DatedEvents
<1>2. ASSUME NEW x \in S, NEW n \in 1..N
      PROVE  Schedule(x, t, s[n].date, s[n].event) \in S
  <2>. DEFINE d == s[n].date
              e == s[n].event
  <2>1. d \in Nat /\ e \in E
    BY <1>1
  <2>. HIDE DEF d, e
  <2>2. Schedule(x, t, d, e) \in [Time -> Seq(E)]
    BY <2>1, ScheduleOne
  <2>. QED BY <2>2 DEF d, e
<1>3. turn \in [S \X (1..N) -> S]
  BY <1>2
<1>4. \A x \in S, n \in 1..N : turn[<<x, n>>] = Schedule(x, t, s[n].date, s[n].event)
  OBVIOUS
<1>. HIDE DEF turn
<1>5. PICK g : IsLoop(g, S, N, q, turn)
  BY <1>1, <1>3, LoopExists
<1>6. Is(g)
  <2>1. g \in [0..N -> S] /\ g[0] = q /\ \A n \in 1..N : g[n] = turn[<<g[n - 1], n>>]
    BY <1>5 DEF IsLoop
  <2>2. ASSUME NEW n \in 0..N
        PROVE  g[n] = IF n = 0 THEN q ELSE Schedule(g[n - 1], t, s[n].date, s[n].event)
    <3>1. CASE n = 0
      BY <2>1, <3>1
    <3>2. CASE n # 0
      <4>1. n \in 1..N /\ n - 1 \in 0..N
        BY <1>1, <3>2
      <4>. QED BY <1>4, <2>1, <3>2, <4>1
    <3>. QED BY <3>1, <3>2
  <2>. QED BY <2>1, <2>2
<1>7. Is(f)
  <2>. HIDE DEF Is
  <2>. QED BY <1>6
<1>8. ScheduleEach(q, t, s) = f[N]
  BY DEF ScheduleEach
<1>. HIDE DEF f
<1>9. f[0] = q /\ \A n \in 1..N : f[n] = Schedule(f[n - 1], t, s[n].date, s[n].event)
  BY <1>1, <1>7
<1>10. \A n \in 0..N : f[n] \in S
  <2>. DEFINE T == {n \in 0..N : f[n] \in S}
  <2>1. 0 \in T
    BY <1>1, <1>9
  <2>2. ASSUME NEW n \in 1..N, n - 1 \in T
        PROVE  n \in T
    <3>1. n \in 0..N /\ f[n - 1] \in S
      BY <1>1, <2>2
    <3>2. Schedule(f[n - 1], t, s[n].date, s[n].event) \in S
      BY <1>2, <3>1
    <3>. QED BY <1>9, <3>1, <3>2
  <2>. HIDE DEF T
  <2>3. \A n \in 0..N : n \in T
    BY <1>1, <2>1, <2>2, Counting
  <2>. QED BY <2>3 DEF T
<1>11. f \in [0..N -> S]
  BY <1>7, <1>10
<1>. QED BY <1>8, <1>9, <1>11 DEF AreSchedules

(* The event list r after the first n of the events s were added to q.     *)
AfterEach(E, q, t, s, n, r) ==
  /\ r \in [Time -> Seq(E)]
  /\ \A e : Pending(r, e) <=>
            \/ Pending(q, e)
            \/ \E i \in 1..n : s[i].event = e /\ s[i].date \in t..MaximumDate
  /\ \A c \in Time : c < t => r[c] = q[c]
  /\ \A e, x : OnlyAt(q, e, x) /\ (\A i \in 1..n : s[i].event # e) => OnlyAt(r, e, x)
  /\ \A i \in 1..n :
       ~Pending(q, s[i].event) /\ (\A j \in 1..n : s[j].event = s[i].event => j = i) =>
         OnlyAt(r, s[i].event, s[i].date)

(* What was pending stays; an event of s that was not, and is there once,  *)
(* is pending at its date only.                                            *)
LEMMA ScheduleEachEffect ==
  ASSUME NEW E, NEW q \in [Time -> Seq(E)], NEW t \in Time, NEW s \in Seq(DatedBy(E)),
         NEW r, r = ScheduleEach(q, t, s)
  PROVE  AfterEach(E, q, t, s, Len(s), r)
<1>1. PICK f : AreSchedules(f, E, q, t, s) /\ r = f[Len(s)]
  BY ScheduleEachDef
<1>. DEFINE N == Len(s)
            T == {n \in 0..N : AfterEach(E, q, t, s, n, f[n])}
<1>2. /\ N \in Nat /\ f[0] = q
      /\ \A n \in 1..N : f[n] = Schedule(f[n - 1], t, s[n].date, s[n].event)
      /\ \A n \in 1..N : s[n].date \in Nat /\ s[n].event \in E
  <2>1. N \in Nat /\ \A n \in 1..N : s[n].date \in Nat /\ s[n].event \in E
    BY DatedEvents
  <2>. QED BY <1>1, <2>1 DEF AreSchedules
<1>3. 0 \in T
  BY <1>2 DEF AfterEach
<1>4. ASSUME NEW n \in 1..N, n - 1 \in T
      PROVE  n \in T
  <2>. DEFINE p == f[n - 1]
              d == s[n].date
              g == s[n].event
  <2>1. AfterEach(E, q, t, s, n - 1, p) /\ p \in [Time -> Seq(E)]
    BY <1>4 DEF AfterEach
  <2>2. d \in Nat /\ g \in E /\ f[n] = Schedule(p, t, d, g)
    BY <1>2
  <2>3. /\ n \in Nat /\ n \in 0..N /\ n \in 1..n
        /\ \A i \in 1..n : i = n \/ i \in 1..(n - 1)
        /\ \A i \in 1..(n - 1) : i \in 1..n /\ i # n
    BY <1>2
  <2>. HIDE DEF p, d, g
  <2>4. /\ f[n] \in [Time -> Seq(E)]
        /\ \A e : Pending(f[n], e) <=> (Pending(p, e) \/ (d \in t..MaximumDate /\ e = g))
        /\ \A e, x : e # g /\ OnlyAt(p, e, x) => OnlyAt(f[n], e, x)
        /\ ~Pending(p, g) => OnlyAt(f[n], g, d)
        /\ \A c \in Time : c < t => f[n][c] = p[c]
    BY <2>1, <2>2, ScheduleOne
  <2>5. ASSUME NEW e
        PROVE  Pending(f[n], e) <=>
                 \/ Pending(q, e)
                 \/ \E i \in 1..n : s[i].event = e /\ s[i].date \in t..MaximumDate
    <3>1. Pending(p, e) <=>
            \/ Pending(q, e)
            \/ \E i \in 1..(n - 1) : s[i].event = e /\ s[i].date \in t..MaximumDate
      BY <2>1 DEF AfterEach
    <3>. QED BY <2>3, <2>4, <3>1 DEF d, g
  <2>6. \A c \in Time : c < t => f[n][c] = q[c]
    BY <2>1, <2>4 DEF AfterEach
  <2>7. ASSUME NEW e, NEW x, OnlyAt(q, e, x), \A i \in 1..n : s[i].event # e
        PROVE  OnlyAt(f[n], e, x)
    <3>1. OnlyAt(p, e, x)
      BY <2>1, <2>3, <2>7 DEF AfterEach
    <3>. QED BY <2>3, <2>4, <2>7, <3>1 DEF g
  <2>8. ASSUME NEW i \in 1..n, ~Pending(q, s[i].event),
               \A j \in 1..n : s[j].event = s[i].event => j = i
        PROVE  OnlyAt(f[n], s[i].event, s[i].date)
    <3>1. CASE i = n
      <4>1. ~\E j \in 1..(n - 1) : s[j].event = s[i].event
        BY <2>3, <2>8, <3>1
      <4>2. ~Pending(p, s[i].event)
        BY <2>1, <2>8, <4>1 DEF AfterEach
      <4>. QED BY <2>4, <3>1, <4>2 DEF d, g
    <3>2. CASE i # n
      <4>1. i \in 1..(n - 1) /\ g # s[i].event
        BY <2>3, <2>8, <3>2 DEF g
      <4>2. OnlyAt(p, s[i].event, s[i].date)
        BY <2>1, <2>3, <2>8, <4>1 DEF AfterEach
      <4>. QED BY <2>4, <4>1, <4>2
    <3>. QED BY <3>1, <3>2
  <2>9. AfterEach(E, q, t, s, n, f[n])
    BY <2>4, <2>5, <2>6, <2>7, <2>8 DEF AfterEach
  <2>. QED BY <2>3, <2>9
<1>. HIDE DEF T
<1>5. N \in T
  BY <1>2, <1>3, <1>4, Counting
<1>. QED BY <1>1, <1>5 DEF T
=============================================================================
