------------------------------- MODULE Clocks -------------------------------
(* The clock of a block (clock.cpp, qclock.cpp, clockNoise.cpp): what it    *)
(* reads at a date of the simulation, and at which date it will read a      *)
(* local time.  Quadratic clocks drift, and their noise is drawn anew at    *)
(* each question (GNoiseQClock, which remembers its answers as reference    *)
(* points) or replayed from a file (DNoiseQClock).  The model's times are   *)
(* integers; the coefficients have the denominator Scale.                   *)
EXTENDS Integers, SequencesExt, FiniteSetsExt

CONSTANTS Kinds,      \* the classes of clocks looked at
          D2, Y0, X0, \* d / 2, y0 and x0, over Scale
          Scale,
          Noises,     \* the values that GClockNoise may draw
          Signal,     \* the noise signal of DClockNoise: <<time, noise>>, ..., from a time after 0
          MaxTime,    \* bound: the dates of the simulation
          MaxTimers   \* bound: questions about a local time

VARIABLES kind,
          now,             \* the date of the simulation
          referencePoints, \* sequence of [local, simulation]
          last,            \* the last reading of the block: [date, local]
          timers           \* what getSimulationTime answered: <<local, date>>

vars == <<kind, now, referencePoints, last, timers>>

(* The quadratic clock without noise, over Scale. *)
Quadratic(t) == (D2 * t * t) + (Y0 * t) + X0

(* The last date at which the clock has not passed l, 0 if it always has.   *)
(* Of the two roots it is the one closest to l, and is truncated.           *)
Root(l) == Max({0} \cup {t \in 0..(Scale * MaxTime) : Quadratic(t) <= Scale * l})

---------------------------------------------------------------------------
(* GNoiseQClock.  The list is sorted by both times; a question gives one of *)
(* them, "ask", and looks for the other, "give".                            *)

FirstFrom(points, ask, x) == SelectInSeq(points, LAMBDA p : p[ask] >= x)

(* Bug: the points of the past are dropped, also the last of them.          *)
CleanedToo(points) == SelectSeq(points, LAMBDA p : p.simulation >= now)

Cleaned(points) ==
  LET first == FirstFrom(points, "simulation", now)
  IN  IF first <= 2 THEN points ELSE SubSeq(points, first - 1, Len(points))

(* Bug: the answer is kept above those before it only.                      *)
NotAbove(points, ask, give, x, guess) ==
  LET first == FirstFrom(points, ask, x)
      before == IF first = 0 THEN points ELSE SubSeq(points, 1, first - 1)
  IN  Max({0, guess} \cup {p[give] : p \in ToSet(before)})

(* The answer, kept between those of the points before and after. *)
Between(points, ask, give, x, guess) ==
  LET first == FirstFrom(points, ask, x)
      before == IF first = 0 THEN points ELSE SubSeq(points, 1, first - 1)
      least == Max({0, guess} \cup {p[give] : p \in ToSet(before)})
  IN  IF first = 0 THEN least ELSE Min({least, points[first][give]})

Answer(points, ask, give, x, guess) ==
  LET first == FirstFrom(points, ask, x)
  IN  IF first # 0 /\ points[first][ask] = x THEN points[first][give]
      ELSE Between(points, ask, give, x, guess)

(* insertReferencePoint, unless the question was already answered. *)
Remember(points, ask, x, point) ==
  LET first == FirstFrom(points, ask, x)
  IN  IF first = 0 THEN Append(points, point)
      ELSE IF points[first][ask] = x THEN points
      ELSE InsertAt(points, first, point)

---------------------------------------------------------------------------
(* DClockNoise: linear between the points of the signal, from <<0, 0>> to   *)
(* the first one; it stays at the last, up to the end of 64 bits.           *)

Rounded(n, d) == IF n >= 0 THEN ((2 * n) + d) \div (2 * d) ELSE -(((-2 * n) + d) \div (2 * d))

Line(t, p1, p2) == Rounded((p1[2] * (p2[1] - t)) + (p2[2] * (t - p1[1])), p2[1] - p1[1])

ReplayedNoise(t) ==
  LET next == SelectInSeq(Signal, LAMBDA p : p[1] >= t)
  IN  CASE next = 0 -> Last(Signal)[2]
        [] next = 1 -> Line(t, <<0, 0>>, Signal[1])
        [] next > 1 /\ Signal[next][1] = t -> Signal[next][2]
        [] next > 1 /\ Signal[next][1] # t -> Line(t, Signal[next - 1], Signal[next])

---------------------------------------------------------------------------
(* getTime(t): the answer, and the reference points that it leaves. *)
LocalTime(t, noise) ==
  CASE kind = "PerfectClock" -> t
    [] kind = "GNoiseQClock" ->
         Answer(Cleaned(referencePoints), "simulation", "local", t, (Quadratic(t) \div Scale) + noise)
    [] kind = "DNoiseQClock" -> Max({0, (Quadratic(t) \div Scale) + ReplayedNoise(t)})

(* getSimulationTime(l).  DNoiseQClock looks for the date with its noise    *)
(* from that of the clock without, but both its loops compare l with l.     *)
SimulationTime(l, noise) ==
  CASE kind = "PerfectClock" -> l
    [] kind = "GNoiseQClock" ->
         Answer(Cleaned(referencePoints), "local", "simulation", l, Root(l - noise))
    [] kind = "DNoiseQClock" -> Root(l)

RememberAnswer(ask, x, local, simulation) ==
  referencePoints' =
    IF kind = "GNoiseQClock"
    THEN Remember(Cleaned(referencePoints), ask, x, [local |-> local, simulation |-> simulation])
    ELSE referencePoints

Init ==
  /\ kind \in Kinds
  /\ now = 0
  /\ referencePoints = <<>>
  /\ last = [date |-> -1, local |-> 0]
  /\ timers = {}

(* The scheduler takes an event of a later date. *)
Advance ==
  /\ now < MaxTime
  /\ now' = now + 1
  /\ UNCHANGED <<kind, referencePoints, last, timers>>

(* getLocalTime() *)
ReadTime ==
  \E noise \in Noises :
    /\ last' = [date |-> now, local |-> LocalTime(now, noise)]
    /\ RememberAnswer("simulation", now, LocalTime(now, noise), now)
    /\ UNCHANGED <<kind, now, timers>>

(* getLocalTime(date), for any date. *)
Foresee ==
  \E date \in 0..MaxTime, noise \in Noises :
    /\ RememberAnswer("simulation", date, LocalTime(date, noise), date)
    /\ UNCHANGED <<kind, now, last, timers>>

(* getSimulationTime(local), for any time, one the clock has passed too. *)
AskWhen ==
  /\ Cardinality(timers) < MaxTimers
  /\ \E local \in 0..(Quadratic(MaxTime) \div Scale), noise \in Noises :
       /\ timers' = timers \cup {<<local, SimulationTime(local, noise)>>}
       /\ RememberAnswer("local", local, local, SimulationTime(local, noise))
  /\ UNCHANGED <<kind, now, last>>

Next == Advance \/ ReadTime \/ Foresee \/ AskWhen

Spec == Init /\ [][Next]_vars

---------------------------------------------------------------------------
Replayed == {ReplayedNoise(t) : t \in 0..MaxTime}

(* By how much the noise may take the clock back from one reading to the    *)
(* next: a replayed signal is added as it is, and may fall faster than the  *)
(* clock runs, as those of the repository do; noise that is drawn is kept   *)
(* above the reference points.                                              *)
Fall ==
  IF kind = "DNoiseQClock"
  THEN Max({0, ReplayedNoise(last.date) - ReplayedNoise(last'.date)})
  ELSE 0

(* A clock goes back by no more than its replayed noise falls; a clock that *)
(* draws its noise never does, whatever it was asked about the future or    *)
(* the past.  Read twice at the same date, a clock reads the same, unless   *)
(* it was asked in between for a local time it had passed and gave that     *)
(* date for it: then it keeps this answer and not the first one (getTime,   *)
(* getSimulationTime, cleanReferencePoints: qclock.cpp:83-193, 218-230).    *)
NeverGoesBack ==
  [][LET kept == <<last'.local, last'.date>> \in timers /\ last'.date = last.date
     IN  /\ last'.local + Fall >= last.local \/ kept
         /\ last'.date = last.date => last' = last \/ kept]_last

(* A reading agrees with the dates given before for local times: at earlier *)
(* dates the clock has not passed them, at later ones it has.  The dates of *)
(* a clock with a replayed noise are those of the clock without (its loops  *)
(* compare the local time with itself): its readings are off by the noise   *)
(* (getSimulationTime: qclock.cpp:36-58, 116-165, 232-252).                 *)
Early == IF kind = "DNoiseQClock" THEN Max({0} \cup Replayed) ELSE 0
Late  == IF kind = "DNoiseQClock" THEN -Min({0} \cup Replayed) ELSE 0

TimersAreKept ==
  [][\A timer \in timers :
       /\ last'.date < timer[2] => last'.local <= timer[1] + Early
       /\ last'.date > timer[2] => last'.local >= timer[1] - Late]_last
=============================================================================
