------------------------------ MODULE EventList ------------------------------
(***************************************************************************)
(* Scheduler::eventsMap, the multimap<Time, EventPtr> of future events, as *)
(* one FIFO sequence per date: a multimap keeps entries of equal keys in   *)
(* insertion order and the scheduler always takes eventsMap.begin().       *)
(* Dates beyond Scheduler::maximumDate are never in the map, so its domain *)
(* is 0..MaximumDate.                                                      *)
(***************************************************************************)
EXTENDS Naturals, Sequences

CONSTANT MaximumDate  \* Scheduler::maximumDate

ASSUME MaximumDateAssumption == MaximumDate \in Nat

Time == 0..MaximumDate

(***************************************************************************)
(* Scheduler::schedule, once per element of the sequence s, all for date   *)
(* d, when the scheduler's currentDate is t: an event in the past or after *)
(* maximumDate is dropped, any other goes behind the events of its date.   *)
(***************************************************************************)
ScheduleAll(q, t, d, s) ==
  IF d \in t..MaximumDate THEN [q EXCEPT ![d] = @ \o s] ELSE q

Schedule(q, t, d, e) == ScheduleAll(q, t, d, <<e>>)

(* Scheduler::schedule for each [date, event] of the sequence s in turn.   *)
ScheduleEach(q, t, s) ==
  LET after[n \in 0..Len(s)] ==
        IF n = 0 THEN q ELSE Schedule(after[n - 1], t, s[n].date, s[n].event)
  IN  after[Len(s)]

(***************************************************************************)
(* eventsMap.begin() is the head of the first non-empty date; erase(first) *)
(* removes it.  The code erases after the handler has run: what a handler  *)
(* schedules goes behind the head, so erasing before is the same.          *)
(***************************************************************************)
IsFirstDate(q, d) ==
  /\ d \in Time
  /\ q[d] # <<>>
  /\ \A c \in Time : c < d => q[c] = <<>>

EraseFirst(q, d) == [q EXCEPT ![d] = Tail(@)]

(* Event e is pending, somewhere in q. *)
Pending(q, e) == \E d \in Time : \E i \in DOMAIN q[d] : q[d][i] = e

(* Event e is pending at most once in q, and then for date d. *)
OnlyAt(q, e, d) ==
  \A c \in Time : \A i \in DOMAIN q[c] :
    q[c][i] = e =>
      /\ c = d
      /\ \A j \in DOMAIN q[c] : q[c][j] = e => i = j
=============================================================================
