------------------------------- MODULE FifoLink -------------------------------
(***************************************************************************)
(* What the interfaces promise to the block codes: every directed link is  *)
(* a FIFO channel without duplication, that loses messages only when it is *)
(* cut, and then the most recent ones.                                     *)
(***************************************************************************)
EXTENDS Naturals, Sequences

CONSTANTS Link, Msg

VARIABLES
  channel,   \* per link, the messages accepted and not handled
  fresh,     \* the messages never accepted
  up         \* per link, is it there

vars == <<channel, fresh, up>>

Init ==
  /\ channel = [l \in Link |-> <<>>]
  /\ fresh = Msg
  /\ up \in [Link -> BOOLEAN]

Prefixes(s) == {SubSeq(s, 1, n) : n \in 0..Len(s)}

Accept(l) ==
  /\ up[l]
  /\ \E m \in fresh :
       /\ channel' = [channel EXCEPT ![l] = Append(@, m)]
       /\ fresh' = fresh \ {m}
  /\ UNCHANGED up

Handle(l) ==
  /\ channel[l] # <<>>
  /\ channel' = [channel EXCEPT ![l] = Tail(@)]
  /\ fresh' \subseteq fresh
  /\ UNCHANGED up

(* Messages are refused, links cut and made; only what is on a link that   *)
(* is or goes down can be lost.                                            *)
Change ==
  /\ up' \in [Link -> BOOLEAN]
  /\ fresh' \subseteq fresh
  /\ \A l \in Link :
       IF up[l] /\ up'[l] THEN channel'[l] = channel[l]
       ELSE channel'[l] \in Prefixes(channel[l])

Next == Change \/ \E l \in Link : Accept(l) \/ Handle(l)

Spec == Init /\ [][Next]_vars
=============================================================================
