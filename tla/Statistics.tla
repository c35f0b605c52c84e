----------------------------- MODULE Statistics ------------------------------
(***************************************************************************)
(* The statistics of a run (statsCollector.h, statsIndividual.cpp): the     *)
(* totals of the simulator and, with the option -i, a record for each       *)
(* block, which the events of P2PNetwork keep up to date as they are        *)
(* consumed and Scheduler::printStats summarises at the end.                *)
(***************************************************************************)
EXTENDS P2PNetwork

VARIABLES stats,      \* BuildingBlock::stats
          collector,  \* StatsCollector
          dropped     \* history: messages disconnectBlock took from a block's queues

svars == <<vars, stats, collector, dropped>>

Larger(a, b) == IF a < b THEN b ELSE a
Total(f)     == FoldFunction(LAMBDA n, sum : n + sum, 0, f)

-----------------------------------------------------------------------------
(* StatsIndividual: the operations on the record of one block *)

NewStats == [sentMessages |-> 0, receivedMessages |-> 0, motions |-> 0,
             outgoing |-> 0, incoming |-> 0,
             maxOutgoing |-> 0, maxIncoming |-> 0, maxQueue |-> 0]

\* updateQueueSizeStats, after a size has changed.
UpdateQueueSize(s, out, in) ==
  [s EXCEPT !.outgoing = @ + out, !.incoming = @ + in,
            !.maxOutgoing = Larger(@, s.outgoing + out),
            !.maxIncoming = Larger(@, s.incoming + in),
            !.maxQueue    = Larger(@, s.outgoing + out + s.incoming + in)]

Queued(s)    == UpdateQueueSize(s, 1, 0)
Sent(s)      == [UpdateQueueSize(s, -1, 0) EXCEPT !.sentMessages = @ + 1]
GotMessage(s) == [UpdateQueueSize(s, 0, 1) EXCEPT !.receivedMessages = @ + 1]

\* Mutant: a notification is counted like a message.
ProcessedAny(s, local) == UpdateQueueSize(s, 0, -1)

Processed(s, local) == IF local.kind = "NIReceive" THEN UpdateQueueSize(s, 0, -1) ELSE s

-----------------------------------------------------------------------------
(* Where the events call them *)

\* Mutant: a message counts as sent once it is queued.
SendsWhenQueued(e) == e.kind = "EnqueueOutgoing" /\ Linked(e.on)

\* send() gets past its checks: it takes a message from the queue of ni.
Sends1(e) == /\ e.kind \in {"StartTransmitting", "StopTransmitting"}
             /\ Linked(e.on) /\ outgoingQueue[e.on] # <<>>

Receiver(e) ==
  IF e.kind = "StopTransmitting" /\ Linked(e.on) THEN connectedInterface[e.on][1] ELSE NULL

After(b, s, e) ==
  CASE e.kind = "EnqueueOutgoing" /\ e.on[1] = b -> IF Linked(e.on) THEN Queued(s) ELSE s
    [] e.kind = "ProcessLocal" /\ e.on = b ->
         IF localEventsList[b] = <<>> THEN s ELSE Processed(s, Head(localEventsList[b]))
    [] e.kind = "TranslationEnd" /\ e.on = b -> [s EXCEPT !.motions = @ + 1]
    [] Receiver(e) = b -> GotMessage(s)
    [] Sends1(e) /\ e.on[1] = b -> Sent(s)
    [] OTHER -> s

\* StatsCollector: what was in the event list while e was consumed is what is
\* left afterwards, and e.
Pendings(q) == Total([t \in Time |-> Len(q[t])])

Collect(c, e) ==
  [messagesProcessed |-> c.messagesProcessed + (IF Sends1(e) THEN 1 ELSE 0),
   motionsProcessed  |-> c.motionsProcessed + (IF e.kind = "TranslationEnd" THEN 1 ELSE 0),
   eventsProcessed   |-> c.eventsProcessed + 1,
   largestEventsQueueSize |-> Larger(c.largestEventsQueueSize, 1 + Pendings(eventsMap'))]

\* Minimum, sum and maximum over the blocks, of which getStats also prints the
\* mean and the standard deviation.
Summary(f) == [min |-> CHOOSE n \in Range(f) : \A m \in Range(f) : n <= m,
               sum |-> Total(f),
               max |-> CHOOSE n \in Range(f) : \A m \in Range(f) : m <= n]

QueuedOf(b) == Total([d \in Dir |-> Len(outgoingQueue[<<b, d>>])])

-----------------------------------------------------------------------------

SInit ==
  /\ Init
  /\ stats = [b \in Block |-> NewStats]
  /\ collector = [messagesProcessed |-> 0, motionsProcessed |-> 0, eventsProcessed |-> 0,
                  largestEventsQueueSize |-> Pendings(eventsMap)]
  /\ dropped = [b \in Block |-> 0]

\* disconnectBlock clears the queues without a word to the records.
CountEvent(e) ==
  /\ stats' = [b \in Block |-> After(b, stats[b], e)]
  /\ collector' = Collect(collector, e)
  /\ dropped' = IF e.kind # "TranslationStart" THEN dropped
                ELSE [b \in Block |-> dropped[b] + QueuedOf(b) - QueuedOf(b)']

SNext ==
  /\ ~exited
  /\ \E t \in Time :
       /\ IsFirstDate(eventsMap, t)
       /\ now' = t
       /\ Consume(t, Head(eventsMap[t]), EraseFirst(eventsMap, t))
       /\ CountEvent(Head(eventsMap[t]))

SSpec == SInit /\ [][SNext]_svars

-----------------------------------------------------------------------------
(* Properties *)

Messages(b) == SelectSeq(localEventsList[b], LAMBDA l : l.kind = "NIReceive")

\* The incoming size counts the messages, and not the notifications, that wait
\* for the block code, whatever links are cut meanwhile.  The outgoing size, and
\* so the maxima the run reports, are too high by the messages that cuts took
\* from the queues (world.cpp:149) of either end, for the rest of the run, and
\* by no other (statsIndividual.cpp:60, events.cpp:208, buildingBlock.cpp:176).
QueuesAreCounted ==
  /\ \A b \in Block : stats[b].incoming = Len(Messages(b))
  /\ \A b \in Block : stats[b].outgoing = QueuedOf(b) + dropped[b]
  /\ \A b \in Block : QueuedOf(b) + dropped[b] <= Summary([a \in Block |-> stats[a].maxOutgoing]).max
  /\ \A b \in Block : QueuedOf(b) + dropped[b] + Len(Messages(b))
                        <= Summary([a \in Block |-> stats[a].maxQueue]).max

\* Every message sent is received, on a wire, or, only once there have been
\* motions, lost; and the totals are those of the blocks (network.cpp:150).
MessagesAddUp ==
  LET sent     == Summary([b \in Block |-> stats[b].sentMessages]).sum
      received == Summary([b \in Block |-> stats[b].receivedMessages]).sum
      flying   == Cardinality({ni \in NI : messageBeingTransmitted[ni] # NULL})
  IN /\ sent >= received + flying
     /\ moves = 0 => sent = received + flying
     /\ collector.messagesProcessed = sent
     /\ collector.motionsProcessed = Total([b \in Block |-> stats[b].motions])
     /\ collector.largestEventsQueueSize >= Pendings(eventsMap)
=============================================================================
