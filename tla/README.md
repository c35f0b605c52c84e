# VisibleSim: models, checks and proofs

VisibleSim simulates modular robots. Blocks sit in the cells of a lattice; blocks in adjacent cells
are linked by a pair of point-to-point interfaces. Every block runs a *block code*, the user's
distributed program. A single scheduler thread takes dated events out of an event list and consumes
them; a second thread runs the GLUT window, whose keys start and stop the scheduler and whose menu
adds and deletes blocks. This directory models the simulator and its applications in TLA+, checks the
models with TLC and proves invariants with TLAPS.

## 1. The system

| Part | State | Operations | Interaction |
|---|---|---|---|
| Event list (`scheduler.*`) | `eventsMap`, `currentDate`, `maximumDate` | `schedule`, taking the first event | every event is created by a handler, a block code or the user |
| Interfaces (`network.*`, `events.*`) | `connectedInterface`, `outgoingQueue`, `messageBeingTransmitted`, `availabilityDate` | `addToOutgoingBuffer`, `send`, `connect`, the start/stop/enqueue events | events schedule each other; a stop event reaches into the peer's host |
| Blocks and block codes (`buildingBlock.*`, `blockCode.*`) | `localEventsList`, `position` | `scheduleLocalEvent`, `processLocalEvent`, `startup`, `sendMessage` | called by events, call `schedule` |
| World and lattice (`world.*`, `lattice.*`, the worlds of each block type) | `grid`, the links | `addBlock`, `linkBlock`, `linkNeighbors`, `connectBlock`, `disconnectBlock`, `deleteBlock` | called by motions and by the menu |
| Motions (`translationEvents.*`, `rotation2DEvents.*`, `rotation3DEvents.*`) | position, angle, orientation, connectors | start, steps, stop, end | cut the links at the start, make them at the stop |
| Scheduler threads (`cppScheduler.*`, `meldInterpretScheduler.*`, `openglViewer.*`, `simulator.*`) | `state`, `terminate`, `schedulerThread`, the start semaphore | `startPaused`, `start`, `stop`, `deleteScheduler` | two threads share the event list and the scheduler |
| Start semaphore (`sema.h`) | `m_count`, the semaphore of the operating system | `wait`, `signal` | the scheduler thread waits for `start` |
| Floods and gradients (`distanceRB`, `sphereCatoms3D`, `csgCatoms3D`, `smartBlocks1`) | a distance, a parent, a colour | `startup`, a handler per message | block codes: called by events, send messages |
| Reconfiguration (`robot01`, `sbReconf`) | the target map, awaited answers, the neighbours in the train | handlers of map, train, delay and unlock messages | block codes that also schedule motions |
| Meld interpreter (`meldInterpretVM`, `meld`, `MRMeld`) | tuple queues, derivation counts, registers | one computation event per turn | a block code; sends tuples as messages |
| Meld processes and debugger (`meldProcess*`, `Debugger`) | one process per block, commands in flight, pause state | commands over sockets | other processes, and a thread that listens to them |
| Targets (`target.*`, `csg*`) | list of targets, a tree of solids | parsing, `inside`, `isInBorder`, `boundingBox` | read by block codes |
| Configuration (`simulator.cpp`, `commandLine.cpp`, `configExporter.*`) | options, blocks and identifiers | parsing, adding, exporting | before and after the simulation |
| Clocks (`clock.*`, `qclock.*`, `clockNoise.*`) | reference points | time to date, date to time | asked by block codes |
| Statistics (`statsCollector.h`, `statsIndividual.cpp`, `configStat.*`) | counters, distance matrices | updated by events | printed at the end |
| Graphics (`openglViewer.*`, `interface.*`) | windows, traces, selection, menu | mouse and keys; `addTrace` by the other thread | the user's side of the second thread |

What makes each part correct, and where it is stated:

- event list: an event is consumed once, in the order of dates, first in first out within a date
  (`StaysFirst`, `ConsumedOnce`, `NoEventLost`; `DateNeverGoesBack` fails);
- interfaces: a FIFO link between the two hosts that loses messages only when it is cut
  (`ImplementsFifoLink`), no message overwritten or left behind (`WireHasOneStop`, `BufferIsServed`,
  `RightReceiver`, `EveryMessageSettles`);
- blocks: every local event reaches the block code (`LocalListIsServed`);
- world: links are those of the lattice, both ways (`LinksMatchLattice`, `LatticeTopology`), also with a
  user who edits the world, until a cell is freed under another block (`LinksMatchUnlessWiped`), and for
  blocks that turn (`FacesAgree`, `RotationsLand`);
- simulator as a whole: none of its own fatal errors (`NoFatalError`);
- threads: nothing runs before it is asked to, a simulation ends, quitting ends (`NothingRunsUnasked`,
  `MeldJoins`, `AllFinish`, `QuitAlwaysEnds`);
- semaphore: a counting semaphore (`ImplementsCountingSemaphore`, `NoLostWakeup`);
- floods: the result is exact whatever the order of messages, and the flood ends (`FloodIsExact`,
  `FloodsAreExact`, `FloodSettles`);
- reconfiguration: every echo ends when all have answered, a train moves as one, the count of the
  blocks in place is right (`EchoIsExact`, `TrainMovesAsOne`, `CountIsExact`);
- Meld: a fact is held as often as it is derived, retractions reach everything derived from it, linear
  facts are consumed once (`FactsAreCounted`, `HeightsAgree`, `LinearIsConserved`, `GateIsShared`,
  `RowIsFormed`, `SettlesDown`; `PortFactsFit` fails);
- Meld processes: the order of events does not depend on the speed of the processes (`MachinesAgree`);
- around the blocks: a block is found by its identifier and loaded again as it was saved, but for the
  exceptions of section 6 (`BlocksAreFound`), a target is its text (`TargetIsText`), a clock goes back by
  the fall of its replayed noise at most (`ClocksAreSound`), windows and counters show what is
  (`WindowsAgree`, `StatisticsAgree`).

What is hard here: a message lives through five events (enqueue, start, stop, local processing, and
the next start) while links are cut and remade; the handlers rely on each other's events being there
exactly once; the receiver is looked up late; the user's thread changes the world between two events;
dates may pass the end of the simulation; block codes and Meld programs get messages of different links
in any order.

## 2. The modules

The core: event list, network, lattices and threads.

| Module | Models | Actions |
|---|---|---|
| `EventList` | `Scheduler::schedule` and taking the first event: a multimap is a FIFO per date | operators `Schedule`, `ScheduleAll`, `ScheduleEach`, `EraseFirst`, `IsFirstDate`, `Pending`, `OnlyAt` |
| `P2PNetwork` | interfaces, events, blocks, links, translations, as the scheduler thread runs them; per interface `<<block, direction>>`, per block, per cell | one per kind of event: `CodeStart` (also the end of a motion), `Notify`, `ProcessLocal`, `EnqueueOutgoing`, `StartTransmitting`, `StopTransmitting`, `TranslationStart`, `TranslationStop`; `Next` is one turn of the loop of `startPaused` |
| `FifoLink` | what a pair of interfaces promises: messages from a host to a host, in order, lost only when the link is cut | accept, deliver, lose |
| `P2PNetworkGui` | `World::createPopupMenu` and `World::menuChoice` between two events | those of `P2PNetwork`, `OpenMenu`, `AddBlock`, `DeleteBlock` |
| `Lattice` | neighbour tables, opposite directions and the grid index of the square, hexagonal, face-centred cubic and simple cubic lattices | operators |
| `SchedulerThreads` | the scheduler thread and the main thread, one access to shared state per step | one per line that touches shared state |
| `MeldInterpretScheduler` | the other scheduler, of Meld programs, on the same variables: its three nested loops, its `stop()` that detaches the thread | `MeldSchedulerStep`, `MeldKeyStop`, `MeldStop` |
| `LightweightSemaphore` | `sema.h`, one atomic access per step | `Wait`, `Load`, `Exchange`, `Turn`, `Subtract`, `Wake`, `Signal`, `Release` |
| `CountingSemaphore` | what a semaphore promises | wait, signal |

Block codes and block types. Those over links that neither move nor break keep their messages in a bag,
in any order, since `sendMessage` delays each by a random time.

| Module | Models |
|---|---|
| `DistanceFlood` | `distanceRB`: `Startup`, `Receive` |
| `Floods` | the three floods below, side by side, and `FloodsAreExact` |
| `SphereCatoms3D`, `SmartBlocks1`, `CsgCatoms3D` | the block codes of these names: distances counted in one static array; a path marked back to the master; positions passed from block to block, turned by the connectors they arrive at |
| `Robot01` | rules, matrices of conditions and gains; map flooded with acknowledgements, trains, departure and arrival, links cut and remade by motions |
| `SbReconf` | the plane version, with rules of its own: border, head and end of a train, counting of the blocks in place |
| `Catoms2D` | 2D catoms: interfaces that follow the angle, `isBlocked`, rotations, the menu that asks for them |
| `Catoms3DBlock`, `Catoms3D` | connectors, orientations and the 120 motion rules; the links and the rotations |

Meld.

| Module | Models |
|---|---|
| `MeldVM` | one machine as a record: queues, aggregates, provenance counts, retraction, the byte code as instruction records |
| `MeldNetwork` | machines that exchange facts over FIFO links; neighbour notices, timers, taps, motions |
| `MRMeld` | the robots of `MRMeld`, which have no links and send facts directly |
| `MeldProcess` | machines in processes: commands on sockets, the dates past which the simulator may not go |
| `MeldDebugger` | the prompt, the packets, the count of the answers it waits for |

Around the blocks.

| Module | Models |
|---|---|
| `Configuration` | options, elements, identifiers, the menu, saving and loading again |
| `Target` | the list of targets, the parser of constructive geometry, `inside`, `isInBorder`, bounding box |
| `Clocks` | perfect, noisy and replayed clocks |
| `Statistics`, `ConfigStat` | the counters fed by the events of `P2PNetwork`; distances and centres |
| `Viewer`, `Windows` | picking, selection, popup menu, motions under an open menu, traces and their slider; the sliding windows and the input line |

Composition. `P2PNetwork` and `SchedulerThreads` extend `EventList`; `P2PNetworkGui` and `Statistics`
extend `P2PNetwork`; `MRMeld` extends `MeldNetwork`, which extends `MeldVM`. `P2PNetwork` takes its
topology as constants (`Dir`, `Cell`, `Opposite`, `NeighborCell`); the MC modules give it those of
`Lattice`, and `LatticeTopology` proves that every grid of every lattice meets the assumption.
`SchedulerThreads` has the start semaphore as a counter (`obj.starts`), which `LightweightSemaphore` is
shown to implement. `DistanceFlood` is a block code over a network that neither moves nor cuts links.
`MeldNetwork` and the reconfiguration codes use links as `FifoLink` promises them.

`MCSchedulers`, `MCApplications` and `MCServices` put parts side by side that do not interact: a
simulation has one scheduler, one application, and a session looks at one service. An initial state
chooses the part (`scheduler`, `app`, `service`); it starts anywhere and takes all the steps, the
variables of the others keep the value they start with. So the states of such a run are the sum of those
of its parts, and a property of one part names it as hypothesis.

Conventions. Definitions keep the code's names. A definition that `PROJECT.json` lists as the `as` of a
mutant is never used by a specification: it is a plausible mistake in the code, and each property is
violated by one. A date after `MaximumDate` is not scheduled (`scheduler.cpp`), so `MaximumDate` is the
code's own bound. `MaxSends`, `MaxMoves`, `MaxClicks`, `MaxKeys`, `MaxSignals`, `MaxTaps`, `MaxTime`,
`MaxMotions`, `MaxCalls`, `MaxWords`, `MaxTraces`, `MaxTurns`, `MaxPauses`, `MaxTimers`, `MaxEdits`,
`MaxLoads`, `MaxBelow` are bounds of the models; every message of
`P2PNetwork` is sent at most once (`Msg` bounds the traffic).

What is abstract in `P2PNetwork`. The block code is any program: whenever it is called it may send
up to `MaxSends` messages on its linked interfaces, each with a delay of its own (`SendDelay`; the sum is
stored in an `int`: `IntLimit` is the first date that does not fit, and such dates become `FarDate`, which
is after all others or not scheduled at all), and ask for a motion, now or
after a `StartDelay`. It asks as the reconfiguration codes do, after
checking that the block is at rest, that the goal is free and that no other motion has it for its goal;
the simulator itself reserves nothing (`Lattice::insert` throws if the goal is taken), so without that
check a fatal error arises by two motions to one cell. A data rate is a set of possible transmission
durations. The animation steps of a motion only move the picture, so a motion is a start, a stop and an
end. Links are made as in the code, `connect()` by `connect()` around one cell at a time (`Linking`), by
the block that arrives and by each of its neighbours; either half alone would do, so the mutants of
linking are in what a face sees (`FaceAtMutant`). `LinksIn`, the links that the lattice asks for, is
only used by the property.

## 3. The runs

| Run | Instance | Distinct states | What it shows |
|---|---|---|---|
| `motion` | 3 blocks in a row of 4 cells of the simple cubic lattice, 3 messages, 1 motion, dates 0 to 9 | 715,109 | `NoFatalError`, `WireHasOneStop`, `BufferIsServed`, `LocalListIsServed`, `RightReceiver`, `LinksMatchLattice` |
| `fifo` | 3 blocks on a 2 by 2 rhombus of the hexagonal lattice, 2 messages, 1 motion, dates to 12 | 55,252 | `ImplementsFifoLink`: interfaces implement `FifoLink`; `EveryMessageSettles`: every accepted message is handled or lost with its link |
| `gui` | 2 blocks and a third to add, 2 messages, up to 2 in one call, 1 motion, 2 menu choices | 2,060,557 | `LinksMatchUnlessWiped`: the links stay those of the lattice while a user edits the world, moving blocks too, until a cell is freed under another block |
| `gui_fatal` | as `gui`, no motion | violation | `NoFatalError` does not (section 6) |
| `flood` | 5 blocks of the hexagonal lattice, a triangle with a tail of two; 3 is the largest distance | 16,830 | `NeverUnderestimates`, `BetterDistanceIsComing`, `FloodIsExact`, `FloodSettles` |
| `semaphore` | 3 threads, 1 spin, 3 signals | 140,816 | `SemaInv`, `ImplementsCountingSemaphore`, `NoLostWakeup` |
| `schedulers` | both schedulers with 3 events, 3 keys or clicks, dates to 2, five command lines; 2 machines in processes; the debugger and 2 machines | 814,309 | `NoEventLost`, `NothingRunsUnasked`, `MeldJoins`, `MachinesAgree`, `AllFinish`, `QuitAlwaysEnds` |
| `date` | the threads, in a window | violation | `DateNeverGoesBack` fails (section 6) |
| `meld` | 3 blocks that run `rainbow` or `cycle`, 3 robots that run `demo`; 1 move, 1 tap, timers to 3 | 340,300 | `FactsAreCounted`, `HeightsAgree`, `LinearIsConserved`, `GateIsShared`, `RowIsFormed`, `SettlesDown` |
| `meld_links` | 3 blocks in a row, the end one leaves | violation | `PortFactsFit` fails (section 6) |
| `applications` | `robot01` on 4 blocks and three shapes, `sbReconf` from full rectangles, the three floods, 2D and 3D catoms | 550,237 | `EchoIsExact`, `TrainMovesAsOne`, `CountIsExact` (in three parts: the count, `BorderOnce`, `CountedAtRest`), `FloodsAreExact`, `FacesAgree`, `NotBlockedIsNoCut`, `RotationsLand` |
| `services` | one of seven services | 2,853,229 | `BlocksAreFound`, `TargetIsText`, `ClocksAreSound`, `WindowsAgree`, `StatisticsAgree` |

Why the bounds are enough. In `motion` three blocks give a middle block with two links, so that two
transmissions meet at one host while the third block moves away and comes to a new neighbour; durations 1
and 2 let a transmission end before, at and after the next enqueue; three messages fill a buffer behind
a busy wire. The hexagonal rhombus has a cycle of three blocks and a free cell next to two of them, so a
motion both keeps a neighbour and loses one; `MotionTime` only has to exceed the transmission times, and
the dates leave room for every message and the motion. In `gui` two menu choices are what it takes to
delete a block and put another in its place; the motion may start and stop before, between and after
them, and between the menu and its choice, so that a block is deleted while it moves, comes back after
its deletion, or has its cell freed when it is another's. In `motion` and `gui` the links of the start
configuration are made by the code too, by a call for each cell in turn. In `flood` the triangle is the shortest cycle, on which
messages overtake each other and a worse distance can come first; the tail reaches `MaxDistance`, where
the sum of 16 bits stops being a distance. In `schedulers` three events are one being consumed, one its
handler schedules and one the user's thread adds; two machines are what it takes for one to be ahead of
the other. In `meld` a column with a block hanging beside its top gives heights that change twice; three
robots (the program's own configuration has five) are two who wait and one who is late. In `applications`
a motion per catom, or up to eight turns of one 2D catom, which is beyond a whole turn; trains of two and
three blocks slide along a wall and turn around its end; the floods run on several graphs. In `services`
five words hold a nested group with a transformation, and the turns and factors include a slant of 36.87
degrees (sine 3/5) and a mirror, for which the box is wrong and the rest must be right; the documents
have an identifier 0 before and after the one that it may displace; the replayed signal of the clock
rises, falls faster than the clock runs and ends; one motion is enough for a menu to be opened before,
during and after it, and for a block to be deleted while it moves.
The proofs of section 5 have none of these bounds.

Deadlock is off in every run because all of these systems may stop: the simulation ends when the list of
events is empty or its length is over, floods, motions, programs and threads end.

## 4. Fairness

The scheduler thread runs until its loop ends, so `P2PNetwork` and `DistanceFlood` have weak fairness on
`Next`: as long as there is an event, it is consumed. Nothing is assumed of a particular event. That
every message settles is up to the dates, and that the flood ends is up to the block code. In
`SchedulerThreads` and `MeldInterpretScheduler` the two threads and the clock are weakly fair, as the
operating system runs all threads; the user is not fair, and need not press any key. In
`LightweightSemaphore` a thread that can move moves, but nobody need call `signal()`: `NoLostWakeup` only
says that a waiter for whom there is a signal wakes. In `MeldNetwork`
notices, messages on a link, the passing of the date and the motions a program has asked for are weakly
fair, as they are dated events; moves of the user and taps need not happen. A computation, and in
`MeldProcess` and `MeldDebugger` the simulator, each machine and each socket, have
`[]<>~Due \/ []<><<A>>_v`, where `Due` states in the model's terms that there is something to do: it is
weak fairness with its enabling spelt out.

## 5. The proofs

All are by TLAPS, for every value of the constants that meets the named assumptions of the modules.
Each proof module has one lemma per action (or per part of the invariant) and ends in its theorems.

**Network** (`EventListProofs`, `P2PNetworkProofs`; assumptions `TopologyAssumption`,
`TimingAssumption`, `MotionsAreSlower`, `MaximumDateAssumption`). `IInv` is inductive.
`EventListProofs` says what scheduling and consuming one event does to whether another is pending and at
which single date (`OnlyAt`). Most properties of the run `motion` are not inductive on their own.
`NoFatalError` needs `BufferIsServed` and `LocalListIsServed`. Those need `WireHasOneStop`, which needs
`NothingOverdue`, for an event of the past would never be consumed. `RightReceiver` is the long one: the
code looks the receiver up when a transmission stops, so the wire of a linked interface must hold a
packet for its present peer (`WireFollowsLink`); a link can only be remade after a motion has stopped,
and by then every transmission that had begun when it was cut is over, because availability dates are
near (`AvailabilityIsNear`) and motions last longer than transmissions (`ArrivalsFindQuietLinks`). This
is the one place where timing matters, and `MotionsAreSlower` is the assumption: a motion takes many
steps of 40 ms, a transmission a few bytes at the interface's rate. The mutant that gives a motion no
time breaks it. The other strengthenings are about motions (`MotionsAreExclusive`: one per block and per
goal) and the grid. What cutting and making links does to the lattice is stated once
(`CutsFollowTheLattice`, `JoinsFollowTheLattice`) and serves motions and the user alike.

**FIFO links** (`P2PNetworkProofs`, second part). `LinksAreFifo` says that `Spec` implements `FifoLink`
under the refinement mapping of `P2PNetwork`: the channel of an interface (`Channel`) is what has arrived
from it in the local events of a block, then the message on its wire, then its outgoing buffer; a message
is fresh while a block code has it or its enqueue event is pending; a link is up while it is linked. The
parts of the channel are moved by different events, so the steps from buffer to wire and from wire to
local list must leave the concatenation as it was (`FirstMoves`), the handling of a local event must take
its first element (`ProcessLists`) and only a cut may shorten it, to a prefix (`Prefix`). `IInv` is not
enough for that, and `FifoInv` adds three things. `SentOnce`: the enqueue event of a message is pending
once, for one interface, and the block code has the message no more, so that what is accepted is fresh.
`OneHolder`: what has arrived from an interface and is not handled is all in the list of one block, the
host of the peer if there is one. This is the hazard of the proof: after a motion the peer may be on
another block, and if the old one still had messages of the interface, later ones could be handled
before them. It cannot, because a local event is handled at the date at which it is received
(`LocalListIsServed`), and the block of the other end can only arrive at a later date; `OneHolder` says
so of every pending arrival. `WireHasItsSource`: a packet names the interface it is sent from.
The recursive function that collects the messages of a list is handled by least counterexamples
(`LeastNumber`), as no induction theorem can be used: `MessagesExist` that there is such a function,
`MessagesAppend` and `MessagesTail` what it does at the two ends of a list. There is one lemma per action
again, each of which proves `FifoInv'` and `Link!Next`, and `NextLinks` joins them.

**Network with a user** (`P2PNetworkProofs`, third part). With a user who deletes and adds blocks, `IInv` fails:
`gui_fatal` shows it, and even without an exit a link that is cut and made again finds the start event
of its predecessor and then gets its own, so that a message on the wire is overwritten and the second
stop event delivers nothing (`Received(NULL)`). `GuiInv` is what remains: types, `NothingOverdue`,
`LocalListIsServed`, `GridMatchesPositions`, `LinksMatchUnlessWiped` and `MotionsAreOrderly`. The user
may delete a block whose motion is pending or under way, and choose from a menu that was opened many
events ago. `disconnectBlock` frees the cell of `block->position` (`world.cpp:162`), which a moving block
has left and a deleted one has given up; if another block has come there since, the lattice loses it, and
links are no longer those of the lattice. The history variable `wiped` becomes true exactly then
(`Wipes`), and `LinksMatchUnlessWiped` says that nothing else sets links and lattice apart: not a block
that is deleted, whose motion goes on and inserts it again, nor an addition beside a moving block.
`MotionsAreOrderly` is needed because a moving block is in no cell: it says that a block has one pending
motion and is nowhere in the grid between its start and its stop. Its cell before the start, and its goal
at the end, may be another's; at the goal the simulator then exits and the lattice stays as it was.
The theorems `GuiInvariance`, `GuiLinksFollowTheLattice` and `GuiLocalListsAreServed` hold for any number
of clicks.

**Threads** (`SchedulerProofs`; assumption `ThreadsAssumption`). `AnyInv` is inductive for both
schedulers, every command line, any finite set of events and any number of keys. It has three parts.
`TypeInv` is about fields. `EventInv` follows an event from hand to hand: it is at one place of the list
(`ListInv`), or taken by the scheduler and still in the list until it is erased (`TakenInv`,
`ConsumedInv`), or held by one of the two threads between its creation and its insertion (`HeldInv`);
so `Accounted` says that without a window every event is consumed, pending or being inserted.
`ControlInv` relates the program counters to the lock (`LockInv`), the loop that runs (`LoopInv`), the
main thread that has only to wait (`TerminalInv`), the start that was asked for (`UnaskedInv`) and the
thread pointer of the Meld scheduler (`MeldInv`). The parts lean on each other: that the event taken is
one of the list needs that the loop takes none from an empty one (`LoopInv`); that nothing is lost needs that without a window the loop ends on an
empty list only; that nothing runs unasked needs that a wake-up before a start comes from the deletion,
which has set the state to ENDED. Theorems: `AnyInvariant`, `ThreadsTyped`, `EachConsumedOnce`,
`NoEventIsLost`, `OnlyAskedRuns`, `MeldThreadJoined`; with a further invariant about what comes before
the event being handled, `HandledStaysFirst`; and the action property `DateAloneNeverGoesBack`, which
says that without a window the date never goes back, where the run `date` shows that with one it does.

**Lattices** (`LatticeProofs`). The opposite of the opposite is the direction; each entry of a neighbour
table is undone by the entry in the opposite direction in the table of the parity of the cell it leads
to; hence every grid is a topology for `P2PNetwork`, and its theorems hold on the simulator's own
lattices. `getIndex` is a number in mixed base and therefore injective inside the grid.

**Flood** (`FloodProofs`). The number of hops is the greatest function that is 0 at the master
and grows by at most one over a link. So exactness needs no induction over paths: when nothing is in
transit, `BetterDistanceIsComing` says that the computed distances are such a function, so they are at
most the number of hops, and `NeverUnderestimates` says they are at least that. The strengthenings are
`NothingReceivedYet`, because `startup()` runs again for each neighbour added, and may only forget a
distance that nobody has been told of yet, and `MessagesAreOld`. The run checks that the definition of
the number of hops agrees with the usual one, by balls around the master.

**Three more floods** (`FloodProofs`, second part). `Floods` puts the three modules side by side and
assumes of their constants what `FloodsAssumption` says: finite blocks, links that go both ways for
`smartBlocks1`, cells and orientations for `csgCatoms3D`. Their properties speak
of distances by balls around the source, which are defined by recursion, and of paths. The library's
induction theorems cannot be used (their parameter is an operator), but its statement that `<` on `Nat`
is well founded can: `LeastNumber` gives every non-empty set of numbers a least one, and each fact about
all numbers is proved by looking at its least counterexample. `LevelsExist` shows in this way that the
recursive definition of the balls defines something, `LevelsAreDistances` that the balls are the
distances of the links, and `LevelsStop`, by counting, that they stop growing before the number of
blocks. `BagTake`, `BagPut` and `BagNew` say what taking and adding a message does to a bag.
`SphereInv` adds to the bounds of the distance flood that the array holds, at each distance, the number
of catoms that have it: a catom that improves must leave the place where it was counted. `SmartInv`
keeps a set of coloured blocks, the path so far: each of its blocks has its exact distance and a
neighbour one hop closer, which is in the set or has an acknowledgement with its distance on the way to
it (`Told`), and the goal, once its distance is exact, has told its neighbour. When no message is left
the set is the path of `PathIsMarked`, with `SmartReached` and `SmartComing` for the distances. The
property does not say that each coloured block is on a path: one coloured by an acknowledgement for a
distance that fell afterwards stays coloured, as on the graph
1-3, 3-4, 4-5, 5-6, 6-2, 1-7, 7-5, 3-6 of seven blocks. `CsgInv` says that
what a catom is told is its cell, if all are turned alike (`CsgSeen`: the orientation cancels out of a
connector and its opposite), and that the neighbours of a placed catom are placed or about to be:
`ShapeDrawn`. `EachFloodIsExact` is the property of the run, for all three.

**2D catoms** (`Catoms2DProofs`; assumption `Catoms2DAssumption`: at the start the catoms are in cells of
their own, in the plane y = 0, the only one in which `HLattice::worldToGridPosition` puts a catom that
has turned). `TurnInv` is inductive for any number of catoms, any plane, any number of requests and any
order of the events of several rotations. `CellsAgree` says that the grid holds the catoms that are not
turning; `AnglesAreWhole`, that an angle is a whole number of sixths of a turn but for the steps of a
rotation that has begun; `LinksAgree` says of each interface which one it is linked with, from the
cells and the angles; `PivotsStand`, that while the pivot of a catom has not moved, the interface it
turns on faces it. Two lemmas carry the geometry. `Roll`: a sixth of a turn about a neighbour, computed
in half cells on what is drawn (`ToWorld`), lands on the next of the six cells around it, in rows of
both parities. `IndexOfSide`, `SideOfIndex`: for whole angles the two integer divisions of
`getInterface` pick each interface for one direction and are undone by adding the angle, up to the
sixth whole turn. So `LinksAgree` is `FacesAgree` (`FacesFollow`), and a catom that stops beside a pivot that stayed finds
it in the direction that its interface has been turned to. Theorems: `TurnInvariance`,
`LinksFollowRotations`, `RotationsKeepContact`, until the program stops on an index out of range, a
pivot that is gone or a cell that is taken. A fourth, `NotBlockedLeavesNoCut`, is about a catom that may
leave: if `isBlocked` does not call it blocked, the sides taken of it are consecutive and three at most
(`RunIsFound`, `SidesAreClose`), catoms on two sides next to each other are linked, by `Roll`
(`SidesAreLinked`), and the ground, which counts as a side taken, never lies between two catoms
(`GroundIsAtTheEnd`): its neighbours hold together without it (`NearHoldTogether`).

**Echo of `robot01`** (`Robot01Proofs`; assumption `RobotAssumption`: finitely many blocks, a lattice in
which a block that sees another is seen by it through one face, and a start with a target that is not
empty, one block to a cell, in one piece). `EchoIsExact` says of the flood of the map that a block waits
for as many answers as it is owed, maps and acknowledgements in the queues and blocks that wait for it
all counted (`Owed`), and that when no block without a parent waits, every block has the map. It is about
the time until the first train leaves, since a motion cuts links with what is on them; but trains form
while the flood still runs, and their messages share its queues. So the proof first shows of the
handlers of trains, one lemma each, that they are quiet: they leave the fields of the flood as they are
and send only behind what was sent (`Quiet`, `Noise`). What remains of any handler is a reply of the flood (`Replies`): it takes a
message, sends maps on some links and acknowledgements on others, and gains or answers a parent. From
that the answers owed to the receiver and to its neighbors are counted again. `EchoInv` adds to
the count: `MapsAhead`, that behind a neighbor that has the map there is a map on the way, and noise
comes only behind it, so that a block without the map forms no train and a block that has the map
reaches all (`EchoIsComplete`); `ParentsOk`, that a parent has the map and is still linked; `NoCircle`,
that in every set of blocks one waits for nobody in the set, without which all could wait for one another
with nothing in transit. Theorems: `EchoInvariance`, `EchoExactness`.

**Semaphore** (`LightweightSemaphoreProofs`). `SemaInv` ties `m_count` to the permits of the operating
system, the signals that are on their way to release one and the threads that are to wait; with it every
step maps to a step of `CountingSemaphore` or to a stutter.

Only model-checked:

- liveness (`EveryMessageSettles`, `FloodSettles`, `AllFinish`, `QuitAlwaysEnds`, `NoLostWakeup`,
  `SettlesDown`), which is out of the prover's reach;
- the Meld interpreter and the targets, whose modules have RECURSIVE operators (byte code and trees
  nest), and what is composed with them in `services`;
- `MachinesAgree`, what trains do once they leave (`TrainMovesAsOne`), the counts of `sbReconf`
  (`CountIsExact`) and the turning 3D catoms (`RotationsLand`), whose proofs are left (section 7).

## 6. What the code does and its comments do not say

Violations that a run exhibits:

- `gui_fatal`: `disconnectBlock` empties buffers but leaves the start event that was to send their
  contents. If the user deletes a block and adds one in its place before that event is consumed, `send()`
  finds the link up and the buffer empty, and the program exits.
- `date`: `schedule()` tests the date before it takes the lock, so an event of the window's thread can be
  inserted in the past, and `currentDate` goes back.
- `meld_links`: the notice of a neighbour that leaves names the opposite face, and the fact that there is
  a vacant port is retracted for the port of the other neighbour: a block with neighbours on opposite
  faces ends with more facts about ports than ports.

Seen while modelling, in the model as in the code, and excepted or bounded by name where a property
would fail:

- The user's changes. A block that is deleted while it moves, or moved after it was deleted,
  frees a cell that may be another block's by then (`wiped` in `P2PNetworkGui`); its events go on and
  write to a picture that was deleted (`crashed = "picture"` in `Viewer`). The popup menu tests the face
  when it opens and adds when the choice is made (`world.cpp:276`, `world.cpp:216`): if a block came
  between, `addBlock` exits; if one left, the button stays inactive (`stale`).

- Threads. In terminal mode a short simulation may be over, and `schedulerThread` NULL, before the main
  thread calls `waitForSchedulerEnd()` (`openglViewer.cpp:517`, `cppScheduler.cpp:164`): the model says
  `crashed`. In real time the loop tests the date of the event it has just consumed and consumes the next
  whatever its date (`cppScheduler.cpp:105`). The Meld scheduler's `equilibrium()` is always false, so
  FASTEST with `-s inf` goes on to `end()` (`meldInterpretScheduler.cpp:100`); nothing sets PAUSED.
- Meld processes. After a time breakpoint `numberExpected` drops below 0, which no property objects to;
  `handlePauseCommand` is also called at an equilibrium for which no pause was asked; the simulator goes
  on after a break (`meldProcessScheduler.cpp:118`). External machines take at least 1 us per command, and the
  shortcut `date < minReallyReached` never fires within the bounds.
- MRMeld. The case EVENT_TRANSLATION_START is dead; a fact without interface has face -1, that is 255;
  the messages of robots have no delay, which the model does not rely on.
- `robot01`. Two heads can share blocks of their trains; the block at the end answers for the block of
  linkPrev; blocks can leave the grid; a TRANSLATION_END with no motion left and no next block is a NULL
  use; the validating functions have no caller. `MaxGain` bounds the table of gains.
- `sbReconf`. From full rectangles (115 of the 150 configurations shipped) the properties hold; from
  shapes with arms or isthmuses trains split, two may run, stairs reach a NULL use and an empty
  `possibleRules` too. `testIsthmus` has a case that never applies; SET_RDV may be past its date.
- 2D catoms. The angle is never reduced: after seven more turns one way than the other the index of an
  interface is -1; the menu takes -1 for a catom; two catoms may land in one cell. `FacesAgree` and
  `RotationsLand` are about rotations before that, and for 3D catoms before a cell is taken or missed.
- 3D catoms. 108 of the 120 rules land on the connector they name; the 12 of `addLinks4(8,9,10,11)`
  (`catoms3DMotionRules.cpp:36`) do not, and 24 of those between opposite connectors of a square land two
  cells away without a test of what is between. `insert` does not test that a cell is in the grid.
- `smartBlocks1` writes `isAck` and reads it only just after a distance is taken. In `csgCatoms3D` the
  positions depend on the order of messages when catoms are not turned alike. `sphereCatoms3D` does not
  count its source.
- Clocks. The noise of a date is drawn anew at each question; the correction loops of the noisy clock
  never run (`qclock.cpp:233`). A replayed signal is added as it is: where it falls faster than the clock
  runs, as the XMEGA data of the repository do, local time goes back (`NeverGoesBack` allows the fall and
  no more); `createXMEGA_RTC_OSC1K_CRC` draws `y0` from `mean[0]` (`qclock.cpp:273`), so that such a
  clock hardly runs and its noise is most of what it reads. A clock with drawn noise that is asked for a local time it has passed may answer with
  the present date, and then reads that time instead of the one it read before.
- Configuration. A deleted block stays in the map of blocks and is saved (`world.cpp:168`); 3D
  orientations are saved as "rotation" and loaded as "orientation"; 2D angles are never loaded; which
  block is the master is kept by two of the worlds only; id 0 of a manual numbering takes the one after
  the greatest so far, and a later block of the document that has that id is on the lattice but not in
  the map of blocks (`Displaced`, `simulator.cpp:337`, `robotBlocksWorld.cpp:55`); the seed of random
  numbering is not used. `ReloadIsExact` is about blocks as far as the loaders read what is written.
- Targets. The box of a turned solid is made of the images of two corners: a turn of 45 degrees gives a
  box of no width and a negative factor an inverted one (`csg.cpp:211`, `csg.cpp:244`), and cells of the
  target are cut away. `TargetIsInBox` is about the other texts (`KeepsBox`); the tree and the border are
  right for all. A column or row of an odd plane may be -1; a colour leaks to the next solid; a brace after a
  transformation ends the enclosing group; a grid target reads its first line only; an unknown format
  gives NULL, and the next call reads the first target again (`target.cpp:25`).
- Viewer. Picking nothing reads before the vector; an obstacle can be picked and gives NULL; the traces
  are read twice without the lock (`crashed` names both); a
  trace that is added while the lines of the selected block are counted costs the slider one line at most
  (`late`); the slider has no lower bound (`MaxBelow`); a
  tap takes a face of its own making (`openglViewer.cpp:211`).
- Statistics. The record of the outgoing sizes stays too high after a cut, by the messages it dropped
  (`world.cpp:149`; `QueuesAreCounted` says so exactly, with the history variable `dropped`); a deleted
  block keeps its record; the centroid is only meant for connected configurations.

## 7. Not modelled, and the plan

Not modelled: geometry in floating point (`worldToGrid`, distances of solids but for
integers and turns with rational sine and cosine), the instructions of Meld on floats, printing, drawing, camera and help, OpenGL picking,
elapsed times and means, the loading of noise files, XML as text (documents are records), TinyXML. Not
modelled within the modelled parts: `removeEventsToBlock`, `addP2PNetworkInterfaceAndConnectTo` and
keywords, which nothing calls; the nodes of the multimap, which the scheduler erases without the lock; the echo of
`simpleColorCode1`; `bbCycle`; the debugging mode of the Meld scheduler and the real-time mode of the
processes.

Done, in the order of the plan: event list, network, FIFO links and their proofs; lattices; threads;
semaphore; floods; reconfiguration; Meld; processes and debugger; turning blocks; services; the proofs of
the threads, of the network with a user, of the four floods, of the turning 2D catoms and of the echo of
`robot01`.

What is left to prove, most telling first:

1. `Catoms3D`: the links follow the turns, as `LinksAgree` does in the plane, from the lemma that the 24
   orientations are a group acting on the connectors.
2. `SbReconf`: `CountIsExact`. Its waves are echoes as in `robot01`, with a second one for the border; the
   argument of `Robot01Proofs` (quiet handlers, replies, answers owed) carries over, but the second wave
   runs after motions, so it needs that nothing moves meanwhile (`CountedAtRest`) as an invariant first.
3. `MeldProcess`: no machine can still ask for a date that was consumed.
