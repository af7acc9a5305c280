# Formal models of ndnSIM

This directory holds TLA+ models of the NDN forwarding daemon (NFD) as it runs
inside the ns-3 simulator (`src/src/ndnSIM`), and of the two concurrent Python
programs of the repository, the test runner and the visualizer; TLC
configurations that check them; and TLAPS proofs. Paths below are relative to
`src/src/ndnSIM` unless they start with `src/`.

## 1. The system

The repository is an ns-3 distribution with ndnSIM. ndnSIM puts one NFD
forwarder on every simulated node.

* A *face* hands a packet to a pipeline of the *forwarder*
  (`NFD/daemon/fw/forwarder.cpp`). The pipeline changes the *Pending Interest
  Table* (PIT), asks the *Content Store* and the *Dead Nonce List*, and lets the
  *strategy* of the namespace decide where the Interest goes.
* Every PIT entry ends in `onInterestFinalize`, which the *Scheduler* of ndn-cxx
  calls. All simulated nodes share one Scheduler, and the Scheduler lives on one
  event of the ns-3 queue.
* The *RIB* (`NFD/daemon/rib`) holds the registered routes. The *FIB updater*
  turns a change of the RIB into commands to the FIB and waits for the answers
  before the RIB changes.
* Below the forwarder a face may run *link-layer reliability*
  (`NFD/daemon/face/lp-reliability.cpp`): fragments, acknowledgements,
  retransmission.
* `src/test.py` runs the test suites in worker threads. The *visualizer*
  (`src/src/visualizer`) runs the simulator in a thread beside its GUI thread.

`PROJECT.json` lists all parts, also those that are not modelled, and the
hazards at the lines where they bite.

## 2. Modules

| Module | Models | Actions |
|---|---|---|
| `NonceSet` | what the pipelines rely on in the Dead Nonce List | Add, Forget |
| `DeadNonceList` | `table/dead-nonce-list.cpp` | add, mark, adjustCapacity |
| `Forwarder` | pipelines, PIT, face removal, for any strategy | one per pipeline with its early returns |
| `BestRoute` (extends `Forwarder`) | best-route, retransmission suppression, Nack processing, scope control | the pipelines with the strategy's decision filled in |
| `QLearning` (extends `Forwarder`) | the Q-learning strategy | the same |
| `Scheduler` | `ndn-cxx/util/scheduler.cpp` on ns-3 | Schedule, Cancel, executeEvent, ProcessExpired, EndExecuting, RunCallback |
| `PitExpiry` (extends `Scheduler`) | one PIT entry and its timer on the shared Scheduler | SetTimer, onInterestFinalize, RunScheduler |
| `Rib` | `rib/rib.cpp`, `rib-entry.cpp`, the computing half of `fib-updater.cpp` | Register, Unregister |
| `FibUpdater` (extends `Rib`) | the queue of batches, sending, answers, time-outs, removal of faces | one per handler |
| `LpReliability` | both ends of one direction of a reliable link, with reassembly | send, receive, time-outs on both sides |
| `TestRunner` | `src/test.py`, run_tests and its threads | Dispatch, Collect, Exit; Get, Check, Run; sigint_hook |
| `Visualizer` | `visualizer/core.py` and `pyviz.cc` | steps of the simulation thread; GUI callbacks; the user |
| `MC...` | instances for TLC | |
| `...Proofs` | theorems about the module they are named after; `PitExpiryProofs` also those about `Scheduler`, `FibUpdaterProofs` also those about `Rib`; `DnlVisualizerProofs` those about `DeadNonceList` and `Visualizer` | |

How they fit together:

* `Forwarder` uses the Dead Nonce List as a set that may forget pairs.
  `DeadNonceList` implements `NonceSet`, which says how soon it may.
* `Forwarder` lets the strategy choose any next hops, Nacks and rejection.
  `BestRoute` and `QLearning` put the code of a strategy in place of the choice
  and implement `Forwarder`, so what holds of `Forwarder` holds of them.
* `Forwarder` takes the expiry timer as exact. `PitExpiry` composes the timer
  with the real Scheduler and shows when it is (`ExactUnlessRaced`).
* `Rib` applies an update to RIB and FIB in one step. `FibUpdater` takes the step
  apart into commands and answers, with other events in between.

### State and code

* **Forwarder.** `pit` is a function from keys (Name, CanBePrefix, MustBeFresh)
  to entries; an entry with `live = FALSE` is not in the PIT. `in` and `out` are
  the record lists, indexed by face. Times are relative: `ttl` is the time to the
  expiry of a record, `timer` the time until the expiry timer fires, `age` the
  time since the last renewal. A record is expired at `ttl = 0` (in) and at `-1`
  (out), because the code compares with `>` in one place and `>=` in the other. A
  tick is a fraction of a millisecond; `onContentStoreMiss` rounds the timer down
  to whole milliseconds, which `duration_cast` models. `sent` holds the packets
  that the last step handed to faces; no step reads it. A pipeline is one action,
  as the code runs it without yielding, with what the strategy does at its end.
* **QLearning.** `m_qTable` maps name and face to values of next hops, in integer
  units of the penalty, rounded down. Exploration may take any next hop.
* **Scheduler.** `queue` is `m_queue`; `ns3` holds the calls of `executeEvent`
  and of callbacks that ns-3 will make, in order. `timer` marks the call that
  `m_timerEvent` points to; calls it no longer points to stay in ns-3.
* **Rib.** `rib[n]` holds the routes of an entry by face, in list order, and the
  capture counter, which is unsigned and wraps. Nothing reads the cost of an
  inherited route, so only its face is kept.
* **FibUpdater.** `commands` holds the commands sent and unanswered, in order,
  each with the batch it was sent for. A handler that goes on in another function
  leaves that in `call`; nothing else happens until `call` is `None` again.
  `strayed` and `retriedRemoval` are history.
* **LpReliability.** `snd` and `rcv` are the two ends; `net` and `ackNet` the
  link, which keeps the order and may lose and delay. RTT estimates are left out:
  a timer may run out at any moment. TxSequence numbers wrap at `SeqSpace`. A
  handler builds up what it sends and removes in `out` and `removed`, which are
  empty between handlers. A failed assertion, or the exception of
  `assignTxSequence`, sets `failed` and ends the program.
* **TestRunner.** The queues of `test.py` are first in first out and all break
  jobs come last, so they are given by counters. `process[j]` is what a process
  run for job `j` returned.
* **Visualizer.** `pc` is where the simulation thread is; it holds the lock
  across the steps of a slice. A critical section of the GUI thread is one step.
  `stack` holds the calls of `update_view_timeout` that wait for the lock, which
  process GUI events while they wait and so nest.

Above some definitions stands a mutated form of them. It is used only to show
that a property can fail.

### Abstractions

* Names are model values with a prefix relation; packets are records of what
  the code looks at. HopLimit is 0, 1 or more.
* The Content Store is a set of Data that may decline, age or evict at any time.
* Forwarding hints, PIT tokens, counters and logging are left out. Hash
  collisions in the Dead Nonce List are outside the model.
* `Strategy::sendData` reaches the end of a function that returns `bool`; no
  caller uses the value, and the model takes the call as returning normally.
* `afterReceiveData` and `sendDataToAll` have no action: `onIncomingData` calls
  `satisfyInterest`, never `afterReceiveData`. No strategy overrides
  `satisfyInterest`, so the second loop of `onIncomingData` does nothing.
* The Scheduler's destructor and exceptions thrown by callbacks are left out.
* The FIB of the strategies is a fixed ranking; a removed face leaves it, and a
  face that comes back brings its routes with it.
* `fetchActiveFaces` is one step, though the code asks for the list of faces and
  compares it with the RIB when the answer comes. `_quit` up to the join is one
  step: the simulation thread looks at `quit` only after the event `go` or between
  slices, so it ends the same way when it runs between the two assignments.
* `Rib` writes two helpers on sequences itself (`WithoutAt`, `Listings`): the
  modules that would provide them make every proof step about `Rib` several
  times slower.

## 3. Runs

| Run | Checks | Instance |
|---|---|---|
| `dead_nonce_list` | `QueueBounded`, `IdleShrinks`, `ImplementsNonceSet` | capacities of 5 to 7 entries, 4 nonces |
| `forwarder` | `NoDanglingRecords`, `NoLeak`, `DistinctInNonces`, `PitDrains` | two faces, one entry, probes with fresh nonces, /localhost Data, HopLimit 0 and 1, NextHopFaceId |
| `best_route` | `NeverBackToSender`, `TimerCoversInRecords`, `NackReturnsInterest`, `ScopeRespected`, `ImplementsForwarder` | three faces, two nonces, two lifetimes, half-millisecond ticks, a /localhop name |
| `q_learning` | `OneUpstreamPending`, `GreedyTakesFirst`, `OneDataPerInterest` | three faces, two entries that one Data satisfies |
| `expiry` | `HeadIsArmed`, `OnePlace`, `LiveHasTimer`, `ExactUnlessRaced`, `AllExecuted` | two nodes, two timer events, two others |
| `expiry_double_erase` | violates `EraseFindsEntry` (section 6) | two nodes, three timer events |
| `rib` | `ParentIsLongestPrefix`, `NextHopsHaveRoutes` | names /, /a, /a/b, /c; two faces |
| `fib_updater` | `BatchEndsInOrder`, `FibSoundBetweenBatches`, `QueueDrains`, `DeadFacesLeaveRib` | names /, /a; two faces, one mortal; four requests, one time-out |
| `fib_updater_failed_batch` | violates `BatchEndsItself` (section 6) | the same |
| `test_runner` | `SuccessIsEarned`, `ResultsComplete`, `RunnerEnds` | four jobs, one skipped, two threads |
| `visualizer` | `NotAheadOfView`, `PausesKept`, `SliceReachesTarget`, `PlayingHasTimer`, `QuitEnds` | two speeds, a program with a stop and two pauses, four timers |
| `lp_reliability` | `NoAssertionFails`, `WindowStartsAtOldest`, `PacketsAndMapAgree`, `CountedMeansDelivered`, `DeliveredOnce`, `PacketsSettle` | a packet of two fragments and one of one, one retransmission |

Each property is stated in words above its definition. Every property of a
passing run has a mutated definition in `PROJECT.json` under which TLC finds it
violated.

Bounds, and why they are enough to reach the interesting cases:

* Two faces of different link type and scope reach every branch of the
  pipelines; a strategy needs a downstream and two upstreams, hence three.
* `MaxLifetime` lets two in-records of one entry expire at different times, and
  lets an out-record outlive or die before an in-record. `AgeBound` caps the age
  of out-records at what suppression tells apart.
* The capacity of the Dead Nonce List may go up and down between its limits, and
  nonces and marks together exceed it, so that nonces are evicted.
* `MaxPending` bounds the calls outstanding in ns-3 when a handler runs. Two calls of
  `executeEvent` and a late callback fit below it, so the race of section 6 happens.
* The names of `rib` have a chain of three and a branch; /c, which has nothing
  below it, also has routes with Capture and of a second origin. Changing Capture,
  or a second origin, *above* other entries is left out of the instance: there the
  code leaves next hops behind (section 6).
* `MaxRequests` and `MaxQueue` bound what waits for the FIB updater; four
  requests suffice for a batch that fails under a batch that follows it.
* `StartSeq` 5 in a `SeqSpace` of 8 makes the TxSequence numbers wrap after three
  transmissions. `MaxAcks` 2 and `seqNumLossThreshold` 1 let one IDLE packet
  report several losses. `MaxExpiries` bounds the packets that the receiver's own
  time-outs affect.
* `Horizon` and `MaxTimers` bound simulated time and the timers: the one that
  runs when the window has been built and three that a user creates. A timer
  removed while its callback waits for the lock needs two.
* `VIEW` hides `sent`, which no step reads, in the runs of `BestRoute` and
  `QLearning`, which check no liveness.

Deadlock is checked wherever the system goes on for ever. `TestRunner`,
`Visualizer` and `LpReliability` end; `FibUpdater` stops when its bounded
requests are used up.

Fairness: the ns-3 event queue never stops before it is empty, so time passes
and due timers fire (`Forwarder`), outstanding events are run (`PitExpiry`) and
the periodic events of the Dead Nonce List keep running. In `FibUpdater` the
management thread works off its calls, the FIB manager executes and answers, and
active faces are fetched periodically; a time-out never has to happen. In
`TestRunner` and `Visualizer` the operating system runs every thread, and a
poll of a lock that stays free succeeds. In `LpReliability` a running timer
runs out; the link promises nothing. No packet has to arrive and no user has to
do anything.

## 4. Proofs

All theorems hold for every value of the constants that satisfies the named
`ASSUME`s of the modules: any sets of faces, names, packets, nodes, events and
threads, any limits, lifetimes and sizes of number spaces. The assumptions only give types, say that
the special values (`None`, `MARK`, `NoTimer`) are not ordinary ones, order the
limits as the code's constants are, and, for `Rib`, say that the proper prefixes
of a name are finitely many and ordered by length.

**`ForwarderProofs`**, with any strategy: `TypeCorrect`, `PitNeverLeaks`,
`TimerCovers`, `RecordsNeverDangle`, `NoncesDistinct`, and the action properties
`NacksReturnInterests` and `DataAnswersOnce`. The inductive invariant `IInv` says
of each entry that it is `Sound` (types, timer cover, records of existing faces
only, distinct nonces) and `Kept` (in the PIT with an armed timer, or exactly
`Absent`). None of the invariants is inductive alone: `NoLeak` needs that an
entry with records is live, `TimerCoversInRecords` the types of records. Each
operation on an entry (insert, record updates, deletions, closing, ageing,
strategy decision) has a lemma that it keeps an entry sound, and each pipeline is
a composition of them. The action properties follow from `PacketsOk`, which
says for each pipeline what packets it leaves in `sent`. They tie a packet to the
step by naming the pipeline that the step may be (`Arrives`, `onInterestLoop`,
`onContentStoreHit` with the packet's own face): `MissNacks` says that a Nack to
the face an Interest arrives from has the nonce of that Interest and any other
Nack the nonce of the in-record, and `NoneOtherArrives` that no second reading
of the step contradicts it. Data that matches several entries is the hard case,
since later entries see the records that earlier ones cleared.

**`BestRouteProofs`**: `BestRouteRefines` (each step of best-route is a step of
`Forwarder` or a stutter), `BRTypeCorrect`, `NoEcho`, `ScopeHolds`,
`BRNacksReturn` by the refinement, and `NobodyGivesUpEarly`, for finitely many
faces: the out-records of all other upstreams hold a Nack or have run out of time
when a Nack ends the waiting of a downstream. `BRInv` adds
to `IInv` the bounds of the suppression interval and that no face was sent the
nonce it waits with itself.

**`QLearningProofs`**: `QLearningRefines`, `QTypeCorrect`, `NothingLearnt`,
`OneAtATime`, and `QAnswersOnce` by the refinement. `QInv` adds to `IInv` the
range of the Q-values, that a value differs from 0 only where the face of the
state and the next hop are the same (Nacks are booked under the upstream's face,
choices read the downstream's), and that at most one out-record is pending.

**`DnlVisualizerProofs`**, of `DeadNonceList`: `DnlTypeCorrect`, `StoredOnce`, `RetentionHolds`,
`SizeBoundHolds`, and `Refinement`, that the list implements `NonceSet`. `IInv`
adds `NearEnd`: a nonce's distance from the end of the queue is at most the
number of entries put behind it since it was last added. Eviction removes from
the front and only above the capacity, so a nonce near the end survives.

**`PitExpiryProofs`**: `NoWakeUpLost`, `OnePlaceEach`, `LiveIsTimed`,
`ExactTimer`. `PInv` says that Scheduler and ns-3 are `Ready` (both queues
ordered by time and without duplicates, no event in both, the first event armed
unless callbacks are being run), that a
live entry's timer is in one of the queues, and, until the race of section 6,
that no other timer event is around and it has exactly the time that is left. The lemmas
follow the code: what `InsertByTime`, `Without` and `WithoutTimer` do to an
ordered sequence, then `scheduleNext`, `schedule`, `cancelImpl`, then each action.

**`FibUpdaterProofs`**: `RibTreeIsRight` (of `Rib`), `TreeIsRight` (of
`FibUpdater`) and `BatchesEndInOrder`. The tree needs only `TreeInv`: entries are
typed and each parent is the longest prefix with an entry. The work is in
`LinksAfterInsert` and `LinksAfterErase`: re-parenting only the children of the
new entry's parent, or of the erased entry, leaves every link right, because the
prefixes of a name are linearly ordered. `FuInv` is types and, as long as
nothing has `strayed`, `InOrder`: the commands under way are those of the batch
in progress, one for each update of the round that is outstanding; without a
batch there are none; and whenever a batch succeeds, no command is left and the
entries that its inherited routes are meant for exist. The last needs that every
case of `computeUpdates` addresses only entries that exist, or will exist, when
the batch has been applied (`MeantRegistration`, `MeantUnregistration`), for
which `ReachedBelow` shows that the walk down the tree meets only entries.
Time-outs move a command to the end of the line; `Carries` is therefore a
statement about which update each command is for and not about places.

**`TestRunnerProofs`**: `RunnerTypeCorrect`, `SuccessIsAlwaysEarned`,
`ResultsAreComplete`. `RunnerInv` says that a job is in one place, that the return
code handed back is that of the process run, that the counters count what the
results file says and that the threads end before the runner; `CompleteInv` that
the jobs taken are as many as those held, queued and collected, and that a job
which was run is queued or in the results file.

**`DnlVisualizerProofs`**, of `Visualizer`: `NeverAheadOfView`, `NoPauseLost`,
`PlayingIsTimed`, `SlicesReachTarget`. `VInv` adds to the first three that a running slice has a
callback scheduled at or before its target (`EndIsScheduled`). `SliceInv` says
what interrupted slices have left in the event queue: between slices only
callbacks, earlier than any target the view can still set; during a slice a
single event that ends it at its target.

**`LpReliabilityProofs`**: `WindowStart`, `MapAgreement`, `AssertionsHold`,
`CountedDelivered`, `AtMostOnce`. `LpInv` has four parts.

* `SenderOk`: the unacknowledged fragments are numbered in the order they were
  sent, counted back from the last number (`Numbered`), the window starts at the
  one sent first (`Oldest`), the lists of the network packets are exactly the map
  (`Listed`), and the sender fails only when the window has run into its own
  start (`Overrun`). Distances back from the last number are what survives the
  wraparound; comparing the numbers themselves would not.
* `Once`: no fragment is in the map under two numbers, which makes moving one to
  a new number, and dropping a packet, take it out completely.
* `Tracked` and `Covered`: until a number is used a second time, a number on the
  link, in the Ack queue or in an IDLE packet that is still in the map belongs to
  the fragment it was sent with, an Ack under way means that this fragment has
  arrived, and each fragment of a packet that was not dropped has arrived or is
  in the map.
* `ReceiverOk`: until a packet's Sequences are forgotten, its fragments that have
  arrived are in `m_recentRecvSeqs` and it was delivered at most once; until it is
  delivered or its reassembly times out, they are all kept for reassembly.

Three loops run inside a handler: over the fragments sent, over the fragments
found lost, over the Acks of a packet. `OutgoingLoop`, `LossLoop` and `AcksLoop`
say that what every turn preserves holds at the end; they rest on the least
element of a set of numbers and not on an induction theorem. The loop over lost
fragments is where an assertion could fail, since handling one may drop others:
`HandleLostInv` shows that what is lost and not in `removed` is in the map.

Two theorems carry a condition on `count`, the number of transmissions. That
`assignTxSequence` throws takes at least `SeqSpace` of them, and
`CountedMeansDelivered` is proved for fewer: once a number is used again, an Ack
delayed since its first use would acknowledge another fragment. The numbers of
the code have 64 bits.

### Only model-checked

* Liveness: `PitDrains`, `IdleShrinks`, `AllExecuted`, `QueueDrains`,
  `DeadFacesLeaveRib`, `RunnerEnds`, `QuitEnds`, `PacketsSettle`. Temporal reasoning
  under fairness is out of the prover's reach.
* `NextHopsHaveRoutes` and `FibSoundBetweenBatches`. They are true of instances
  without changes of Capture above other entries, and they speak of what the
  recursive function `AncestorRoutes` computes for every chain of entries, which
  needs induction over data.
* `NoAssertionFails` and `CountedMeansDelivered` as they stand, without the
  conditions of `AssertionsHold` and `CountedDelivered`. The
  instance has eight numbers for at most six transmissions.

## 5. Hazards

The list in `PROJECT.json` names for each hazard the line where it bites and the
properties that would catch it going wrong. Two have none: the counting of Nacks
is covered by the theorem `NobodyGivesUpEarly` instead of a run, and a removal
repeated as an addition does leave a wrong next hop (section 6).

## 6. Disagreements between code and documentation

Shown by a run:

* `expiry_double_erase`: all simulated nodes share one Scheduler, which hands the
  callback of another node's event to ns-3, where cancel no longer reaches it. A
  pipeline that sets the expiry timer of an entry in that instant schedules a
  second `onInterestFinalize`; `Pit::erase` asserts that it finds the entry. The
  late callback may also finalise an entry that an Interest has just prolonged.
  `ExactTimer` proves that this is the only way.
* `fib_updater_failed_batch`: a batch that fails (`fib-updater.cpp:294`) leaves
  its other commands unanswered; their late answers are counted against the next
  batch and end it early, although `fib-updater.hpp:63` says that the previous
  batch has succeeded or failed. `BatchesEndInOrder` proves that nothing else does.

Seen while modelling, without a run:

* Forwarder: a Nack recorded on an out-record stays when the Interest is sent
  again, against `pit-out-record.hpp:44`. One Nack closes an entry although
  another upstream has not answered, because an expired out-record counts as
  answered (`forwarder.cpp:494`). A nonce overwritten in an out-record
  (`pit-face-record.cpp:37`) is not added to the Dead Nonce List. `isSatisfied` is
  never reset, so an Interest that arrives between Data and the zero timer waits
  in an entry that counts as satisfied. `insertDeadNonceList` reads
  `dataFreshnessPeriod` before `onIncomingData` assigns it.
* Q-learning: `afterReceiveData` is invoked by no pipeline, although
  `strategy.hpp:167` says it is. Nacks are booked under the face they came from
  and choices read the face the Interest came from, so nothing is learnt
  (`NothingLearnt`). The incoming face is not excluded from the next hops.
* RIB: a removal that timed out is retried as an addition (`fib-updater.cpp:290`).
  `fib-updater.cpp:481` may use a route that does not exist. A change of Capture,
  or routes of two origins, above other entries leaves next hops without a route.
* `src/test.py:1829` says "If the return code is 0, 1, or 2, we have a valid xml
  file."; a suite with undecodable output has return code 1 and no file.
* Visualizer: two stops of the program at one time leave one over that cuts a
  later slice short.

## 7. Not modelled

* Strategy choice and its change while entries are pending; the Content Store
  policies; measurements and the timers of the access and ASF strategies, whose
  decisions `Forwarder` allows at any time.
* Consumers and producers, and networks of several composed forwarders.
* Cancellation of route expiration on renewal; route readvertisement.
* Operating system channels, which the simulator does not use; cryptography,
  encoding and tools, which have no protocol state; helpers and tracers.
* The ns-3 modules outside ndnSIM, which are systems of their own.
* The Python bindings `modulegen__gcc_*.py`. A generator writes them; they make up
  774260 of the 794108 lines of Python in the repository and register classes
  and methods, without state or control flow. What is modelled is the C++ of
  ndnSIM, `src/test.py` and the visualizer.
