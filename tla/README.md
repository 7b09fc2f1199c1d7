# ADIOS2 verification project

TLA+ models of the parts of ADIOS2 in which several threads, processes or
cohorts work on shared state, with the TLC runs that check them and the
theorems TLAPS proves about them.

Three parts are modelled: the control plane of an SST writer, the control plane
of an SST reader cohort, and the data writes of a BP5 step, with writers being
rerouted between subfiles. The last two are shown to implement an abstract
specification of what they promise. The rest of this document says what ADIOS2
consists of, how the models correspond to the code, what is checked and proved,
and what comes next.

- [The system](#the-system)
- [The SST writer model](#the-sst-writer-model)
- [The SST reader model](#the-sst-reader-model)
- [The BP5 data write model](#the-bp5-data-write-model)
- [Runs](#runs)
- [Proofs](#proofs)
- [What the models leave out](#what-the-models-leave-out)
- [Plan](#plan)

Paths below are relative to `source/adios2/` unless they say otherwise; `cp_writer.c`,
`cp_reader.c`, `cp_common.c` and `cp_internal.h` are in `toolkit/sst/cp/`.

## The system

ADIOS2 moves self-describing data between applications and storage, or between
applications. An application declares variables on an `IO`, opens an `Engine`
and writes or reads a sequence of steps. What happens between `BeginStep` and
`EndStep` is the engine's business, and the engines are where the hard
behaviour is.

| Component | State | Operations | Hard behaviour | What makes it correct |
|---|---|---|---|---|
| **SST writer control plane** (`cp_writer.c`) | timestep queue with reference counts, expiry and precious tags; reader cohorts with status, sent list, last release; registration and request queues; the stream's lock and condition variable | open and rendezvous, provide a step, discard, distribute (AllToAll, RoundRobin, OnDemand), close; handlers for register, activate, request, release, close, connection closed; a delayed task | two threads, the lock is given up in the middle of most walks; readers leave at any time | references are exact, a step a reader holds stays, nobody sleeps through a wake-up, limits hold, steps arrive once and in order, calls return |
| SST reader control plane (`cp_reader.c`) | metadata queue, discard threshold, final step, connection status | open, advance (next or latest, with timeout), release, close; metadata, close and failure handlers | waits with timeouts, status and metadata arriving in either order, end of stream | every step delivered exactly once and in order, end of stream reported exactly when it is, every step obtained is released |
| SST writer cohort | per-rank copies of the queue; release lists | collectives, `ProcessReleaseList` | rank 0 hears, the others follow one step late | copies agree at each collective |
| SST locks and preload (`cp_writer.c`, `cp_reader.c`) | definition and pattern locks, preload mode | lock messages both ways | agreement on the step from which a mode is active | neither side acts on a mode the other does not know |
| SST data planes (`toolkit/sst/dp/`) | registered steps, pending reads | provide, release, read remote | reads outlasting a reader or a step | a step is not freed while it can be read |
| BP5 writer and reader (`engine/bp5/`) | data, metadata and index files, active flag | end of step, flush, close; polling of the index | a reader polls files that are being written | no step is visible before it is complete |
| BP5 two-level and asynchronous writing | shared-memory buffers, a token, a writer thread | exchange data, write | ranks and threads hand buffers on | each byte written once at its offset |
| BP5 rerouting (`BP5Writer_WithRerouting.cpp`) | group states, idle lists | reroute requests, acknowledgements | messages of three roles cross | every group is served once, and all terminate |
| Shared-memory tokens, locks, chains (`toolkit/shm/`, `toolkit/aggregator/mpi/`) | a rank counter, a flag, two buffers | receive and send a token, lock, swap | busy waiting over shared memory | mutual exclusion, turns |
| Burst-buffer drainer (`toolkit/burstbuffer/`) | a queue of operations, a finish flag | add, drain, join | flag and queue have separate locks | everything added is drained before the join returns |
| File pool (`toolkit/filepool/`) | open files with use counts | acquire, release, evict | limit, sharing, descriptors owned elsewhere | limit never exceeded, nothing in use is closed |
| Inline engine (`engine/inline/`) | step counters of both sides | begin and end step of each | two engines call into each other | they alternate |
| S3, DataMan, SSC, remote access | buffers, connections | transfers | retries, publication without flow control | later candidates |
| Core, formats, operators, queries, bindings, utilities | object registries and pure functions | | sequential | not planned |

How they interact: an engine object (`engine/sst/SstWriter.cpp`) calls the
control plane from the application's thread. The control planes of a writer
and a reader exchange EVPath messages, handled by a network thread on each
side, and call the data plane below them, mostly with the stream's lock given
up. A cohort's ranks meet in MPI collectives once a step. BP5 ranks meet in
collectives, shared memory and the file system; a BP5 reader knows its writer
only through files.

The SST writer came first because it is where most of this meets: two threads
per process, readers coming and going, three distribution modes, two queue
policies, a close that has to wait for others, and a locking discipline in
which the lock is given up and taken again inside the loops that walk the
structures it protects.

## The SST writer model

| Module | Contents |
|---|---|
| `SstWriter.tla` | the state machine |
| `SstWriterProps.tla` | type invariant, safety and action properties, fairness, liveness |
| `MCSstWriter.tla` | model values and symmetry for TLC |
| `SstWriterTypeProofs.tla` | the proof of type correctness and of one assertion of the code |
| `SstWriterRefProofs.tla` | the proofs that references are counted and referenced steps kept, that no wake-up is lost, and who the readers are |
| `SstWriterDeliveryProofs.tla` | the proofs about delivery: retention, the queue's limit, the starting step, the close, the lock, the order of the steps, that none is missed, the reserve, even turns |

### State

The variables carry the names of the C fields (`struct _SstStream`,
`struct _WS_ReaderInfo`, `struct _CPTimestepEntry` in `cp_internal.h`):

- The list `Stream->QueuedTimesteps`, linked newest first, is the *set* of
  queued step numbers: the numbers are distinct and increase, so "newest first"
  is an order on the set. An entry's fields are sets of steps or functions of
  the step: `ReferenceCount`, `Expired`, `PreciousTimestep`, `InProgressFlag`.
  `Emptied` are the entries whose message lost its metadata (`cp_writer.c:2251`).
- `CMconn` and `DP_WSR_Stream` are the readers whose pointer is not NULL;
  `Delayed` the readers with a scheduled `CloseWSRStream`.
- `lock` is the owner of `DataLock`; `asleep` says that main is in
  `STREAM_CONDITION_WAIT` and has not been signalled.
- `pc`, `ret`, `rdr`, `step`, `idx`, `cursor`, `newState` are the program counter,
  return address and locals of each thread inside procedures both use
  (`SendTimestepEntryToSingleReader`, `sendOneToWSRCohort`,
  `CP_PeerFailCloseWSReader`, `DerefAllSentTimesteps`, `SendCloseMsgs`);
  `snapshot`, `arriving`, `pending`, `discard` are the locals of
  `SstInternalProvideTimestep` that survive an unlock.
- `peer`, `delivered`, `received`, `gotClose`, `requested` describe the readers as
  the writer's network sees them. `received` is history, used by properties only.

### Steps

`main` is the application's thread, `net` the network thread, which runs one
handler or delayed task at a time. A step of the model is what a thread does
from one place where the other can run to the next. A critical section that
makes no call with the lock given up is one step (`NoLock`); one that does, is
several, and between them `lock` says who holds it. The unlocks inside
`SendTimestepEntryToSingleReader` (around the data plane call), inside
`sendOneToWSRCohort` (around `CMwrite`) and inside `DerefSentTimestep` are all
there, and so is the position in the list from which the loop goes on.

| Code | Actions |
|---|---|
| `SstWriterOpen` | `SstWriterOpenRendezvous`, then as for a pending reader |
| `WriterParticipateInReaderOpen`, `waitForReaderResponseAndSendQueued` | `WriterParticipateInReaderOpen`, `waitForReaderResponse`, `StrayUnlock`, `SendQueued`, `SendQueuedDone` |
| `SstInternalProvideTimestep` | `ProvideTimestep`, `DecideTimestep`, `BlockedOnQueueFull`, `ProcessReaderStatusList*`, `DeliverBegin`, `SendToAll` / `SendRoundRobin` / `SendOnDemand`, `ProvideTimestepSent`, or `SendDiscarded`, `ProvideTimestepDiscarded`; then `HandlePendingReaders` |
| `SstWriterClose`, `SstStreamDestroy` | `SstWriterClose`, `SendCloseMsgs*`, `UntagPreciousTimesteps`, `WriterCloseDrain`, `SstStreamDestroy` |
| `CP_PeerFailCloseWSReader` with `DerefAllSentTimesteps` | `PeerFailCloseWSReader` (part of its caller's step), `DerefAllSentTimesteps`, `DerefRelocked`, `PeerFailCloseFinish` |
| `SendTimestepEntryToSingleReader`, `sendOneToWSRCohort` | `SendTimestepEntryToSingleReader` (part of the caller's step), `Registered`, `CMwrite`, `Written`, `WriteFailed` |
| handlers | `queueReaderRegisterMsgAndNotify`, `CP_ReaderActivateHandler`, `CP_ReaderRequestStepHandler`, `CP_ReleaseTimestepHandler`, `CP_ReaderCloseHandler`, `WriterConnCloseHandler`, with the steps that finish them |
| delayed task | `CloseWSRStream` |

`QueueMaintenance` is a function of the state (`Maintained`), applied in the step
that calls it. A removal signals main (`SignalRemoval`), other steps signal where
the code does. The application chooses when to provide a step or to close;
`MaxSteps` bounds the number of steps, a named bound of the model.

Definitions marked *defect* are small mistakes one could make in the
definition after them (an off-by-one, a dropped condition). The model never uses
them; each property is known to fail when one of them takes the place of the
definition it precedes, which shows that the property depends on the code.

### The readers

What a reader does is read off `cp_reader.c`: it registers, activates when the
writer's response has come, releases steps in order (or, with
AlwaysProvideLatestTimestep, older ones as soon as a newer one or a discard
notice arrives, `releasePriorTimesteps`), asks for one step at a time in OnDemand
mode, and closes, at the end of the stream or, for the cohorts in `MayLeave`, at
any time. Cohorts in `MayFail` may die at any time. Messages that were sent by a
reader before it died may still be handled. A connection is reported as closed
once, some time after the reader left, unless the writer had not yet created
the reader's structure, in which case it is reported after that. `CMwrite` fails
on a connection known to be closed and may fail when the reader has left.

## The SST reader model

| Module | Contents |
|---|---|
| `SstReader.tla` | the state machine |
| `StepStream.tla` | the abstract specification: what a streaming engine promises one reader |
| `SstReaderProps.tla` | type invariant, safety properties, the refinement of `StepStream`, liveness |
| `MCSstReader.tla` | the seven streams of the run |
| `SstReaderProofs.tla` | the proofs of type correctness, and about the queue, the releases, the formats and the attributes |
| `StepStreamProofs.tla` | the proof of what a `StepStream` gives the application |

### State

A cohort has `CohortSize` ranks, each with the fields of its `struct _SstStream`:
`Timesteps` is the metadata queue in the order of the list, an entry being a step
or, without `Metadata`, the notice of a discarded one; `DiscardPriorTimestep`,
`FinalTimestep`, `ReaderTimestep`, `CurrentWorkingTimestep`, `Status` are as in the
code. `formats` and `InternalAttrDataInfo` are what the control plane keeps of the
writer's formats and attribute blocks, each named by the step it came with.

A rank has two threads: `pc` is the program counter of main, `npc` that of the network
thread, `lock` the owner of the lock, `asleep` main in its condition wait, `timer` the
delayed task of a timed wait. `walk` holds the saved list pointers of each thread in
`releasePriorTimesteps`, which gives the lock up around each message it sends.
`contribution` and `decision` are the collectives of `SstAdvanceStepPeer` and
`SstAdvanceStepMin`: what each rank entered and what rank 0 distributed.

The writer is the environment. What it sends (`cp_writer.c`) is one log of steps,
discard notices and the final close; each rank with a writer peer has seen a prefix
of it (`arrived`), since connections are FIFO and independent. In the Min pattern only rank
0 has a peer. A writer that dies may do so with messages still on their way.

### Steps

| Code | Actions |
|---|---|
| `SstReaderOpen` | `OpenResponse`, `OpenEstablish`, the barrier between them |
| `SstReader::BeginStep`, `SstAdvanceStep` | `BeginStep`, `Finish` |
| `SstAdvanceStepPeer` | `Gathered`, `GatherDecide`, `Adopt`, `GiveUp`, `AdoptStatus` |
| `SstAdvanceStepMin` | `TimedWait`, `WalkMain`, `NextMetadata` on rank 0, `Follow` on the others |
| `waitForMetadataWithTimeout`, `waitForNextMetadata` | `TimedWait`, `triggerDataCondition`, `NextMetadata` |
| `SstGetAttributeData` and the engine's use of it | `SstGetAttributeData`, `InstallAttributes` |
| `SstReleaseStep` | `EndStep`, `Barrier`, `SendRelease` |
| `SstReaderClose`, `SstStreamDestroy` | `SstReaderClose`, `Barrier`, `SstStreamDestroy` |
| `queueTimestepMetadataMsgAndNotify` | `TimestepMetadata`, `DiscardNotice`, `WalkNet` |
| other handlers | `CP_PeerSetupHandler`, `CP_WriterCloseHandler`, `ReaderConnCloseHandler` |

Where a thread uses a list entry after the other has freed it, anything may happen.
The model marks the place (`freedTouched`) and stops there: what is checked is the
behaviour up to it.

### What is checked

`StepStream` promises: steps come out once each, in the writer's order, all of
them or, with `AlwaysProvideLatestTimestep`, without those a newer one supersedes; the
end is reported when the writer has closed and nothing is left to read, failure only
when the writer is gone. `StreamKept` says that every rank's view of the model is a
`StepStream`: a step of the model is one of `StepStream` or leaves it unchanged, under the
mapping that reads the delivered steps and the outcome off the results of `BeginStep`.

The other properties concern what `StepStream` does not see. `StepsAccountedFor` and
`ReleasedOnce`: a step that arrived is in the queue, in use, or released, and not
twice; four places in two threads release. The exception is a step of the Peer pattern that comes
after a newer one was settled on: `queueTimestepMetadataMsgAndNotify` releases it on arrival and queues
it (`:866-885`), and a walk may release it again, so it is released twice at most. `CurrentEntryQueued`: the network thread may
not release the entry `SstReleaseStep` will follow. `FormatsComplete` and
`AttributesInOrder`: what came with steps that were skipped or discarded is not lost or
reordered. `SameEverywhere`: a collective call has the same result on all ranks,
although the ranks' queues differ while it is computed. `CallsReturn`: the calls return.

### Streams and fairness

Two ranks are enough for one that leads and one that follows, or two whose
connections are at different places. The streams (`MCSstReader`) are: Min with a
writer that may die; Min with discarded steps; Peer with discarded steps; the
newest step in Peer; the newest step in Min with a zero timeout; OnDemand; and a positive
timeout with a writer that may die. Three steps (two with the timeout) are
one in use, one skipped or discarded and one that supersedes it. The newest step in Peer has
four steps and three calls, which is what a second release of a late step takes. `MaxCalls`, three or four
`BeginStep` calls, covers every step, a timeout and the end.

`ReaderFairness`: the threads of a rank run, the application within a call
included, messages that were sent arrive unless the writer died, and delayed tasks
fire. `WriterFairness`: the writer answers and goes on to provide a step or to close.
Without that, a `BeginStep` without a timeout waits for ever, and should.

## The BP5 data write model

| Module | Contents |
|---|---|
| `Partitioner.tla` | `PartitionGreedily` of `helper/adiosPartitioner.cpp` |
| `BP5WriteData.tla` | the state machine |
| `SubfileAppend.tla` | the abstract specification: what `WriteData` promises about the subfiles |
| `BP5WriteDataProps.tla` | type invariant, safety and action properties, the refinement, liveness |
| `MCBP5WriteData.tla` | the runs a cohort of four may have |
| `SubfileAppendProofs.tla` | the proof that nothing is overwritten |
| `BP5WriteDataProofs.tla` | the proofs about the groups of a step, the types, and that no rank is lost or doubled |
| `BP5AppendProofs.tla` | the proof that the data write implements `SubfileAppend` |

With DataSizeBased aggregation the ranks are partitioned in every step by the size of
their data, largest first, each joining the group with the least so far; `std::sort`
may order equal sizes in any way, so `PartitionGreedily` is a set of partitionings. A group
writes one subfile. `EveryoneGrouped` and `GroupsBalanced` check it on all sizes up to 2 of four
ranks on two and three subfiles (up to the names of the ranks), and on the runs below.

Without rerouting (`WriteData_EveryoneWrites`, serialized) a token with the position
reached goes down the chain of a group, and back from the last rank to the first:
`ChainWriteV`, `ChainPass`, `ChainReturn`. A step may be written in several blocks.

With rerouting (`WriteData_WithRerouting`) each rank has a main thread (`WriteV`,
`FinishWriting`, `Join`) and a communication thread (`ReroutingCommunicationLoop`). One turn of the
loop is a `Receive` of a message, or `ProbeNothing`, and a `FinishTurn`, which does what follows
the switch: tell of one's completion, order the next writer or report idle or at
capacity, and, on the global coordinator, look for a pair of groups, or close. There is
an action per message type: `DoWrite`, `WriteCompletion`, `GroupClose`, `GroupCloseAck`, `WriterIdle`,
`WriterCapacity`, `StatusInquiry`, `StatusReply`, `RerouteRequest`, `RerouteReject`, `RerouteAck`, `WriteMore`.
`rank` holds what the two threads of a rank share, `sc` what a subcoordinator keeps, `gc`
what the global coordinator keeps. `NextCall` is the next block or step: `EndStep` shares the
positions of the subfiles and a new step has new groups, new roles and whatever
messages the last one left. A message for the global coordinator may so reach a rank that is
no longer it; what such a rank keeps of the groups is an empty vector, and the access ends
the program (`Misdelivered`, `turn = Aborted`).

Messages between two ranks keep their order. A rank's message to itself is there
as soon as it was sent: `own`, in a message, counts the receiver's own messages that
were sent before it and are not yet received. Without this assumption about MPI,
TLC finds a hang of two groups over two steps, in which a rank hears from
another before it hears from itself. `FindNextPair` may return any pair its search could
find, so what the search remembers from call to call is left open.

### What is checked

`AppendsInTurn` is the refinement: whoever is told by whom, each rank writes once a step, to one
subfile, behind its end, alone, and the next step goes on behind it. `QueuedOnce`: a rank
that is handed from one queue to another over three messages is in exactly one place
until it is told to write. `ReturnsUnlessRejected`: WriteData returns on all ranks in every
step, unless the hang described below happens or a stray answer ends the program.

### Runs and fairness

`TwoSteps` has two subfiles and a step with one rank that has more than the others
together, so that two are rerouted and the destination reaches its capacity, then
one with other coordinators. `ThreeFiles` has two groups to pair an idle one with.
`Blocks` has a step of two blocks, one rank without data in the second, and another step.
`StripeSize` 2 makes some writes pad and others not. Fairness is `WF_vars(Next)`: something
that can happen does; the system polls only when there is a message or work to do,
so nothing more is needed, and no order among ranks is assumed.

## Runs

The `writer_` runs use `MCSstWriter`, `reader` uses `MCSstReader`, the `bp5_` runs
`MCBP5WriteData`. For the writer, two cohorts are enough for what two readers can do
to each other and to the writer; nothing in the code treats a third reader
differently from a second. Two to four steps cover a queue that fills,
overflows and drains, with the limits of one to three used here.

| Run | Instance | Checks |
|---|---|---|
| `writer_block` | AllToAll, QueueLimit 1, Block; both readers may leave and crash; 3 steps; symmetry | safety with everything happening at once: references, retention, the provider's entry, the limit, no step missed, the registration assertion, no lost wake-up, the promise to a starting reader |
| `writer_progress` | the same with 2 steps and a rendezvous of one reader, one reader leaving; `OrderlySpec` | lock ownership, close announced, no resurrection, and under fairness: EndStep and Close return |
| `writer_discard` | Discard, QueueLimit 3, reserve 2, precious first step, one reader skipping to the latest, which may leave; 4 steps | precious step presented, reserve kept, limit, order |
| `writer_ondemand` | OnDemand, rendezvous of two, one may crash; 2 steps | references with both threads handing out steps, each step to one reader, demands advance |
| `writer_roundrobin` | RoundRobin, rendezvous of two; 4 steps | types, even turns, Close returns |
| `writer_stale_status` | one reader that may leave | **fails**: see below |
| `writer_crash_opening` | one reader that may crash | **fails** |
| `writer_sent_entry` | two readers, nobody leaves | **fails** |
| `reader` | two ranks, one of seven streams | the view of each rank is a `StepStream`; releases, formats and attributes; the same result on all ranks; calls return |
| `bp5_writedata` | four ranks; two or three subfiles; two steps, blocks; all small sizes | groups cover and balance; nobody lost or doubled; subfiles are appended to in turn; WriteData returns unless a late refusal hits an idle group or a stray answer a former coordinator |
| `bp5_rerouting_hang` | one step to three subfiles | **fails** |
| `bp5_stray_answer` | two steps to two subfiles | **fails** |

Deadlock is checked in `writer_progress` and `writer_roundrobin`,
where the only states without a successor in the system are those of a destroyed
stream (`Terminated`). `writer_block`, `writer_discard` and `writer_ondemand` do not check it: with readers
leaving or crashing in the windows described below, the writer really does stop. `reader` checks it;
the `bp5_` runs do not, as the hang described below stops the system.

### Fairness of the writer

`MainInCall`: a thread inside an SST call runs on. `NetInHandler`: the network
thread finishes handlers and runs scheduled tasks. Per reader: it activates once
answered, releases what it got, requests, closes when it was told that the
stream is over, and its closed connection is reported. Nothing is assumed of the
application: it may never provide another step nor close. Weak fairness
suffices everywhere, since the lock is held for finitely many steps only, and a
thread waiting for it is enabled again in the state it cares about.

`OrderlySpec` additionally keeps readers from leaving in two windows: before a
reader that registered has activated and main has noticed, and between the
status snapshot and the end of `ProcessReaderStatusList`. Outside these windows the
liveness properties hold; inside them they do not, and that is what the
failing runs show.

### Disagreements with the code's own statements

1. **A departed reader is established again** (`writer_stale_status`). Rank 0 copies
   the readers' status under the lock (`cp_writer.c:2187`), and
   `ProcessReaderStatusList` (`:1812`) sets every reader to its copied status after
   the lock was given up. A close handled in between is undone. The connection
   is gone, steps are added to the reader's sent list and referenced, and no
   one releases them.
2. **The wait for a new reader never ends** (`writer_crash_opening`). The
   connection-close handler says it is handling a failure in state Opening and
   wakes main, but leaves the status (`:469-478`), so main waits on (`:1198`).
   When the status does change to something else, the function gives the lock up
   and then runs on without it to a second unlock (`:1206-1211`, `StrayUnlock`).
3. **An entry is used after the lock was given up** (`writer_sent_entry`). The
   design comment protects the queue and its entries with the lock
   (`:1947-1949`); `SendTimestepEntryToSingleReader` gives it up and goes on with
   the entry, which a prompt reader's release may have freed.
4. **A late refusal marks an idle group** (`bp5_rerouting_hang`). A subcoordinator refuses
   a reroute request when its queue is empty. The global coordinator then marks both
   groups "assuming they are still PENDING" (`engine/bp5/BP5Writer_WithRerouting.cpp:594-604`). With
   three subfiles the refusing group may have become idle before its refusal is
   received and been paired again, as a destination: it is PENDING, for another request.
   It is marked REROUTE_REJECTED, its only WRITER_IDLE has been received, and so the groups
   are never all idle, `GROUP_CLOSE` is not sent, and `WriteData` does not return.
5. **An answer outlives its step** (`bp5_stray_answer`). The first idle group makes the global
   coordinator ask all other groups for their status, its own included (`BP5Writer_WithRerouting.cpp:468-492`), and
   nothing waits for the answers. When the first `WRITER_IDLE` it receives is another group's, its own may be on
   its way to itself already, and its inquiry to itself comes behind it. Once all groups are idle it sends
   `GROUP_CLOSE` to the others and marks its own as closed without a message (`:843-864`). It answers its
   own inquiry, receives the last `GROUP_CLOSE_ACK` and leaves the loop with the answer not received. (The answer of
   another subcoordinator cannot be left over: messages between two ranks stay in order, so its inquiry
   precedes its `GROUP_CLOSE` and its answer its acknowledgement.) The next step has other groups and another global
   coordinator. The rank that was it receives its own `STATUS_REPLY` and sets `groupState[subStreamIdx]`
   (`:534-542`), a local vector that is resized on the coordinator only (`:239`, `:302-306`).

### Statements TLC refutes that no run keeps

These are defined at the end of the property modules; each can be put into a
configuration of the run it belongs to.

- `EndIsTheEnd`: in the Peer pattern with a timeout, a rank whose metadata is late when it
  enters the gather makes the step chosen for all -1, and if the writer has closed, the
  stream ends with steps undelivered.
- `ListEntriesAlive`: in the Min pattern with AlwaysProvideLatestTimestep both threads of
  rank 0 can be in `releasePriorTimesteps`, each with pointers to entries the other frees.
- `AttributesAlive`: the engine installs attribute blocks it got from `SstGetAttributeData`
  without the lock, while a discard notice of the Peer pattern frees that list.
- `LateReleasedOnce`: in the Peer pattern with AlwaysProvideLatestTimestep a step that comes late is released
  on arrival, and once more by the walk that takes it out of the queue. The writer then finds it gone.
- `FormatsEverywhere`: ranks that follow rank 0 never see the formats that came with
  discarded steps.
- `OpenReturns`: when the writer dies during the open, rank 0 returns, and the other ranks wait for
  its broadcast.
- `ClosedWhenDone`, `NothingLeftOver` (`BP5WriteDataProps`): groups are closed while a rerouted rank
  has yet to be told to write, and the coordinator's answer to itself stays for the loop of the next
  step. `KeepsGoing` is the condition that makes the first harmless; the second is not
  (`bp5_stray_answer`).
- `CapacityRespected` (`BP5WriteDataProps`): a subfile past its share gets no more ranks. With six ranks of sizes 8, 8, 2,
  2, 2, 2, three subfiles and a threshold of 20 it does: the answer to an early inquiry arrives after
  the group was given a writer, makes it IDLE for the coordinator, and thereby a destination again.
- `UnlimitedKeepsAll` (`SstWriterProps`): a queue limit of 0 discards nothing. The user guide says that 0 is no limit
  (`docs/user_guide/source/engines/sst.rst:112`), but with Discard every step is over it (`cp_writer.c:2159`).
- `ReserveQueued` (`SstWriterProps`): the reserve is in the queue, whatever was discarded. The user guide calls ReserveQueueLimit
  "the number of steps which the writer will keep in the queue for the benefit of late-arriving readers"
  (`docs/user_guide/source/engines/sst.rst:147-153`). The notice of a discarded step is sent
  with the lock given up. If the last reader that holds back older steps leaves meanwhile, `QueueMaintenance` counts the
  discarded step, the newest in the queue, towards the reserve (`cp_writer.c:402-424`) and frees one older step too many;
  then the discarded step goes (`:2264`), and the queue is one short of the reserve until the next step
  fills it up. In the instance of `writer_discard` TLC finds this with either reader leaving.

## Proofs

The theorems about the SST writer hold for any finite set of cohorts, any number of steps and all
parameters admitted by `ConstantsAssumption`, and for `Spec`, so without any
assumption on scheduling or on the readers' manners; the two that need `OrderlySpec` say so. Those
about the reader hold for any number of ranks, any set of streams that can be opened
(`ReaderAssumption`) of any length, and for `Spec`.

### Types and program counters

`SstWriterTypeProofs` proves:

- `TypeCorrectness`: `Spec => []TypeOK`.
- `RegistrationIsQueued`: `Spec => []RegistrationQueued`, the assertion
  `assert((Stream->ReaderRegisterQueue))` of `cp_writer.c:772`.
- `TypeInvariance`: `Spec => []TypeInv`, the inductive invariant behind both.

`TypeOK` is not inductive. `SendQueued`, say, uses `rdr["main"]` as a reader and
`Written` jumps to `ret[th]`: that these are a reader, and an address the thread can
return to, depends on where the thread is. `TypeInv` therefore adds what each
program counter implies: a thread in a shared procedure has a reader, a step and
a proper return address (`InCall`, `ReturnOK`); a walk over `Stream->Readers` is
inside the list (`Positioned`); a step being provided is a step (`Serving`); and
`Admissions`: the readers counted as pending, together with the one being
admitted, are still in the registration queue, which only main shortens.

The proof has a lemma per group of actions (`SharedTypeInv`, `MainTypeInv`,
`CallTypeInv`, `NetTypeInv`, `EnvironmentTypeInv`), one step per action, and effect lemmas for
what several actions share: `MaintenanceEffect`, `PeerFailCloseEffect`,
`SendTimestepEntryTypes`, `WriteToReaderTypes`.

### References

`SstWriterRefProofs` proves the writer's central safety properties:

- `ReferencesAreCounted`: `Spec => []ReferencesCounted`. The count of a queued step
  is the number of readers that hold it plus the provider's own reference.
- `SentStepsAreRetained`: `Spec => []SentStepsRetained`. A step in a reader's sent
  list is never freed.
- `ProvidedEntryIsKept`: `Spec => []ProvidedEntryKept`. The entry being provided
  survives every place where the lock is given up.
- `RefInvariance`: `Spec => []RefInv`, the inductive invariant behind the three.

None of the three is inductive. Sending a step increments the count, but the sent
list is a set: if a reader were ever sent a step it holds, the count would be one
too high for good. That this does not happen is spread over the whole protocol, and
`RefInv` says why:

- `Admitted`: a reader registers once and is admitted once (`ListedOnce`), and
  before that nothing refers to it (`Unknown`). Otherwise `SendToAll` could meet the
  same reader twice in `Stream->Readers`.
- `SentOnce`: nobody has the step being provided until main comes to the readers,
  and then only those it has passed; net does not hand it out, as it is marked
  `InProgressFlag` (`StepUnsent`). A demand is answered with a step after all
  that were demanded before (`DemandUnsent`). A new reader has nothing, and walks
  the queue upwards (`QueuedUnsent`).
- `Counted`: the three properties and the order of the queue (`QueueInOrder`), so
  that a new step is in no sent list.

The invariant was checked with TLC on the instances of the passing runs before
it was proved. The argument about counting is made once, in four lemmas:
`CountedKept` (maintenance removes only what has no reference), `CountedSent`,
`CountedDropped` and `CountedProvided`. Most actions then only have to be shown to
leave the rest alone (`RefKept`, with the frame conditions `UnknownKept`,
`ControlKept`, `Shrinks`); those that send, admit or provide have a lemma each.

### Wake-ups and readers

Also in `SstWriterRefProofs`:

- `WakeupsAreNotLost`: `Spec => []NoLostWakeup`. The invariant adds only that main sleeps in its
  four waits and nowhere else (`WakeInv`).
- `LiveInvariance`: `Spec => []LiveInv`, which everything about delivery needs. It relates what a
  reader does (`peer`) to what the writer takes it to do: a live reader is established, in the list and
  connected, one that is being admitted is registered or has left, and one the writer gave up has left
  (`Peers`); nobody is admitted between the status snapshot and its use, so the snapshot errs on one
  side only (`Snapshots`); a thread that writes to a reader or gives it up does so to one that was
  there (`Calls`).

`Handout` and its five lemmas say of each of the loops that send what they have in common: an
established reader is given a queued step it was not sent.

### Delivery

`SstWriterDeliveryProofs` proves, each with the invariant it takes:

- `DeliveredStepsAreRetained`: a step a live reader got and has not released is queued. `HeldInv` puts
  what a reader holds into its sent list, and for that needs that a step being written to a
  reader is in the list and not held already, on both threads (`Held`), that a new reader
  holds nothing beyond where the walk has come (`Unsent`), and which steps are emptied (`Discards`).
- `CloseIsAnnounced`: the reader loop of the close passes over nobody; those it has passed
  were told or have lost their connection, but for the one being written to (`Closing`).
- `QueueStaysWithinLimit`: the bound holds with one place more while a step is being decided on or
  discarded (`Limited`). This needs that the precious first step is never the one that is discarded.
- `StartingStepIsKept`: an action property; from `QueueStep`, which says that all but three actions
  touch the queue by `QueueMaintenance` only, and what that spares.
- `LockIsHeld`, for `OrderlySpec`: that main never comes to the stray unlock, because the reader it
  admits is still there (`Awaited`), and the pairing of locks in every procedure.
- `NoReaderReturns`, for `OrderlySpec` in AllToAll and RoundRobin mode: the snapshot says established only
  of readers that are (`Settled`), and what is done for a departed reader is done for one with such a
  status (`Givens`). In OnDemand mode the property fails even so: the network thread
  answers a request within the window, and its write may find the reader failed.
- `StepsArriveInOrder`, `StepsAreDeliveredOnce`, `DemandsOnlyAdvance`: the three rest on `OrderInv`.
  Whatever a thread is about to write to a reader is newer than all it got (`Handed`); a new reader
  starts with nothing and the walk for it moves upwards (`Fresh`); what is handed out on demand is not newer than
  the last step demanded (`Demands`); a reader has one request under way, in the queue or being
  answered, and not both threads answer it (`Asked`); no step is sent, or about to be, to
  two readers (`Apart`).
- `StepsAreNotMissed`, for AllToAll: from `ServeInv`, which has four parts. `Contiguous`: without a
  precious first step, what has not expired in the queue has no gaps but discarded steps, since `QueueMaintenance` lets
  the oldest expire first (`PastReserveDown`). `Started`: nothing older than the
  promised first step is sent. `Unreleased`: a new reader has released nothing the walk has still to send it.
  `Served`: each step in the queue that a live reader is to get it got, or main still comes to it
  (`Coming`: it awaits the reader, walks the queue for it, has the step to distribute, or is writing it), and
  after the first step a reader got there is none it neither got nor is owed. The property alone speaks of main
  between its calls; `Coming` carries it through them, with a release or a departure at any point.
- `PreciousIsPresented`, for AllToAll: the precious first step stays queued until the close takes the mark away,
  so it is the earliest and every reader is told to start with it (`Presented`); it never counts as expired for
  the walk, so `Served` makes it come.
- `ReserveIsKept`, in every mode: each provided step that has expired, freed or not, has the reserve above it
  (`Reserved`), counting what has not expired, what is precious, and the newest step if it is discarded: it is in the
  queue while its notice is sent, and counts until the next step takes its place (`AboveProvided`). No other discarded
  step is left in the queue (`DiscardedGone`). `QueueMaintenance` tags the steps
  past the reserve from the oldest up, so the newest that it tags has the reserve above it (`PastReserveKeeps`, which counts
  the steps), and so have all older ones. A step that had it keeps it: if maintenance takes one of
  those above, that one has the reserve above itself.
- `TurnsAreEven`, in RoundRobin mode under `AllStay`: no more readers than the rendezvous waits for, and none of
  them leaves or crashes before the end. A reader that joins or leaves later upsets the turns, so the property is false of
  `Spec` with other constants; those of the run satisfy `AllStay`. The invariant, `TurnInv`, holds until `SstWriterClose`
  is called: no reader has left and net gives none up (`Staying`); readers are admitted only before the stream is
  established, and then all are there and live (`Arrived`, by `AllAdmitted`, which counts them); and the readers up to
  `NextRRDistribution` got, or are being sent, one step more than those after it (`Turns`). That
  `SendTimestepEntryToSingleReader` never passes over the reader whose turn it is, as it does with one that is not
  established, is where `Arrived` is needed; that the step is new to the reader comes from `OrderInv`.

Each of these invariants was checked with TLC, without symmetry, in the modes it is about, before
it was proved. Proving them corrected four properties, which TLC then refuted in their old form on
instances the runs do not have:

- `NoStepMissed` required every step after the first. A reader that is admitted while another's failure
  still holds references to expired steps finds these in the queue, and does not get them.
- `ReserveKept` was `ReserveQueued`. A discarded step takes a place in the reserve while it is in the queue;
  it costs the reserve one step, until the next one is provided.
- `CloseAnnounced` was stated for OnDemand too. There, a queue that drains because its readers left
  leaves `SendCloseMsgs` for a demand that never comes.
- `StartingStepKept` did not allow for the discard of the starting step itself, with QueueLimit 0, or
  for the close, which untags a precious step that a reader is told to start with.

### The reader

The first part of `SstReaderProofs` is about the parts of `TypeOK`, action by action, and has the lemmas about
operators: `Selected`, which takes entries out of a list, keeps their order and loses none (`SelectedMap`); the
queue stays in order when an entry is taken out or a newer one is appended (`WithoutQueue`,
`AppendQueue`); smallest and largest steps exist. `SelectedMap`, about a fold, is an induction on step numbers. It is done
over a set, with the library's well-founded induction (`SetInduction`), which needs no operator
parameter.

Its theorems are:

- `ReaderTypeCorrect`: `Spec => []TypeOK`.
- `EntryStaysQueued`: `Spec => []CurrentEntryQueued`.
- `StepsReleasedOnce`: `Spec => []ReleasedOnce`.
- `StepsAreAccountedFor`: `Spec => []StepsAccountedFor`.
- `FormatsAreComplete`: `Spec => []FormatsComplete`.
- `AttributesAreInOrder`: `Spec => []AttributesInOrder`.
- `RanksAreToldTheSame`: `Steady /\ Spec => []SameEverywhere`.
- `ReaderInductive`: `Spec => []IInv`, the inductive invariant behind the first five.

`IInv` is `ReaderInv` and `RootSilent` (rank 0 sends itself no decision). `ReaderInv` is the types, the order of the
writer's log (`LogOrdered`), and for each rank:

- `Queue`: the queue is in order, and in it is only what has arrived.
- `InUse`, `Passed`: the step in use is the oldest in the queue, and a thread in `releasePriorTimesteps` has left
  only that one behind. This is why the saved pointers do no harm where the two threads do not walk at
  once, and why `SstReleaseStep` may follow the head of the list.
- `Late`, `Pending`: from the decision for a step to its delivery the queue holds nothing older than what was
  settled on that is not released or still to be walked over.
- `Released`, `Accounted`, `Informed`: the three properties, in a form that every step keeps. A released step that is
  still queued came late; this is what bounds the releases at two.

`AttributesAreInOrder` spans ranks and has an invariant of its own (`Listed`): what rank 0 has
listed is older than what it has yet to give out (`RootListed`), and what another rank has listed is older than
every step in the decisions on their way to it, which are in order (`FollowerListed`).

`RanksAreToldTheSame` is for streams of which each either has the Min pattern, where the writer may fail, or has a
writer that does not fail (`Steady`). The run's seven streams are of these kinds. In the Peer pattern each rank hears
of a failure on its own connection, perhaps when another has already returned the step, so there the answers differ.
The invariant `SameInv` says what each rank was told, with what it is about to return and, in the Peer
pattern, the step it has adopted and is bound to return (`Given`, `Heard`):

- `Told`: where rank 0 decides for all, what rank 0 was told is what another rank was told followed by the
  decisions still on their way to it (`HeardSame`). Only rank 0 waits for the contributions (`RootWaits`),
  and before the writer has answered nothing was decided (`Unanswered`).
- `PeerTold`, of a rank with its own connection. It stays connected until everything the writer sent has arrived
  (`Connected`), and a step that arrived and is neither returned nor discarded is in its queue (`Unread`). What is
  contributed and decided is newer than what the rank returned (`Synced`), which is why all have it when
  all have contributed. Nothing is discarded beyond what the rank returned or is about to (`Owed`).
- `NoneSkipped`, the part of `PeerTold` that relates ranks without a collective: unless the newest step is wanted,
  the n-th answer is the n-th data step of the writer's log, and the end comes after all of them. Two ranks
  that each count along the same log count alike.

Where a thread uses a freed entry the model stops (`freedTouched`), so the theorems speak of the behaviour up to
that point, as the run does.

### The abstract specifications

`StepStreamProofs`, for streams of any length:

- `StepsInOrder`: `Spec => []ReadInOrder`. What was read is increasing, and was written.
- `NothingIsPassedOver`: `Spec => []NothingPassedOver`. Unless the newest step was asked for,
  everything before the last step read was read, and everything when the stream ended.
- `StreamInvariance`: `Spec => []StreamInv`, the inductive invariant. It adds that the written
  steps increase, so that "not read yet" and "after what was read" are the same, and that a stream
  that ended is closed and has nothing ahead of the reader.

`SubfileAppendProofs`, for any ranks, subfiles and sizes:

- `NothingOverwritten`: `Spec => []RegionsDisjoint`. What two ranks write to a subfile in a step does
  not overlap.
- `SubfileInvariance`: `Spec => []SubfileInv`, the inductive invariant: a region that is finished lies
  before the end of its subfile, and the one writer's region begins behind it.

### The groups of a BP5 step

`BP5WriteDataProofs`, for any finite set of ranks, up to as many subfiles, and any sizes (`PlansAssumption`: the
engine limits the number of subfiles by that of the ranks, `BP5Writer.cpp:1324-1342`):

- `RanksAreGrouped`: `Spec => []EveryoneGrouped`.
- `GroupsAreBalanced`: `Spec => []GroupsBalanced`.

`PlanInv`, the invariant of the state machine, is small: no handler and no thread changes the groups, so they are
what `PartitionGreedily` returned for the step. What it returns is an induction over the ranks in the order they
are placed (`PlacedInOrderBuilds`, `PlacedGrouped`, `PlacedBalanced`). A group cannot stay empty because, as long
as one is, no other gets a second rank (`Grouped`); this needs the order of the sizes, for a rank with data is placed by
what the groups have, and a group of ranks without data would seem empty. `Balanced` says that a group without any
one of its ranks that have data is no larger than another; the ranks already there have as much as the one that joins.

The library's induction theorems take an operator, which the provers cannot instantiate. The module
proves induction for a *set* of naturals instead (`NumberInduction`, from `WFMin`), and what the recursive functions
inside `PlacedInOrder` and `MapThenSumSet` compute is shown with it: first that such a function exists, then what it
is (`SumsExist`, `TotalOfSums`, and `SumsAgree`: the sum does not depend on the order in which `CHOOSE` picks).

### Who is told to write

Also in `BP5WriteDataProofs`, for any finite set of ranks, any plans of steps and blocks that satisfy `PlansAssumption`,
any threshold and any order of messages the model admits:

- `TypesAreKept`: `Spec => []TypeOK`. No handler acts on a rank, group or message that is not there, until
  the program aborts, if it does (`Misdelivered`).
- `NoneLostOrDoubled`: `Spec /\ []NoRequestLeft => []QueuedOnce`.
- `NoneLostOrDoubledInOneStep`: `ReroutesOnce /\ Spec => []QueuedOnce`.

`TypeInv`, the inductive invariant behind the first, has three parts: `PlanInv`, from which the groups are covered and
led by ranks; `CallTyped`; and `ThreadsTyped`, which adds that a rank that was told to write was told the index of a group
(before that `m_TargetIndex` is 0). The step that needs it is the start of a call, where the groups, their number and the
roles change and messages of the last step are still there.

`QueueInv` is the invariant behind the other two. `QueuedOnce` alone is about queues and messages, and is not
inductive: a handler takes the head of a queue, or appends the rank a message names, and whether that rank is
elsewhere as well depends on who may still act on it.

- `LoopsInv`: which communication threads run. A rank whose loop is over, or a step without rerouting, has no queue to
  lose a rank from.
- `LedInv`: the groups are led by their first ranks, and only these keep queues and receive the three messages
  by which a rank is handed on.
- `HeldInv`: for each rank, one of two cases. Once its main thread was told to write, no queue and no message has
  it. Before, either one queue has it, in one place, and no message; or no queue, and one message
  among `REROUTE_ACK`, `WRITE_MORE` and `DO_WRITE`. `RerouteRequest` (its answer), `RerouteAck`, `WriteMore`, `Dispatch`
  and `DoWrite` each move one rank one place on; every other action leaves all of them where they are.

What makes a difference is the start of the next step, when each rank is in the queue of its new group. A
`REROUTE_REQUEST` left over from the step before would then be answered with a rank in the name of a coordinator that did not
ask. `NoRequestLeft` says that there is none, and it is an assumption of the theorem, not a fact about all
constants: a request that is not answered keeps its two groups from being closed as long as the
coordinator believes them PENDING, but answers to inquiries overwrite what it believes (`StatusReply`). TLC finds it true on the instances of the
runs, and no single change of the code that was tried makes it false there. The second theorem needs no such assumption: where a plan
reroutes one step at most nothing was sent before that step (`NothingSentInv`).

### The subfiles are appended to in turn

`BP5AppendProofs` proves the refinement, under the assumptions of the section before:

- `WritesAppendInTurn`: `Spec /\ []NoRequestLeft /\ []OwnFirst => AppendsInTurn`.
- `WritesAppendInTurnInOneStep`: `ReroutesOnce /\ Spec => AppendsInTurn`.
- `WritesDoNotOverlap`: `ReroutesOnce /\ Spec => []Subfiles!RegionsDisjoint`, from the second and `NothingOverwritten`.

The initial states map to an initial state, and every step to the beginning or the end of a write, to the
start of a step, or to no step. That a write begins alone and at the end of its subfile takes invariants about where
the ranks of a group have come to:

- `WriteInv`, for a rerouted step. A rank passes five phases, from the order to write to the receipt of its
  completion (`ThreadOk`); a subcoordinator has the position up to which it knows the subfile
  written, which is the start or the end of the data of some rank that finished (`FileOk`); and a `DO_WRITE` or a `WRITE_COMPLETION` on
  its way names the rank and the position the subcoordinator has, and is the only one of its kind
  (`ChannelOk`). So one rank at most is between its order and its completion in each group: `writingRank`.
- `ChainInv`, for a step that is not. The token has come to one rank of each group, or has gone back to the first:
  the ranks before that one have written one behind the other, those behind it have not.
- `EndsOk` and `ChainEndsOk`, where the model's positions meet those of the abstract specification: a subfile ends
  at the position its subcoordinator keeps, or behind the rank that has just written, or where its chain has come to. With `StartsOk`, the
  next block and the next step begin there.

A rank that is handed on is taken from the front of its group's queue (`BP5Writer_WithRerouting.cpp:565`), and at the
start of a step the front is the subcoordinator itself. Were it handed on, its group would be written without it, and its
`m_DataPos` would be the position in two subfiles. `OwnFirst` says that this does not happen: a subcoordinator
that has not told itself to write heads its own queue. It is not inductive: the action `RerouteRequest` does not ask. `OwnInv` is
the reason behind it: in a step nobody is asked to give a writer away before it has told itself to write,
because the coordinator pairs groups by what they have said of themselves, and they say nothing before that. What
could break it are messages left over from an earlier rerouted step, so the first theorem assumes `OwnFirst`,
beside `NoRequestLeft`, and the second, where nothing can be left over, has neither. TLC finds both true
on the instances of the run, two rerouted steps included.

### Abstract and detailed

With `WritesAppendInTurnInOneStep`, what `SubfileAppend` promises is proved of the data write, as `WritesDoNotOverlap`
does for its one invariant. For plans that reroute in several steps, and for the reader with
`StreamKept`, the models are known to implement the abstract specifications on the instances checked only.

### Only model-checked

- **Liveness** (`EndStepReturns`, `CloseReturns`, `CallsReturn`, `ReturnsUnlessRejected`): fairness and ENABLED are out of
  the prover's reach.
- **`StreamKept`**, that the reader implements `StepStream`: it holds on the streams of the
  run and not on all that can be opened. In the Peer pattern with a timeout the stream may end early
  (`EndIsTheEnd`), so the theorem would be false without a restriction to some configurations.
- **`QueuedOnce` and `AppendsInTurn` where several steps are rerouted**: `NoRequestLeft` and `OwnFirst` are hypotheses of the theorems.
  That a message left over from one rerouted step cannot make either false in the next needs an account of
  what the coordinator believes of a group after a late answer, which the proofs do not have.

## What the models leave out

### The SST writer

- **Several ranks.** The writer has one rank, so CommMin and CommPeer coincide and
  the collectives are local. What rank 0 sends and when is complete; that other
  ranks follow is a component of its own in the plan.
- **Definition and pattern locks, preload.** `ProcessLockDefnsList` and
  `ActOnTSLockStatus` do nothing when no reader locked its definitions. The preload
  mode travels with a message and changes no decision about the queue.
- **Failure of `initWSReader`**, in which the registration is dropped.
- **The data plane.** Its calls are the places where the lock is given up.
  `DPRegistered` is true of an entry until its release, which precedes or
  accompanies its removal, and nothing else reads it. `OldestUnreleasedTimestep`
  and `LastSentTimestep` are written but never decide anything.
- **Two critical sections merged into one step**, where nothing the other thread
  could do in between is visible to either: setting `WriterTimestep` and inserting
  the entry (`:2081-2137`, only main reads `WriterTimestep`), and the parts of
  `WriterParticipateInReaderOpen` (queue maintenance is suspended from the moment
  the reader is in the list, and the net thread only appends registrations).
- **The second call of `QueueMaintenance` in the Discard branch** (`:2158`), which
  directly follows the first with nothing in between.
- **The ranks of a reader.** In the Peer pattern `sendOneToWSRCohort` walks over the reader's ranks and
  gives the lock up for each (`:940-967`), and the connection of one rank may close while those of the
  others are open. The model has one connection and one `CMwrite` per cohort, which is the Min pattern
  and a Peer reader of one rank; what happens between two writes to one cohort is not covered.
- **The close handler's registration** (`:817`) precedes the reader's structure being
  filled in; the model reports closed connections only after the admission.

### The SST reader

- **Definition and pattern locks, preload modes**, which change how data is fetched but not
  which steps are delivered, and the contact file.
- **Joining late.** Every stream is read from step 0 (`OpenEstablish`); the starting step that the writer sends to a
  reader that joins later (`cp_reader.c:678`, `:734`) is not varied here. The writer model has it (`StartingTimestep`).
- **Memory freed at the close.** `SstReaderClose` frees the formats and attributes it has kept without clearing the
  pointers (`cp_reader.c:2321-2335`), while the network thread may still handle a message; the model clears
  nothing and says nothing of uses after that.
- **The data plane and marshalling.** Reading data is between `BeginStep` and `EndStep` of the application.
- **The writer's decisions.** Which steps are discarded is the environment's choice; the writer model
  has the decision. The two are not composed yet.

### The BP5 data write

- **Metadata, index files and the active flag**, which `EndStep` writes after the data.
- **Other aggregations** (EveryoneWrites not serialized, EveryoneWritesSerial, TwoLevelShm) and asynchronous writing.
- **Sends that fail or block.** Messages are small and sent by `Isend`; a turn's messages are on their way when
  it is over.
- **The threshold's meaning.** `OverThreshold` compares positions in the file, which include the
  earlier steps, as the code does (`BP5Writer_WithRerouting.cpp:398`); the user guide speaks of a fraction of
  the originally scheduled data (`docs/user_guide/source/engines/bp5.rst:76`). The model follows the code.

Hazards that no property covers yet are listed, with the reason, in `PROJECT.json`.

## Plan

Modelled so far: the SST writer, the SST reader, the BP5 data write with rerouting. In order:

1. **Proofs**: whether `NoRequestLeft` and `OwnFirst` hold for all constants where several steps are rerouted;
   `StreamKept` for the configurations of the reader it is true of.
2. **`SstStream`**: writer and reader joined by FIFO channels, against `StepStream`.
3. **`SstCohort`**: ranks of a writer with `ReleaseList` and the status list; copies of the
   queue agree after each collective.
4. **`FilePool`**, **`FileDrainer`**, **`TokenChain`**, **`MPIShmChain`**: small, each with an abstract
   specification (bounded pool, queue, mutual exclusion with turns, one-place buffer) and its proof.
5. **`BP5Streaming`**: order of writes in the writer's end of step and close, against the
   reader's polling, with a crash of the writer.
6. Definition locks and preload; `Inline`; the S3 transport's buffers.
