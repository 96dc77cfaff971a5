# dxvk-remix: formal models

TLA+ models of the concurrent parts of dxvk-remix, checked with TLC, and proofs
about them, checked with TLAPS. Paths are those of the repository; `H` and
`CPP` stand for `bridge/src/util/util_bridgecommand.h` and `.cpp`, `AQ` for
`bridge/src/util/util_atomiccircularqueue.h`.

## 1. The system

RTX Remix replaces a game's `d3d9.dll`. A 32-bit game loads the *bridge client*,
which sends every D3D9 call to a 64-bit *server* process; the server plays the
calls on *dxvk*, whose D3D9 front end hands them to the path tracer ("RTX").

| Component | State | Operations | Talks to |
|---|---|---|---|
| Command queue (`AQ`, `util_ipcchannel.h`) | slots, two indices, two sleeping words, two events, all in shared memory | push, peek, pull, isEmpty | one producer and one consumer process |
| Data ring (`H`, `CPP`, `util_circularqueue.h`, `util_circularbuffer.h`) | argument words in shared memory; `serverDataPos`, `serverResetPosRequired`, `clientDataExpectedPos`, a data semaphore | `Command`, `DataWriter::send_*`, `syncDataQueue`, `get_data`, `releaseReadData`, chunks of streamed commands | the command queue, which carries the headers with the data positions |
| Present pacing (`util_semaphore.*`, `d3d9_swapchain.cpp`, `d3d9_device.cpp`, `window.cpp`, `server/main.cpp`) | a counting semaphore, `gSwapChainMap`, `gPresentMutex` | Present, WM_DESTROY, the server's Present handler | client threads, the server through the command queue |
| Shared heap (`util_sharedheap*`) | mirrored segments, chunk states | allocate, deallocate, growth | client allocates, server retires |
| Asynchronous queries (`util_queryresults.*`, `d3d9_query*`) | result slots with sequence numbers | issue, getData | client polls what the server publishes |
| Session (`d3d9_lss.cpp`, `util_bridge_state.h`, `util_process.cpp`) | state machines of both processes | Syn, Ack, Continue, Terminate, exit callbacks | both processes |
| Module bridge, message channel | a second channel; window messages | blocking calls | both processes |
| Client objects, server handlers | proxies and handle maps | one sender and one handler per D3D9 call | the channel |
| Worker thread pool (`src/util/util_threadpool.h`, `util_atomic_queue.h`) | task slots, one queue per worker, a task count | Schedule, ScheduleOrRun, Future get/cancel/reset, steal, destroy | D3D9 geometry, the asset exporter, pipeline compilation |
| Scene command queue (`rtx_scene_command_queue.h`) | a list of batches with sequence numbers | push, popUpTo, popBatch | API threads and the render thread |
| CS thread, submission queue, lifetime tracker (`dxvk_cs.cpp`, `dxvk_queue.cpp`, `dxvk_lifetime.cpp`) | chunk and submission queues, fences | dispatch, synchronize, submit, present | front end and GPU |
| Scene manager, textures, options, staging ring, caches, front ends, shader compilers | GPU resources and data | rendering and translation | the GPU |

What makes these parts hard, and what makes them right:

* *Command queue.* Two processes, no lock, and a wake-up that is sent only when
  the other end says it sleeps. Right: a bounded FIFO; a failed call has no
  effect; nobody sleeps on when it could go on.
* *Data ring.* Reader and writer lap each other, and the writer goes by a
  position and a lap flag that the reader writes in two stores. Right: no
  unread word is overwritten; the reader finds what was written where it looks
  for it; neither waits for the other forever, however large a command is.
* *Present pacing.* A render thread, a window thread and the server share one
  count. Right: no credit is lost or granted twice; nothing is presented to a
  window that is gone; calls return.
* *Worker pool.* A slot belongs to a worker and a Future at once; workers steal
  and sleep. Right: a slot is reused when both are done with it; every task
  runs once; the destructor leaves nothing.
* *Shared heap.* The client hands out memory that the server reads later, and only
  a state that the server writes says when it is done; both number segments and
  chunks on their own. Right: an upload delivers what was locked, whatever the
  game does afterwards; nothing is handed out twice; an allocation ends.
* *Asynchronous queries.* A slot passes from query to query while requests of its
  former owner are still queued. Right: GetData returns a result of its own query's
  latest Issue; a query that is polled is answered.
* *Session.* Two processes, each of which may die at any point, watch each other
  by callbacks on threads of their own. Right: whatever dies, the rest ends; both
  sides agree on which calls are answered.
* *Scene queue and CS thread.* Batches take a lock-free way past the command stream
  that everything else goes through, and must keep the order between the two.
  Right: batches are neither lost nor repeated and keep their order; they apply
  after what their thread called before and before what it calls afterwards;
  whoever waits for the command stream is woken when it is empty.

`PROJECT.json` lists every component with its status, and under `hazards` the
places where this code can go wrong in a way that a test would hardly reach.

## 2. The modules

| Module | What it is | Extends / instantiates |
|---|---|---|
| `BoundedFifo` | what the command queue promises: the abstract specification | |
| `CommandQueue` | `AtomicCircularQueue` in shared memory with delayed stores | instantiates `BoundedFifo` |
| `CommandQueueProofs` | its inductive invariant and four safety theorems | `CommandQueue` |
| `CommandQueueRefinement` | the proof that it implements `BoundedFifo` | `CommandQueueProofs` |
| `DataRing` | writer and reader of a device channel's data ring; the headers travel in a FIFO, which is what `CommandQueue` is proved to be | |
| `MCDataRing` | commands of a few words for TLC | `DataRing` |
| `DataRingProofs` | its inductive invariant and four safety theorems | `DataRing` |
| `PresentPacing` | the Present semaphore and the teardown of a window | |
| `PresentPacingProofs` | its inductive invariant and two safety theorems | `PresentPacing` |
| `WorkerThreadPool` | the pool, its task slots and its Futures | |
| `WorkerThreadPoolProofs` | its inductive invariant and six safety theorems | `WorkerThreadPool` |
| `SharedHeap` | the heap, the lockable buffers that use it and the server's handlers | |
| `MCSharedHeap` | a buffer of two chunks and one of one chunk for TLC | `SharedHeap` |
| `SharedHeapProofs` | its inductive invariant and four safety theorems | `SharedHeap` |
| `AsyncQueries` | queries, their result slots and the server's answers; no specification of its own | |
| `Session` | both processes from launch to end, over the calls of `AsyncQueries` | `AsyncQueries` |
| `SessionProofs` | the inductive invariant of both and two safety theorems | `Session` |
| `SceneQueue` | the lock-free queue of batches; no specification of its own | |
| `CsThread` | the chunks of a device and the thread that executes them; no specification of its own | |
| `SceneCommands` | the Remix API's and the game's calls and the render thread's drains, over both | `SceneQueue`, `CsThread` |
| `SceneCommandsProofs` | the inductive invariant of all three and five safety theorems | `SceneCommands` |

`Session` composes the queries with the life of the processes they run in: the
bridge variable that every send and wait looks at belongs to both. `SceneCommands`
composes the queue and the command stream: a drain is a command of a chunk.

Definitions whose name is no name of the code and no property (`NoFence`,
`AfterNoWrap`, `TakeNothing`, ...) and that stand just above the definition
they resemble are wrong variants of it: the code as it would be with a plausible
bug. `Next` never uses them; they show that a property can fail.

### CommandQueue

One action per step of `push`, `peek`/`pull`, `waitUntil` and `wakeIfSleeping`:
`Check`, `Spin`, `Arm`, `Recheck`, `Block`, `Retest` are the stages of
`waitUntil` (`AQ`:247-315); `WriteSlot` and `Publish` are push's store of the
slot and of `m_read`; `ReadSlot`, `PeekReturns` and `Release` are the
consumer's. `WakeLoad` and `Signal` are `wakeIfSleeping`.

*Memory.* Every shared word has one writer. The model keeps the writer's value
(`idx`, `sleeping`, `slot`) and what the other process sees (`idxSeen`, ...); a
store becomes visible at any later step, in any order between words
(`Drain...`). A `seq_cst` fence waits for the writer's own stores; the code has
one before the store of an index, one before the slot is read, one before the
test that precedes blocking and one in `wakeIfSleeping`. Loads happen in program
order. That is weaker than the memory of the x86 processors this code runs on.

*Left out.* Statistics and the readers of the queue's history. Item contents
are model values. Time is abstract: whether a spin ends, a slice passes or a
limit is reached is a choice, which the constants `TimedEnds`, `EarlyOutEnds`
and `Slices` allow or forbid.

### DataRing

`Begin`, `Publish` and `Finish` are `Command`'s constructor, `prepareWrite`
with `publishLocked`, and its destructor. Each write runs `syncDataQueue`
(`CPP`:93-206): `ReadFlag`, `ReadPosition`, then, in an overwrite condition,
`Announce`, `TestFlag`, `TestPos`, `Waits`, `Withdraw`, then `SetFlag` and
`Write`. The reader: `Receive`, `Pull` (one `get_data`), `WrapPos` and `WrapFlag`
(the two stores of `noteReadWrap`), `Release` with the steps of
`releaseReadData`, and `NextChunk`. Every access to a shared field is a step.

*Data.* What the words say is left out; `unread` is the set of words written and
not read, `held` the words that a handler has pointers to. A write is n single
words, or a blob (a size word and n - 1 words that stay together), because the
two wrap differently.

*Left out.* Shared memory is sequentially consistent here (x86 stores are not
reordered with each other, and the position travels behind a header). The data
semaphore only shortens a poll. The limit after which the writer overwrites
unread data with an error message exists (`Impatient`) and is off in every run.
Response UIDs, state packets, the module bridge (no position reports) and the
bridge going off in the middle of a command are not modelled.

### PresentPacing

`Present` is the swap chain's Present up to the sent command; `TakeCredit`,
`TimesOut` and `Abort` are the outcomes of one wait of `syncOnPresent`, with
what its caller does next; `Destroy` and `GiveBack` are WM_DESTROY with
`waitForPendingPresents`; `Execute` and `ReturnCredit` are the server's Present
handler. Both client calls hold `gPresentMutex` throughout, which is why `phase`
is one variable. `Stop` is the client's bridge going off.

*Left out.* `Reset`, which rewrites the window's map entry with `closing` false
(`d3d9_device.cpp`:4050-4052). With a bounded number of retries a Present that
timed out leaves a credit too many in the semaphore; `CreditsAccounted` and
`GoneStaysQuiet` are therefore checked and proved for `infiniteRetries`.

### WorkerThreadPool

`Schedule` is `reserve` and `capture`, which no other thread can disturb: a slot
that is free and a queue that has room stay so until the scheduling thread
fills them. `Push`, `Notify` and `Count` are the rest of `submit` in the code's
order. `Await`, `FindsNothing` or `Pop`, `Execute`, `Finish` and
`WorkerCleansUp` are a round of a worker; `Get`, `Cancel`, `Reset`, `Wait`,
`Release` and `FutureCleansUp` are a Future's; `StopWork`, `NotifyAll`, `Join`,
`Drain` and `Drained` are the destructor. `Finish` and `Release` are the
`fetch_or` of `Task::finish`, the two `...CleansUp` what the second side does
after it. A pop and its decrement of `m_numTasks` are one step, under
`m_threadMutex`; the test of the condition variable and the sleep are one, under
`m_taskMutex`. A local slot number goes back to 0 where its scope ends. `m_numTasks` may be below
0 for a moment, where the code's unsigned count is large: the predicate is
"not 0". A job is scheduled again only when nothing is left of its former run,
so that job names tell results apart.

*Left out.* Affinity masks (all workers are eligible), results that are void or
ready at once, moves of a Future.

### SharedHeap

`Lock`, `Unlock` and `Destroy` are `LockableBuffer`'s (`client/lockable_buffer.h`),
up to the allocation that a discard, a first lock or an upload makes. `Allocate` to
`Mark` are `SharedHeap::Instance::allocate` with `findAllocation` (`Find` is one
search of `findSharedHeapAllocation`), `FreeDeallocations` and `addNewHeapSegment`
(`Grow`); `Mark` ends with what the caller does with its memory, and `Upload` and
`RetireSnapshot` are the rest of `unlock`. `GameWrites` is the game, which writes
through every pointer a lock gave it, between the steps of nothing else: one
thread uses the device. The server executes the commands in order, at any time.
Chunks hold 0 or 1, which tells an old content from a new one; `data`, in the
message of an upload, is what the locked range held and is not sent.

*Left out.* Bytes within a chunk; shadow memory and reserved ring space (the ways
without a shared heap); a segment that the server fails to map
(`util_sharedheap.cpp`:141-145: its numbering would then lag behind the client's);
a second thread of the game in the heap; the wrap of the 32-bit ids.

### AsyncQueries and Session

`GetData` is one poll: in vain, with an answer, or sending the next request.
`ServerAnswers` writes the slot, `ServerPublishes` its number: two steps, between
which the client may poll, reset, or give the slot to another query. Numbers are
taken fresh among those that anybody remembers, which is what 2^32 numbers give.
`issues` counts a query's Issues, and a result names query and Issue.

`clientAt` and `serverAt` are program counters through `InitServer` and
`RemixDetach`, and through `wWinMain` and `ProcessDeviceCommandQueue`. `Sends`,
`WaitsFor` and `TimesOut` are `pushHeaderLocked` and `waitForCommand` with what
the caller does with a failure. `Call` is any call that the response policy
answers. `ServerExited` with `EndsGame`, and `ClientExited` with `ForceQuit`, are the
two exit callbacks, each first turning its side's bridge off. `ClientCrashes` and
`ServerCrashes` may happen wherever a process is.

*Left out.* Response UIDs (one call is outstanding at a time); the module thread;
the names of states in `BridgeState`, whose only effect is to turn the bridge off.
When a process ends its query state is forgotten, because nobody can ask for it.

### SceneQueue, CsThread and SceneCommands

`TakeNumber`, `Exchange` and `Link` are the three atomic operations of `push`;
`LoadNext`, `TestHead`, `ExchangeStub`, `LinkStub` and `LoadAgain` are those of
`popBatch`. In `CsThread`, `CountChunk` (with `NotifyOne`), `Wakes`, `TakeChunk` and
`EndOfThread` are a round of `threadFunc`, which holds the mutex from the count to
the take; `SynchronizeCsThread`, `Sleep` and `Synchronized` are a wait for the
thread. In `SceneCommands`, `Push` and `PushGoesOn` are `pushSceneCommands`,
`LockApi` and `EmitDrain` are a call that takes its bound and emits its drain under
`s_mutex`, and `DrainBegins`, `Pops`, `Applies` and `DrainEnds` are
`drainSceneCommands`.

*Left out.* What commands do to the scene; chunks are full after a number of
commands and not of bytes; `ConsiderFlush`; the D3D11 device, which waits for
single chunks; the pushed-counter that lets a drain skip the queue.

## 3. What the runs check

| Run | Question | Bounds, and why they are enough | Result |
|---|---|---|---|
| `CommandQueue` | Is the queue a bounded FIFO, and is a blocked end woken, with time limits, early-outs, slices, missing events and delayed stores? | 3 slots: full with two items, empty, and every wrap; two headers tell order and duplication apart; the producer has limits, the consumer early-outs | passes |
| `DataRing` | Are unread words safe, the reader in step, every command sent, and do commands larger than the ring get through? | a ring of 10 words: every start, end and wrap position on both laps, under three workloads: commands of 1 to 3 words with the reader's two wrap stores taken as one, objects that never end at the last word with the stores apart, and streams of 14 words | passes |
| `DataRingFlagRace` | "so the writer protects unread data" with the two stores apart | short commands | violated, finding 1 |
| `DataRingPointers` | "The pointer stays valid until the command's data has been read to its end." | Presents with two rectangles | violated, finding 2 |
| `PresentPacing` | Are credits accounted for, are destroyed windows quiet, do calls return, also when the server hangs? | 2 windows, 3 frames, 5 headers: more presents queued than credits; infinite retries, or 2 | passes |
| `PresentCredits` | Is the allowance restored when nothing is in progress? | 1 window, 1 frame, 1 retry | violated, finding 3 |
| `PoolTasks` | Are slots, lambdas and results handled once, and does the destructor end? | 2 workers, 2 slots, queues of one task, 2 jobs: a held Future blocks the ring, workers steal, jobs recur without end | passes |
| `PoolSleepers` | Does a Future that is read get its result? | 1 sleeping worker, 1 job | violated, finding 4 |
| `SharedHeap` | Do uploads deliver what was locked, is memory handed out once, do the sides agree, do allocations end? | segments of 2 chunks in a heap of 4: a request that fits nowhere, growth, growth halved and refused; 2 nested locks; 3 allocations: a discarded buffer, its successor and a snapshot | passes, about 380,000 states |
| `Session` | Are results a query's own, does everything end whoever dies, are calls answered? | 2 queries for 1 slot, so that it is passed on; 2 Issues; 2 commands on the way | passes, about 280,000 states |
| `SceneCommands` | Are batches kept and ordered, are drains complete, does synchronize mean executed? | 2 threads, 2 batches, 2 commands, chunks of one command: a stalled producer with a batch behind it, numbers against the order of the exchanges, a marker held over, a synchronize before, between and after | passes, about 270,000 states |
| `SceneDestroy` | "Retained commands queued before this call ... apply first" | 1 thread, which goes on pushing | violated, finding 5 |

The queue, the ring, the pacing and the pool are bounded by their own buffers
alone, made small: commands, presents and jobs go on forever. The other three
count things that never come back (allocations, Issues, batches and commands
emitted) and bound them by `MaxUid`, `MaxIssues`, `MaxBatches` and `MaxCommands`.

**Properties.** *CommandQueue:* `NoLostWakeup` (an end that is blocked and could go
on has a wake-up on its way), `SlotIntegrity`, `EmptyMeansTaken` (isEmpty, with an
old index), `ImplementsFifo`, `ReadyCallsReturn`. *DataRing:* `UnreadProtected`,
`ReaderInStep`, `StreamsAlwaysFit`, `PointersValid`, `EveryCommandSent`.
*PresentPacing:* `CreditsAccounted`, `GoneStaysQuiet`, `AllowanceRestored`,
`CallsReturn`. *WorkerThreadPool:* `OwnResult`, `ReleasedOnce`, `RunsOnce`,
`FreeIsEmpty`, `LeavesNothing`, `DestructionEnds`, `SpinningPoolAnswers`,
`EveryGetReturns`. *SharedHeap:* `UploadsKept`, `HeldMemoryIsOwn`, `AssertionsHold` (the
assertions of both sides), `CallsReturn` (an allocation ends unless the heap is full
of what is neither retired nor about to be). *Session:* `ResultOfLatestIssue`,
`ProcessesEnd`, `CallsAnswered`. *SceneCommands:* `BatchesKept`,
`AppliedAfterEarlierCalls`, `DrainIsComplete`, `SynchronizedMeansExecuted`,
`SynchronizeReturns`, `RetainedApplyFirst`. Each specification with a run has one `TypeOK`,
which gives a type to every variable, those of the modules it extends included, and
adds the limits that go with the types: positions within the ring, segments and
uploads within the heap, counters within their bounds, one owner of a slot. `IndInv`
is the inductive invariant of the proofs, checked by TLC as well where a run lists it.

**Fairness.** Weak fairness of the steps of a call in progress, and of stores
reaching memory: the operating system runs both processes' threads, and a store
buffer drains. Nobody is forced to start a call, so no progress comes from new
traffic: a blocked end must be woken by what is already under way. With
counted retries `PresentPacing` has fairness for the client only: the server may
hang. In the pool nobody is forced to schedule, read, drop or destroy, and spurious
wake-ups are possible but never promised. In `SharedHeap` the time limit need never
pass: an allocation must end without it. In `Session` the processes, the callbacks
and the limits of the detach go on, a game polls each query again and again, and
the GPU finishes what was flushed to it; nobody must crash, call or detach. In
`SceneCommands` the render thread and the calls in progress go on.

**Deadlock.** It is checked in the runs of the queue and the ring, whose ends
always have a next call. The other systems end (the bridge is off and every
window gone, the pool or the device destroyed, the processes over) or come to
the bound of what they count, and switch the check off.

## 4. What is proved

For every value of the constants, under the `ASSUME` of the module:

* `CommandQueueProofs`: `IndInvariant`, and from it `TypeCorrect`,
  `WakeupsArrive` (`NoLostWakeup`), `SlotsIntact` (`SlotIntegrity`) and
  `EmptyIsEmpty` (`EmptyMeansTaken`). `NoLostWakeup` is not inductive: it needs
  that a blocked end's sleeping word is visible (its fence), and that an index
  not yet visible belongs to an end that has not looked at the other's sleeping
  word (its fence). `InFlight` says both: an index is in flight only between
  its store and the fence of `wakeIfSleeping`, a slot only before it is
  published. `Ring` says that a storing producer has room and a reading consumer
  has data, whichever of the other end's two index values one goes by; without
  the case of the old value it is not inductive either.
* `CommandQueueRefinement`: `Refinement`, `Spec => ImplementsFifo`. The abstract
  queue is the slots from the consumer's own index to the last *visible* index of
  the producer, so an item enters the abstract queue with `DrainIdx(Producer)`
  and leaves it with `Release`. Every other step changes at most the phase of a
  call, or stutters. `Copies` adds that the producer's item is in the slot it
  publishes and the consumer's copy is the slot it releases.
* `PresentPacingProofs`: `IndInvariant`, `TypeCorrect`, `CreditsKept`
  (`CreditsAccounted`) and `WindowsStayQuiet` (`GoneStaysQuiet`), the last two about
  waits without a limit, as the properties say. The equation of the credits is
  what makes the teardown right: a WM_DESTROY that holds the whole allowance
  leaves nothing for the server to owe, so no present of any window is pending. It
  holds only while the bridge runs; `Teardown` carries what remains true after it
  stopped.

* `SharedHeapProofs`: `Invariant`, and from it `TypesHold`, `UploadsSurvive`
  (`UploadsKept`), `MemoryIsOwned` (`HeldMemoryIsOwn`) and `AssertionsNeverFail`
  (`AssertionsHold`), for every set of buffers and sizes, every limit of the heap
  and of a segment, and every bound of locks and allocations. None of the four is
  inductive. `Ordered` says what the channel may hold: one Alloc of an id at most,
  one Dealloc, and nothing about the id behind it, so the chunks of a command on
  the way are `Allocated` until it is executed and cannot be retired under it.
  `Owners` says who may still send that Dealloc: each id is of one buffer, as its
  current one, as a lock's or as what a lock discarded, and what is discarded once
  is neither current nor any later lock's. `Known` ties the two sides: the server
  knows an id, or its Alloc is on the way, unless it is retired. `TheSegments` is
  what the server's assertion on segments needs: a count of the segments the server
  will have when it executes each command on the way, which an `AddSeg` raises and
  an Alloc relies on. `Runs` (allocations are runs of chunks that share none) is
  kept by `Allocate` because `Find`, wherever it stands, only reports chunks that no
  allocation covers, and by `FreeDeallocations` because it forgets id and run
  together. `Uploaded` then says that memory under an upload on the way is as it
  was: the game writes to held memory only, and a snapshot is held by nobody.
* `SessionProofs`: `TypesHold` and `ResultsAreCurrent` (`ResultOfLatestIssue`), for
  every set of queries and slots and every queue size, through crashes of either
  process, time limits, a detach and a bridge that is turned off. A session is one
  run of the two processes: neither starts again, and there is no device reset.
  Slots are reused at once, so the proof follows the number of the request that a
  query waits for: `Numbers` says it is in one place, and `InQueue`, `InAnswer` and
  `InBlock` what is true at each of the three places it passes (on the way, answered
  but not published, in the slot). `Follows` says that the server's object is that
  of the latest Issue once the commands on the way are executed, and no other
  command of the slot is behind the one waited for: a `Reset` or a new owner gives
  up the number with the slot. `Exchange` is what the types need of the session:
  at most one response is on the way, because a call waits for its own. The options
  and what is kept for the processes' end (`OptionTypes`) have types of their own,
  on which nothing else depends; `NextOptions` keeps them.
* `SceneCommandsProofs`: `Invariant`, `TypesHold`, `QueueKeepsBatches` (`BatchesKept`),
  `SynchronizeIsAWait` (`SynchronizedMeansExecuted`), `BatchesFollowEarlierCalls` and
  `DrainsAreComplete`, the last two action properties, for every set of threads and
  every chunk size. `BatchesKept` is defined by following `next` from the tail,
  which a proof cannot do by itself: `TheList` states instead that there *is* a list
  of nodes from tail to head, with the batches that are not popped in the order of
  their exchanges and the stub at one place or none, where each node leads to the
  next or some thread is about to link it. Each of the eight atomic steps of push and
  pop changes the list in one way. `TheStream` gives each command its number by the
  place it has (executed, in the chunk that runs, in one that waits, in the
  device's), so that `emitted` is what the thread executed and what it will;
  `Knows` says what was queued when a command was made and that the batches below
  its bound were pushed before it. The types of the calls and their frames
  (`CallTypes`) are kept by a lemma beside the invariant.

* `WorkerThreadPoolProofs`: `Invariant`, and from it `TypesHold`, `ResultsAreOwn`
  (`OwnResult`), `SidesRelease` (`ReleasedOnce`), `TasksRunOnce` (`RunsOnce`),
  `FreeSlotsAreEmpty` (`FreeIsEmpty`) and `PoolEndsEmpty` (`LeavesNothing`), for every
  number of workers, slots, places in a queue and jobs, with and without stealing
  and sleeping. The two bits of `m_state` say only how far a slot is; the proof
  needs *who* is at it. `LambdaSide`, `ResultSide` and `CleanSide` say that each
  state has exactly one holder: a task not executed is about to be pushed, in one
  place of one queue, or with one worker; a result not released is the scheduler's
  to hand out or one Future's; a slot with both bits is cleaned up by one thread.
  `Contents` says what the slot holds meanwhile, and `Counted` that `m_numTasks` is
  the number of slots in queues, less one between a push and its count, so that the
  destructor, which empties the queues, ends with 0; and that there is room for the
  push, since after the test for room workers only take from the queue.
* `DataRingProofs`: `TypesHold`, `StreamsFit` (`StreamsAlwaysFit`), `UnreadIsProtected`
  (`UnreadProtected`) and `ReaderStaysInStep` (`ReaderInStep`), for every size of the
  ring from two words on, every set of commands and every capacity of the command
  queue. From the constants they need what `RingAssumption` says, and of streamable
  commands what `StreamAssumption` says: an item is at most `s_maxItemWords` and its
  size word (`H`:262 and 299 send larger ones in pieces), and two items fit with a
  skipped tail (`s_maxItemWords` is a sixteenth of the ring, and at least 16 words, so
  a ring of 34 words or more will do; `CPP`:76).
  The first two hold of every run. The last two are about the runs that are `Calm`:
  no wait for space is given up (`Impatient` is off, as in every run of TLC), and no
  single word that ends at the ring's last word sets the flag while the two stores of
  `noteReadWrap` are apart. The second exception is the race that
  `DataRingFlagRace` finds, and the theorem shows that there is no other without a time limit: blobs, and
  single words that pass the ring's end, are safe with the stores apart.
  Neither property is inductive, as the state has no trace of laps: two positions
  and a flag stand for them. `Witnessed` says that there *are* laps that explain the
  state: a sequence of writes `q`, from the reader's next to those that the commands
  begun have still to make, where write k is at `p[k]` in lap `l[k]`. `Lies` says that
  each starts where the one before ends, and that all lie between the reader's
  published position, in lap `s`, and one length of the ring behind it, so that no two
  share a word (`ItemsApart`). `Path` ties that to the ring: the first is at the
  reader's position, the first not written at the writer's, and the words of those
  between are the unread ones. `Room` says what the flag means: the writer is a lap
  ahead, or is about to be, or the reader is between its two stores. `Chunks`,
  `Reading` and `Writing` say that each header ends at a write, that its handler will
  read just those written for it, and that a chunk has no other write that starts
  where it ends (`AllPublishedRead` tests positions only). `Decides` says what the
  writer knows at each step of `syncDataQueue` from the flag and the position it has
  read, both perhaps out of date: `lapBehind` was read before the position, the second
  test goes by the position read before the wait, and still `Fits` holds when it
  writes, because the reader only moves away. `Small` bounds what of a streamed command
  is not published. One lemma per group of actions gives the witnesses after the step.

Helpers that the proofs keep needing have lemmas of their own: what a sequence is
after a command is sent or taken, what a run of chunks is after an allocation, where
`Find` may stop, how the list changes at its ends, which words a write takes and where
it ends.

Only model-checked: liveness (`ReadyCallsReturn`, `EveryCommandSent`, the three
`CallsReturn`, `DestructionEnds`, `SpinningPoolAnswers`, `SynchronizeReturns`,
`ProcessesEnd`, `CallsAnswered`), because the prover handles neither fairness nor
`ENABLED`. Every safety property of a passing run is a theorem.

## 5. Where the code and what it says disagree

1. `DataRingFlagRace`: `noteReadWrap` stores position 0 (`H`:468) and then clears
   the writer's lap flag (`H`:471). A writer between the two, whose single word
   ends at the ring's last word, sets the flag for its own new lap and loses it to
   the clear. It then believes that the reader is on its lap and overwrites unread
   words.
2. `DataRingPointers`: a read that wraps in the middle of a command publishes
   position 0 and so releases the ring up to its end, where an object of the same
   command may still be in use through a pointer that `H`:134 calls valid.
3. `PresentCredits`: `syncOnPresent` reports a time-out when its last attempt
   took the credit (`d3d9_device.cpp`:538); WM_DESTROY does not give it back.
4. `PoolSleepers`: `submit` notifies before it increments `m_numTasks`
   (`util_threadpool.h`:469-480). A sleeping worker that wakes in between sleeps
   again, and the task waits for the next one, or for ever.

5. `SceneDestroy`: the drain that DestroyMesh emits ends early when a producer
   stands between its exchange and its link, even one that pushed after the call,
   and when a frame marker is held for the next device frame. Batches that were
   wholly queued before the call (`rtx_remix_api.cpp`:1863) then apply after the
   mesh is gone.

Two more are stated by `ProcessesEnd` as exceptions. The server's waits have no time
limit, as its `GlobalOptions::getInfiniteRetries()` is always true
(`util/config/global_options.h`:160-163): a server whose client dies before its Syn
stays, and the "Timeout. Connection not established to client application/game."
of `server/main.cpp`:3874 is never reached. And a `RemixDetach` with infinite retries
(the window without focus, `client/message_channels.h`:52-57) waits forever for the
Ack of a server that died after the exit callback was unregistered; "Moving ahead
anyway." (`d3d9_lss.cpp`:556) is not reached either.

## 6. Plan

Done: command queue, with its proofs and its refinement; data ring, present
pacing, shared heap, asynchronous queries and session, scene queue, CS thread and
their composition, worker pool, all with their proofs.

Next: the staging ring and the submission queue, the candidates of the list of components,
and proofs about any property that comes with them.

## 7. Not modelled

* The module bridge: the same channel without position reports; one blocking call
  at a time never fills its ring.
* The message channel: its ordering is the operating system's.
* The client's other senders and the server's other handlers: argument marshalling
  over `DataRing`, one blocking or silent call each, which `Session`'s `Call` is.
* The submission queue, lifetime tracker and staging ring: their state is that of
  Vulkan fences and buffers.
* Texture and asset managers, scene manager, path tracer, options, front ends and
  shader compilers: data, floating point and GPU work, beyond a model checker;
  most of the repository's lines are these, vendored libraries and shaders.
