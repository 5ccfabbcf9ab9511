# TLA+ models of the ESESC simulator

ESESC is a timing simulator for multicores. A modified QEMU executes the
program; the instructions it executes are handed to timing models of cores and
of a memory hierarchy. This directory models the parts of it whose correctness
depends on order: queues between threads, replays, request/acknowledge
protocols, event time, and the bookkeeping that starts, pauses and ends flows.
Paths below are relative to `src/`.

## The system

| part | code | state | operations |
|---|---|---|---|
| instruction FIFO | `misc/libsuc/ThreadSafeFIFO.h` | 256 slots, 8-bit head and tail | push (QEMU thread), pop (simulation thread), full, empty, realsize |
| reader | `emul/libqemuint/QEMUReader.cpp` | one FIFO and one ring per flow | queueInstruction, syscall, executeHead, reexecuteTail, syncHeadTail |
| instruction ring | `emul/libemulint/EmuDInstQueue.{h,cpp}` | slots, head, tail, insertpoint, ndrop, nFreeElems | add, popHead, advanceTail, moveHead2Tail, adjust_trace |
| flow pool | `emul/libqemuint/QEMUEmulInterface.cpp` | table of free, taken and freed flows | getFid, freeFid |
| sampler | `emul/libemulint/EmuSampler.cpp`, `simu/libsampler` | mode, done, phase counters | queue, execute, stop, beginTiming, syncStats, markDone |
| task handler | `simu/libcore/TaskHandler.cpp` | allmaps, running | resumeThread, pauseThread, syncRunning, terminate, boot |
| fetch and pipe queue | `simu/libcore/FetchEngine.cpp`, `Pipeline.cpp` | buckets, outstanding fetches | fetch, newItem, readyItem, nextItem, doneItem |
| cores | `simu/libcore/OoOProcessor.cpp`, `InOrderProcessor.cpp` | ROB, rROB, flushing, replay state | fetch, execute, addInst, retire, replay |
| load/store queue, store sets | `simu/libcore/LSQ.cpp`, `StoreSet.cpp` | instructions in flight per word, last fetched store | insert, executing, remove |
| caches | `simu/libmem/Cache.cpp`, `MSHR.cpp` | lines, MSHR entries, pending counters | read, write, busRead, pushDown, pushUp, invalidate |
| routing | `simu/libcore/MRouter.cpp`, `MemRequest.*`, `simu/libmem/Bus.cpp` | routes, pending counts | fwd*, sendInvalidate*, ack |
| ports | `misc/libsuc/Port.cpp` | the time and units a port has left | create, nextSlot |
| event queue | `misc/libsuc/TQueue.h`, `callback.h` | ring of time slots, heap of later events | schedule, insert, nextJob, advanceClock |

How they interact. A guest thread runs in QEMU on a host thread of its own. It
obtains a flow from the pool, tells the task handler to run it, and pushes every
instruction into its flow's FIFO. The simulator thread (`TaskHandler::boot`)
walks the running flows; each core's fetch calls the reader's `executeHead`,
which pops a batch from the FIFO, cracks it into DInsts and puts them into the
ring. Fetch takes the ring's head, retirement moves its tail, and a replay moves
head back to tail. Loads and stores become memory requests, which travel through
the caches as callbacks of the event queue; the same queue wakes the core.

`PROJECT.json` lists every part, with the reason for each that is not modelled.

## Modules

### Instruction ring: EmuDInstQueue, DInstFlow, ReplayStream

`EmuDInstQueue` has one operator per method of the class, on the class's own
fields; the mask `& (size-1)` is `Masked`. `DInstFlow` adds the clients: a
refill puts a batch in one DInst at a time (`StartRefill`, `Refill`),
`ExecuteHead` hands one out, `Destroy` is `DInst::scrap` calling `advanceTail`,
`SyncHeadTail` is the replay, which clones what lies between tail and head.
`ReplayStream` says what the clients may rely on: an unbounded stream of which a
window can be fetched again. `DInstFlow` implements it (`ImplementsStream`).

Run **flow** starts with two slots, six instructions and ids up to ten: the ring
grows twice (to four and eight slots), wraps in both sizes, and replays nest. It
shows that the pointers stay ordered, that `ndrop` and the free count agree with
what the core holds, that a replay clones only live DInsts, that no instruction
is skipped, and the refinement.

### FIFO and reader: ThreadSafeFIFO, InstChannel, QEMUReader

`ThreadSafeFIFO` keeps the index width (`N` stands for 256) and the comparisons
of `full()`, where `tail+2` is an `int` and does not wrap while the cast
`tail+1` does. `QEMUReader` has two threads: the QEMU thread fills the tail slot
and publishes it in separate steps, or pushes a system call without asking
`full()`; the simulation thread runs the batch loop of `executeHead`, with the
merging of load multiples, its early returns, and the sampler pausing the flow.
`InstChannel` is the bounded order-preserving channel that it implements.

Run **reader** (`N` = 8, batch 5, threshold 2, for 256, 205 and 16) runs
programs long enough for both indices to wrap. Nothing is lost, repeated or
reordered, every micro-operation is created once from its own entry, and the
program ends.

These results hold for programs that respect three limits the code does not
enforce, and the programs of the run are chosen inside them:

- at most one load multiple in a batch where the FIFO still holds enough. Beyond
  that the batch pops past tail; run **reader_underrun** shows it;
- a system call only while there is room, since `syscall` does not ask `full()`
  and with head at 0 or 1 there is no reserve (`ThreadSafeFIFO.h:52`);
- no plain load immediately before a load multiple: `QEMUReader.cpp:549` then
  takes the multiple's first entry for part of the load.

`Modest` states the first two limits for every size, and the proofs below use
it: no system call, and among any `N - 3` consecutive entries at most `N - 3 -
Bulk` that the next entry may be merged with (48 among 253 in the code, where
`N` is 256 and a batch is 205). The batch loop counts the entries it takes and
not those it merges, so these pops have to fit into what a full FIFO holds
beyond a batch, with one entry to spare: the last merge of a batch looks at the
entry after the one it is at.

A batch that `wait_until_FIFO_full` abandons while the flow is paused starts its
entry again later. Had it created some of the entry's micro-operations already,
they would be created twice. In the run's programs a load multiple always finds
`MinReal` entries behind it, so only the first micro-operation of an entry
waits.

### Task handler: TaskHandler

Guest threads clone, wait on a futex, wake, exit, and end the program, as the
bundled QEMU does. Everything under the mutex is one step, except that the two
halves of `removeFromRunning` and of `resumeThread` are separate because `boot`
reads the list without the mutex. `getFid` (its mutex calls are commented out)
reads the pool one flow per step, in its two loops, and then writes. The loop
that shifts `running[]` and the one that clears the active flags in `terminate`
are one step each. The second core of a flow (`psimu`) is switched with the
first.

- **tasks**: two threads, three flows, up to four calls begun after
  `terminate_all`, all interleavings with `boot`. The list that `boot` walks is
  exactly the active flows, each once, the pool does not run out although two
  threads may be handed one flow, the list stays empty after `terminate`, and an
  active flow is simulated again and again although entries shift below `boot`'s
  index. Fairness: the simulator thread and a thread that holds the mutex are
  scheduled.
- **tasks_same_fid**: see Findings.

### Sampler: EmuSampler, SamplerSkipSim

`EmuSampler` has the fields and methods of the base class that count
instructions and change the mode; `SamplerSkipSim` the guest threads that call
its `queue`, with the steps between two unlocked accesses separate and those
under `stop_lock` or `mode_lock` together. `Crews` are the sets of flows that
may share a sampler: one flow each, or all of them. Run **sampler** has both for
two flows, with a skip of two instructions and an end at five, power-model
synchronisations, and threads that exit at any time. A shared sampler may lose
instructions between `stop` and `beginTiming` of two threads but never counts
one twice; the sampler of a single flow loses none and is in timing mode only
when QEMU reports one instruction at a time; once enough are counted the
simulation is terminated. Fairness: host threads are scheduled.

### Memory hierarchy: MSHR, Cache

`MSHR` has `FullMSHR`, `BlockingMSHR` and `NoMSHR`; `retire()` calls callbacks
that re-enter it, so it is a sequence of steps (`Retiring`, `RetireCalls`,
`RetireEnds`) and no other handler runs in between. Each cache has its own hash of
lines to entries; a blocking MSHR has one list for all its lines, so its hash is
constant (`OverflowAssumption`). `Cache` has L1s above one L2 and the memory of
`conf/shared.conf`, a `NICECache` that answers every request. Accesses to address
zero, which `Cache::read` and `write` acknowledge without a lookup, are left out.
A request in flight is at one level in
one phase; invalidations and writebacks are messages that may overtake each
other, so `ctl` counts them per message. A core marked in `PCores` sends
prefetches.

- **cache**: two L1s (one blocking), three requests, two lines sharing an MSHR
  entry, one line per cache, a warm-up access. The free count of a full MSHR and
  the uses of its entries add up, every waiting request has an answer in flight
  that will wake it, and each request is counted where it is.
- **cache_live**: the shape of `conf/shared.conf` (no MSHR at L2, L2 not
  inclusive) with one L1. Every access is acknowledged. Fairness: a scheduled
  event is executed, which is what the event queue is shown to do.
- **cache_assert**: see Findings.

### Event queue: EventScheduler, Calendar

The ring of time slots, its occupancy count, the heap of later events and the
cached `minTooFar`, with the scan of `nextJob` and the transfers of
`adjustTooFar` as steps. `Calendar` is the promise: a callback is called once,
in its cycle, before the clock leaves it. Run **events** uses a ring of four
slots, three callbacks and distances up to six, over ten cycles: events land in
the ring and in the heap, and the ring wraps more than twice. `TQueue::remove`
and `reschedule` have no caller and are left out.

### Ports: Port, Reservation

`Port` has the five classes that `PortGeneric::create` chooses from.
`Reservation` is the promise: each request gets the earliest cycle in which a
unit is free for its whole occupancy. Run **port** (up to three units, occupancy
up to three, seven requests over eight cycles) shows that no cycle is overbooked
and that every class implements `Reservation`; the four fast classes therefore
answer as the general one would.

### Core: Pipeline, StoreSet, OoOProcessor

`Pipeline` holds the buckets in the pools and queues of the class, including the
heap of buckets whose instruction-cache answer came early. `StoreSet` has the
SSIT/LFST tables. `OoOProcessor` runs one core of the non-SCOORE configuration:
`Cycle` is fetch, then the stages of `execute` in the code's order, then
retirement; `Callback` is an event (cache answers, an instruction executing or
executed, a store performed, fetch unblocked); `Refill` is the reader. Whether a
branch is mispredicted and in which order instructions become ready are choices.

- **core**: two programs of three and four instructions, three ROB entries, two
  outstanding fetch requests, one replay, one cluster with scarce entries.
  Buckets leave in order, buckets and entries are all accounted for, a blocked
  fetch always has an instruction that will unblock it, a replay really flushes,
  the store set's last-fetched pointers are live, and every run drains.
  Fairness: `boot` goes on; callbacks are executed; a store the data cache
  refuses is accepted eventually (strong fairness of retirement).

A flushed instruction advances the stream's tail like a committed one
(`advanceTail` is called for every DInst that is scrapped), so what a replay
flushes is not fetched again; `HeldInOrder` says exactly what the stream
believes to be in the core at each point.

## Findings

| run | what the code does | what the source says |
|---|---|---|
| reader_underrun | dense load multiples make a batch pop past tail, and a stale entry without micro-operations is taken | `QEMUReader.cpp:530` asserts the entry has some |
| cache_assert | with one upper node, `llc` and an inclusive last level (`conf/shared.conf:11-12` ships with `L2Inclusive` and `L3Inclusive` off), a write to a shared line gives the line up and goes on | `Cache.cpp:526` asserts the line is owned |
| tasks_same_fid | a cloned thread is given the flow of a thread asleep in a futex | `QEMUEmulInterface.cpp:139` and 144, "we should get the same FID except for the first call" |

## Bounds

Every bound is a constant named in the module and given in the `.cfg`:
`MaxInst`, `MaxID`, `MaxBatch` (flow), `MaxLate` (tasks), `MaxBlock`, `MaxInst`
(sampler), `MaxReads`, `MaxWrites`, `MaxWarm` (cache), `MaxClock`, `MaxDelta`
(events), `MaxClock`, `MaxRequests` (port), `MaxItems`, `MaxReplays`, `MaxBatch`
(core). Sizes are the smallest for which a queue fills, wraps and, where it can,
grows. Each property comes with a small change of the modelled code that breaks
it within the same bounds, so no bound hides the case the property is about.
Symmetry is used only in run cache, for requests and lines; no run with symmetry
has a liveness property. Deadlock is checked in run core; in the others the
bounded program or clock simply ends.

## Proofs

TLAPS proves the following for every value of the constants that satisfies the
named assumptions of the modules. No bound of the runs matters to them: a bound
is a constant like the others.

**DInstFlowProofs** (`InitSizeAssumption`, `FlowAssumption`, `NullAssumption`).
`FlowInvariant`, and from it `TypeCorrect`, `HeadStaysBetween`,
`OnlyLiveCloned`, `WindowStaysInOrder` and `NothingSkipped`. `HeadBetween` alone
is not inductive: a growing ring is rebased from the order of its slots, and a
retirement moves tail only when `ndrop` is 0. `Inv` therefore adds what the core
holds (`CoreAccounted`), that the fetched part of the window is in the core
(`ClonesAreLive`), that the window is in program order (`WindowInOrder`) and
that delivery has reached head (`DeliveredUpToHead`). `RingImplementsStream`
maps each step of the ring to a step of `ReplayStream` or a stutter.

**QEMUReaderProofs** (`NAssumption`, `BulkAssumption`, `ProgramsAssumption`).
`TypeCorrect` holds for every program. `ChannelWhileInFIFO` does too: as long as
the two indices do not cross, the pair of threads is an order-preserving
channel, although an entry is written in place before it is published and both
indices wrap. `NeitherRunsPast` shows that they do not cross when the program is
`Modest`, and `ReaderImplementsChannel` joins the two. The invariant behind it
says that the slots from head to tail hold the program's published entries in
order (`Contents`, `Counted`), that the QEMU thread only publishes into a FIFO
it has seen room in (`Room`), and that the entries popped since a batch began
are those it counted and those it merged, each merged one being followed by one
of the same load multiple (`Batch`, `Merging`); `Modest` bounds the second kind.
The hypothesis is needed: run reader_underrun violates the conclusion without
it. `CreatedFollowProgram` says of the same programs that every DInst created is
a micro-operation of a published entry, in program order, and, when the flow is
never paused, that none is created twice: the next micro-operation is always
ahead of those already created (`Ahead`), also when a merge or a taken exit
moves it past several. It does not say that none is missing; `CreatedIsProgram`
does, and is model-checked only.

**TaskHandlerProofs** (`FlowsAssumption`). `TypeCorrect`, `ListIsActive`,
`FlowsSuffice` and `EmptyForGood`, for any number of threads and at least as
many flows. The running list and the active flags agree only while the mutex is
free; `ListInv` says what its holder may rely on in between. `OwnerInv` says that
a taken flow belongs to a thread that runs as it or is about to. `ScanInv` is the
counting argument for `getFid`, whose search reads flows that other threads take
and free behind it: every flow that was ever used is kept by a thread, one that
sleeps keeps its flow and still does after it has woken, until its search comes
to it. A search that has passed its thread's last flow and found it taken keeps
none, so some flow was never used, and a flow the second loop saw used is never
FREE again.

**SamplerProofs** (`SamplerAssumption`, `SkipSimAssumption`). `TypeCorrect`,
`NothingCountedTwice`, `NothingLost` and `TimingIsOneByOne`. For a shared
sampler the invariant is that only flow 0 counts and every write but `execute`'s
makes the phase smaller; for the sampler of one flow it gives, at each point of
the thread, what is in the statistics, in the phase and in the total.

**CacheProofs** (`CacheAssumption`, `MshrAssumption`), for any number of L1s,
requests, lines and entries, any hash of each cache and any mix of MSHR kinds;
for a blocking MSHR `OverflowAssumption` picks the hashes that are its one list,
and the proofs hold for them as for the others. `NoLostWakeUp`
(`WaitersWillBeWoken`) is inductive only with what the lists of callbacks hold
(`Lists`): each callback is a request of the entry, queued there and nowhere
else, so the request that `retire` sends on is never the one another entry
counts on.

**CacheCountProofs** builds on CacheProofs, from the same assumptions.
`EntriesBalance` (`EntriesAddUp`) counts uses as a set of pairs, one pair added
or removed by each change of `nUse`. `EveryRequestCounted` (`RequestsCounted`)
adds that a queued request occurs once in its list and that every handler
changes `pendingReads` and the set of outstanding reads together,
`pendingWrites` no faster than the outstanding writes.

**EventSchedulerProofs** (`SizeAssumption`, `EventsAssumption`,
`TimeAssumption`, `NoneAssumption`). `QueueInvariant`, its parts `TypeCorrect`,
`RingStaysInOrder` and `NothingOverdue`, and `SchedulerImplementsCalendar`. The
invariant is `TypeOK`, `RingInOrder` (a slot holds one cycle), `NoneOverdue` and
`RingFollowsClock`; the slot of a cycle is injective over the cycles the ring
holds, which makes an insertion and the scan of `nextJob` exact.

**PortProofs** (`PortAssumption`). `TypeCorrect`, `Unoverbooked` and
`PortImplementsReservation`. The invariant relates the few numbers of each class
to the slots it has given; for `PortNPipe` the requests can be dealt to the
units so that each unit is busy without a gap up to `portBusyUntil`.

Model-checked only:

- every liveness property (`ProgramEnds`, `NoStarvation`, `Terminates`,
  `EveryAccessAnswered`, `EventuallyDrains`): fairness and ENABLED are outside
  the prover's reach;
- `CreatedIsProgram`: that no micro-operation is missing is an induction over
  the program along which the reference (`Wanted`) counts; the order and the
  origin of what is created are proved (`CreatedFollowProgram`);
- the invariants of the core (`HeldInOrder`, `ResourcesAccounted`,
  `BlockedHasWaker`, `RecoveryFlushes`, `LastFetchedIsLive` and its `TypeOK`):
  none is inductive without the others, since the place of an instruction in
  the window, the count of younger ones and the entries it holds depend on each
  other, and the joint induction over all actions is out of proportion.

## Not modelled

The TLB, Bus and crossbars, in-order and SMT cores, cluster selection, the
time-based samplers, hardware prefetchers, branch predictors, DRAM timing, the
SCOORE memory path, GPU, instruction cracking, QEMU itself, statistics and
power. `PROJECT.json` has the reason for each. Register dependences are
abstracted in the core: any execution order is allowed.

Measured in lines the models cover little of `src/`: nearly all of it is the
bundled QEMU, binutils and the power models. Of the simulator proper they cover
the parts in which threads, callbacks or requests meet.
