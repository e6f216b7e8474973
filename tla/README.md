# A TLA+ model of intenscale-core

intenscale-core is a RISC-V core in Chisel, derived from Rocket Chip, that runs
many hardware contexts on shared pipelines: the default `Inten1CoreConfig` has two
pipelines of eight contexts. The repository also holds the simulation around the
core (a bridge to the DRAM simulator DRAMsim3, a commit-log filter) and the programs
that run on it (host interface, barriers, queues, torture tests, a small kernel).
This directory models the parts whose correctness depends on the order in which
concurrent things happen. TLC checks the models on small instances; TLAPS proves the
main safety properties of eleven of them for every value of their parameters.

Scala paths below are relative to `src/src/main/scala/`, the others to `src/`.

## The system

| Part | State and operations | What is hard about it |
|---|---|---|
| L2 `cache/` | MSHRs, directory, data banks, request buffer; one sink or source per TileLink channel | probes, releases, evictions and flushes of one set meet in any order; pipelines that cannot stall |
| L1 data cache `rocket/NBDcache` | miss handlers, write-back unit, probe unit | a request is accepted on an answer computed a cycle before |
| Data-cache queues `rocket/HellaCache` | one command queue per context | a nack takes the row back past operations it has already sent |
| Context unit `rocket/ctxtUnit`, pipeline `rocket/pipeUnit`, `rocket/Div` | one row per context, token counters, row selectors, shared units | a unit must be free when an instruction arrives |
| DRAM simulator `DRAMSIM3/` and its bridge `csrc/ram.cc` | queues, bank states, timing tables, refresh | refresh and two kinds of transactions compete for a bank |
| Test programs `riscv-tests/` | locks, queues, barriers, a coherency checker, a host interface, a kernel | every shared access of every hart interleaves |

A load or store that misses goes from a context row through the command queue to a
miss handler, which sends an Acquire on channel A. The L2 sends Probes on B, clients
answer on C, the L2 grants on D, and the client acknowledges on E. Dirty victims
go back on C. Instruction fetches, page walks and the front bus use uncached Gets
and Puts. Below the L2 the memory requests reach DRAMsim3 through `ram.cc`.

`PROJECT.json` lists every part with its status, every definition with the lines it
models, and every hazard with the properties that cover it.

## Modules

### The L2

**MSHR** is `cache/MSHR.scala` as operators on the record of one MSHR. The flags
`s_x` (to be scheduled) and `w_x` (waited for) are inverted in the source; here
`M.s` and `M.w` are the sets of names whose flag is low. `Plan` computes them from
a request and the directory's answer; `aValid` ... `dirValid` are the guards of the
messages; `FinalMeta` is `final_meta_writeback`; `SinkCResponse`, `SinkDGrant`,
`SinkDReleaseAck` and `SinkEGrantAck` are the effects of the answers.

**InclusiveCache** composes the MSHRs with the scheduler, the directory, the request
buffer and the sinks and sources. `AcceptA`, `AcceptX`, `AcceptC` are the three ways
into `request`; `Allocate`, `Nest`, `Queue` are its three destinations. `Schedule(m)`
is the whole of one win of the arbiter: all messages of the MSHR, the directory
write, `nestedwb`, and the reload with the next queued request. The L1 caches, the
uncached requester, the flush register and memory are its environment.

**CoherentMemory** is what the caches promise: each client has N, B or T on a line,
T only while all others have N, and permissions come with the last value stored.
`InclusiveCache!Refines` says that the detailed system implements it, with the
permissions and values of the L1s as the refinement mapping.

Four blocks below that level are modelled register by register, one action per clock:

- **Directory** (`cache/Directory.scala`): the single-ported RAM, the wipe after reset,
  the write queue of one entry and its bypass into the two lookup stages. The ghost
  `logical` is the directory as the scheduler means it.
- **SourceC**: the eviction pipeline with its credit counter `fill` and `room`.
- **SourceD** with SinkD and the banked store: four stages, the skid queue, the two
  bypasses, and the hazards `evict_safe` and `grant_safe`.
- **ListBuffer** (`cache/ListBuffer.scala`), the linked lists behind the request and
  put buffers. The memories are uninitialised at reset, so they start with any
  content. The ghost `list` holds the entries of each queue in order. **Fifos** is its
  abstract specification: independent FIFOs with a common limit.

**FlushControl** is the flush register of `cache/InclusiveCache.scala` with the part of
the register map that holds a second write back.

### The core

- **UnitTokens**: the token counter of CtxtUnit with the pipeline stages and the
  dividers it protects. How long a division takes, when the register file accepts a
  result and whether an instruction turns out to be muted are left open.
- **SelPrio**: the row selector of `rocket/ctxtUnit.scala`, its tree search compared
  with a sequential sweep.
- **QueueRow**: the command queue of one context (`rocket/HellaCache.scala`) with its
  replay after a nack, and `halfSel` of `rocket/NBDcache.scala`, which gives each cycle
  to one half of the cache: the one with more paths in use, or each in turn.
- **NBMshr**: the miss handlers of `rocket/NBDcache.scala` (NB_MSHR, MSHRFile). Channel E
  may refuse a GrantAck any number of times; the ghost `stalled` counts the refusals.

### The simulation

- **DramTiming** is the state of a channel: bank states, timing tables, activation
  window. Time is relative, so the clock is not part of the state.
- **DramController** is one clock of the controller, its command queues and its refresh
  counter, as a composition of functions on a record.
- **MemoryBridge** adds `ram.cc` and `cosimulation.cc`: requests, callbacks and the
  pairing of completions.
- **CommitLog** is `comlog.cc`, which puts late results in their place in the log.

### The programs

- **CkRing** (`ck_ring.h`) and **SpinQueue** (`queue_simple.h`) are two queues, one step
  per shared access. CkRing implements **FifoQueue**. SpinQueue implements
  **AtomicQueue**, which also says what a caller may be told: an enqueue or a dequeue is
  answered once, and with the truth of that instant.
- **ThreadBarrier** (`torture_util.h`) and **SenseBarrier** (`util.h`) implement
  **Barrier**.
- **WorkQueue** composes CkRing and ThreadBarrier into the test of `workqueue.h`.
- **PairedTest** and **Megazord** are the tests of atomics, **CohChecker** is
  `coh_checker.h` over a memory that may fail. The history variable `coh_found` holds the
  owners that have found an error, other than in the circuit that ends the test.
- **HostIf** is start-up, system calls, exit and abort (`syscalls.c`, `crt.S`), with the
  timer interrupt that arrives before core 0 has installed the handler
  (`interrupts.h`). Words are sets of bits, so that `code<<coreId` and the mask
  `~(1<<coreId)` have the width and the sign extension that C gives them.
- **VmKernel** is `env/v/vm.c` over a TLB as in `rocket/TLB.scala`: it keeps what a walk
  finds, invalid entries included, until sfence.vma or a replacement.
- **TinyMalloc** is `debug/programs/tiny-malloc.c`. Each call has a frame of its own, and
  with it a limit of the heap (`MALLOC_LIMIT`).

### For TLC

**MCInclusiveCache**, **MCWays**, **MCServed** and **MCMemoryBridge** give the model
values and loads of the L2 and DRAM runs. **MCHardware**, **MCProgress** and
**MCSoftware** each put several independent modules side by side: the variable `unit`
chooses one in the initial state and only that one moves, so the states of the run are
the sum, not the product, of theirs.

### Abstractions

In InclusiveCache:

- One value per line. ProbeAckData and the Grant of memory have a first and a last
  beat, because the MSHR reacts to each; the other beats, and those of Put and
  ReleaseData, are atomic. `bs` is written whole, with the first beat; SourceD is the
  module in which the beats of a line are apart.
- A Release needs one of the `RelLists` lists of SinkC's put buffer (relLists, 2 in the
  code) and blocks channel C without one. The buffer has room for every beat of that
  many lists. SinkA's put buffer has putLists (40) lists, which the single uncached
  requester never fills, so it is left out.
- SourceAsserts has the assertions on the meta-data and on the final transition; those
  of `eviction()` (`MSHR.scala:340-370`) are left out.
- The L2 is the last level over memory behind TLCacheCork: every outer Grant is toT,
  so BRANCH is unreachable and channel B of the outer side is unused.
- Put stands for every opcode that modifies (Put, atomics). Hints, AcquirePerm and
  denied grants are left out.
- The victim way is arbitrary (the source uses an LFSR). The directory is read and
  written atomically, which is what Directory shows and its theorem proves of the RAM.
- The bypass of a new request into the MSHR that completes in that cycle is a push
  followed by a pop. With a full buffer it differs only in that the MSHR stays taken.
- SourceB may send the probes of one request in any order.
- SourceA, C, D, E and X are always ready in the end. The registers of an idle MSHR
  are forgotten.
- Drops and releases by an L1 are not tied to a miss, so the model allows more of
  them than the L1 makes. A store miss that goes to Dirty with its grant is a Grant
  followed by a Store.
- One bank. Banks share no state, and a line belongs to one.

Elsewhere: UnitTokens assumes that the early decode of a context row (`isNextDiv`)
agrees with the pipeline's own decode. SourceD's data are the numbers of the requests
that wrote it, and no Grant is denied. NBMshr leaves out tags, data and the interlock
with probes. In HostIf an interrupt whose handler is installed changes nothing that is
modelled. The programs run on a sequentially consistent memory:
reorderings that a missing fence would allow are not modelled. In MemoryBridge a response may be
fetched at any time after its callback. The host (fesvr) of HostIf, the processor of
CommitLog and the memory below the L2 are external.

## Runs

States are distinct states. All runs but HostManyHarts check deadlock; there the
cores halt.

| Run | Instance | Checks | States |
|---|---|---|---|
| L2Share | 2 clients, 1 line, 2 values, Get and Put | Coherent GetsFresh Refines | 422546 |
| L2Evict | 2 clients, 2 lines of 1 set, 1 way | Inclusion SourceAsserts | 188202 |
| L2Ways | 1 client, 2 lines, 2 ways, 2 values; all kinds of Acquire, or flushes | UniqueWay MemFresh | 824756 |
| L2Sets | 1 client, 2 sets, Put or flushes | BcAlone NoDeadlock | 285410 |
| L2LiveShare | 2 clients, 1 line | Served | 23487 |
| L2LiveOne | 1 client, 2 lines of 1 way, 2 lines of 2 sets, or 1 line with Get and Put | Served | 84006 |
| Dram | 2 banks, 2 addresses, three configurations | NoFatalExit DoneOnce Drains WriteAfterRead | 297628 |
| Hardware | ListBuffer, SelPrio, SourceC, Directory, NBMshr, SourceD | SelectorFair EvictionsIntact DirectoryExact MissesSafe DataInTime WaySettled Refines | 360970 |
| Progress | UnitTokens, QueueRow, FlushControl, HostIf, VmKernel, WorkQueue | UnitSafe RowInOrder AnswerIsMine ExitAfterAll PoolDrains OpsPerformed FlushCorrect RunEnds VmCorrect WorkCorrect | 210606 |
| Software | CkRing, SpinQueue, the barriers, Megazord, CohChecker, TinyMalloc, CommitLog | TestsSound CheckerSound HeapSound LogRight RingIsQueue SpinIsQueue tbRefines sbRefines | 1139615 |
| DramPerBankRefresh | as Dram, per-bank refresh | RefreshedBankRests is violated | |
| HostManyHarts | 3 harts, int of 2 bits | ExitAfterAll is violated | |

What they show:

- **Coherence.** Coherent (one writer, fresh readers) is the promise to software. It
  survives a client that upgrades a copy it has just lost, silent drops the directory
  does not know of, and uncached stores. GetsFresh is the same for a Get that
  SourceD answers while the dirty data is still arriving.
- **Book-keeping of the L2.** Inclusion relates L1s and directory; UniqueWay keeps
  lookups unambiguous; MemFresh says that no store is lost between an L1, the L2 and
  memory; SourceAsserts are the assertions in the source. BcAlone shows that a Release
  in the BC MSHR never meets another MSHR of its set, which its `b_clr_dirty` relies on.
- **Pipelines of the L2.** DirectoryExact: a lookup sees every write accepted before
  its result, from the RAM or from the queue. EvictionsIntact: the queue of SourceC
  never refuses a beat, and the beats of a block leave together. DataInTime and
  WaySettled: SourceD answers with fresh data, and whoever reads or refills a way finds
  everything SourceD was asked to put there. Refines: ListBuffer is a set of FIFOs.
- **Issue.** UnitSafe is the assertion "MUL/DIV is not ready." with what it rests on: no
  token is lost or duplicated, and only a result with its own instruction's verdict is
  written back. SelectorFair compares the selector with a sweep for all ready sets and
  bounds the wait, counted in cycles in which the selector is not held. RowInOrder: the
  operations of a context are performed once and in order, whatever is nacked.
  MissesSafe: an accepted miss stays with one handler, alone in its set, until its
  replay is done, and its GrantAck stays on offer through four refusals.
- **DRAM.** NoFatalExit: no `AbruptExit` is reached. DoneOnce: every request is
  completed once, to the one who made it, and refreshes do not pile up. WriteAfterRead:
  a write does not overtake an older read of its address. With split queues
  `ScheduleTransaction` keeps such a write out of the command queue, with a unified one
  `HasRWDependency` holds it there.
- **Programs.** The queues and barriers implement their abstract specifications. A test
  of atomics or of coherency raises no false alarm, and no verdict is SUCCESS after an
  owner has found its row wrong (but see the last circuit below). ExitAfterAll: the exit
  code is made of what every hart returned, and is that of a test that passed only if
  all returned 0. The kernel never lets contexts share a frame, and the allocator tiles
  its heap.
- **Progress.** NoDeadlock and Served cover the circular waits that the BC and C MSHRs
  exist to break. Drains, PoolDrains, OpsPerformed, FlushCorrect, RunEnds, VmCorrect and
  WorkCorrect say that a request, a row, a flush, a program comes to its end.

Every property of these runs fails for at least one plausible fault of the code: the
definitions named after the one they vary with a suffix (`Hits_Stale`, `Reload_AnyTag`)
are such faults, and `PROJECT.json` says which property each one breaks.

### Findings

- **DramPerBankRefresh.** `timing.cc:225-230` puts the delays after a REFRESH_BANK into
  `same_rank`, but `ChannelState::UpdateTiming` (`channel_state.cc:149`) treats it as a
  bank command and never reads them, so a bank may be activated right after its own
  refresh; `timing.cc:56` says "tRFC is defined as ref to act". Only configurations
  with per-bank refresh (LPDDR5) are concerned.
- **HostManyHarts.** The mask `~(1<<coreId)` of `tohost_exit` (`syscalls.c:125`) is an
  int: with more harts than an int has bits, the exit of one hart clears the bits of
  others, and hart 0 ends the run while they are at work. The comment at
  `syscalls.c:167` reserves that for abort. Below that number ExitAfterAll holds, and
  is proved.

Met while modelling, and without a run of their own:

- A write accepted while a read of its address waits can keep that read waiting for
  ever (`controller.cc:197-224`); Drains is stated for behaviours without one.
- `abort` stores to `tohost` without the semaphore, so that a system call of another
  hart can be overwritten; RunEnds is about programs in which nobody aborts.
- `coh_checker.h:156-160` leaves before the errors of the circuit are reported when that
  circuit was the last; FoundIsReported leaves these out.
- The last replay of a miss handler clears `finishEna_reg` (`NBDcache.scala:427`). A
  GrantAck that channel E has refused until then stays in `grantackq`, and the next miss
  of the handler waits for it in `s_wait_prev_finish`. Four refusals are always
  survived (`FinishStall = 4`), a fifth may not be. SinkE of the L2 is always ready; the
  arbiters on the way could refuse, and nothing in the code bounds how often.
- `halfSel` (`NBDcache.scala:1799-1815`) prefers the half of the cache with two paths in
  use. A row of the other half waits as long as that lasts; OpsPerformed names this case,
  and the one of a nacked row whose event never comes.
- An unhandled trap of a core inside a system call makes it wait for its own semaphore:
  wait_host_free is not reentrant, as the comment at `interrupts.h:68` says of printf.
- `queue_isempty` reads head and tail one after the other and can call a queue empty that
  never was. The uses in `workqueue.h:136,140` come after the last enqueue or only wait,
  so WorkCorrect is not affected.
- `CAN_ALLOC_P` (`tiny-malloc.c:116`) subtracts unsigned numbers. Called from a frame
  closer to the end of the heap than the gap, it accepts any size. TinyMalloc calls only
  from frames beyond the gap.
- Leaving self-refresh reaches AbruptExit (`bankstate.cc:68-79`). Self-refresh is
  modelled; no configuration that is run enables it.

### Bounds

- One ordinary MSHR (`NumABC = 1`) besides the BC and C ones. Two sets with one
  ordinary MSHR is the tightest case for the fallback of releases. MSHRs of
  different sets meet only in SourceB, the channels and the scheduler.
- One or two lines per set: one for contention, two for eviction and for queued
  requests with the same or another tag. Two clients: owner and contender.
- `RelLists` is 1 in L2LiveOne, where a client has two Releases under way and the second
  waits for the list of the first, and 2 elsewhere.
- Two values tell a stale line from a fresh one. Runs about control alone use one.
- `Secondary` is 1 or 2: an empty, a partly full and a full request buffer occur.
- In L2Sets a Put and a flush are not under way together (`OneRequester`).
- `NumL1MSHR` is 1 or 2 and `SameL1Set` says whether lines share an L1 set, since the
  L1 index is a hash of the address.
- SelPrio has the 8 rows of the default configuration. ListBuffer has the smallest size
  at which an entry is freed by one queue and taken by another while a third entry
  stays linked. SourceC has 4 beats and a counter that wraps at 8. NBMshr is one handler
  for two sets and two handlers for one.
- SourceD has one way, two beats and two chunks, and `MaxReqs = 3` requests: a request,
  the one whose data it bypasses, and one retired; the last retired slot is filled only
  by longer sequences.
- Dram has two banks, delays of 1 to 3 clocks and `tREFI = 6`, the smallest interval at
  which everything can drain between two refreshes; the activation window never binds
  with two banks. The configurations cover both queue structures, both row policies,
  unified and split queues and dual commands.
- Counters that wrap in the code are scaled: the ring's indexes wrap at `UINT = 12` and
  start at 0 or just before the wrap, words of HostIf have `WORD` bits and ints `INT`.
  The ring has 4 slots, holds 3 entries and is offered up to five, so that it fills and
  its slots are used again; the spinlock queue has 3 slots and holds 2.
- QueueRow numbers its operations modulo 3, and its selector passes over the row at most
  once (`quWait = 1`; SelectorFair bounds it by the other rows).
- Three threads at a barrier or a queue: one ahead, one behind, one in between; three
  calls let a fast thread come around to the round of a slow one. `LockMax` bounds how
  often a waiting thread adds to the lock word.
- Megazord has one pair for two runs and every operation; CohChecker two harts, two
  circuits and one fault; TinyMalloc frames at 7 and 12 words and 4 blocks; CommitLog 3
  destinations and 6 lines; VmKernel two contexts, 3 pages and 2 accesses.

### Fairness

`InclusiveCache!Fairness` is strong for `ArriveA`, `ArriveC` and `Schedule`: these
are arbitrated round robin (`TLArbiter.roundRobin`, `robin_filter`), so whoever asks
again and again is served. All other steps are weak: the hardware takes them when
it can. A client is never obliged to make a request. Flushes are absent from the
liveness runs, because SinkX has a fixed priority over SinkA and software that
writes the register for ever may delay channel A.

`MCProgress!PrSpec` assumes that clocks tick and that each neighbour does its duty: a
division ends (`count_reg` only grows), the register file does not refuse the
multiply/divide port for ever, banks finish a flush, the host answers a call, and every
hart keeps executing (its row is selected, which SelectorFair bounds). It is strong
only for the port that takes a command of QueueRow and for a cache that accepts what it
nacked before; that the row's half gets its cycles and its selector picks the row is not
assumed but follows from `HalfSelect` and `quWait`. `BridgeFairness` assumes that the memory is clocked and the
machine fetches its responses.

## Proofs

A theorem named here is checked by TLAPS to its last step, from the assumptions of the
module it is about and nothing else.

| Module | Theorem | States |
|---|---|---|
| CountProofs | UnitAlwaysReady, TokensConserved, AssertsHold, FateAlwaysRespected, UnitCorrect | `utSpec => []UnitSafe` and its parts, for any number of dividers |
| CountProofs | BarrierCorrect, BarrierRefined | `tbSpec => tbRefines`: thread_barrier implements Barrier, for any threads |
| CountProofs | SenseBarrierRefined | `sbSpec => sbRefines`, for any team |
| QueueProofs | SpinlockExcludes, SpinQueueRefined | one thread inside, for every kind of lock; `sqSpec => SpinIsQueue`, for any users, jobs and size |
| HostProofs | LogCorrect | `clSpec => []LogRight`, for any number of destinations |
| CacheProofs | OwnersCorrect, WaysUnique, BcAlwaysAlone | `Spec => []UniqueWay` and `Spec => []BcAlone` of InclusiveCache, for any clients, sets, ways, tags and MSHRs |
| QueueProofs | NeverOverflows, EvictionsCorrect | `scSpec => []EvictionsIntact`, for any number of beats |
| L2Proofs | DirectoryCorrect | `dirSpec => []DirectoryExact`, for any sets, ways and tags |
| L2Proofs | AlwaysLinked, NeverLeaks, Implements | `Spec => Refines`: ListBuffer implements Fifos, for any queues, entries and data |
| HostProofs | AnswersNeverMix | `hiSpec => []AnswerIsMine`, for any number of harts |
| HostProofs | ExitWaits | `hiSpec => []ExitAfterAll`, for fewer harts than an int has bits |
| CheckerProofs | RowsCorrect, CircuitsCorrect, CheckerCorrect | `chSpec => []CheckerSound` and the action property CircuitsRetire, for any harts, hops and circuits |

The arguments, each an inductive invariant and the reason the property alone is not one:

- **UnitTokens** (`IInv` in CountProofs; assumes a divider, and a counter that can hold
  their number). It adds that the counter never exceeds the number of dividers, that a
  DIV in IDC has a token left to take, and that the verdict a divider will read is at
  the pipeline stage that matches its age. Cardinalities change by at most one per step.
- **ThreadBarrier** (`tbInv`) and **SenseBarrier** (`sbInv`), for a finite non-empty set of
  threads. A thread that spins is counted in the current round or released from the one
  before; the counter is the number of the former, and while the last thread makes its
  stores all others wait for it. That the two spinning groups are told apart by the
  generation (or by the sense alone) is what the refinement needs.
- **SpinQueue** (`sqInv`, then `StillTrue` and the content of the ring). The lock word has
  a value that no attempt takes for free while a thread is inside, for each of the
  atomic instructions, and a reservation is only held on the value the word has now.
  What a call found out about the indexes then stays true until it acts on it. The
  refinement maps the slots from tail to head to the abstract queue, and each call to
  what it has been told; the answer is given at the last step before the lock is released.
- **CommitLog** (`clInv`). Lines written, queue and outstanding destinations together are
  the program: entry i is instruction Len(cout) + i, and it is unready exactly when a
  destination waits for it.
- **InclusiveCache** (`icInv`; the steps in CacheSteps, the scheduler in CacheProofs).
  UniqueWay says nothing of the MSHRs, which write the directory long after they read
  it. So `OneOwner`: a set belongs to one MSHR, and only the C MSHR may join it, for a
  Release that the owner must let by. `OthersDiffer`: the other ways of its set hold
  neither the line an MSHR works on nor the one it replaces, from its lookup to its
  write. `SameLine`: the C MSHR changes neither the line in its way nor whether one is
  there, so that the owner's copy of the meta-data still fits. `icPlans` ties the order
  of eviction, acknowledgement and execution to the plan. The requests queued at an MSHR
  are for its set, which carries ownership over to the next request. BcAlone is OneOwner
  for the BC MSHR.
- **SourceC** (`scInv`): the credit counts the queue and both stages, and a block that has
  begun has room for its remaining beats.
- **Directory** (`dirInv`): the RAM overlaid with the queued write is the logical
  directory; a lookup in flight holds what the RAM had and what had been written when it
  was read; no tag is valid in two ways. The last part rests on the
  scheduler, which never writes a tag that is valid in another way: WaysUnique.
- **ListBuffer** (`IInv`: types, Linked and NoLeak). Linked alone is not inductive: a push
  may overwrite a pointer of another list unless the free entry is in none, which is
  NoLeak. One clock is a push, a pop, both, or a stutter.
- **HostIf** (`hiLockInv`, `hiExitInv`). For AnswerIsMine: the semaphore has one holder,
  and the call of the hart that waits is in tohost, with the host or in fromhost, never
  in two of them. For ExitAfterAll: rowActive is exactly the harts that have booted and
  not left, which needs the mask to clear one bit (hence `NHARTS < INT`), start-up lets
  no hart pass before all have reported, and rowFail is the union of the shifted codes of
  those that left. No code that is not 0 is shifted out of the word.
- **CohChecker** (`chInv` with the bound on circuits; the steps in CheckerSteps, the
  invariant and the count in CheckerProofs). A hart works only on a row
  addressed to it; a row with enough hops is on its way home; without faults its data
  and payload are what its hops make them, but for the one hart at work on it; an error
  found is at its owner or in `failed`, and no hart at fault is counted done. The bound
  on circuits is not a fact about one state: CircuitsRetire shows that after the last
  circuit each further one retires a hart for good, and counting the retired gives it.

TLC checks on small instances what is not proved:

- liveness (Served, Drains, PoolDrains, OpsPerformed, FlushCorrect, RunEnds, VmCorrect,
  WorkCorrect) and NoDeadlock, which uses ENABLED: out of the prover's reach;
- the rest of InclusiveCache's safety (Coherent, GetsFresh, Refines, Inclusion,
  SourceAsserts, MemFresh): icInv gives the types of the messages in flight, and these
  properties need an invariant that relates each of them to an MSHR;
- SelectorFair, RingIsQueue, TestsSound, HeapSound, RowInOrder, MissesSafe, DataInTime,
  WaySettled and the DRAM properties. They have no proof yet; what
  SelPrio's tree and DramController's scans of a queue compute for every input would
  need an induction over data.

## Not modelled

Elaboration-time code (diplomacy, subsystem, stage) has no run-time state. Arithmetic
and instruction semantics are the business of the ISA tests. Not reached: instruction
cache and fetch, TLB and page walker (except as VmKernel meets them), FPU, PLIC, CLINT and
debug module, the context row's fences and scoreboard, TLCacheCork's ID pool, the
TileLink arbiters (their fairness is assumed), asynchronous crossings and bus adapters.
Within modelled parts: denied grants in SourceD, the probe interlock of NBMshr, the
repair and valid operations of ck_ring, HMC and the statistics of DRAMsim3, illegal
instructions and coherence_torture in `vm.c`, amoadd, combined, amo-stall and
basic_paired_test of the torture tests. The emulator's main loop, remote bit-bang, the
boot code and vendored headers are input and output or straight-line code.

Most of the repository's C and C++ is such code (benchmarks with their data sets,
vendored libraries, ISA tests), so the modelled lines are a small share of
all lines.
