# A verification of the speculative cache hierarchy

The repository is a ChampSim-derived, trace-driven simulator in which every
cache has, besides its normal array, a *speculative* array: a line fetched for
an instruction that has not retired goes to the speculative array and moves to
the normal one when the instruction commits.  This directory holds TLA+ modules
of the part the repository adds or depends on (the cache controller, its
queues, its replacement policies, the out-of-order core that drives it and the
memory controller below it), TLC configurations that check them on small instances, and TLAPS proofs.

## 1. The system

| component | source | state | operations |
|---|---|---|---|
| packet queue | `src/block.cc`, `inc/block.h` | `entry[]`, `head`, `tail`, `occupancy` | `check_queue`, `add_queue`, `remove_queue` |
| cache controller (ITLB, DTLB, STLB, L1I, L1D, L2C, LLC) | `src/cache.cc`, `inc/cache.h` | `block`, `spec_block`, `RQ`, `WQ`, `PQ`, `CQ`, `MSHR`, `PROCESSED` | `handle_fill`, `handle_writeback`, `handle_read`, `handle_prefetch`, `commit_blocks`, `add_rq/wq/pq/cq`, `return_data`, `invalidate_entry` |
| replacement | `replacement/base_replacement.cc`, `replacement/timestamp_replacement.cc` | `lru`, `instr_id` of the blocks | `lru_victim`, `lru_update`, `timestamp_victim` |
| front end | `src/ooo_cpu.cc` | `IFETCH_BUFFER`, `DECODE_BUFFER` | `read_from_trace`, `fetch_instruction`, `complete_instr_fetch`, `decode_and_dispatch` |
| back end | `src/ooo_cpu.cc` | `ROB`, `LQ`, `SQ`, `STA`, `RTE*`, `RTL*`, `RTS*` | `schedule_instruction`, `schedule_memory_instruction`, `execute_*`, `operate_lsq`, `update_rob`, `retire_rob`, `update_spec_*_memory` (commit packets) |
| page table | `src/main.cc` (`va_to_pa`) | `page_table`, `inverse_table`, `recent_page` | map a page, swap one out |
| DRAM controller | `src/dram_controller.cc` | per channel: `RQ`, `WQ`, `bank_request`, `dbus_cycle_available`, `write_mode` | `add_rq`, `add_wq`, `operate` (`schedule`, `process`, `reset_remain_requests`) |
| LLC policies, branch predictors, prefetchers | `replacement/*.llc_repl`, `branch/`, `prefetcher/` | tables | chosen at build time |
| dependence sets | `inc/set.h` | sorted small array | `insert`, `join`, `search` |
| tracer, scripts | `tracer/`, `*.py`, `*.sh` | - | trace collection, batch runs |

Interactions.  A cache sends a miss down with `lower_level->add_rq`, a dirty
victim with `add_wq`, a prefetch with `add_pq` and a commit with `add_cq`; the
lower level answers by calling `return_data` on the upper caches named by the
packet's fill level and fill flags.  The core sends requests to the four
first-level caches, takes answers from their `PROCESSED` queues, and at
retirement puts one commit packet per line and page the instruction used into
the `CQ` of the cache it came from.  The LLC asks the DRAM controller with
`add_rq` and `add_wq`, after a look at the occupancies, and is answered with
`return_data`.  Inside the core, a store finds the loads that wait for it by the
sets of dependent instructions in the ROB, and a load finds its store by a
search of the ROB and of the store queue.

What is hard.  All caches run every cycle, and what happens in which order
depends on latencies: requests of two first-level caches merge in the queues
and MSHRs of the level below; an answered MSHR entry waits for its fill while
new requests arrive; commits, speculative fills, evictions by older
instructions and normal fills of the same line interleave; queues are bounded
and several callers ignore a refusal.  In the core, loads and stores become
ready, are translated, executed, forwarded and retired in different orders,
slots are reused, and everything waits on everything older.  In the memory
controller a change of direction takes requests back that already own a bank.
The list under "hazards" in
`PROJECT.json` names each place.

What makes it correct, per component: a packet queue is a bounded FIFO that
merges; a cache never tracks a line twice, never loses or doubles an answer,
never overflows a write queue, never drops a dirty line, and keeps speculative
lines out of the normal array; the speculative array never lets a younger
instruction displace an older one; the LRU order stays a permutation; every
instruction that is fetched retires; a load gets its value from the nearest
older store of its address; every read the memory accepts is answered once.

## 2. Modules

| module | models | remarks |
|---|---|---|
| `Scan` | loops that stop at the first hit | `First(S)` is the least index of a set of hits |
| `Replacement` | LRU and timestamp policy on one set | a victim equal to the number of ways is the code's "no victim" |
| `PacketQueue` | `PACKET_QUEUE`, as `add_rq` and the handlers use it | the ring, its two-piece duplicate search, both meanings of `head = tail` |
| `PacketFifo` | what a packet queue promises | abstract specification, refined by `PacketQueue` |
| `SpecCache` | every `CACHE` of a (sub)tree, and what the core, the prefetchers, the page table and the level below do to it | one action per outcome of one iteration of a handler |
| `FetchCommit` | the front end and retirement over the L1I | composes with `SpecCache`'s L1I actions |
| `Lsq` | the back end of `O3_CPU`: ROB, dependences, LQ, SQ, execution, retirement | DTLB and L1D external |
| `Dram` | one channel of `MEMORY_CONTROLLER` | the module with time; the LLC external |
| `Memory` | what the memory promises the caches | abstract specification, refined by `Dram` |
| `MCSpecCache`, `MCFetchCommit`, `MCLsq` | instances for TLC | sets of caches, sizes, instructions |
| `Scan_proofs`, `PacketQueue_proofs`, `SpecCache_proofs`, `SpecFlow_proofs`, `FetchCommit_proofs`, `Dram_proofs`, `Lsq_proofs`, `LsqMemory_proofs` | proofs | section 5 |

### SpecCache

`Caches` chooses the instance; a lower level outside `Caches` is represented by
the set `below` of requests it still owes, which it answers in any order.
Addresses are block (or page) addresses; 0 never is one, as in the code, where
address 0 marks a free MSHR slot.  `off` stands for the part of `full_addr` the
L1D's write queue also compares.  Queues are sequences: `PacketQueue` shows
that the rings behave so.  One cycle of `operate()` runs the handlers in a fixed
order and each handler looks at `event_cycle`; latencies differ per build and
per cache, so the model leaves time out and lets every enabled handler step at
any time: every schedule of the code is a behaviour of the model.

Handlers: `handle_fill` = `FillNormal`, `FillSpec`, `FillSpecRetry`;
`handle_read` = `ReadHit`, `ReadSpecHit`, `ReadMiss`, `ReadMerge`;
`handle_writeback` = `WriteHit`, `StoreMiss`, `StoreMerge`, `WriteFill`;
`handle_prefetch` = `PrefetchHit`, `PrefetchMiss`, `PrefetchMerge`;
`commit_blocks`.  An early return that changes nothing but statistics (MSHRs
full, lower WQ or PQ full) is an action that is not enabled.  Each action
includes the calls it makes on the other caches: the lower level's `add_rq`
with its forwarding from the WQ, and `return_data` on the upper caches.

The environment actions allow more than the core does: `CpuRead` and `CpuStore`
choose address and instruction number freely, and `CpuCommit` asks only that
the line was answered or stored to.  Data reads are not speculative and
instruction fetches are, as in the build (`is_speculative` is set only in
`fetch_instruction`).  The ITLB's read path is exercised although
`add_to_ifetch_buffer` translates instructions at once, so that the program
never takes it.

### FetchCommit

`trace` is the line of every instruction read; instruction numbers are
positions in it.  One request stands for every buffered instruction on its line
(`mark`), a refused one is sent again, answers complete every instruction on the
line.  Decode is a FIFO delay and execution takes an arbitrary time; the ROB
retires in order and sends the commit packet of the line.

### Lsq

An instruction is a record of source and destination addresses and registers,
as in the trace; it is named by its `instr_id`, and the ROB slot is
`instr_id % ROB_SIZE` (only slots that are reused too early would differ, and the
ROB never holds more than `ROB_SIZE`).  `core` is a record, so that the helpers of
the code (`reg_RAW_release`, `mem_RAW_dependency`, `release_load_queue`, ...) are
operators from a core to a core, as the member functions change the object.
The actions are the stages: `Dispatch` (`add_to_rob`), `do_scheduling` (the
register dependences of the next instruction), `do_execution` of the two ready
lists RTE0 and RTE1, `schedule_memory_instruction` with `add_load_queue` and
`add_store_queue`, the parts of `operate_lsq` (`translate` for RTS0 and RTL0,
`execute_store` for RTS1, `execute_load` for RTL1), `complete_translation` and
`complete_read`, which wake everything that merged with the request,
`complete_execution`, and `retire_rob`.
Latencies are left out, so a stage may be any time late; within a stage the
code's order is kept: the scheduler and the memory scheduler look at the ROB from
its head, the lists are FIFOs, stores enter in the order of the `STA`.  The
trace has no wrong path, hence no squash.  `handle_o3_fetch` is never called.

### Dram

`ch` is the channel; its record has the fields of the C++ arrays for one
channel.  `cycle` is `current_core_cycle`, which all cores share, and a step of
`operate` is a cycle: switch of mode, schedule, and then one of the outcomes of
`process()` (nothing due, bus busy, a read or a write burst).  The three parts of a
cycle are operators on a channel and `Prepared` is the channel after the first
two.  A cycle that would change nothing is left out (`Busy`).  The latencies are
constants.  In the LLC's place stand `ReadAtOnce`, `Read` and `Write`, guarded by
the two things `cache.cc` does before a call: it has no MSHR entry for the line, and
it compares `get_occupancy` with `get_size`.  `event` is the packet's
`event_cycle`, which may lie before the current cycle.

## 3. Runs

| run | instance and bounds | checks | result |
|---|---|---|---|
| `packet_queue` | 3 slots, 4 addresses, 2 flags | `TypeOK`, `RingConsistent`, `FifoSpec` | pass; deadlock checked |
| `hierarchy` | L1I, L1D, L2C; 2 lines, 1 way, 4 packets, 2 instructions | `TypeOK`, `MshrUnique`, `ReturnsAreExpected`, `NoLostWaiter`, `WriteQueueRoom`, `TimestampOrder`, `SpeculationIsolated` | pass |
| `tlbs_prefetch` | ITLB, DTLB, STLB (3 pages, 2 ways, 4 requests), or L1D, L2C, LLC with prefetchers at L1D and L2C (2 lines, 3 packets, PQs of 2) | `ReturnsAreExpected`, `NoLostWaiter`, `LruPermutation`, `WriteQueueRoom`, `DirtyVictimWritten`, `Drains`, `ReadAnswered` | pass, with fairness |
| `fetch` | L1I, 1 way, 2 lines, 5 instructions, RQ of 1 | `OnlyRetiredInNormalArray`, `WaitingFetchIsServed` | pass |
| `dram` | 2 banks, 3 lines, queues of 2 and 3, 4 calls, delays up to 1 | `TypeOK`, `BanksHoldTheirRequests`, `CountersAgree`, `CachedIndexesFresh`, `ReadsAreKept`, `BusTurnsAround`, `ImplementsMemory`, `ReadsAnswered`, `WritesDrain` | pass, with fairness |
| `lsq` | ROB of 3, LQ of 2, SQ of 3, scheduler of 2, 4 instructions of 6 kinds | `TypeOK`, `SlotsHaveOnePlace`, `OutstandingOps`, `StoresInOrder`, `NearestProducer`, `ForwardsToWaiting`, `RegistersReady`, `EverythingRetires` | pass, with fairness |
| `fetch_deadlock` | as `fetch`, 3 lines, 4 instructions, with fairness | `NoDeadlock` | violated |
| `prefetch_stuck` | L1I, L1D, L2C, prefetcher at L1D, 1 line, with fairness | `ReadAnswered` | violated |
| `commit_dirty` | L1I, L1D, L2C, LLC; 3 lines | `DirtyVictimWritten` | violated |
| `commit_full` | L1I, L1D, L2C; commit queues of 2 | `CommitForwarded` | violated |
| `lsq_deadlock` | ROB of 4, LQ and SQ of 1, a load that needs a register, with fairness | `EverythingRetires` | violated |
| `lsq_two_stores` | ROB of 3, LQ of 2, SQ of 3, instructions that store to two addresses | `ForwardMatches` | violated |

The bounds.  One or two ways and two or three lines make every fill a conflict;
queues of one or two entries are full after one or two requests, so refusals,
merges and stalls all happen; as in `cache.h`, the RQ of a level has a slot for
every MSHR of the caches above it (`RqOfUppers`, `RoomAssumption`), which
`NoLostWaiter` needs because the result of `add_rq` is ignored.  Four packets are enough for a
store, an eviction by a second store, and a read that meets the writeback, and
for two fetches, a load and a commit of the same line.  `CHECK_DEADLOCK FALSE`
where the number of packets is bounded: the system then stops when it is done.

`tlbs_prefetch` checks two trees of caches that share nothing, one of which is used
at a time: the constraint `OneTree` cuts off the core's requests and the prefetches
outside the tree that is in use.  No handler of a cache can leave `OneTree`, so no step
under fairness is cut, and the liveness properties are about whole behaviours.  Three packets
are a prefetch, a demand that meets it and a store or swap beside them; each
makes further requests of its own at the levels below.

In `lsq` two addresses share a page and a line, so that translations and reads of
different instructions merge; four instructions in a ROB of three, a load queue of
two and a store queue of three make every slot be reused; the kinds of instruction
are a load, two loads, a store, a store to two addresses, a read-modify-write and a
computation, which give register chains, loads behind one and two stores, and an
instruction in both queues.  There a load's address never depends on a register;
that is the difference to `lsq_deadlock`.

An instruction that stores to two addresses can fail the assertion of `execute_store`
(`AssertionFails`, shown by `lsq_two_stores`), and the program ends.  The model does not:
the store waits, the other stages go on, and `Aborted` is a step that changes
nothing.  The safety properties of `lsq` are checked in these states too, which
the code does not reach; `EverythingRetires` asks for nothing while the assertion fails.

In `dram` lines 1 and 3 share a bank and have different rows, 2 has the other
bank; a write queue of three has watermarks 2 and 2, so that bursts of writes
start and stop by occupancy, by idleness, and by a waiting read.  `MaxCycle` is
there to keep the clock finite: four requests need fewer cycles, and a behaviour
that reached it with a request left would violate `ReadsAnswered` or
`WritesDrain`.

Fairness (`Fairness`, `FCFairness`) is weak fairness of every handler of every
cache, of every stage of the core and of each owed answer: `main` calls all of
them every cycle and the DRAM answers every request, which `dram` checks.  Nothing is assumed of the
trace, the prefetchers or page swaps.  In `FetchCommit` it is per MSHR slot for
`FillSpec`: a retried fill gets a fresh `event_cycle` and so lets other returned
entries go first.  In `Lsq` it is weak fairness of the back end as a whole
(`FairSpec`, with `ENABLED` written out so that TLC need not compute it): as long as
some stage can do something, one does; that is weaker than what the loop over the
stages gives.  In `Dram` it is fairness of the clock alone.  All liveness is under a finite number of
requests or instructions.  For the DRAM this matters: row hits go first, so an
endless stream of hits to one row could hold back another row of its bank.

What the violations show.

* `fetch_deadlock`: the report argues (4.2) that a fill waiting for a
  speculative way cannot deadlock since older instructions eventually commit.
  With lines 1, 2, 3, 2: instruction 2 has its line, whose block was evicted by
  the older instruction 1; the request of instruction 4 for that line marks 2 as
  waiting again; the fill may not evict the block of 3, which is older than 4;
  3 retires only after 2.  With more ways it takes as many instructions between
  2 and 4 as there are ways in the set.  The same property is violated when a commit is
  lost: with lines 2, 1, 1, 3 the commit of 3 merges with the one of 2 that is
  still in the queue (`add_cq`), so the block fetched for 3 is not released and
  instruction 4 cannot evict it.
* `prefetch_stuck`: an MSHR entry of a prefetch at the L2C is overwritten by a
  demand fetch, and with it the flag that the L1D waits.
* `commit_dirty`: a commit replaces a dirty block without a writeback.
* `commit_full`: the room test before a commit is forwarded reads the wrong
  queue, the never used `CQ` of the base class.
* `lsq_deadlock`: instruction 1 computes a register, 2 is a load whose address
  needs it, 3 a store whose data needs 2's result, and 4 a load of 3's address.
  4 is ready first and takes the only LQ slot, where it waits for 3; 3 waits for
  2, and 2 for a slot.  In the built size (LQ of 128, ROB of 352) it takes 128
  loads of addresses stored to behind an older load that is not ready.
* `lsq_two_stores`: instruction 1 stores to A and B, 2 to B, and 3 loads both.  3 is
  among the dependents of 1 because of A, and its load of B waits for 2.  When the
  store of 1 to B is executed it walks all dependents of 1, finds 3's load of B, and
  its producer is not 1: the assertion at `ooo_cpu.cc:1857` ends the simulation.
  Without the check (or where the slot has meanwhile been taken by another load that
  waits for 1) a load is released with the data of the wrong store.  The dependents
  are kept per instruction while the stores are several.

## 4. Properties worth naming

`ReturnsAreExpected` and `NoLostWaiter` together say that what a level holds for
an upper cache and what that cache waits for are the same set of lines, at every
moment and for every merge.  They are the reason `return_data` never aborts.
They hold without prefetchers for both first-level caches, and with prefetchers
for the data side alone; with a prefetcher and both sides `prefetch_stuck` is
the counterexample.

`SpeculationIsolated` says that a line enters the normal array of the L1I or L2C
only by a commit, by a writeback, or because the data side waits for it.  It is
stated without prefetchers, whose packets are not speculative.

`TimestampOrder` says that a valid speculative block disappears only in favour
of an older instruction's or by a commit at least as young as the block.

`SlotsHaveOnePlace` accounts for every load and store: whichever list, cache or
store is responsible for it, there is exactly one, and none for an empty slot.
Together with `OutstandingOps`, which ties the counters in the ROB to the queues,
it is why `EverythingRetires` holds.  `NearestProducer` states the memory
dependence as the program means it, by a look at the ROB at every moment, while
the code decides it once.

`ForwardsToWaiting` is what `execute_store` may take on trust: the slots it reaches
through the ROB still belong to the loads that were put there, although they were
looked up long before and slots are released and taken again in between.  It is
about the stores of instructions that store once, in programs that also have
instructions that store twice; for those the code's own assertion,
`ForwardMatches`, is violated (run `lsq_two_stores`).

`BanksHoldTheirRequests` and `CachedIndexesFresh` are what the memory controller
relies on and never checks in full: a bank that stays busy after its request went
back to the queue, or a cached index that misses a request, stops the channel
without any assertion failing.

## 5. What is proved

The theorems hold for every value of the constants that satisfies the named
assumptions: any tree of caches, any number of lines, sets, ways, MSHRs and
queue entries.

* `SizeAssumption`, `AddressAssumption` (`PacketQueue`): a ring has at least one
  slot, and address 0, which marks an empty one, is not a line.
* `CachesAssumption`, `AddrAssumption`, `ShapeAssumption`, `BoundsAssumption`
  (`SpecCache`): the caches are among the seven of the code, addresses are
  positive, a cache has at least one set, one way and one MSHR, a speculative
  array may be absent (0 sets), and the bounds are natural numbers.
* `RoomAssumption` (`SpecCache`): a read queue has a slot for each MSHR entry of
  the caches above it, as with the sizes of `cache.h`.
* `SizesAssumption`, `AddrAssumption`, `InstrAssumption` (`Lsq`): the ROB, the queues
  and the scheduler have at least one entry, the trace any length; 0 is no address;
  an instruction has no more loads (stores) than the load (store) queue has slots.
* `FrontEndAssumption` (`FetchCommit`): the only cache is the L1I; the trace, the
  fetch buffer and the ROB have any size.

**`PacketQueue_proofs`.** `RingInvariant` shows that `RingConsistent` is
inductive with the types (`RingTypeCorrect`): `tail` is `head + occupancy` modulo
the size, and exactly the slots outside that range are empty.  `RingImplementsFifo` is the refinement: the
mapping `contents` reads the ring from `head`, the two-piece search finds the
slot of the least position with the address, and each operation maps to the
operation of `PacketFifo` with the same name.  It justifies using sequences for
queues in `SpecCache`.

**`SpecCache_proofs`** begins with one set of blocks: `lru_update` keeps a way in each LRU
position (`UpdateKeepsOrder`), then `lru_victim` is a way (`VictimExists`), and
`timestamp_victim` is an invalid or a younger way (`TimestampVictim`).

The type invariant is not inductive.  A fill writes at
`lru_victim`, which is a way only if every LRU position is taken, and the
writeback of a victim is a packet only if a dirty block has an address.  `IInv`
therefore joins to the types
  - `BlocksOK`: in each set every LRU position is taken and a dirty block has a
    line as its tag;
  - `SpecBlocksOK`, `QueuesOK`: the types of the speculative array and queues;
  - `RoomOK`: no write queue is longer than its size;
  - `MshrOK`: no two entries of a cache are for the same line, and a slot
    without a line is free.

The proof has a lemma for each operator on sets, queues and MSHRs (`FillOK`,
`RqAddOK`, `AddMshrOK`, `ReturnOK`, ...), a lemma for each action (`FillNormalOK`,
`ReadMissOK`, `CommitOK`, ...), and `StepOK`, which collects them.  From `IInv`
follow `TypeCorrect`, `OneMshrPerLine`, `LruOrderComplete` and
`WriteQueuesHaveRoom`; `OlderBlocksStay` proves the action property
`TimestampOrder`, in which only `FillSpec` and `commit_blocks` matter.

**`SpecFlow_proofs`** is about two levels at a time.  `EveryReturnExpected` and
`EveryWaiterServed` say together that the level below holds a line for a cache
exactly if the cache waits for it.  Their invariant `Flow` joins to `IInv`
  - `LinksOK`: for every cache `u` and line `a` (`Link`), `u` has an entry in
    flight for `a` exactly if the level below has it for `u`, and then it has it in
    one place: as a request in its RQ (`Asks`), as an MSHR entry (`Tracks`), or,
    below the modelled tree, as an owed answer (`Outside`);
  - `ReadsOK`, `WritesOK`, `TablesOK`: every read and every MSHR entry comes from a
    demand access (`Demand`), its flags name the sides that wait (`SideOK`), the core's
    packets are marked as such (`FromCore`), no line is twice in a read queue
    (`Apart`), and a writeback asks for no answer;
  - `NoPrefetch`: the prefetch queues are empty.

That a miss finds room below (`RoomForMiss`) is a counting argument: each
request in the RQ belongs to an entry in flight of some upper cache, no two to the same
one, and the missing cache has one free.  The levels of the tree are not fixed; the
two caches above an L2C or STLB are each other's `Other`, and a merge has to keep
both flags.  The hypothesis `Prefetchers = {}` is needed: `prefetch_stuck`
is a counterexample with a prefetcher and both sides.  It is a hypothesis of the
theorems and not of the module, which allows any prefetchers.

`FetchesStaySpeculative` uses `Flow` for one case: a fill into the normal array of
the L2C is the answer to an entry that is not speculative, and `SideOK` then gives
the waiting L1D.  `DirtyLinesAreWritten` needs `IInv` only, and holds with
prefetchers and page swaps: every place where a step replaces a block writes a
dirty one down first (`Moves`), except `commit_blocks`; hence the hypothesis that the
kinds of packets have no commit, without which `commit_dirty` is the counterexample.

**`FetchCommit_proofs`** has `NormalArrayOnlyRetired`, the promise of the whole
design: what is in the normal L1I array was put there for a retired instruction.
Its invariant `FCInv` is `IInv` and
  - `InOrder`: the ROB and then the fetch buffer hold the numbers that are read
    and not retired, without a gap;
  - `RqInv`, `MshrInv`: every request and every MSHR entry is speculative and has the
    number of an instruction that is on its line;
  - `CqInv`: every commit has the number of a retired instruction on its line;
  - `ArrayInv`: so has every valid block of the normal array; a speculative block has
    the number of any instruction on its line.

A merge may exchange the number of an entry for that of another instruction, but
only of one on the same line; a commit moves only a block whose number is not above
its own, so that the block's instruction is retired too.

`NoWakeupLost` proves `WaitingFetchIsServed` for as long as `PROCESSED` of the L1I has
room (`NotFull`, as a hypothesis about every state of the behaviour): an instruction
that waits for its line has a request, an MSHR entry or an answer for that line under
way.  The hypothesis is about the code and not about the proof: `handle_fill` and
`handle_read` hand an answer to `PROCESSED` only if it has room, the MSHR entry or the
request is removed all the same, and the front end never asks twice for what it has
marked INFLIGHT.  The invariant `ServedInv` joins to `FCInv`
  - `Served`: the same for every line (`UnderWay`), which each operation on a queue or an
    MSHR either keeps (`AddAsked`, `TailAsked`, `AddMissed`, ...) or moves on, from the
    request to the MSHR entry or the answer, from the entry to the answer;
  - the L1I's write queue is empty: a fetch that found its line there would be answered
    by `add_rq` itself, and no request would be queued.

`complete_instr_fetch` takes the answer away and in the same step every instruction of the
line out of INFLIGHT; another answer for the line may still follow, which is why the
property is not an equivalence.

**`Dram_proofs`.** From `LayoutAssumption` (sizes of the address layout are
positive), `AddrAssumption` (0 is no line), `SizeAssumption` and `TimeAssumption`.
The invariant `IInv` is `TypeOK`, `ReadsAreKept`, `BusTurnsAround` and `Good(ch, k)`
for the active queue `k`, where `Good` joins
  - `BanksOK`: the bank and the slot name each other, and only queue `k` has
    scheduled slots;
  - `Counted`: the counters are cardinalities;
  - `Fresh`: the cached indexes are what a scan would give;
  - `Unique`: no line is in a queue twice.  Without it a transfer might not
    remove its line from the queue, and the refinement fails.

`Good` is a property of a channel and a queue rather than of the state, because
`operate` passes through channels that are not states: one lemma for each
operation (`InsertGood`, `ResetGood`, `GrantedGood`, `TransferGood`,
`WaitForBusGood`, `TurnAroundGood`) says that it keeps a channel good and what it
does to the queued lines.  `ResetGood` needs that the banks of the scheduled
requests are as many as the requests (`BanksOfScheduled`, by a bijection) and holds
for either queue as the next active one, since nothing is scheduled any more.
`RoomMeansFree` turns the LLC's test of the occupancy into a free slot.  Each
step lemma proves the invariant and the step of `Memory` together; `Read` is `Ask`,
a read burst is `Answer`, everything else leaves the owed lines alone.  The results
are `ChannelTypeCorrect`, `BanksAreConsistent`, `CountersCorrect`,
`IndexesAreFresh`, `NoReadIsLost`, `BusWaits` and `ChannelImplementsMemory`.

**`Lsq_proofs`, `LsqMemory_proofs`.** All safety invariants of `Lsq`, for any set of
instructions, any map of addresses to pages and lines, and any size of the ROB, the
queues and the scheduler.  They follow from one inductive invariant, `Good`, since no
part of it is inductive without others.  With `h .. t - 1` the ROB and
`h .. ns - 1` its scheduled part, it joins
  - `EntriesOK`: an entry that is not scheduled is as dispatched, one outside the ROB
    is empty;
  - `RegInv`: a register dependence leads to a younger instruction that reads what the
    older writes (`DependsOK`), the nearest writer of a source has executed or has the
    source among its dependents (`WritersOK`), `num_reg_dependent` counts the sources
    that wait (`CountsOK`), and RTE0 and RTE1 hold an instruction once (`ReadyOK`);
  - `LoadInv`: a slot of the LQ is empty or belongs to an added source (`LoadsOK`), and
    its producer is the nearest older store, has the load among its dependents and is
    not written yet (`ProducersOK`); conversely an instruction is a dependent of the
    nearest store of everything it has started to load (`LinkedOK`), and while the only
    store of an instruction is not written its loads sit in the slots the ROB names (`ForwardsOK`);
  - `StoreInv`: the SQ is a ring (`RingOK`) that holds the added destinations
    (`StoresOK`), and continued by the STA it is in program order (`OrderOK`);
  - `CountInv`: `num_mem_ops`, the occupancy of the LQ and the counters that
    `update_rob` tests are cardinalities;
  - `PlacesOK`: the ready lists, the translations and the reads are disjoint, and
    together are the loads without a producer and the stores that are not written.

`Good` is a property of a core and not of the state, because
`schedule_memory_instruction` passes through cores that are no states: one lemma for
each operation on a core (`AddLoadStep`, `PutStep`, `FinishStep`, `EndStep`, ...) says that
it keeps a core good.  The loops over the operands and over the ROB are recursive
functions of the number of iterations; `LoopKeeps` is induction over that
number, for what every iteration keeps.  The parts of `Good` are predicates of the
fields they are about, so that a step proves its frame once (`RegKept`, `LoadKept`,
`LinkedKept`, `ForwardsKept`) and then only what it changes.

The results: `LsqTypeCorrect` (`TypeOK`: no counter goes below 0),
`CountersExact` (`OutstandingOps`), `RingInOrder` (`StoresInOrder`), `SourcesReady`
(`RegistersReady`), `ProducerIsNearest` (`NearestProducer`) and `ForwardsMatch`
(`ForwardsToWaiting`) hold without further hypotheses, for instructions with any
number of loads and stores.  `ForwardsMatch` speaks of the stores of instructions that
store once because for the others it is false: so does `ForwardsOK` (`OneStore`), of
one producer at a time, whatever its neighbours do.  It says that each load of a dependent
waits in a slot of its own (`Waiting`) until the store is written.  `OnePlace` (`SlotsHaveOnePlace`)
has a hypothesis about the instructions: one stores to an address once (`StoresOnce`).
The tracer guarantees it: `champsim_tracer.cpp` looks for the address
(`already_found`) before it adds one.

## 6. What is only model-checked, and what is not modelled

Model-checked on the instances of section 3 only:
  - `ReturnsAreExpected` and `NoLostWaiter` with prefetchers on the data side (run
    `tlbs_prefetch`): the theorems are about trees without;
  - `WaitingFetchIsServed` when `PROCESSED` may be full: the run `fetch` has 5
    instructions and a `PROCESSED` of 4 and needs no hypothesis, the theorem
    `NoWakeupLost` has one.  With arbitrary delays, answers that nobody waits for any
    longer may fill it, so it holds for sizes in proportion and not for all;
  - what needs fairness (`Drains`, `ReadAnswered`, `ReadsAnswered`, `WritesDrain`,
    `EverythingRetires`): liveness and `ENABLED` are beyond the proof system.

Left out of the models: time outside `Dram` (`event_cycle`, latencies, bandwidth per
cycle) and the limit of `SCHEDULER_SIZE` on the search of `schedule_instruction`, which
only restrict the schedules; statistics; more than one core (the LLC
is shared, the rest is replicated per core); more than one DRAM channel (they share
nothing); the data in the lines, which the simulator does not have either.

Not modelled, and why:
  - the map of `va_to_pa` and its victim search: nothing but the translation reads
    it; its effect on the caches is `SwapOut`.  Its NRU filter `recent_page` is never
    filled, so the victim is the lowest mapped page;
  - the LLC policies (SRRIP, DRRIP, SHiP), branch predictors and the tables of the
    prefetchers: build-time choices that decide which way, direction or line, but
    not what is done with it.  `SpecCache` allows any prefetch, `FetchCommit` any
    delay of the front end;
  - `fastset`: a container; `Lsq` has sets in its place;
  - the commit packets for data at retirement, in `Lsq`: data reads are never
    speculative in this build, so they find no block; their path is in `SpecCache`;
  - the tracer and the scripts: input and output only.

## 7. Plan

1. Compose `Lsq` with `SpecCache`'s DTLB and L1D in the place of the external ones,
   and `Dram` with the LLC in the place of `below`.
2. `PageTable`: `va_to_pa` with its inverse table and the swap; composed with
   `SpecCache` for stale lines after a swap.
3. `Srrip`, `Drrip`, `Ship` and the saturating counters of the branch predictors,
   against reference definitions.
4. Proofs about compositions, once they exist: that `Lsq` over `SpecCache` keeps the
   invariants proved for both.
