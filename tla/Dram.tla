--------------------------------- MODULE Dram ---------------------------------
(***************************************************************************)
(* The memory controller below the LLC (class MEMORY_CONTROLLER).  The     *)
(* channels share nothing, so the module describes one of them: its read   *)
(* and write queue, its banks, and the data bus that one burst direction   *)
(* owns at a time.  Here time is kept: cycle is current_core_cycle, which  *)
(* all the cores advance together, and one Operate is one cycle.           *)
(*                                                                         *)
(* The LLC is external.  What it does is what cache.cc does before it      *)
(* calls: it asks for a line only when no MSHR of its waits for it, and    *)
(* only after it has compared the queue's occupancy with its size.         *)
(***************************************************************************)
EXTENDS Integers, FiniteSets, Scan

CONSTANTS
  DRAM_CHANNELS, DRAM_BANKS, DRAM_COLUMNS, DRAM_RANKS, DRAM_ROWS,  \* address layout
  Addr,          \* the line addresses of this channel; 0 is never an address
  DRAM_RQ_SIZE, DRAM_WQ_SIZE,
  tRP, tRCD, tCAS,                \* latencies of a bank
  DRAM_DBUS_RETURN_TIME, DRAM_DBUS_TURN_AROUND_TIME,
  MaxDelay,      \* bound: cycles that a packet waited in the LLC
  MaxRequests,   \* bound: number of calls of the LLC
  MaxCycle       \* bound: cycles; only a channel that is stuck reaches it

ASSUME LayoutAssumption ==
  {DRAM_CHANNELS, DRAM_BANKS, DRAM_COLUMNS, DRAM_RANKS, DRAM_ROWS} \subseteq Nat \ {0}
ASSUME AddrAssumption ==
  Addr \subseteq Nat \ {0} /\ \A a, b \in Addr : a % DRAM_CHANNELS = b % DRAM_CHANNELS
ASSUME SizeAssumption == DRAM_RQ_SIZE \in Nat \ {0} /\ DRAM_WQ_SIZE \in Nat \ {0}
ASSUME TimeAssumption ==
  {tRP, tRCD, tCAS, DRAM_DBUS_RETURN_TIME, DRAM_DBUS_TURN_AROUND_TIME, MaxDelay,
   MaxRequests, MaxCycle} \subseteq Nat

VARIABLES
  ch,       \* the channel: a record of the fields that ChannelOK lists
  cycle,    \* current_core_cycle
  warm,     \* all_warmup_complete has reached NUM_CPUS
  waiting,  \* lines of the LLC's MSHRs that have not had return_data yet
  last,     \* the latest burst on the data bus, for BusTurnsAround
  issued    \* calls of the LLC so far (bounded by MaxRequests)

vars == <<ch, cycle, warm, waiting, last, issued>>

-------------------------------------------------------------------------------
(* Queues and addresses *)

Queues == {"RQ", "WQ"}
SIZE(k) == IF k = "RQ" THEN DRAM_RQ_SIZE ELSE DRAM_WQ_SIZE
Slots(k) == 0 .. SIZE(k) - 1
DRAM_WRITE_HIGH_WM == (DRAM_WQ_SIZE * 7) \div 8
DRAM_WRITE_LOW_WM == (DRAM_WQ_SIZE * 3) \div 4

dram_get_bank(a) ==
  << (a \div DRAM_CHANNELS) % DRAM_BANKS,
     (a \div (DRAM_CHANNELS * DRAM_BANKS * DRAM_COLUMNS)) % DRAM_RANKS >>
dram_get_row(a) ==
  (a \div (DRAM_CHANNELS * DRAM_BANKS * DRAM_COLUMNS * DRAM_RANKS)) % DRAM_ROWS

Bank == (0 .. DRAM_BANKS - 1) \X (0 .. DRAM_RANKS - 1)
NoRow == -1
NoIndex == -1

(* A slot whose address is 0 is empty. *)
Slot == [addr : Addr \cup {0}, scheduled : BOOLEAN, event : Nat]
EmptySlot == [addr |-> 0, scheduled |-> FALSE, event |-> 0]

(* kind is "RQ" for is_read, "WQ" for is_write and "none" for neither. *)
BankRequest == [working : BOOLEAN, request_index : Nat \cup {NoIndex},
                kind : Queues \cup {"none"}, open_row : Nat \cup {NoRow},
                cycle_available : Nat]
IdleBank == [working |-> FALSE, request_index |-> NoIndex, kind |-> "none",
             open_row |-> NoRow, cycle_available |-> 0]

(* next_schedule and next_process are the indexes the controller caches;   *)
(* SIZE(k) stands for "none", also before the first update, when the code  *)
(* has index 0 and an infinite cycle.                                      *)
ChannelOK(c) ==
  /\ c \in [queue : [Queues -> {c.queue[k] : k \in Queues}],
            occupancy : [Queues -> Nat], scheduled : [Queues -> Nat],
            next_schedule : [Queues -> Nat], next_process : [Queues -> Nat],
            bank : [Bank -> BankRequest],
            write_mode : BOOLEAN,
            dbus : Nat]
  /\ \A k \in Queues : c.queue[k] \in [Slots(k) -> Slot]

(* The slot of S with the smallest event_cycle, the first one of equals. *)
Oldest(q, S) ==
  CHOOSE i \in S : \A j \in S : \/ q[i].event < q[j].event
                                \/ q[i].event = q[j].event /\ i <= j

Queued(c, k) == {c.queue[k][i].addr : i \in Slots(k)} \ {0}
check_dram_queue(c, k, a) == {i \in Slots(k) : c.queue[k][i].addr = a}
Scheduled(c, k) == {i \in Slots(k) : c.queue[k][i].scheduled}
Schedulable(c, k) == {i \in Slots(k) : c.queue[k][i].addr # 0 /\ ~c.queue[k][i].scheduled}

OldestOrNone(c, k, S) == IF S = {} THEN SIZE(k) ELSE Oldest(c.queue[k], S)

update_schedule_cycle(c, k) ==
  [c EXCEPT !.next_schedule[k] = OldestOrNone(c, k, Schedulable(c, k))]
update_process_cycle(c, k) ==
  [c EXCEPT !.next_process[k] = OldestOrNone(c, k, Scheduled(c, k))]

-------------------------------------------------------------------------------
(* Adding requests *)

(* Mutant: the cached index is not brought up to date. *)
Insert_stale(c, k, a, event) ==
  LET free == check_dram_queue(c, k, 0)
      i    == First(free)
  IN  IF free = {} THEN c
      ELSE [c EXCEPT !.queue[k][i] = [addr |-> a, scheduled |-> FALSE, event |-> event],
                     !.occupancy[k] = @ + 1]

(* The first empty slot takes the packet; without one the packet is gone.  *)
Insert(c, k, a, event) ==
  LET free == check_dram_queue(c, k, 0)
      i    == First(free)
  IN  update_schedule_cycle(
        IF free = {} THEN c
        ELSE [c EXCEPT !.queue[k][i] = [addr |-> a, scheduled |-> FALSE, event |-> event],
                       !.occupancy[k] = @ + 1],
        k)

(* A read that finds a writeback of its line is answered from it. *)
Forwarded(c, a) == check_dram_queue(c, "WQ", a) # {}

add_rq(c, a, event) ==
  IF Forwarded(c, a) \/ check_dram_queue(c, "RQ", a) # {} THEN c
  ELSE Insert(c, "RQ", a, event)

add_wq(c, a, event) ==
  IF check_dram_queue(c, "WQ", a) # {} THEN c ELSE Insert(c, "WQ", a, event)

-------------------------------------------------------------------------------
(* One cycle of the channel *)

(* Mutants: a reset drops the requests; it leaves the banks to them. *)
reset_remain_requests_drop(c, k, now) ==
  [c EXCEPT !.queue[k] = [i \in Slots(k) |-> IF c.queue[k][i].scheduled THEN EmptySlot ELSE c.queue[k][i]]]

reset_remain_requests_banks(c, k, now) ==
  LET r == [c EXCEPT !.queue[k] = [i \in Slots(k) |-> [c.queue[k][i] EXCEPT !.scheduled = FALSE]],
                     !.scheduled[k] = 0]
  IN  update_process_cycle(update_schedule_cycle(r, k), k)

(* The requests of queue k that hold a bank give it back and age anew. *)
reset_remain_requests(c, k, now) ==
  LET B   == {dram_get_bank(c.queue[k][i].addr) : i \in Scheduled(c, k)}
      row(b) == dram_get_row(c.queue[k][CHOOSE i \in Scheduled(c, k) :
                                    dram_get_bank(c.queue[k][i].addr) = b].addr)
      freed(b) == [IdleBank EXCEPT
                     !.cycle_available = now,
                     !.open_row = IF c.bank[b].cycle_available - tCAS <= now
                                  THEN row(b) ELSE NoRow]
      r   == [c EXCEPT
                !.queue[k] = [i \in Slots(k) |->
                          IF c.queue[k][i].scheduled
                          THEN [c.queue[k][i] EXCEPT !.scheduled = FALSE, !.event = now]
                          ELSE c.queue[k][i]],
                !.bank = [b \in Bank |-> IF b \in B THEN freed(b) ELSE c.bank[b]],
                !.scheduled = [j \in Queues |->
                                 @[j] - Cardinality({b \in B : c.bank[b].kind = j})]]
  IN  [r EXCEPT !.next_schedule = [j \in Queues |-> OldestOrNone(r, j, Schedulable(r, j))],
                !.next_process = [j \in Queues |-> OldestOrNone(r, j, Scheduled(r, j))]]

(* Writes are sent in bursts: one starts when the write queue is nearly    *)
(* full or there is nothing to read, and ends when the queue is empty or   *)
(* has drained below the low watermark while a read waits.                 *)
StartWrites(c) ==
  /\ ~c.write_mode
  /\ \/ c.occupancy["WQ"] >= DRAM_WRITE_HIGH_WM
     \/ c.occupancy["RQ"] = 0 /\ c.occupancy["WQ"] > 0

StopWrites(c) ==
  /\ c.write_mode
  /\ \/ c.occupancy["WQ"] = 0
     \/ c.occupancy["RQ"] # 0 /\ c.occupancy["WQ"] < DRAM_WRITE_LOW_WM

(* Mutant: the bus turns around in no time. *)
turn_around_free(c, k, mode, now) ==
  reset_remain_requests([c EXCEPT !.write_mode = mode], k, now)

turn_around(c, k, mode, now) ==
  [reset_remain_requests([c EXCEPT !.write_mode = mode], k, now)
     EXCEPT !.dbus = @ + DRAM_DBUS_TURN_AROUND_TIME]

switch_mode(c, now) ==
  IF StartWrites(c) THEN turn_around(c, "RQ", TRUE, now)
  ELSE IF StopWrites(c) THEN turn_around(c, "WQ", FALSE, now)
  ELSE c

(* Mutant: the scheduler does not ask whether the bank is busy. *)
schedule_busy(c, k, now) ==
  LET i == Oldest(c.queue[k], Schedulable(c, k))
      a == c.queue[k][i].addr
      done == now + tRP + tRCD + tCAS
  IN  update_process_cycle(update_schedule_cycle(
        [c EXCEPT !.queue[k][i].scheduled = TRUE,
                  !.queue[k][i].event = done,
                  !.scheduled[k] = @ + 1,
                  !.bank[dram_get_bank(a)] =
                    [working |-> TRUE, request_index |-> i, kind |-> k,
                     open_row |-> dram_get_row(a), cycle_available |-> done]],
        k), k)

(* The oldest request for an open row of an idle bank is chosen, else the  *)
(* oldest one for an idle bank, if there is one.                           *)
schedule(c, k, now) ==
  LET bank_of(i) == c.bank[dram_get_bank(c.queue[k][i].addr)]
      idle == {i \in Schedulable(c, k) : ~bank_of(i).working}
      hits == {i \in idle : bank_of(i).open_row = dram_get_row(c.queue[k][i].addr)}
      i    == Oldest(c.queue[k], IF hits # {} THEN hits ELSE idle)
      a    == c.queue[k][i].addr
      done == now + (IF hits # {} THEN tCAS ELSE tRP + tRCD + tCAS)
  IN  IF idle = {} THEN c
      ELSE update_process_cycle(update_schedule_cycle(
             [c EXCEPT !.queue[k][i].scheduled = TRUE,
                       !.queue[k][i].event = done,
                       !.scheduled[k] = @ + 1,
                       !.bank[dram_get_bank(a)] =
                         [working |-> TRUE, request_index |-> i, kind |-> k,
                          open_row |-> dram_get_row(a), cycle_available |-> done]],
             k), k)

(* The request that process() looks at is done when its bank and the data  *)
(* bus are both available.                                                 *)
BankReady(c, k, now) ==
  c.bank[dram_get_bank(c.queue[k][c.next_process[k]].addr)].cycle_available <= now

(* The bus is busy: the request waits until it is free. *)
wait_for_bus(c, k) ==
  [c EXCEPT !.bank[dram_get_bank(c.queue[k][c.next_process[k]].addr)].cycle_available = c.dbus]

(* Mutants: the counter of scheduled requests is forgotten; the occupancy is *)
(* decremented here and in remove_queue().                                   *)
transfer_uncounted(c, k, now) ==
  LET i == c.next_process[k]
      b == dram_get_bank(c.queue[k][i].addr)
  IN  update_process_cycle(
        [c EXCEPT !.dbus = now + DRAM_DBUS_RETURN_TIME,
                  !.bank[b] = [@ EXCEPT !.working = FALSE, !.request_index = NoIndex,
                                        !.kind = "none"],
                  !.queue[k][i] = EmptySlot,
                  !.occupancy[k] = @ - 1],
        k)

transfer_twice(c, k, now) ==
  [transfer_uncounted(c, k, now) EXCEPT !.scheduled[k] = @ - 1, !.occupancy[k] = @ - 1]

transfer(c, k, now) ==
  LET i == c.next_process[k]
      b == dram_get_bank(c.queue[k][i].addr)
  IN  update_process_cycle(
        [c EXCEPT !.dbus = now + DRAM_DBUS_RETURN_TIME,
                  !.bank[b] = [@ EXCEPT !.working = FALSE, !.request_index = NoIndex,
                                        !.kind = "none"],
                  !.scheduled[k] = @ - 1,
                  !.queue[k][i] = EmptySlot,
                  !.occupancy[k] = @ - 1],
        k)

Active(c) == IF c.write_mode THEN "WQ" ELSE "RQ"

(* The schedule and the process part of operate(), after the mode is known. *)
after_schedule(c, now) ==
  LET k == Active(c)
      i == c.next_schedule[k]
  IN  IF i < SIZE(k) /\ c.queue[k][i].event <= now THEN schedule(c, k, now) ELSE c

Processes(c, now) ==
  LET k == Active(c)
      i == c.next_process[k]
  IN  i < SIZE(k) /\ c.queue[k][i].event <= now /\ BankReady(c, k, now)

(* The channel after the mode switch and the schedule step of operate().   *)
Prepared == {after_schedule(c, cycle) : c \in {switch_mode(ch, cycle)}}

-------------------------------------------------------------------------------
(* Calls of the LLC (external), and the end of the warmup *)

(* Mutant: the LLC does not compare the occupancy with the size. *)
LlcMayCall_unchecked(k) == issued < MaxRequests /\ issued' = issued + 1

LlcMayCall(k) ==
  /\ issued < MaxRequests
  /\ issued' = issued + 1
  /\ ch.occupancy[k] # SIZE(k)

(* The line comes back in the same call: before the end of the warmup, and *)
(* when the write queue holds it.                                          *)
ReadAtOnce(a) ==
  /\ LlcMayCall("RQ")
  /\ a \notin waiting
  /\ ~warm \/ Forwarded(ch, a)
  /\ UNCHANGED <<ch, cycle, warm, waiting, last>>

Read(a, event) ==
  /\ LlcMayCall("RQ")
  /\ a \notin waiting
  /\ warm /\ ~Forwarded(ch, a)
  /\ ch' = add_rq(ch, a, event)
  /\ waiting' = waiting \cup {a}
  /\ UNCHANGED <<cycle, warm, last>>

(* Before the end of the warmup a writeback is dropped. *)
Write(a, event) ==
  /\ LlcMayCall("WQ")
  /\ ch' = IF warm THEN add_wq(ch, a, event) ELSE ch
  /\ UNCHANGED <<cycle, warm, waiting, last>>

FinishWarmup ==
  /\ ~warm
  /\ warm' = TRUE
  /\ UNCHANGED <<ch, cycle, waiting, last, issued>>

-------------------------------------------------------------------------------
(* operate(), by what its process step does.  A cycle in which the queues  *)
(* are empty and the bus is free changes nothing and is left out.          *)

Busy == Queued(ch, "RQ") # {} \/ Queued(ch, "WQ") # {} \/ ch.dbus > cycle

Tick(c) ==
  /\ Busy
  /\ ~Processes(c, cycle)
  /\ ch' = c
  /\ cycle' = cycle + 1
  /\ UNCHANGED <<warm, waiting, last, issued>>

WaitForBus(c) ==
  /\ Processes(c, cycle)
  /\ c.dbus > cycle
  /\ ch' = wait_for_bus(c, Active(c))
  /\ cycle' = cycle + 1
  /\ UNCHANGED <<warm, waiting, last, issued>>

Burst(c, k) ==
  /\ Active(c) = k
  /\ Processes(c, cycle)
  /\ c.dbus <= cycle
  /\ ch' = transfer(c, k, cycle)
  /\ cycle' = cycle + 1
  /\ last' = [kind |-> k, cycle |-> cycle]
  /\ UNCHANGED <<warm, issued>>

(* The line goes back to the LLC with return_data. *)
ReadBurst(c) ==
  /\ Burst(c, "RQ")
  /\ waiting' = waiting \ {c.queue["RQ"][c.next_process["RQ"]].addr}

WriteBurst(c) ==
  /\ Burst(c, "WQ")
  /\ UNCHANGED waiting

operate ==
  /\ cycle < MaxCycle
  /\ \E c \in Prepared : Tick(c) \/ WaitForBus(c) \/ ReadBurst(c) \/ WriteBurst(c)

-------------------------------------------------------------------------------
Init ==
  /\ ch = [queue |-> [k \in Queues |-> [i \in Slots(k) |-> EmptySlot]],
           occupancy |-> [k \in Queues |-> 0],
           scheduled |-> [k \in Queues |-> 0],
           next_schedule |-> [k \in Queues |-> SIZE(k)],
           next_process |-> [k \in Queues |-> SIZE(k)],
           bank |-> [b \in Bank |-> IdleBank],
           write_mode |-> FALSE,
           dbus |-> 0]
  /\ cycle = 0
  /\ warm = FALSE
  /\ waiting = {}
  /\ last = [kind |-> "none", cycle |-> 0]
  /\ issued = 0

Next ==
  \/ \E a \in Addr : ReadAtOnce(a)
  \/ \E a \in Addr, event \in (cycle - MaxDelay) .. cycle :
       event >= 0 /\ (Read(a, event) \/ Write(a, event))
  \/ FinishWarmup
  \/ operate

Spec == Init /\ [][Next]_vars

(* The simulation loop does not stop: while the channel has work the clock *)
(* advances, and operate is the only step that advances it.                *)
Clock == Busy /\ cycle < MaxCycle /\ cycle' = cycle + 1
FairSpec == Spec /\ WF_cycle(Clock)

-------------------------------------------------------------------------------
(* Properties *)

TypeOK ==
  /\ ChannelOK(ch)
  /\ cycle \in Nat /\ warm \in BOOLEAN /\ issued \in Nat
  /\ waiting \subseteq Addr
  /\ last \in [kind : Queues \cup {"none"}, cycle : Nat]

(* A bank is busy exactly with the scheduled request that its              *)
(* request_index names, and only the queue of the current mode has         *)
(* scheduled requests.  process() asserts the former for the request it    *)
(* takes; two requests on one bank, or a bank left busy by a change of     *)
(* mode, would stop the channel for good.                                  *)
BanksHoldTheirRequests ==
  /\ \A k \in Queues : \A i \in Scheduled(ch, k) :
       /\ ch.queue[k][i].addr # 0
       /\ k = Active(ch)
       /\ ch.bank[dram_get_bank(ch.queue[k][i].addr)].working
       /\ ch.bank[dram_get_bank(ch.queue[k][i].addr)].request_index = i
  /\ \A b \in Bank :
       IF ch.bank[b].working
       THEN LET k == ch.bank[b].kind
                i == ch.bank[b].request_index
            IN  /\ k \in Queues /\ i \in Slots(k)
                /\ ch.queue[k][i].scheduled /\ dram_get_bank(ch.queue[k][i].addr) = b
       ELSE ch.bank[b].kind = "none" /\ ch.bank[b].request_index = NoIndex

(* The counters that reset_remain_requests() asserts to be 0 after it has  *)
(* released the banks count the scheduled requests, and the occupancy that *)
(* the LLC compares with the size counts the slots in use.                 *)
CountersAgree ==
  \A k \in Queues :
    /\ ch.scheduled[k] = Cardinality(Scheduled(ch, k))
    /\ ch.occupancy[k] = Cardinality({i \in Slots(k) : ch.queue[k][i].addr # 0})

(* The cached indexes that operate() tests are the ones a fresh scan would *)
(* give: a request behind a stale index would wait for ever.               *)
CachedIndexesFresh ==
  \A k \in Queues :
    /\ ch.next_schedule[k] = OldestOrNone(ch, k, Schedulable(ch, k))
    /\ ch.next_process[k] = OldestOrNone(ch, k, Scheduled(ch, k))

(* The lines the LLC waits for are the lines of the read queue: no read is *)
(* dropped by a full queue, lost by a change of mode or answered twice.    *)
ReadsAreKept == waiting = Queued(ch, "RQ")

(* dram_controller.h: "the data bus must wait this amount of time when     *)
(* switching between reads and writes, and vice versa".                    *)
BusTurnsAround ==
  last.kind # "none" =>
    ch.dbus >= last.cycle + DRAM_DBUS_RETURN_TIME
                 + (IF last.kind = Active(ch) THEN 0 ELSE DRAM_DBUS_TURN_AROUND_TIME)

(* The channel implements the memory that the caches rely on: what it owes *)
(* is what its read queue holds, and it answers one line per step.         *)
Mem == INSTANCE Memory WITH owed <- Queued(ch, "RQ")
ImplementsMemory == Mem!Spec

(* Every read is answered in the end, whatever burst of writes comes       *)
(* between (the LLC makes finitely many calls).                            *)
ReadsAnswered == Mem!Answered

(* Every writeback reaches its bank in the end, although a read may stop a *)
(* burst at any time and send the scheduled writes back to the queue.      *)
WritesDrain == \A a \in Addr : a \in Queued(ch, "WQ") ~> a \notin Queued(ch, "WQ")
===============================================================================
