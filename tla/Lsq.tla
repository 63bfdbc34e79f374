---------------------------------- MODULE Lsq ----------------------------------
(***************************************************************************)
(* The out-of-order back end of O3_CPU: the reorder buffer, the register   *)
(* and memory dependences between its instructions, the load and the store *)
(* queue, store-to-load forwarding, execution and retirement.              *)
(*                                                                         *)
(* An instruction is named by its instr_id; it sits in the ROB slot        *)
(* instr_id % ROB_SIZE.  Latencies are left out, so each step may come at  *)
(* any later time.  The DTLB, the L1D and the L1D's write queue are        *)
(* external: a request is answered some time after it was accepted, alone  *)
(* or together with others of its page or line that merged with it.        *)
(***************************************************************************)
EXTENDS Integers, FiniteSets, SequencesExt

CONSTANTS
  Instr,      \* instructions of the trace: [src, dst, rsrc : Seq, rdst : set]
  Addr,       \* data addresses; 0 is never an address
  page, line, \* functions on Addr: what the DTLB and the L1D merge by
  ROB_SIZE, LQ_SIZE, SQ_SIZE, SCHEDULER_SIZE,
  MaxInstr    \* bound: instructions read from the trace

ASSUME SizesAssumption ==
  {ROB_SIZE, LQ_SIZE, SQ_SIZE, SCHEDULER_SIZE} \subseteq Nat \ {0} /\ MaxInstr \in Nat
ASSUME AddrAssumption == Addr \subseteq Nat \ {0}
ASSUME InstrAssumption ==
  /\ Instr \subseteq [src : Seq(Addr), dst : Seq(Addr), rsrc : Seq(Nat), rdst : SUBSET Nat]
  /\ \A ins \in Instr : Len(ins.src) <= LQ_SIZE /\ Len(ins.dst) <= SQ_SIZE

VARIABLES
  core,           \* ROB entries, LQ, SQ and the lists of ready slots (see Core)
  head, tail,     \* the ROB holds the instructions head .. tail - 1
  next_schedule,  \* first instruction that schedule_instruction has not seen
  dtlb,           \* <<queue, slot>> of the translations under way
  l1d             \* LQ slots of the reads under way

vars == <<core, head, tail, next_schedule, dtlb, l1d>>

-------------------------------------------------------------------------------
(* State *)

Id == 1 .. MaxInstr
LqSlot == 0 .. LQ_SIZE - 1
SqSlot == 0 .. SQ_SIZE - 1
Status == {"NO", "INFLIGHT", "COMPLETED"}
NoInstr == [src |-> << >>, dst |-> << >>, rsrc |-> << >>, rdst |-> {}]

is_memory(e) == Len(e.ins.src) + Len(e.ins.dst) > 0

(* An entry of the ROB.  reg_depend_on_me holds <<consumer, source>> for    *)
(* registers_instrs_depend_on_me and registers_index_depend_on_me.          *)
Entry(ins) ==
  [ins |-> ins, reg_ready |-> FALSE, num_reg_dependent |-> 0,
   scheduled |-> "NO", executed |-> "NO",
   num_mem_ops |-> Len(ins.src) + Len(ins.dst),
   source_added |-> {}, destination_added |-> {},
   lq_index |-> [j \in DOMAIN ins.src |-> LQ_SIZE],
   sq_index |-> [j \in DOMAIN ins.dst |-> SQ_SIZE],
   reg_depend_on_me |-> {}, mem_depend_on_me |-> {}]

EmptyLoad == [id |-> 0, addr |-> 0, producer_id |-> 0]
EmptyStore == [id |-> 0, addr |-> 0, fetched |-> FALSE]

(* RTE0 and RTE1 hold instructions that may execute, RTL0 and RTS0 slots to *)
(* send to the DTLB, RTL1 and RTS1 translated slots.                        *)
Lists == {"RTE0", "RTE1", "RTL0", "RTL1", "RTS0", "RTS1"}

(* The elements of S, which have different keys, in the order of the keys: *)
(* the k-th has k - 1 before it.  (SetToSortSeq gives the same sequence,    *)
(* but rests on an operator that the proof system does not know.)           *)
SortedBy(S, key) ==
  [k \in 1 .. Cardinality(S) |->
     CHOOSE x \in S : Cardinality({y \in S : key[y] < key[x]}) = k - 1]

(* The entries of S in the order of their place in the ROB. *)
InRobOrder(S) == SortedBy(S, [i \in S |-> i % ROB_SIZE])
Ascending(S) == SortedBy(S, [s \in S |-> s])

(* The sets that the scans of the ROB look at. *)
Older(i) == head .. i - 1
InRob == head .. tail - 1
youngest(S) == CHOOSE i \in S : \A k \in S : k <= i

-------------------------------------------------------------------------------
(* The trace and the ROB *)

add_to_rob(c, ins) == [c EXCEPT !.rob[tail] = Entry(ins)]

(* An instruction is read, and STA remembers one store per destination; the *)
(* way through the front end is FetchCommit's subject and left out here.    *)
Dispatch(ins) ==
  /\ tail <= MaxInstr /\ tail - head < ROB_SIZE
  /\ core' = [add_to_rob(core, ins) EXCEPT !.STA = @ \o [j \in DOMAIN ins.dst |-> tail]]
  /\ tail' = tail + 1
  /\ UNCHANGED <<head, next_schedule, dtlb, l1d>>

-------------------------------------------------------------------------------
(* Register dependences *)

(* For source register r of i: the youngest older writer that has not      *)
(* executed yet.  A younger writer that has executed is passed over.       *)
Writers(c, i, r) ==
  {p \in Older(i) : c.rob[p].executed # "COMPLETED" /\ r \in c.rob[p].ins.rdst}

(* Mutant: two sources with one producer are counted once. *)
reg_dependency_once(c, i) ==
  LET rsrc == c.rob[i].ins.rsrc
      deps == {j \in DOMAIN rsrc : Writers(c, i, rsrc[j]) # {}}
  IN  [c EXCEPT !.rob = [p \in Id |->
         IF p = i
         THEN [c.rob[i] EXCEPT !.num_reg_dependent = 
                                 Cardinality({youngest(Writers(c, i, rsrc[j])) : j \in deps}),
                               !.reg_ready = deps = {}]
         ELSE [c.rob[p] EXCEPT !.reg_depend_on_me = @ \cup
                 {<<i, j>> : j \in {k \in deps : p = youngest(Writers(c, i, rsrc[k]))}}]]]

reg_dependency(c, i) ==
  LET rsrc == c.rob[i].ins.rsrc
      deps == {j \in DOMAIN rsrc : Writers(c, i, rsrc[j]) # {}}
  IN  [c EXCEPT !.rob = [p \in Id |->
         IF p = i
         THEN [c.rob[i] EXCEPT !.num_reg_dependent = Cardinality(deps),
                               !.reg_ready = deps = {}]
         ELSE [c.rob[p] EXCEPT !.reg_depend_on_me = @ \cup
                 {<<i, j>> : j \in {k \in deps : p = youngest(Writers(c, i, rsrc[k]))}}]]]

(* Instructions are scheduled in order; one without memory operands and    *)
(* without dependences goes to RTE1.  That the code searches no more than    *)
(* SCHEDULER_SIZE entries is left out: an instruction may start earlier.    *)
do_scheduling ==
  /\ next_schedule < tail
  /\ LET i == next_schedule
         c == reg_dependency(core, i)
     IN  core' = IF is_memory(c.rob[i]) THEN [c EXCEPT !.rob[i].scheduled = "INFLIGHT"]
                 ELSE [c EXCEPT !.rob[i].scheduled = "COMPLETED",
                                !.RT["RTE1"] = IF c.rob[i].reg_ready THEN Append(@, i) ELSE @]
  /\ next_schedule' = next_schedule + 1
  /\ UNCHANGED <<head, tail, dtlb, l1d>>

(* Mutant: one producer is enough. *)
reg_RAW_release_early(c, p) ==
  LET freed == {d[1] : d \in c.rob[p].reg_depend_on_me}
  IN  [c EXCEPT
         !.rob = [i \in Id |->
           IF i \in freed THEN [c.rob[i] EXCEPT !.reg_ready = TRUE,
                                                !.num_reg_dependent = 0,
                                                !.scheduled = IF is_memory(c.rob[i])
                                                              THEN "INFLIGHT" ELSE "COMPLETED"]
           ELSE c.rob[i]],
         !.RT["RTE0"] = @ \o InRobOrder({i \in freed : ~is_memory(c.rob[i])})]

(* The consumers of p have one dependence less; those that were waiting    *)
(* for nothing else become ready.                                          *)
reg_RAW_release(c, p) ==
  LET n(i)  == Cardinality({d \in c.rob[p].reg_depend_on_me : d[1] = i})
      freed == {i \in Id : n(i) > 0 /\ c.rob[i].num_reg_dependent = n(i)}
  IN  [c EXCEPT
         !.rob = [i \in Id |->
           IF i \in freed THEN [c.rob[i] EXCEPT !.reg_ready = TRUE,
                                                !.num_reg_dependent = 0,
                                                !.scheduled = IF is_memory(c.rob[i])
                                                              THEN "INFLIGHT" ELSE "COMPLETED"]
           ELSE [c.rob[i] EXCEPT !.num_reg_dependent = @ - n(i)]],
         !.RT["RTE0"] = @ \o InRobOrder({i \in freed : ~is_memory(c.rob[i])})]

-------------------------------------------------------------------------------
(* Execution of what needs no memory, and the end of every execution *)

do_execution(list) ==
  /\ core.RT[list] # << >>
  /\ core' = [core EXCEPT !.rob[Head(core.RT[list])].executed = "INFLIGHT",
                          !.RT[list] = Tail(@),
                          !.inflight_reg = @ + 1]
  /\ UNCHANGED <<head, tail, next_schedule, dtlb, l1d>>

(* update_rob looks for executions to complete only while one of the two   *)
(* counters is positive.                                                   *)
CanComplete(i) ==
  /\ core.inflight_reg > 0 \/ core.inflight_mem > 0
  /\ core.rob[i].executed = "INFLIGHT"
  /\ is_memory(core.rob[i]) => core.rob[i].num_mem_ops = 0

complete_execution(i) ==
  LET e == core.rob[i]
      c == [core EXCEPT !.rob[i].executed = "COMPLETED",
                        !.inflight_reg = IF is_memory(e) THEN @ ELSE @ - 1,
                        !.inflight_mem = IF is_memory(e) THEN @ - 1 ELSE @]
  IN  /\ CanComplete(i)
      /\ core' = reg_RAW_release(c, i)
      /\ UNCHANGED <<head, tail, next_schedule, dtlb, l1d>>

-------------------------------------------------------------------------------
(* Entering the load and the store queue *)

(* Mutant: several operations of one instruction count as one. *)
ops_done_once(c, n) ==
  [c EXCEPT
     !.rob = [i \in Id |-> IF n[i] > 0 THEN [c.rob[i] EXCEPT !.num_mem_ops = @ - 1] ELSE c.rob[i]],
     !.inflight_mem = @ + Cardinality({i \in Id : n[i] > 0 /\ c.rob[i].num_mem_ops = 1})]

(* n[i] memory operations of each instruction i are done. *)
ops_done(c, n) ==
  [c EXCEPT
     !.rob = [i \in Id |-> [c.rob[i] EXCEPT !.num_mem_ops = @ - n[i]]],
     !.inflight_mem = @ + Cardinality({i \in Id : n[i] > 0 /\ c.rob[i].num_mem_ops = n[i]})]

(* The loads in the slots L, and the store of instruction s if it is not 0, *)
(* have their data.                                                         *)
release_load_queue(c, L, s) ==
  [ops_done(c, [i \in Id |-> Cardinality({l \in L : c.LQ[l].id = i}) + (IF i = s THEN 1 ELSE 0)])
     EXCEPT !.LQ = [l \in LqSlot |-> IF l \in L THEN EmptyLoad ELSE c.LQ[l]],
            !.LQ_occupancy = @ - Cardinality(L)]

(* Mutant: the scan finds the oldest store of the address. *)
mem_RAW_dependency_oldest(c, i, a) ==
  LET P == {p \in Older(i) : a \in Range(c.rob[p].ins.dst)}
  IN  IF P = {} THEN 0 ELSE CHOOSE p \in P : \A k \in P : p <= k

(* The producer of a load: the nearest older store of its address in the   *)
(* ROB, in the store queue or not.                                         *)
mem_RAW_dependency(c, i, a) ==
  LET P == {p \in Older(i) : a \in Range(c.rob[p].ins.dst)}
  IN  IF P = {} THEN 0 ELSE youngest(P)

(* Entry k when source j of i takes the slot and depends on p. *)
source_row(e, k, i, j, slot, p) ==
  IF k = i THEN [e EXCEPT !.lq_index[j] = slot, !.source_added = @ \cup {j}]
  ELSE IF k = p THEN [e EXCEPT !.mem_depend_on_me = @ \cup {i}] ELSE e

(* Mutants: a load that waits for its producer is sent to the DTLB too; a  *)
(* load is not forwarded from a store that has executed already.           *)
add_load_queue_both(c, i, j) ==
  LET a    == c.rob[i].ins.src[j]
      slot == CHOOSE l \in LqSlot : /\ c.LQ[l].addr = 0
                                    /\ \A k \in LqSlot : c.LQ[k].addr = 0 => l <= k
      p    == mem_RAW_dependency(c, i, a)
  IN  [c EXCEPT !.rob = [k \in Id |-> source_row(c.rob[k], k, i, j, slot, p)],
                !.LQ[slot] = [id |-> i, addr |-> a, producer_id |-> p],
                !.LQ_occupancy = @ + 1,
                !.RT["RTL0"] = Append(@, slot)]

add_load_queue_late(c, i, j) ==
  LET a    == c.rob[i].ins.src[j]
      slot == CHOOSE l \in LqSlot : /\ c.LQ[l].addr = 0
                                    /\ \A k \in LqSlot : c.LQ[k].addr = 0 => l <= k
      p    == mem_RAW_dependency(c, i, a)
  IN  [c EXCEPT !.rob = [k \in Id |-> source_row(c.rob[k], k, i, j, slot, p)],
                !.LQ[slot] = [id |-> i, addr |-> a, producer_id |-> p],
                !.LQ_occupancy = @ + 1,
                !.RT["RTL0"] = IF p = 0 THEN Append(@, slot) ELSE @]

(* Source j of i takes the first empty slot.  If its producer's store has  *)
(* executed it gets the data, and gives the slot back, at once; if there   *)
(* is no producer it goes to the DTLB; else it waits for execute_store.    *)
(* Stores of younger instructions (WAR) are not forwarded.                 *)
add_load_queue(c, i, j) ==
  LET a    == c.rob[i].ins.src[j]
      slot == CHOOSE l \in LqSlot : /\ c.LQ[l].addr = 0
                                    /\ \A k \in LqSlot : c.LQ[k].addr = 0 => l <= k
      p    == mem_RAW_dependency(c, i, a)
      S    == {s \in SqSlot : c.SQ[s].addr = a /\ c.SQ[s].id = p}
      done == S # {} /\ c.SQ[CHOOSE s \in S : \A k \in S : s <= k].fetched
      new  == [c EXCEPT !.rob = [k \in Id |-> source_row(c.rob[k], k, i, j, slot, p)],
                        !.LQ[slot] = [id |-> i, addr |-> a, producer_id |-> p],
                        !.LQ_occupancy = @ + 1,
                        !.RT["RTL0"] = IF p = 0 THEN Append(@, slot) ELSE @]
  IN  IF done THEN release_load_queue(new, {slot}, 0) ELSE new

(* The entry when its destination j takes the slot. *)
destination_row(e, j, slot) ==
  [e EXCEPT !.sq_index[j] = slot, !.destination_added = @ \cup {j}]

add_store_queue(c, i, j) ==
  [c EXCEPT !.rob[i] = destination_row(@, j, c.SQ_tail),
            !.SQ[c.SQ_tail] = [id |-> i, addr |-> c.rob[i].ins.dst[j], fetched |-> FALSE],
            !.SQ_tail = (@ + 1) % SQ_SIZE,
            !.SQ_occupancy = @ + 1,
            !.STA = Tail(@),
            !.RT["RTS0"] = Append(@, c.SQ_tail)]

(* Mutant: stores enter the queue in the order in which they are ready. *)
StoreTurn_any(c, i) == c.STA # << >> /\ c.SQ_occupancy < SQ_SIZE

(* Stores enter the store queue in program order, which STA remembers. *)
StoreTurn(c, i) == c.STA # << >> /\ Head(c.STA) = i /\ c.SQ_occupancy < SQ_SIZE

(* Each memory operand that has not been added enters its queue if there   *)
(* is room; the instruction is scheduled when all of them have.            *)
load_operand(c, i, j) ==
  IF j \notin c.rob[i].source_added /\ c.LQ_occupancy < LQ_SIZE
  THEN add_load_queue(c, i, j) ELSE c
store_operand(c, i, j) ==
  IF j \notin c.rob[i].destination_added /\ StoreTurn(c, i)
  THEN add_store_queue(c, i, j) ELSE c

check_and_add_lsq(c, i) ==
  LET m == Len(c.rob[i].ins.src)
      n == Len(c.rob[i].ins.dst)
      load[j \in 0 .. m] == IF j = 0 THEN c ELSE load_operand(load[j - 1], i, j)
      store[j \in 0 .. n] == IF j = 0 THEN load[m] ELSE store_operand(store[j - 1], i, j)
  IN  store[n]

do_memory_scheduling(c0, i) ==
  LET c == check_and_add_lsq(c0, i)
      e == c.rob[i]
  IN  IF e.source_added = DOMAIN e.ins.src /\ e.destination_added = DOMAIN e.ins.dst
      THEN [c EXCEPT !.rob[i].scheduled = "COMPLETED",
                     !.rob[i].executed = IF @ = "NO" THEN "INFLIGHT" ELSE @]
      ELSE c

(* The ready instructions are tried from the oldest, at most               *)
(* SCHEDULER_SIZE of them.  The code ends the search at an entry whose      *)
(* event_cycle lies ahead: a matter of latencies, which are left out.       *)
tried ==
  LET ready == Ascending({i \in head .. next_schedule - 1 :
                            /\ is_memory(core.rob[i]) /\ core.rob[i].reg_ready
                            /\ core.rob[i].scheduled = "INFLIGHT"})
  IN  SubSeq(ready, 1, IF Len(ready) < SCHEDULER_SIZE THEN Len(ready) ELSE SCHEDULER_SIZE)

memory_scheduled ==
  LET run[k \in 0 .. Len(tried)] ==
        IF k = 0 THEN core ELSE do_memory_scheduling(run[k - 1], tried[k])
  IN  run[Len(tried)]

schedule_memory_instruction ==
  \E c \in {memory_scheduled} :
    /\ c # core
    /\ core' = c
    /\ UNCHANGED <<head, tail, next_schedule, dtlb, l1d>>

-------------------------------------------------------------------------------
(* operate_lsq: one slot from the head of one of the four lists *)

(* RTS0 and RTL0: the DTLB accepts the request. *)
translate(list, queue) ==
  /\ core.RT[list] # << >>
  /\ dtlb' = dtlb \cup {<<queue, Head(core.RT[list])>>}
  /\ core' = [core EXCEPT !.RT[list] = Tail(@)]
  /\ UNCHANGED <<head, tail, next_schedule, l1d>>

(* Mutant: every load of a dependent instruction is forwarded. *)
Forwarded_all(c, s) ==
  UNION {{<<d, j>> : j \in c.rob[d].source_added} : d \in c.rob[c.SQ[s].id].mem_depend_on_me}

(* The loads that the store in slot s gives its data to: <<instruction,    *)
(* source>>.                                                               *)
Forwarded(c, s) ==
  UNION {{<<d, j>> : j \in {k \in c.rob[d].source_added : c.rob[d].ins.src[k] = c.SQ[s].addr}} :
         d \in c.rob[c.SQ[s].id].mem_depend_on_me}

lq_slot(c, f) == c.rob[f[1]].lq_index[f[2]]

(* The assertions of execute_store on the loads it forwards to, one by one: *)
(* each is in the queue and waits for this store.  A slot found twice was   *)
(* released the first time.                                                *)
ProducerMatches(c, s) ==
  /\ \A f \in Forwarded(c, s) :
       lq_slot(c, f) < LQ_SIZE /\ c.LQ[lq_slot(c, f)].producer_id = c.SQ[s].id
  /\ \A f, g \in Forwarded(c, s) : lq_slot(c, f) = lq_slot(c, g) => f = g

execute_store ==
  /\ core.RT["RTS1"] # << >>
  /\ LET s == Head(core.RT["RTS1"])
         L == {lq_slot(core, f) : f \in Forwarded(core, s)}
         c == [core EXCEPT !.SQ[s].fetched = TRUE, !.RT["RTS1"] = Tail(@)]
     IN  /\ ProducerMatches(core, s)
         /\ core' = release_load_queue(c, L, core.SQ[s].id)
  /\ UNCHANGED <<head, tail, next_schedule, dtlb, l1d>>

(* RTL1: the L1D accepts the request. *)
execute_load ==
  /\ core.RT["RTL1"] # << >>
  /\ l1d' = l1d \cup {Head(core.RT["RTL1"])}
  /\ core' = [core EXCEPT !.RT["RTL1"] = Tail(@)]
  /\ UNCHANGED <<head, tail, next_schedule, dtlb>>

-------------------------------------------------------------------------------
(* complete_data_fetch: the request p comes back with the ones merged into *)
(* it, G without p.                                                        *)

addr_of(q, s) == IF q = "LQ" THEN core.LQ[s].addr ELSE core.SQ[s].addr

(* The slots of queue q in M, in the order of the merged set. *)
handle_merged_translation(M, q) == Ascending({g[2] : g \in {h \in M : h[1] = q}})

(* The DTLB's answer makes stores and loads ready, p before the others. *)
complete_translation(p, G) ==
  LET done(q) == (IF p[1] = q THEN <<p[2]>> ELSE << >>) \o handle_merged_translation(G \ {p}, q)
  IN  /\ \A g \in G : page[addr_of(g[1], g[2])] = page[addr_of(p[1], p[2])]
      /\ dtlb' = dtlb \ G
      /\ core' = [core EXCEPT !.RT["RTS1"] = @ \o done("SQ"), !.RT["RTL1"] = @ \o done("LQ")]
      /\ UNCHANGED <<head, tail, next_schedule, l1d>>

(* The L1D's answer ends the loads and empties their slots. *)
complete_read(L) ==
  /\ L # {} /\ \A k, l \in L : line[core.LQ[k].addr] = line[core.LQ[l].addr]
  /\ l1d' = l1d \ L
  /\ core' = release_load_queue(core, L, 0)
  /\ UNCHANGED <<head, tail, next_schedule, dtlb>>

-------------------------------------------------------------------------------
(* The oldest instruction leaves when it has executed and the L1D's write  *)
(* queue has room for its stores; their slots are the head of the SQ.  The *)
(* packets for the write and the commit queues go to external caches.      *)
CanRetire == head < tail /\ core.rob[head].executed = "COMPLETED"

retire_rob ==
  /\ CanRetire
  /\ LET e == core.rob[head]
         S == {e.sq_index[j] : j \in DOMAIN e.sq_index}
     IN  core' = [core EXCEPT !.rob[head] = Entry(NoInstr),
                              !.SQ = [s \in SqSlot |-> IF s \in S THEN EmptyStore ELSE @[s]],
                              !.SQ_occupancy = @ - Len(e.ins.dst),
                              !.SQ_head = (@ + Len(e.ins.dst)) % SQ_SIZE]
  /\ head' = head + 1
  /\ UNCHANGED <<tail, next_schedule, dtlb, l1d>>

-------------------------------------------------------------------------------
Init ==
  /\ core = [rob |-> [i \in Id |-> Entry(NoInstr)],
             LQ |-> [l \in LqSlot |-> EmptyLoad], LQ_occupancy |-> 0,
             SQ |-> [s \in SqSlot |-> EmptyStore], SQ_occupancy |-> 0,
             SQ_head |-> 0, SQ_tail |-> 0, STA |-> << >>,
             RT |-> [r \in Lists |-> << >>],
             inflight_reg |-> 0, inflight_mem |-> 0]
  /\ head = 1 /\ tail = 1 /\ next_schedule = 1
  /\ dtlb = {} /\ l1d = {}

Backend ==
  \/ do_scheduling
  \/ do_execution("RTE0") \/ do_execution("RTE1")
  \/ \E i \in InRob : complete_execution(i)
  \/ schedule_memory_instruction
  \/ translate("RTS0", "SQ") \/ translate("RTL0", "LQ")
  \/ execute_store \/ execute_load
  \/ \E G \in SUBSET dtlb : \E p \in G : complete_translation(p, G)
  \/ \E L \in SUBSET l1d : complete_read(L)
  \/ retire_rob

(* The trace has ended and every instruction has left. *)
Finished == head > MaxInstr /\ UNCHANGED vars

(* The next store fails execute_store's assertion: the program ends here.  *)
(* The model only lets the store wait, and the rest of the core go on.      *)
AssertionFails ==
  core.RT["RTS1"] # << >> /\ ~ProducerMatches(core, Head(core.RT["RTS1"]))
Aborted == AssertionFails /\ UNCHANGED vars

Next == (\E ins \in Instr : Dispatch(ins)) \/ Backend \/ Finished \/ Aborted

Spec == Init /\ [][Next]_vars

(* An instruction that schedule_memory_instruction finds room for. *)
MayAdd(i) ==
  LET e == core.rob[i]
  IN  \/ e.source_added # DOMAIN e.ins.src /\ core.LQ_occupancy < LQ_SIZE
      \/ e.destination_added # DOMAIN e.ins.dst /\ StoreTurn(core, i)

(* The loop in main() calls every stage in every cycle, and the caches     *)
(* answer every request they have accepted: while a stage has something to *)
(* do, one of them eventually does it.  BackendReady is ENABLED Backend,   *)
(* and a step of Backend is one that changes core and reads nothing from   *)
(* the trace.  The first alternative for core' in BackendStep is there for *)
(* TLC alone, which needs some next core to find BackendStep enabled.      *)
BackendReady ==
  \/ next_schedule < tail
  \/ \E r \in Lists : core.RT[r] # << >>
  \/ \E i \in InRob : CanComplete(i)
  \/ \E i \in Range(tried) : MayAdd(i)
  \/ dtlb # {} \/ l1d # {}
  \/ CanRetire
BackendStep ==
  /\ BackendReady
  /\ tail' = tail
  /\ core' = [core EXCEPT !.inflight_mem = @ + 1] \/ core' # core
FairSpec == Spec /\ WF_core(BackendStep)

-------------------------------------------------------------------------------
(* Properties *)

ROBEntry ==
  [ins : Instr \cup {NoInstr}, reg_ready : BOOLEAN, num_reg_dependent : Nat,
   scheduled : Status, executed : Status, num_mem_ops : Nat,
   source_added : SUBSET Nat, destination_added : SUBSET Nat,
   lq_index : Seq(0 .. LQ_SIZE), sq_index : Seq(0 .. SQ_SIZE),
   reg_depend_on_me : SUBSET (Id \X Nat), mem_depend_on_me : SUBSET Id]

Core ==
  [rob : [Id -> ROBEntry],
   LQ : [LqSlot -> [id : Id \cup {0}, addr : Addr \cup {0}, producer_id : Id \cup {0}]],
   LQ_occupancy : 0 .. LQ_SIZE,
   SQ : [SqSlot -> [id : Id \cup {0}, addr : Addr \cup {0}, fetched : BOOLEAN]],
   SQ_occupancy : 0 .. SQ_SIZE, SQ_head : SqSlot, SQ_tail : SqSlot, STA : Seq(Id),
   RT : [Lists -> Seq(Nat)], inflight_reg : Nat, inflight_mem : Nat]

(* The shape of the state; that num_mem_ops and num_reg_dependent do not   *)
(* become negative is what the assertions after each decrement say.        *)
TypeOK ==
  /\ core \in Core
  /\ head \in 1 .. tail /\ tail \in 1 .. MaxInstr + 1 /\ next_schedule \in head .. tail
  /\ dtlb \subseteq {"LQ", "SQ"} \X Nat /\ l1d \subseteq LqSlot

(* How often slot s is in list r. *)
Times(r, s) == Cardinality({k \in DOMAIN core.RT[r] : core.RT[r][k] = s})
One(b) == IF b THEN 1 ELSE 0

(* Every load in the queue is in exactly one place that will move it: a    *)
(* list, the DTLB, the L1D, or the dependents of a store that has not      *)
(* executed.  Every store likewise, until it has executed.  An empty slot  *)
(* is nowhere: a slot left behind would be handled for the load that takes *)
(* it next.                                                                *)
WaitsForStore(l) ==
  LET p == core.LQ[l].producer_id
  IN  /\ p \in InRob /\ core.LQ[l].id \in core.rob[p].mem_depend_on_me
      /\ ~\E s \in SqSlot : core.SQ[s] = [id |-> p, addr |-> core.LQ[l].addr, fetched |-> TRUE]

SlotsHaveOnePlace ==
  /\ \A l \in LqSlot :
       Times("RTL0", l) + Times("RTL1", l) + One(<<"LQ", l>> \in dtlb) + One(l \in l1d)
         + One(core.LQ[l].addr # 0 /\ WaitsForStore(l)) = One(core.LQ[l].addr # 0)
  /\ \A s \in SqSlot :
       Times("RTS0", s) + Times("RTS1", s) + One(<<"SQ", s>> \in dtlb)
         = One(core.SQ[s].addr # 0 /\ ~core.SQ[s].fetched)
  /\ core.LQ_occupancy = Cardinality({l \in LqSlot : core.LQ[l].addr # 0})

(* num_mem_ops counts the operations that are still to be done, and the    *)
(* counters that update_rob tests count the executions it would complete:  *)
(* with one too low the last instruction of a burst is never completed.    *)
OutstandingOps ==
  /\ \A i \in InRob :
       LET e == core.rob[i]
       IN  e.num_mem_ops =
             Cardinality(DOMAIN e.ins.src \ e.source_added)
             + Cardinality(DOMAIN e.ins.dst \ e.destination_added)
             + Cardinality({l \in LqSlot : core.LQ[l].id = i})
             + Cardinality({s \in SqSlot : core.SQ[s].id = i /\ ~core.SQ[s].fetched})
  /\ core.inflight_mem = Cardinality({i \in InRob : /\ is_memory(core.rob[i])
                                                    /\ core.rob[i].num_mem_ops = 0
                                                    /\ core.rob[i].executed # "COMPLETED"})
  /\ core.inflight_reg = Cardinality({i \in InRob : /\ ~is_memory(core.rob[i])
                                                    /\ core.rob[i].executed = "INFLIGHT"})

(* The store queue is a ring in program order although its instructions    *)
(* become ready in any order: what retires is at its head, and             *)
(* add_store_queue finds its tail empty.                                   *)
StoresInOrder ==
  LET at(k) == (core.SQ_head + k) % SQ_SIZE
      n     == core.SQ_occupancy
  IN  /\ core.SQ_tail = at(n)
      /\ \A k \in 0 .. SQ_SIZE - 1 : core.SQ[at(k)].addr # 0 <=> k < n
      /\ \A k \in 1 .. n - 1 : core.SQ[at(k - 1)].id <= core.SQ[at(k)].id
      /\ n > 0 => \A i \in InRob : i < core.SQ[at(0)].id => core.rob[i].ins.dst = << >>

(* A load in the queue waits for the nearest older store of its address,   *)
(* or reads memory only when no older store of it is in the ROB, however   *)
(* late the load or the store became ready.                                *)
NearestProducer ==
  \A l \in LqSlot : core.LQ[l].addr # 0 =>
    LET i == core.LQ[l].id
        P == {p \in Older(i) : core.LQ[l].addr \in Range(core.rob[p].ins.dst)}
    IN  IF P = {} THEN core.LQ[l].producer_id = 0 ELSE core.LQ[l].producer_id = youngest(P)

(* The assertion in execute_store: every load that a store forwards to has  *)
(* this store as its producer.                                             *)
ForwardMatches ==
  \A k \in DOMAIN core.RT["RTS1"] : ProducerMatches(core, core.RT["RTS1"][k])

(* It holds for every instruction that stores once, also among others that *)
(* store twice: what the ROB names is still the slot of the load, in which *)
(* it waits for this store, although slots are released and taken again    *)
(* between the lookup of the producer and its execution.                   *)
StillHolds(f, s) ==
  core.LQ[lq_slot(core, f)] = [id |-> f[1], addr |-> core.SQ[s].addr, producer_id |-> core.SQ[s].id]
ForwardsToWaiting ==
  \A k \in DOMAIN core.RT["RTS1"] :
    LET s == core.RT["RTS1"][k]
    IN  Len(core.rob[core.SQ[s].id].ins.dst) = 1 =>
          ProducerMatches(core, s) /\ \A f \in Forwarded(core, s) : StillHolds(f, s)

(* An instruction executes, or enters the queues, only when the nearest    *)
(* older writer of each of its source registers has executed.              *)
RegistersReady ==
  \A i \in InRob :
    LET e == core.rob[i]
    IN  e.executed # "NO" \/ e.source_added # {} \/ e.destination_added # {} =>
          \A j \in DOMAIN e.ins.rsrc :
            LET W == {p \in Older(i) : e.ins.rsrc[j] \in core.rob[p].ins.rdst}
            IN  W # {} => core.rob[youngest(W)].executed = "COMPLETED"

(* Every instruction that enters the ROB retires, unless execute_store's    *)
(* assertion ends the program: the trace is finite, so this is to say that *)
(* the ROB becomes empty again and again.                                  *)
EverythingRetires == []<>(head = tail \/ AssertionFails)

================================================================================
