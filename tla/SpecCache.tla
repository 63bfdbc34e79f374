------------------------------ MODULE SpecCache ------------------------------
(***************************************************************************)
(* The caches and TLBs of the speculative hierarchy (class CACHE).  Every  *)
(* instance holds a normal and a speculative array, the queues RQ, WQ, PQ  *)
(* and CQ, a set of MSHRs and a queue PROCESSED of answers to the core.    *)
(* An instance of this module is a tree of such caches: lower_level(c) may *)
(* be outside Caches, and is then modelled by what c sees of it (below).   *)
(*                                                                         *)
(* One action is one iteration of a handler's loop.  operate() runs the    *)
(* handlers of every cache once per cycle and event_cycle says when a      *)
(* packet is ready; here time is left out, so a ready packet is handled at *)
(* any later moment and every schedule of the code is a behaviour.         *)
(***************************************************************************)
EXTENDS Integers, Sequences, Replacement

CONSTANTS
  Caches,       \* the caches of this instance, a subset of CacheNames
  Addr,         \* block (or page) addresses; 0 is never an address
  CoreAddr,     \* CoreAddr[c]: the addresses the core sends to c
  Offsets,      \* offsets inside a block, what full_addr adds to address
  NumSet, NumWay,           \* shape of the normal array of each cache
  NumSetSpec, NumWaySpec,   \* shape of the speculative array
  RqSize, WqSize, PqSize, CqSize, MshrSize, ProcSize,  \* queue sizes
  Prefetchers,  \* the caches built with a prefetcher
  Kinds,        \* what the trace makes the core send
  MaxId,        \* bound: instructions are numbered 1 .. MaxId
  MaxRequests   \* bound: number of packets the core and prefetchers send

CacheNames == {"ITLB", "DTLB", "STLB", "L1I", "L1D", "L2C", "LLC"}
CoreFacing == {"ITLB", "DTLB", "L1I", "L1D"}
PacketTypes == {"LOAD", "RFO", "PREFETCH", "WRITEBACK", "COMMIT_LOAD"}
RequestKinds == {"read", "store", "commit", "swap"}

ASSUME CachesAssumption == Caches \subseteq CacheNames /\ Prefetchers \subseteq Caches
ASSUME AddrAssumption ==
  /\ Addr \subseteq Nat \ {0} /\ Offsets \subseteq Nat /\ 0 \in Offsets
  /\ \A c \in Caches : CoreAddr[c] \subseteq Addr
ASSUME ShapeAssumption ==
  \A c \in Caches :
     /\ NumSet[c] \in Nat \ {0} /\ NumWay[c] \in Nat \ {0}
     /\ NumSetSpec[c] \in Nat /\ NumWaySpec[c] \in Nat \ {0}
     /\ MshrSize[c] \in Nat \ {0}
     /\ {RqSize[c], WqSize[c], PqSize[c], CqSize[c], ProcSize[c]} \subseteq Nat
ASSUME BoundsAssumption ==
  Kinds \subseteq RequestKinds /\ MaxId \in Nat /\ MaxRequests \in Nat

VARIABLES
  block,       \* block[c][set][way], the normal array
  spec_block,  \* spec_block[c][set][way], the speculative array
  RQ, WQ, PQ,  \* read, write and prefetch queue of each cache
  CQ,          \* commit queue of each cache
  MSHR,        \* MSHR[c][slot]
  PROCESSED,   \* answers for the core
  below,       \* requests <<c, addr>> the external lower level still owes
  answered,    \* <<c, addr>> the core has got an answer for, or stored to
  issued       \* packets sent so far (bounded by MaxRequests)

arrays == <<block, spec_block>>
vars == <<block, spec_block, RQ, WQ, PQ, CQ, MSHR, PROCESSED, below, answered, issued>>

-------------------------------------------------------------------------------
(* Topology *)

level(c) == CASE c \in CoreFacing -> 1 [] c \in {"STLB", "L2C"} -> 2 [] OTHER -> 4

lower_level(c) == CASE c \in {"ITLB", "DTLB"} -> "STLB"
                    [] c \in {"L1I", "L1D"}   -> "L2C"
                    [] c = "L2C"              -> "LLC"
                    [] OTHER                  -> "OUTSIDE"

upper_level_icache(c) == CASE c = "STLB" -> "ITLB" [] c = "L2C" -> "L1I" [] OTHER -> "L2C"
upper_level_dcache(c) == CASE c = "STLB" -> "DTLB" [] c = "L2C" -> "L1D" [] OTHER -> "L2C"

(* Mutants: the fill flags are ignored; only one of the two uppers is returned to. *)
uppers_any(c, p) ==
  {u \in Caches : p.lvl < level(c) /\ u \in {upper_level_icache(c), upper_level_dcache(c)}}

uppers_either(c, p) ==
  {u \in Caches : /\ p.lvl < level(c)
                  /\ u = IF p.fi THEN upper_level_icache(c) ELSE upper_level_dcache(c)}

(* The caches of this instance that a packet p handled at c is returned to. *)
(* The LLC calls the L2C's return_data twice for a packet of both sides,     *)
(* the second time on an answered entry, which changes nothing.             *)
uppers(c, p) ==
  {u \in Caches : /\ p.lvl < level(c)
                  /\ \/ u = upper_level_icache(c) /\ (p.fi \/ level(c) # 2)
                     \/ u = upper_level_dcache(c) /\ (p.fd \/ level(c) # 2)}

(* The RQ of a level has a slot for every MSHR of the caches above it, as   *)
(* the sizes in cache.h do; no caller looks at what the add_rq of a lower   *)
(* level returns.                                                           *)
ASSUME RoomAssumption ==
  \A u, v \in Caches :
     lower_level(u) = lower_level(v) /\ lower_level(u) \in Caches
       => RqSize[lower_level(u)] >= IF u = v THEN MshrSize[u] ELSE MshrSize[u] + MshrSize[v]

-------------------------------------------------------------------------------
(* Packets, blocks and MSHR entries *)

Packet == [addr : Addr, off : Offsets, id : Nat, spec : BOOLEAN, type : PacketTypes,
           lvl : {1, 2, 4, 8}, fi : BOOLEAN, fd : BOOLEAN]

(* An MSHR entry is a packet and its returned flag; address 0 marks a free slot. *)
FreeEntry == [addr |-> 0, off |-> 0, id |-> 0, spec |-> FALSE, type |-> "LOAD",
              lvl |-> 1, fi |-> FALSE, fd |-> FALSE, ret |-> "NONE"]
Entry == [addr : Addr, off : Offsets, id : Nat, spec : BOOLEAN, type : PacketTypes,
          lvl : {1, 2, 4, 8}, fi : BOOLEAN, fd : BOOLEAN,
          ret : {"INFLIGHT", "COMPLETED"}]
(* Mutant: the entry forgets that the request is speculative. *)
entry_normal(p, returned) ==
  [addr |-> p.addr, off |-> p.off, id |-> p.id, spec |-> FALSE, type |-> p.type,
   lvl |-> p.lvl, fi |-> p.fi, fd |-> p.fd, ret |-> returned]

entry(p, returned) ==
  [addr |-> p.addr, off |-> p.off, id |-> p.id, spec |-> p.spec, type |-> p.type,
   lvl |-> p.lvl, fi |-> p.fi, fd |-> p.fd, ret |-> returned]

Block == [valid : BOOLEAN, dirty : BOOLEAN, tag : Addr \cup {0}, id : Nat, lru : Nat]
SpecBlock == [valid : BOOLEAN, tag : Addr \cup {0}, id : Nat]

Slots(c) == 1 .. MshrSize[c]

get_set(addr, numSet) == IF numSet = 0 THEN 0 ELSE addr % numSet

-------------------------------------------------------------------------------
(* Queues.  PacketQueue.tla shows that the rings behave as these sequences. *)

(* L1D_WQ, and the commit queue that carries the same name, compare full    *)
(* addresses; every other queue compares block addresses.                   *)
check_queue(q, p, full) ==
  {i \in DOMAIN q : q[i].addr = p.addr /\ (full => q[i].off = p.off)}

wq_index(c, p) == check_queue(WQ[c], p, c = "L1D")

(* A read that finds a newer writeback, or its duplicate, is not queued. *)
rq_forward(c, p) == wq_index(c, p) # {}
rq_duplicate(c, p) == check_queue(RQ[c], p, FALSE)

(* A merged request waits for the other one's answer: the fill flags say   *)
(* for whom.  A prefetch also lowers the fill level.                       *)
merge_flags(e, p) == [e EXCEPT !.fi = @ \/ p.fi, !.fd = @ \/ p.fd]

merge_prefetch(e, p) ==
  [merge_flags(e, p) EXCEPT !.lvl = IF p.lvl < @ THEN p.lvl ELSE @]

(* Mutants: a forwarded read is queued all the same; a merged read loses its flags. *)
rq_after_add_forwarded(q, c, p) ==
  IF rq_duplicate(c, p) # {} \/ Len(RQ[c]) = RqSize[c] THEN q
  ELSE [q EXCEPT ![c] = Append(@, p)]

rq_after_add_unmerged(q, c, p) ==
  IF rq_forward(c, p) \/ rq_duplicate(c, p) # {} \/ Len(RQ[c]) = RqSize[c] THEN q
  ELSE [q EXCEPT ![c] = Append(@, p)]

rq_after_add(q, c, p) ==
  IF rq_forward(c, p) THEN q
  ELSE IF rq_duplicate(c, p) # {}
       THEN [q EXCEPT ![c][First(rq_duplicate(c, p))] = merge_flags(@, p)]
  ELSE IF Len(RQ[c]) = RqSize[c] THEN q
  ELSE [q EXCEPT ![c] = Append(@, p)]

pq_duplicate(c, p) == check_queue(PQ[c], p, FALSE)

(* Mutants: a forwarded prefetch is queued all the same; a merge keeps the fill level. *)
pq_after_add_forwarded(q, c, p) ==
  IF pq_duplicate(c, p) # {} \/ Len(PQ[c]) = PqSize[c] THEN q
  ELSE [q EXCEPT ![c] = Append(@, p)]

pq_after_add_level(q, c, p) ==
  IF rq_forward(c, p) THEN q
  ELSE IF pq_duplicate(c, p) # {}
       THEN [q EXCEPT ![c][First(pq_duplicate(c, p))] = merge_flags(@, p)]
  ELSE IF Len(PQ[c]) = PqSize[c] THEN q
  ELSE [q EXCEPT ![c] = Append(@, p)]

pq_after_add(q, c, p) ==
  IF rq_forward(c, p) THEN q
  ELSE IF pq_duplicate(c, p) # {}
       THEN [q EXCEPT ![c][First(pq_duplicate(c, p))] = merge_prefetch(@, p)]
  ELSE IF Len(PQ[c]) = PqSize[c] THEN q
  ELSE [q EXCEPT ![c] = Append(@, p)]

wq_after_add(q, c, p) ==
  IF wq_index(c, p) # {} THEN q ELSE [q EXCEPT ![c] = Append(@, p)]

(* A duplicate commit is merged into the pending one, a commit for a full  *)
(* queue is refused: in both cases the packet is gone.                     *)
cq_after_add(q, c, p) ==
  IF check_queue(CQ[c], p, c = "L1D") # {} \/ Len(CQ[c]) = CqSize[c] THEN q
  ELSE [q EXCEPT ![c] = Append(@, p)]

(* Mutant: the ITLB does not answer the core. *)
processed_after_itlb(c, p) ==
  IF c \in CoreFacing \ {"ITLB"} /\ Len(PROCESSED[c]) < ProcSize[c]
  THEN [PROCESSED EXCEPT ![c] = Append(@, p.addr)]
  ELSE PROCESSED

processed_after(c, p) ==
  IF /\ c \in CoreFacing
     /\ c = "L1D" => p.type # "PREFETCH"
     /\ Len(PROCESSED[c]) < ProcSize[c]
  THEN [PROCESSED EXCEPT ![c] = Append(@, p.addr)]
  ELSE PROCESSED

-------------------------------------------------------------------------------
(* MSHRs *)

(* Mutant: an entry that was answered but not filled yet is overlooked. *)
check_mshr_inflight(m, addr) == {s \in DOMAIN m : m[s].addr = addr /\ m[s].ret = "INFLIGHT"}

check_mshr(m, addr) == {s \in DOMAIN m : m[s].addr = addr}

free_slots(m) == {s \in DOMAIN m : m[s].addr = 0}

add_mshr(m, p, returned) ==
  IF free_slots(m) = {} THEN m
  ELSE [m EXCEPT ![First(free_slots(m))] = entry(p, returned)]

(* return_data on every cache of U; the assertion that a matching entry    *)
(* exists is the invariant ReturnsAreExpected.                             *)
return_data(ms, U, addr) ==
  [u \in Caches |->
     IF u \in U /\ check_mshr(ms[u], addr) # {}
     THEN [ms[u] EXCEPT ![First(check_mshr(ms[u], addr))].ret = "COMPLETED"]
     ELSE ms[u]]

(* Mutant: the fill flags are not merged. *)
merge_demand_level(e, p) ==
  IF e.type = "PREFETCH" THEN entry(p, e.ret)
  ELSE [e EXCEPT !.lvl = IF p.lvl < @ THEN p.lvl ELSE @]

(* A demand request that finds an entry of a prefetch takes the entry over *)
(* and keeps only its returned flag; otherwise it lowers the fill level    *)
(* and adds its fill flags.                                                *)
merge_demand(e, p) ==
  IF e.type = "PREFETCH" THEN entry(p, e.ret)
  ELSE merge_prefetch(e, p)

-------------------------------------------------------------------------------
(* Arrays *)

hit_ways(c, p) ==
  LET set == block[c][get_set(p.addr, NumSet[c])]
  IN  {w \in DOMAIN set : set[w].valid /\ set[w].tag = p.addr}

(* Mutant: the instruction numbers are not compared. *)
spec_hit_ways_any(c, p) ==
  IF NumSetSpec[c] = 0 THEN {}
  ELSE LET set == spec_block[c][get_set(p.addr, NumSetSpec[c])]
       IN  {w \in DOMAIN set : set[w].valid /\ set[w].tag = p.addr}

(* A speculative block is visible only to its own and to younger instructions. *)
spec_hit_ways(c, p) ==
  IF NumSetSpec[c] = 0 THEN {}
  ELSE LET set == spec_block[c][get_set(p.addr, NumSetSpec[c])]
       IN  {w \in DOMAIN set : /\ set[w].valid /\ set[w].tag = p.addr
                               /\ set[w].id <= p.id}

fill_cache(set, way, addr, id, isDirty) ==
  [set EXCEPT ![way] = [valid |-> TRUE, dirty |-> isDirty, tag |-> addr, id |-> id,
                        lru |-> set[way].lru]]

fill_spec(set, way, addr, id) ==
  [set EXCEPT ![way] = [valid |-> TRUE, tag |-> addr, id |-> id]]

(* update_replacement_state: a writeback hit leaves the LRU state alone. *)
touch(set, way, p) == IF p.type = "WRITEBACK" THEN set ELSE lru_update(set, way)

(* Mutant: the write queue's occupancy is not looked at. *)
writeback_room_unchecked(c) == c \in Caches

(* A dirty victim leaves through the lower level's write queue. *)
writeback_room(c) ==
  lower_level(c) \in Caches =>
    Len(WQ[lower_level(c)]) # WqSize[lower_level(c)]

writeback_packet(c, victim, id) ==
  [addr |-> victim.tag, off |-> 0, id |-> id, spec |-> FALSE, type |-> "WRITEBACK",
   lvl |-> 2 * level(c), fi |-> FALSE, fd |-> FALSE]

(* Mutants: a clean or invalid victim is written too; the victim is dropped. *)
wq_after_evict_clean(q, c, victim, id) ==
  IF lower_level(c) \in Caches
  THEN wq_after_add(q, lower_level(c), writeback_packet(c, victim, id))
  ELSE q

wq_after_evict_dropped(q, c, victim, id) == q

wq_after_evict(q, c, victim, id) ==
  IF victim.dirty /\ lower_level(c) \in Caches
  THEN wq_after_add(q, lower_level(c), writeback_packet(c, victim, id))
  ELSE q

-------------------------------------------------------------------------------
(* handle_fill: any returned entry may be the one with the least event_cycle. *)

(* The lower level's write queue is full: the fill waits (do_fill = 0), so the *)
(* action is not enabled.                                                      *)
FillNormal(c, s) ==
  LET e      == MSHR[c][s]
      set    == get_set(e.addr, NumSet[c])
      way    == lru_victim(block[c][set], NumWay[c])
      victim == block[c][set][way]
  IN  /\ e.ret = "COMPLETED" /\ ~e.spec
      /\ victim.dirty => writeback_room(c)
      /\ WQ' = wq_after_evict(WQ, c, victim, e.id)
      /\ block' = [block EXCEPT ![c][set] =
                     fill_cache(lru_update(@, way), way, e.addr, e.id,
                                c = "L1D" /\ e.type = "RFO")]
      /\ MSHR' = return_data([MSHR EXCEPT ![c][s] = FreeEntry], uppers(c, e), e.addr)
      /\ PROCESSED' = processed_after(c, e)
      /\ UNCHANGED <<spec_block, RQ, PQ, CQ, below, issued, answered>>

spec_victim(c, e) ==
  IF NumSetSpec[c] = 0 THEN 0
  ELSE timestamp_victim(spec_block[c][get_set(e.addr, NumSetSpec[c])], NumWaySpec[c], e.id)

(* Without a speculative array the data only passes through to the upper level. *)
FillSpec(c, s) ==
  LET e   == MSHR[c][s]
      set == get_set(e.addr, NumSetSpec[c])
      way == spec_victim(c, e)
  IN  /\ e.ret = "COMPLETED" /\ e.spec
      /\ way # NumWaySpec[c]
      /\ spec_block' = IF NumSetSpec[c] = 0 THEN spec_block
                       ELSE [spec_block EXCEPT ![c][set] = fill_spec(@, way, e.addr, e.id)]
      /\ MSHR' = return_data([MSHR EXCEPT ![c][s] = FreeEntry], uppers(c, e), e.addr)
      /\ PROCESSED' = processed_after(c, e)
      /\ UNCHANGED <<block, RQ, WQ, PQ, CQ, below, issued, answered>>

(* Every way holds an older block: the entry is taken out and put back returned. *)
FillSpecRetry(c, s) ==
  LET e == MSHR[c][s]
  IN  /\ e.ret = "COMPLETED" /\ e.spec
      /\ spec_victim(c, e) = NumWaySpec[c]
      /\ MSHR' = [MSHR EXCEPT ![c] = add_mshr([@ EXCEPT ![s] = FreeEntry], e, "COMPLETED")]
      /\ UNCHANGED <<arrays, RQ, WQ, PQ, CQ, PROCESSED, below, issued, answered>>

handle_fill(c) == \E s \in Slots(c) : FillNormal(c, s) \/ FillSpec(c, s) \/ FillSpecRetry(c, s)

-------------------------------------------------------------------------------
(* A miss goes to the MSHRs and to the lower level in one step. *)

(* A new miss needs a free MSHR.  The result of the lower level's add_rq   *)
(* is ignored; a writeback waiting there answers at once.  The STLB walks  *)
(* the page table and answers itself.                                      *)
new_miss(c, p, rqs) ==
  LET allocated == [MSHR EXCEPT ![c] = add_mshr(@, p, "INFLIGHT")]
      low       == lower_level(c)
  IN  IF low \in Caches
      THEN /\ RQ' = rq_after_add(rqs, low, p)
           /\ MSHR' = IF rq_forward(low, p)
                      THEN return_data(allocated, uppers(low, p), p.addr)
                      ELSE allocated
           /\ UNCHANGED below
      ELSE IF c = "STLB"
      THEN /\ MSHR' = return_data(allocated, {c}, p.addr)
           /\ RQ' = rqs
           /\ UNCHANGED below
      ELSE /\ below' = below \cup {<<c, p.addr>>}
           /\ MSHR' = allocated
           /\ RQ' = rqs

merge_miss(c, p) ==
  MSHR' = [MSHR EXCEPT ![c][First(check_mshr(MSHR[c], p.addr))] = merge_demand(@, p)]

-------------------------------------------------------------------------------
(* handle_read, one iteration *)

ReadHit(c) ==
  LET p   == Head(RQ[c])
      set == get_set(p.addr, NumSet[c])
  IN  /\ RQ[c] # << >>
      /\ hit_ways(c, p) # {}
      /\ block' = [block EXCEPT ![c][set] = touch(@, First(hit_ways(c, p)), p)]
      /\ MSHR' = return_data(MSHR, uppers(c, p), p.addr)
      /\ PROCESSED' = processed_after(c, p)
      /\ RQ' = [RQ EXCEPT ![c] = Tail(@)]
      /\ UNCHANGED <<spec_block, WQ, PQ, CQ, below, issued, answered>>

ReadSpecHit(c) ==
  LET p == Head(RQ[c])
  IN  /\ RQ[c] # << >>
      /\ hit_ways(c, p) = {} /\ spec_hit_ways(c, p) # {}
      /\ MSHR' = return_data(MSHR, uppers(c, p), p.addr)
      /\ PROCESSED' = processed_after(c, p)
      /\ RQ' = [RQ EXCEPT ![c] = Tail(@)]
      /\ UNCHANGED <<arrays, WQ, PQ, CQ, below, issued, answered>>

(* With no free MSHR the read stays at the head of RQ. *)
ReadMiss(c) ==
  LET p == Head(RQ[c])
  IN  /\ RQ[c] # << >>
      /\ hit_ways(c, p) = {} /\ spec_hit_ways(c, p) = {}
      /\ check_mshr(MSHR[c], p.addr) = {} /\ free_slots(MSHR[c]) # {}
      /\ new_miss(c, p, [RQ EXCEPT ![c] = Tail(@)])
      /\ UNCHANGED <<arrays, WQ, PQ, CQ, PROCESSED, issued, answered>>

ReadMerge(c) ==
  LET p == Head(RQ[c])
  IN  /\ RQ[c] # << >>
      /\ hit_ways(c, p) = {} /\ spec_hit_ways(c, p) = {}
      /\ check_mshr(MSHR[c], p.addr) # {}
      /\ merge_miss(c, p)
      /\ RQ' = [RQ EXCEPT ![c] = Tail(@)]
      /\ UNCHANGED <<arrays, WQ, PQ, CQ, PROCESSED, below, issued, answered>>

handle_read(c) == ReadHit(c) \/ ReadSpecHit(c) \/ ReadMiss(c) \/ ReadMerge(c)

-------------------------------------------------------------------------------
(* handle_writeback: writebacks of the upper level and, at the L1D, stores *)

WriteHit(c) ==
  LET p   == Head(WQ[c])
      set == get_set(p.addr, NumSet[c])
      way == First(hit_ways(c, p))
  IN  /\ WQ[c] # << >>
      /\ hit_ways(c, p) # {}
      /\ block' = [block EXCEPT ![c][set] = [touch(@, way, p) EXCEPT ![way].dirty = TRUE]]
      /\ MSHR' = return_data(MSHR, uppers(c, p), p.addr)
      /\ WQ' = [WQ EXCEPT ![c] = Tail(@)]
      /\ UNCHANGED <<spec_block, RQ, PQ, CQ, PROCESSED, below, issued, answered>>

StoreMiss(c) ==
  LET p == Head(WQ[c])
  IN  /\ c = "L1D" /\ WQ[c] # << >>
      /\ hit_ways(c, p) = {}
      /\ check_mshr(MSHR[c], p.addr) = {} /\ free_slots(MSHR[c]) # {}
      /\ new_miss(c, p, RQ)
      /\ WQ' = [WQ EXCEPT ![c] = Tail(@)]
      /\ UNCHANGED <<arrays, PQ, CQ, PROCESSED, issued, answered>>

StoreMerge(c) ==
  LET p == Head(WQ[c])
  IN  /\ c = "L1D" /\ WQ[c] # << >>
      /\ hit_ways(c, p) = {}
      /\ check_mshr(MSHR[c], p.addr) # {}
      /\ merge_miss(c, p)
      /\ WQ' = [WQ EXCEPT ![c] = Tail(@)]
      /\ UNCHANGED <<arrays, RQ, PQ, CQ, PROCESSED, below, issued, answered>>

(* Any other cache allocates the written line at once, if its victim may leave. *)
WriteFill(c) ==
  LET p      == Head(WQ[c])
      set    == get_set(p.addr, NumSet[c])
      way    == lru_victim(block[c][set], NumWay[c])
      victim == block[c][set][way]
  IN  /\ c # "L1D" /\ WQ[c] # << >>
      /\ hit_ways(c, p) = {}
      /\ victim.dirty => writeback_room(c)
      /\ WQ' = wq_after_evict([WQ EXCEPT ![c] = Tail(@)], c, victim, p.id)
      /\ block' = [block EXCEPT ![c][set] =
                     fill_cache(lru_update(@, way), way, p.addr, p.id, TRUE)]
      /\ MSHR' = return_data(MSHR, uppers(c, p), p.addr)
      /\ UNCHANGED <<spec_block, RQ, PQ, CQ, PROCESSED, below, issued, answered>>

handle_writeback(c) == WriteHit(c) \/ StoreMiss(c) \/ StoreMerge(c) \/ WriteFill(c)

-------------------------------------------------------------------------------
(* commit_blocks: the first pending commit of c moves its speculative      *)
(* block into the normal array, over the LRU victim, and invalidates it.   *)
(* A dirty victim is overwritten and the LRU order is left alone.          *)
commit_blocks(c) ==
  LET p     == Head(CQ[c])
      low   == lower_level(c)
      spec  == get_set(p.addr, NumSetSpec[c])
      way   == First(spec_hit_ways(c, p))
      from  == spec_block[c][spec][way]
      set   == get_set(p.addr, NumSet[c])
      to    == lru_victim(block[c][set], NumWay[c])
      rest  == [CQ EXCEPT ![c] = Tail(@)]
  IN  /\ CQ[c] # << >>
      /\ IF spec_hit_ways(c, p) = {} THEN UNCHANGED arrays
         ELSE /\ block' = [block EXCEPT ![c][set] =
                             fill_cache(@, to, from.tag, from.id, FALSE)]
              /\ spec_block' = [spec_block EXCEPT ![c][spec][way].valid = FALSE]
      /\ CQ' = IF low \in Caches THEN cq_after_add(rest, low, p) ELSE rest
      /\ UNCHANGED <<RQ, WQ, PQ, MSHR, PROCESSED, below, issued, answered>>

-------------------------------------------------------------------------------
(* handle_prefetch, one iteration; only the normal array is looked up *)

PrefetchHit(c) ==
  LET p   == Head(PQ[c])
      set == get_set(p.addr, NumSet[c])
  IN  /\ PQ[c] # << >>
      /\ hit_ways(c, p) # {}
      /\ block' = [block EXCEPT ![c][set] = touch(@, First(hit_ways(c, p)), p)]
      /\ MSHR' = return_data(MSHR, uppers(c, p), p.addr)
      /\ PQ' = [PQ EXCEPT ![c] = Tail(@)]
      /\ UNCHANGED <<spec_block, RQ, WQ, CQ, PROCESSED, below, issued, answered>>

(* The miss is tracked here only if the line is to be filled here, and is  *)
(* passed on to the lower level's PQ, which must have room.                *)
PrefetchMiss(c) ==
  LET p         == Head(PQ[c])
      low       == lower_level(c)
      rest      == [PQ EXCEPT ![c] = Tail(@)]
      allocated == IF p.lvl <= level(c)
                   THEN [MSHR EXCEPT ![c] = add_mshr(@, p, "INFLIGHT")] ELSE MSHR
  IN  /\ PQ[c] # << >>
      /\ hit_ways(c, p) = {}
      /\ check_mshr(MSHR[c], p.addr) = {} /\ free_slots(MSHR[c]) # {}
      /\ IF low \in Caches
         THEN /\ Len(PQ[low]) # PqSize[low]
              /\ PQ' = pq_after_add(rest, low, p)
              /\ MSHR' = IF rq_forward(low, p)
                         THEN return_data(allocated, uppers(low, p), p.addr)
                         ELSE allocated
              /\ UNCHANGED below
         ELSE /\ PQ' = rest
              /\ MSHR' = allocated
              /\ below' = IF p.lvl <= level(c) THEN below \cup {<<c, p.addr>>} ELSE below
      /\ UNCHANGED <<arrays, RQ, WQ, CQ, PROCESSED, issued, answered>>

PrefetchMerge(c) ==
  LET p == Head(PQ[c])
  IN  /\ PQ[c] # << >>
      /\ hit_ways(c, p) = {}
      /\ check_mshr(MSHR[c], p.addr) # {}
      /\ MSHR' = [MSHR EXCEPT ![c][First(check_mshr(MSHR[c], p.addr))] =
                                merge_prefetch(@, p)]
      /\ PQ' = [PQ EXCEPT ![c] = Tail(@)]
      /\ UNCHANGED <<arrays, RQ, WQ, CQ, PROCESSED, below, issued, answered>>

handle_prefetch(c) == PrefetchHit(c) \/ PrefetchMiss(c) \/ PrefetchMerge(c)

-------------------------------------------------------------------------------
(* The core, the prefetchers, the page table and the external lower level.  *)
(* The core chooses addresses and instruction numbers freely, which allows  *)
(* more than any trace does.                                                *)

(* Instruction fetches are speculative, loads and translations are not. *)
read_packet(c, a, o, id) ==
  [addr |-> a, off |-> o, id |-> id, spec |-> c = "L1I", type |-> "LOAD", lvl |-> 1,
   fi |-> c \in {"L1I", "ITLB"}, fd |-> c \in {"L1D", "DTLB"}]

(* A refused read (RQ full) is tried again by the core in a later cycle. *)
CpuRead(c, a, o, id) ==
  LET p == read_packet(c, a, o, id)
  IN  /\ "read" \in Kinds /\ c \in CoreFacing /\ issued < MaxRequests
      /\ rq_forward(c, p) \/ rq_duplicate(c, p) # {} \/ Len(RQ[c]) < RqSize[c]
      /\ RQ' = rq_after_add(RQ, c, p)
      /\ PROCESSED' = IF rq_forward(c, p) THEN processed_after(c, p) ELSE PROCESSED
      /\ issued' = issued + 1
      /\ UNCHANGED <<arrays, WQ, PQ, CQ, MSHR, below, answered>>

(* A retiring store enters the L1D's write queue. *)
CpuStore(a, o, id) ==
  /\ "store" \in Kinds /\ "L1D" \in Caches /\ issued < MaxRequests
  /\ Len(WQ["L1D"]) < WqSize["L1D"]
  /\ WQ' = wq_after_add(WQ, "L1D", [read_packet("L1D", a, o, id) EXCEPT !.type = "RFO"])
  /\ answered' = answered \cup {<<"L1D", a>>}
  /\ issued' = issued + 1
  /\ UNCHANGED <<arrays, RQ, PQ, CQ, MSHR, PROCESSED, below>>

commit_packet(c, a, o, id) ==
  [read_packet(c, a, o, id) EXCEPT !.type = "COMMIT_LOAD", !.spec = TRUE,
                                   !.fi = FALSE, !.fd = FALSE]

(* A retiring instruction commits the lines and pages it used: they were    *)
(* answered, or it stored to them, or an older store forwarded to it.       *)
CpuCommit(c, a, o, id) ==
  /\ "commit" \in Kinds /\ c \in CoreFacing /\ issued < MaxRequests
  /\ <<c, a>> \in answered
  /\ Len(CQ[c]) < CqSize[c]
  /\ CQ' = cq_after_add(CQ, c, commit_packet(c, a, o, id))
  /\ issued' = issued + 1
  /\ UNCHANGED <<arrays, RQ, WQ, PQ, MSHR, PROCESSED, below, answered>>

(* prefetch_line and prefetch_code_line; which line is asked for, and when, *)
(* is the prefetcher's choice.                                              *)
IssuePrefetch(c, a, lvl) ==
  LET p == [addr |-> a, off |-> 0, id |-> 0, spec |-> FALSE, type |-> "PREFETCH",
            lvl |-> lvl, fi |-> c = "L1I", fd |-> c # "L1I" /\ lvl = 1]
  IN  /\ c \in Prefetchers /\ issued < MaxRequests
      /\ lvl >= level(c) /\ (c = "L1I" => lvl = 1)
      /\ Len(PQ[c]) < PqSize[c]
      /\ PQ' = pq_after_add(PQ, c, p)
      /\ issued' = issued + 1
      /\ UNCHANGED <<arrays, RQ, WQ, CQ, MSHR, PROCESSED, below, answered>>

invalidate_entry(set, addr) ==
  LET ways == {w \in DOMAIN set : set[w].valid /\ set[w].tag = addr}
  IN  IF ways = {} THEN set ELSE [set EXCEPT ![First(ways)].valid = FALSE]

(* A page swap invalidates the page's lines in every normal array. *)
SwapOut(a) ==
  /\ "swap" \in Kinds /\ issued < MaxRequests
  /\ block' = [c \in Caches |-> [block[c] EXCEPT ![get_set(a, NumSet[c])] =
                                   invalidate_entry(@, a)]]
  /\ issued' = issued + 1
  /\ UNCHANGED <<spec_block, RQ, WQ, PQ, CQ, MSHR, PROCESSED, below, answered>>

(* The core consumes an answer. *)
UpdateRob(c) ==
  /\ PROCESSED[c] # << >>
  /\ PROCESSED' = [PROCESSED EXCEPT ![c] = Tail(@)]
  /\ answered' = answered \cup {<<c, Head(PROCESSED[c])>>}
  /\ UNCHANGED <<arrays, RQ, WQ, PQ, CQ, MSHR, below, issued>>

(* The external lower level answers one request it owes. *)
BelowReturn(c, a) ==
  /\ <<c, a>> \in below
  /\ below' = below \ {<<c, a>>}
  /\ MSHR' = return_data(MSHR, {c}, a)
  /\ UNCHANGED <<arrays, RQ, WQ, PQ, CQ, PROCESSED, issued, answered>>

-------------------------------------------------------------------------------
Init ==
  /\ block = [c \in Caches |-> [s \in 0 .. NumSet[c]-1 |-> [w \in 0 .. NumWay[c]-1 |->
                [valid |-> FALSE, dirty |-> FALSE, tag |-> 0, id |-> 0, lru |-> w]]]]
  /\ spec_block = [c \in Caches |-> [s \in 0 .. NumSetSpec[c]-1 |->
                     [w \in 0 .. NumWaySpec[c]-1 |->
                        [valid |-> FALSE, tag |-> 0, id |-> 0]]]]
  /\ RQ = [c \in Caches |-> << >>]
  /\ WQ = [c \in Caches |-> << >>]
  /\ PQ = [c \in Caches |-> << >>]
  /\ CQ = [c \in Caches |-> << >>]
  /\ MSHR = [c \in Caches |-> [s \in Slots(c) |-> FreeEntry]]
  /\ PROCESSED = [c \in Caches |-> << >>]
  /\ below = {}
  /\ answered = {}
  /\ issued = 0

(* operate, and O3_CPU::update_rob. *)
operate(c) ==
  \/ handle_fill(c)
  \/ handle_writeback(c)
  \/ handle_read(c)
  \/ commit_blocks(c)
  \/ handle_prefetch(c)
  \/ UpdateRob(c)
  \/ \E a \in Addr : BelowReturn(c, a)

Core ==
  \/ \E c \in Caches : \E a \in CoreAddr[c], o \in Offsets, id \in 1 .. MaxId :
       CpuRead(c, a, o, id) \/ CpuCommit(c, a, o, id)
  \/ \E a \in CoreAddr["L1D"], o \in Offsets, id \in 1 .. MaxId : CpuStore(a, o, id)
  \/ \E c \in Caches, a \in Addr, lvl \in {1, 2, 4} : IssuePrefetch(c, a, lvl)
  \/ \E a \in Addr : SwapOut(a)

Next == Core \/ \E c \in Caches : operate(c)

Spec == Init /\ [][Next]_vars

(* The simulator calls operate of every cache, and update_rob, every cycle. *)
Fairness ==
  \A c \in Caches :
    /\ WF_vars(handle_fill(c)) /\ WF_vars(handle_writeback(c)) /\ WF_vars(handle_read(c))
    /\ WF_vars(commit_blocks(c)) /\ WF_vars(handle_prefetch(c)) /\ WF_vars(UpdateRob(c))
    /\ \A a \in Addr : WF_vars(BelowReturn(c, a))

FairSpec == Spec /\ Fairness

-------------------------------------------------------------------------------
(* Properties *)

(* Every variable has its type: arrays of the configured shape, queues of   *)
(* packets, MSHR slots that are free or hold a request.                     *)
TypeOK ==
  /\ DOMAIN block = Caches /\ DOMAIN spec_block = Caches /\ DOMAIN MSHR = Caches
  /\ RQ \in [Caches -> Seq(Packet)] /\ WQ \in [Caches -> Seq(Packet)]
  /\ PQ \in [Caches -> Seq(Packet)] /\ CQ \in [Caches -> Seq(Packet)]
  /\ PROCESSED \in [Caches -> Seq(Addr)]
  /\ \A c \in Caches :
       /\ block[c] \in [0 .. NumSet[c]-1 -> [0 .. NumWay[c]-1 -> Block]]
       /\ spec_block[c] \in [0 .. NumSetSpec[c]-1 -> [0 .. NumWaySpec[c]-1 -> SpecBlock]]
       /\ MSHR[c] \in [Slots(c) -> Entry \cup {FreeEntry}]
  /\ below \subseteq Caches \X Addr
  /\ answered \subseteq Caches \X Addr
  /\ issued \in 0 .. MaxRequests

(* A cache never tracks the same line in two MSHRs: reads, stores and       *)
(* prefetches that miss on a line in flight are merged (check_mshr), so a   *)
(* return completes the only entry there is.                                *)
MshrUnique ==
  \A c \in Caches : \A s, t \in Slots(c) :
     MSHR[c][s].addr # 0 /\ MSHR[c][s].addr = MSHR[c][t].addr => s = t

(* low holds a request for line a that it will return to its upper cache u. *)
Holds(low, u, a) ==
  \/ \E i \in DOMAIN RQ[low] : RQ[low][i].addr = a /\ u \in uppers(low, RQ[low][i])
  \/ \E i \in DOMAIN PQ[low] : PQ[low][i].addr = a /\ u \in uppers(low, PQ[low][i])
  \/ \E s \in Slots(low) : MSHR[low][s].addr = a /\ u \in uppers(low, MSHR[low][s])

Owed(u, a) ==
  IF lower_level(u) \in Caches THEN Holds(lower_level(u), u, a) ELSE <<u, a>> \in below

(* return_data asserts "cannot find a matching entry!": whatever a level    *)
(* below still holds for an upper cache, that cache waits for, with an MSHR *)
(* entry that has not been answered.                                        *)
ReturnsAreExpected ==
  \A u \in Caches, a \in Addr :
     Owed(u, a) => \E s \in Slots(u) : MSHR[u][s].addr = a /\ MSHR[u][s].ret = "INFLIGHT"

(* No request is lost on its way down: for every unanswered MSHR entry the  *)
(* level below holds a request that returns to this cache.  The code        *)
(* ignores the result of the lower level's add_rq and add_pq, and merges    *)
(* requests of the two upper caches, so this rests on the queue sizes and   *)
(* on the merged fill flags.                                                *)
NoLostWaiter ==
  \A u \in Caches : \A s \in Slots(u) :
     MSHR[u][s].ret = "INFLIGHT" => Owed(u, MSHR[u][s].addr)

(* The LRU positions of every set are a permutation of the ways, so a full  *)
(* set always has a victim: lru_victim's assertion "no victim!" cannot fail. *)
LruPermutation ==
  \A c \in Caches : \A s \in 0 .. NumSet[c]-1 : \A p \in 0 .. NumWay[c]-1 :
     \E w \in 0 .. NumWay[c]-1 : block[c][s][w].lru = p

(* add_wq asserts that the write queue is not full: every writer looks at   *)
(* the occupancy before it adds.                                            *)
WriteQueueRoom == \A c \in Caches : Len(WQ[c]) <= WqSize[c]

(* A speculative block leaves the speculative array only when an older      *)
(* instruction takes its way, or when the commit of its own or a younger    *)
(* instruction on the same line moves it out.                               *)
KeepsOlder ==
  \A c \in Caches : \A s \in 0 .. NumSetSpec[c]-1 : \A w \in 0 .. NumWaySpec[c]-1 :
    LET old == spec_block[c][s][w]
        new == spec_block'[c][s][w]
    IN  old.valid /\ new # old =>
          \/ new.valid /\ new.id < old.id
          \/ /\ ~new.valid /\ CQ[c] # << >>
             /\ Head(CQ[c]).addr = old.tag /\ Head(CQ[c]).id >= old.id
TimestampOrder == [][KeepsOlder]_vars

(* Speculation is isolated (without prefetchers): a line enters a normal    *)
(* array only by a commit, by a writeback from above, or because a          *)
(* non-speculative requester, here the data side, is waiting for it;        *)
(* merging an instruction fetch into any queue or MSHR never does it.       *)
Enters(c, s, w) == LET new == block'[c][s][w]
                   IN  new.valid /\ (~block[c][s][w].valid \/ block[c][s][w].tag # new.tag)

EntersNormally ==
  \A c \in {"L1I", "L2C"} \cap Caches :
    \A s \in 0 .. NumSet[c]-1 : \A w \in 0 .. NumWay[c]-1 :
      Enters(c, s, w) =>
        LET a == block'[c][s][w].tag
        IN  \/ CQ[c] # << >> /\ Head(CQ[c]).addr = a
            \/ WQ[c] # << >> /\ Head(WQ[c]).addr = a
            \/ /\ c = "L2C" /\ "L1D" \in Caches
               /\ \E t \in Slots("L1D") :
                    MSHR["L1D"][t].addr = a /\ MSHR["L1D"][t].ret = "INFLIGHT"
SpeculationIsolated == [][EntersNormally]_vars

(* A dirty line that is evicted is in the lower level's write queue after   *)
(* the step that evicts it: "lower level WQ is full, cannot replace this    *)
(* victim" (handle_fill, handle_writeback).                                 *)
LeavesWritten ==
  \A c \in Caches : \A s \in 0 .. NumSet[c]-1 : \A w \in 0 .. NumWay[c]-1 :
    LET old == block[c][s][w]
        low == lower_level(c)
    IN  old.dirty /\ block'[c][s][w].tag # old.tag /\ low \in Caches
          => \E i \in DOMAIN WQ'[low] : WQ'[low][i].addr = old.tag
DirtyVictimWritten == [][LeavesWritten]_vars

(* commit_blocks asserts that the lower level's commit queue has room for   *)
(* the commit it forwards ("If assert fails then need to handle this case."). *)
CommitForwarded ==
  \A c \in Caches :
     CQ[c] # << >> /\ lower_level(c) \in Caches
       => Len(CQ[lower_level(c)]) < CqSize[lower_level(c)]

(* Once the core stops sending, every queue and every MSHR drains.          *)
Idle ==
  /\ \A c \in Caches : RQ[c] = << >> /\ WQ[c] = << >> /\ PQ[c] = << >> /\ CQ[c] = << >>
  /\ \A c \in Caches : free_slots(MSHR[c]) = Slots(c)
Drains == <>[]Idle

(* Every read that the core queues is answered through PROCESSED.           *)
ReadAnswered ==
  \A c \in CoreFacing \cap Caches : \A a \in CoreAddr[c] :
     (\E i \in DOMAIN RQ[c] : RQ[c][i].addr = a)
       ~> (\E i \in DOMAIN PROCESSED[c] : PROCESSED[c][i] = a)

===============================================================================
