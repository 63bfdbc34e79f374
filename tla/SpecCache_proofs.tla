--------------------------- MODULE SpecCache_proofs ---------------------------
(***************************************************************************)
(* The type invariant of SpecCache is not inductive alone.  A fill indexes *)
(* the array with lru_victim's answer, which is a way only if the LRU      *)
(* order is complete; a dirty victim is written back under its tag, which  *)
(* is an address only if the block was filled.  IInv adds both, and the    *)
(* two invariants that the same facts give: one MSHR per line, and room in *)
(* the write queues.                                                       *)
(***************************************************************************)
EXTENDS SpecCache, Scan_proofs, SequenceTheorems

-------------------------------------------------------------------------------
(* The replacement policies always find what they promise: for any number  *)
(* of ways the LRU order stays complete, so a full set has a victim, and   *)
(* the timestamp policy never picks an older instruction's block.          *)

Way(n) == 0 .. n-1

(* Every LRU position is taken by some way. *)
LruComplete(set, n) == \A p \in Way(n) : \E w \in Way(n) : set[w].lru = p

(* A set of blocks of the normal array with tags in T. *)
Sets(n, T) ==
  [Way(n) -> [valid : BOOLEAN, dirty : BOOLEAN, tag : T, id : Nat, lru : Nat]]

(* lru_victim's assertion "no victim!" cannot fail while the order is complete. *)
THEOREM VictimExists ==
  ASSUME NEW n \in Nat \ {0}, NEW set, LruComplete(set, n)
  PROVE  lru_victim(set, n) \in Way(n)
<1> DEFINE oldest == {w \in 0 .. n-1 : set[w].lru = n-1}
<1>1. Invalid(set, n) \in SUBSET Nat /\ oldest \in SUBSET Nat
  BY DEF Invalid
<1>2. oldest # {}
  BY DEF LruComplete, Way
<1>3. First(oldest) \in oldest
  BY <1>1, <1>2, FirstIsLeast
<1>4. Invalid(set, n) # {} => First(Invalid(set, n)) \in Invalid(set, n)
  BY <1>1, FirstIsLeast
<1> QED
  BY <1>2, <1>3, <1>4 DEF lru_victim, Invalid, Way

(* lru_update keeps the shape of the set and changes nothing but positions. *)
LEMMA UpdateType ==
  ASSUME NEW n \in Nat, NEW T, NEW set \in Sets(n, T), NEW way \in Way(n)
  PROVE  /\ lru_update(set, way) \in Sets(n, T)
         /\ \A w \in Way(n) : /\ lru_update(set, way)[w].dirty = set[w].dirty
                              /\ lru_update(set, way)[w].valid = set[w].valid
                              /\ lru_update(set, way)[w].tag = set[w].tag
                              /\ lru_update(set, way)[w].id = set[w].id
BY DEF lru_update, Sets, Way

(* lru_update moves one way to position 0 and ages the ways before it: the  *)
(* order stays complete.                                                    *)
THEOREM UpdateKeepsOrder ==
  ASSUME NEW n \in Nat, NEW T, NEW set \in Sets(n, T), NEW way \in Way(n),
         LruComplete(set, n)
  PROVE  LruComplete(lru_update(set, way), n)
<1> DEFINE new == lru_update(set, way)
           L   == set[way].lru
<1>1. /\ L \in Nat
      /\ new[way].lru = 0
      /\ \A w \in Way(n) : w # way /\ set[w].lru < L => new[w].lru = set[w].lru + 1
      /\ \A w \in Way(n) : w # way /\ ~(set[w].lru < L) => new[w].lru = set[w].lru
  BY DEF lru_update, Sets, Way
<1> SUFFICES ASSUME NEW p \in Way(n)
             PROVE  \E w \in Way(n) : new[w].lru = p
  BY DEF LruComplete
<1>2. CASE p = 0
  BY <1>1, <1>2
<1>3. CASE p # 0 /\ p <= L
  <2>1. p - 1 \in Way(n) /\ p - 1 < L
    BY <1>1, <1>3 DEF Way
  <2>2. PICK w \in Way(n) : set[w].lru = p - 1
    BY <2>1 DEF LruComplete
  <2> QED
    BY <1>1, <1>3, <2>1, <2>2 DEF Way
<1>4. CASE ~(p <= L)
  <2>1. PICK w \in Way(n) : set[w].lru = p
    BY DEF LruComplete
  <2> QED
    BY <1>1, <1>4, <2>1 DEF Way
<1> QED
  BY <1>2, <1>3, <1>4

(* A speculative fill takes an invalid way or a younger instruction's way;  *)
(* otherwise it is told to wait (n).                                        *)
THEOREM TimestampVictim ==
  ASSUME NEW n \in Nat, NEW set, NEW id \in Nat, timestamp_victim(set, n, id) # n
  PROVE  /\ timestamp_victim(set, n, id) \in Way(n)
         /\ \/ ~set[timestamp_victim(set, n, id)].valid
            \/ set[timestamp_victim(set, n, id)].id > id
<1> DEFINE younger == {w \in 0 .. n-1 : set[w].id > id}
<1>1. Invalid(set, n) \in SUBSET Nat /\ younger \in SUBSET Nat
  BY DEF Invalid
<1>2. Invalid(set, n) # {} => First(Invalid(set, n)) \in Invalid(set, n)
  BY <1>1, FirstIsLeast
<1>3. younger # {} => First(younger) \in younger
  BY <1>1, FirstIsLeast
<1> QED
  BY <1>2, <1>3 DEF timestamp_victim, Invalid, Way

-------------------------------------------------------------------------------
(* The invariant, one part per group of variables, as predicates on values  *)
(* so that they can be applied to the primed variables too.                 *)

SetOK(set, n) ==
  /\ set \in Sets(n, Addr \cup {0})
  /\ LruComplete(set, n)
  /\ \A w \in Way(n) : set[w].dirty => set[w].tag \in Addr

BlocksOK(b) ==
  /\ DOMAIN b = Caches
  /\ \A c \in Caches :
       /\ b[c] \in [0 .. NumSet[c]-1 -> Sets(NumWay[c], Addr \cup {0})]
       /\ \A s \in 0 .. NumSet[c]-1 : SetOK(b[c][s], NumWay[c])

SpecBlocksOK(b) ==
  /\ DOMAIN b = Caches
  /\ \A c \in Caches : b[c] \in [0 .. NumSetSpec[c]-1 -> [Way(NumWaySpec[c]) -> SpecBlock]]

QueuesOK(q) == q \in [Caches -> Seq(Packet)]

Unique(m) == \A s, t \in DOMAIN m : m[s].addr # 0 /\ m[s].addr = m[t].addr => s = t

Table(n) == [1 .. n -> Entry \cup {FreeEntry}]

MshrOK(ms) ==
  /\ DOMAIN ms = Caches
  /\ \A c \in Caches : ms[c] \in Table(MshrSize[c]) /\ Unique(ms[c])

RoomOK(q) == \A c \in Caches : Len(q[c]) <= WqSize[c]

IInv ==
  /\ BlocksOK(block) /\ SpecBlocksOK(spec_block)
  /\ QueuesOK(RQ) /\ QueuesOK(WQ) /\ RoomOK(WQ) /\ QueuesOK(PQ) /\ QueuesOK(CQ)
  /\ MshrOK(MSHR)
  /\ PROCESSED \in [Caches -> Seq(Addr)]
  /\ below \subseteq Caches \X Addr
  /\ answered \subseteq Caches \X Addr
  /\ issued \in 0 .. MaxRequests

-------------------------------------------------------------------------------
(* Constants and topology *)

LEMMA Shape ==
  ASSUME NEW c \in Caches
  PROVE  /\ NumSet[c] \in Nat \ {0} /\ NumWay[c] \in Nat \ {0}
         /\ NumSetSpec[c] \in Nat /\ NumWaySpec[c] \in Nat \ {0}
         /\ MshrSize[c] \in Nat \ {0} /\ WqSize[c] \in Nat
BY ShapeAssumption

LEMMA LowerIsOther == ASSUME NEW c \in Caches PROVE lower_level(c) # c
BY CachesAssumption DEF CacheNames, lower_level

LEMMA LevelType == ASSUME NEW c \in Caches PROVE level(c) \in {1, 2, 4}
BY DEF level

LEMMA SetInRange ==
  ASSUME NEW a \in Addr, NEW n \in Nat \ {0}
  PROVE  get_set(a, n) \in 0 .. n-1
BY AddrAssumption DEF get_set

-------------------------------------------------------------------------------
(* Sets of the normal array *)

LEMMA UpdateOK ==
  ASSUME NEW n \in Nat \ {0}, NEW set, SetOK(set, n), NEW way \in Way(n)
  PROVE  SetOK(lru_update(set, way), n)
<1>1. lru_update(set, way) \in Sets(n, Addr \cup {0})
  BY UpdateType DEF SetOK
<1>2. LruComplete(lru_update(set, way), n)
  BY UpdateKeepsOrder DEF SetOK
<1>3. \A w \in Way(n) : /\ lru_update(set, way)[w].dirty = set[w].dirty
                        /\ lru_update(set, way)[w].tag = set[w].tag
  BY UpdateType DEF SetOK
<1> QED
  BY <1>1, <1>2, <1>3 DEF SetOK

LEMMA FillOK ==
  ASSUME NEW n \in Nat \ {0}, NEW set, SetOK(set, n), NEW way \in Way(n),
         NEW a \in Addr, NEW id \in Nat, NEW d \in BOOLEAN
  PROVE  SetOK(fill_cache(set, way, a, id, d), n)
<1> DEFINE new == fill_cache(set, way, a, id, d)
<1>1. new \in Sets(n, Addr \cup {0})
  BY DEF SetOK, Sets, fill_cache, Way
<1>2. \A w \in Way(n) : new[w].lru = set[w].lru
  BY DEF SetOK, Sets, fill_cache, Way
<1>3. LruComplete(new, n)
  BY <1>2 DEF SetOK, LruComplete
<1>4. \A w \in Way(n) : new[w].dirty => new[w].tag \in Addr
  BY DEF SetOK, Sets, fill_cache, Way
<1> QED
  BY <1>1, <1>3, <1>4 DEF SetOK

LEMMA DirtyOK ==
  ASSUME NEW n \in Nat \ {0}, NEW set, SetOK(set, n), NEW way \in Way(n),
         set[way].tag \in Addr
  PROVE  SetOK([set EXCEPT ![way].dirty = TRUE], n)
<1> DEFINE new == [set EXCEPT ![way].dirty = TRUE]
<1>1. new \in Sets(n, Addr \cup {0})
  BY DEF SetOK, Sets, Way
<1>2. \A w \in Way(n) : new[w].lru = set[w].lru /\ new[w].tag = set[w].tag
  BY DEF SetOK, Sets, Way
<1>3. LruComplete(new, n)
  BY <1>2 DEF SetOK, LruComplete
<1>4. \A w \in Way(n) : w # way => new[w] = set[w]
  BY DEF SetOK, Sets, Way
<1> QED
  BY <1>1, <1>2, <1>3, <1>4 DEF SetOK

LEMMA TouchOK ==
  ASSUME NEW n \in Nat \ {0}, NEW set, SetOK(set, n), NEW way \in Way(n), NEW p
  PROVE  /\ SetOK(touch(set, way, p), n)
         /\ touch(set, way, p)[way].tag = set[way].tag
<1>1. SetOK(lru_update(set, way), n)
  BY UpdateOK
<1>2. lru_update(set, way)[way].tag = set[way].tag
  BY UpdateType DEF SetOK
<1> QED
  BY Zenon, <1>1, <1>2 DEF touch

LEMMA InvalidateOK ==
  ASSUME NEW n \in Nat \ {0}, NEW set, SetOK(set, n), NEW a
  PROVE  SetOK(invalidate_entry(set, a), n)
<1> DEFINE ways == {w \in DOMAIN set : set[w].valid /\ set[w].tag = a}
           new  == [set EXCEPT ![First(ways)].valid = FALSE]
<1>1. CASE ways = {}
  BY <1>1 DEF invalidate_entry
<1>2. CASE ways # {}
  <2>1. ways \in SUBSET Nat /\ ways \subseteq Way(n)
    BY DEF SetOK, Sets, Way
  <2>2. First(ways) \in Way(n)
    BY <1>2, <2>1, FirstIsLeast
  <2>3. new \in Sets(n, Addr \cup {0})
    BY <2>2 DEF SetOK, Sets, Way
  <2>4. \A w \in Way(n) : /\ new[w].lru = set[w].lru /\ new[w].tag = set[w].tag
                          /\ new[w].dirty = set[w].dirty
    BY <2>2 DEF SetOK, Sets, Way
  <2>5. LruComplete(new, n)
    BY <2>4 DEF SetOK, LruComplete
  <2>6. SetOK(new, n)
    BY <2>3, <2>4, <2>5 DEF SetOK
  <2> QED
    BY <1>2, <2>6 DEF invalidate_entry
<1> QED
  BY <1>1, <1>2

-------------------------------------------------------------------------------
(* Arrays *)

LEMMA BlocksExcept ==
  ASSUME NEW b, BlocksOK(b), NEW c \in Caches, NEW s \in 0 .. NumSet[c]-1,
         NEW set, SetOK(set, NumWay[c])
  PROVE  BlocksOK([b EXCEPT ![c][s] = set])
<1> DEFINE new == [b EXCEPT ![c][s] = set]
<1>1. DOMAIN new = Caches
  BY DEF BlocksOK
<1>2. new[c] = [b[c] EXCEPT ![s] = set]
  BY DEF BlocksOK
<1>3. \A d \in Caches : d # c => new[d] = b[d]
  BY DEF BlocksOK
<1>4. /\ new[c] \in [0 .. NumSet[c]-1 -> Sets(NumWay[c], Addr \cup {0})]
      /\ \A t \in 0 .. NumSet[c]-1 : SetOK(new[c][t], NumWay[c])
  BY <1>2 DEF BlocksOK, SetOK
<1> QED
  BY <1>1, <1>3, <1>4 DEF BlocksOK

(* The set and the victim that a fill of address a at c works on. *)
LEMMA VictimOK ==
  ASSUME BlocksOK(block), NEW c \in Caches, NEW a \in Addr
  PROVE  /\ get_set(a, NumSet[c]) \in 0 .. NumSet[c]-1
         /\ SetOK(block[c][get_set(a, NumSet[c])], NumWay[c])
         /\ lru_victim(block[c][get_set(a, NumSet[c])], NumWay[c]) \in Way(NumWay[c])
<1>1. get_set(a, NumSet[c]) \in 0 .. NumSet[c]-1
  BY Shape, SetInRange
<1>2. SetOK(block[c][get_set(a, NumSet[c])], NumWay[c])
  BY <1>1 DEF BlocksOK
<1> QED
  BY <1>1, <1>2, Shape, VictimExists DEF SetOK

(* A hit in the normal array is a way of the set that holds the address. *)
LEMMA HitOK ==
  ASSUME BlocksOK(block), NEW c \in Caches, NEW p \in Packet, hit_ways(c, p) # {}
  PROVE  /\ First(hit_ways(c, p)) \in Way(NumWay[c])
         /\ block[c][get_set(p.addr, NumSet[c])][First(hit_ways(c, p))].tag = p.addr
<1>1. p.addr \in Addr
  BY DEF Packet
<1>2. SetOK(block[c][get_set(p.addr, NumSet[c])], NumWay[c])
  BY <1>1, VictimOK
<1>3. DOMAIN block[c][get_set(p.addr, NumSet[c])] = Way(NumWay[c])
  BY <1>2 DEF SetOK, Sets
<1>4. hit_ways(c, p) \in SUBSET Nat
  BY <1>3, Shape DEF hit_ways, Way
<1>5. First(hit_ways(c, p)) \in hit_ways(c, p)
  BY <1>4, FirstIsLeast
<1> QED
  BY Zenon, <1>3, <1>5 DEF hit_ways

LEMMA SpecExcept ==
  ASSUME NEW b, SpecBlocksOK(b), NEW c \in Caches, NEW s \in 0 .. NumSetSpec[c]-1,
         NEW set \in [Way(NumWaySpec[c]) -> SpecBlock]
  PROVE  SpecBlocksOK([b EXCEPT ![c][s] = set])
BY DEF SpecBlocksOK

(***************************************************************************)
(* Invalidating one way of a speculative set leaves a speculative set.     *)
(***************************************************************************)
LEMMA SpecInvalidate ==
  ASSUME NEW W, NEW w \in W, NEW set \in [W -> SpecBlock]
  PROVE  [set EXCEPT ![w].valid = FALSE] \in [W -> SpecBlock]
<1>1. set[w] \in SpecBlock
  OBVIOUS
<1>2. [set[w] EXCEPT !.valid = FALSE] \in SpecBlock
  BY <1>1 DEF SpecBlock
<1> QED
  BY <1>2

LEMMA SpecHitOK ==
  ASSUME SpecBlocksOK(spec_block), NEW c \in Caches, NEW p \in Packet,
         spec_hit_ways(c, p) # {}
  PROVE  LET s == get_set(p.addr, NumSetSpec[c])
             w == First(spec_hit_ways(c, p))
         IN  /\ s \in 0 .. NumSetSpec[c]-1
             /\ w \in Way(NumWaySpec[c])
             /\ spec_block[c][s][w].tag = p.addr
             /\ spec_block[c][s][w].id \in Nat
             /\ spec_block[c][s][w].id <= p.id
             /\ spec_block[c][s][w].valid
<1> DEFINE s == get_set(p.addr, NumSetSpec[c])
           w == First(spec_hit_ways(c, p))
<1>1. NumSetSpec[c] \in Nat \ {0} /\ p.addr \in Addr
  BY Shape DEF spec_hit_ways, Packet
<1>2. s \in 0 .. NumSetSpec[c]-1
  BY <1>1, SetInRange
<1>3. spec_block[c][s] \in [Way(NumWaySpec[c]) -> SpecBlock]
  BY <1>2 DEF SpecBlocksOK
<1>4. spec_hit_ways(c, p) = {v \in Way(NumWaySpec[c]) :
          /\ spec_block[c][s][v].valid /\ spec_block[c][s][v].tag = p.addr
          /\ spec_block[c][s][v].id <= p.id}
  BY <1>1, <1>3 DEF spec_hit_ways
<1>5. spec_hit_ways(c, p) \in SUBSET Nat
  BY <1>4, Shape DEF Way
<1>6. w \in spec_hit_ways(c, p)
  BY <1>5, FirstIsLeast
<1> QED
  BY Zenon, <1>2, <1>3, <1>4, <1>6 DEF SpecBlock

-------------------------------------------------------------------------------
(* Queues *)

LEMMA TailOK ==
  ASSUME NEW q, QueuesOK(q), NEW c \in Caches, q[c] # << >>
  PROVE  /\ Head(q[c]) \in Packet
         /\ QueuesOK([q EXCEPT ![c] = Tail(@)])
         /\ Len([q EXCEPT ![c] = Tail(@)][c]) <= Len(q[c])
BY DEF QueuesOK

LEMMA AppendOK ==
  ASSUME NEW q, QueuesOK(q), NEW c \in Caches, NEW p \in Packet
  PROVE  QueuesOK([q EXCEPT ![c] = Append(@, p)])
BY DEF QueuesOK

LEMMA MergedPacket ==
  ASSUME NEW r \in Packet, NEW p \in Packet
  PROVE  merge_flags(r, p) \in Packet /\ merge_prefetch(r, p) \in Packet
<1>1. merge_flags(r, p) \in Packet
  BY DEF merge_flags, Packet
<1> DEFINE m == merge_flags(r, p)
<1> HIDE DEF m
<1>2. [m EXCEPT !.lvl = IF p.lvl < @ THEN p.lvl ELSE @] \in Packet
  BY <1>1 DEF Packet, m
<1> QED
  BY <1>1, <1>2 DEF merge_prefetch, m

(* Replacing one packet of one queue. *)
LEMMA ReplaceOK ==
  ASSUME NEW q, QueuesOK(q), NEW c \in Caches, NEW i \in DOMAIN q[c], NEW r \in Packet
  PROVE  QueuesOK([q EXCEPT ![c][i] = r])
<1>1. q[c] \in Seq(Packet)
  BY DEF QueuesOK
<1>2. [q[c] EXCEPT ![i] = r] \in Seq(Packet)
  BY <1>1, ExceptSeq
<1> QED
  BY <1>2 DEF QueuesOK

(* The oldest of the packets that check_queue finds is one of the queue. *)
LEMMA CheckQueueOK ==
  ASSUME NEW s \in Seq(Packet), NEW p, NEW full, check_queue(s, p, full) # {}
  PROVE  First(check_queue(s, p, full)) \in DOMAIN s
<1>1. check_queue(s, p, full) \in SUBSET Nat
  BY DEF check_queue
<1>2. First(check_queue(s, p, full)) \in check_queue(s, p, full)
  BY <1>1, FirstIsLeast
<1> QED
  BY <1>2 DEF check_queue

LEMMA RqAddOK ==
  ASSUME NEW q, QueuesOK(q), NEW c \in Caches, q[c] = RQ[c], NEW p \in Packet
  PROVE  QueuesOK(rq_after_add(q, c, p))
<1>1. ASSUME rq_duplicate(c, p) # {}
      PROVE  QueuesOK([q EXCEPT ![c][First(rq_duplicate(c, p))] = merge_flags(@, p)])
  <2> DEFINE i == First(rq_duplicate(c, p))
  <2>1. q[c] \in Seq(Packet)
    BY DEF QueuesOK
  <2>2. i \in DOMAIN q[c]
    BY <1>1, <2>1, CheckQueueOK DEF rq_duplicate
  <2> HIDE DEF i
  <2>3. q[c][i] \in Packet
    BY <2>1, <2>2
  <2>4. merge_flags(q[c][i], p) \in Packet
    BY <2>3, MergedPacket
  <2> QED
    BY <2>2, <2>4, ReplaceOK DEF i
<1> QED
  BY <1>1, AppendOK DEF rq_after_add

LEMMA PqAddOK ==
  ASSUME NEW q, QueuesOK(q), NEW c \in Caches, q[c] = PQ[c], NEW p \in Packet
  PROVE  QueuesOK(pq_after_add(q, c, p))
<1>1. ASSUME pq_duplicate(c, p) # {}
      PROVE  QueuesOK([q EXCEPT ![c][First(pq_duplicate(c, p))] = merge_prefetch(@, p)])
  <2> DEFINE i == First(pq_duplicate(c, p))
  <2>1. q[c] \in Seq(Packet)
    BY DEF QueuesOK
  <2>2. i \in DOMAIN q[c]
    BY <1>1, <2>1, CheckQueueOK DEF pq_duplicate
  <2> HIDE DEF i
  <2>3. q[c][i] \in Packet
    BY <2>1, <2>2
  <2>4. merge_prefetch(q[c][i], p) \in Packet
    BY <2>3, MergedPacket
  <2> QED
    BY <2>2, <2>4, ReplaceOK DEF i
<1> QED
  BY <1>1, AppendOK DEF pq_after_add

(* add_wq, on a queue with room. *)
LEMMA WqAddOK ==
  ASSUME NEW q, QueuesOK(q), RoomOK(q), NEW c \in Caches, NEW p \in Packet,
         Len(q[c]) < WqSize[c]
  PROVE  QueuesOK(wq_after_add(q, c, p)) /\ RoomOK(wq_after_add(q, c, p))
<1>1. QueuesOK([q EXCEPT ![c] = Append(@, p)])
  BY AppendOK
<1>2. Len(Append(q[c], p)) = Len(q[c]) + 1 /\ Len(q[c]) \in Nat
  BY DEF QueuesOK
<1>3. RoomOK([q EXCEPT ![c] = Append(@, p)])
  BY <1>2, Shape DEF RoomOK, QueuesOK
<1> QED
  BY <1>1, <1>3 DEF wq_after_add

(* What handle_fill and handle_writeback test of the lower write queue. *)
LEMMA WriteRoom ==
  ASSUME QueuesOK(WQ), RoomOK(WQ), NEW c \in Caches, writeback_room(c),
         lower_level(c) \in Caches
  PROVE  Len(WQ[lower_level(c)]) < WqSize[lower_level(c)]
<1> DEFINE d == lower_level(c)
<1>1. Len(WQ[d]) # WqSize[d]
  BY Zenon DEF writeback_room
<1> HIDE DEF d
<1>2. Len(WQ[d]) \in Nat /\ Len(WQ[d]) <= WqSize[d] /\ WqSize[d] \in Nat
  BY Shape DEF QueuesOK, RoomOK, d
<1> QED
  BY <1>1, <1>2 DEF d

LEMMA CqAddOK ==
  ASSUME NEW q, QueuesOK(q), NEW c \in Caches, NEW p \in Packet
  PROVE  QueuesOK(cq_after_add(q, c, p))
BY AppendOK DEF cq_after_add

(* A dirty victim of c is written to the lower level's queue q, which has   *)
(* room unless it is the queue of another cache that the caller looked at.  *)
LEMMA EvictOK ==
  ASSUME NEW q, QueuesOK(q), RoomOK(q), NEW c \in Caches, NEW n \in Nat \ {0},
         NEW set, SetOK(set, n), NEW way \in Way(n), NEW id \in Nat,
         set[way].dirty /\ lower_level(c) \in Caches
           => Len(q[lower_level(c)]) < WqSize[lower_level(c)]
  PROVE  /\ QueuesOK(wq_after_evict(q, c, set[way], id))
         /\ RoomOK(wq_after_evict(q, c, set[way], id))
<1>1. CASE set[way].dirty /\ lower_level(c) \in Caches
  <2>1. writeback_packet(c, set[way], id) \in Packet
    <3>1. set[way].tag \in Addr /\ 2 * level(c) \in {1, 2, 4, 8} /\ 0 \in Offsets
      BY <1>1, LevelType, AddrAssumption DEF SetOK
    <3> QED
      BY <3>1 DEF writeback_packet, Packet, PacketTypes
  <2> QED
    BY <1>1, <2>1, WqAddOK DEF wq_after_evict
<1>2. CASE ~(set[way].dirty /\ lower_level(c) \in Caches)
  BY <1>2 DEF wq_after_evict
<1> QED
  BY <1>1, <1>2

LEMMA ProcessedOK ==
  ASSUME PROCESSED \in [Caches -> Seq(Addr)], NEW c \in Caches, NEW p, p.addr \in Addr
  PROVE  processed_after(c, p) \in [Caches -> Seq(Addr)]
<1>1. Append(PROCESSED[c], p.addr) \in Seq(Addr)
  OBVIOUS
<1> QED
  BY <1>1 DEF processed_after

-------------------------------------------------------------------------------
(* MSHRs *)

(* What entry() copies: a packet, or an entry that is put back. *)
Request(p) ==
  /\ p.addr \in Addr /\ p.off \in Offsets /\ p.id \in Nat /\ p.spec \in BOOLEAN
  /\ p.type \in PacketTypes /\ p.lvl \in {1, 2, 4, 8} /\ p.fi \in BOOLEAN /\ p.fd \in BOOLEAN

LEMMA EntryOK ==
  ASSUME NEW p, Request(p), NEW r \in {"INFLIGHT", "COMPLETED"}
  PROVE  entry(p, r) \in Entry /\ entry(p, r).addr = p.addr
BY DEF entry, Entry, Request

LEMMA PacketIsRequest == ASSUME NEW p \in Packet PROVE Request(p)
BY DEF Packet, Request

(* A slot is in use exactly if its address is not 0. *)
LEMMA SlotOK ==
  ASSUME NEW e \in Entry \cup {FreeEntry}
  PROVE  /\ e.addr # 0 \/ e.ret # "NONE" => e \in Entry /\ e.addr \in Addr /\ Request(e)
         /\ e.addr = 0 => e = FreeEntry
BY AddrAssumption DEF Entry, FreeEntry, Request

LEMMA SlotAddr ==
  ASSUME NEW n \in Nat, NEW m \in Table(n)
  PROVE  \A s \in 1 .. n : m[s] \in Entry \cup {FreeEntry}
BY DEF Table

LEMMA CheckMshrOK ==
  ASSUME NEW n \in Nat, NEW m \in Table(n), NEW a, check_mshr(m, a) # {}
  PROVE  First(check_mshr(m, a)) \in 1 .. n /\ m[First(check_mshr(m, a))].addr = a
<1>1. check_mshr(m, a) \in SUBSET Nat
  BY DEF check_mshr, Table
<1>2. First(check_mshr(m, a)) \in check_mshr(m, a)
  BY <1>1, FirstIsLeast
<1> QED
  BY <1>2 DEF check_mshr, Table

(* Replacing an entry by one for the same line, or by one for a line that   *)
(* no other slot holds, keeps the entries unique.                           *)
LEMMA ReplaceEntry ==
  ASSUME NEW n \in Nat, NEW m \in Table(n), Unique(m), NEW s \in 1 .. n,
         NEW e \in Entry \cup {FreeEntry},
         \A t \in 1 .. n : t # s /\ e.addr # 0 => m[t].addr # e.addr
  PROVE  [m EXCEPT ![s] = e] \in Table(n) /\ Unique([m EXCEPT ![s] = e])
BY DEF Table, Unique

LEMMA SameLine ==
  ASSUME NEW n \in Nat, NEW m \in Table(n), Unique(m), NEW s \in 1 .. n,
         NEW e \in Entry, m[s].addr = e.addr
  PROVE  [m EXCEPT ![s] = e] \in Table(n) /\ Unique([m EXCEPT ![s] = e])
<1>1. e.addr # 0
  BY AddrAssumption DEF Entry
<1>2. \A t \in 1 .. n : t # s => m[t].addr # e.addr
  BY <1>1 DEF Unique, Table
<1> QED
  BY <1>2, ReplaceEntry

LEMMA AddMshrOK ==
  ASSUME NEW n \in Nat, NEW m \in Table(n), Unique(m), NEW p, Request(p),
         NEW r \in {"INFLIGHT", "COMPLETED"}, check_mshr(m, p.addr) = {}
  PROVE  add_mshr(m, p, r) \in Table(n) /\ Unique(add_mshr(m, p, r))
<1>1. CASE free_slots(m) = {}
  BY <1>1 DEF add_mshr
<1>2. CASE free_slots(m) # {}
  <2> DEFINE s == First(free_slots(m))
  <2>1. free_slots(m) \in SUBSET Nat
    BY DEF free_slots, Table
  <2>2. s \in 1 .. n
    BY <1>2, <2>1, FirstIsLeast DEF free_slots, Table
  <2>3. entry(p, r) \in Entry /\ entry(p, r).addr = p.addr
    BY EntryOK
  <2>4. \A t \in 1 .. n : m[t].addr # p.addr
    BY DEF check_mshr, Table
  <2>5. /\ [m EXCEPT ![s] = entry(p, r)] \in Table(n)
        /\ Unique([m EXCEPT ![s] = entry(p, r)])
    BY <2>2, <2>3, <2>4, ReplaceEntry
  <2> QED
    BY <1>2, <2>5 DEF add_mshr
<1> QED
  BY <1>1, <1>2

LEMMA FreeOK ==
  ASSUME NEW n \in Nat, NEW m \in Table(n), Unique(m), NEW s \in 1 .. n
  PROVE  [m EXCEPT ![s] = FreeEntry] \in Table(n) /\ Unique([m EXCEPT ![s] = FreeEntry])
<1>1. FreeEntry.addr = 0
  BY DEF FreeEntry
<1> QED
  BY <1>1, ReplaceEntry

LEMMA MshrExcept ==
  ASSUME NEW ms, MshrOK(ms), NEW c \in Caches, NEW m \in Table(MshrSize[c]), Unique(m)
  PROVE  MshrOK([ms EXCEPT ![c] = m])
BY DEF MshrOK

LEMMA ReturnOK ==
  ASSUME NEW ms, MshrOK(ms), NEW U, NEW a \in Addr
  PROVE  MshrOK(return_data(ms, U, a))
<1> DEFINE s(u)   == First(check_mshr(ms[u], a))
           new(u) == [ms[u] EXCEPT ![s(u)].ret = "COMPLETED"]
<1>1. ASSUME NEW u \in Caches, check_mshr(ms[u], a) # {}
      PROVE  new(u) \in Table(MshrSize[u]) /\ Unique(new(u))
  <2>1. MshrSize[u] \in Nat /\ ms[u] \in Table(MshrSize[u]) /\ Unique(ms[u])
    BY Shape DEF MshrOK
  <2>2. s(u) \in 1 .. MshrSize[u] /\ ms[u][s(u)].addr = a
    BY <1>1, <2>1, CheckMshrOK
  <2>3. ms[u][s(u)] \in Entry
    <3>1. ms[u][s(u)] \in Entry \cup {FreeEntry}
      BY <2>1, <2>2, SlotAddr
    <3>2. a # 0
      BY AddrAssumption
    <3> QED
      BY <2>2, <3>1, <3>2, SlotOK
  <2> DEFINE e == [ms[u][s(u)] EXCEPT !.ret = "COMPLETED"]
  <2>4. e \in Entry /\ e.addr = a
    BY <2>2, <2>3 DEF Entry
  <2>5. new(u) = [ms[u] EXCEPT ![s(u)] = e]
    BY <2>1, <2>2 DEF Table
  <2> HIDE DEF s, e
  <2>6. [ms[u] EXCEPT ![s(u)] = e] \in Table(MshrSize[u]) /\ Unique([ms[u] EXCEPT ![s(u)] = e])
    BY <2>1, <2>2, <2>4, SameLine
  <2> QED
    BY <2>5, <2>6 DEF s, e
<1>2. \A u \in Caches : /\ return_data(ms, U, a)[u] \in Table(MshrSize[u])
                        /\ Unique(return_data(ms, U, a)[u])
  BY <1>1 DEF return_data, MshrOK
<1>3. DOMAIN return_data(ms, U, a) = Caches
  BY DEF return_data
<1> QED
  BY <1>2, <1>3 DEF MshrOK

(* A fill takes its entry out and returns the data to the upper caches. *)
LEMMA FillMshrOK ==
  ASSUME MshrOK(MSHR), NEW c \in Caches, NEW s \in Slots(c), MSHR[c][s].ret = "COMPLETED",
         NEW U
  PROVE  /\ Request(MSHR[c][s])
         /\ MSHR[c][s] \in Entry
         /\ MshrOK([MSHR EXCEPT ![c][s] = FreeEntry])
         /\ MshrOK(return_data([MSHR EXCEPT ![c][s] = FreeEntry], U, MSHR[c][s].addr))
<1>1. MshrSize[c] \in Nat /\ MSHR[c] \in Table(MshrSize[c]) /\ Unique(MSHR[c])
  BY Shape DEF MshrOK
<1>2. MSHR[c][s] \in Entry \cup {FreeEntry}
  BY <1>1, SlotAddr DEF Slots
<1>3. MSHR[c][s] \in Entry /\ MSHR[c][s].addr \in Addr /\ Request(MSHR[c][s])
  BY <1>2, SlotOK
<1>4. MshrOK([MSHR EXCEPT ![c] = [MSHR[c] EXCEPT ![s] = FreeEntry]])
  BY <1>1, FreeOK, MshrExcept DEF Slots
<1>5. [MSHR EXCEPT ![c][s] = FreeEntry] = [MSHR EXCEPT ![c] = [MSHR[c] EXCEPT ![s] = FreeEntry]]
  BY <1>1 DEF MshrOK
<1>6. MshrOK([MSHR EXCEPT ![c][s] = FreeEntry])
  BY <1>4, <1>5
<1> QED
  BY <1>3, <1>6, ReturnOK

-------------------------------------------------------------------------------
(* Misses *)

LEMMA NewMissOK ==
  ASSUME MshrOK(MSHR), NEW rqs, QueuesOK(rqs), below \subseteq Caches \X Addr,
         NEW c \in Caches, NEW p \in Packet, check_mshr(MSHR[c], p.addr) = {},
         lower_level(c) \in Caches => rqs[lower_level(c)] = RQ[lower_level(c)],
         new_miss(c, p, rqs)
  PROVE  QueuesOK(RQ') /\ MshrOK(MSHR') /\ below' \subseteq Caches \X Addr
<1> DEFINE allocated == [MSHR EXCEPT ![c] = add_mshr(@, p, "INFLIGHT")]
<1>1. p.addr \in Addr
  BY DEF Packet
<1>2. MshrOK(allocated)
  <2>1. MshrSize[c] \in Nat /\ MSHR[c] \in Table(MshrSize[c]) /\ Unique(MSHR[c])
    BY Shape DEF MshrOK
  <2>2. Request(p)
    BY PacketIsRequest
  <2>3. /\ add_mshr(MSHR[c], p, "INFLIGHT") \in Table(MshrSize[c])
        /\ Unique(add_mshr(MSHR[c], p, "INFLIGHT"))
    BY <2>1, <2>2, AddMshrOK
  <2> QED
    BY <2>3, MshrExcept
<1>3. \A U : MshrOK(return_data(allocated, U, p.addr))
  <2> HIDE DEF allocated
  <2> QED
    BY <1>1, <1>2, ReturnOK
<1>4. lower_level(c) \in Caches => QueuesOK(rq_after_add(rqs, lower_level(c), p))
  BY RqAddOK
<1>5. CASE lower_level(c) \in Caches
  <2>1. /\ RQ' = rq_after_add(rqs, lower_level(c), p)
        /\ MSHR' = IF rq_forward(lower_level(c), p)
                   THEN return_data(allocated, uppers(lower_level(c), p), p.addr)
                   ELSE allocated
        /\ below' = below
    BY <1>5 DEF new_miss
  <2> HIDE DEF allocated
  <2> QED
    BY <1>2, <1>3, <1>4, <1>5, <2>1
<1>6. CASE lower_level(c) \notin Caches /\ c = "STLB"
  <2>1. MSHR' = return_data(allocated, {c}, p.addr) /\ RQ' = rqs /\ below' = below
    BY <1>6 DEF new_miss
  <2> HIDE DEF allocated
  <2> QED
    BY <1>3, <2>1
<1>7. CASE lower_level(c) \notin Caches /\ c # "STLB"
  <2>1. MSHR' = allocated /\ RQ' = rqs /\ below' = below \cup {<<c, p.addr>>}
    BY <1>7 DEF new_miss
  <2> HIDE DEF allocated
  <2> QED
    BY <1>1, <1>2, <2>1
<1> QED
  BY <1>5, <1>6, <1>7

(* Requests that find their line in flight. *)
LEMMA MergePrefetchOK ==
  ASSUME NEW e \in Entry, NEW p \in Packet
  PROVE  merge_prefetch(e, p) \in Entry /\ merge_prefetch(e, p).addr = e.addr
<1> DEFINE m == merge_flags(e, p)
<1>1. m \in Entry /\ m.addr = e.addr
  BY DEF merge_flags, Entry, Packet
<1> HIDE DEF m
<1>2. /\ [m EXCEPT !.lvl = IF p.lvl < @ THEN p.lvl ELSE @] \in Entry
      /\ [m EXCEPT !.lvl = IF p.lvl < @ THEN p.lvl ELSE @].addr = m.addr
  BY <1>1 DEF Entry, Packet
<1> QED
  BY <1>1, <1>2 DEF merge_prefetch, m

LEMMA MergeDemandOK ==
  ASSUME NEW e \in Entry, NEW p \in Packet, p.addr = e.addr
  PROVE  merge_demand(e, p) \in Entry /\ merge_demand(e, p).addr = e.addr
<1>1. e.ret \in {"INFLIGHT", "COMPLETED"}
  BY DEF Entry
<1>2. entry(p, e.ret) \in Entry /\ entry(p, e.ret).addr = e.addr
  BY <1>1, PacketIsRequest, EntryOK
<1> QED
  BY <1>2, MergePrefetchOK DEF merge_demand

LEMMA InFlight ==
  ASSUME MshrOK(MSHR), NEW c \in Caches, NEW p \in Packet, check_mshr(MSHR[c], p.addr) # {}
  PROVE  /\ First(check_mshr(MSHR[c], p.addr)) \in 1 .. MshrSize[c]
         /\ MSHR[c][First(check_mshr(MSHR[c], p.addr))] \in Entry
         /\ MSHR[c][First(check_mshr(MSHR[c], p.addr))].addr = p.addr
<1> DEFINE s == First(check_mshr(MSHR[c], p.addr))
<1>1. MshrSize[c] \in Nat /\ MSHR[c] \in Table(MshrSize[c])
  BY Shape DEF MshrOK
<1>2. s \in 1 .. MshrSize[c] /\ MSHR[c][s].addr = p.addr
  BY <1>1, CheckMshrOK
<1>3. p.addr # 0
  BY AddrAssumption DEF Packet
<1>4. MSHR[c][s] \in Entry \cup {FreeEntry}
  BY <1>1, <1>2, SlotAddr
<1> QED
  BY <1>2, <1>3, <1>4, SlotOK

LEMMA ReplaceMshr ==
  ASSUME MshrOK(MSHR), NEW c \in Caches, NEW s \in 1 .. MshrSize[c], NEW e \in Entry,
         MSHR[c][s].addr = e.addr
  PROVE  MshrOK([MSHR EXCEPT ![c][s] = e])
<1>1. MshrSize[c] \in Nat /\ MSHR[c] \in Table(MshrSize[c]) /\ Unique(MSHR[c])
  BY Shape DEF MshrOK
<1>2. [MSHR[c] EXCEPT ![s] = e] \in Table(MshrSize[c]) /\ Unique([MSHR[c] EXCEPT ![s] = e])
  BY <1>1, SameLine
<1>3. [MSHR EXCEPT ![c][s] = e] = [MSHR EXCEPT ![c] = [MSHR[c] EXCEPT ![s] = e]]
  BY DEF MshrOK
<1> QED
  BY <1>2, <1>3, MshrExcept

LEMMA MergeMissOK ==
  ASSUME MshrOK(MSHR), NEW c \in Caches, NEW p \in Packet,
         check_mshr(MSHR[c], p.addr) # {}, merge_miss(c, p)
  PROVE  MshrOK(MSHR')
<1> DEFINE s == First(check_mshr(MSHR[c], p.addr))
           e == merge_demand(MSHR[c][s], p)
<1>1. s \in 1 .. MshrSize[c] /\ MSHR[c][s] \in Entry /\ MSHR[c][s].addr = p.addr
  BY InFlight
<1>2. e \in Entry /\ e.addr = MSHR[c][s].addr
  BY <1>1, MergeDemandOK
<1>3. MSHR' = [MSHR EXCEPT ![c][s] = e]
  BY DEF merge_miss
<1> HIDE DEF s, e
<1> QED
  BY Zenon, <1>1, <1>2, <1>3, ReplaceMshr

-------------------------------------------------------------------------------
(* handle_fill *)

LEMMA FillNormalOK ==
  ASSUME IInv, NEW c \in Caches, NEW s \in Slots(c), FillNormal(c, s)
  PROVE  IInv'
<1> DEFINE e   == MSHR[c][s]
           set == get_set(e.addr, NumSet[c])
           way == lru_victim(block[c][set], NumWay[c])
<1>1. e \in Entry /\ e.addr \in Addr /\ e.id \in Nat /\ MshrOK(MSHR')
  BY Zenon, FillMshrOK DEF IInv, FillNormal, Entry
<1>2. /\ set \in 0 .. NumSet[c]-1
      /\ SetOK(block[c][set], NumWay[c])
      /\ way \in Way(NumWay[c])
  BY <1>1, VictimOK DEF IInv
<1>3. QueuesOK(WQ') /\ RoomOK(WQ')
  <2>1. block[c][set][way].dirty /\ lower_level(c) \in Caches
          => Len(WQ[lower_level(c)]) < WqSize[lower_level(c)]
    <3>1. block[c][set][way].dirty => writeback_room(c)
      BY Zenon DEF FillNormal
    <3> HIDE DEF set, way
    <3> QED
      BY <3>1, WriteRoom DEF IInv
  <2> QED
    BY Zenon, <1>1, <1>2, <2>1, Shape, EvictOK DEF FillNormal, IInv
<1>4. BlocksOK(block')
  <2> DEFINE new == fill_cache(lru_update(block[c][set], way), way, e.addr, e.id,
                               c = "L1D" /\ e.type = "RFO")
  <2>1. SetOK(new, NumWay[c])
    <3>1. SetOK(lru_update(block[c][set], way), NumWay[c])
      BY <1>2, Shape, UpdateOK
    <3> QED
      BY Zenon, <1>1, <1>2, <3>1, Shape, FillOK
  <2>2. block' = [block EXCEPT ![c][set] = new]
    BY Zenon DEF FillNormal
  <2> HIDE DEF new
  <2> QED
    BY <1>2, <2>1, <2>2, BlocksExcept DEF IInv
<1>5. PROCESSED' \in [Caches -> Seq(Addr)]
  BY Zenon, <1>1, ProcessedOK DEF FillNormal, IInv
<1> QED
  BY Zenon, <1>1, <1>3, <1>4, <1>5 DEF FillNormal, IInv

LEMMA FillSpecOK ==
  ASSUME IInv, NEW c \in Caches, NEW s \in Slots(c), FillSpec(c, s)
  PROVE  IInv'
<1> DEFINE e   == MSHR[c][s]
           set == get_set(e.addr, NumSetSpec[c])
           way == spec_victim(c, e)
<1>1. e \in Entry /\ e.addr \in Addr /\ e.id \in Nat /\ MshrOK(MSHR')
  BY FillMshrOK DEF IInv, FillSpec, Entry
<1>2. SpecBlocksOK(spec_block')
  <2>1. CASE NumSetSpec[c] = 0
    BY <2>1 DEF FillSpec, IInv
  <2>2. CASE NumSetSpec[c] # 0
    <3>1. set \in 0 .. NumSetSpec[c]-1
      BY <1>1, <2>2, Shape, SetInRange
    <3>2. spec_block[c][set] \in [Way(NumWaySpec[c]) -> SpecBlock]
      BY <3>1 DEF IInv, SpecBlocksOK
    <3>3. way \in Way(NumWaySpec[c])
      BY <1>1, <2>2, Shape, TimestampVictim DEF FillSpec, spec_victim
    <3>4. fill_spec(spec_block[c][set], way, e.addr, e.id)
            \in [Way(NumWaySpec[c]) -> SpecBlock]
      BY <1>1, <3>2, <3>3 DEF fill_spec, SpecBlock
    <3>5. spec_block' = [spec_block EXCEPT ![c][set] =
                           fill_spec(spec_block[c][set], way, e.addr, e.id)]
      BY <2>2 DEF FillSpec
    <3> QED
      BY <3>1, <3>4, <3>5, SpecExcept DEF IInv
  <2> QED
    BY <2>1, <2>2
<1>3. PROCESSED' \in [Caches -> Seq(Addr)]
  BY <1>1, ProcessedOK DEF FillSpec, IInv
<1> QED
  BY <1>1, <1>2, <1>3 DEF FillSpec, IInv

LEMMA FillSpecRetryOK ==
  ASSUME IInv, NEW c \in Caches, NEW s \in Slots(c), FillSpecRetry(c, s)
  PROVE  IInv'
<1> DEFINE e == MSHR[c][s]
           m == [MSHR[c] EXCEPT ![s] = FreeEntry]
<1>1. MshrSize[c] \in Nat /\ MSHR[c] \in Table(MshrSize[c]) /\ Unique(MSHR[c])
  BY Shape DEF IInv, MshrOK
<1>2. Request(e) /\ e.addr # 0
  BY FillMshrOK, AddrAssumption DEF IInv, FillSpecRetry, Request
<1>3. m \in Table(MshrSize[c]) /\ Unique(m)
  BY <1>1, FreeOK DEF Slots
<1>4. check_mshr(m, e.addr) = {}
  BY <1>1, <1>2 DEF check_mshr, Unique, Table, Slots, FreeEntry
<1>5. /\ add_mshr(m, e, "COMPLETED") \in Table(MshrSize[c])
      /\ Unique(add_mshr(m, e, "COMPLETED"))
  <2> HIDE DEF e, m
  <2> QED
    BY <1>1, <1>2, <1>3, <1>4, AddMshrOK
<1>6. MshrOK(MSHR')
  BY <1>5, MshrExcept DEF FillSpecRetry, IInv
<1> QED
  BY <1>6 DEF FillSpecRetry, IInv, arrays

-------------------------------------------------------------------------------
(* handle_read *)

LEMMA ReadHitOK ==
  ASSUME IInv, NEW c \in Caches, ReadHit(c)
  PROVE  IInv'
<1> DEFINE p   == Head(RQ[c])
           set == get_set(p.addr, NumSet[c])
           way == First(hit_ways(c, p))
<1>1. p \in Packet /\ p.addr \in Addr /\ QueuesOK(RQ')
  BY TailOK DEF IInv, ReadHit, Packet
<1>2. BlocksOK(block')
  <2>1. set \in 0 .. NumSet[c]-1 /\ SetOK(block[c][set], NumWay[c])
    BY <1>1, VictimOK DEF IInv
  <2>2. way \in Way(NumWay[c])
    BY <1>1, HitOK DEF IInv, ReadHit
  <2>3. SetOK(touch(block[c][set], way, p), NumWay[c])
    BY <2>1, <2>2, Shape, TouchOK
  <2> QED
    BY <2>1, <2>3, BlocksExcept DEF IInv, ReadHit
<1>3. MshrOK(MSHR')
  BY <1>1, ReturnOK DEF IInv, ReadHit
<1>4. PROCESSED' \in [Caches -> Seq(Addr)]
  BY <1>1, ProcessedOK DEF IInv, ReadHit
<1> QED
  BY <1>1, <1>2, <1>3, <1>4 DEF IInv, ReadHit

LEMMA ReadSpecHitOK ==
  ASSUME IInv, NEW c \in Caches, ReadSpecHit(c)
  PROVE  IInv'
<1> DEFINE p == Head(RQ[c])
<1>1. p \in Packet /\ p.addr \in Addr /\ QueuesOK(RQ')
  BY TailOK DEF IInv, ReadSpecHit, Packet
<1>2. MshrOK(MSHR')
  BY <1>1, ReturnOK DEF IInv, ReadSpecHit
<1>3. PROCESSED' \in [Caches -> Seq(Addr)]
  BY <1>1, ProcessedOK DEF IInv, ReadSpecHit
<1> QED
  BY <1>1, <1>2, <1>3 DEF IInv, ReadSpecHit, arrays

LEMMA ReadMissOK ==
  ASSUME IInv, NEW c \in Caches, ReadMiss(c)
  PROVE  IInv'
<1> DEFINE p   == Head(RQ[c])
           rqs == [RQ EXCEPT ![c] = Tail(@)]
<1>1. p \in Packet /\ QueuesOK(rqs)
  BY TailOK DEF IInv, ReadMiss
<1>2. lower_level(c) \in Caches => rqs[lower_level(c)] = RQ[lower_level(c)]
  BY LowerIsOther DEF IInv, QueuesOK
<1>3. new_miss(c, p, rqs) /\ check_mshr(MSHR[c], p.addr) = {}
  BY DEF ReadMiss
<1> HIDE DEF rqs, p
<1>4. QueuesOK(RQ') /\ MshrOK(MSHR') /\ below' \subseteq Caches \X Addr
  BY <1>1, <1>2, <1>3, NewMissOK DEF IInv
<1> QED
  BY <1>4 DEF IInv, ReadMiss, arrays

LEMMA ReadMergeOK ==
  ASSUME IInv, NEW c \in Caches, ReadMerge(c)
  PROVE  IInv'
<1>1. Head(RQ[c]) \in Packet /\ QueuesOK(RQ')
  BY TailOK DEF IInv, ReadMerge
<1>2. MshrOK(MSHR')
  BY <1>1, MergeMissOK DEF IInv, ReadMerge
<1> QED
  BY <1>1, <1>2 DEF IInv, ReadMerge, arrays

-------------------------------------------------------------------------------
(* handle_writeback *)

LEMMA WqTailOK ==
  ASSUME IInv, NEW c \in Caches, WQ[c] # << >>
  PROVE  /\ Head(WQ[c]) \in Packet /\ Head(WQ[c]).addr \in Addr /\ Head(WQ[c]).id \in Nat
         /\ QueuesOK([WQ EXCEPT ![c] = Tail(@)])
         /\ RoomOK([WQ EXCEPT ![c] = Tail(@)])
<1>1. Head(WQ[c]) \in Packet /\ QueuesOK([WQ EXCEPT ![c] = Tail(@)])
  BY TailOK DEF IInv
<1>2. Len(Tail(WQ[c])) <= Len(WQ[c]) /\ Len(WQ[c]) \in Nat /\ Len(Tail(WQ[c])) \in Nat
  BY DEF IInv, QueuesOK
<1>3. RoomOK([WQ EXCEPT ![c] = Tail(@)])
  BY SMTT(40), <1>2, Shape DEF IInv, RoomOK, QueuesOK
<1> QED
  BY <1>1, <1>3 DEF Packet

LEMMA WriteHitOK ==
  ASSUME IInv, NEW c \in Caches, WriteHit(c)
  PROVE  IInv'
<1> DEFINE p   == Head(WQ[c])
           set == get_set(p.addr, NumSet[c])
           way == First(hit_ways(c, p))
           new == [touch(block[c][set], way, p) EXCEPT ![way].dirty = TRUE]
<1>1. p \in Packet /\ p.addr \in Addr /\ QueuesOK(WQ') /\ RoomOK(WQ')
  BY Zenon, WqTailOK DEF WriteHit
<1>2. set \in 0 .. NumSet[c]-1 /\ SetOK(block[c][set], NumWay[c])
  BY <1>1, VictimOK DEF IInv
<1>3. way \in Way(NumWay[c]) /\ block[c][set][way].tag = p.addr
  BY Zenon, <1>1, HitOK DEF IInv, WriteHit
<1>4. /\ SetOK(touch(block[c][set], way, p), NumWay[c])
      /\ touch(block[c][set], way, p)[way].tag = block[c][set][way].tag
  BY SMTT(40), <1>2, <1>3, Shape, TouchOK
<1>5. SetOK(new, NumWay[c])
  BY ZenonT(40), <1>1, <1>3, <1>4, Shape, DirtyOK
<1>6. block' = [block EXCEPT ![c][set] = new]
  BY DEF WriteHit
<1>7. BlocksOK(block')
  <2> HIDE DEF new
  <2> QED
    BY <1>2, <1>5, <1>6, BlocksExcept DEF IInv
<1>8. MshrOK(MSHR')
  BY Zenon, <1>1, ReturnOK DEF IInv, WriteHit
<1> QED
  BY Zenon, <1>1, <1>7, <1>8 DEF IInv, WriteHit

LEMMA StoreMissOK ==
  ASSUME IInv, NEW c \in Caches, StoreMiss(c)
  PROVE  IInv'
<1>1. Head(WQ[c]) \in Packet /\ QueuesOK(WQ') /\ RoomOK(WQ')
  BY WqTailOK DEF StoreMiss
<1>2. QueuesOK(RQ') /\ MshrOK(MSHR') /\ below' \subseteq Caches \X Addr
  BY <1>1, NewMissOK DEF IInv, StoreMiss
<1> QED
  BY <1>1, <1>2 DEF IInv, StoreMiss, arrays

LEMMA StoreMergeOK ==
  ASSUME IInv, NEW c \in Caches, StoreMerge(c)
  PROVE  IInv'
<1>1. Head(WQ[c]) \in Packet /\ QueuesOK(WQ') /\ RoomOK(WQ')
  BY WqTailOK DEF StoreMerge
<1>2. MshrOK(MSHR')
  BY <1>1, MergeMissOK DEF IInv, StoreMerge
<1> QED
  BY <1>1, <1>2 DEF IInv, StoreMerge, arrays

LEMMA WriteFillOK ==
  ASSUME IInv, NEW c \in Caches, WriteFill(c)
  PROVE  IInv'
<1> DEFINE p   == Head(WQ[c])
           set == get_set(p.addr, NumSet[c])
           way == lru_victim(block[c][set], NumWay[c])
           q   == [WQ EXCEPT ![c] = Tail(@)]
<1>1. p \in Packet /\ p.addr \in Addr /\ p.id \in Nat /\ QueuesOK(q) /\ RoomOK(q)
  BY WqTailOK DEF WriteFill
<1>2. /\ set \in 0 .. NumSet[c]-1
      /\ SetOK(block[c][set], NumWay[c])
      /\ way \in Way(NumWay[c])
  BY <1>1, VictimOK DEF IInv
<1>3. QueuesOK(WQ') /\ RoomOK(WQ')
  <2>1. block[c][set][way].dirty /\ lower_level(c) \in Caches
          => Len(WQ[lower_level(c)]) < WqSize[lower_level(c)]
    <3>1. block[c][set][way].dirty => writeback_room(c)
      BY Zenon DEF WriteFill
    <3> HIDE DEF set, way
    <3> QED
      BY <3>1, WriteRoom DEF IInv
  <2>2. lower_level(c) \in Caches => q[lower_level(c)] = WQ[lower_level(c)]
    BY LowerIsOther DEF IInv, QueuesOK
  <2>3. WQ' = wq_after_evict(q, c, block[c][set][way], p.id)
    BY DEF WriteFill
  <2> HIDE DEF q, way, set, p
  <2> QED
    BY SMTT(40), <1>1, <1>2, <2>1, <2>2, <2>3, Shape, EvictOK
<1>4. BlocksOK(block')
  <2> DEFINE new == fill_cache(lru_update(block[c][set], way), way, p.addr, p.id, TRUE)
  <2>1. SetOK(new, NumWay[c])
    <3>1. SetOK(lru_update(block[c][set], way), NumWay[c])
      BY <1>2, Shape, UpdateOK
    <3> QED
      BY <1>1, <1>2, <3>1, Shape, FillOK
  <2>2. block' = [block EXCEPT ![c][set] = new]
    BY DEF WriteFill
  <2> HIDE DEF new
  <2> QED
    BY <1>2, <2>1, <2>2, BlocksExcept DEF IInv
<1>5. MshrOK(MSHR')
  BY Zenon, <1>1, ReturnOK DEF IInv, WriteFill
<1> QED
  BY Zenon, <1>3, <1>4, <1>5 DEF WriteFill, IInv

-------------------------------------------------------------------------------
(* commit_blocks *)

LEMMA CommitOK ==
  ASSUME IInv, NEW c \in Caches, commit_blocks(c)
  PROVE  IInv'
<1> DEFINE p    == Head(CQ[c])
           rest == [CQ EXCEPT ![c] = Tail(@)]
           spec == get_set(p.addr, NumSetSpec[c])
           way  == First(spec_hit_ways(c, p))
           from == spec_block[c][spec][way]
           set  == get_set(p.addr, NumSet[c])
           to   == lru_victim(block[c][set], NumWay[c])
<1>1. p \in Packet /\ p.addr \in Addr /\ QueuesOK(rest)
  BY Zenon, TailOK DEF IInv, commit_blocks, Packet
<1>2. QueuesOK(CQ')
  BY Zenon, <1>1, CqAddOK DEF commit_blocks
<1>3. CASE spec_hit_ways(c, p) = {}
  <2>1. UNCHANGED arrays
    BY <1>3 DEF commit_blocks
  <2> QED
    BY Zenon, <1>2, <2>1 DEF commit_blocks, IInv, arrays
<1>4. CASE spec_hit_ways(c, p) # {}
  <2>1. /\ spec \in 0 .. NumSetSpec[c]-1 /\ way \in Way(NumWaySpec[c])
        /\ from.tag \in Addr /\ from.id \in Nat
    BY <1>1, <1>4, SpecHitOK DEF IInv
  <2>2. /\ set \in 0 .. NumSet[c]-1
        /\ SetOK(block[c][set], NumWay[c])
        /\ to \in Way(NumWay[c])
    BY <1>1, VictimOK DEF IInv
  <2>3. BlocksOK(block')
    <3> DEFINE new == fill_cache(block[c][set], to, from.tag, from.id, FALSE)
    <3>1. SetOK(new, NumWay[c])
      BY Zenon, <2>1, <2>2, Shape, FillOK
    <3>2. block' = [block EXCEPT ![c][set] = new]
      BY Zenon, <1>4 DEF commit_blocks
    <3> HIDE DEF new
    <3> QED
      BY <2>2, <3>1, <3>2, BlocksExcept DEF IInv
  <2>4. SpecBlocksOK(spec_block')
    <3>1. spec_block[c][spec] \in [Way(NumWaySpec[c]) -> SpecBlock]
      BY <2>1 DEF IInv, SpecBlocksOK
    <3>2. [spec_block[c][spec] EXCEPT ![way].valid = FALSE]
            \in [Way(NumWaySpec[c]) -> SpecBlock]
      BY Zenon, <2>1, <3>1, SpecInvalidate
    <3>3. spec_block' = [spec_block EXCEPT ![c][spec] =
                           [spec_block[c][spec] EXCEPT ![way].valid = FALSE]]
      BY <1>4, <2>1 DEF commit_blocks, IInv, SpecBlocksOK
    <3> QED
      BY Zenon, <2>1, <3>2, <3>3, SpecExcept DEF IInv
  <2> QED
    BY Zenon, <1>2, <2>3, <2>4 DEF commit_blocks, IInv
<1> QED
  BY <1>3, <1>4

-------------------------------------------------------------------------------
(* handle_prefetch *)

LEMMA PrefetchHitOK ==
  ASSUME IInv, NEW c \in Caches, PrefetchHit(c)
  PROVE  IInv'
<1> DEFINE p   == Head(PQ[c])
           set == get_set(p.addr, NumSet[c])
           way == First(hit_ways(c, p))
<1>1. p \in Packet /\ p.addr \in Addr /\ QueuesOK(PQ')
  BY TailOK DEF IInv, PrefetchHit, Packet
<1>2. BlocksOK(block')
  <2>1. set \in 0 .. NumSet[c]-1 /\ SetOK(block[c][set], NumWay[c])
    BY <1>1, VictimOK DEF IInv
  <2>2. way \in Way(NumWay[c])
    BY <1>1, HitOK DEF IInv, PrefetchHit
  <2>3. SetOK(touch(block[c][set], way, p), NumWay[c])
    BY <2>1, <2>2, Shape, TouchOK
  <2> QED
    BY <2>1, <2>3, BlocksExcept DEF IInv, PrefetchHit
<1>3. MshrOK(MSHR')
  BY <1>1, ReturnOK DEF IInv, PrefetchHit
<1> QED
  BY <1>1, <1>2, <1>3 DEF IInv, PrefetchHit

LEMMA PrefetchMissOK ==
  ASSUME IInv, NEW c \in Caches, PrefetchMiss(c)
  PROVE  IInv'
<1> DEFINE p         == Head(PQ[c])
           low       == lower_level(c)
           rest      == [PQ EXCEPT ![c] = Tail(@)]
           allocated == IF p.lvl <= level(c)
                        THEN [MSHR EXCEPT ![c] = add_mshr(@, p, "INFLIGHT")] ELSE MSHR
<1>1. p \in Packet /\ p.addr \in Addr /\ QueuesOK(rest)
  BY TailOK DEF IInv, PrefetchMiss, Packet
<1>2. MshrOK(allocated)
  <2>1. MshrSize[c] \in Nat /\ MSHR[c] \in Table(MshrSize[c]) /\ Unique(MSHR[c])
    BY Shape DEF IInv, MshrOK
  <2>2. Request(p) /\ check_mshr(MSHR[c], p.addr) = {}
    BY <1>1, PacketIsRequest DEF PrefetchMiss
  <2>3. /\ add_mshr(MSHR[c], p, "INFLIGHT") \in Table(MshrSize[c])
        /\ Unique(add_mshr(MSHR[c], p, "INFLIGHT"))
    BY <2>1, <2>2, AddMshrOK
  <2>4. MshrOK([MSHR EXCEPT ![c] = add_mshr(@, p, "INFLIGHT")])
    BY <2>3, MshrExcept DEF IInv
  <2> QED
    BY <2>4 DEF IInv
<1>3. \A U : MshrOK(return_data(allocated, U, p.addr))
  <2> HIDE DEF allocated
  <2> QED
    BY <1>1, <1>2, ReturnOK
<1>4. low \in Caches => QueuesOK(pq_after_add(rest, low, p))
  <2>1. low \in Caches => rest[low] = PQ[low]
    BY LowerIsOther DEF IInv, QueuesOK
  <2> HIDE DEF rest, low
  <2> QED
    BY <1>1, <2>1, PqAddOK
<1>5. QueuesOK(PQ') /\ MshrOK(MSHR') /\ below' \subseteq Caches \X Addr
  <2>1. CASE low \in Caches
    <3>1. /\ PQ' = pq_after_add(rest, low, p)
          /\ MSHR' = IF rq_forward(low, p)
                     THEN return_data(allocated, uppers(low, p), p.addr) ELSE allocated
          /\ below' = below
      BY <2>1 DEF PrefetchMiss
    <3> HIDE DEF allocated, rest, low
    <3> QED
      BY <1>2, <1>3, <1>4, <2>1, <3>1 DEF IInv
  <2>2. CASE low \notin Caches
    <3>1. /\ PQ' = rest /\ MSHR' = allocated
          /\ below' = IF p.lvl <= level(c) THEN below \cup {<<c, p.addr>>} ELSE below
      BY <2>2 DEF PrefetchMiss
    <3> HIDE DEF allocated, rest
    <3> QED
      BY <1>1, <1>2, <3>1 DEF IInv
  <2> QED
    BY <2>1, <2>2
<1> QED
  BY <1>5 DEF PrefetchMiss, IInv, arrays

LEMMA PrefetchMergeOK ==
  ASSUME IInv, NEW c \in Caches, PrefetchMerge(c)
  PROVE  IInv'
<1> DEFINE p == Head(PQ[c])
           s == First(check_mshr(MSHR[c], p.addr))
           e == merge_prefetch(MSHR[c][s], p)
<1>1. p \in Packet /\ QueuesOK(PQ')
  BY TailOK DEF IInv, PrefetchMerge
<1>2. s \in 1 .. MshrSize[c] /\ MSHR[c][s] \in Entry
  BY <1>1, InFlight DEF IInv, PrefetchMerge
<1>3. e \in Entry /\ e.addr = MSHR[c][s].addr
  BY <1>1, <1>2, MergePrefetchOK
<1>4. MSHR' = [MSHR EXCEPT ![c][s] = e]
  BY DEF PrefetchMerge
<1>5. MshrOK(MSHR')
  <2> HIDE DEF s, e
  <2> QED
    BY <1>2, <1>3, <1>4, ReplaceMshr DEF IInv
<1> QED
  BY <1>1, <1>5 DEF IInv, PrefetchMerge, arrays

-------------------------------------------------------------------------------
(* The core, the prefetchers, the page table and the level below *)

LEMMA ReadPacketOK ==
  ASSUME NEW c \in Caches, NEW a \in CoreAddr[c], NEW o \in Offsets, NEW id \in 1 .. MaxId
  PROVE  /\ read_packet(c, a, o, id) \in Packet
         /\ commit_packet(c, a, o, id) \in Packet
         /\ [read_packet(c, a, o, id) EXCEPT !.type = "RFO"] \in Packet
         /\ a \in Addr
<1>1. a \in Addr /\ id \in Nat
  BY AddrAssumption, BoundsAssumption
<1> DEFINE p == read_packet(c, a, o, id)
<1>2. p \in Packet
  BY <1>1 DEF read_packet, Packet, PacketTypes
<1>3. commit_packet(c, a, o, id) = [p EXCEPT !.type = "COMMIT_LOAD", !.spec = TRUE,
                                             !.fi = FALSE, !.fd = FALSE]
  BY DEF commit_packet
<1> HIDE DEF p
<1>4. commit_packet(c, a, o, id) \in Packet
  BY <1>2, <1>3 DEF Packet, PacketTypes
<1>5. [p EXCEPT !.type = "RFO"] \in Packet
  BY <1>2 DEF Packet, PacketTypes
<1> QED
  BY <1>1, <1>2, <1>4, <1>5 DEF p

LEMMA CpuReadOK ==
  ASSUME IInv, NEW c \in Caches, NEW a \in CoreAddr[c], NEW o \in Offsets,
         NEW id \in 1 .. MaxId, CpuRead(c, a, o, id)
  PROVE  IInv'
<1> DEFINE p == read_packet(c, a, o, id)
<1>1. p \in Packet /\ p.addr \in Addr
  BY ReadPacketOK DEF Packet
<1>2. QueuesOK(RQ')
  BY <1>1, RqAddOK DEF IInv, CpuRead
<1>3. PROCESSED' \in [Caches -> Seq(Addr)]
  BY <1>1, ProcessedOK DEF IInv, CpuRead
<1>4. issued' \in 0 .. MaxRequests
  BY BoundsAssumption DEF IInv, CpuRead
<1> QED
  BY <1>2, <1>3, <1>4 DEF IInv, CpuRead, arrays

LEMMA CpuStoreOK ==
  ASSUME IInv, NEW a \in CoreAddr["L1D"], NEW o \in Offsets, NEW id \in 1 .. MaxId,
         CpuStore(a, o, id)
  PROVE  IInv'
<1>1. "L1D" \in Caches
  BY DEF CpuStore
<1>2. /\ [read_packet("L1D", a, o, id) EXCEPT !.type = "RFO"] \in Packet
      /\ a \in Addr
  BY <1>1, ReadPacketOK
<1>3. QueuesOK(WQ') /\ RoomOK(WQ')
  BY <1>1, <1>2, WqAddOK DEF IInv, CpuStore
<1>4. issued' \in 0 .. MaxRequests
  BY BoundsAssumption DEF IInv, CpuStore
<1>5. answered' \subseteq Caches \X Addr
  BY <1>1, <1>2 DEF IInv, CpuStore
<1> QED
  BY <1>3, <1>4, <1>5 DEF IInv, CpuStore, arrays

LEMMA CpuCommitOK ==
  ASSUME IInv, NEW c \in Caches, NEW a \in CoreAddr[c], NEW o \in Offsets,
         NEW id \in 1 .. MaxId, CpuCommit(c, a, o, id)
  PROVE  IInv'
<1>1. commit_packet(c, a, o, id) \in Packet
  BY ReadPacketOK
<1>2. QueuesOK(CQ')
  BY <1>1, CqAddOK DEF IInv, CpuCommit
<1>3. issued' \in 0 .. MaxRequests
  BY BoundsAssumption DEF IInv, CpuCommit
<1> QED
  BY <1>2, <1>3 DEF IInv, CpuCommit, arrays

LEMMA IssuePrefetchOK ==
  ASSUME IInv, NEW c \in Caches, NEW a \in Addr, NEW lvl \in {1, 2, 4},
         IssuePrefetch(c, a, lvl)
  PROVE  IInv'
<1> DEFINE p == [addr |-> a, off |-> 0, id |-> 0, spec |-> FALSE, type |-> "PREFETCH",
                 lvl |-> lvl, fi |-> c = "L1I", fd |-> c # "L1I" /\ lvl = 1]
<1>1. p \in Packet
  BY AddrAssumption DEF Packet, PacketTypes
<1>2. PQ' = pq_after_add(PQ, c, p)
  BY DEF IssuePrefetch
<1>3. QueuesOK(PQ')
  <2> HIDE DEF p
  <2> QED
    BY <1>1, <1>2, PqAddOK DEF IInv
<1>4. issued' \in 0 .. MaxRequests
  BY BoundsAssumption DEF IInv, IssuePrefetch
<1> QED
  BY <1>3, <1>4 DEF IInv, IssuePrefetch, arrays

LEMMA SwapOutOK ==
  ASSUME IInv, NEW a \in Addr, SwapOut(a)
  PROVE  IInv'
<1> DEFINE set(c) == get_set(a, NumSet[c])
           new(c) == [block[c] EXCEPT ![set(c)] = invalidate_entry(@, a)]
<1>1. ASSUME NEW c \in Caches
      PROVE  /\ new(c) \in [0 .. NumSet[c]-1 -> Sets(NumWay[c], Addr \cup {0})]
             /\ \A t \in 0 .. NumSet[c]-1 : SetOK(new(c)[t], NumWay[c])
  <2>1. set(c) \in 0 .. NumSet[c]-1 /\ SetOK(block[c][set(c)], NumWay[c])
    BY VictimOK DEF IInv
  <2>2. SetOK(invalidate_entry(block[c][set(c)], a), NumWay[c])
    BY <2>1, Shape, InvalidateOK
  <2> QED
    BY <2>1, <2>2 DEF IInv, BlocksOK, SetOK
<1>2. block' = [c \in Caches |-> new(c)]
  BY DEF SwapOut
<1>3. BlocksOK(block')
  <2> HIDE DEF new
  <2> QED
    BY <1>1, <1>2 DEF BlocksOK
<1>4. issued' \in 0 .. MaxRequests
  BY BoundsAssumption DEF IInv, SwapOut
<1> QED
  BY <1>3, <1>4 DEF IInv, SwapOut

LEMMA UpdateRobOK ==
  ASSUME IInv, NEW c \in Caches, UpdateRob(c)
  PROVE  IInv'
<1>1. Head(PROCESSED[c]) \in Addr /\ Tail(PROCESSED[c]) \in Seq(Addr)
  BY DEF IInv, UpdateRob
<1>2. PROCESSED' \in [Caches -> Seq(Addr)]
  BY <1>1 DEF IInv, UpdateRob
<1>3. answered' \subseteq Caches \X Addr
  BY <1>1 DEF IInv, UpdateRob
<1> QED
  BY <1>2, <1>3 DEF IInv, UpdateRob, arrays

LEMMA BelowReturnOK ==
  ASSUME IInv, NEW c \in Caches, NEW a \in Addr, BelowReturn(c, a)
  PROVE  IInv'
<1>1. MshrOK(MSHR')
  BY ReturnOK DEF IInv, BelowReturn
<1>2. below' \subseteq Caches \X Addr
  BY DEF IInv, BelowReturn
<1> QED
  BY <1>1, <1>2 DEF IInv, BelowReturn, arrays

-------------------------------------------------------------------------------
(* The inductive invariant *)

LEMMA InitOK == ASSUME Init PROVE IInv
<1>1. BlocksOK(block)
  <2> DEFINE empty(n) == [w \in 0 .. n-1 |-> [valid |-> FALSE, dirty |-> FALSE, tag |-> 0,
                                              id |-> 0, lru |-> w]]
  <2>1. ASSUME NEW n \in Nat \ {0}
        PROVE  SetOK(empty(n), n) /\ empty(n) \in Sets(n, Addr \cup {0})
    <3>1. empty(n) \in Sets(n, Addr \cup {0})
      BY DEF Sets, Way
    <3>2. LruComplete(empty(n), n)
      BY DEF LruComplete, Way
    <3>3. \A w \in Way(n) : ~empty(n)[w].dirty
      BY DEF Way
    <3> QED
      BY <3>1, <3>2, <3>3 DEF SetOK
  <2>2. block = [c \in Caches |-> [s \in 0 .. NumSet[c]-1 |-> empty(NumWay[c])]]
    BY DEF Init
  <2> HIDE DEF empty
  <2> QED
    BY <2>1, <2>2, Shape DEF BlocksOK
<1>2. SpecBlocksOK(spec_block)
  BY DEF Init, SpecBlocksOK, SpecBlock, Way
<1>3. QueuesOK(RQ) /\ QueuesOK(WQ) /\ QueuesOK(PQ) /\ QueuesOK(CQ)
  BY DEF Init, QueuesOK
<1>4. RoomOK(WQ)
  BY Shape DEF Init, RoomOK
<1>5. MshrOK(MSHR)
  BY DEF Init, MshrOK, Table, Unique, FreeEntry, Slots
<1> QED
  BY <1>1, <1>2, <1>3, <1>4, <1>5, BoundsAssumption DEF Init, IInv

LEMMA StepOK == ASSUME IInv, [Next]_vars PROVE IInv'
<1>1. CASE UNCHANGED vars
  BY <1>1 DEF IInv, vars
<1>2. ASSUME NEW c \in Caches, NEW a \in CoreAddr[c], NEW o \in Offsets, NEW id \in 1 .. MaxId,
             CpuRead(c, a, o, id) \/ CpuCommit(c, a, o, id)
      PROVE  IInv'
  BY <1>2, CpuReadOK, CpuCommitOK
<1>3. ASSUME NEW a \in CoreAddr["L1D"], NEW o \in Offsets, NEW id \in 1 .. MaxId,
             CpuStore(a, o, id)
      PROVE  IInv'
  BY <1>3, CpuStoreOK
<1>4. ASSUME NEW c \in Caches, NEW a \in Addr, NEW lvl \in {1, 2, 4}, IssuePrefetch(c, a, lvl)
      PROVE  IInv'
  BY <1>4, IssuePrefetchOK
<1>5. ASSUME NEW a \in Addr, SwapOut(a) PROVE IInv'
  BY <1>5, SwapOutOK
<1>6. ASSUME NEW c \in Caches, handle_fill(c) PROVE IInv'
  BY <1>6, FillNormalOK, FillSpecOK, FillSpecRetryOK DEF handle_fill
<1>7. ASSUME NEW c \in Caches, handle_writeback(c) PROVE IInv'
  BY <1>7, WriteHitOK, StoreMissOK, StoreMergeOK, WriteFillOK DEF handle_writeback
<1>8. ASSUME NEW c \in Caches, handle_read(c) PROVE IInv'
  BY <1>8, ReadHitOK, ReadSpecHitOK, ReadMissOK, ReadMergeOK DEF handle_read
<1>9. ASSUME NEW c \in Caches, commit_blocks(c) PROVE IInv'
  BY <1>9, CommitOK
<1>10. ASSUME NEW c \in Caches, handle_prefetch(c) PROVE IInv'
  BY <1>10, PrefetchHitOK, PrefetchMissOK, PrefetchMergeOK DEF handle_prefetch
<1>11. ASSUME NEW c \in Caches, UpdateRob(c) PROVE IInv'
  BY <1>11, UpdateRobOK
<1>12. ASSUME NEW c \in Caches, NEW a \in Addr, BelowReturn(c, a) PROVE IInv'
  BY <1>12, BelowReturnOK
<1>13. CASE Core
  BY <1>13, <1>2, <1>3, <1>4, <1>5 DEF Core
<1>14. ASSUME NEW c \in Caches, operate(c) PROVE IInv'
  BY <1>14, <1>6, <1>7, <1>8, <1>9, <1>10, <1>11, <1>12 DEF operate
<1> QED
  BY <1>1, <1>13, <1>14 DEF Next

LEMMA InvariantOK == Spec => []IInv
<1>1. Init => IInv
  BY InitOK
<1>2. IInv /\ [Next]_vars => IInv'
  BY StepOK
<1> QED
  BY <1>1, <1>2, PTL DEF Spec

(* The type invariant: arrays, queues and MSHRs keep their shape in every   *)
(* hierarchy.  Every index the handlers use, the victim of a fill among     *)
(* them, is inside its array.                                               *)
THEOREM TypeCorrect == Spec => []TypeOK
<1>1. ASSUME IInv PROVE TypeOK
  <2>1. \A c \in Caches : block[c] \in [0 .. NumSet[c]-1 -> [0 .. NumWay[c]-1 -> Block]]
    BY <1>1 DEF IInv, BlocksOK, Sets, Way, Block
  <2>2. \A c \in Caches :
          spec_block[c] \in [0 .. NumSetSpec[c]-1 -> [0 .. NumWaySpec[c]-1 -> SpecBlock]]
    BY <1>1 DEF IInv, SpecBlocksOK, Way
  <2>3. \A c \in Caches : MSHR[c] \in [Slots(c) -> Entry \cup {FreeEntry}]
    BY <1>1 DEF IInv, MshrOK, Table, Slots
  <2>4. DOMAIN block = Caches /\ DOMAIN spec_block = Caches /\ DOMAIN MSHR = Caches
    BY <1>1 DEF IInv, BlocksOK, SpecBlocksOK, MshrOK
  <2> QED
    BY <1>1, <2>1, <2>2, <2>3, <2>4 DEF IInv, QueuesOK, TypeOK
<1> QED
  BY <1>1, InvariantOK, PTL

(* check_mshr and the merge of misses keep one MSHR entry per line, so a    *)
(* return completes the only entry there is.                                *)
THEOREM OneMshrPerLine == Spec => []MshrUnique
<1>1. ASSUME IInv PROVE MshrUnique
  BY <1>1 DEF IInv, MshrOK, Unique, Table, Slots, MshrUnique
<1> QED
  BY <1>1, InvariantOK, PTL

(* lru_victim's assertion "no victim!" never fails, whatever mixture of     *)
(* fills, hits, commits and invalidations a set has seen.                   *)
THEOREM LruOrderComplete == Spec => []LruPermutation
<1>1. ASSUME IInv PROVE LruPermutation
  BY <1>1 DEF IInv, BlocksOK, SetOK, LruComplete, Way, LruPermutation
<1> QED
  BY <1>1, InvariantOK, PTL

(* add_wq's assertion that the write queue is not full never fails.         *)
THEOREM WriteQueuesHaveRoom == Spec => []WriteQueueRoom
<1>1. ASSUME IInv PROVE WriteQueueRoom
  BY <1>1 DEF IInv, RoomOK, WriteQueueRoom
<1> QED
  BY <1>1, InvariantOK, PTL

-------------------------------------------------------------------------------
(* The order of the speculative array *)

LEMMA SpecChange ==
  ASSUME NEW b, SpecBlocksOK(b), NEW c \in Caches, NEW s \in 0 .. NumSetSpec[c]-1, NEW set,
         NEW d \in Caches, NEW t \in 0 .. NumSetSpec[d]-1, NEW w,
         [b EXCEPT ![c][s] = set][d][t][w] # b[d][t][w]
  PROVE  d = c /\ t = s /\ [b EXCEPT ![c][s] = set][c][s] = set
BY DEF SpecBlocksOK

(* A speculative fill takes an invalid way or a younger instruction's way. *)
LEMMA FillSpecKeeps ==
  ASSUME IInv, NEW c \in Caches, NEW s \in Slots(c), FillSpec(c, s)
  PROVE  KeepsOlder
<1> DEFINE e    == MSHR[c][s]
           set  == get_set(e.addr, NumSetSpec[c])
           way  == spec_victim(c, e)
           line == spec_block[c][set]
<1>1. e.addr \in Addr /\ e.id \in Nat
  BY FillMshrOK DEF IInv, FillSpec, Entry
<1>2. CASE NumSetSpec[c] = 0
  BY <1>2 DEF FillSpec, KeepsOlder
<1>3. CASE NumSetSpec[c] # 0
  <2>1. set \in 0 .. NumSetSpec[c]-1
    BY <1>1, <1>3, Shape, SetInRange
  <2>2. line \in [Way(NumWaySpec[c]) -> SpecBlock]
    BY <2>1 DEF IInv, SpecBlocksOK
  <2>3. way \in Way(NumWaySpec[c]) /\ (~line[way].valid \/ line[way].id > e.id)
    BY <1>1, <1>3, Shape, TimestampVictim DEF FillSpec, spec_victim
  <2>4. spec_block' = [spec_block EXCEPT ![c][set] = fill_spec(line, way, e.addr, e.id)]
    BY <1>3 DEF FillSpec
  <2>6. SUFFICES ASSUME NEW d \in Caches, NEW t \in 0 .. NumSetSpec[d]-1,
                        NEW w \in 0 .. NumWaySpec[d]-1,
                        spec_block[d][t][w].valid, spec_block'[d][t][w] # spec_block[d][t][w]
                 PROVE  /\ spec_block'[d][t][w].valid
                        /\ spec_block'[d][t][w].id < spec_block[d][t][w].id
    BY DEF KeepsOlder
  <2>7. d = c /\ t = set /\ spec_block'[c][set] = fill_spec(line, way, e.addr, e.id)
    <3> HIDE DEF e, set, way
    <3> QED
      BY <2>1, <2>4, <2>6, SpecChange DEF IInv
  <2>8. w = way
    <3> HIDE DEF e, way, line
    <3> QED
      BY SMTT(40), <2>2, <2>6, <2>7 DEF fill_spec, Way, line
  <2>9. spec_block'[d][t][w] = [valid |-> TRUE, tag |-> e.addr, id |-> e.id]
    <3>1. spec_block'[d][t][w] = fill_spec(line, way, e.addr, e.id)[way]
      BY <2>7, <2>8
    <3> HIDE DEF e, way, line, set
    <3> QED
      BY <2>2, <2>3, <3>1 DEF fill_spec
  <2>10. line[way].id \in Nat
    BY <2>2, <2>3 DEF SpecBlock
  <2>11. spec_block[d][t][w] = line[way]
    BY <2>7, <2>8 DEF line
  <2>12. line[way].id > e.id
    <3> HIDE DEF e, set, way, line
    <3> QED
      BY <2>3, <2>6, <2>11
  <2>13. e.id < line[way].id
    <3> HIDE DEF e, set, way, line
    <3> QED
      BY <1>1, <2>10, <2>12
  <2> HIDE DEF e, set, way, line
  <2> QED
    BY <2>9, <2>11, <2>13
<1> QED
  BY <1>2, <1>3

(* A commit takes out a block of its own line that is not younger. *)
LEMMA CommitKeeps ==
  ASSUME IInv, NEW c \in Caches, commit_blocks(c)
  PROVE  KeepsOlder
<1> DEFINE p    == Head(CQ[c])
           spec == get_set(p.addr, NumSetSpec[c])
           way  == First(spec_hit_ways(c, p))
           line == spec_block[c][spec]
           new  == [line EXCEPT ![way].valid = FALSE]
<1>1. p \in Packet /\ p.addr \in Addr /\ p.id \in Nat /\ CQ[c] # << >>
  <2>1. p \in Packet /\ CQ[c] # << >>
    BY Zenon, TailOK DEF IInv, commit_blocks
  <2> QED
    BY <2>1 DEF Packet
<1>2. CASE spec_hit_ways(c, p) = {}
  <2>1. UNCHANGED spec_block
    BY <1>2 DEF commit_blocks, arrays
  <2> QED
    BY <2>1 DEF KeepsOlder
<1>3. CASE spec_hit_ways(c, p) # {}
  <2>1. /\ spec \in 0 .. NumSetSpec[c]-1 /\ way \in Way(NumWaySpec[c])
        /\ line[way].tag = p.addr /\ line[way].id \in Nat /\ line[way].id <= p.id
    BY <1>1, <1>3, SpecHitOK DEF IInv
  <2>2. line \in [Way(NumWaySpec[c]) -> SpecBlock]
    BY <2>1 DEF IInv, SpecBlocksOK
  <2>3. spec_block' = [spec_block EXCEPT ![c][spec] = new]
    BY Zenon, <1>3, <2>1 DEF commit_blocks, IInv, SpecBlocksOK
  <2>4. SUFFICES ASSUME NEW d \in Caches, NEW t \in 0 .. NumSetSpec[d]-1,
                        NEW w \in 0 .. NumWaySpec[d]-1,
                        spec_block[d][t][w].valid, spec_block'[d][t][w] # spec_block[d][t][w]
                 PROVE  /\ ~spec_block'[d][t][w].valid /\ CQ[d] # << >>
                        /\ Head(CQ[d]).addr = spec_block[d][t][w].tag
                        /\ Head(CQ[d]).id >= spec_block[d][t][w].id
    BY DEF KeepsOlder
  <2>5. d = c /\ t = spec /\ spec_block'[c][spec] = new
    <3> HIDE DEF p, spec, way, new
    <3> QED
      BY <2>1, <2>3, <2>4, SpecChange DEF IInv
  <2>6. w = way
    <3> HIDE DEF p, spec, way, line
    <3> QED
      BY SMTT(40), <2>2, <2>4, <2>5 DEF Way, line
  <2>7. ~new[way].valid
    BY <2>1, <2>2 DEF SpecBlock
  <2> QED
    BY Zenon, <1>1, <2>1, <2>5, <2>6, <2>7
<1> QED
  BY <1>2, <1>3

(* A speculative block gives way only to an older instruction or to a      *)
(* commit of its line that is not older than the block: timestamp_victim   *)
(* and check_hit compare instruction numbers the same way round.           *)
THEOREM OlderBlocksStay == Spec => TimestampOrder
<1>1. ASSUME UNCHANGED spec_block PROVE KeepsOlder
  BY <1>1 DEF KeepsOlder
<1>2. ASSUME IInv, Core PROVE KeepsOlder
  <2>1. ASSUME NEW c \in Caches, NEW a, NEW o, NEW id,
               CpuRead(c, a, o, id) \/ CpuCommit(c, a, o, id)
        PROVE  KeepsOlder
    BY <1>1, <2>1 DEF CpuRead, CpuCommit, arrays
  <2>2. ASSUME NEW a, NEW o, NEW id, CpuStore(a, o, id) PROVE KeepsOlder
    BY <1>1, <2>2 DEF CpuStore, arrays
  <2>3. ASSUME NEW c \in Caches, NEW a, NEW lvl, IssuePrefetch(c, a, lvl) PROVE KeepsOlder
    BY <1>1, <2>3 DEF IssuePrefetch, arrays
  <2>4. ASSUME NEW a, SwapOut(a) PROVE KeepsOlder
    BY <1>1, <2>4 DEF SwapOut
  <2> QED
    BY <1>2, <2>1, <2>2, <2>3, <2>4 DEF Core
<1>3. ASSUME IInv, NEW c \in Caches, operate(c) PROVE KeepsOlder
  <2>1. CASE handle_fill(c)
    <3>1. ASSUME NEW s \in Slots(c), FillNormal(c, s) \/ FillSpecRetry(c, s) PROVE KeepsOlder
      BY <1>1, <3>1 DEF FillNormal, FillSpecRetry, arrays
    <3> QED
      BY <1>3, <2>1, <3>1, FillSpecKeeps DEF handle_fill
  <2>2. CASE handle_writeback(c)
    <3>1. WriteHit(c) \/ StoreMiss(c) \/ StoreMerge(c) \/ WriteFill(c)
      BY <2>2 DEF handle_writeback
    <3>2. UNCHANGED spec_block
      BY Zenon, <3>1 DEF WriteHit, StoreMiss, StoreMerge, WriteFill, arrays
    <3> QED
      BY <1>1, <3>2
  <2>3. CASE handle_read(c)
    BY <1>1, <2>3 DEF handle_read, ReadHit, ReadSpecHit, ReadMiss, ReadMerge, arrays
  <2>4. CASE commit_blocks(c)
    BY <1>3, <2>4, CommitKeeps
  <2>5. CASE handle_prefetch(c)
    BY <1>1, <2>5 DEF handle_prefetch, PrefetchHit, PrefetchMiss, PrefetchMerge, arrays
  <2>6. CASE UpdateRob(c) \/ \E a \in Addr : BelowReturn(c, a)
    BY <1>1, <2>6 DEF UpdateRob, BelowReturn, arrays
  <2> QED
    BY <1>3, <2>1, <2>2, <2>3, <2>4, <2>5, <2>6 DEF operate
<1>4. IInv /\ [Next]_vars => [KeepsOlder]_vars
  BY <1>2, <1>3 DEF Next
<1> QED
  BY <1>4, InvariantOK, PTL DEF Spec, TimestampOrder
===============================================================================
