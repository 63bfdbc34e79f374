--------------------------- MODULE LsqMemory_proofs ---------------------------
(***************************************************************************)
(* The memory operations of Lsq: they end (release_load_queue), enter the  *)
(* queues (add_load_queue, add_store_queue) and are scheduled.  Then every *)
(* step keeps the invariant Good, and what the invariant says of the       *)
(* states of Spec.                                                         *)
(***************************************************************************)
EXTENDS Lsq_proofs

-------------------------------------------------------------------------------
(* The end of memory operations *)

LessOps(e, k) == [e EXCEPT !.num_mem_ops = @ - k]
OpsRow(e, f, k) ==
  /\ f \in Row /\ RegSame(e, f) /\ f.reg_depend_on_me = e.reg_depend_on_me
  /\ f.mem_depend_on_me = e.mem_depend_on_me /\ f.lq_index = e.lq_index /\ f.sq_index = e.sq_index
  /\ f.num_mem_ops = e.num_mem_ops - k /\ (k = 0 => f = e)

LEMMA OpsRowIs ==
  ASSUME NEW e \in Row, NEW k \in Int
  PROVE  OpsRow(e, LessOps(e, k), k)
<1> DEFINE f == LessOps(e, k)
           m == e.num_mem_ops - k
<1>1. e.num_mem_ops \in Int
  BY DEF Row
<1>2. m \in Int /\ f = [e EXCEPT !.num_mem_ops = m] /\ (k = 0 => m = e.num_mem_ops)
  BY <1>1 DEF LessOps
<1>5. m = e.num_mem_ops - k
  OBVIOUS
<1> HIDE DEF m, f
<1>3. /\ f \in Row /\ RegSame(e, f) /\ f.reg_depend_on_me = e.reg_depend_on_me
      /\ f.mem_depend_on_me = e.mem_depend_on_me /\ f.lq_index = e.lq_index /\ f.sq_index = e.sq_index
      /\ f.num_mem_ops = m
  BY <1>2 DEF Row, RegSame
<1>4. m = e.num_mem_ops => f = e
  BY <1>2 DEF Row
<1>6. OpsRow(e, f, k)
  BY <1>2, <1>3, <1>4, <1>5 DEF OpsRow
<1> QED
  BY <1>6 DEF f

(* What release_load_queue does to the core, n[i] operations of i ending. *)
Ended(c, new, L, n) ==
  /\ IsCore(new) /\ new.rob \in [Id -> Row] /\ new.LQ \in [LqSlot -> Loads]
  /\ \A i \in Id : OpsRow(c.rob[i], new.rob[i], n[i])
  /\ \A l \in LqSlot : new.LQ[l] = IF l \in L THEN EmptyLoad ELSE c.LQ[l]
  /\ new.LQ_occupancy = c.LQ_occupancy - Cardinality(L)
  /\ new.inflight_mem = c.inflight_mem + Cardinality({i \in Id : n[i] > 0 /\ c.rob[i].num_mem_ops = n[i]})
  /\ new.inflight_reg = c.inflight_reg /\ new.RT = c.RT /\ SameStores(c, new)

EndingOps(c, L, s) == [i \in Id |-> Cardinality({l \in L : c.LQ[l].id = i}) + (IF i = s THEN 1 ELSE 0)]

LEMMA EndedIs ==
  ASSUME NEW c, IsCore(c), c.rob \in [Id -> Row], c.LQ \in [LqSlot -> Loads], NEW L, NEW s, NEW new,
         new = release_load_queue(c, L, s), NEW n \in [Id -> Int], n = EndingOps(c, L, s)
  PROVE  Ended(c, new, L, n)
<1> DEFINE rob == [i \in Id |-> [c.rob[i] EXCEPT !.num_mem_ops = @ - n[i]]]
           im == c.inflight_mem + Cardinality({i \in Id : n[i] > 0 /\ c.rob[i].num_mem_ops = n[i]})
           LQ == [l \in LqSlot |-> IF l \in L THEN EmptyLoad ELSE c.LQ[l]]
           lo == c.LQ_occupancy - Cardinality(L)
           x == ops_done(c, n)
<1>1. new = [x EXCEPT !.LQ = LQ, !.LQ_occupancy = @ - Cardinality(L)]
  BY Zenon DEF release_load_queue, EndingOps
<1>2. x = [c EXCEPT !.rob = rob, !.inflight_mem = @ + Cardinality({i \in Id : n[i] > 0 /\ c.rob[i].num_mem_ops = n[i]})]
  BY Zenon DEF ops_done
<1> HIDE DEF rob, LQ
<1>3. /\ IsCore(x) /\ x.rob = rob /\ x.LQ = c.LQ /\ x.LQ_occupancy = c.LQ_occupancy /\ SameStores(c, x)
      /\ x.inflight_mem = im /\ x.inflight_reg = c.inflight_reg /\ x.RT = c.RT
  BY <1>2 DEF IsCore, Names, SameStores
<1> HIDE DEF x, im
<1>4. /\ IsCore(new) /\ new.rob = rob /\ new.LQ = LQ /\ new.LQ_occupancy = lo /\ SameStores(c, new)
      /\ new.inflight_mem = im /\ new.inflight_reg = c.inflight_reg /\ new.RT = c.RT
  BY <1>1, <1>3 DEF IsCore, Names, SameStores
<1>5. ASSUME NEW i \in Id PROVE OpsRow(c.rob[i], rob[i], n[i])
  <2>1. rob[i] = LessOps(c.rob[i], n[i])
    BY DEF rob, LessOps
  <2>2. n[i] \in Int /\ c.rob[i] \in Row
    OBVIOUS
  <2>3. OpsRow(c.rob[i], LessOps(c.rob[i], n[i]), n[i])
    BY <2>2, OpsRowIs, Zenon
  <2> QED
    BY <2>1, <2>3
<1>6. rob \in [Id -> Row]
  <2>1. \A i \in Id : rob[i] \in Row
    BY <1>5 DEF OpsRow
  <2>2. rob = [i \in Id |-> rob[i]]
    BY DEF rob
  <2> QED
    BY <2>1, <2>2
<1>7. LQ \in [LqSlot -> Loads]
  <2>1. EmptyLoad \in Loads
    BY DEF EmptyLoad, Loads
  <2> QED
    BY <2>1 DEF LQ
<1>8. \A l \in LqSlot : LQ[l] = IF l \in L THEN EmptyLoad ELSE c.LQ[l]
  BY DEF LQ
<1> QED
  BY <1>4, <1>5, <1>6, <1>7, <1>8 DEF Ended, im

(* Loads L get their data and the stores F are written. *)
Written(SQ, new, F) ==
  \A s \in SqSlot :
    /\ new[s].id = SQ[s].id /\ new[s].addr = SQ[s].addr
    /\ new[s].fetched <=> s \in F \/ SQ[s].fetched
    /\ s \notin F => new[s] = SQ[s]

Unfetched(SQ) == {s \in SqSlot : SQ[s].addr # 0 /\ ~SQ[s].fetched}

(* No load that stays in the queue waits for a store of F, and a load of L  *)
(* waits for nothing else.                                                  *)
Covered(c, L, F) ==
  /\ \A l \in UsedLoads(c.LQ) \ L : \A s \in F :
       ~(c.LQ[l].producer_id = c.SQ[s].id /\ c.LQ[l].addr = c.SQ[s].addr)
  /\ \A l \in L : c.LQ[l].producer_id = 0 \/ \E s \in F : c.LQ[l].producer_id = c.SQ[s].id

Ends(c, new, L, F, n) ==
  /\ IsCore(new) /\ Typed(new) /\ L \subseteq UsedLoads(c.LQ) /\ F \subseteq Unfetched(c.SQ) /\ Covered(c, L, F)
  /\ \A i \in Id : OpsRow(c.rob[i], new.rob[i], n[i])
  /\ \A i \in Id : n[i] = Cardinality(LoadsOf(c.LQ, i) \cap L) + Cardinality(StoresOf(c.SQ, i) \cap F)
  /\ \A l \in LqSlot : new.LQ[l] = IF l \in L THEN EmptyLoad ELSE c.LQ[l]
  /\ new.LQ_occupancy = c.LQ_occupancy - Cardinality(L)
  /\ new.inflight_mem = c.inflight_mem + Cardinality({i \in Id : n[i] > 0 /\ c.rob[i].num_mem_ops = n[i]})
  /\ new.inflight_reg = c.inflight_reg /\ new.RT["RTE0"] = c.RT["RTE0"] /\ new.RT["RTE1"] = c.RT["RTE1"]
  /\ Written(c.SQ, new.SQ, F) /\ new.SQ_head = c.SQ_head /\ new.SQ_tail = c.SQ_tail
  /\ new.SQ_occupancy = c.SQ_occupancy /\ new.STA = c.STA

(* What the stores need of the entries. *)
StoreFrame(rob, new) ==
  \A i \in Id : /\ new[i].ins = rob[i].ins /\ new[i].destination_added = rob[i].destination_added
                /\ new[i].sq_index = rob[i].sq_index

LEMMA EndStores ==
  ASSUME NEW c, NEW new, NEW h \in Nat \ {0}, NEW ns \in Nat, NEW t \in Nat, t <= MaxInstr + 1, ns <= t, h <= ns,
         c.SQ_head \in SqSlot, NEW F, F \subseteq Unfetched(c.SQ), Written(c.SQ, new.SQ, F),
         new.SQ_head = c.SQ_head, new.SQ_tail = c.SQ_tail, new.SQ_occupancy = c.SQ_occupancy, new.STA = c.STA,
         StoreInv(c, h, t, ns), StoreFrame(c.rob, new.rob)
  PROVE  StoreInv(new, h, t, ns)
<1>s. RingOK(c) /\ StoresOK(c.rob, c.SQ, h, ns) /\ OrderOK(c, h, t)
  BY DEF StoreInv
<1>a. \A k : at(new, k) = at(c, k)
  BY DEF at
<1>r. ASSUME NEW i \in h .. t - 1
      PROVE  /\ new.rob[i].ins = c.rob[i].ins /\ new.rob[i].destination_added = c.rob[i].destination_added
             /\ new.rob[i].sq_index = c.rob[i].sq_index
  <2>1. i \in Id
    BY Sizes DEF Id
  <2> QED
    BY <2>1 DEF StoreFrame
<1>i. \A i \in h .. ns - 1 : i \in h .. t - 1
  OBVIOUS
<1>k. ASSUME NEW k \in 0 .. SQ_SIZE - 1 PROVE at(c, k) \in SqSlot
  BY AtSlot, Sizes
<1>1. RingOK(new)
  BY <1>a, <1>k, <1>s DEF RingOK, Written
<1>2. StoresOK(new.rob, new.SQ, h, ns)
  <2>1. ASSUME NEW s \in SqSlot
        PROVE  IF new.SQ[s].addr = 0 THEN new.SQ[s] = EmptyStore
               ELSE /\ new.SQ[s].id \in h .. ns - 1
                    /\ \E j \in new.rob[new.SQ[s].id].destination_added : new.rob[new.SQ[s].id].sq_index[j] = s
    <3>1. new.SQ[s].id = c.SQ[s].id /\ new.SQ[s].addr = c.SQ[s].addr /\ (c.SQ[s].addr = 0 => new.SQ[s] = c.SQ[s])
      BY DEF Written, Unfetched
    <3>2. CASE c.SQ[s].addr = 0
      BY <1>s, <3>1, <3>2, StoreSlot
    <3>3. CASE c.SQ[s].addr # 0
      <4>1. /\ c.SQ[s].id \in h .. ns - 1
            /\ \E j \in c.rob[c.SQ[s].id].destination_added : c.rob[c.SQ[s].id].sq_index[j] = s
        BY <1>s, <3>3, StoreSlot
      <4>2. /\ new.rob[c.SQ[s].id].destination_added = c.rob[c.SQ[s].id].destination_added
            /\ new.rob[c.SQ[s].id].sq_index = c.rob[c.SQ[s].id].sq_index
        BY Zenon, <1>i, <1>r, <4>1
      <4> QED
        BY Zenon, <3>1, <3>3, <4>1, <4>2
    <3> QED
      BY Zenon, <3>2, <3>3
  <2>2. ASSUME NEW i \in h .. ns - 1, NEW j \in new.rob[i].destination_added
        PROVE  /\ new.rob[i].sq_index[j] \in SqSlot
               /\ new.SQ[new.rob[i].sq_index[j]].id = i
               /\ new.SQ[new.rob[i].sq_index[j]].addr = new.rob[i].ins.dst[j]
               /\ \A k \in new.rob[i].destination_added : new.rob[i].sq_index[j] = new.rob[i].sq_index[k] => j = k
    <3>1. /\ new.rob[i].ins = c.rob[i].ins /\ new.rob[i].destination_added = c.rob[i].destination_added
          /\ new.rob[i].sq_index = c.rob[i].sq_index
      BY <1>i, <1>r
    <3>2. /\ c.rob[i].sq_index[j] \in SqSlot
          /\ c.SQ[c.rob[i].sq_index[j]].id = i /\ c.SQ[c.rob[i].sq_index[j]].addr = c.rob[i].ins.dst[j]
          /\ \A k \in c.rob[i].destination_added : c.rob[i].sq_index[j] = c.rob[i].sq_index[k] => j = k
      BY Zenon, <1>s, <3>1 DEF StoresOK
    <3>3. \A z \in SqSlot : new.SQ[z].id = c.SQ[z].id /\ new.SQ[z].addr = c.SQ[z].addr
      BY DEF Written
    <3> QED
      BY Zenon, <3>1, <3>2, <3>3
  <2> QED
    BY Zenon, <2>1, <2>2 DEF StoresOK
<1>3. OrderOK(new, h, t)
  <2>1. c.SQ_occupancy \in 0 .. SQ_SIZE
    BY <1>s DEF RingOK
  <2>2. ASSUME NEW a \in 0 .. c.SQ_occupancy - 1 PROVE new.SQ[at(new, a)].id = c.SQ[at(c, a)].id
    <3>1. a \in 0 .. SQ_SIZE - 1
      BY <2>1, Sizes
    <3> QED
      BY <1>a, <1>k, <3>1 DEF Written
  <2> QED
    BY <1>r, <1>s, <2>2 DEF OrderOK
<1> QED
  BY <1>1, <1>2, <1>3 DEF StoreInv

AddedAreDst(rob) == \A i \in Id : rob[i].destination_added \subseteq DOMAIN rob[i].ins.dst

LEMMA OneDst ==
  ASSUME NEW e \in Row, OneStore(e), NEW j \in DOMAIN e.ins.dst, NEW k \in DOMAIN e.ins.dst
  PROVE  j = k
<1>1. e.ins \in Instr \cup {NoInstr} /\ e.ins.dst \in Seq(Addr)
  BY RowIs
<1>2. Len(e.ins.dst) <= 1
  BY DEF OneStore
<1> DEFINE q == e.ins.dst
<1>3. q \in Seq(Addr) /\ Len(q) <= 1 /\ j \in DOMAIN q /\ k \in DOMAIN q
  BY <1>1, <1>2
<1> HIDE DEF q
<1>4. DOMAIN q = 1 .. Len(q) /\ Len(q) \in Nat
  BY <1>3
<1> QED
  BY <1>3, <1>4

LEMMA EndWaits ==
  ASSUME NEW c, NEW new, NEW h \in Nat \ {0}, NEW ns \in Nat, ns <= MaxInstr + 1,
         NEW L, NEW F, NEW n, Ends(c, new, L, F, n), StoresOK(c.rob, c.SQ, h, ns), AddedAreDst(c.rob)
  PROVE  StillWaits(c.rob, new.rob, c.LQ, new.LQ, c.SQ, new.SQ, h, ns)
<1>e. /\ F \subseteq Unfetched(c.SQ) /\ Covered(c, L, F) /\ Typed(new)
      /\ \A i \in Id : OpsRow(c.rob[i], new.rob[i], n[i])
      /\ \A l \in LqSlot : new.LQ[l] = IF l \in L THEN EmptyLoad ELSE c.LQ[l]
      /\ Written(c.SQ, new.SQ, F)
  BY DEF Ends
<1> SUFFICES ASSUME NEW p \in h .. ns - 1, NEW j \in DOMAIN c.rob[p].ins.dst,
                    OneStore(c.rob[p]), Unwritten(new.rob[p], new.SQ, j)
             PROVE  Unwritten(c.rob[p], c.SQ, j) /\ \A l \in LqSlot : c.LQ[l].producer_id = p => new.LQ[l] = c.LQ[l]
  BY DEF StillWaits
<1>p. p \in Id /\ p # 0
  BY Sizes DEF Id
<1>r. /\ new.rob[p].ins = c.rob[p].ins /\ new.rob[p].destination_added = c.rob[p].destination_added
      /\ new.rob[p].sq_index = c.rob[p].sq_index /\ new.rob[p] \in Row
  BY <1>e, <1>p DEF OpsRow, RegSame
<1>1. Unwritten(c.rob[p], c.SQ, j)
  <2>1. CASE j \notin c.rob[p].destination_added
    BY Zenon, <2>1 DEF Unwritten
  <2>2. CASE j \in c.rob[p].destination_added
    <3>1. c.rob[p].sq_index[j] \in SqSlot
      BY Zenon, <2>2 DEF StoresOK
    <3>2. ~new.SQ[c.rob[p].sq_index[j]].fetched
      BY Zenon, <1>r, <2>2 DEF Unwritten
    <3>3. ~c.SQ[c.rob[p].sq_index[j]].fetched
      BY Zenon, <1>e, <3>1, <3>2 DEF Written
    <3> QED
      BY Zenon, <3>3 DEF Unwritten
  <2> QED
    BY <2>1, <2>2
<1>2. ASSUME NEW l \in LqSlot, c.LQ[l].producer_id = p PROVE l \notin L
  <2> SUFFICES ASSUME l \in L PROVE FALSE
    OBVIOUS
  <2>1. PICK s \in F : c.SQ[s].id = p
    BY <1>2, <1>e, <1>p DEF Covered
  <2>2. s \in SqSlot /\ c.SQ[s].addr # 0
    BY <1>e DEF Unfetched
  <2>3. PICK k \in c.rob[p].destination_added : c.rob[p].sq_index[k] = s
    BY Zenon, <2>1, <2>2 DEF StoresOK
  <2>4. k = j
    <3>1. k \in DOMAIN c.rob[p].ins.dst
      BY <1>p DEF AddedAreDst
    <3>2. k \in DOMAIN new.rob[p].ins.dst /\ j \in DOMAIN new.rob[p].ins.dst
      BY <1>r, <3>1
    <3> DEFINE e == new.rob[p]
    <3>3. e \in Row /\ OneStore(e) /\ k \in DOMAIN e.ins.dst /\ j \in DOMAIN e.ins.dst
      BY <1>r, <3>2 DEF OneStore
    <3> HIDE DEF e
    <3> QED
      BY <3>3, OneDst
  <2>5. new.SQ[s].fetched
    BY <1>e, <2>2 DEF Written
  <2>6. ~new.SQ[s].fetched
    BY <1>r, <2>3, <2>4 DEF Unwritten
  <2> QED
    BY <2>5, <2>6
<1> QED
  BY <1>1, <1>2, <1>e

LEMMA EndLoads ==
  ASSUME NEW c, NEW new, NEW h \in Nat \ {0}, NEW ns \in Nat, ns <= MaxInstr + 1,
         NEW L, NEW F, NEW n, Ends(c, new, L, F, n), LoadInv(c.rob, c.LQ, c.SQ, h, ns),
         StoresOK(c.rob, c.SQ, h, ns), AddedAreDst(c.rob)
  PROVE  LoadInv(new.rob, new.LQ, new.SQ, h, ns)
<1>e. /\ L \subseteq UsedLoads(c.LQ) /\ F \subseteq Unfetched(c.SQ) /\ Covered(c, L, F)
      /\ \A i \in Id : OpsRow(c.rob[i], new.rob[i], n[i])
      /\ \A l \in LqSlot : new.LQ[l] = IF l \in L THEN EmptyLoad ELSE c.LQ[l]
      /\ Written(c.SQ, new.SQ, F)
  BY DEF Ends
<1>l. LoadsOK(c.rob, c.LQ, h, ns) /\ ProducersOK(c.rob, c.LQ, c.SQ, h)
  BY DEF LoadInv
<1>r. ASSUME NEW i \in h .. ns - 1
      PROVE  /\ new.rob[i].ins = c.rob[i].ins /\ new.rob[i].destination_added = c.rob[i].destination_added
             /\ new.rob[i].sq_index = c.rob[i].sq_index /\ new.rob[i].source_added = c.rob[i].source_added
             /\ new.rob[i].lq_index = c.rob[i].lq_index /\ new.rob[i].mem_depend_on_me = c.rob[i].mem_depend_on_me
  <2>1. i \in Id
    BY Sizes DEF Id
  <2> QED
    BY <1>e, <2>1 DEF OpsRow, RegSame
<1>u. ASSUME NEW l \in LqSlot, new.LQ[l].addr # 0
      PROVE  /\ l \notin L /\ new.LQ[l] = c.LQ[l] /\ c.LQ[l].addr # 0
             /\ c.LQ[l].id \in h .. ns - 1
  <2>1. l \notin L
    BY <1>e, <1>u DEF EmptyLoad
  <2>2. new.LQ[l] = c.LQ[l] /\ c.LQ[l].addr # 0
    BY <1>e, <1>u, <2>1
  <2> QED
    BY Zenon, <1>l, <2>1, <2>2 DEF LoadsOK
<1>1. LoadsOK(new.rob, new.LQ, h, ns)
  <2> SUFFICES ASSUME NEW l \in LqSlot
               PROVE  IF new.LQ[l].addr = 0 THEN new.LQ[l] = EmptyLoad
                      ELSE /\ new.LQ[l].id \in h .. ns - 1
                           /\ \E k \in new.rob[new.LQ[l].id].source_added :
                                new.rob[new.LQ[l].id].lq_index[k] = l /\ new.rob[new.LQ[l].id].ins.src[k] = new.LQ[l].addr
    BY Zenon DEF LoadsOK
  <2>1. CASE new.LQ[l].addr = 0
    BY Zenon, <1>e, <1>l, <2>1 DEF LoadsOK
  <2>2. CASE new.LQ[l].addr # 0
    <3> DEFINE i == c.LQ[l].id
    <3>1. new.LQ[l] = c.LQ[l] /\ c.LQ[l].addr # 0 /\ i \in h .. ns - 1
      BY <1>u, <2>2
    <3>2. PICK k \in c.rob[i].source_added : c.rob[i].lq_index[k] = l /\ c.rob[i].ins.src[k] = c.LQ[l].addr
      BY Zenon, <1>l, <3>1 DEF LoadsOK
    <3>3. /\ new.rob[i].ins = c.rob[i].ins /\ new.rob[i].source_added = c.rob[i].source_added
          /\ new.rob[i].lq_index = c.rob[i].lq_index
      BY <1>r, <3>1
    <3> QED
      BY <3>1, <3>2, <3>3
  <2> QED
    BY Zenon, <2>1, <2>2
<1>2. ProducersOK(new.rob, new.LQ, new.SQ, h)
  <2> SUFFICES ASSUME NEW l \in LqSlot, new.LQ[l].addr # 0
               PROVE  LET i == c.LQ[l].id
                          a == c.LQ[l].addr
                          p == c.LQ[l].producer_id
                      IN  IF p = 0 THEN \A q \in h .. i - 1 : a \notin Range(new.rob[q].ins.dst)
                          ELSE /\ NearestStore(new.rob, h, i, a, p)
                               /\ i \in new.rob[p].mem_depend_on_me
                               /\ \E j \in DOMAIN new.rob[p].ins.dst : new.rob[p].ins.dst[j] = a /\ Unwritten(new.rob[p], new.SQ, j)
    BY <1>u DEF ProducersOK
  <2> DEFINE i == c.LQ[l].id
             a == c.LQ[l].addr
             p == c.LQ[l].producer_id
  <2>1. i \in h .. ns - 1 /\ a # 0 /\ l \notin L
    BY <1>u
  <2>2. ASSUME NEW q \in h .. i - 1 PROVE q \in h .. ns - 1 /\ new.rob[q].ins = c.rob[q].ins
    <3>1. q \in h .. ns - 1
      BY <2>1
    <3> QED
      BY <1>r, <3>1
  <2>3. CASE p = 0
    <3>1. \A q \in h .. i - 1 : a \notin Range(c.rob[q].ins.dst)
      BY Zenon, <1>l, <2>1, <2>3 DEF ProducersOK
    <3> QED
      BY <2>2, <2>3, <3>1
  <2>4. CASE p # 0
    <3>1. NearestStore(c.rob, h, i, a, p) /\ i \in c.rob[p].mem_depend_on_me
      BY Zenon, <1>l, <2>1, <2>4 DEF ProducersOK
    <3>2. PICK j \in DOMAIN c.rob[p].ins.dst : c.rob[p].ins.dst[j] = a /\ Unwritten(c.rob[p], c.SQ, j)
      BY Zenon, <1>l, <2>1, <2>4 DEF ProducersOK
    <3>3. p \in h .. i - 1 /\ p \in h .. ns - 1
      BY Zenon, <2>2, <3>1 DEF NearestStore
    <3>7. NearestStore(new.rob, h, i, a, p)
      <4>1. \A q \in p + 1 .. i - 1 : q \in h .. i - 1
        BY <3>3
      <4> QED
        BY <2>2, <3>1, <3>3, <4>1 DEF NearestStore
    <3>8. Unwritten(c.rob[p], new.SQ, j)
      <4>1. CASE j \notin c.rob[p].destination_added
        BY Zenon, <4>1 DEF Unwritten
      <4>2. CASE j \in c.rob[p].destination_added
        <5> DEFINE s == c.rob[p].sq_index[j]
        <5>1. s \in SqSlot /\ c.SQ[s].id = p /\ c.SQ[s].addr = a /\ ~c.SQ[s].fetched
          BY <3>2, <3>3, <4>2 DEF StoresOK, Unwritten
        <5>2. s \notin F
          <6>1. l \in UsedLoads(c.LQ) \ L
            BY <2>1 DEF UsedLoads
          <6> QED
            BY <1>e, <5>1, <6>1 DEF Covered
        <5>3. new.SQ[s] = c.SQ[s]
          BY <1>e, <5>1, <5>2 DEF Written
        <5> QED
          BY <5>1, <5>3 DEF Unwritten
      <4> QED
        BY Zenon, <4>1, <4>2
    <3>9. Unwritten(new.rob[p], new.SQ, j)
      BY <1>r, <3>3, <3>8 DEF Unwritten
    <3> QED
      BY <1>r, <2>4, <3>1, <3>2, <3>3, <3>7, <3>9
  <2> QED
    BY Zenon, <2>3, <2>4
<1>3. DependFrame(c.rob, new.rob, h, ns, ns)
  <2>1. ns .. ns - 1 = {}
    OBVIOUS
  <2> QED
    BY <1>r, <2>1 DEF DependFrame
<1>4. LinkedOK(new.rob, h, ns) /\ ForwardsOK(new.rob, new.LQ, new.SQ, h, ns)
  <2>1. /\ LinkedOK(c.rob, h, ns) /\ ForwardsOK(c.rob, c.LQ, c.SQ, h, ns)
        /\ h \in Nat /\ h <= h /\ ns <= ns
    BY DEF LoadInv
  <2>2. LinkedOK(new.rob, h, ns)
    BY <1>3, <2>1, LinkedKept
  <2>3. ForwardsOK(new.rob, new.LQ, new.SQ, h, ns)
    <3>1. StillWaits(c.rob, new.rob, c.LQ, new.LQ, c.SQ, new.SQ, h, ns)
      BY EndWaits
    <3> QED
      BY <1>3, <2>1, <3>1, ForwardsKept
  <2> QED
    BY <2>2, <2>3
<1> QED
  BY <1>1, <1>2, <1>4 DEF LoadInv

LEMMA AtMost ==
  ASSUME NEW a \in Nat, NEW b \in Nat, NEW x \in Nat, NEW y \in Nat, NEW u \in Nat, NEW v \in Nat, u <= x, v <= y
  PROVE  /\ a + b + (x - u) + (y - v) = (a + b + x + y) - (u + v)
         /\ u + v <= a + b + x + y
OBVIOUS

(* n[i] operations less are left of i. *)
LEMMA EndOps ==
  ASSUME NEW c, Typed(c), NEW new, NEW i \in Id, NEW L, NEW F, NEW n, Ends(c, new, L, F, n)
  PROVE  /\ n[i] \in Nat /\ n[i] <= OpsOf(c.rob[i], c.LQ, c.SQ, i) /\ OpsOf(c.rob[i], c.LQ, c.SQ, i) \in Nat
         /\ OpsOf(new.rob[i], new.LQ, new.SQ, i) = OpsOf(c.rob[i], c.LQ, c.SQ, i) - n[i]
         /\ n[i] > 0 => LoadsOf(c.LQ, i) # {} \/ StoresOf(c.SQ, i) # {}
<1> DEFINE A == LoadsOf(c.LQ, i)
           B == StoresOf(c.SQ, i)
           p == LeftOf(c.rob[i])
           q == LeftTo(c.rob[i])
           u == A \cap L
           v == B \cap F
<1>e. /\ L \subseteq UsedLoads(c.LQ) /\ F \subseteq Unfetched(c.SQ)
      /\ \A l \in LqSlot : new.LQ[l] = IF l \in L THEN EmptyLoad ELSE c.LQ[l]
      /\ Written(c.SQ, new.SQ, F) /\ OpsRow(c.rob[i], new.rob[i], n[i]) /\ n[i] = Cardinality(u) + Cardinality(v)
  BY DEF Ends
<1>0. i # 0 /\ c.rob[i] \in Row
  <2>1. i # 0
    BY Sizes DEF Id
  <2>2. c.rob[i] \in Row
    BY DEF Typed
  <2> QED
    BY <2>1, <2>2
<1>1. LoadsOf(new.LQ, i) = A \ L
  BY <1>0, <1>e DEF LoadsOf, EmptyLoad
<1>2. StoresOf(new.SQ, i) = B \ F
  BY <1>e DEF StoresOf, Written
<1>3. LeftOf(new.rob[i]) = p /\ LeftTo(new.rob[i]) = q
  BY <1>e DEF OpsRow, RegSame, LeftOf, LeftTo
<1>4. /\ IsFiniteSet(A) /\ IsFiniteSet(B) /\ Cardinality(p) \in Nat /\ Cardinality(q) \in Nat
      /\ Cardinality(A) \in Nat /\ Cardinality(B) \in Nat
  BY <1>0, TermsFinite
<1>u. u \in SUBSET A /\ v \in SUBSET B /\ u = A \cap L /\ v = B \cap F
  OBVIOUS
<1>o. /\ OpsOf(c.rob[i], c.LQ, c.SQ, i) = Cardinality(p) + Cardinality(q) + Cardinality(A) + Cardinality(B)
      /\ OpsOf(new.rob[i], new.LQ, new.SQ, i) = Cardinality(p) + Cardinality(q) + Cardinality(A \ L) + Cardinality(B \ F)
  BY <1>1, <1>2, <1>3 DEF OpsOf
<1>a. A = LoadsOf(c.LQ, i) /\ B = StoresOf(c.SQ, i)
  OBVIOUS
<1> HIDE DEF A, B, p, q, u, v
<1>5. /\ IsFiniteSet(u) /\ IsFiniteSet(v) /\ Cardinality(u) \in Nat /\ Cardinality(v) \in Nat
      /\ Cardinality(u) <= Cardinality(A) /\ Cardinality(v) <= Cardinality(B)
  BY <1>4, <1>u, FS_Subset, FS_CardinalityType
<1>6. Cardinality(A \ L) = Cardinality(A) - Cardinality(u) /\ Cardinality(B \ F) = Cardinality(B) - Cardinality(v)
  BY <1>4, <1>u, FS_Difference
<1>7. n[i] > 0 => A # {} \/ B # {}
  <2>1. A = {} /\ B = {} => Cardinality(u) = 0 /\ Cardinality(v) = 0
    BY <1>u, FS_EmptySet
  <2> QED
    BY <1>e, <1>5, <2>1
<1>8. /\ Cardinality(p) + Cardinality(q) + (Cardinality(A) - Cardinality(u)) + (Cardinality(B) - Cardinality(v))
           = (Cardinality(p) + Cardinality(q) + Cardinality(A) + Cardinality(B)) - (Cardinality(u) + Cardinality(v))
      /\ Cardinality(u) + Cardinality(v) <= Cardinality(p) + Cardinality(q) + Cardinality(A) + Cardinality(B)
  BY <1>4, <1>5, AtMost
<1> QED
  BY <1>4, <1>5, <1>6, <1>7, <1>8, <1>a, <1>e, <1>o

LEMMA IdFinite == IsFiniteSet(Id) /\ \A S \in SUBSET Id : IsFiniteSet(S) /\ Cardinality(S) \in Nat
<1>1. IsFiniteSet(Id)
  <2>1. 1 \in Int /\ MaxInstr \in Int
    BY Sizes
  <2> QED
    BY <2>1, FS_Interval DEF Id
<1> QED
  BY <1>1, FS_Subset, FS_CardinalityType

(* Only instructions with memory operands have loads or stores. *)
LEMMA OpsAreMemory ==
  ASSUME NEW c, NEW h, NEW t, NEW ns, NEW d, NEW r, Good(c, h, t, ns, d, r), NEW i \in Id,
         LoadsOf(c.LQ, i) # {} \/ StoresOf(c.SQ, i) # {}
  PROVE  i \in h .. ns - 1 /\ is_memory(c.rob[i])
<1>g. /\ IsCore(c) /\ Typed(c) /\ Win(h, t, ns) /\ EntriesOK(c.rob, h, t, ns)
      /\ LoadInv(c.rob, c.LQ, c.SQ, h, ns) /\ StoreInv(c, h, t, ns)
  BY GoodIs
<1>0. i # 0 /\ c.rob[i] \in Row
  <2>1. i # 0
    BY Sizes DEF Id
  <2>2. c.rob[i] \in Row
    BY <1>g DEF Typed
  <2> QED
    BY <2>1, <2>2
<1>1. i \in h .. ns - 1 /\ (c.rob[i].source_added # {} \/ c.rob[i].destination_added # {})
  <2>1. CASE LoadsOf(c.LQ, i) # {}
    <3>1. PICK l \in LqSlot : c.LQ[l].id = i
      BY <2>1 DEF LoadsOf
    <3>2. LoadsOK(c.rob, c.LQ, h, ns) /\ StoresOK(c.rob, c.SQ, h, ns)
      BY <1>g DEF LoadInv, StoreInv
    <3>3. c.LQ[l].id \in h .. ns - 1 /\ c.rob[c.LQ[l].id].source_added # {}
      BY <1>0, <3>1, <3>2, UsedSlots
    <3> QED
      BY Zenon, <3>1, <3>3
  <2>2. CASE StoresOf(c.SQ, i) # {}
    <3>1. PICK s \in SqSlot : c.SQ[s].id = i
      BY <2>2 DEF StoresOf
    <3>2. LoadsOK(c.rob, c.LQ, h, ns) /\ StoresOK(c.rob, c.SQ, h, ns)
      BY <1>g DEF LoadInv, StoreInv
    <3>3. c.SQ[s].id \in h .. ns - 1 /\ c.rob[c.SQ[s].id].destination_added # {}
      BY <1>0, <3>1, <3>2, UsedSlots
    <3> QED
      BY Zenon, <3>1, <3>3
  <2> QED
    BY <2>1, <2>2
<1>2. c.rob[i].source_added \subseteq DOMAIN c.rob[i].ins.src /\ c.rob[i].destination_added \subseteq DOMAIN c.rob[i].ins.dst
  BY <1>g DEF EntriesOK
<1>3. is_memory(c.rob[i])
  <2> SUFFICES ASSUME ~is_memory(c.rob[i]) PROVE FALSE
    OBVIOUS
  <2>1. c.rob[i].ins.src = << >> /\ c.rob[i].ins.dst = << >>
    BY <1>0, NoOps
  <2>2. DOMAIN c.rob[i].ins.src = {} /\ DOMAIN c.rob[i].ins.dst = {}
    BY <2>1, EmptyList
  <2> QED
    BY <1>1, <1>2, <2>2
<1> QED
  BY <1>1, <1>3

LEMMA EndCounts ==
  ASSUME NEW c, NEW new, NEW h, NEW t, NEW ns, NEW d, NEW r, Good(c, h, t, ns, d, r),
         NEW L, NEW F, NEW n, Ends(c, new, L, F, n)
  PROVE  CountInv(new, h, t)
<1>g. /\ IsCore(c) /\ Typed(c) /\ Win(h, t, ns) /\ CountInv(c, h, t)
  BY GoodIs
<1>w. /\ h \in Nat \ {0} /\ t \in Nat /\ ns \in Nat /\ h .. t - 1 \subseteq Id /\ h .. ns - 1 \subseteq h .. t - 1 /\ h \in Nat
  BY <1>g DEF Win
<1>c. /\ OpsOK(c.rob, c.LQ, c.SQ, h, t)
      /\ c.LQ_occupancy = Cardinality(UsedLoads(c.LQ))
      /\ c.inflight_mem = Cardinality(MemInflight(c.rob, h, t))
      /\ c.inflight_reg = Cardinality(RegInflight(c.rob, h, t))
  BY <1>g DEF CountInv
<1> DEFINE N == {i \in Id : n[i] > 0 /\ c.rob[i].num_mem_ops = n[i]}
           M == MemInflight(c.rob, h, t)
           M2 == MemInflight(new.rob, h, t)
<1>e. /\ L \subseteq UsedLoads(c.LQ) /\ F \subseteq Unfetched(c.SQ)
      /\ \A i \in Id : OpsRow(c.rob[i], new.rob[i], n[i])
      /\ \A l \in LqSlot : new.LQ[l] = IF l \in L THEN EmptyLoad ELSE c.LQ[l]
      /\ new.LQ_occupancy = c.LQ_occupancy - Cardinality(L)
      /\ new.inflight_mem = c.inflight_mem + Cardinality(N)
      /\ new.inflight_reg = c.inflight_reg
  BY DEF Ends
<1>1. ASSUME NEW i \in h .. t - 1
      PROVE  /\ n[i] \in Nat /\ c.rob[i].num_mem_ops \in Nat /\ n[i] <= c.rob[i].num_mem_ops
             /\ new.rob[i].num_mem_ops = c.rob[i].num_mem_ops - n[i]
             /\ new.rob[i].num_mem_ops = OpsOf(new.rob[i], new.LQ, new.SQ, i)
             /\ Done(c.rob[i]) => c.rob[i].num_mem_ops = 0
             /\ Done(new.rob[i]) <=> Done(c.rob[i])
             /\ is_memory(new.rob[i]) <=> is_memory(c.rob[i])
             /\ new.rob[i].executed = c.rob[i].executed
             /\ n[i] > 0 => is_memory(c.rob[i])
  <2>0. i \in Id
    BY <1>w
  <2>1. /\ n[i] \in Nat /\ n[i] <= OpsOf(c.rob[i], c.LQ, c.SQ, i) /\ OpsOf(c.rob[i], c.LQ, c.SQ, i) \in Nat
        /\ OpsOf(new.rob[i], new.LQ, new.SQ, i) = OpsOf(c.rob[i], c.LQ, c.SQ, i) - n[i]
        /\ n[i] > 0 => LoadsOf(c.LQ, i) # {} \/ StoresOf(c.SQ, i) # {}
    BY <1>g, <2>0, EndOps
  <2>2. c.rob[i].num_mem_ops = OpsOf(c.rob[i], c.LQ, c.SQ, i) /\ (Done(c.rob[i]) => c.rob[i].num_mem_ops = 0)
    BY <1>c, OpsIs
  <2>3. /\ new.rob[i].num_mem_ops = c.rob[i].num_mem_ops - n[i] /\ new.rob[i].executed = c.rob[i].executed
        /\ new.rob[i].ins = c.rob[i].ins
    BY <1>e, <2>0 DEF OpsRow, RegSame
  <2>4. n[i] > 0 => is_memory(c.rob[i])
    BY <2>0, <2>1, OpsAreMemory
  <2> QED
    BY <2>1, <2>2, <2>3, <2>4 DEF Done, is_memory
<1>2. OpsOK(new.rob, new.LQ, new.SQ, h, t)
  <2> SUFFICES ASSUME NEW i \in h .. t - 1
               PROVE  new.rob[i].num_mem_ops = OpsOf(new.rob[i], new.LQ, new.SQ, i) /\ (Done(new.rob[i]) => new.rob[i].num_mem_ops = 0)
    BY OpsIs
  <2>1. Done(new.rob[i]) => c.rob[i].num_mem_ops = 0
    BY <1>1
  <2>2. c.rob[i].num_mem_ops = 0 => new.rob[i].num_mem_ops = 0
    BY <1>1
  <2> QED
    BY <1>1, <2>1, <2>2
<1>3. ASSUME NEW i \in N PROVE i \in h .. t - 1
  <2>0. i \in Id /\ n[i] > 0
    OBVIOUS
  <2>1. n[i] > 0 => LoadsOf(c.LQ, i) # {} \/ StoresOf(c.SQ, i) # {}
    BY <1>g, <2>0, EndOps
  <2>2. i \in h .. ns - 1
    BY <2>0, <2>1, OpsAreMemory
  <2> QED
    BY <1>w, <2>2
<1>4. M2 = M \cup N /\ M \cap N = {}
  <2>1. ASSUME NEW i \in M2 PROVE i \in M \cup N
    <3>0. i \in h .. t - 1 /\ is_memory(new.rob[i]) /\ new.rob[i].num_mem_ops = 0 /\ ~Done(new.rob[i])
      BY DEF MemInflight
    <3>1. c.rob[i].num_mem_ops = n[i] /\ n[i] \in Nat /\ is_memory(c.rob[i]) /\ ~Done(c.rob[i]) /\ i \in Id
      BY <1>1, <1>w, <3>0
    <3>2. n[i] = 0 \/ n[i] > 0
      BY <3>1
    <3> QED
      BY <3>0, <3>1, <3>2 DEF MemInflight
  <2>2. ASSUME NEW i \in M PROVE i \in M2 /\ i \notin N
    <3>0. i \in h .. t - 1 /\ is_memory(c.rob[i]) /\ c.rob[i].num_mem_ops = 0 /\ ~Done(c.rob[i])
      BY DEF MemInflight
    <3>1. n[i] = 0 /\ new.rob[i].num_mem_ops = 0
      BY <1>1, <3>0
    <3> QED
      BY <1>1, <3>0, <3>1 DEF MemInflight
  <2>3. ASSUME NEW i \in N PROVE i \in M2
    <3>0. i \in h .. t - 1 /\ n[i] > 0 /\ c.rob[i].num_mem_ops = n[i]
      BY <1>3
    <3>1. new.rob[i].num_mem_ops = 0 /\ is_memory(new.rob[i]) /\ ~Done(new.rob[i])
      BY <1>1, <3>0
    <3> QED
      BY <3>0, <3>1 DEF MemInflight
  <2> HIDE DEF N, M, M2
  <2> QED
    BY <2>1, <2>2, <2>3
<1>5. new.inflight_mem = Cardinality(M2)
  <2>0. N \in SUBSET Id /\ M \in SUBSET (h .. t - 1)
    BY DEF MemInflight
  <2>n. new.inflight_mem = Cardinality(M) + Cardinality(N)
    BY <1>c, <1>e
  <2> HIDE DEF N, M, M2
  <2>1. IsFiniteSet(N) /\ IsFiniteSet(M) /\ Cardinality(N) \in Nat /\ Cardinality(M) \in Nat
    BY <1>w, <2>0, IdFinite, InRobFinite
  <2>2. Cardinality(M \cup N) = Cardinality(M) + Cardinality(N) - Cardinality(M \cap N)
    BY <2>1, FS_Union
  <2>3. Cardinality(M \cap N) = 0
    BY <1>4, FS_EmptySet
  <2> QED
    BY <1>4, <2>1, <2>2, <2>3, <2>n
<1>6. RegInflight(new.rob, h, t) = RegInflight(c.rob, h, t)
  BY <1>1 DEF RegInflight
<1>7. new.LQ_occupancy = Cardinality(UsedLoads(new.LQ))
  <2> DEFINE U == UsedLoads(c.LQ)
  <2>1. UsedLoads(new.LQ) = U \ L
    BY <1>e DEF UsedLoads, EmptyLoad
  <2>2. U \in SUBSET LqSlot /\ L \in SUBSET U /\ U \cap L = L
    BY <1>e DEF UsedLoads
  <2> HIDE DEF U
  <2>3. IsFiniteSet(U)
    BY <2>2, SlotsFinite, FS_Subset
  <2>4. Cardinality(U \ L) = Cardinality(U) - Cardinality(L)
    <3>1. Cardinality(U \ L) = Cardinality(U) - Cardinality(U \cap L)
      BY <2>3, FS_Difference
    <3> QED
      BY <2>2, <3>1
  <2> QED
    BY <1>c, <1>e, <2>1, <2>4 DEF U
<1> QED
  BY <1>2, <1>5, <1>6, <1>7, <1>c, <1>e DEF CountInv

LEMMA EndStep ==
  ASSUME NEW c, NEW new, NEW h, NEW t, NEW ns, NEW d, NEW r, Good(c, h, t, ns, d, r),
         NEW L, NEW F, NEW n, Ends(c, new, L, F, n), NEW r2, r2 \subseteq LqSlot, PlacesOK(new, d, r2)
  PROVE  Good(new, h, t, ns, d, r2)
<1>g. /\ IsCore(c) /\ Typed(c) /\ Win(h, t, ns) /\ EntriesOK(c.rob, h, t, ns)
      /\ RegInv(c.rob, c.RT, h, ns) /\ LoadInv(c.rob, c.LQ, c.SQ, h, ns)
      /\ StoreInv(c, h, t, ns) /\ CountInv(c, h, t)
  BY GoodIs
<1>w. /\ h \in Nat \ {0} /\ t \in Nat /\ ns \in Nat /\ h <= ns /\ ns <= t /\ t <= MaxInstr + 1 /\ ns <= MaxInstr + 1
      /\ h .. t - 1 \subseteq Id /\ h .. ns - 1 \subseteq Id /\ h \in Nat
  BY <1>g DEF Win
<1>e. /\ IsCore(new) /\ Typed(new) /\ F \subseteq Unfetched(c.SQ)
      /\ \A i \in Id : OpsRow(c.rob[i], new.rob[i], n[i])
      /\ new.RT["RTE0"] = c.RT["RTE0"] /\ new.RT["RTE1"] = c.RT["RTE1"]
      /\ Written(c.SQ, new.SQ, F) /\ new.SQ_head = c.SQ_head /\ new.SQ_tail = c.SQ_tail
      /\ new.SQ_occupancy = c.SQ_occupancy /\ new.STA = c.STA
  BY DEF Ends
<1>1. new \in Shape
  BY <1>e, ShapeIff
<1>2. RegInv(new.rob, new.RT, h, ns)
  <2>1. RegFrame(c.rob, new.rob, h, ns)
    BY <1>e, <1>w DEF RegFrame, OpsRow, RegSame, Done
  <2> QED
    BY <1>e, <1>g, <1>w, <2>1, RegKept
<1>3. EntriesOK(new.rob, h, t, ns)
  <2> SUFFICES ASSUME NEW i \in Id
               PROVE  LET v == new.rob[i]
                      IN  /\ i \notin h .. t - 1 => v.ins = NoInstr
                          /\ i \notin h .. ns - 1 => v = Entry(v.ins)
                          /\ v.source_added \subseteq DOMAIN v.ins.src /\ DOMAIN v.lq_index = DOMAIN v.ins.src
                          /\ v.destination_added \subseteq DOMAIN v.ins.dst /\ DOMAIN v.sq_index = DOMAIN v.ins.dst
    BY DEF EntriesOK
  <2>1. /\ OpsRow(c.rob[i], new.rob[i], n[i]) /\ n[i] \in Nat
        /\ (n[i] > 0 => LoadsOf(c.LQ, i) # {} \/ StoresOf(c.SQ, i) # {})
    BY <1>e, <1>g, EndOps
  <2>2. n[i] > 0 => i \in h .. ns - 1
    BY <2>1, OpsAreMemory
  <2>3. i \notin h .. ns - 1 => new.rob[i] = c.rob[i]
    BY <2>1, <2>2 DEF OpsRow
  <2>4. /\ new.rob[i].ins = c.rob[i].ins /\ new.rob[i].source_added = c.rob[i].source_added
        /\ new.rob[i].destination_added = c.rob[i].destination_added
        /\ new.rob[i].lq_index = c.rob[i].lq_index /\ new.rob[i].sq_index = c.rob[i].sq_index
    BY <2>1 DEF OpsRow, RegSame
  <2> QED
    BY <1>g, <2>3, <2>4 DEF EntriesOK
<1>4. LoadInv(new.rob, new.LQ, new.SQ, h, ns)
  <2>1. AddedAreDst(c.rob)
    BY <1>g DEF AddedAreDst, EntriesOK
  <2> QED
    BY <1>g, <1>w, <2>1, EndLoads DEF StoreInv
<1>5. StoreInv(new, h, t, ns)
  <2>1. c.SQ_head \in SqSlot
    BY <1>g DEF Typed
  <2>2. StoreFrame(c.rob, new.rob)
    BY <1>e DEF StoreFrame, OpsRow, RegSame
  <2> QED
    BY <1>e, <1>g, <1>w, <2>1, <2>2, EndStores
<1>6. CountInv(new, h, t)
  BY EndCounts
<1>7. Window(h, t, ns) /\ d \subseteq {"LQ", "SQ"} \X Nat
  BY DEF Good
<1> QED
  BY <1>1, <1>2, <1>3, <1>4, <1>5, <1>6, <1>7 DEF Good

(* complete_read *)
LEMMA ReadStep ==
  ASSUME NEW c, NEW h, NEW t, NEW ns, NEW d, NEW r, Good(c, h, t, ns, d, r), NEW L \in SUBSET r, NEW new,
         new = release_load_queue(c, L, 0)
  PROVE  Good(new, h, t, ns, d, r \ L)
<1> DEFINE n == EndingOps(c, L, 0)
           F == {}
           r2 == r \ L
<1>g. /\ IsCore(c) /\ Typed(c) /\ PlacesOK(c, d, r)
  BY GoodIs
<1>r. r \subseteq LqSlot /\ \A l \in r : c.LQ[l].addr # 0 /\ c.LQ[l].producer_id = 0
  <2>1. r \subseteq {l \in LqSlot : c.LQ[l].addr # 0 /\ c.LQ[l].producer_id = 0}
    BY <1>g DEF PlacesOK
  <2> QED
    BY <2>1
<1>1. L \subseteq UsedLoads(c.LQ) /\ L \subseteq LqSlot
  BY <1>r DEF UsedLoads
<1>2. ASSUME NEW i \in Id
      PROVE  n[i] = Cardinality(LoadsOf(c.LQ, i) \cap L) + Cardinality(StoresOf(c.SQ, i) \cap F) /\ n[i] \in Int
  <2>1. i # 0
    BY Sizes DEF Id
  <2>2. n[i] = Cardinality({l \in L : c.LQ[l].id = i}) + 0
    BY <2>1 DEF EndingOps
  <2>3. {l \in L : c.LQ[l].id = i} = LoadsOf(c.LQ, i) \cap L
    BY <1>1 DEF LoadsOf
  <2>4. Cardinality(StoresOf(c.SQ, i) \cap F) = 0
    BY FS_EmptySet
  <2>5. LoadsOf(c.LQ, i) \cap L \in SUBSET LqSlot
    BY DEF LoadsOf
  <2>6. Cardinality(LoadsOf(c.LQ, i) \cap L) \in Nat
    <3> DEFINE A == LoadsOf(c.LQ, i) \cap L
    <3> HIDE DEF A
    <3>1. A \in SUBSET LqSlot
      BY <2>5 DEF A
    <3>2. Cardinality(A) \in Nat
      BY <3>1, SlotsFinite, FS_Subset, FS_CardinalityType
    <3> QED
      BY <3>2 DEF A
  <2> DEFINE A == LoadsOf(c.LQ, i) \cap L
             B == StoresOf(c.SQ, i) \cap F
  <2>7. n[i] = Cardinality(A) + 0 /\ Cardinality(B) = 0 /\ Cardinality(A) \in Nat
    BY <2>2, <2>3, <2>4, <2>6
  <2> HIDE DEF n, F, A, B
  <2>8. n[i] = Cardinality(A) + Cardinality(B) /\ n[i] \in Int
    BY <2>7
  <2> QED
    BY <2>8 DEF A, B
<1>3. n \in [Id -> Int] /\ n = EndingOps(c, L, 0)
  <2>1. n = [i \in Id |-> n[i]]
    BY DEF EndingOps
  <2> HIDE DEF n
  <2>2. n \in [Id -> Int]
    BY <1>2, <2>1
  <2> QED
    BY <2>2 DEF n
<1> HIDE DEF n
<1>4. Ended(c, new, L, n)
  BY <1>3, <1>g, EndedIs DEF Typed
<1>5. /\ IsCore(new) /\ new.rob \in [Id -> Row] /\ new.LQ \in [LqSlot -> Loads]
      /\ \A i \in Id : OpsRow(c.rob[i], new.rob[i], n[i])
      /\ \A l \in LqSlot : new.LQ[l] = IF l \in L THEN EmptyLoad ELSE c.LQ[l]
      /\ new.LQ_occupancy = c.LQ_occupancy - Cardinality(L)
      /\ new.inflight_mem = c.inflight_mem + Cardinality({i \in Id : n[i] > 0 /\ c.rob[i].num_mem_ops = n[i]})
      /\ new.inflight_reg = c.inflight_reg /\ new.RT = c.RT /\ SameStores(c, new)
  BY <1>4 DEF Ended
<1>s. /\ new.SQ = c.SQ /\ new.SQ_head = c.SQ_head /\ new.SQ_tail = c.SQ_tail
      /\ new.SQ_occupancy = c.SQ_occupancy /\ new.STA = c.STA
  BY <1>5 DEF SameStores
<1>6. Typed(new)
  <2>1. Cardinality(L) \in Nat
    <3>1. L \in SUBSET LqSlot
      BY <1>1
    <3> QED
      BY <3>1, SlotsFinite, FS_Subset, FS_CardinalityType
  <2>2. Cardinality({i \in Id : n[i] > 0 /\ c.rob[i].num_mem_ops = n[i]}) \in Nat
    BY IdFinite
  <2>3. new.LQ_occupancy \in Int /\ new.inflight_mem \in Int
    BY <1>5, <1>g, <2>1, <2>2 DEF Typed
  <2> QED
    BY <1>5, <1>g, <1>s, <2>3 DEF Typed
<1>7. Ends(c, new, L, F, n)
  <2>1. Written(c.SQ, new.SQ, F) /\ Covered(c, L, F) /\ F \subseteq Unfetched(c.SQ)
    BY <1>r, <1>s DEF Written, Covered
  <2> QED
    BY <1>1, <1>2, <1>5, <1>6, <1>s, <2>1 DEF Ends
<1>8. PlacesOK(new, d, r2)
  <2>1. {l \in LqSlot : new.LQ[l].addr # 0 /\ new.LQ[l].producer_id = 0}
          = {l \in LqSlot : c.LQ[l].addr # 0 /\ c.LQ[l].producer_id = 0} \ L
    BY <1>5 DEF EmptyLoad
  <2> QED
    BY <1>5, <1>g, <1>s, <2>1 DEF PlacesOK
<1>9. r2 \subseteq LqSlot
  BY <1>r
<1> HIDE DEF r2, F
<1>10. Good(new, h, t, ns, d, r2)
  BY <1>7, <1>8, <1>9, EndStep, Zenon
<1> QED
  BY <1>10 DEF r2

(* execute_store *)
FetchedOf(c, s) == [c EXCEPT !.SQ[s].fetched = TRUE, !.RT["RTS1"] = Tail(@)]
SlotsFrom(c, s) == {lq_slot(c, f) : f \in Forwarded(c, s)}
StoredOf(c, s) == release_load_queue(FetchedOf(c, s), SlotsFrom(c, s), c.SQ[s].id)

LEMMA FetchedStore ==
  ASSUME NEW e \in Stores, NEW f, f = [e EXCEPT !.fetched = TRUE]
  PROVE  f \in Stores /\ f.id = e.id /\ f.addr = e.addr /\ f.fetched = TRUE
BY DEF Stores

LEMMA SeqAt ==
  ASSUME NEW S, NEW q \in Seq(S), NEW k \in DOMAIN q
  PROVE  q[k] \in S
BY LenIs

LEMMA ForwardedIs ==
  ASSUME NEW c, NEW s, NEW k, NEW j
  PROVE  <<k, j>> \in Forwarded(c, s) <=>
           /\ k \in c.rob[c.SQ[s].id].mem_depend_on_me /\ j \in c.rob[k].source_added
           /\ c.rob[k].ins.src[j] = c.SQ[s].addr
<1> DEFINE M == c.rob[c.SQ[s].id].mem_depend_on_me
           J(d) == {i \in c.rob[d].source_added : c.rob[d].ins.src[i] = c.SQ[s].addr}
           T(d) == {<<d, i>> : i \in J(d)}
<1>1. Forwarded(c, s) = UNION {T(d) : d \in M}
  BY Zenon DEF Forwarded
<1>2. j \in J(k) <=> j \in c.rob[k].source_added /\ c.rob[k].ins.src[j] = c.SQ[s].addr
  OBVIOUS
<1> HIDE DEF M, J
<1>3. \A d : <<k, j>> \in T(d) <=> d = k /\ j \in J(k)
  OBVIOUS
<1> HIDE DEF T
<1>4. <<k, j>> \in UNION {T(d) : d \in M} <=> \E d \in M : <<k, j>> \in T(d)
  OBVIOUS
<1> QED
  BY Zenon, <1>1, <1>2, <1>3, <1>4 DEF M

LEMMA ForwardedPair ==
  ASSUME NEW c, NEW s, NEW f \in Forwarded(c, s), NEW g \in Forwarded(c, s), f[1] = g[1], f[2] = g[2]
  PROVE  f = g
<1> DEFINE J(d) == {k \in c.rob[d].source_added : c.rob[d].ins.src[k] = c.SQ[s].addr}
<1> HIDE DEF J
<1>1. ASSUME NEW x \in Forwarded(c, s) PROVE x = <<x[1], x[2]>>
  <2>1. PICK d \in c.rob[c.SQ[s].id].mem_depend_on_me : x \in {<<d, j>> : j \in J(d)}
    BY Zenon DEF Forwarded, J
  <2>2. PICK j \in J(d) : x = <<d, j>>
    BY <2>1
  <2> QED
    BY <2>2
<1>2. f = <<f[1], f[2]>> /\ g = <<g[1], g[2]>>
  BY Zenon, <1>1
<1> QED
  BY Zenon, <1>2

LEMMA ForwardedHas ==
  ASSUME NEW c, NEW s, NEW f \in Forwarded(c, s)
  PROVE  /\ f[1] \in c.rob[c.SQ[s].id].mem_depend_on_me /\ f[2] \in c.rob[f[1]].source_added
         /\ c.rob[f[1]].ins.src[f[2]] = c.SQ[s].addr
<1> DEFINE J(d) == {k \in c.rob[d].source_added : c.rob[d].ins.src[k] = c.SQ[s].addr}
<1>1. PICK d \in c.rob[c.SQ[s].id].mem_depend_on_me : f \in {<<d, j>> : j \in J(d)}
  BY Zenon DEF Forwarded
<1>2. PICK j \in J(d) : f = <<d, j>>
  BY <1>1
<1>3. f[1] = d /\ f[2] = j
  BY <1>2
<1>4. j \in c.rob[d].source_added /\ c.rob[d].ins.src[j] = c.SQ[s].addr
  OBVIOUS
<1> QED
  BY <1>3, <1>4

FetchedAt(c, x, s) ==
  /\ IsCore(x) /\ x.rob = c.rob /\ x.LQ = c.LQ /\ x.LQ_occupancy = c.LQ_occupancy /\ x.STA = c.STA
  /\ x.SQ_head = c.SQ_head /\ x.SQ_tail = c.SQ_tail /\ x.SQ_occupancy = c.SQ_occupancy
  /\ x.inflight_reg = c.inflight_reg /\ x.inflight_mem = c.inflight_mem
  /\ x.SQ \in [SqSlot -> Stores] /\ Written(c.SQ, x.SQ, {s})
  /\ x.RT \in [Lists -> Seq(Nat)] /\ x.RT["RTS1"] = Tail(c.RT["RTS1"])
  /\ \A y \in Lists : y # "RTS1" => x.RT[y] = c.RT[y]

LEMMA FetchedIs ==
  ASSUME NEW c, IsCore(c), Typed(c), NEW s \in SqSlot, c.RT["RTS1"] # << >>, NEW x, x = FetchedOf(c, s)
  PROVE  FetchedAt(c, x, s)
<1> DEFINE q == Tail(c.RT["RTS1"])
           SQ == [c.SQ EXCEPT ![s].fetched = TRUE]
           RT == [c.RT EXCEPT !["RTS1"] = q]
<1>t. c.RT \in [Lists -> Seq(Nat)] /\ c.SQ \in [SqSlot -> Stores] /\ "RTS1" \in Lists
  BY DEF Typed, Lists
<1>1. /\ IsCore(x) /\ x.rob = c.rob /\ x.LQ = c.LQ /\ x.LQ_occupancy = c.LQ_occupancy /\ x.STA = c.STA
      /\ x.SQ_head = c.SQ_head /\ x.SQ_tail = c.SQ_tail /\ x.SQ_occupancy = c.SQ_occupancy
      /\ x.inflight_reg = c.inflight_reg /\ x.inflight_mem = c.inflight_mem
      /\ x.SQ = SQ /\ x.RT = RT
  BY DEF IsCore, Names, FetchedOf
<1>2. SQ[s] = [c.SQ[s] EXCEPT !.fetched = TRUE] /\ \A k \in SqSlot : k # s => SQ[k] = c.SQ[k]
  BY <1>t
<1>3. /\ SQ[s] \in Stores /\ SQ[s].id = c.SQ[s].id /\ SQ[s].addr = c.SQ[s].addr /\ SQ[s].fetched = TRUE
  <2>1. c.SQ[s] \in Stores
    BY <1>t
  <2> HIDE DEF SQ
  <2> QED
    BY <1>2, <2>1, FetchedStore
<1>4. SQ \in [SqSlot -> Stores]
  <2>1. SQ = [k \in SqSlot |-> SQ[k]]
    BY <1>t
  <2> HIDE DEF SQ
  <2> QED
    BY <1>2, <1>3, <1>t, <2>1
<1>5. Written(c.SQ, SQ, {s})
  <2> HIDE DEF SQ
  <2> QED
    BY <1>2, <1>3 DEF Written
<1>6. q \in Seq(Nat)
  <2>1. c.RT["RTS1"] \in Seq(Nat)
    BY <1>t
  <2> QED
    BY <2>1
<1> HIDE DEF q, SQ
<1>7. RT \in [Lists -> Seq(Nat)] /\ RT["RTS1"] = q /\ \A y \in Lists : y # "RTS1" => RT[y] = c.RT[y]
  BY <1>6, <1>t
<1> HIDE DEF RT
<1> QED
  BY <1>1, <1>4, <1>5, <1>7 DEF FetchedAt, q

LEMMA StoreStep ==
  ASSUME NEW c, NEW h, NEW t, NEW ns, NEW d, NEW r, Good(c, h, t, ns, d, r), c.RT["RTS1"] # << >>,
         NEW s, s = Head(c.RT["RTS1"]), ProducerMatches(c, s), NEW new, new = StoredOf(c, s)
  PROVE  Good(new, h, t, ns, d, r)
<1> DEFINE P == c.SQ[s].id
           x == FetchedOf(c, s)
           L == SlotsFrom(c, s)
           n == EndingOps(x, L, P)
           F == {s}
<1>g. /\ IsCore(c) /\ Typed(c) /\ PlacesOK(c, d, r) /\ LoadInv(c.rob, c.LQ, c.SQ, h, ns)
      /\ StoreInv(c, h, t, ns) /\ Win(h, t, ns) /\ EntriesOK(c.rob, h, t, ns)
  BY GoodIs
<1>k. LoadsOK(c.rob, c.LQ, h, ns) /\ ProducersOK(c.rob, c.LQ, c.SQ, h) /\ StoresOK(c.rob, c.SQ, h, ns)
  BY <1>g DEF LoadInv, StoreInv
<1>w. h \in Nat \ {0} /\ ns \in Nat /\ h .. ns - 1 \subseteq Id
  BY <1>g DEF Win
<1>t. c.RT \in [Lists -> Seq(Nat)] /\ c.rob \in [Id -> Row] /\ c.RT["RTS1"] \in Seq(Nat)
  BY <1>g DEF Typed, Lists
<1>p. /\ Distinct(c.RT["RTS1"]) /\ Elements(c.RT["RTS1"]) \subseteq Unfetched(c.SQ)
  BY <1>g DEF PlacesOK, Unfetched
<1>h. /\ Distinct(Tail(c.RT["RTS1"])) /\ s \notin Elements(Tail(c.RT["RTS1"]))
      /\ Elements(c.RT["RTS1"]) = Elements(Tail(c.RT["RTS1"])) \cup {s}
  BY <1>p, <1>t, TailList
<1>s. s \in SqSlot /\ c.SQ[s].addr # 0 /\ ~c.SQ[s].fetched /\ P \in h .. ns - 1 /\ P \in Id /\ P # 0
  <2>1. s \in SqSlot /\ c.SQ[s].addr # 0 /\ ~c.SQ[s].fetched
    BY <1>h, <1>p DEF Unfetched
  <2>2. P \in h .. ns - 1
    BY Zenon, <1>k, <2>1 DEF StoresOK
  <2>3. P # 0 /\ P \in Id
    BY <1>w, <2>2
  <2> QED
    BY Zenon, <2>1, <2>2, <2>3
<1>x. FetchedAt(c, x, s)
  BY Zenon, <1>g, <1>s, FetchedIs
<1>n. new = release_load_queue(x, L, P)
  BY DEF StoredOf
<1>d. /\ IsCore(x) /\ x.rob = c.rob /\ x.LQ = c.LQ /\ x.LQ_occupancy = c.LQ_occupancy /\ x.STA = c.STA
      /\ x.SQ_head = c.SQ_head /\ x.SQ_tail = c.SQ_tail /\ x.SQ_occupancy = c.SQ_occupancy
      /\ x.inflight_reg = c.inflight_reg /\ x.inflight_mem = c.inflight_mem
      /\ x.SQ \in [SqSlot -> Stores] /\ Written(c.SQ, x.SQ, {s})
      /\ x.RT \in [Lists -> Seq(Nat)] /\ x.RT["RTS1"] = Tail(c.RT["RTS1"])
      /\ \A y \in Lists : y # "RTS1" => x.RT[y] = c.RT[y]
  BY Zenon, <1>x DEF FetchedAt
<1>f. ASSUME NEW k \in c.rob[P].mem_depend_on_me, NEW j \in c.rob[k].source_added, c.rob[k].ins.src[j] = c.SQ[s].addr
      PROVE  c.rob[k].lq_index[j] \in L
  <2> DEFINE f == <<k, j>>
  <2>1. f \in Forwarded(c, s) /\ f[1] = k /\ f[2] = j
    BY Zenon, <1>f, ForwardedIs
  <2> HIDE DEF f
  <2> QED
    BY Zenon, <2>1 DEF SlotsFrom, lq_slot
<1>1. ASSUME NEW l \in L PROVE l \in LqSlot /\ c.LQ[l].producer_id = P /\ c.LQ[l].addr # 0
  <2>1. PICK f \in Forwarded(c, s) : l = c.rob[f[1]].lq_index[f[2]]
    BY DEF SlotsFrom, lq_slot
  <2>2. l < LQ_SIZE /\ c.LQ[l].producer_id = P
    BY Zenon, <2>1 DEF ProducerMatches, lq_slot
  <2>3. f[1] \in c.rob[P].mem_depend_on_me /\ f[2] \in c.rob[f[1]].source_added
    BY Zenon, ForwardedHas
  <2>4. f[1] \in Id
    <3>1. c.rob[P] \in Row
      BY Zenon, <1>s, <1>t
    <3> QED
      BY <2>3, <3>1, RowIs
  <2>5. f[2] \in DOMAIN c.rob[f[1]].lq_index
    BY Zenon, <1>g, <2>3, <2>4 DEF EntriesOK
  <2>6. c.rob[f[1]].lq_index \in Seq(0 .. LQ_SIZE)
    <3>1. c.rob[f[1]] \in Row
      BY <1>t, <2>4
    <3> QED
      BY <3>1, RowIs
  <2>7. l \in 0 .. LQ_SIZE
    <3> DEFINE q == c.rob[f[1]].lq_index
               y == f[2]
    <3>1. q \in Seq(0 .. LQ_SIZE) /\ y \in DOMAIN q /\ l = q[y]
      BY <2>1, <2>5, <2>6
    <3> HIDE DEF q, y
    <3> QED
      BY <3>1, SeqAt
  <2>8. l \in LqSlot
    BY <2>2, <2>7, Sizes DEF LqSlot
  <2>9. c.LQ[l].addr # 0
    <3>1. c.LQ[l].addr = 0 => c.LQ[l] = EmptyLoad
      BY Zenon, <1>k, <2>8 DEF LoadsOK
    <3>2. EmptyLoad.producer_id = 0
      BY DEF EmptyLoad
    <3> QED
      BY Zenon, <1>s, <2>2, <3>1, <3>2
  <2> QED
    BY <2>2, <2>8, <2>9
<1>2. L \subseteq UsedLoads(c.LQ) /\ L \in SUBSET LqSlot
  BY <1>1 DEF UsedLoads
<1>3. Covered(c, L, F)
  <2> SUFFICES ASSUME NEW l \in UsedLoads(c.LQ) \ L, c.LQ[l].producer_id = P, c.LQ[l].addr = c.SQ[s].addr
               PROVE  FALSE
    <3>1. \A l \in L : c.LQ[l].producer_id = c.SQ[s].id
      BY Zenon, <1>1
    <3> HIDE DEF L
    <3> QED
      BY Zenon, <3>1 DEF Covered
  <2> DEFINE i == c.LQ[l].id
  <2>1. l \in LqSlot /\ c.LQ[l].addr # 0
    BY DEF UsedLoads
  <2>2. i \in c.rob[P].mem_depend_on_me
    BY <1>k, <1>s, <2>1 DEF ProducersOK
  <2>3. PICK j \in c.rob[i].source_added : c.rob[i].lq_index[j] = l /\ c.rob[i].ins.src[j] = c.LQ[l].addr
    BY <1>k, <2>1 DEF LoadsOK
  <2>4. l \in L
    BY <1>f, <2>2, <2>3
  <2> QED
    BY <2>4
<1> HIDE DEF L, x
<1>4. ASSUME NEW i \in Id
      PROVE  n[i] = Cardinality(LoadsOf(c.LQ, i) \cap L) + Cardinality(StoresOf(c.SQ, i) \cap F) /\ n[i] \in Int
  <2> DEFINE A == LoadsOf(c.LQ, i) \cap L
             B == StoresOf(c.SQ, i) \cap F
             one == IF i = P THEN 1 ELSE 0
  <2>2. n[i] = Cardinality({l \in L : c.LQ[l].id = i}) + one
    BY <1>d DEF EndingOps
  <2>3. {l \in L : c.LQ[l].id = i} = A
    BY <1>2 DEF LoadsOf
  <2>9. n[i] = Cardinality(A) + one
    BY <2>2, <2>3
  <2>4. Cardinality(B) = one
    <3>1. CASE i = P
      <4>1. B = {s}
        BY Zenon, <1>s, <3>1 DEF StoresOf
      <4> QED
        BY <3>1, <4>1, FS_Singleton
    <3>2. CASE i # P
      <4>1. B = {}
        BY <3>2 DEF StoresOf
      <4> QED
        BY <3>2, <4>1, FS_EmptySet
    <3> QED
      BY Zenon, <3>1, <3>2
  <2>5. A \in SUBSET LqSlot /\ one \in Nat
    BY DEF LoadsOf
  <2> HIDE DEF A, B, n, F, one
  <2>6. Cardinality(A) \in Nat
    BY <2>5, SlotsFinite, FS_Subset, FS_CardinalityType
  <2>8. n[i] = Cardinality(A) + Cardinality(B) /\ n[i] \in Int
    BY <2>4, <2>5, <2>6, <2>9
  <2> QED
    BY <2>8 DEF A, B
<1>5. n \in [Id -> Int] /\ n = EndingOps(x, L, P)
  <2>1. n = [i \in Id |-> n[i]]
    BY DEF EndingOps
  <2> HIDE DEF n
  <2>2. n \in [Id -> Int]
    BY <1>4, <2>1
  <2> QED
    BY Zenon, <2>2 DEF n
<1> HIDE DEF n
<1>6. Ended(x, new, L, n)
  <2>1. x.rob \in [Id -> Row] /\ x.LQ \in [LqSlot -> Loads]
    BY <1>d, <1>g DEF Typed
  <2> QED
    BY Zenon, <1>5, <1>d, <1>n, <2>1, EndedIs
<1> HIDE DEF P
<1>7. /\ IsCore(new) /\ new.rob \in [Id -> Row] /\ new.LQ \in [LqSlot -> Loads]
      /\ \A i \in Id : OpsRow(c.rob[i], new.rob[i], n[i])
      /\ \A l \in LqSlot : new.LQ[l] = IF l \in L THEN EmptyLoad ELSE c.LQ[l]
      /\ new.LQ_occupancy = c.LQ_occupancy - Cardinality(L)
      /\ new.inflight_mem = c.inflight_mem + Cardinality({i \in Id : n[i] > 0 /\ c.rob[i].num_mem_ops = n[i]})
      /\ new.inflight_reg = c.inflight_reg /\ new.RT = x.RT
      /\ new.SQ = x.SQ /\ new.SQ_head = c.SQ_head /\ new.SQ_tail = c.SQ_tail
      /\ new.SQ_occupancy = c.SQ_occupancy /\ new.STA = c.STA
  BY <1>6, <1>d DEF Ended, SameStores
<1>8. Typed(new)
  <2>1. Cardinality(L) \in Nat
    BY <1>2, SlotsFinite, FS_Subset, FS_CardinalityType
  <2>2. Cardinality({i \in Id : n[i] > 0 /\ c.rob[i].num_mem_ops = n[i]}) \in Nat
    BY IdFinite
  <2>3. new.LQ_occupancy \in Int /\ new.inflight_mem \in Int
    BY <1>7, <1>g, <2>1, <2>2 DEF Typed
  <2> QED
    BY <1>7, <1>d, <1>g, <2>3 DEF Typed
<1>9. Ends(c, new, L, F, n)
  <2>1. Written(c.SQ, new.SQ, F) /\ F \subseteq Unfetched(c.SQ)
    BY Zenon, <1>7, <1>d, <1>s DEF Unfetched
  <2>2. new.RT["RTE0"] = c.RT["RTE0"] /\ new.RT["RTE1"] = c.RT["RTE1"]
    BY Zenon, <1>7, <1>d DEF Lists
  <2> QED
    BY Zenon, <1>2, <1>3, <1>4, <1>7, <1>8, <2>1, <2>2 DEF Ends
<1>10. PlacesOK(new, d, r)
  <2>1. {l \in LqSlot : new.LQ[l].addr # 0 /\ new.LQ[l].producer_id = 0}
          = {l \in LqSlot : c.LQ[l].addr # 0 /\ c.LQ[l].producer_id = 0}
    BY <1>1, <1>7, <1>s DEF EmptyLoad
  <2>2. {k \in SqSlot : new.SQ[k].addr # 0 /\ ~new.SQ[k].fetched}
          = {k \in SqSlot : c.SQ[k].addr # 0 /\ ~c.SQ[k].fetched} \ {s}
    BY <1>7, <1>d DEF Written
  <2>3. /\ new.RT["RTL0"] = c.RT["RTL0"] /\ new.RT["RTL1"] = c.RT["RTL1"] /\ new.RT["RTS0"] = c.RT["RTS0"]
        /\ Distinct(new.RT["RTS1"]) /\ s \notin Elements(new.RT["RTS1"])
        /\ Elements(c.RT["RTS1"]) = Elements(new.RT["RTS1"]) \cup {s}
    BY Zenon, <1>7, <1>d, <1>h DEF Lists
  <2>4. \A y \in {"RTL0", "RTL1", "RTS0", "RTS1"} : Distinct(new.RT[y])
    BY Zenon, <1>g, <2>3 DEF PlacesOK
  <2> DEFINE S0 == Elements(c.RT["RTS0"])
             S1 == Elements(c.RT["RTS1"])
             S2 == Translating(d, "SQ")
             T1 == Elements(new.RT["RTS1"])
             U == {k \in SqSlot : c.SQ[k].addr # 0 /\ ~c.SQ[k].fetched}
  <2>5. S0 \cap S1 = {} /\ S0 \cap S2 = {} /\ S1 \cap S2 = {} /\ S0 \cup S1 \cup S2 = U
    BY <1>g DEF PlacesOK
  <2>6. S0 \cap T1 = {} /\ T1 \cap S2 = {} /\ S0 \cup T1 \cup S2 = U \ {s}
    <3>1. S1 = T1 \cup {s} /\ s \notin T1
      BY <2>3
    <3> HIDE DEF S0, S1, S2, T1, U
    <3> QED
      BY <2>5, <3>1
  <2> QED
    BY <1>g, <2>1, <2>2, <2>3, <2>4, <2>5, <2>6 DEF PlacesOK
<1>11. r \subseteq LqSlot
  BY DEF Good
<1> HIDE DEF F
<1> QED
  BY <1>9, <1>10, <1>11, EndStep, Zenon

-------------------------------------------------------------------------------
(* load_operand *)

LEMMA ProducerIs ==
  ASSUME NEW c, head \in Nat \ {0}, NEW i \in Nat, NEW a, NEW p, p = mem_RAW_dependency(c, i, a)
  PROVE  IF p = 0 THEN \A q \in head .. i - 1 : a \notin Range(c.rob[q].ins.dst)
         ELSE NearestStore(c.rob, head, i, a, p)
<1> DEFINE h == head
           P == {q \in h .. i - 1 : a \in Range(c.rob[q].ins.dst)}
<1>h. h \in Nat \ {0}
  OBVIOUS
<1>1. p = IF P = {} THEN 0 ELSE youngest(P)
  BY Zenon DEF mem_RAW_dependency, Older
<1>2. \A q : q \in P <=> q \in h .. i - 1 /\ a \in Range(c.rob[q].ins.dst)
  OBVIOUS
<1> HIDE DEF P, h
<1>3. CASE P = {}
  BY <1>1, <1>2, <1>3 DEF h
<1>4. CASE P # {}
  <2>1. P \in SUBSET (h .. i - 1) /\ h \in Int /\ i - 1 \in Int
    BY <1>2, <1>h
  <2>2. p \in P /\ \A k \in P : k <= p
    BY <1>1, <1>4, <2>1, YoungestIs
  <2>3. p \in h .. i - 1 /\ p # 0 /\ a \in Range(c.rob[p].ins.dst) /\ p \in Int
    BY <1>2, <1>h, <2>2
  <2>4. ASSUME NEW q \in p + 1 .. i - 1 PROVE a \notin Range(c.rob[q].ins.dst)
    <3>1. q \in h .. i - 1 /\ ~(q <= p)
      BY <1>h, <2>3
    <3> QED
      BY <1>2, <2>2, <3>1
  <2>5. NearestStore(c.rob, h, i, a, p)
    BY <2>3, <2>4 DEF NearestStore
  <2> QED
    BY <2>3, <2>5 DEF h
<1> QED
  BY <1>3, <1>4

FreeSlot(c) == CHOOSE l \in LqSlot : c.LQ[l].addr = 0 /\ \A k \in LqSlot : c.LQ[k].addr = 0 => l <= k

LEMMA SlotIs ==
  ASSUME NEW c, NEW h, NEW t, NEW ns, NEW d, NEW r, Good(c, h, t, ns, d, r), c.LQ_occupancy < LQ_SIZE,
         NEW slot, slot = FreeSlot(c)
  PROVE  slot \in LqSlot /\ c.LQ[slot] = EmptyLoad
<1>g. CountInv(c, h, t) /\ LoadInv(c.rob, c.LQ, c.SQ, h, ns)
  BY GoodIs
<1> DEFINE E == {l \in LqSlot : c.LQ[l].addr = 0}
<1>1. E # {}
  <2> SUFFICES ASSUME E = {} PROVE FALSE
    OBVIOUS
  <2>1. UsedLoads(c.LQ) = LqSlot
    BY DEF UsedLoads
  <2>2. c.LQ_occupancy = LQ_SIZE
    BY <1>g, <2>1, SlotsFinite DEF CountInv
  <2> QED
    BY <2>2, Sizes
<1>2. E \in SUBSET Nat
  BY SlotsFinite
<1>3. PICK l \in E : \A k \in E : l <= k
  <2> HIDE DEF E
  <2> QED
    BY <1>1, <1>2, FirstIsLeast
<1>4. \E m \in LqSlot : c.LQ[m].addr = 0 /\ \A k \in LqSlot : c.LQ[k].addr = 0 => m <= k
  BY <1>3
<1>5. slot \in LqSlot /\ c.LQ[slot].addr = 0
  BY <1>4, Zenon DEF FreeSlot
<1> QED
  BY Zenon, <1>5, <1>g DEF LoadInv, LoadsOK

(* Entry k after source j of i took slot and became a dependent of p. *)
AddedRow(e, f, k, i, j, slot, p) ==
  /\ f \in Row /\ f.ins = e.ins /\ f.executed = e.executed /\ f.reg_ready = e.reg_ready
  /\ f.num_reg_dependent = e.num_reg_dependent /\ f.destination_added = e.destination_added
  /\ f.sq_index = e.sq_index /\ f.reg_depend_on_me = e.reg_depend_on_me
  /\ DOMAIN f.lq_index = DOMAIN e.lq_index
  /\ \A m \in DOMAIN e.lq_index : f.lq_index[m] = IF k = i /\ m = j THEN slot ELSE e.lq_index[m]
  /\ f.source_added = IF k = i THEN e.source_added \cup {j} ELSE e.source_added
  /\ f.mem_depend_on_me = IF k = p THEN e.mem_depend_on_me \cup {i} ELSE e.mem_depend_on_me
  /\ k # i /\ k # p => f = e

SourceOf(e, j, slot) == [e EXCEPT !.lq_index[j] = slot, !.source_added = @ \cup {j}]
DependOf(e, i) == [e EXCEPT !.mem_depend_on_me = @ \cup {i}]

LEMMA SourceRow ==
  ASSUME NEW e \in Row, NEW i, NEW j \in DOMAIN e.lq_index, NEW slot \in LqSlot, NEW p, p # i
  PROVE  AddedRow(e, SourceOf(e, j, slot), i, i, j, slot, p) /\ SourceOf(e, j, slot).num_mem_ops = e.num_mem_ops
<1> DEFINE q == [e.lq_index EXCEPT ![j] = slot]
           S == e.source_added \cup {j}
           f == SourceOf(e, j, slot)
<1>1. e.lq_index \in Seq(0 .. LQ_SIZE) /\ e.source_added \in SUBSET Nat
  BY RowIs
<1>2. slot \in 0 .. LQ_SIZE /\ j \in Nat
  BY <1>1, LenIs, Sizes DEF LqSlot
<1>3. /\ q \in Seq(0 .. LQ_SIZE) /\ DOMAIN q = DOMAIN e.lq_index
      /\ \A m \in DOMAIN e.lq_index : q[m] = IF m = j THEN slot ELSE e.lq_index[m]
  <2> DEFINE u == e.lq_index
  <2>1. u \in Seq(0 .. LQ_SIZE) /\ j \in DOMAIN u
    BY <1>1
  <2> HIDE DEF u
  <2>2. [u EXCEPT ![j] = slot] \in Seq(0 .. LQ_SIZE)
    BY <1>2, <2>1
  <2> QED
    BY <2>1, <2>2 DEF u
<1>4. S \in SUBSET Nat
  BY <1>1, <1>2
<1>5. f = [e EXCEPT !.lq_index = q, !.source_added = S]
  BY DEF SourceOf, Row
<1>s. S = e.source_added \cup {j}
  OBVIOUS
<1> HIDE DEF q, S, f
<1>6. /\ f \in Row /\ f.ins = e.ins /\ f.executed = e.executed /\ f.reg_ready = e.reg_ready
      /\ f.num_reg_dependent = e.num_reg_dependent /\ f.destination_added = e.destination_added
      /\ f.sq_index = e.sq_index /\ f.reg_depend_on_me = e.reg_depend_on_me /\ f.num_mem_ops = e.num_mem_ops
      /\ f.lq_index = q /\ f.source_added = S /\ f.mem_depend_on_me = e.mem_depend_on_me
  BY <1>3, <1>4, <1>5 DEF Row
<1> QED
  BY <1>3, <1>6, <1>s DEF AddedRow, f

LEMMA DependRow ==
  ASSUME NEW e \in Row, NEW i \in Id, NEW j, NEW slot, NEW p, p # i
  PROVE  AddedRow(e, DependOf(e, i), p, i, j, slot, p) /\ DependOf(e, i).num_mem_ops = e.num_mem_ops
<1> DEFINE S == e.mem_depend_on_me \cup {i}
           f == DependOf(e, i)
<1>1. S \in SUBSET Id
  BY RowIs
<1>2. f = [e EXCEPT !.mem_depend_on_me = S]
  BY DEF DependOf
<1>s. S = e.mem_depend_on_me \cup {i}
  OBVIOUS
<1> HIDE DEF S, f
<1>3. /\ f \in Row /\ f.ins = e.ins /\ f.executed = e.executed /\ f.reg_ready = e.reg_ready
      /\ f.num_reg_dependent = e.num_reg_dependent /\ f.destination_added = e.destination_added
      /\ f.sq_index = e.sq_index /\ f.reg_depend_on_me = e.reg_depend_on_me /\ f.num_mem_ops = e.num_mem_ops
      /\ f.lq_index = e.lq_index /\ f.source_added = e.source_added /\ f.mem_depend_on_me = S
  BY <1>1, <1>2 DEF Row
<1> QED
  BY <1>3, <1>s DEF AddedRow, f

TakenOf(c, i, j, slot, p) ==
  [c EXCEPT !.rob = [k \in Id |-> source_row(c.rob[k], k, i, j, slot, p)],
            !.LQ[slot] = [id |-> i, addr |-> c.rob[i].ins.src[j], producer_id |-> p],
            !.LQ_occupancy = @ + 1,
            !.RT["RTL0"] = IF p = 0 THEN Append(@, slot) ELSE @]

Taken(c, x, i, j, slot, p) ==
  /\ IsCore(x) /\ Typed(x) /\ SameStores(c, x)
  /\ \A k \in Id : AddedRow(c.rob[k], x.rob[k], k, i, j, slot, p) /\ x.rob[k].num_mem_ops = c.rob[k].num_mem_ops
  /\ \A l \in LqSlot : x.LQ[l] = IF l = slot THEN [id |-> i, addr |-> c.rob[i].ins.src[j], producer_id |-> p]
                                 ELSE c.LQ[l]
  /\ x.LQ_occupancy = c.LQ_occupancy + 1 /\ x.inflight_reg = c.inflight_reg /\ x.inflight_mem = c.inflight_mem
  /\ x.RT["RTL0"] = IF p = 0 THEN Append(c.RT["RTL0"], slot) ELSE c.RT["RTL0"]
  /\ \A y \in Lists : y # "RTL0" => x.RT[y] = c.RT[y]

LEMMA TakenIs ==
  ASSUME NEW c, IsCore(c), Typed(c), NEW i \in Id, NEW j \in DOMAIN c.rob[i].ins.src,
         DOMAIN c.rob[i].lq_index = DOMAIN c.rob[i].ins.src, NEW slot \in LqSlot,
         NEW p \in Id \cup {0}, p # i, NEW x, x = TakenOf(c, i, j, slot, p)
  PROVE  Taken(c, x, i, j, slot, p)
<1> DEFINE e == c.rob[i]
           v == [id |-> i, addr |-> e.ins.src[j], producer_id |-> p]
           rob == [k \in Id |-> source_row(c.rob[k], k, i, j, slot, p)]
           LQ == [c.LQ EXCEPT ![slot] = v]
           q == IF p = 0 THEN Append(c.RT["RTL0"], slot) ELSE c.RT["RTL0"]
           RT == [c.RT EXCEPT !["RTL0"] = q]
<1>t. /\ c.rob \in [Id -> Row] /\ c.RT \in [Lists -> Seq(Nat)] /\ c.LQ \in [LqSlot -> Loads] /\ e \in Row
      /\ c.LQ_occupancy \in Int /\ "RTL0" \in Lists
  BY DEF Typed, Lists
<1>1. /\ IsCore(x) /\ SameStores(c, x) /\ x.rob = rob /\ x.LQ = LQ /\ x.RT = RT
      /\ x.LQ_occupancy = c.LQ_occupancy + 1 /\ x.inflight_reg = c.inflight_reg /\ x.inflight_mem = c.inflight_mem
  <2>1. x = [c EXCEPT !.rob = rob, !.LQ[slot] = v, !.LQ_occupancy = @ + 1,
                      !.RT["RTL0"] = IF p = 0 THEN Append(@, slot) ELSE @]
    BY Zenon DEF TakenOf
  <2> HIDE DEF v, rob
  <2> QED
    BY <2>1 DEF IsCore, Names, SameStores
<1>2. ASSUME NEW k \in Id
      PROVE  AddedRow(c.rob[k], rob[k], k, i, j, slot, p) /\ rob[k].num_mem_ops = c.rob[k].num_mem_ops
  <2>0. c.rob[k] \in Row /\ rob[k] = source_row(c.rob[k], k, i, j, slot, p)
    BY <1>t
  <2> HIDE DEF rob
  <2>1. CASE k = i
    <3>1. rob[k] = SourceOf(c.rob[k], j, slot) /\ j \in DOMAIN c.rob[k].lq_index
      BY <2>0, <2>1 DEF source_row, SourceOf
    <3>2. /\ AddedRow(c.rob[k], SourceOf(c.rob[k], j, slot), k, k, j, slot, p)
          /\ SourceOf(c.rob[k], j, slot).num_mem_ops = c.rob[k].num_mem_ops
      <4> DEFINE z == c.rob[k]
      <4>1. p # k /\ z \in Row /\ j \in DOMAIN z.lq_index
        BY <2>0, <2>1, <3>1
      <4> HIDE DEF z
      <4>2. AddedRow(z, SourceOf(z, j, slot), k, k, j, slot, p) /\ SourceOf(z, j, slot).num_mem_ops = z.num_mem_ops
        BY <4>1, SourceRow
      <4> QED
        BY <4>2 DEF z
    <3> QED
      BY <2>1, <3>1, <3>2
  <2>2. CASE k = p
    <3>1. rob[k] = DependOf(c.rob[k], i)
      BY <2>0, <2>2 DEF source_row, DependOf
    <3>2. /\ AddedRow(c.rob[k], DependOf(c.rob[k], i), k, i, j, slot, k)
          /\ DependOf(c.rob[k], i).num_mem_ops = c.rob[k].num_mem_ops
      BY <2>0, <2>2, DependRow
    <3> QED
      BY <2>2, <3>1, <3>2
  <2>3. CASE k # i /\ k # p
    <3>1. rob[k] = c.rob[k]
      BY <2>0, <2>3 DEF source_row
    <3> QED
      BY <2>0, <2>3, <3>1 DEF AddedRow
  <2> QED
    BY <2>1, <2>2, <2>3
<1>3. rob \in [Id -> Row]
  <2>1. \A k \in Id : rob[k] \in Row
    BY <1>2 DEF AddedRow
  <2>2. rob = [k \in Id |-> rob[k]]
    OBVIOUS
  <2> HIDE DEF rob
  <2> QED
    BY <2>1, <2>2
<1>4. v \in Loads
  <2>1. e.ins.src \in Seq(Addr)
    BY <1>t, RowIs
  <2>2. e.ins.src[j] \in Addr
    BY <2>1, SeqAt
  <2> QED
    BY <2>2 DEF Loads
<1>5. LQ \in [LqSlot -> Loads] /\ \A l \in LqSlot : LQ[l] = IF l = slot THEN v ELSE c.LQ[l]
  <2> HIDE DEF v
  <2> QED
    BY <1>4, <1>t
<1>6. q \in Seq(Nat)
  <2>1. c.RT["RTL0"] \in Seq(Nat) /\ slot \in Nat
    BY <1>t, SlotsFinite
  <2> QED
    BY <2>1
<1>7. RT \in [Lists -> Seq(Nat)] /\ RT["RTL0"] = q /\ \A y \in Lists : y # "RTL0" => RT[y] = c.RT[y]
  <2> HIDE DEF q
  <2> QED
    BY <1>6, <1>t
<1>8. c.LQ_occupancy + 1 \in Int
  BY <1>t
<1> HIDE DEF rob, LQ, RT
<1>9. Typed(x)
  BY <1>1, <1>3, <1>5, <1>7, <1>8, Zenon DEF Typed, SameStores
<1> QED
  BY <1>1, <1>2, <1>5, <1>7, <1>9 DEF Taken

(* What entering the load queue leaves alone. *)
AddFrame(c, new, i, j, slot, p) ==
  /\ IsCore(new) /\ Typed(new) /\ SameStores(c, new) /\ new.inflight_reg = c.inflight_reg
  /\ \A k \in Id : AddedRow(c.rob[k], new.rob[k], k, i, j, slot, p)
  /\ new.RT["RTE0"] = c.RT["RTE0"] /\ new.RT["RTE1"] = c.RT["RTE1"]

StillOK(c, new, h, t, ns) ==
  /\ new \in Shape /\ EntriesOK(new.rob, h, t, ns) /\ RegInv(new.rob, new.RT, h, ns) /\ StoreInv(new, h, t, ns)
  /\ RegInflight(new.rob, h, t) = RegInflight(c.rob, h, t)

LEMMA AddKept ==
  ASSUME NEW c, NEW new, NEW h, NEW t, NEW ns, NEW d, NEW r, Good(c, h, t, ns, d, r), NEW i \in h .. ns - 1,
         c.rob[i].reg_ready, NEW j \in DOMAIN c.rob[i].ins.src, NEW slot, NEW p \in (h .. i - 1) \cup {0},
         AddFrame(c, new, i, j, slot, p)
  PROVE  StillOK(c, new, h, t, ns)
<1>g. /\ IsCore(c) /\ Typed(c) /\ Win(h, t, ns) /\ EntriesOK(c.rob, h, t, ns)
      /\ RegInv(c.rob, c.RT, h, ns) /\ StoreInv(c, h, t, ns)
  BY GoodIs
<1>w. /\ h \in Nat \ {0} /\ t \in Nat /\ ns \in Nat /\ h <= ns /\ ns <= t /\ t <= MaxInstr + 1 /\ ns <= MaxInstr + 1
      /\ h .. t - 1 \subseteq Id /\ h .. ns - 1 \subseteq Id /\ h \in Nat
  BY <1>g DEF Win
<1>e. /\ IsCore(new) /\ Typed(new) /\ SameStores(c, new)
      /\ \A k \in Id : AddedRow(c.rob[k], new.rob[k], k, i, j, slot, p)
      /\ new.RT["RTE0"] = c.RT["RTE0"] /\ new.RT["RTE1"] = c.RT["RTE1"]
  BY DEF AddFrame
<1>1. new \in Shape
  BY <1>e, ShapeIff
<1>2. EntriesOK(new.rob, h, t, ns)
  <2> SUFFICES ASSUME NEW k \in Id
               PROVE  LET v == new.rob[k]
                      IN  /\ k \notin h .. t - 1 => v.ins = NoInstr
                          /\ k \notin h .. ns - 1 => v = Entry(v.ins)
                          /\ v.source_added \subseteq DOMAIN v.ins.src /\ DOMAIN v.lq_index = DOMAIN v.ins.src
                          /\ v.destination_added \subseteq DOMAIN v.ins.dst /\ DOMAIN v.sq_index = DOMAIN v.ins.dst
    BY DEF EntriesOK
  <2>1. AddedRow(c.rob[k], new.rob[k], k, i, j, slot, p)
    BY <1>e
  <2>2. k \notin h .. ns - 1 => k # i /\ k # p
    <3>1. k # 0
      BY Sizes DEF Id
    <3>2. p \in h .. i - 1 => p \in h .. ns - 1
      BY <1>w
    <3> QED
      BY <3>1, <3>2
  <2>3. k \notin h .. ns - 1 => new.rob[k] = c.rob[k]
    BY <2>1, <2>2 DEF AddedRow
  <2>4. /\ new.rob[k].ins = c.rob[k].ins /\ DOMAIN new.rob[k].lq_index = DOMAIN c.rob[k].lq_index
        /\ new.rob[k].destination_added = c.rob[k].destination_added /\ new.rob[k].sq_index = c.rob[k].sq_index
        /\ new.rob[k].source_added = IF k = i THEN c.rob[k].source_added \cup {j} ELSE c.rob[k].source_added
    BY <2>1 DEF AddedRow
  <2> QED
    BY <1>g, <2>3, <2>4 DEF EntriesOK
<1>3. RegInv(new.rob, new.RT, h, ns)
  <2>1. RegFrame(c.rob, new.rob, h, ns)
    <3> SUFFICES ASSUME NEW k \in h .. ns - 1
                 PROVE  /\ new.rob[k].ins = c.rob[k].ins /\ new.rob[k].reg_ready = c.rob[k].reg_ready
                        /\ new.rob[k].num_reg_dependent = c.rob[k].num_reg_dependent
                        /\ new.rob[k].reg_depend_on_me = c.rob[k].reg_depend_on_me
                        /\ new.rob[k].executed = c.rob[k].executed
                        /\ \/ new.rob[k].source_added = c.rob[k].source_added
                              /\ new.rob[k].destination_added = c.rob[k].destination_added
                           \/ c.rob[k].reg_ready
      BY DEF RegFrame, Done
    <3>1. AddedRow(c.rob[k], new.rob[k], k, i, j, slot, p)
      BY <1>e, <1>w
    <3>2. k # i \/ c.rob[k].reg_ready
      OBVIOUS
    <3> QED
      BY <3>1, <3>2 DEF AddedRow
  <2> QED
    BY <1>e, <1>g, <1>w, <2>1, RegKept
<1>4. StoreInv(new, h, t, ns)
  <2>1. c.SQ_head \in SqSlot
    BY <1>g DEF Typed
  <2>2. StoreFrame(c.rob, new.rob)
    BY <1>e DEF StoreFrame, AddedRow
  <2> DEFINE F == {}
  <2>3. /\ Written(c.SQ, new.SQ, F) /\ new.SQ_head = c.SQ_head /\ new.SQ_tail = c.SQ_tail
        /\ new.SQ_occupancy = c.SQ_occupancy /\ new.STA = c.STA /\ F \subseteq Unfetched(c.SQ)
    BY <1>e DEF Written, SameStores
  <2> HIDE DEF F
  <2> QED
    BY <1>g, <1>w, <2>1, <2>2, <2>3, EndStores
<1>5. RegInflight(new.rob, h, t) = RegInflight(c.rob, h, t)
  <2>1. \A k \in h .. t - 1 : new.rob[k].ins = c.rob[k].ins /\ new.rob[k].executed = c.rob[k].executed
    BY <1>e, <1>w DEF AddedRow
  <2> QED
    BY <2>1 DEF RegInflight, is_memory
<1> QED
  BY <1>1, <1>2, <1>3, <1>4, <1>5 DEF StillOK

(* What the new load's producer is. *)
WaitsOn(rob, SQ, h, i, a, p) ==
  IF p = 0 THEN \A q \in h .. i - 1 : a \notin Range(rob[q].ins.dst)
  ELSE /\ NearestStore(rob, h, i, a, p)
       /\ \E j \in DOMAIN rob[p].ins.dst : rob[p].ins.dst[j] = a /\ Unwritten(rob[p], SQ, j)

TakenSlot(c, new, i, j, slot, p) ==
  /\ c.LQ[slot] = EmptyLoad
  /\ \A l \in LqSlot : l # slot => new.LQ[l] = c.LQ[l]
  /\ new.LQ[slot] = EmptyLoad \/ new.LQ[slot] = [id |-> i, addr |-> c.rob[i].ins.src[j], producer_id |-> p]

LEMMA NearestUnique ==
  ASSUME NEW rob, NEW h \in Nat, NEW i \in Nat, NEW a, NEW p, NEW q,
         NearestStore(rob, h, i, a, p), NearestStore(rob, h, i, a, q)
  PROVE  p = q
<1>1. p \in h .. i - 1 /\ q \in h .. i - 1 /\ a \in Range(rob[p].ins.dst) /\ a \in Range(rob[q].ins.dst)
  BY DEF NearestStore
<1>2. q \notin p + 1 .. i - 1 /\ p \notin q + 1 .. i - 1
  BY <1>1 DEF NearestStore
<1> QED
  BY <1>1, <1>2

(* p is the nearest store of a before i, if there is one. *)
FromStore(rob, h, i, a, p) ==
  IF p = 0 THEN \A q \in h .. i - 1 : a \notin Range(rob[q].ins.dst) ELSE NearestStore(rob, h, i, a, p)

LEMMA FromUnique ==
  ASSUME NEW rob, NEW h \in Nat, NEW i \in Nat, NEW a, NEW p, NEW q,
         FromStore(rob, h, i, a, p), NearestStore(rob, h, i, a, q)
  PROVE  p # 0 /\ q = p
<1>1. q \in h .. i - 1 /\ a \in Range(rob[q].ins.dst)
  BY DEF NearestStore
<1>2. p # 0 /\ NearestStore(rob, h, i, a, p)
  BY <1>1 DEF FromStore
<1> QED
  BY <1>2, NearestUnique

(* A load that left at once took the data of a store that was written. *)
TookData(SQ, x, a, p) ==
  x = EmptyLoad => \E s \in SqSlot : SQ[s].addr = a /\ SQ[s].id = p /\ SQ[s].fetched

(* What is known of the rows when source j of i is added. *)
RowAdded(e, f, k, i, j, slot, p) ==
  /\ f.ins = e.ins /\ f.destination_added = e.destination_added /\ f.sq_index = e.sq_index
  /\ \A m \in e.source_added : f.lq_index[m] = e.lq_index[m]
  /\ k = i => f.lq_index[j] = slot
  /\ f.source_added = IF k = i THEN e.source_added \cup {j} ELSE e.source_added
  /\ f.mem_depend_on_me = IF k = p THEN e.mem_depend_on_me \cup {i} ELSE e.mem_depend_on_me

RowsAdded(rob, new, h, ns, i, j, slot, p) ==
  \A k \in h .. ns - 1 : RowAdded(rob[k], new[k], k, i, j, slot, p)

LEMMA AddLinked ==
  ASSUME NEW rob, NEW new, NEW h \in Nat \ {0}, NEW ns \in Nat, NEW i \in h .. ns - 1, NEW j, NEW slot, NEW p,
         RowsAdded(rob, new, h, ns, i, j, slot, p), FromStore(rob, h, i, rob[i].ins.src[j], p), LinkedOK(rob, h, ns)
  PROVE  LinkedOK(new, h, ns)
<1> SUFFICES ASSUME NEW k \in h .. ns - 1, NEW m \in new[k].source_added, NEW q \in h .. k - 1,
                    NearestStore(new, h, k, new[k].ins.src[m], q)
             PROVE  k \in new[q].mem_depend_on_me
  BY DEF LinkedOK
<1> DEFINE a == rob[k].ins.src[m]
<1>q. q \in h .. ns - 1 /\ h <= h /\ h \in Nat
  OBVIOUS
<1>r. RowAdded(rob[k], new[k], k, i, j, slot, p) /\ RowAdded(rob[q], new[q], q, i, j, slot, p)
  BY <1>q DEF RowsAdded
<1>0. SameIns(rob, new, h, ns)
  BY DEF SameIns, RowsAdded, RowAdded
<1>1. NearestStore(new, h, k, a, q)
  <2>1. new[k].ins.src[m] = a
    BY <1>r DEF RowAdded
  <2> HIDE DEF a
  <2> QED
    BY <2>1, Zenon
<1>a. rob[k].ins.src[m] = a
  OBVIOUS
<1> HIDE DEF a
<1>2. NearestStore(rob, h, k, a, q)
  <2>1. NearestStore(new, h, k, a, q) <=> NearestStore(rob, h, k, a, q)
    BY <1>0, <1>q, NearestKept, Zenon
  <2> QED
    BY <1>1, <2>1
<1>3. CASE m \in rob[k].source_added
  <2>1. k \in rob[q].mem_depend_on_me
    BY <1>2, <1>3, <1>a DEF LinkedOK
  <2> QED
    BY <1>r, <2>1 DEF RowAdded
<1>4. CASE m \notin rob[k].source_added
  <2>1. k = i /\ m = j
    BY <1>4, <1>r DEF RowAdded
  <2>2. FromStore(rob, h, k, a, p) /\ k \in Nat /\ h \in Nat
    BY <1>a, <2>1
  <2>3. q = p
    BY <1>2, <2>2, FromUnique
  <2> QED
    BY <1>r, <2>1, <2>3 DEF RowAdded
<1> QED
  BY <1>3, <1>4

LEMMA AddForwards ==
  ASSUME NEW rob \in [Id -> Row], NEW new, NEW LQ, NEW LQ2, NEW SQ,
         NEW h \in Nat \ {0}, NEW ns \in Nat, h .. ns - 1 \subseteq Id,
         NEW i \in h .. ns - 1, NEW j, NEW slot, NEW p \in (h .. i - 1) \cup {0}, NEW a,
         a = rob[i].ins.src[j], a # 0, slot \in LqSlot,
         RowsAdded(rob, new, h, ns, i, j, slot, p), FromStore(rob, h, i, a, p),
         LinkedOK(rob, h, ns), ForwardsOK(rob, LQ, SQ, h, ns), StoresOK(rob, SQ, h, ns), AddedAreDst(rob),
         LQ[slot] = EmptyLoad, \A l \in LqSlot : l # slot => LQ2[l] = LQ[l],
         LQ2[slot] = EmptyLoad \/ LQ2[slot] = [id |-> i, addr |-> a, producer_id |-> p],
         TookData(SQ, LQ2[slot], a, p)
  PROVE  ForwardsOK(new, LQ2, SQ, h, ns)
<1> SUFFICES ASSUME NEW q \in h .. ns - 1, OneStore(new[q]), NEW k \in new[q].mem_depend_on_me
             PROVE  /\ k \in q + 1 .. ns - 1
                    /\ \A m \in DOMAIN new[q].ins.dst :
                         /\ NearestStore(new, h, k, new[q].ins.dst[m], q)
                         /\ Unwritten(new[q], SQ, m) =>
                              \A n \in new[k].source_added :
                                new[k].ins.src[n] = new[q].ins.dst[m] => Waiting(new[k], LQ2, k, n, q)
  BY Zenon DEF ForwardsOK
<1>s. h <= h /\ h \in Nat /\ i \in Nat
  OBVIOUS
<1>i. SameIns(rob, new, h, ns)
  BY DEF SameIns, RowsAdded, RowAdded
<1>r. RowAdded(rob[q], new[q], q, i, j, slot, p)
  BY DEF RowsAdded
<1>q. new[q].ins = rob[q].ins /\ rob[q] \in Row /\ q # 0
  <2>1. q \in Id /\ q # 0
    OBVIOUS
  <2> QED
    BY <1>r, <2>1 DEF RowAdded
<1>o. OneStore(rob[q])
  BY <1>q DEF OneStore
<1>d. ASSUME NEW m \in DOMAIN rob[q].ins.dst, NEW n \in DOMAIN rob[q].ins.dst PROVE m = n
  <2> DEFINE e == rob[q]
  <2>1. e \in Row /\ OneStore(e) /\ m \in DOMAIN e.ins.dst /\ n \in DOMAIN e.ins.dst
    BY <1>o, <1>q
  <2> HIDE DEF e
  <2> QED
    BY <2>1, OneDst
<1>k. k \in rob[q].mem_depend_on_me \/ (k = i /\ q = p)
  BY <1>r DEF RowAdded
<1>1. k \in q + 1 .. ns - 1
  <2>1. CASE k \in rob[q].mem_depend_on_me
    BY <1>o, <2>1 DEF ForwardsOK
  <2>2. CASE k = i /\ q = p
    BY <1>q, <2>2
  <2> QED
    BY <1>k, <2>1, <2>2
<1>2. k \in h .. ns - 1 /\ q \in h .. k - 1 /\ k \in Nat
  BY <1>1
<1>t. RowAdded(rob[k], new[k], k, i, j, slot, p)
  BY <1>2 DEF RowsAdded
<1>3. ASSUME NEW m \in DOMAIN rob[q].ins.dst PROVE NearestStore(rob, h, k, rob[q].ins.dst[m], q)
  <2>1. CASE k \in rob[q].mem_depend_on_me
    BY <1>o, <2>1 DEF ForwardsOK
  <2>2. CASE k = i /\ q = p
    <3>1. NearestStore(rob, h, i, a, p)
      BY <1>q, <2>2 DEF FromStore
    <3>2. a \in Range(rob[p].ins.dst)
      BY <3>1 DEF NearestStore
    <3>3. PICK n \in DOMAIN rob[p].ins.dst : rob[p].ins.dst[n] = a
      BY Zenon, <3>2 DEF Range
    <3>4. rob[q].ins.dst[m] = a
      BY <1>d, <2>2, <3>3
    <3> QED
      BY <2>2, <3>1, <3>4
  <2> QED
    BY <1>k, <2>1, <2>2
<1>4. ASSUME NEW m \in DOMAIN rob[q].ins.dst, Unwritten(new[q], SQ, m),
             NEW n \in new[k].source_added, rob[k].ins.src[n] = rob[q].ins.dst[m]
      PROVE  Waiting(new[k], LQ2, k, n, q)
  <2> DEFINE b == rob[q].ins.dst[m]
  <2>0. Unwritten(rob[q], SQ, m)
    BY <1>4, <1>r DEF Unwritten, RowAdded
  <2>b. NearestStore(rob, h, k, b, q) /\ rob[k].ins.src[n] = b
    BY <1>3, <1>4
  <2>w. ASSUME NEW x \in rob[k].source_added, rob[k].ins.src[x] = b
        PROVE  Waiting(rob[k], LQ, k, x, q)
    <3>1. k \in rob[q].mem_depend_on_me
      BY <1>2, <2>b, <2>w DEF LinkedOK
    <3> QED
      BY Zenon, <1>o, <2>0, <2>w, <3>1 DEF ForwardsOK
  <2> HIDE DEF b
  <2>z. ASSUME NEW x \in rob[k].source_added, rob[k].ins.src[x] = b
        PROVE  /\ rob[k].lq_index[x] \in LqSlot /\ rob[k].lq_index[x] # slot
               /\ LQ[rob[k].lq_index[x]] = [id |-> k, addr |-> b, producer_id |-> q]
    <3> DEFINE z == rob[k].lq_index[x]
    <3>1. z \in LqSlot /\ LQ[z] = [id |-> k, addr |-> b, producer_id |-> q]
      BY <2>w, <2>z DEF Waiting
    <3> HIDE DEF z
    <3>2. LQ[z].producer_id # 0
      BY <1>q, <3>1
    <3>3. z # slot
      BY <3>2 DEF EmptyLoad
    <3> QED
      BY <3>1, <3>3 DEF z
  <2>i. /\ new[k].ins = rob[k].ins
        /\ \A x \in rob[k].source_added : new[k].lq_index[x] = rob[k].lq_index[x]
        /\ \A x \in new[k].source_added \ rob[k].source_added : k = i /\ x = j /\ new[k].lq_index[x] = slot
    BY <1>t DEF RowAdded
  <2>1. CASE n \in rob[k].source_added
    <3> DEFINE z == rob[k].lq_index[n]
    <3>1. /\ z \in LqSlot /\ z # slot /\ LQ[z] = [id |-> k, addr |-> b, producer_id |-> q]
          /\ new[k].lq_index[n] = z
      BY <2>1, <2>b, <2>i, <2>z
    <3>2. \A x \in rob[k].source_added : rob[k].lq_index[x] = z /\ rob[k].ins.src[x] = b => x = n
      BY <2>1, <2>b, <2>w DEF Waiting
    <3> HIDE DEF z
    <3>3. \A x \in new[k].source_added : new[k].lq_index[x] = z /\ new[k].ins.src[x] = b => x = n
      BY <2>i, <3>1, <3>2
    <3>4. LQ2[z] = [id |-> k, addr |-> b, producer_id |-> q]
      BY <3>1
    <3>5. new[k].ins.src[n] = b
      BY <2>b, <2>i
    <3> QED
      BY <3>1, <3>3, <3>4, <3>5 DEF Waiting
  <2>2. CASE n \notin rob[k].source_added
    <3>1. k = i /\ n = j /\ b = a /\ new[k].lq_index[n] = slot
      BY <2>2, <2>b, <2>i
    <3>2. NearestStore(rob, h, i, a, q)
      BY <2>b, <3>1
    <3>3. q = p
      BY <1>s, <3>2, FromUnique
    <3>5. LQ2[slot] # EmptyLoad
      <4> SUFFICES ASSUME LQ2[slot] = EmptyLoad PROVE FALSE
        OBVIOUS
      <4>1. PICK s \in SqSlot : SQ[s].addr = a /\ SQ[s].id = p /\ SQ[s].fetched
        BY DEF TookData
      <4>2. PICK y \in rob[q].destination_added : rob[q].sq_index[y] = s
        BY <3>3, <4>1 DEF StoresOK
      <4>3. y = m
        <5>1. y \in DOMAIN rob[q].ins.dst
          BY DEF AddedAreDst
        <5> QED
          BY <1>d, <5>1
      <4> QED
        BY <2>0, <4>1, <4>2, <4>3 DEF Unwritten
    <3>6. LQ2[slot] = [id |-> k, addr |-> b, producer_id |-> q]
      BY <3>1, <3>3, <3>5
    <3>7. \A x \in new[k].source_added : new[k].lq_index[x] = slot /\ new[k].ins.src[x] = b => x = n
      BY <2>i, <2>z, <3>1
    <3>8. new[k].ins.src[n] = b
      BY <2>b, <2>i
    <3> QED
      BY <3>1, <3>6, <3>7, <3>8 DEF Waiting
  <2> QED
    BY <2>1, <2>2
<1>5. ASSUME NEW m \in DOMAIN rob[q].ins.dst PROVE NearestStore(new, h, k, rob[q].ins.dst[m], q)
  <2> DEFINE b == rob[q].ins.dst[m]
  <2>1. NearestStore(rob, h, k, b, q)
    BY <1>3
  <2> HIDE DEF b
  <2>2. NearestStore(new, h, k, b, q) <=> NearestStore(rob, h, k, b, q)
    BY <1>2, <1>i, <1>s, NearestKept, Zenon
  <2>3. NearestStore(new, h, k, b, q)
    BY <2>1, <2>2
  <2> QED
    BY <2>3 DEF b
<1>6. new[k].ins = rob[k].ins
  BY <1>t DEF RowAdded
<1> QED
  BY <1>1, <1>4, <1>5, <1>6, <1>q

LEMMA AddLoads ==
  ASSUME NEW c, NEW new, NEW h, NEW t, NEW ns, NEW d, NEW r, Good(c, h, t, ns, d, r), NEW i \in h .. ns - 1,
         NEW j \in DOMAIN c.rob[i].ins.src, j \notin c.rob[i].source_added, NEW slot \in LqSlot,
         NEW p \in (h .. i - 1) \cup {0}, AddFrame(c, new, i, j, slot, p), TakenSlot(c, new, i, j, slot, p),
         FromStore(c.rob, h, i, c.rob[i].ins.src[j], p), TookData(c.SQ, new.LQ[slot], c.rob[i].ins.src[j], p),
         new.LQ[slot] # EmptyLoad => WaitsOn(c.rob, c.SQ, h, i, c.rob[i].ins.src[j], p)
  PROVE  LoadInv(new.rob, new.LQ, new.SQ, h, ns)
<1>g. /\ IsCore(c) /\ Typed(c) /\ Win(h, t, ns) /\ EntriesOK(c.rob, h, t, ns)
      /\ LoadInv(c.rob, c.LQ, c.SQ, h, ns) /\ StoreInv(c, h, t, ns)
  BY GoodIs
<1>w. /\ h \in Nat \ {0} /\ ns \in Nat /\ h .. ns - 1 \subseteq Id
  BY <1>g DEF Win
<1>l. LoadsOK(c.rob, c.LQ, h, ns) /\ ProducersOK(c.rob, c.LQ, c.SQ, h)
  BY <1>g DEF LoadInv
<1>e. SameStores(c, new) /\ \A k \in Id : AddedRow(c.rob[k], new.rob[k], k, i, j, slot, p)
  BY DEF AddFrame
<1>s. new.SQ = c.SQ
  BY <1>e DEF SameStores
<1>r. ASSUME NEW k \in h .. ns - 1
      PROVE  /\ new.rob[k].ins = c.rob[k].ins /\ c.rob[k].source_added \subseteq new.rob[k].source_added
             /\ \A m \in c.rob[k].source_added : new.rob[k].lq_index[m] = c.rob[k].lq_index[m]
             /\ c.rob[k].mem_depend_on_me \subseteq new.rob[k].mem_depend_on_me
             /\ new.rob[k].destination_added = c.rob[k].destination_added /\ new.rob[k].sq_index = c.rob[k].sq_index
             /\ k = p => i \in new.rob[k].mem_depend_on_me
             /\ k = i => j \in new.rob[k].source_added /\ new.rob[k].lq_index[j] = slot
  <2>1. AddedRow(c.rob[k], new.rob[k], k, i, j, slot, p) /\ k \in Id
    BY <1>e, <1>w
  <2>2. c.rob[k].source_added \subseteq DOMAIN c.rob[k].lq_index /\ DOMAIN c.rob[k].lq_index = DOMAIN c.rob[k].ins.src
    BY <1>g, <2>1 DEF EntriesOK
  <2> QED
    BY Zenon, <2>1, <2>2 DEF AddedRow
<1> DEFINE v == [id |-> i, addr |-> c.rob[i].ins.src[j], producer_id |-> p]
<1>q. ASSUME NEW q \in h .. ns - 1, NEW k \in h .. q - 1 PROVE k \in h .. ns - 1
  BY <1>w
<1>o. /\ \A l \in LqSlot : l # slot => new.LQ[l] = c.LQ[l]
      /\ new.LQ[slot] = EmptyLoad \/ new.LQ[slot] = v
  BY DEF TakenSlot
<1>v. v.id = i /\ v.addr = c.rob[i].ins.src[j] /\ v.producer_id = p
  OBVIOUS
<1> HIDE DEF v
<1>1. LoadsOK(new.rob, new.LQ, h, ns)
  <2> SUFFICES ASSUME NEW l \in LqSlot
               PROVE  IF new.LQ[l].addr = 0 THEN new.LQ[l] = EmptyLoad
                      ELSE /\ new.LQ[l].id \in h .. ns - 1
                           /\ \E k \in new.rob[new.LQ[l].id].source_added :
                                new.rob[new.LQ[l].id].lq_index[k] = l /\ new.rob[new.LQ[l].id].ins.src[k] = new.LQ[l].addr
    BY DEF LoadsOK
  <2>1. CASE l # slot
    <3>1. new.LQ[l] = c.LQ[l]
      BY <1>o, <2>1
    <3>2. CASE c.LQ[l].addr = 0
      BY Zenon, <1>l, <3>1, <3>2 DEF LoadsOK
    <3>3. CASE c.LQ[l].addr # 0
      <4> DEFINE q == c.LQ[l].id
      <4>1. q \in h .. ns - 1
        BY Zenon, <1>l, <3>3 DEF LoadsOK
      <4>2. PICK k \in c.rob[q].source_added : c.rob[q].lq_index[k] = l /\ c.rob[q].ins.src[k] = c.LQ[l].addr
        BY <1>l, <3>3 DEF LoadsOK
      <4>3. k \in new.rob[q].source_added /\ new.rob[q].lq_index[k] = l /\ new.rob[q].ins.src[k] = c.LQ[l].addr
        BY <1>r, <4>1, <4>2
      <4> QED
        BY <3>1, <3>3, <4>1, <4>3
    <3> QED
      BY <3>2, <3>3
  <2>2. CASE l = slot
    <3>1. CASE new.LQ[slot] = EmptyLoad
      BY <2>2, <3>1 DEF EmptyLoad
    <3>2. CASE new.LQ[slot] = v
      <4>1. new.LQ[l].id = i /\ new.LQ[l].addr = c.rob[i].ins.src[j]
        BY <1>v, <2>2, <3>2
      <4>2. j \in new.rob[i].source_added /\ new.rob[i].lq_index[j] = slot /\ new.rob[i].ins = c.rob[i].ins
        BY <1>r
      <4>3. c.rob[i].ins.src[j] # 0
        <5>1. c.rob[i] \in Row
          BY <1>g, <1>w DEF Typed
        <5>2. c.rob[i].ins.src \in Seq(Addr)
          BY <5>1, RowIs
        <5>3. c.rob[i].ins.src[j] \in Addr
          BY <5>2, SeqAt
        <5> QED
          BY <5>3, AddrAssumption
      <4> QED
        BY <2>2, <4>1, <4>2, <4>3
    <3> QED
      BY <1>o, <3>1, <3>2
  <2> QED
    BY <2>1, <2>2
<1>2. ProducersOK(new.rob, new.LQ, new.SQ, h)
  <2> SUFFICES ASSUME NEW l \in LqSlot, new.LQ[l].addr # 0
               PROVE  LET q == new.LQ[l].id
                          a == new.LQ[l].addr
                          b == new.LQ[l].producer_id
                      IN  WaitsOn(new.rob, new.SQ, h, q, a, b) /\ (b # 0 => q \in new.rob[b].mem_depend_on_me)
    BY DEF ProducersOK, WaitsOn
  <2> DEFINE q == new.LQ[l].id
             a == new.LQ[l].addr
             b == new.LQ[l].producer_id
  <2>1. /\ q \in h .. ns - 1 /\ WaitsOn(c.rob, c.SQ, h, q, a, b)
        /\ b # 0 => q \in c.rob[b].mem_depend_on_me \/ (b = p /\ q = i)
    <3>1. CASE l # slot
      <4>1. new.LQ[l] = c.LQ[l] /\ c.LQ[l].addr # 0
        BY <1>o, <3>1
      <4> QED
        BY <1>l, <4>1 DEF LoadsOK, ProducersOK, WaitsOn
    <3>2. CASE l = slot
      <4>0. new.LQ[slot] # EmptyLoad
        BY <3>2 DEF EmptyLoad
      <4>1. new.LQ[slot] = v
        BY <1>o, <4>0
      <4>2. q = i /\ a = c.rob[i].ins.src[j] /\ b = p
        BY <1>v, <3>2, <4>1
      <4> HIDE DEF q, a, b
      <4> QED
        BY <4>0, <4>2
    <3> QED
      BY Zenon, <3>1, <3>2
  <2> HIDE DEF q, a, b
  <2>2. ASSUME NEW k \in h .. q - 1 PROVE k \in h .. ns - 1 /\ new.rob[k].ins = c.rob[k].ins
    BY <1>q, <1>r, <2>1
  <2>3. b = 0 => WaitsOn(new.rob, new.SQ, h, q, a, b)
    BY <2>1, <2>2 DEF WaitsOn
  <2>4. ASSUME b # 0 PROVE q \in new.rob[b].mem_depend_on_me /\ WaitsOn(new.rob, new.SQ, h, q, a, b)
    <3>1. NearestStore(c.rob, h, q, a, b)
      BY <2>1, <2>4 DEF WaitsOn
    <3>2. PICK m \in DOMAIN c.rob[b].ins.dst : c.rob[b].ins.dst[m] = a /\ Unwritten(c.rob[b], c.SQ, m)
      BY Zenon, <2>1, <2>4 DEF WaitsOn
    <3>3. b \in h .. q - 1 /\ b \in h .. ns - 1
      BY <2>2, <3>1 DEF NearestStore
    <3>4. NearestStore(new.rob, h, q, a, b)
      <4>1. \A k \in b + 1 .. q - 1 : k \in h .. q - 1
        BY <1>w, <3>3
      <4> QED
        BY <2>2, <3>1, <3>3, <4>1 DEF NearestStore
    <3>5. Unwritten(new.rob[b], new.SQ, m) /\ new.rob[b].ins = c.rob[b].ins
      BY Zenon, <1>r, <1>s, <3>2, <3>3 DEF Unwritten
    <3>6. q \in new.rob[b].mem_depend_on_me
      BY <1>r, <2>1, <2>4, <3>3
    <3>7. WaitsOn(new.rob, new.SQ, h, q, a, b)
      BY Zenon, <2>4, <3>2, <3>4, <3>5 DEF WaitsOn
    <3> QED
      BY <3>6, <3>7
  <2>5. WaitsOn(new.rob, new.SQ, h, q, a, b) /\ (b # 0 => q \in new.rob[b].mem_depend_on_me)
    BY <2>3, <2>4
  <2> QED
    BY <2>5 DEF q, a, b
<1> DEFINE a == c.rob[i].ins.src[j]
<1>a. a # 0
  <2>1. c.rob[i] \in Row
    BY <1>g, <1>w DEF Typed
  <2>2. c.rob[i].ins.src \in Seq(Addr)
    BY <2>1, RowIs
  <2>3. c.rob[i].ins.src[j] \in Addr
    BY <2>2, SeqAt
  <2> QED
    BY <2>3, AddrAssumption
<1>3. RowsAdded(c.rob, new.rob, h, ns, i, j, slot, p)
  <2> SUFFICES ASSUME NEW k \in h .. ns - 1 PROVE RowAdded(c.rob[k], new.rob[k], k, i, j, slot, p)
    BY DEF RowsAdded
  <2>1. AddedRow(c.rob[k], new.rob[k], k, i, j, slot, p)
    BY <1>e, <1>w
  <2> QED
    BY Zenon, <1>r, <2>1 DEF AddedRow, RowAdded
<1>4. LinkedOK(new.rob, h, ns)
  BY <1>3, <1>g, <1>w, AddLinked DEF LoadInv
<1>5. ForwardsOK(new.rob, new.LQ, new.SQ, h, ns)
  <2>1. /\ LinkedOK(c.rob, h, ns) /\ ForwardsOK(c.rob, c.LQ, c.SQ, h, ns) /\ StoresOK(c.rob, c.SQ, h, ns)
        /\ AddedAreDst(c.rob) /\ c.rob \in [Id -> Row]
    BY <1>g DEF LoadInv, StoreInv, AddedAreDst, EntriesOK, Typed
  <2>2. /\ c.LQ[slot] = EmptyLoad /\ \A l \in LqSlot : l # slot => new.LQ[l] = c.LQ[l]
        /\ new.LQ[slot] = EmptyLoad \/ new.LQ[slot] = [id |-> i, addr |-> a, producer_id |-> p]
        /\ TookData(c.SQ, new.LQ[slot], a, p) /\ FromStore(c.rob, h, i, a, p) /\ a = c.rob[i].ins.src[j]
    BY DEF TakenSlot
  <2> HIDE DEF a
  <2>3. ForwardsOK(new.rob, new.LQ, c.SQ, h, ns)
    BY <1>3, <1>a, <1>w, <2>1, <2>2, AddForwards
  <2> QED
    BY <1>s, <2>3
<1> QED
  BY <1>1, <1>2, <1>4, <1>5 DEF LoadInv

LEMMA OneMoves ==
  ASSUME NEW a \in Nat, NEW b \in Nat, NEW x \in Nat, NEW y \in Nat
  PROVE  (a - 1) + b + (x + 1) + y = a + b + x + y /\ (a - 1) + b + x + y = (a + b + x + y) - 1
         /\ a + (b - 1) + x + (y + 1) = a + b + x + y
OBVIOUS

(* The operations left of k when source j of i enters the load queue. *)
AddedOp(c, new, i, slot, k) ==
  /\ OpsOf(c.rob[k], c.LQ, c.SQ, k) \in Nat
  /\ k # i => OpsOf(new.rob[k], new.LQ, new.SQ, k) = OpsOf(c.rob[k], c.LQ, c.SQ, k)
  /\ k = i => OpsOf(c.rob[k], c.LQ, c.SQ, k) > 0
  /\ k = i /\ new.LQ[slot] # EmptyLoad => OpsOf(new.rob[k], new.LQ, new.SQ, k) = OpsOf(c.rob[k], c.LQ, c.SQ, k)
  /\ k = i /\ new.LQ[slot] = EmptyLoad => OpsOf(new.rob[k], new.LQ, new.SQ, k) = OpsOf(c.rob[k], c.LQ, c.SQ, k) - 1

LEMMA AddOps ==
  ASSUME NEW c, Typed(c), NEW new, NEW i \in Id, NEW j \in DOMAIN c.rob[i].ins.src, j \notin c.rob[i].source_added,
         NEW slot \in LqSlot, NEW p, AddFrame(c, new, i, j, slot, p), TakenSlot(c, new, i, j, slot, p), NEW k \in Id
  PROVE  AddedOp(c, new, i, slot, k)
<1>0. i # 0 /\ k # 0 /\ c.rob[k] \in Row
  <2>1. \A m \in Id : m # 0
    BY Sizes DEF Id
  <2> QED
    BY <2>1 DEF Typed
<1>e. /\ AddedRow(c.rob[k], new.rob[k], k, i, j, slot, p) /\ new.SQ = c.SQ
  BY DEF AddFrame, SameStores
<1>s. /\ c.LQ[slot] = EmptyLoad /\ \A l \in LqSlot : l # slot => new.LQ[l] = c.LQ[l]
      /\ new.LQ[slot] = EmptyLoad \/ new.LQ[slot].id = i
  BY DEF TakenSlot
<1> DEFINE A == LeftOf(c.rob[k])
           B == LeftTo(c.rob[k])
           X == LoadsOf(c.LQ, k)
           Y == StoresOf(c.SQ, k)
           A2 == LeftOf(new.rob[k])
           X2 == LoadsOf(new.LQ, k)
<1>1. LeftTo(new.rob[k]) = B /\ StoresOf(new.SQ, k) = Y
  BY <1>e DEF LeftTo, AddedRow
<1>2. /\ k # i => A2 = A
      /\ k = i => A2 = A \ {j} /\ j \in A
  BY <1>e DEF LeftOf, AddedRow
<1>3. slot \notin X
  BY <1>0, <1>s DEF LoadsOf, EmptyLoad
<1>4. /\ k # i \/ new.LQ[slot] = EmptyLoad => X2 = X
      /\ k = i /\ new.LQ[slot] # EmptyLoad => X2 = X \cup {slot}
  <2>1. \A l \in LqSlot : l # slot => (l \in X2 <=> l \in X)
    BY <1>s DEF LoadsOf
  <2>2. X \subseteq LqSlot /\ X2 \subseteq LqSlot /\ (slot \in X2 <=> new.LQ[slot].id = k)
    BY DEF LoadsOf
  <2>3. (k # i \/ new.LQ[slot] = EmptyLoad) => new.LQ[slot].id # k
    BY <1>0, <1>s DEF EmptyLoad
  <2> HIDE DEF X, X2
  <2> QED
    BY <1>3, <1>s, <2>1, <2>2, <2>3
<1>5. /\ IsFiniteSet(A) /\ IsFiniteSet(X) /\ Cardinality(A) \in Nat /\ Cardinality(B) \in Nat
      /\ Cardinality(X) \in Nat /\ Cardinality(Y) \in Nat
  BY <1>0, TermsFinite
<1>o. /\ OpsOf(c.rob[k], c.LQ, c.SQ, k) = Cardinality(A) + Cardinality(B) + Cardinality(X) + Cardinality(Y)
      /\ OpsOf(new.rob[k], new.LQ, new.SQ, k) = Cardinality(A2) + Cardinality(B) + Cardinality(X2) + Cardinality(Y)
  BY <1>1 DEF OpsOf
<1> HIDE DEF A, B, X, Y, A2, X2
<1>6. k = i => Cardinality(A2) = Cardinality(A) - 1 /\ Cardinality(A) > 0
  BY <1>2, <1>5, OneLess
<1>7. k = i /\ new.LQ[slot] # EmptyLoad => Cardinality(X2) = Cardinality(X) + 1
  BY <1>3, <1>4, <1>5, OneMore
<1>8. OpsOf(c.rob[k], c.LQ, c.SQ, k) \in Nat /\ (k = i => OpsOf(c.rob[k], c.LQ, c.SQ, k) > 0)
  BY <1>5, <1>6, <1>o
<1>9. k # i => OpsOf(new.rob[k], new.LQ, new.SQ, k) = OpsOf(c.rob[k], c.LQ, c.SQ, k)
  BY <1>2, <1>4, <1>o
<1>10. /\ (Cardinality(A) - 1) + Cardinality(B) + (Cardinality(X) + 1) + Cardinality(Y)
            = Cardinality(A) + Cardinality(B) + Cardinality(X) + Cardinality(Y)
       /\ (Cardinality(A) - 1) + Cardinality(B) + Cardinality(X) + Cardinality(Y)
            = (Cardinality(A) + Cardinality(B) + Cardinality(X) + Cardinality(Y)) - 1
  BY <1>5, OneMoves
<1>11. k = i /\ new.LQ[slot] # EmptyLoad => OpsOf(new.rob[k], new.LQ, new.SQ, k) = OpsOf(c.rob[k], c.LQ, c.SQ, k)
  BY <1>6, <1>7, <1>10, <1>o
<1>12. k = i /\ new.LQ[slot] = EmptyLoad => OpsOf(new.rob[k], new.LQ, new.SQ, k) = OpsOf(c.rob[k], c.LQ, c.SQ, k) - 1
  BY <1>4, <1>6, <1>10, <1>o
<1> QED
  BY <1>8, <1>9, <1>11, <1>12 DEF AddedOp

LEMMA SourcesAreMemory ==
  ASSUME NEW e \in Row, NEW j \in DOMAIN e.ins.src \cup DOMAIN e.ins.dst
  PROVE  is_memory(e)
<1> SUFFICES ASSUME ~is_memory(e) PROVE FALSE
  OBVIOUS
<1>1. e.ins.src = << >> /\ e.ins.dst = << >>
  BY NoOps
<1>2. DOMAIN e.ins.src = {} /\ DOMAIN e.ins.dst = {}
  BY <1>1, EmptyList
<1> QED
  BY <1>2

(* The load stays in the queue. *)
LEMMA TakeStep ==
  ASSUME NEW c, NEW h, NEW t, NEW ns, NEW d, NEW r, Good(c, h, t, ns, d, r), NEW i \in h .. ns - 1,
         c.rob[i].reg_ready, NEW j \in DOMAIN c.rob[i].ins.src, j \notin c.rob[i].source_added,
         NEW slot \in LqSlot, c.LQ[slot] = EmptyLoad, NEW p \in (h .. i - 1) \cup {0},
         FromStore(c.rob, h, i, c.rob[i].ins.src[j], p),
         WaitsOn(c.rob, c.SQ, h, i, c.rob[i].ins.src[j], p), NEW x, Taken(c, x, i, j, slot, p)
  PROVE  Good(x, h, t, ns, d, r)
<1>g. /\ IsCore(c) /\ Typed(c) /\ Win(h, t, ns) /\ CountInv(c, h, t) /\ PlacesOK(c, d, r)
      /\ d \subseteq {"LQ", "SQ"} \X Nat /\ r \subseteq LqSlot
  BY GoodIs DEF Good
<1>w. h \in Nat \ {0} /\ h .. t - 1 \subseteq Id /\ h .. ns - 1 \subseteq Id /\ h .. ns - 1 \subseteq h .. t - 1
  BY <1>g DEF Win
<1>k. /\ IsCore(x) /\ Typed(x) /\ SameStores(c, x) /\ x.SQ = c.SQ
      /\ \A k \in Id : AddedRow(c.rob[k], x.rob[k], k, i, j, slot, p) /\ x.rob[k].num_mem_ops = c.rob[k].num_mem_ops
      /\ \A l \in LqSlot : x.LQ[l] = IF l = slot THEN [id |-> i, addr |-> c.rob[i].ins.src[j], producer_id |-> p]
                                     ELSE c.LQ[l]
      /\ x.LQ_occupancy = c.LQ_occupancy + 1 /\ x.inflight_reg = c.inflight_reg /\ x.inflight_mem = c.inflight_mem
      /\ x.RT["RTL0"] = IF p = 0 THEN Append(c.RT["RTL0"], slot) ELSE c.RT["RTL0"]
      /\ \A y \in Lists : y # "RTL0" => x.RT[y] = c.RT[y]
  BY DEF Taken, SameStores
<1>f. AddFrame(c, x, i, j, slot, p)
  BY <1>k DEF AddFrame, Lists
<1>s. TakenSlot(c, x, i, j, slot, p)
  BY <1>k DEF TakenSlot
<1>a. c.rob[i].ins.src[j] # 0 /\ i \in Id
  <2>1. c.rob[i] \in Row /\ i \in Id
    BY <1>g, <1>w DEF Typed
  <2>2. c.rob[i].ins.src \in Seq(Addr)
    BY <2>1, RowIs
  <2>3. c.rob[i].ins.src[j] \in Addr
    BY <2>2, SeqAt
  <2> QED
    BY <2>1, <2>3, AddrAssumption
<1>b. x.LQ[slot].addr # 0 /\ x.LQ[slot].producer_id = p /\ x.LQ[slot] # EmptyLoad /\ c.LQ[slot].addr = 0
  BY <1>a, <1>k DEF EmptyLoad
<1>1. /\ x \in Shape /\ EntriesOK(x.rob, h, t, ns) /\ RegInv(x.rob, x.RT, h, ns) /\ StoreInv(x, h, t, ns)
      /\ RegInflight(x.rob, h, t) = RegInflight(c.rob, h, t)
  <2>1. StillOK(c, x, h, t, ns)
    BY <1>f, AddKept
  <2> QED
    BY <2>1 DEF StillOK
<1>2. LoadInv(x.rob, x.LQ, x.SQ, h, ns)
  <2>1. TookData(c.SQ, x.LQ[slot], c.rob[i].ins.src[j], p)
    BY <1>b DEF TookData
  <2> QED
    BY <1>f, <1>s, <2>1, AddLoads
<1>c. /\ OpsOK(c.rob, c.LQ, c.SQ, h, t) /\ c.LQ_occupancy = Cardinality(UsedLoads(c.LQ))
      /\ c.inflight_mem = Cardinality(MemInflight(c.rob, h, t))
      /\ c.inflight_reg = Cardinality(RegInflight(c.rob, h, t))
  BY <1>g DEF CountInv
<1>m. ASSUME NEW k \in h .. t - 1
      PROVE  /\ x.rob[k].ins = c.rob[k].ins /\ x.rob[k].executed = c.rob[k].executed
             /\ x.rob[k].num_mem_ops = c.rob[k].num_mem_ops
  BY <1>k, <1>w DEF AddedRow
<1>3. OpsOK(x.rob, x.LQ, x.SQ, h, t)
  <2> SUFFICES ASSUME NEW k \in h .. t - 1
               PROVE  x.rob[k].num_mem_ops = OpsOf(x.rob[k], x.LQ, x.SQ, k) /\ (Done(x.rob[k]) => x.rob[k].num_mem_ops = 0)
    BY OpsIs
  <2>0. k \in Id
    BY <1>w
  <2>1. OpsOf(x.rob[k], x.LQ, x.SQ, k) = OpsOf(c.rob[k], c.LQ, c.SQ, k)
    <3>1. AddedOp(c, x, i, slot, k)
      BY <1>a, <1>f, <1>g, <1>s, <2>0, AddOps
    <3> QED
      BY <1>b, <3>1 DEF AddedOp
  <2>2. c.rob[k].num_mem_ops = OpsOf(c.rob[k], c.LQ, c.SQ, k) /\ (Done(c.rob[k]) => c.rob[k].num_mem_ops = 0)
    BY <1>c, OpsIs
  <2> QED
    BY <1>m, <2>1, <2>2 DEF Done
<1>4. MemInflight(x.rob, h, t) = MemInflight(c.rob, h, t)
  BY <1>m DEF MemInflight, Done, is_memory
<1>5. x.LQ_occupancy = Cardinality(UsedLoads(x.LQ))
  <2> DEFINE U == UsedLoads(c.LQ)
  <2>1. UsedLoads(x.LQ) = U \cup {slot} /\ slot \notin U
    BY <1>b, <1>k DEF UsedLoads
  <2>2. U \in SUBSET LqSlot
    BY DEF UsedLoads
  <2> HIDE DEF U
  <2>3. Cardinality(U \cup {slot}) = Cardinality(U) + 1
    BY <2>1, <2>2, SlotsFinite, FS_Subset, OneMore
  <2> QED
    BY <1>c, <1>k, <2>1, <2>3 DEF U
<1>6. CountInv(x, h, t)
  BY <1>1, <1>3, <1>4, <1>5, <1>c, <1>k DEF CountInv
<1>7. PlacesOK(x, d, r)
  <2> DEFINE L0 == Elements(c.RT["RTL0"])
             L1 == Elements(c.RT["RTL1"])
             L2 == Translating(d, "LQ")
             T0 == Elements(x.RT["RTL0"])
             U == {l \in LqSlot : c.LQ[l].addr # 0 /\ c.LQ[l].producer_id = 0}
             V == {l \in LqSlot : x.LQ[l].addr # 0 /\ x.LQ[l].producer_id = 0}
  <2>0. /\ L0 \cap L1 = {} /\ L0 \cap L2 = {} /\ L1 \cap L2 = {}
        /\ L0 \cap r = {} /\ L1 \cap r = {} /\ L2 \cap r = {} /\ L0 \cup L1 \cup L2 \cup r = U
        /\ Distinct(c.RT["RTL0"])
    BY <1>g DEF PlacesOK
  <2>1. V = IF p = 0 THEN U \cup {slot} ELSE U
    <3>1. \A l \in LqSlot : l # slot => x.LQ[l] = c.LQ[l]
      BY <1>k
    <3> QED
      BY <1>b, <3>1
  <2>2. slot \notin U
    BY <1>b
  <2>3. Distinct(x.RT["RTL0"]) /\ T0 = IF p = 0 THEN L0 \cup {slot} ELSE L0
    <3>1. CASE p = 0
      <4>1. c.RT["RTL0"] \in Seq(Nat) /\ slot \in Nat
        BY <1>g, SlotsFinite DEF Typed, Lists
      <4>2. slot \notin L0
        BY <2>0, <2>2
      <4>3. Distinct(Append(c.RT["RTL0"], slot)) /\ Elements(Append(c.RT["RTL0"], slot)) = Elements(c.RT["RTL0"]) \cup {slot}
        BY <2>0, <4>1, <4>2, AppendList
      <4> QED
        BY <1>k, <3>1, <4>3
    <3>2. CASE p # 0
      BY <1>k, <2>0, <3>2
    <3> QED
      BY <3>1, <3>2
  <2>4. /\ x.RT["RTL1"] = c.RT["RTL1"] /\ x.RT["RTS0"] = c.RT["RTS0"] /\ x.RT["RTS1"] = c.RT["RTS1"]
    BY <1>k DEF Lists
  <2>5. /\ T0 \cap L1 = {} /\ T0 \cap L2 = {} /\ T0 \cap r = {} /\ T0 \cup L1 \cup L2 \cup r = V
    <3> HIDE DEF L0, L1, L2, T0, U, V
    <3> QED
      BY <2>0, <2>1, <2>2, <2>3
  <2>6. \A y \in {"RTL0", "RTL1", "RTS0", "RTS1"} : Distinct(x.RT[y])
    BY <1>g, <2>3, <2>4 DEF PlacesOK
  <2> QED
    BY <1>g, <1>k, <2>0, <2>4, <2>5, <2>6 DEF PlacesOK
<1>8. Window(h, t, ns)
  BY DEF Good
<1> QED
  BY <1>1, <1>2, <1>6, <1>7, <1>8, <1>g DEF Good

LEMMA AddedOps ==
  ASSUME NEW e, NEW g, NEW f \in Row, NEW i, NEW j, NEW slot, NEW p, AddedRow(e, g, i, i, j, slot, p), RegSame(g, f),
         f.reg_depend_on_me = g.reg_depend_on_me, f.mem_depend_on_me = g.mem_depend_on_me,
         f.lq_index = g.lq_index, f.sq_index = g.sq_index
  PROVE  AddedRow(e, f, i, i, j, slot, p)
BY DEF AddedRow, RegSame

(* What is left of the load when its producer has executed: the source is added, the slot empty again. *)
OpDone(c, new, i, j, slot, p) ==
  /\ AddFrame(c, new, i, j, slot, p) /\ new.LQ = c.LQ /\ new.LQ_occupancy = c.LQ_occupancy
  /\ \A y \in Lists : new.RT[y] = c.RT[y]
  /\ \A k \in Id : new.rob[k].num_mem_ops = IF k = i THEN c.rob[k].num_mem_ops - 1 ELSE c.rob[k].num_mem_ops
  /\ new.inflight_mem = c.inflight_mem + Cardinality({k \in {i} : c.rob[k].num_mem_ops = 1})

LEMMA DoneIs ==
  ASSUME NEW c, NEW i \in Id, NEW j, NEW slot \in LqSlot, c.LQ \in [LqSlot -> Loads], c.LQ[slot] = EmptyLoad,
         c.LQ_occupancy \in Int, c.inflight_mem \in Int, NEW p \in Id, NEW x, Taken(c, x, i, j, slot, p),
         NEW new, new = release_load_queue(x, {slot}, 0)
  PROVE  OpDone(c, new, i, j, slot, p)
<1> DEFINE N == {k \in {i} : c.rob[k].num_mem_ops = 1}
           L == {slot}
           n == EndingOps(x, L, 0)
<1>0. p # 0 /\ i # 0
  BY Sizes DEF Id
<1>k. /\ IsCore(x) /\ Typed(x) /\ SameStores(c, x)
      /\ \A k \in Id : AddedRow(c.rob[k], x.rob[k], k, i, j, slot, p) /\ x.rob[k].num_mem_ops = c.rob[k].num_mem_ops
      /\ \A l \in LqSlot : l # slot => x.LQ[l] = c.LQ[l]
      /\ x.LQ[slot].id = i
      /\ x.LQ_occupancy = c.LQ_occupancy + 1 /\ x.inflight_reg = c.inflight_reg /\ x.inflight_mem = c.inflight_mem
      /\ x.RT["RTL0"] = c.RT["RTL0"]
      /\ \A y \in Lists : y # "RTL0" => x.RT[y] = c.RT[y]
  BY <1>0 DEF Taken
<1>t. x.rob \in [Id -> Row] /\ x.LQ \in [LqSlot -> Loads]
  BY <1>k DEF Typed
<1>c. Cardinality(L) = 1
  BY FS_Singleton
<1>1. ASSUME NEW k \in Id PROVE n[k] = (IF k = i THEN 1 ELSE 0)
  <2>1. k # 0
    BY Sizes DEF Id
  <2>2. n[k] = Cardinality({l \in L : x.LQ[l].id = k}) + 0
    BY <2>1 DEF EndingOps
  <2>3. {l \in L : x.LQ[l].id = k} = IF k = i THEN L ELSE {}
    BY <1>k
  <2> DEFINE A == {l \in L : x.LQ[l].id = k}
  <2>4. Cardinality(A) = IF k = i THEN 1 ELSE 0
    BY <1>c, <2>3, FS_EmptySet
  <2>5. n[k] = Cardinality(A) + 0
    BY <2>2
  <2> HIDE DEF A, n, L
  <2> QED
    BY <2>4, <2>5
<1>2. n \in [Id -> Int] /\ n = EndingOps(x, L, 0)
  <2>1. n = [k \in Id |-> n[k]]
    BY DEF EndingOps
  <2> HIDE DEF n
  <2>2. n \in [Id -> Int]
    BY <1>1, <2>1
  <2> QED
    BY <2>2 DEF n
<1> HIDE DEF n
<1>3. Ended(x, new, L, n)
  BY <1>2, <1>k, <1>t, EndedIs
<1>4. /\ IsCore(new) /\ new.rob \in [Id -> Row] /\ new.LQ \in [LqSlot -> Loads]
      /\ \A k \in Id : OpsRow(x.rob[k], new.rob[k], n[k])
      /\ \A l \in LqSlot : new.LQ[l] = IF l \in L THEN EmptyLoad ELSE x.LQ[l]
      /\ new.LQ_occupancy = x.LQ_occupancy - Cardinality(L)
      /\ new.inflight_mem = x.inflight_mem + Cardinality({k \in Id : n[k] > 0 /\ x.rob[k].num_mem_ops = n[k]})
      /\ new.inflight_reg = x.inflight_reg /\ new.RT = x.RT /\ SameStores(x, new)
  BY <1>3 DEF Ended
<1>5. new.LQ = c.LQ
  <2>1. \A l \in LqSlot : new.LQ[l] = c.LQ[l]
    BY <1>4, <1>k
  <2> DEFINE T == Loads
  <2>2. new.LQ \in [LqSlot -> T] /\ c.LQ \in [LqSlot -> T]
    BY <1>4
  <2> DEFINE A == new.LQ
             B == c.LQ
  <2> HIDE DEF T, A, B
  <2>3. A \in [LqSlot -> T] /\ B \in [LqSlot -> T] /\ \A l \in LqSlot : A[l] = B[l]
    BY <2>1, <2>2 DEF A, B
  <2>4. A = B
    BY <2>3
  <2> QED
    BY <2>4 DEF A, B
<1>6. new.LQ_occupancy = c.LQ_occupancy
  <2>1. /\ new.LQ_occupancy = x.LQ_occupancy - Cardinality(L) /\ Cardinality(L) = 1
        /\ x.LQ_occupancy = c.LQ_occupancy + 1 /\ c.LQ_occupancy \in Int
    BY <1>4, <1>c, <1>k
  <2> HIDE DEF L
  <2> QED
    BY <2>1
<1>7. \A y \in Lists : new.RT[y] = c.RT[y]
  BY <1>4, <1>k
<1>8. new.inflight_mem = c.inflight_mem + Cardinality(N)
  <2>1. {k \in Id : n[k] > 0 /\ x.rob[k].num_mem_ops = n[k]} = N
    BY <1>1, <1>k
  <2> QED
    BY <1>4, <1>k, <2>1
<1>9. ASSUME NEW k \in Id
      PROVE  /\ AddedRow(c.rob[k], new.rob[k], k, i, j, slot, p)
             /\ new.rob[k].num_mem_ops = IF k = i THEN c.rob[k].num_mem_ops - 1 ELSE c.rob[k].num_mem_ops
  <2>1. OpsRow(x.rob[k], new.rob[k], n[k]) /\ AddedRow(c.rob[k], x.rob[k], k, i, j, slot, p)
        /\ x.rob[k].num_mem_ops = c.rob[k].num_mem_ops
    BY <1>4, <1>k
  <2>2. /\ new.rob[k] \in Row /\ RegSame(x.rob[k], new.rob[k]) /\ new.rob[k].reg_depend_on_me = x.rob[k].reg_depend_on_me
        /\ new.rob[k].mem_depend_on_me = x.rob[k].mem_depend_on_me /\ new.rob[k].lq_index = x.rob[k].lq_index
        /\ new.rob[k].sq_index = x.rob[k].sq_index
        /\ new.rob[k].num_mem_ops = x.rob[k].num_mem_ops - n[k] /\ (n[k] = 0 => new.rob[k] = x.rob[k])
    BY <2>1 DEF OpsRow
  <2>3. AddedRow(c.rob[k], new.rob[k], k, i, j, slot, p)
    <3>1. CASE k = i
      BY <2>1, <2>2, <3>1, AddedOps
    <3>2. CASE k # i
      BY <1>1, <2>1, <2>2, <3>2
    <3> QED
      BY <3>1, <3>2
  <2>4. new.rob[k].num_mem_ops = IF k = i THEN c.rob[k].num_mem_ops - 1 ELSE c.rob[k].num_mem_ops
    <3>1. CASE k = i
      BY <1>1, <2>1, <2>2, <3>1
    <3>2. CASE k # i
      BY <1>1, <2>1, <2>2, <3>2
    <3> QED
      BY <3>1, <3>2
  <2> QED
    BY <2>3, <2>4
<1>10. SameStores(c, new)
  BY <1>4, <1>k DEF SameStores
<1>11. Typed(new)
  <2>1. N \subseteq Id
    OBVIOUS
  <2>2. Cardinality(N) \in Nat
    BY <2>1, IdFinite
  <2>3. new.LQ_occupancy \in Int /\ new.inflight_mem \in Int
    BY <1>6, <1>8, <2>2
  <2> QED
    BY <1>4, <1>k, <2>3 DEF Typed, SameStores
<1>12. AddFrame(c, new, i, j, slot, p)
  BY <1>4, <1>7, <1>9, <1>10, <1>11, <1>k DEF AddFrame, Lists
<1> QED
  BY <1>12, <1>5, <1>6, <1>7, <1>8, <1>9 DEF OpDone

(* The load gets its data at once. *)
LEMMA DoneStep ==
  ASSUME NEW c, NEW h, NEW t, NEW ns, NEW d, NEW r, Good(c, h, t, ns, d, r), NEW i \in h .. ns - 1,
         c.rob[i].reg_ready, NEW j \in DOMAIN c.rob[i].ins.src, j \notin c.rob[i].source_added,
         NEW slot \in LqSlot, c.LQ[slot] = EmptyLoad, NEW p \in h .. i - 1, NEW x, Taken(c, x, i, j, slot, p),
         NearestStore(c.rob, h, i, c.rob[i].ins.src[j], p),
         \E s \in SqSlot : c.SQ[s].addr = c.rob[i].ins.src[j] /\ c.SQ[s].id = p /\ c.SQ[s].fetched,
         NEW new, new = release_load_queue(x, {slot}, 0)
  PROVE  Good(new, h, t, ns, d, r)
<1>g. /\ IsCore(c) /\ Typed(c) /\ Win(h, t, ns) /\ CountInv(c, h, t) /\ PlacesOK(c, d, r)
      /\ d \subseteq {"LQ", "SQ"} \X Nat /\ r \subseteq LqSlot
  BY GoodIs DEF Good
<1>w. /\ h \in Nat /\ h \in Nat \ {0} /\ t \in Nat /\ ns \in Nat /\ h .. t - 1 \subseteq Id /\ h .. ns - 1 \subseteq Id /\ h .. ns - 1 \subseteq h .. t - 1
      /\ ns <= MaxInstr + 1
  BY <1>g DEF Win
<1>t. c.LQ \in [LqSlot -> Loads] /\ c.LQ_occupancy \in Int /\ c.inflight_mem \in Int
  BY <1>g DEF Typed
<1>i. i \in Id /\ p \in Id /\ i \in h .. t - 1 /\ p \in (h .. i - 1) \cup {0}
  <2>1. p \in h .. ns - 1
    BY <1>w
  <2> QED
    BY <1>w, <2>1
<1> DEFINE N == {k \in {i} : c.rob[k].num_mem_ops = 1}
           M == MemInflight(c.rob, h, t)
           M2 == MemInflight(new.rob, h, t)
<1>k. /\ AddFrame(c, new, i, j, slot, p) /\ new.LQ = c.LQ /\ new.LQ_occupancy = c.LQ_occupancy
      /\ \A y \in Lists : new.RT[y] = c.RT[y]
      /\ \A k \in Id : new.rob[k].num_mem_ops = IF k = i THEN c.rob[k].num_mem_ops - 1 ELSE c.rob[k].num_mem_ops
      /\ new.inflight_mem = c.inflight_mem + Cardinality(N)
  <2>1. OpDone(c, new, i, j, slot, p)
    BY <1>i, <1>t, DoneIs
  <2> QED
    BY <2>1 DEF OpDone
<1>s. TakenSlot(c, new, i, j, slot, p) /\ new.LQ[slot] = EmptyLoad
  BY <1>k DEF TakenSlot
<1>f. new.SQ = c.SQ /\ new.inflight_reg = c.inflight_reg
  BY <1>k DEF AddFrame, SameStores
<1>1. StillOK(c, new, h, t, ns)
  BY <1>i, <1>k, AddKept
<1>2. LoadInv(new.rob, new.LQ, new.SQ, h, ns)
  <2>1. /\ FromStore(c.rob, h, i, c.rob[i].ins.src[j], p)
        /\ TookData(c.SQ, new.LQ[slot], c.rob[i].ins.src[j], p)
    <3>1. p # 0
      BY <1>w
    <3> QED
      BY <3>1 DEF FromStore, TookData
  <2> QED
    BY <1>i, <1>k, <1>s, <2>1, AddLoads
<1>c. /\ OpsOK(c.rob, c.LQ, c.SQ, h, t) /\ c.LQ_occupancy = Cardinality(UsedLoads(c.LQ))
      /\ c.inflight_mem = Cardinality(M)
      /\ c.inflight_reg = Cardinality(RegInflight(c.rob, h, t))
  BY <1>g DEF CountInv
<1>m. ASSUME NEW k \in h .. t - 1
      PROVE  /\ new.rob[k].ins = c.rob[k].ins /\ new.rob[k].executed = c.rob[k].executed
             /\ k # i => new.rob[k].num_mem_ops = c.rob[k].num_mem_ops
             /\ k = i => new.rob[k].num_mem_ops = c.rob[k].num_mem_ops - 1 /\ c.rob[k].num_mem_ops > 0
                         /\ c.rob[k].num_mem_ops \in Nat /\ ~Done(c.rob[k])
             /\ new.rob[k].num_mem_ops = OpsOf(new.rob[k], new.LQ, new.SQ, k)
             /\ Done(c.rob[k]) => c.rob[k].num_mem_ops = 0
  <2>0. k \in Id
    BY <1>w
  <2>1. new.rob[k].ins = c.rob[k].ins /\ new.rob[k].executed = c.rob[k].executed
    BY <1>k, <2>0 DEF AddFrame, AddedRow
  <2>2. c.rob[k].num_mem_ops = OpsOf(c.rob[k], c.LQ, c.SQ, k) /\ (Done(c.rob[k]) => c.rob[k].num_mem_ops = 0)
    BY <1>c, OpsIs
  <2>3. /\ OpsOf(c.rob[k], c.LQ, c.SQ, k) \in Nat
        /\ k # i => OpsOf(new.rob[k], new.LQ, new.SQ, k) = OpsOf(c.rob[k], c.LQ, c.SQ, k)
        /\ k = i => OpsOf(c.rob[k], c.LQ, c.SQ, k) > 0
        /\ k = i /\ new.LQ[slot] = EmptyLoad => OpsOf(new.rob[k], new.LQ, new.SQ, k) = OpsOf(c.rob[k], c.LQ, c.SQ, k) - 1
    <3>1. AddedOp(c, new, i, slot, k)
      BY <1>g, <1>i, <1>k, <1>s, <2>0, AddOps
    <3> QED
      BY <3>1 DEF AddedOp
  <2>4. new.rob[k].num_mem_ops = IF k = i THEN c.rob[k].num_mem_ops - 1 ELSE c.rob[k].num_mem_ops
    BY <1>k, <2>0
  <2> QED
    BY <1>s, <2>1, <2>2, <2>3, <2>4
<1>3. OpsOK(new.rob, new.LQ, new.SQ, h, t)
  <2> SUFFICES ASSUME NEW k \in h .. t - 1
               PROVE  new.rob[k].num_mem_ops = OpsOf(new.rob[k], new.LQ, new.SQ, k) /\ (Done(new.rob[k]) => new.rob[k].num_mem_ops = 0)
    BY OpsIs
  <2> QED
    BY <1>m DEF Done
<1>4. M2 = M \cup N /\ M \cap N = {}
  <2>1. is_memory(c.rob[i])
    <3>1. c.rob[i] \in Row
      BY <1>g, <1>i DEF Typed
    <3> QED
      BY <3>1, SourcesAreMemory
  <2>2. ASSUME NEW k \in h .. t - 1 PROVE (k \in M2 <=> k \in M \/ k \in N) /\ ~(k \in M /\ k \in N)
    <3>1. CASE k = i
      <4>1. k \notin M
        BY <1>m, <3>1 DEF MemInflight
      <4>2. k \in N <=> c.rob[k].num_mem_ops = 1
        BY <3>1
      <4>3. k \in M2 <=> c.rob[k].num_mem_ops = 1
        <5>1. new.rob[k].ins = c.rob[k].ins /\ new.rob[k].executed = c.rob[k].executed
              /\ new.rob[k].num_mem_ops = c.rob[k].num_mem_ops - 1 /\ c.rob[k].num_mem_ops \in Nat /\ ~Done(c.rob[k])
          BY <1>m, <3>1
        <5>2. is_memory(new.rob[k]) /\ ~Done(new.rob[k])
          BY <2>1, <3>1, <5>1 DEF is_memory, Done
        <5>3. new.rob[k].num_mem_ops = 0 <=> c.rob[k].num_mem_ops = 1
          BY <5>1
        <5> QED
          BY <5>2, <5>3 DEF MemInflight
      <4> QED
        BY <4>1, <4>2, <4>3
    <3>2. CASE k # i
      BY <1>m, <3>2 DEF MemInflight, Done, is_memory
    <3> QED
      BY <3>1, <3>2
  <2>3. M \subseteq h .. t - 1 /\ M2 \subseteq h .. t - 1 /\ N \subseteq h .. t - 1
    BY <1>i DEF MemInflight
  <2> HIDE DEF N, M, M2
  <2> QED
    BY <2>2, <2>3
<1>5. new.inflight_mem = Cardinality(M2)
  <2>0. N \in SUBSET Id /\ M \in SUBSET (h .. t - 1)
    BY <1>i DEF MemInflight
  <2>n. new.inflight_mem = Cardinality(M) + Cardinality(N)
    BY <1>c, <1>k
  <2> HIDE DEF N, M, M2
  <2>1. IsFiniteSet(N) /\ IsFiniteSet(M) /\ Cardinality(N) \in Nat /\ Cardinality(M) \in Nat
    BY <1>w, <2>0, IdFinite, InRobFinite
  <2>2. Cardinality(M \cup N) = Cardinality(M) + Cardinality(N) - Cardinality(M \cap N)
    BY <2>1, FS_Union
  <2>3. Cardinality(M \cap N) = 0
    BY <1>4, FS_EmptySet
  <2> QED
    BY <1>4, <2>1, <2>2, <2>3, <2>n
<1>6. CountInv(new, h, t)
  BY <1>1, <1>3, <1>5, <1>c, <1>f, <1>k DEF CountInv, StillOK
<1>7. PlacesOK(new, d, r)
  BY <1>f, <1>g, <1>k, PlacesKept DEF Lists
<1>8. Window(h, t, ns)
  BY DEF Good
<1> QED
  BY <1>1, <1>2, <1>6, <1>7, <1>8, <1>g DEF Good, StillOK

(* The store that the load finds in the store queue has executed. *)
StoreOf(SQ, a, p) == {s \in SqSlot : SQ[s].addr = a /\ SQ[s].id = p}
FirstOf(S) == CHOOSE s \in S : \A k \in S : s <= k
Forwards(SQ, a, p) == StoreOf(SQ, a, p) # {} /\ SQ[FirstOf(StoreOf(SQ, a, p))].fetched

AddedOK(rob, h, ns) == \A q \in h .. ns - 1 : rob[q].destination_added \subseteq DOMAIN rob[q].ins.dst

LEMMA WaitsIs ==
  ASSUME NEW c, NEW h \in Nat, NEW ns \in Nat, StoresOK(c.rob, c.SQ, h, ns), AddedOK(c.rob, h, ns), NEW i \in h .. ns - 1,
         NEW a, a # 0, NEW p, NearestStore(c.rob, h, i, a, p), ~Forwards(c.SQ, a, p)
  PROVE  p # 0 => WaitsOn(c.rob, c.SQ, h, i, a, p)
<1> SUFFICES \E j \in DOMAIN c.rob[p].ins.dst : c.rob[p].ins.dst[j] = a /\ Unwritten(c.rob[p], c.SQ, j)
  BY DEF WaitsOn
<1>1. p \in h .. ns - 1 /\ \E m \in DOMAIN c.rob[p].ins.dst : c.rob[p].ins.dst[m] = a
  <2>1. p \in h .. i - 1 /\ a \in Range(c.rob[p].ins.dst)
    BY DEF NearestStore
  <2> QED
    BY <2>1 DEF Range
<1>2. PICK m \in DOMAIN c.rob[p].ins.dst : c.rob[p].ins.dst[m] = a
  BY <1>1
<1>3. CASE m \notin c.rob[p].destination_added
  BY <1>2, <1>3 DEF Unwritten
<1>4. CASE m \in c.rob[p].destination_added
  <2> DEFINE S == StoreOf(c.SQ, a, p)
             s == FirstOf(S)
  <2>1. c.rob[p].sq_index[m] \in S
    BY Zenon, <1>1, <1>2, <1>4 DEF StoresOK, StoreOf
  <2>2. S \in SUBSET Nat
    BY SlotsFinite DEF StoreOf
  <2>3. s \in S
    <3> HIDE DEF S
    <3>1. \E x \in S : \A k \in S : x <= k
      BY <2>1, <2>2, FirstIsLeast
    <3> QED
      BY <3>1, Zenon DEF FirstOf
  <2>4. ~c.SQ[s].fetched
    <3>1. S # {}
      BY <2>1
    <3> QED
      BY <3>1, Zenon DEF Forwards
  <2>5. s \in SqSlot /\ c.SQ[s].addr = a /\ c.SQ[s].id = p
    BY <2>3 DEF StoreOf
  <2> HIDE DEF s, S
  <2>6. PICK k \in c.rob[p].destination_added : c.rob[p].sq_index[k] = s
    BY Zenon, <2>5 DEF StoresOK
  <2>7. c.rob[p].ins.dst[k] = a
    <3>1. c.SQ[c.rob[p].sq_index[k]].addr = c.rob[p].ins.dst[k]
      BY <1>1, <2>6, StoreEntry
    <3> QED
      BY Zenon, <2>5, <2>6, <3>1
  <2>8. Unwritten(c.rob[p], c.SQ, k)
    BY <2>4, <2>6 DEF Unwritten
  <2>9. k \in DOMAIN c.rob[p].ins.dst
    BY <1>1, <2>6 DEF AddedOK
  <2> QED
    BY <2>7, <2>8, <2>9
<1> QED
  BY <1>3, <1>4

(* What the loops of schedule_memory_instruction do not change. *)
SamePlan(c, new) == \A k \in Id : new.rob[k].ins = c.rob[k].ins /\ new.rob[k].reg_ready = c.rob[k].reg_ready

LoadedOf(c, i, j, slot, p) ==
  IF Forwards(c.SQ, c.rob[i].ins.src[j], p) THEN release_load_queue(TakenOf(c, i, j, slot, p), {slot}, 0)
  ELSE TakenOf(c, i, j, slot, p)

LEMMA AddLoadIs ==
  ASSUME NEW c, NEW i, NEW j
  PROVE  add_load_queue(c, i, j)
           = LoadedOf(c, i, j, FreeSlot(c), mem_RAW_dependency(c, i, c.rob[i].ins.src[j]))
BY Zenon DEF LoadedOf, add_load_queue, Forwards, StoreOf, FirstOf, TakenOf, FreeSlot

LEMMA AddLoadStep ==
  ASSUME NEW c, NEW t, NEW ns, NEW d, NEW r, Good(c, head, t, ns, d, r), NEW i \in head .. ns - 1,
         c.rob[i].reg_ready, NEW j \in DOMAIN c.rob[i].ins.src, j \notin c.rob[i].source_added,
         c.LQ_occupancy < LQ_SIZE, NEW new, new = add_load_queue(c, i, j)
  PROVE  Good(new, head, t, ns, d, r) /\ SamePlan(c, new)
<1> DEFINE h == head
           a == c.rob[i].ins.src[j]
           slot == FreeSlot(c)
           p == mem_RAW_dependency(c, i, a)
           x == TakenOf(c, i, j, slot, p)
<1>g. /\ IsCore(c) /\ Typed(c) /\ Win(h, t, ns) /\ EntriesOK(c.rob, h, t, ns) /\ StoreInv(c, h, t, ns)
      /\ Good(c, h, t, ns, d, r) /\ i \in h .. ns - 1
  BY GoodIs
<1>w. /\ h \in Nat /\ h \in Nat \ {0} /\ ns \in Nat /\ h .. ns - 1 \subseteq Id /\ i \in Nat
  BY <1>g DEF Win
<1>i. i \in Id /\ c.rob[i] \in Row
  BY <1>g, <1>w DEF Typed
<1>a. a # 0
  <2>1. c.rob[i].ins.src \in Seq(Addr)
    BY <1>i, RowIs
  <2>2. a \in Addr
    BY <2>1, SeqAt
  <2> QED
    BY <2>2, AddrAssumption
<1>e. AddedOK(c.rob, h, ns) /\ DOMAIN c.rob[i].lq_index = DOMAIN c.rob[i].ins.src
  BY <1>g, <1>i, <1>w DEF EntriesOK, AddedOK
<1>1. slot \in LqSlot /\ c.LQ[slot] = EmptyLoad
  BY SlotIs
<1>2. IF p = 0 THEN \A q \in h .. i - 1 : a \notin Range(c.rob[q].ins.dst)
      ELSE NearestStore(c.rob, h, i, a, p)
  BY <1>w, ProducerIs
<1>3. new = LoadedOf(c, i, j, slot, p)
  BY AddLoadIs
<1>4. new = IF Forwards(c.SQ, a, p) THEN release_load_queue(x, {slot}, 0) ELSE x
  BY <1>3 DEF LoadedOf
<1>x. x = TakenOf(c, i, j, slot, p) /\ a = c.rob[i].ins.src[j]
  OBVIOUS
<1> HIDE DEF h, a, slot, p, x
<1>5. p \in (h .. i - 1) \cup {0} /\ p # i /\ p \in Id \cup {0} /\ (p = 0 \/ p \in h .. i - 1)
  <2>1. p # 0 => p \in h .. i - 1
    BY <1>2 DEF NearestStore
  <2>2. p # 0 => p # i /\ p \in h .. ns - 1
    BY <1>g, <1>w, <2>1
  <2>3. i # 0
    BY <1>i, Sizes DEF Id
  <2> QED
    BY <1>w, <2>1, <2>2, <2>3
<1>6. Taken(c, x, i, j, slot, p)
  BY <1>1, <1>5, <1>e, <1>g, <1>i, <1>x, TakenIs
<1>7. CASE Forwards(c.SQ, a, p)
  <2>1. p # 0
    <3>1. PICK s \in SqSlot : c.SQ[s].addr = a /\ c.SQ[s].id = p
      BY <1>7 DEF Forwards, StoreOf
    <3>2. c.SQ[s].id \in h .. ns - 1
      BY Zenon, <1>a, <1>g, <3>1 DEF StoreInv, StoresOK
    <3> QED
      BY <1>w, <3>1, <3>2
  <2>2. new = release_load_queue(x, {slot}, 0)
    BY <1>4, <1>7
  <2>3. p \in h .. i - 1 /\ p \in Id
    BY <1>5, <2>1
  <2>s. \E s \in SqSlot : c.SQ[s].addr = a /\ c.SQ[s].id = p /\ c.SQ[s].fetched
    <3> DEFINE S == StoreOf(c.SQ, a, p)
               s == FirstOf(S)
    <3>1. S # {} /\ c.SQ[s].fetched
      BY <1>7 DEF Forwards
    <3>2. S \in SUBSET Nat
      BY SlotsFinite DEF StoreOf
    <3>a. S = StoreOf(c.SQ, a, p)
      OBVIOUS
    <3>3. s \in S
      <4> HIDE DEF S
      <4>1. \E x0 \in S : \A k \in S : x0 <= k
        BY <3>1, <3>2, FirstIsLeast
      <4> QED
        BY <4>1, Zenon DEF FirstOf
    <3> HIDE DEF s, S
    <3> QED
      BY <3>1, <3>3, <3>a DEF StoreOf
  <2>n. NearestStore(c.rob, h, i, a, p)
    BY <1>2, <2>1
  <2>4. Good(new, h, t, ns, d, r)
    BY Zenon, <1>1, <1>6, <1>g, <1>x, <2>2, <2>3, <2>n, <2>s, DoneStep
  <2>5. OpDone(c, new, i, j, slot, p)
    <3>1. c.LQ \in [LqSlot -> Loads] /\ c.LQ_occupancy \in Int /\ c.inflight_mem \in Int
      BY <1>g DEF Typed
    <3> QED
      BY <1>1, <1>6, <1>i, <2>2, <2>3, <3>1, DoneIs
  <2>6. SamePlan(c, new)
    BY <2>5 DEF OpDone, AddFrame, AddedRow, SamePlan
  <2> QED
    BY <2>4, <2>6 DEF h
<1>8. CASE ~Forwards(c.SQ, a, p)
  <2>1. WaitsOn(c.rob, c.SQ, h, i, a, p)
    <3>1. CASE p = 0
      BY <1>2, <3>1 DEF WaitsOn
    <3>2. CASE p # 0
      <4>1. StoresOK(c.rob, c.SQ, h, ns) /\ NearestStore(c.rob, h, i, a, p)
        BY <1>2, <1>g, <3>2 DEF StoreInv
      <4> QED
        BY <1>8, <1>a, <1>e, <1>g, <1>w, <3>2, <4>1, WaitsIs
    <3> QED
      BY <3>1, <3>2
  <2>2. new = x
    BY <1>4, <1>8
  <2>3. Good(new, h, t, ns, d, r)
    BY Zenon, <1>1, <1>2, <1>5, <1>6, <1>g, <1>x, <2>1, <2>2, TakeStep DEF FromStore
  <2>4. SamePlan(c, new)
    <3>1. ASSUME NEW k \in Id PROVE AddedRow(c.rob[k], x.rob[k], k, i, j, slot, p)
      BY <1>6, Zenon DEF Taken
    <3> HIDE DEF x
    <3>2. ASSUME NEW k \in Id PROVE x.rob[k].ins = c.rob[k].ins /\ x.rob[k].reg_ready = c.rob[k].reg_ready
      BY <3>1, Zenon DEF AddedRow
    <3>3. SamePlan(c, x)
      BY <3>2, Zenon DEF SamePlan
    <3> QED
      BY <2>2, <3>3
  <2> QED
    BY <2>3, <2>4 DEF h
<1> QED
  BY <1>7, <1>8

LEMMA LoadOperandStep ==
  ASSUME NEW c, NEW t, NEW ns, NEW d, NEW r, Good(c, head, t, ns, d, r), NEW i \in head .. ns - 1,
         c.rob[i].reg_ready, NEW j \in DOMAIN c.rob[i].ins.src
  PROVE  Good(load_operand(c, i, j), head, t, ns, d, r) /\ SamePlan(c, load_operand(c, i, j))
<1>1. CASE j \notin c.rob[i].source_added /\ c.LQ_occupancy < LQ_SIZE
  <2>1. load_operand(c, i, j) = add_load_queue(c, i, j)
    BY <1>1 DEF load_operand
  <2> QED
    BY <1>1, <2>1, AddLoadStep
<1>2. CASE ~(j \notin c.rob[i].source_added /\ c.LQ_occupancy < LQ_SIZE)
  <2>1. load_operand(c, i, j) = c
    BY <1>2 DEF load_operand
  <2> QED
    BY <2>1 DEF SamePlan
<1> QED
  BY <1>1, <1>2

(* The entry of a store whose destination j takes slot s. *)
PutRow(e, f, j, s) ==
  /\ f \in Row /\ f.ins = e.ins /\ f.executed = e.executed /\ f.reg_ready = e.reg_ready
  /\ f.num_reg_dependent = e.num_reg_dependent /\ f.source_added = e.source_added
  /\ f.lq_index = e.lq_index /\ f.reg_depend_on_me = e.reg_depend_on_me /\ f.mem_depend_on_me = e.mem_depend_on_me
  /\ f.num_mem_ops = e.num_mem_ops
  /\ DOMAIN f.sq_index = DOMAIN e.sq_index
  /\ \A m \in DOMAIN e.sq_index : f.sq_index[m] = IF m = j THEN s ELSE e.sq_index[m]
  /\ f.destination_added = e.destination_added \cup {j}

LEMMA DestRow ==
  ASSUME NEW e \in Row, NEW j \in DOMAIN e.sq_index, NEW s \in SqSlot
  PROVE  PutRow(e, destination_row(e, j, s), j, s)
<1> DEFINE q == [e.sq_index EXCEPT ![j] = s]
           S == e.destination_added \cup {j}
           f == destination_row(e, j, s)
<1>1. e.sq_index \in Seq(0 .. SQ_SIZE) /\ e.destination_added \in SUBSET Nat
  BY RowIs
<1>2. s \in 0 .. SQ_SIZE /\ j \in Nat
  BY <1>1, LenIs, Sizes DEF SqSlot
<1>3. /\ q \in Seq(0 .. SQ_SIZE) /\ DOMAIN q = DOMAIN e.sq_index
      /\ \A m \in DOMAIN e.sq_index : q[m] = IF m = j THEN s ELSE e.sq_index[m]
  <2> DEFINE u == e.sq_index
  <2>1. u \in Seq(0 .. SQ_SIZE) /\ j \in DOMAIN u
    BY <1>1
  <2> HIDE DEF u
  <2>2. [u EXCEPT ![j] = s] \in Seq(0 .. SQ_SIZE)
    BY <1>2, <2>1
  <2> QED
    BY <2>1, <2>2 DEF u
<1>4. S \in SUBSET Nat
  BY <1>1, <1>2
<1>5. f = [e EXCEPT !.sq_index = q, !.destination_added = S]
  BY DEF destination_row, Row
<1>s. S = e.destination_added \cup {j}
  OBVIOUS
<1> HIDE DEF q, S, f
<1>6. /\ f \in Row /\ f.ins = e.ins /\ f.executed = e.executed /\ f.reg_ready = e.reg_ready
      /\ f.num_reg_dependent = e.num_reg_dependent /\ f.source_added = e.source_added
      /\ f.lq_index = e.lq_index /\ f.reg_depend_on_me = e.reg_depend_on_me /\ f.num_mem_ops = e.num_mem_ops
      /\ f.sq_index = q /\ f.destination_added = S /\ f.mem_depend_on_me = e.mem_depend_on_me
  BY <1>3, <1>4, <1>5 DEF Row
<1> QED
  BY <1>3, <1>6, <1>s DEF PutRow, f

Put(c, x, i, j, s) ==
  /\ IsCore(x) /\ Typed(x) /\ x.LQ = c.LQ /\ x.LQ_occupancy = c.LQ_occupancy
  /\ x.inflight_reg = c.inflight_reg /\ x.inflight_mem = c.inflight_mem
  /\ PutRow(c.rob[i], x.rob[i], j, s) /\ \A k \in Id : k # i => x.rob[k] = c.rob[k]
  /\ \A z \in SqSlot : x.SQ[z] = IF z = s THEN [id |-> i, addr |-> c.rob[i].ins.dst[j], fetched |-> FALSE] ELSE c.SQ[z]
  /\ x.SQ_head = c.SQ_head /\ x.SQ_tail = (s + 1) % SQ_SIZE /\ x.SQ_occupancy = c.SQ_occupancy + 1
  /\ x.STA = Tail(c.STA) /\ x.RT["RTS0"] = Append(c.RT["RTS0"], s)
  /\ \A y \in Lists : y # "RTS0" => x.RT[y] = c.RT[y]

LEMMA PutIs ==
  ASSUME NEW c, IsCore(c), Typed(c), NEW i \in Id, NEW j \in DOMAIN c.rob[i].ins.dst,
         DOMAIN c.rob[i].sq_index = DOMAIN c.rob[i].ins.dst, c.STA # << >>,
         NEW s, s = c.SQ_tail, NEW x, x = add_store_queue(c, i, j)
  PROVE  Put(c, x, i, j, s)
<1> DEFINE e == c.rob[i]
           v == [id |-> i, addr |-> e.ins.dst[j], fetched |-> FALSE]
           f == destination_row(e, j, s)
           rob == [c.rob EXCEPT ![i] = f]
           SQ == [c.SQ EXCEPT ![s] = v]
           q == Append(c.RT["RTS0"], s)
           RT == [c.RT EXCEPT !["RTS0"] = q]
           u == Tail(c.STA)
           w == (s + 1) % SQ_SIZE
<1>t. /\ c.rob \in [Id -> Row] /\ c.RT \in [Lists -> Seq(Nat)] /\ c.SQ \in [SqSlot -> Stores] /\ e \in Row
      /\ c.SQ_occupancy \in Int /\ "RTS0" \in Lists /\ s \in SqSlot /\ c.STA \in Seq(Id)
  BY DEF Typed, Lists
<1>1. /\ IsCore(x) /\ x.LQ = c.LQ /\ x.LQ_occupancy = c.LQ_occupancy
      /\ x.inflight_reg = c.inflight_reg /\ x.inflight_mem = c.inflight_mem
      /\ x.rob = rob /\ x.SQ = SQ /\ x.RT = RT /\ x.STA = u /\ x.SQ_tail = w
      /\ x.SQ_head = c.SQ_head /\ x.SQ_occupancy = c.SQ_occupancy + 1
  <2>1. x = [c EXCEPT !.rob[i] = destination_row(@, j, c.SQ_tail), !.SQ[c.SQ_tail] = v, !.SQ_tail = (@ + 1) % SQ_SIZE,
                      !.SQ_occupancy = @ + 1, !.STA = Tail(@), !.RT["RTS0"] = Append(@, c.SQ_tail)]
    BY Zenon DEF add_store_queue
  <2> HIDE DEF v
  <2> QED
    BY <2>1 DEF IsCore, Names
<1>2. PutRow(e, f, j, s)
  <2>1. j \in DOMAIN e.sq_index
    OBVIOUS
  <2> HIDE DEF e
  <2> QED
    BY <1>t, <2>1, DestRow
<1>3. f \in Row
  BY <1>2 DEF PutRow
<1>4. v \in Stores
  <2>1. e.ins.dst \in Seq(Addr)
    BY <1>t, RowIs
  <2>2. e.ins.dst[j] \in Addr
    BY <2>1, SeqAt
  <2> QED
    BY <2>2 DEF Stores
<1> HIDE DEF f
<1>5. rob \in [Id -> Row] /\ rob[i] = f /\ \A k \in Id : k # i => rob[k] = c.rob[k]
  BY <1>3, <1>t
<1>6. SQ \in [SqSlot -> Stores] /\ \A z \in SqSlot : SQ[z] = IF z = s THEN v ELSE c.SQ[z]
  <2> HIDE DEF v
  <2> QED
    BY <1>4, <1>t
<1>7. q \in Seq(Nat)
  <2>1. c.RT["RTS0"] \in Seq(Nat) /\ s \in Nat
    BY <1>t, SlotsFinite
  <2> QED
    BY <2>1
<1>8. RT \in [Lists -> Seq(Nat)] /\ RT["RTS0"] = q /\ \A y \in Lists : y # "RTS0" => RT[y] = c.RT[y]
  <2> HIDE DEF q
  <2> QED
    BY <1>7, <1>t
<1>9. u \in Seq(Id)
  BY <1>t
<1>10. w \in SqSlot
  <2>1. SQ_SIZE \in Nat \ {0} /\ s + 1 \in Int
    BY <1>t, Sizes DEF SqSlot
  <2> DEFINE y == s + 1
  <2> HIDE DEF y
  <2>2. y % SQ_SIZE \in 0 .. SQ_SIZE - 1
    BY <2>1 DEF y
  <2> QED
    BY <2>2 DEF y, SqSlot
<1>11. c.SQ_occupancy + 1 \in Int
  BY <1>t
<1> HIDE DEF rob, SQ, RT, u, w
<1>12. Typed(x)
  BY <1>1, <1>5, <1>6, <1>8, <1>9, <1>10, <1>11, Zenon DEF Typed
<1> QED
  BY <1>1, <1>2, <1>5, <1>6, <1>8, <1>12 DEF Put, u, w

(* STA without its head: the stores of k that wait in it. *)
CountOf(s, k) == Cardinality({b \in DOMAIN s : s[b] = k})

LEMMA TailCount ==
  ASSUME NEW S, NEW s \in Seq(S), s # << >>, NEW k
  PROVE  CountOf(Tail(s), k) = IF Head(s) = k THEN CountOf(s, k) - 1 ELSE CountOf(s, k)
<1> DEFINE A == {b \in DOMAIN Tail(s) : Tail(s)[b] = k}
           B == {b \in DOMAIN s : s[b] = k}
           u == Tail(s)
           n == Len(s)
<1>1. /\ n \in Nat \ {0} /\ DOMAIN s = 1 .. n /\ DOMAIN u = 1 .. n - 1 /\ Head(s) = s[1]
      /\ \A b \in 1 .. n - 1 : u[b] = s[b + 1]
  OBVIOUS
<1>u. u = Tail(s)
  OBVIOUS
<1>c. A = {b \in DOMAIN u : u[b] = k} /\ CountOf(u, k) = Cardinality(A) /\ CountOf(s, k) = Cardinality(B)
  BY DEF CountOf
<1> HIDE DEF u, n, A
<1> DEFINE f == [b \in A |-> b + 1]
           C == B \ {1}
<1>2. A \subseteq 1 .. n - 1 /\ \A b \in 1 .. n - 1 : b \in A <=> b + 1 \in B
  BY <1>1, <1>c, <1>u
<1>3. B \subseteq 1 .. n /\ (1 \in B <=> Head(s) = k)
  BY <1>1
<1>4. Names1(f, A, C)
  <2>1. \A b \in A : f[b] \in C
    BY <1>1, <1>2
  <2>2. \A a, b \in A : f[a] = f[b] => a = b
    BY <1>1, <1>2
  <2>3. \A b \in C : \E a \in A : f[a] = b
    <3> SUFFICES ASSUME NEW b \in C PROVE \E a \in A : f[a] = b
      OBVIOUS
    <3>1. b \in 1 .. n /\ b # 1 /\ b \in B
      BY <1>3
    <3>2. b - 1 \in 1 .. n - 1 /\ (b - 1) + 1 = b
      BY <1>1, <3>1
    <3>3. b - 1 \in A
      BY <1>2, <3>1, <3>2
    <3> QED
      BY <3>2, <3>3
  <2> QED
    BY <2>1, <2>2, <2>3 DEF Names1
<1>5. IsFiniteSet(A) /\ IsFiniteSet(B)
  <2>1. 1 \in Int /\ n \in Int /\ n - 1 \in Int
    BY <1>1
  <2>2. A \in SUBSET (1 .. n - 1) /\ B \in SUBSET (1 .. n)
    BY <1>2, <1>3
  <2> QED
    BY <2>1, <2>2, FS_Interval, FS_Subset
<1>6. Cardinality(C) = Cardinality(A)
  <2> HIDE DEF f, C
  <2> QED
    BY <1>4, <1>5, SameCount
<1>7. ASSUME Head(s) = k PROVE Cardinality(A) = Cardinality(B) - 1
  BY <1>3, <1>5, <1>6, <1>7, OneLess
<1>8. ASSUME Head(s) # k PROVE Cardinality(A) = Cardinality(B)
  <2>1. C = B
    BY <1>3, <1>8
  <2> QED
    BY <1>6, <2>1
<1> HIDE DEF B
<1> QED
  BY <1>7, <1>8, <1>c, <1>u

LEMMA AtNext ==
  ASSUME NEW c, c.SQ_head \in SqSlot, NEW n \in 0 .. SQ_SIZE - 1
  PROVE  (at(c, n) + 1) % SQ_SIZE = at(c, n + 1)
<1> DEFINE H == c.SQ_head
           x == at(c, n) + 1
           m == n + 1
<1>1. SQ_SIZE \in Nat \ {0} /\ H \in 0 .. SQ_SIZE - 1 /\ n \in 0 .. SQ_SIZE /\ m \in 0 .. SQ_SIZE
  BY Sizes DEF SqSlot
<1>2. at(c, n) = IF H + n < SQ_SIZE THEN H + n ELSE H + n - SQ_SIZE
  BY <1>1, AtIs
<1>3. at(c, m) = IF H + m < SQ_SIZE THEN H + m ELSE H + m - SQ_SIZE
  <2> HIDE DEF m
  <2> QED
    BY <1>1, AtIs
<1>4. x \in 0 .. 2 * SQ_SIZE - 1
  BY <1>1, <1>2
<1>5. x % SQ_SIZE = IF x < SQ_SIZE THEN x ELSE x - SQ_SIZE
  <2> HIDE DEF x
  <2> QED
    BY <1>1, <1>4, WrapOnce
<1> DEFINE y == at(c, n)
           z == at(c, m)
           v == (at(c, n) + 1) % SQ_SIZE
<1>6. /\ y = (IF H + n < SQ_SIZE THEN H + n ELSE H + n - SQ_SIZE)
      /\ z = (IF H + m < SQ_SIZE THEN H + m ELSE H + m - SQ_SIZE)
      /\ v = (IF x < SQ_SIZE THEN x ELSE x - SQ_SIZE) /\ x = y + 1 /\ m = n + 1
  BY <1>2, <1>3, <1>5
<1> HIDE DEF x, y, z, v, H, m
<1>7. v = z
  BY <1>1, <1>6
<1> QED
  BY <1>7 DEF v, z, m

(* The store queue and STA when the next store of the program enters the queue. *)
LEMMA PutStores ==
  ASSUME NEW c, NEW new, NEW h \in Nat \ {0}, NEW t \in Nat, NEW ns \in Nat, ns <= t, h .. t - 1 \subseteq Id,
         Typed(c), EntriesOK(c.rob, h, t, ns), StoreInv(c, h, t, ns), NEW i \in h .. ns - 1, NEW j \in DOMAIN c.rob[i].ins.dst,
         j \notin c.rob[i].destination_added, DOMAIN c.rob[i].sq_index = DOMAIN c.rob[i].ins.dst,
         c.STA # << >>, Head(c.STA) = i, c.SQ_occupancy < SQ_SIZE, NEW s, s = c.SQ_tail, Put(c, new, i, j, s)
  PROVE  StoreInv(new, h, t, ns) /\ c.SQ[s] = EmptyStore /\ s \in SqSlot
<1> DEFINE n == c.SQ_occupancy
           a == c.rob[i].ins.dst[j]
           u == Tail(c.STA)
<1>t. /\ c.SQ_head \in SqSlot /\ c.STA \in Seq(Id) /\ i \in Id /\ c.rob[i] \in Row /\ SQ_SIZE \in Nat \ {0}
      /\ h .. ns - 1 \subseteq h .. t - 1
  <2>1. h .. ns - 1 \subseteq h .. t - 1
    OBVIOUS
  <2>2. i \in Id
    BY <2>1
  <2> QED
    BY <2>1, <2>2, Sizes DEF Typed
<1>r. RingOK(c) /\ StoresOK(c.rob, c.SQ, h, ns) /\ OrderOK(c, h, t)
  BY DEF StoreInv
<1>n. /\ n \in 0 .. SQ_SIZE - 1 /\ s = at(c, n) /\ n + 1 \in 0 .. SQ_SIZE
      /\ \A k \in 0 .. SQ_SIZE - 1 : c.SQ[at(c, k)].addr # 0 <=> k < n
  <2>1. n \in 0 .. SQ_SIZE /\ n < SQ_SIZE
    BY <1>r DEF RingOK
  <2> QED
    BY <1>r, <1>t, <2>1 DEF RingOK
<1>s. s \in SqSlot /\ \A k \in 0 .. SQ_SIZE - 1 : at(c, k) = s <=> k = n
  BY <1>n, <1>t, AtSlot, AtOne
<1>e. c.SQ[s] = EmptyStore
  <2>1. c.SQ[s].addr = 0
    BY <1>n
  <2> QED
    BY Zenon, <1>r, <1>s, <2>1 DEF StoresOK
<1>a. a # 0
  <2>1. c.rob[i].ins.dst \in Seq(Addr)
    BY <1>t, RowIs
  <2>2. a \in Addr
    BY <2>1, SeqAt
  <2> QED
    BY <2>2, AddrAssumption
<1>p. /\ PutRow(c.rob[i], new.rob[i], j, s) /\ \A k \in Id : k # i => new.rob[k] = c.rob[k]
      /\ \A z \in SqSlot : z # s => new.SQ[z] = c.SQ[z]
      /\ new.SQ[s].id = i /\ new.SQ[s].addr = a
      /\ new.SQ_head = c.SQ_head /\ new.SQ_tail = (s + 1) % SQ_SIZE /\ new.SQ_occupancy = n + 1 /\ new.STA = u
  BY <1>s DEF Put
<1>at. \A k : at(new, k) = at(c, k)
  BY <1>p DEF at
<1>q. /\ new.rob[i].ins = c.rob[i].ins /\ new.rob[i].destination_added = c.rob[i].destination_added \cup {j}
      /\ new.rob[i].sq_index[j] = s
      /\ \A m \in DOMAIN c.rob[i].sq_index : m # j => new.rob[i].sq_index[m] = c.rob[i].sq_index[m]
  BY <1>p DEF PutRow
<1> HIDE DEF n, a, u
<1>1. RingOK(new)
  <2>1. new.SQ_tail = at(new, n + 1)
    <3>1. (at(c, n) + 1) % SQ_SIZE = at(c, n + 1)
      BY <1>n, <1>t, AtNext
    <3> QED
      BY <1>at, <1>n, <1>p, <3>1
  <2>2. ASSUME NEW k \in 0 .. SQ_SIZE - 1 PROVE new.SQ[at(c, k)].addr # 0 <=> k < n + 1
    <3>1. at(c, k) \in SqSlot
      BY <1>t, AtSlot
    <3>2. CASE k = n
      <4>1. at(c, k) = s
        BY <1>s, <3>2
      <4> QED
        BY <1>a, <1>n, <1>p, <3>2, <4>1
    <3>3. CASE k # n
      <4>1. new.SQ[at(c, k)] = c.SQ[at(c, k)]
        BY <1>p, <1>s, <3>1, <3>3
      <4>2. k < n + 1 <=> k < n
        BY <1>n, <3>3
      <4> QED
        BY <1>n, <4>1, <4>2
    <3> QED
      BY <3>2, <3>3
  <2> QED
    BY <1>at, <1>n, <1>p, <2>1, <2>2 DEF RingOK
<1>x. ASSUME NEW k \in h .. ns - 1, NEW m \in c.rob[k].destination_added
      PROVE  /\ c.rob[k].sq_index[m] # s /\ c.rob[k].sq_index[m] \in SqSlot
             /\ m \in new.rob[k].destination_added /\ (k = i => m # j)
             /\ m \in DOMAIN c.rob[k].sq_index => new.rob[k].sq_index[m] = c.rob[k].sq_index[m]
             /\ c.SQ[c.rob[k].sq_index[m]].id = k /\ c.SQ[c.rob[k].sq_index[m]].addr = c.rob[k].ins.dst[m]
  <2>1. /\ c.rob[k].sq_index[m] \in SqSlot /\ c.SQ[c.rob[k].sq_index[m]].id = k
        /\ c.SQ[c.rob[k].sq_index[m]].addr = c.rob[k].ins.dst[m]
    BY Zenon, <1>r DEF StoresOK
  <2>2. k # 0 /\ k \in Id
    BY <1>t
  <2>3. c.rob[k].sq_index[m] # s
    BY <1>e, <2>1, <2>2 DEF EmptyStore
  <2> QED
    BY Zenon, <1>p, <1>q, <2>1, <2>2, <2>3
<1>d. \A k \in h .. ns - 1 : c.rob[k].destination_added \subseteq DOMAIN c.rob[k].sq_index
  BY <1>t DEF EntriesOK
<1>2. StoresOK(new.rob, new.SQ, h, ns)
  <2>d. \A k \in h .. ns - 1 : \A m \in c.rob[k].destination_added : new.rob[k].sq_index[m] = c.rob[k].sq_index[m]
    BY <1>d, <1>x
  <2>1. ASSUME NEW z \in SqSlot
        PROVE  IF new.SQ[z].addr = 0 THEN new.SQ[z] = EmptyStore
               ELSE /\ new.SQ[z].id \in h .. ns - 1
                    /\ \E m \in new.rob[new.SQ[z].id].destination_added : new.rob[new.SQ[z].id].sq_index[m] = z
    <3>1. CASE z = s
      BY Zenon, <1>a, <1>p, <1>q, <3>1
    <3>2. CASE z # s
      <4>1. new.SQ[z] = c.SQ[z]
        BY <1>p, <3>2
      <4>2. CASE c.SQ[z].addr = 0
        BY Zenon, <1>r, <4>1, <4>2 DEF StoresOK
      <4>3. CASE c.SQ[z].addr # 0
        <5> DEFINE k == c.SQ[z].id
        <5>1. k \in h .. ns - 1 /\ \E m \in c.rob[k].destination_added : c.rob[k].sq_index[m] = z
          BY Zenon, <1>r, <4>3 DEF StoresOK
        <5> HIDE DEF k
        <5>2. PICK m \in c.rob[k].destination_added : c.rob[k].sq_index[m] = z
          BY <5>1
        <5>3. m \in new.rob[k].destination_added /\ new.rob[k].sq_index[m] = z
          BY <1>x, <2>d, <5>1, <5>2
        <5> QED
          BY Zenon, <4>1, <4>3, <5>1, <5>3 DEF k
      <4> QED
        BY Zenon, <4>2, <4>3
    <3> QED
      BY Zenon, <3>1, <3>2
  <2>2. ASSUME NEW k \in h .. ns - 1, NEW m \in new.rob[k].destination_added
        PROVE  /\ new.rob[k].sq_index[m] \in SqSlot
               /\ new.SQ[new.rob[k].sq_index[m]].id = k /\ new.SQ[new.rob[k].sq_index[m]].addr = new.rob[k].ins.dst[m]
               /\ \A l \in new.rob[k].destination_added : new.rob[k].sq_index[m] = new.rob[k].sq_index[l] => m = l
    <3>0. k \in Id /\ new.rob[k].ins = c.rob[k].ins
      BY <1>p, <1>q, <1>t
    <3>1. /\ (k = i /\ m = j) \/ m \in c.rob[k].destination_added
          /\ \A l \in new.rob[k].destination_added : (k = i /\ l = j) \/ l \in c.rob[k].destination_added
      BY <1>p, <1>q, <3>0
    <3>2. \A l \in c.rob[k].destination_added : new.rob[k].sq_index[l] # s
      BY <1>x, <2>d
    <3>3. CASE k = i /\ m = j
      BY Zenon, <1>p, <1>q, <1>s, <3>0, <3>1, <3>2, <3>3 DEF a
    <3>4. CASE m \in c.rob[k].destination_added
      <4> DEFINE z == c.rob[k].sq_index[m]
      <4>1. new.rob[k].sq_index[m] = z /\ z \in SqSlot /\ z # s /\ c.SQ[z].id = k /\ c.SQ[z].addr = c.rob[k].ins.dst[m]
        <5>1. /\ c.rob[k].sq_index[m] # s /\ c.rob[k].sq_index[m] \in SqSlot
              /\ c.SQ[c.rob[k].sq_index[m]].id = k /\ c.SQ[c.rob[k].sq_index[m]].addr = c.rob[k].ins.dst[m]
          BY <1>x, <3>4
        <5> QED
          BY Zenon, <2>d, <3>4, <5>1
      <4> HIDE DEF z
      <4>2. new.SQ[z] = c.SQ[z]
        BY <1>p, <4>1
      <4>3. ASSUME NEW l \in new.rob[k].destination_added, new.rob[k].sq_index[m] = new.rob[k].sq_index[l] PROVE m = l
        <5>1. ~(k = i /\ l = j)
          BY Zenon, <1>q, <4>1, <4>3
        <5>2. l \in c.rob[k].destination_added /\ c.rob[k].sq_index[l] = c.rob[k].sq_index[m]
          BY <2>d, <3>1, <3>4, <4>3, <5>1
        <5> QED
          BY Zenon, <1>r, <3>4, <5>2 DEF StoresOK
      <4> QED
        BY <3>0, <4>1, <4>2, <4>3
    <3> QED
      BY Zenon, <3>1, <3>3, <3>4
  <2> QED
    BY Zenon, <2>1, <2>2 DEF StoresOK
<1>o. /\ \A x, y \in 0 .. n - 1 : x <= y => c.SQ[at(c, x)].id <= c.SQ[at(c, y)].id
      /\ \A x, y \in DOMAIN c.STA : x <= y => c.STA[x] <= c.STA[y]
      /\ \A x \in 0 .. n - 1, y \in DOMAIN c.STA : c.SQ[at(c, x)].id <= c.STA[y]
      /\ \A y \in DOMAIN c.STA : c.STA[y] \in h .. t - 1
      /\ \A k \in h .. t - 1 : Cardinality({y \in DOMAIN c.STA : c.STA[y] = k}) = Cardinality(LeftTo(c.rob[k]))
  BY <1>r DEF OrderOK, n, LeftTo
<1> DEFINE N == Len(c.STA)
<1>u. /\ N \in Nat \ {0} /\ DOMAIN c.STA = 1 .. N /\ DOMAIN u = 1 .. N - 1 /\ c.STA[1] = i
      /\ \A b \in 1 .. N - 1 : u[b] = c.STA[b + 1]
  BY <1>t DEF u
<1> HIDE DEF N
<1>3. ASSUME NEW k \in 0 .. n PROVE new.SQ[at(c, k)].id = IF k = n THEN i ELSE c.SQ[at(c, k)].id
  <2>1. k \in 0 .. SQ_SIZE - 1 /\ at(c, k) \in SqSlot
    BY <1>n, <1>t, AtSlot
  <2> QED
    BY <1>p, <1>s, <2>1
<1>4. ASSUME NEW x \in 0 .. n, NEW y \in 0 .. n, x <= y
      PROVE  new.SQ[at(c, x)].id <= new.SQ[at(c, y)].id
  <2>1. CASE x = n
    BY <1>3, <1>n, <1>t, <1>4, <2>1 DEF Id
  <2>2. CASE x # n /\ y = n
    <3>1. x \in 0 .. n - 1 /\ 1 \in DOMAIN c.STA
      BY <1>n, <1>u, <2>2
    <3>2. c.SQ[at(c, x)].id <= c.STA[1]
      BY <1>o, <3>1
    <3> QED
      BY <1>3, <1>u, <2>2, <3>2
  <2>3. CASE x # n /\ y # n
    <3>1. x \in 0 .. n - 1 /\ y \in 0 .. n - 1
      BY <1>n, <2>3
    <3>2. c.SQ[at(c, x)].id <= c.SQ[at(c, y)].id
      BY <1>o, <1>4, <3>1
    <3> QED
      BY <1>3, <2>3, <3>2
  <2> QED
    BY <2>1, <2>2, <2>3
<1>5. ASSUME NEW x \in 0 .. n, NEW y \in 1 .. N - 1
      PROVE  new.SQ[at(c, x)].id <= u[y]
  <2>1. u[y] = c.STA[y + 1] /\ y + 1 \in DOMAIN c.STA /\ 1 \in DOMAIN c.STA /\ 1 <= y + 1
    BY <1>u
  <2>2. CASE x = n
    BY <1>3, <1>o, <1>u, <2>1, <2>2
  <2>3. CASE x # n
    <3>1. x \in 0 .. n - 1
      BY <1>n, <2>3
    <3> QED
      BY <1>3, <1>o, <2>1, <2>3, <3>1
  <2> QED
    BY <2>2, <2>3
<1>6. ASSUME NEW x \in 1 .. N - 1, NEW y \in 1 .. N - 1, x <= y
      PROVE  u[x] <= u[y]
  <2>1. u[x] = c.STA[x + 1] /\ u[y] = c.STA[y + 1] /\ x + 1 \in DOMAIN c.STA /\ y + 1 \in DOMAIN c.STA /\ x + 1 <= y + 1
    BY <1>6, <1>u
  <2> QED
    BY <1>o, <2>1
<1>7. ASSUME NEW y \in 1 .. N - 1 PROVE u[y] \in h .. t - 1
  <2>1. u[y] = c.STA[y + 1] /\ y + 1 \in DOMAIN c.STA
    BY <1>u
  <2> QED
    BY <1>o, <2>1
<1>8. ASSUME NEW k \in h .. t - 1
      PROVE  Cardinality({y \in DOMAIN u : u[y] = k}) = Cardinality(LeftTo(new.rob[k]))
  <2> DEFINE A == {y \in DOMAIN u : u[y] = k}
             B == {y \in DOMAIN c.STA : c.STA[y] = k}
  <2>1. /\ Head(c.STA) = k => Cardinality(A) = Cardinality(B) - 1
        /\ Head(c.STA) # k => Cardinality(A) = Cardinality(B)
    <3>1. CountOf(u, k) = Cardinality(A) /\ CountOf(c.STA, k) = Cardinality(B)
      BY DEF CountOf
    <3>2. CountOf(Tail(c.STA), k) = IF Head(c.STA) = k THEN CountOf(c.STA, k) - 1 ELSE CountOf(c.STA, k)
      BY <1>t, TailCount
    <3> HIDE DEF A, B
    <3> QED
      BY <3>1, <3>2 DEF u
  <2>2. Cardinality(B) = Cardinality(LeftTo(c.rob[k]))
    BY <1>o
  <2>3. k = i => LeftTo(new.rob[k]) = LeftTo(c.rob[k]) \ {j} /\ j \in LeftTo(c.rob[k])
    BY <1>q DEF LeftTo
  <2>4. k # i => new.rob[k] = c.rob[k]
    BY <1>p
  <2> HIDE DEF A, B
  <2> DEFINE L == LeftTo(c.rob[k])
  <2>5. k = i => Cardinality(LeftTo(new.rob[k])) = Cardinality(L) - 1
    <3>1. ASSUME k = i PROVE Cardinality(LeftTo(new.rob[k])) = Cardinality(L) - 1
      <4>1. IsFiniteSet(L)
        BY <1>t, <3>1, TermsFinite
      <4> HIDE DEF L
      <4>2. LeftTo(new.rob[k]) = L \ {j} /\ j \in L
        BY <2>3, <3>1 DEF L
      <4> QED
        BY <4>1, <4>2, OneLess
    <3> QED
      BY <3>1
  <2>6. Cardinality(A) = Cardinality(LeftTo(new.rob[k]))
    <3>1. CASE k = i
      BY <2>1, <2>2, <2>5, <3>1
    <3>2. CASE k # i
      BY <2>1, <2>2, <2>4, <3>2
    <3> QED
      BY <3>1, <3>2
  <2> QED
    BY <2>6 DEF A
<1>9. OrderOK(new, h, t)
  <2>1. 0 .. new.SQ_occupancy - 1 = 0 .. n /\ new.STA = u /\ DOMAIN u = 1 .. N - 1
    BY <1>n, <1>p, <1>u
  <2>2. /\ \A x, y \in 0 .. n : x <= y => new.SQ[at(new, x)].id <= new.SQ[at(new, y)].id
        /\ \A x, y \in DOMAIN u : x <= y => u[x] <= u[y]
        /\ \A x \in 0 .. n, y \in DOMAIN u : new.SQ[at(new, x)].id <= u[y]
        /\ \A y \in DOMAIN u : u[y] \in h .. t - 1
    BY <1>4, <1>5, <1>6, <1>7, <1>at, <1>u
  <2>3. \A k \in h .. t - 1 : Cardinality({y \in DOMAIN u : u[y] = k})
                                 = Cardinality(DOMAIN new.rob[k].ins.dst \ new.rob[k].destination_added)
    BY <1>8 DEF LeftTo
  <2> QED
    BY <2>1, <2>2, <2>3 DEF OrderOK
<1> QED
  BY <1>1, <1>2, <1>9, <1>e, <1>s DEF StoreInv

LEMMA PutUnwritten ==
  ASSUME NEW c, NEW new, NEW h \in Nat \ {0}, NEW t \in Nat, NEW ns \in Nat, ns <= t, h .. t - 1 \subseteq Id,
         StoresOK(c.rob, c.SQ, h, ns), EntriesOK(c.rob, h, t, ns), NEW i \in h .. ns - 1, NEW j, NEW s \in SqSlot,
         c.SQ[s] = EmptyStore, j \in DOMAIN c.rob[i].ins.dst,
         Put(c, new, i, j, s), NEW p \in h .. ns - 1, NEW m, Unwritten(c.rob[p], c.SQ, m)
  PROVE  Unwritten(new.rob[p], new.SQ, m)
<1>0. p \in Id /\ i \in Id /\ p # 0
  BY Sizes DEF Id
<1>p. /\ PutRow(c.rob[i], new.rob[i], j, s) /\ \A k \in Id : k # i => new.rob[k] = c.rob[k]
      /\ \A z \in SqSlot : z # s => new.SQ[z] = c.SQ[z]
      /\ ~new.SQ[s].fetched
  BY DEF Put
<1>e. /\ c.rob[p].destination_added \subseteq DOMAIN c.rob[p].sq_index
      /\ j \in DOMAIN c.rob[i].sq_index
  BY <1>0 DEF EntriesOK
<1>q. /\ new.rob[i].destination_added = c.rob[i].destination_added \cup {j}
      /\ new.rob[i].sq_index[j] = s
      /\ \A x \in DOMAIN c.rob[i].sq_index : x # j => new.rob[i].sq_index[x] = c.rob[i].sq_index[x]
  BY <1>e, <1>p DEF PutRow
<1>1. CASE p = i /\ m = j
  BY <1>1, <1>p, <1>q DEF Unwritten
<1>2. CASE ~(p = i /\ m = j)
  <2>1. m \in new.rob[p].destination_added <=> m \in c.rob[p].destination_added
    BY <1>0, <1>2, <1>p, <1>q
  <2>2. CASE m \notin c.rob[p].destination_added
    BY Zenon, <2>1, <2>2 DEF Unwritten
  <2>3. CASE m \in c.rob[p].destination_added
    <3> DEFINE z == c.rob[p].sq_index[m]
    <3>1. z \in SqSlot /\ c.SQ[z].id = p
      BY Zenon, <2>3 DEF StoresOK
    <3>2. z # s
      BY <1>0, <3>1 DEF EmptyStore
    <3>3. new.rob[p].sq_index[m] = z
      BY <1>0, <1>2, <1>e, <1>p, <1>q, <2>3
    <3>4. ~c.SQ[z].fetched
      BY Zenon, <2>3 DEF Unwritten
    <3> HIDE DEF z
    <3>5. ~new.SQ[z].fetched
      BY <1>p, <3>1, <3>2, <3>4
    <3> QED
      BY <3>3, <3>5 DEF Unwritten
  <2> QED
    BY <2>2, <2>3
<1> QED
  BY <1>1, <1>2

LEMMA PutWaits ==
  ASSUME NEW c, NEW new, NEW h \in Nat \ {0}, NEW t \in Nat, NEW ns \in Nat, ns <= t, h .. t - 1 \subseteq Id,
         StoresOK(c.rob, c.SQ, h, ns), EntriesOK(c.rob, h, t, ns), NEW i \in h .. ns - 1, NEW j, NEW s \in SqSlot,
         c.SQ[s] = EmptyStore, j \in DOMAIN c.rob[i].ins.dst, j \notin c.rob[i].destination_added,
         Put(c, new, i, j, s)
  PROVE  StillWaits(c.rob, new.rob, c.LQ, new.LQ, c.SQ, new.SQ, h, ns)
<1> SUFFICES ASSUME NEW p \in h .. ns - 1, NEW m \in DOMAIN c.rob[p].ins.dst, Unwritten(new.rob[p], new.SQ, m)
             PROVE  Unwritten(c.rob[p], c.SQ, m)
  BY DEF StillWaits, Put
<1> SUFFICES ASSUME m \in c.rob[p].destination_added
             PROVE  ~c.SQ[c.rob[p].sq_index[m]].fetched
  BY Zenon DEF Unwritten
<1>0. p \in Id /\ i \in Id /\ p # 0
  BY Sizes DEF Id
<1>p. /\ PutRow(c.rob[i], new.rob[i], j, s) /\ \A k \in Id : k # i => new.rob[k] = c.rob[k]
      /\ \A z \in SqSlot : z # s => new.SQ[z] = c.SQ[z]
  BY DEF Put
<1>e. m \in DOMAIN c.rob[p].sq_index
  BY <1>0 DEF EntriesOK
<1>q. /\ m \in new.rob[p].destination_added
      /\ new.rob[p].sq_index[m] = c.rob[p].sq_index[m]
  <2>1. CASE p = i
    <3>1. m # j
      BY <2>1
    <3> QED
      BY <1>e, <1>p, <2>1, <3>1 DEF PutRow
  <2>2. CASE p # i
    BY <1>0, <1>p, <2>2
  <2> QED
    BY <2>1, <2>2
<1> DEFINE z == c.rob[p].sq_index[m]
<1>1. z \in SqSlot /\ c.SQ[z].id = p
  BY Zenon DEF StoresOK
<1>2. z # s
  BY <1>0, <1>1 DEF EmptyStore
<1>3. ~new.SQ[z].fetched
  BY Zenon, <1>q DEF Unwritten
<1> HIDE DEF z
<1>4. ~c.SQ[z].fetched
  BY <1>p, <1>1, <1>2, <1>3
<1> QED
  BY Zenon, <1>4 DEF z

LEMMA PutLoads ==
  ASSUME NEW c, NEW new, NEW h \in Nat \ {0}, NEW t \in Nat, NEW ns \in Nat, ns <= t, h .. t - 1 \subseteq Id,
         StoresOK(c.rob, c.SQ, h, ns), EntriesOK(c.rob, h, t, ns), NEW i \in h .. ns - 1, NEW j, NEW s \in SqSlot,
         c.SQ[s] = EmptyStore, j \in DOMAIN c.rob[i].ins.dst, j \notin c.rob[i].destination_added,
         Put(c, new, i, j, s), LoadInv(c.rob, c.LQ, c.SQ, h, ns)
  PROVE  LoadInv(new.rob, new.LQ, new.SQ, h, ns)
<1>0. h .. ns - 1 \subseteq Id
  OBVIOUS
<1>p. /\ PutRow(c.rob[i], new.rob[i], j, s) /\ \A k \in Id : k # i => new.rob[k] = c.rob[k]
      /\ new.LQ = c.LQ
  BY DEF Put
<1>q. \A k \in Id : /\ new.rob[k].ins = c.rob[k].ins /\ new.rob[k].source_added = c.rob[k].source_added
                    /\ new.rob[k].lq_index = c.rob[k].lq_index
                    /\ new.rob[k].mem_depend_on_me = c.rob[k].mem_depend_on_me
  BY <1>p DEF PutRow
<1>r. LoadsOK(c.rob, c.LQ, h, ns) /\ ProducersOK(c.rob, c.LQ, c.SQ, h)
  BY DEF LoadInv
<1>1. LoadsOK(new.rob, new.LQ, h, ns)
  <2>1. ASSUME NEW l \in LqSlot
        PROVE  IF new.LQ[l].addr = 0 THEN new.LQ[l] = EmptyLoad
               ELSE /\ new.LQ[l].id \in h .. ns - 1
                    /\ \E k \in new.rob[new.LQ[l].id].source_added :
                         /\ new.rob[new.LQ[l].id].lq_index[k] = l
                         /\ new.rob[new.LQ[l].id].ins.src[k] = new.LQ[l].addr
    <3>1. CASE c.LQ[l].addr = 0
      <4>1. c.LQ[l] = EmptyLoad
        BY <1>r, <3>1, LoadSlot
      <4> QED
        BY Zenon, <1>p, <3>1, <4>1
    <3>2. CASE c.LQ[l].addr # 0
      <4> DEFINE m == c.LQ[l].id
      <4>1. /\ m \in h .. ns - 1
            /\ \E k \in c.rob[m].source_added : c.rob[m].lq_index[k] = l /\ c.rob[m].ins.src[k] = c.LQ[l].addr
        BY <1>r, <3>2, LoadSlot
      <4>2. /\ new.rob[m].source_added = c.rob[m].source_added /\ new.rob[m].lq_index = c.rob[m].lq_index
            /\ new.rob[m].ins = c.rob[m].ins
        BY Zenon, <1>0, <1>q, <4>1
      <4>3. \E k \in new.rob[m].source_added : new.rob[m].lq_index[k] = l /\ new.rob[m].ins.src[k] = c.LQ[l].addr
        BY <4>1, <4>2
      <4> QED
        BY <1>p, <3>2, <4>1, <4>3
    <3> QED
      BY Zenon, <3>1, <3>2
  <2> QED
    BY Zenon, <2>1 DEF LoadsOK
<1>2. ProducersOK(new.rob, new.LQ, new.SQ, h)
  <2> SUFFICES ASSUME NEW l \in LqSlot, c.LQ[l].addr # 0
               PROVE  LET k == c.LQ[l].id
                          a == c.LQ[l].addr
                          p == c.LQ[l].producer_id
                      IN  IF p = 0 THEN \A q \in h .. k - 1 : a \notin Range(new.rob[q].ins.dst)
                          ELSE /\ NearestStore(new.rob, h, k, a, p)
                               /\ k \in new.rob[p].mem_depend_on_me
                               /\ \E m \in DOMAIN new.rob[p].ins.dst : new.rob[p].ins.dst[m] = a /\ Unwritten(new.rob[p], new.SQ, m)
    BY <1>p, Zenon DEF ProducersOK
  <2> DEFINE k == c.LQ[l].id
             a == c.LQ[l].addr
             p == c.LQ[l].producer_id
  <2>1. k \in h .. ns - 1
    BY Zenon, <1>r DEF LoadsOK
  <2>2. IF p = 0 THEN \A q \in h .. k - 1 : a \notin Range(c.rob[q].ins.dst)
        ELSE /\ NearestStore(c.rob, h, k, a, p)
             /\ k \in c.rob[p].mem_depend_on_me
             /\ \E m \in DOMAIN c.rob[p].ins.dst : c.rob[p].ins.dst[m] = a /\ Unwritten(c.rob[p], c.SQ, m)
    BY <1>r, Zenon DEF ProducersOK
  <2> HIDE DEF k, a, p
  <2>3. \A q \in h .. k - 1 : q \in Id
    BY <1>0, <2>1
  <2>4. CASE p = 0
    BY <1>q, <2>2, <2>3, <2>4 DEF k, a, p
  <2>5. CASE p # 0
    <3>1. NearestStore(c.rob, h, k, a, p) /\ k \in c.rob[p].mem_depend_on_me
      BY <2>2, <2>5
    <3>2. PICK m \in DOMAIN c.rob[p].ins.dst : c.rob[p].ins.dst[m] = a /\ Unwritten(c.rob[p], c.SQ, m)
      BY <2>2, <2>5
    <3>3. p \in h .. k - 1 /\ p \in h .. ns - 1 /\ p \in Id
      <4>1. p \in h .. k - 1
        BY <3>1 DEF NearestStore
      <4> QED
        BY <1>0, <2>1, <4>1
    <3>4. Unwritten(new.rob[p], new.SQ, m)
      BY <3>2, <3>3, PutUnwritten
    <3>5. NearestStore(new.rob, h, k, a, p)
      <4>1. \A q \in p + 1 .. k - 1 : q \in h .. k - 1
        BY <2>1, <3>3
      <4>2. \A q \in h .. k - 1 : new.rob[q].ins = c.rob[q].ins
        BY <1>q, <2>3
      <4> QED
        BY <3>1, <3>3, <4>1, <4>2 DEF NearestStore
    <3> QED
      BY <1>q, <2>5, <3>1, <3>2, <3>3, <3>4, <3>5 DEF k, a, p
  <2> QED
    BY Zenon, <2>4, <2>5
<1>3. DependFrame(c.rob, new.rob, h, ns, ns)
  <2>1. ns .. ns - 1 = {}
    OBVIOUS
  <2> QED
    BY <1>0, <1>q, <2>1 DEF DependFrame
<1>4. LinkedOK(new.rob, h, ns) /\ ForwardsOK(new.rob, new.LQ, new.SQ, h, ns)
  <2>1. /\ LinkedOK(c.rob, h, ns) /\ ForwardsOK(c.rob, c.LQ, c.SQ, h, ns)
        /\ h \in Nat /\ h <= h /\ ns <= ns
    BY DEF LoadInv
  <2>2. LinkedOK(new.rob, h, ns)
    BY <1>3, <2>1, LinkedKept
  <2>3. StillWaits(c.rob, new.rob, c.LQ, new.LQ, c.SQ, new.SQ, h, ns)
    BY PutWaits
  <2>4. ForwardsOK(new.rob, new.LQ, new.SQ, h, ns)
    BY <1>3, <2>1, <2>3, ForwardsKept
  <2> QED
    BY <2>2, <2>4
<1> QED
  BY <1>1, <1>2, <1>4 DEF LoadInv

LEMMA PutOps ==
  ASSUME NEW c, Typed(c), NEW new, NEW i \in Id, NEW j \in DOMAIN c.rob[i].ins.dst,
         j \notin c.rob[i].destination_added, NEW s \in SqSlot, c.SQ[s] = EmptyStore, Put(c, new, i, j, s), NEW k \in Id
  PROVE  OpsOf(new.rob[k], new.LQ, new.SQ, k) = OpsOf(c.rob[k], c.LQ, c.SQ, k)
<1>0. k # 0 /\ c.rob[k] \in Row
  <2>1. \A m \in Id : m # 0
    BY Sizes DEF Id
  <2> QED
    BY <2>1 DEF Typed
<1>p. /\ PutRow(c.rob[i], new.rob[i], j, s) /\ (k # i => new.rob[k] = c.rob[k])
      /\ \A z \in SqSlot : z # s => new.SQ[z] = c.SQ[z]
      /\ ~new.SQ[s].fetched /\ new.SQ[s].id = i /\ new.LQ = c.LQ
  BY DEF Put
<1> DEFINE A == LeftOf(c.rob[k])
           B == LeftTo(c.rob[k])
           X == LoadsOf(c.LQ, k)
           Y == StoresOf(c.SQ, k)
           B2 == LeftTo(new.rob[k])
           Y2 == StoresOf(new.SQ, k)
<1>1. LeftOf(new.rob[k]) = A /\ LoadsOf(new.LQ, k) = X
  BY <1>p DEF LeftOf, PutRow
<1>2. /\ k # i => B2 = B
      /\ k = i => B2 = B \ {j} /\ j \in B
  BY <1>p DEF LeftTo, PutRow
<1>3. s \notin Y
  BY <1>0 DEF StoresOf, EmptyStore
<1>4. /\ k # i => Y2 = Y
      /\ k = i => Y2 = Y \cup {s}
  <2>1. \A z \in SqSlot : z # s => (z \in Y2 <=> z \in Y)
    BY <1>p DEF StoresOf
  <2>2. Y \subseteq SqSlot /\ Y2 \subseteq SqSlot /\ (s \in Y2 <=> i = k)
    BY <1>p DEF StoresOf
  <2> HIDE DEF Y, Y2
  <2> QED
    BY <1>3, <2>1, <2>2
<1>5. /\ IsFiniteSet(B) /\ IsFiniteSet(Y) /\ Cardinality(A) \in Nat /\ Cardinality(B) \in Nat
      /\ Cardinality(X) \in Nat /\ Cardinality(Y) \in Nat
  BY <1>0, TermsFinite
<1>o. /\ OpsOf(c.rob[k], c.LQ, c.SQ, k) = Cardinality(A) + Cardinality(B) + Cardinality(X) + Cardinality(Y)
      /\ OpsOf(new.rob[k], new.LQ, new.SQ, k) = Cardinality(A) + Cardinality(B2) + Cardinality(X) + Cardinality(Y2)
  BY <1>1 DEF OpsOf
<1> HIDE DEF A, B, X, Y, B2, Y2
<1>6. CASE k # i
  BY <1>2, <1>4, <1>6, <1>o
<1>7. CASE k = i
  <2>1. Cardinality(B2) = Cardinality(B) - 1
    BY <1>2, <1>5, <1>7, OneLess
  <2>2. Cardinality(Y2) = Cardinality(Y) + 1
    BY <1>3, <1>4, <1>5, <1>7, OneMore
  <2>3. Cardinality(A) + (Cardinality(B) - 1) + Cardinality(X) + (Cardinality(Y) + 1)
          = Cardinality(A) + Cardinality(B) + Cardinality(X) + Cardinality(Y)
    BY <1>5, OneMoves
  <2> QED
    BY <1>o, <2>1, <2>2, <2>3
<1> QED
  BY <1>6, <1>7

LEMMA PutPlaces ==
  ASSUME NEW c, Typed(c), NEW new, NEW d, NEW r, PlacesOK(c, d, r), NEW i \in Id, NEW j \in DOMAIN c.rob[i].ins.dst,
         NEW s \in SqSlot, c.SQ[s] = EmptyStore, Put(c, new, i, j, s)
  PROVE  PlacesOK(new, d, r)
<1> DEFINE a == c.rob[i].ins.dst[j]
           S0 == Elements(c.RT["RTS0"])
           S1 == Elements(c.RT["RTS1"])
           S2 == Translating(d, "SQ")
           T0 == Elements(new.RT["RTS0"])
           U == {z \in SqSlot : c.SQ[z].addr # 0 /\ ~c.SQ[z].fetched}
           V == {z \in SqSlot : new.SQ[z].addr # 0 /\ ~new.SQ[z].fetched}
<1>a. a # 0
  <2>1. c.rob[i] \in Row
    BY DEF Typed
  <2>2. c.rob[i].ins.dst \in Seq(Addr)
    BY <2>1, RowIs
  <2>3. a \in Addr
    BY <2>2, SeqAt
  <2> QED
    BY <2>3, AddrAssumption
<1>p. /\ new.LQ = c.LQ /\ new.SQ[s].addr = a /\ ~new.SQ[s].fetched
      /\ \A z \in SqSlot : z # s => new.SQ[z] = c.SQ[z]
      /\ new.RT["RTS0"] = Append(c.RT["RTS0"], s)
      /\ new.RT["RTS1"] = c.RT["RTS1"] /\ new.RT["RTL0"] = c.RT["RTL0"] /\ new.RT["RTL1"] = c.RT["RTL1"]
  BY DEF Put, Lists
<1>0. /\ S0 \cap S1 = {} /\ S0 \cap S2 = {} /\ S1 \cap S2 = {} /\ S0 \cup S1 \cup S2 = U
      /\ Distinct(c.RT["RTS0"])
  BY DEF PlacesOK
<1>1. V = U \cup {s} /\ s \notin U
  <2>1. s \notin U
    BY DEF EmptyStore
  <2> HIDE DEF a
  <2> QED
    BY <1>a, <1>p, <2>1
<1>2. Distinct(new.RT["RTS0"]) /\ T0 = S0 \cup {s}
  <2>1. c.RT["RTS0"] \in Seq(Nat) /\ s \in Nat
    BY SlotsFinite DEF Typed, Lists
  <2>2. s \notin S0
    BY <1>0, <1>1
  <2>3. Distinct(Append(c.RT["RTS0"], s)) /\ Elements(Append(c.RT["RTS0"], s)) = Elements(c.RT["RTS0"]) \cup {s}
    BY <1>0, <2>1, <2>2, AppendList
  <2> QED
    BY <1>p, <2>3
<1>3. T0 \cap S1 = {} /\ T0 \cap S2 = {} /\ T0 \cup S1 \cup S2 = V
  <2> HIDE DEF S0, S1, S2, T0, U, V
  <2> QED
    BY <1>0, <1>1, <1>2
<1>4. \A y \in {"RTL0", "RTL1", "RTS0", "RTS1"} : Distinct(new.RT[y])
  BY <1>2, <1>p DEF PlacesOK
<1> QED
  BY <1>0, <1>3, <1>4, <1>p DEF PlacesOK

LEMMA PutStep ==
  ASSUME NEW c, NEW h, NEW t, NEW ns, NEW d, NEW r, Good(c, h, t, ns, d, r), NEW i \in h .. ns - 1,
         c.rob[i].reg_ready, NEW j \in DOMAIN c.rob[i].ins.dst, j \notin c.rob[i].destination_added,
         StoreTurn(c, i), NEW new, new = add_store_queue(c, i, j)
  PROVE  Good(new, h, t, ns, d, r) /\ SamePlan(c, new)
<1> DEFINE s == c.SQ_tail
<1>g. /\ IsCore(c) /\ Typed(c) /\ Win(h, t, ns) /\ EntriesOK(c.rob, h, t, ns) /\ RegInv(c.rob, c.RT, h, ns)
      /\ LoadInv(c.rob, c.LQ, c.SQ, h, ns) /\ StoreInv(c, h, t, ns) /\ CountInv(c, h, t) /\ PlacesOK(c, d, r)
      /\ d \subseteq {"LQ", "SQ"} \X Nat /\ r \subseteq LqSlot
  BY GoodIs DEF Good
<1>w. /\ h \in Nat \ {0} /\ t \in Nat /\ ns \in Nat /\ ns <= t /\ h .. t - 1 \subseteq Id /\ h .. ns - 1 \subseteq Id /\ h \in Nat
  BY <1>g DEF Win
<1>i. i \in Id /\ DOMAIN c.rob[i].sq_index = DOMAIN c.rob[i].ins.dst
  BY <1>g, <1>w DEF EntriesOK
<1>n. c.STA # << >> /\ Head(c.STA) = i /\ c.SQ_occupancy < SQ_SIZE
  BY DEF StoreTurn
<1>s. s = c.SQ_tail
  OBVIOUS
<1> HIDE DEF s
<1>1. Put(c, new, i, j, s)
  BY <1>g, <1>i, <1>n, <1>s, PutIs
<1>2. StoreInv(new, h, t, ns) /\ c.SQ[s] = EmptyStore /\ s \in SqSlot
  BY <1>1, <1>g, <1>i, <1>n, <1>s, <1>w, PutStores
<1>p. /\ IsCore(new) /\ Typed(new) /\ new.LQ = c.LQ /\ new.LQ_occupancy = c.LQ_occupancy
      /\ new.inflight_reg = c.inflight_reg /\ new.inflight_mem = c.inflight_mem
      /\ PutRow(c.rob[i], new.rob[i], j, s) /\ \A k \in Id : k # i => new.rob[k] = c.rob[k]
      /\ new.RT["RTE0"] = c.RT["RTE0"] /\ new.RT["RTE1"] = c.RT["RTE1"]
  BY <1>1 DEF Put, Lists
<1>q. /\ new.rob[i].ins = c.rob[i].ins /\ new.rob[i].executed = c.rob[i].executed
      /\ new.rob[i].reg_ready = c.rob[i].reg_ready
      /\ new.rob[i].num_reg_dependent = c.rob[i].num_reg_dependent /\ new.rob[i].source_added = c.rob[i].source_added
      /\ new.rob[i].lq_index = c.rob[i].lq_index /\ new.rob[i].reg_depend_on_me = c.rob[i].reg_depend_on_me
      /\ new.rob[i].num_mem_ops = c.rob[i].num_mem_ops /\ DOMAIN new.rob[i].sq_index = DOMAIN c.rob[i].sq_index
      /\ new.rob[i].destination_added = c.rob[i].destination_added \cup {j}
  BY <1>p DEF PutRow
<1>k. ASSUME NEW k \in Id
      PROVE  /\ new.rob[k].ins = c.rob[k].ins /\ new.rob[k].executed = c.rob[k].executed
             /\ new.rob[k].reg_ready = c.rob[k].reg_ready /\ new.rob[k].num_mem_ops = c.rob[k].num_mem_ops
  BY <1>p, <1>q
<1>3. SamePlan(c, new)
  BY <1>k DEF SamePlan
<1>4. new \in Shape
  BY <1>p, ShapeIff
<1>5. EntriesOK(new.rob, h, t, ns)
  <2> SUFFICES ASSUME NEW k \in Id
               PROVE  LET v == new.rob[k]
                      IN  /\ k \notin h .. t - 1 => v.ins = NoInstr
                          /\ k \notin h .. ns - 1 => v = Entry(v.ins)
                          /\ v.source_added \subseteq DOMAIN v.ins.src /\ DOMAIN v.lq_index = DOMAIN v.ins.src
                          /\ v.destination_added \subseteq DOMAIN v.ins.dst /\ DOMAIN v.sq_index = DOMAIN v.ins.dst
    BY DEF EntriesOK
  <2>1. CASE k = i
    BY <1>g, <1>i, <1>q, <1>w, <2>1 DEF EntriesOK
  <2>2. CASE k # i
    BY <1>g, <1>p, <2>2 DEF EntriesOK
  <2> QED
    BY Zenon, <2>1, <2>2
<1>6. RegInv(new.rob, new.RT, h, ns)
  <2>1. RegFrame(c.rob, new.rob, h, ns)
    <3> SUFFICES ASSUME NEW k \in h .. ns - 1
                 PROVE  /\ new.rob[k].ins = c.rob[k].ins /\ new.rob[k].reg_ready = c.rob[k].reg_ready
                        /\ new.rob[k].num_reg_dependent = c.rob[k].num_reg_dependent
                        /\ new.rob[k].reg_depend_on_me = c.rob[k].reg_depend_on_me
                        /\ new.rob[k].executed = c.rob[k].executed
                        /\ \/ new.rob[k].source_added = c.rob[k].source_added
                              /\ new.rob[k].destination_added = c.rob[k].destination_added
                           \/ c.rob[k].reg_ready
      BY DEF RegFrame, Done
    <3>1. CASE k = i
      BY <1>q, <3>1
    <3>2. CASE k # i
      BY <1>p, <1>w, <3>2
    <3> QED
      BY <3>1, <3>2
  <2> QED
    BY <1>g, <1>p, <1>w, <2>1, RegKept
<1>7. LoadInv(new.rob, new.LQ, new.SQ, h, ns)
  <2>1. StoresOK(c.rob, c.SQ, h, ns)
    BY <1>g DEF StoreInv
  <2> QED
    BY <1>1, <1>2, <1>g, <1>w, <2>1, PutLoads
<1>8. CountInv(new, h, t)
  <2>1. /\ OpsOK(c.rob, c.LQ, c.SQ, h, t) /\ c.LQ_occupancy = Cardinality(UsedLoads(c.LQ))
        /\ c.inflight_mem = Cardinality(MemInflight(c.rob, h, t))
        /\ c.inflight_reg = Cardinality(RegInflight(c.rob, h, t))
    BY <1>g DEF CountInv
  <2>2. OpsOK(new.rob, new.LQ, new.SQ, h, t)
    <3> SUFFICES ASSUME NEW k \in h .. t - 1
                 PROVE  new.rob[k].num_mem_ops = OpsOf(new.rob[k], new.LQ, new.SQ, k) /\ (Done(new.rob[k]) => new.rob[k].num_mem_ops = 0)
      BY OpsIs
    <3>0. k \in Id
      BY <1>w
    <3>1. OpsOf(new.rob[k], new.LQ, new.SQ, k) = OpsOf(c.rob[k], c.LQ, c.SQ, k)
      BY <1>1, <1>2, <1>g, <1>i, <3>0, PutOps
    <3>2. c.rob[k].num_mem_ops = OpsOf(c.rob[k], c.LQ, c.SQ, k) /\ (Done(c.rob[k]) => c.rob[k].num_mem_ops = 0)
      BY <2>1, OpsIs
    <3> QED
      BY <1>k, <3>0, <3>1, <3>2 DEF Done
  <2>3. MemInflight(new.rob, h, t) = MemInflight(c.rob, h, t) /\ RegInflight(new.rob, h, t) = RegInflight(c.rob, h, t)
    BY <1>k, <1>w DEF MemInflight, RegInflight, Done, is_memory
  <2> QED
    BY <1>p, <2>1, <2>2, <2>3 DEF CountInv
<1>9. PlacesOK(new, d, r)
  BY <1>1, <1>2, <1>g, <1>i, PutPlaces
<1>10. Window(h, t, ns)
  BY DEF Good
<1> QED
  BY <1>2, <1>3, <1>4, <1>5, <1>6, <1>7, <1>8, <1>9, <1>10, <1>g DEF Good

LEMMA StoreOperandStep ==
  ASSUME NEW c, NEW h, NEW t, NEW ns, NEW d, NEW r, Good(c, h, t, ns, d, r), NEW i \in h .. ns - 1,
         c.rob[i].reg_ready, NEW j \in DOMAIN c.rob[i].ins.dst
  PROVE  Good(store_operand(c, i, j), h, t, ns, d, r) /\ SamePlan(c, store_operand(c, i, j))
<1>1. CASE j \notin c.rob[i].destination_added /\ StoreTurn(c, i)
  <2>1. store_operand(c, i, j) = add_store_queue(c, i, j)
    BY <1>1 DEF store_operand
  <2> QED
    BY <1>1, <2>1, PutStep
<1>2. CASE ~(j \notin c.rob[i].destination_added /\ StoreTurn(c, i))
  <2>1. store_operand(c, i, j) = c
    BY <1>2 DEF store_operand
  <2> QED
    BY <2>1 DEF SamePlan
<1> QED
  BY <1>1, <1>2

(* The states that the loops pass through. *)
GoodFrom(c0, h, t, ns, d, r) == {c \in Shape : Good(c, h, t, ns, d, r) /\ SamePlan(c0, c)}

LEMMA LoadsLoop ==
  ASSUME NEW c, NEW t, NEW ns, NEW d, NEW r, Good(c, head, t, ns, d, r), NEW i \in head .. ns - 1, i \in Id,
         c.rob[i].reg_ready, NEW m \in Nat, 1 .. m = DOMAIN c.rob[i].ins.src, NEW C, C = GoodFrom(c, head, t, ns, d, r),
         NEW load, load = CHOOSE f : f = [j \in 0 .. m |-> IF j = 0 THEN c ELSE load_operand(f[j - 1], i, j)]
  PROVE  load[m] \in C
<1> DEFINE F == [x \in C \X (1 .. m) |-> load_operand(x[1], i, x[2])]
<1>1. ASSUME NEW x \in C, NEW j \in 1 .. m PROVE load_operand(x, i, j) \in C
  <2>1. Good(x, head, t, ns, d, r) /\ SamePlan(c, x)
    BY DEF GoodFrom
  <2>2. x.rob[i].reg_ready /\ j \in DOMAIN x.rob[i].ins.src
    BY <2>1 DEF SamePlan
  <2> DEFINE y == load_operand(x, i, j)
  <2>3. Good(y, head, t, ns, d, r) /\ SamePlan(x, y)
    BY <2>1, <2>2, LoadOperandStep
  <2> HIDE DEF y
  <2>4. y \in Shape /\ SamePlan(c, y)
    BY <2>1, <2>3 DEF Good, SamePlan
  <2>5. y \in C
    BY <2>3, <2>4 DEF GoodFrom
  <2> QED
    BY <2>5 DEF y
<1>2. c \in C
  BY DEF GoodFrom, SamePlan, Good
<1>3. F \in [C \X (1 .. m) -> C]
  BY <1>1
<1>4. \A x \in C, j \in 1 .. m : F[<<x, j>>] = load_operand(x, i, j)
  OBVIOUS
<1> HIDE DEF F
<1>5. PICK g \in [0 .. m -> C] : g[0] = c /\ \A j \in 1 .. m : g[j] = F[<<g[j - 1], j>>]
  <2>1. \E g \in [0 .. m -> C] : Runs(g, m, c, F)
    BY <1>2, <1>3, LoopRuns
  <2> QED
    BY <2>1 DEF Runs
<1>6. g = [j \in 0 .. m |-> IF j = 0 THEN c ELSE load_operand(g[j - 1], i, j)]
  <2>1. ASSUME NEW j \in 0 .. m PROVE g[j] = IF j = 0 THEN c ELSE load_operand(g[j - 1], i, j)
    <3>1. j # 0 => j \in 1 .. m /\ j - 1 \in 0 .. m
      OBVIOUS
    <3> QED
      BY <1>4, <1>5, <3>1
  <2> QED
    BY <1>5, <2>1
<1>7. load = [j \in 0 .. m |-> IF j = 0 THEN c ELSE load_operand(load[j - 1], i, j)]
  BY <1>6, Zenon
<1>8. load[0] = c /\ \A j \in 1 .. m : load[j] = load_operand(load[j - 1], i, j)
  <2>1. 0 \in 0 .. m /\ \A j \in 1 .. m : j \in 0 .. m /\ j # 0
    OBVIOUS
  <2> QED
    BY <1>7, <2>1, Zenon
<1>9. KeptBy(load, m, C)
  BY <1>1, <1>8 DEF KeptBy
<1>10. load[0] \in C
  BY <1>2, <1>8
<1> QED
  BY <1>9, <1>10, LoopKeeps

LEMMA StoresLoop ==
  ASSUME NEW c, NEW t, NEW ns, NEW d, NEW r, Good(c, head, t, ns, d, r), NEW i \in head .. ns - 1, i \in Id,
         c.rob[i].reg_ready, NEW n \in Nat, 1 .. n = DOMAIN c.rob[i].ins.dst, NEW C, C = GoodFrom(c, head, t, ns, d, r), NEW b \in C,
         NEW store, store = CHOOSE f : f = [j \in 0 .. n |-> IF j = 0 THEN b ELSE store_operand(f[j - 1], i, j)]
  PROVE  store[n] \in C
<1> DEFINE F == [x \in C \X (1 .. n) |-> store_operand(x[1], i, x[2])]
<1>1. ASSUME NEW x \in C, NEW j \in 1 .. n PROVE store_operand(x, i, j) \in C
  <2>1. Good(x, head, t, ns, d, r) /\ SamePlan(c, x)
    BY DEF GoodFrom
  <2>2. x.rob[i].reg_ready /\ j \in DOMAIN x.rob[i].ins.dst
    BY <2>1 DEF SamePlan
  <2> DEFINE y == store_operand(x, i, j)
  <2>3. Good(y, head, t, ns, d, r) /\ SamePlan(x, y)
    BY <2>1, <2>2, StoreOperandStep
  <2> HIDE DEF y
  <2>4. y \in Shape /\ SamePlan(c, y)
    BY <2>1, <2>3 DEF Good, SamePlan
  <2>5. y \in C
    BY <2>3, <2>4 DEF GoodFrom
  <2> QED
    BY <2>5 DEF y
<1>2. b \in C
  OBVIOUS
<1>3. F \in [C \X (1 .. n) -> C]
  BY <1>1
<1>4. \A x \in C, j \in 1 .. n : F[<<x, j>>] = store_operand(x, i, j)
  OBVIOUS
<1> HIDE DEF F
<1>5. PICK g \in [0 .. n -> C] : g[0] = b /\ \A j \in 1 .. n : g[j] = F[<<g[j - 1], j>>]
  <2>1. \E g \in [0 .. n -> C] : Runs(g, n, b, F)
    BY <1>2, <1>3, LoopRuns
  <2> QED
    BY <2>1 DEF Runs
<1>6. g = [j \in 0 .. n |-> IF j = 0 THEN b ELSE store_operand(g[j - 1], i, j)]
  <2>1. ASSUME NEW j \in 0 .. n PROVE g[j] = IF j = 0 THEN b ELSE store_operand(g[j - 1], i, j)
    <3>1. j # 0 => j \in 1 .. n /\ j - 1 \in 0 .. n
      OBVIOUS
    <3> QED
      BY <1>4, <1>5, <3>1
  <2> QED
    BY <1>5, <2>1
<1>7. store = [j \in 0 .. n |-> IF j = 0 THEN b ELSE store_operand(store[j - 1], i, j)]
  BY <1>6, Zenon
<1>8. store[0] = b /\ \A j \in 1 .. n : store[j] = store_operand(store[j - 1], i, j)
  <2>1. 0 \in 0 .. n /\ \A j \in 1 .. n : j \in 0 .. n /\ j # 0
    OBVIOUS
  <2> QED
    BY <1>7, <2>1, Zenon
<1>9. KeptBy(store, n, C)
  BY <1>1, <1>8 DEF KeptBy
<1>10. store[0] \in C
  BY <1>2, <1>8
<1> QED
  BY <1>9, <1>10, LoopKeeps

LEMMA AddedIs ==
  ASSUME NEW c, NEW t, NEW ns, NEW d, NEW r, Good(c, head, t, ns, d, r), NEW i \in head .. ns - 1,
         c.rob[i].reg_ready
  PROVE  check_and_add_lsq(c, i) \in GoodFrom(c, head, t, ns, d, r)
<1> DEFINE C == GoodFrom(c, head, t, ns, d, r)
           m == Len(c.rob[i].ins.src)
           n == Len(c.rob[i].ins.dst)
           load == CHOOSE f : f = [j \in 0 .. m |-> IF j = 0 THEN c ELSE load_operand(f[j - 1], i, j)]
           store == CHOOSE f : f = [j \in 0 .. n |-> IF j = 0 THEN load[m] ELSE store_operand(f[j - 1], i, j)]
<1>1. check_and_add_lsq(c, i) = store[n]
  BY Zenon DEF check_and_add_lsq
<1>g. Typed(c) /\ Win(head, t, ns)
  BY GoodIs
<1>i. i \in Id /\ c.rob[i] \in Row
  BY <1>g DEF Win, Typed
<1>2. m \in Nat /\ 1 .. m = DOMAIN c.rob[i].ins.src /\ n \in Nat /\ 1 .. n = DOMAIN c.rob[i].ins.dst
  <2>1. c.rob[i].ins.src \in Seq(Addr) /\ c.rob[i].ins.dst \in Seq(Addr)
    BY <1>i, RowIs
  <2> DEFINE u == c.rob[i].ins.src
             v == c.rob[i].ins.dst
  <2> HIDE DEF u, v
  <2>2. Len(u) \in Nat /\ 1 .. Len(u) = DOMAIN u /\ Len(v) \in Nat /\ 1 .. Len(v) = DOMAIN v
    <3>1. u \in Seq(Addr) /\ v \in Seq(Addr)
      BY <2>1 DEF u, v
    <3> QED
      BY <3>1, LenIs
  <2> QED
    BY <2>2 DEF u, v
<1>l. load = CHOOSE f : f = [j \in 0 .. m |-> IF j = 0 THEN c ELSE load_operand(f[j - 1], i, j)]
  OBVIOUS
<1>s. store = CHOOSE f : f = [j \in 0 .. n |-> IF j = 0 THEN load[m] ELSE store_operand(f[j - 1], i, j)]
  OBVIOUS
<1>c. C = GoodFrom(c, head, t, ns, d, r)
  OBVIOUS
<1> HIDE DEF C, m, n, load, store
<1>3. load[m] \in C
  BY <1>2, <1>c, <1>i, <1>l, LoadsLoop
<1> DEFINE b == load[m]
<1>b. b \in C /\ store = CHOOSE f : f = [j \in 0 .. n |-> IF j = 0 THEN b ELSE store_operand(f[j - 1], i, j)]
  BY <1>3, <1>s
<1> HIDE DEF b
<1>4. store[n] \in C
  BY <1>2, <1>b, <1>c, <1>i, StoresLoop
<1> QED
  BY <1>1, <1>4 DEF C

FinishedOf(c, i) ==
  [c EXCEPT !.rob[i].scheduled = "COMPLETED", !.rob[i].executed = IF @ = "NO" THEN "INFLIGHT" ELSE @]

FinishRow(e, f) ==
  /\ f \in Row /\ MemSame(e, f) /\ f.reg_ready = e.reg_ready /\ f.num_reg_dependent = e.num_reg_dependent
  /\ f.reg_depend_on_me = e.reg_depend_on_me /\ (Done(f) <=> Done(e))

LEMMA FinishRowIs ==
  ASSUME NEW e \in Row, NEW f, f = [e EXCEPT !.scheduled = "COMPLETED",
                                             !.executed = IF e.executed = "NO" THEN "INFLIGHT" ELSE e.executed]
  PROVE  FinishRow(e, f)
<1> DEFINE v == IF e.executed = "NO" THEN "INFLIGHT" ELSE e.executed
<1>1. v \in Status /\ (v = "COMPLETED" <=> e.executed = "COMPLETED") /\ "COMPLETED" \in Status
  BY RowIs DEF Status
<1>2. f = [e EXCEPT !.scheduled = "COMPLETED", !.executed = v]
  OBVIOUS
<1> HIDE DEF v
<1>3. /\ f \in Row /\ f.executed = v /\ f.reg_ready = e.reg_ready /\ f.num_reg_dependent = e.num_reg_dependent
      /\ f.reg_depend_on_me = e.reg_depend_on_me /\ MemSame(e, f)
  BY <1>1, <1>2 DEF Row, MemSame
<1> QED
  BY <1>1, <1>3 DEF FinishRow, Done

LEMMA FinishStep ==
  ASSUME NEW c, NEW h, NEW t, NEW ns, NEW d, NEW r, Good(c, h, t, ns, d, r), NEW i \in h .. ns - 1,
         c.rob[i].reg_ready, is_memory(c.rob[i]), NEW new, new = FinishedOf(c, i)
  PROVE  Good(new, h, t, ns, d, r) /\ SamePlan(c, new)
<1> DEFINE e == c.rob[i]
           f == [e EXCEPT !.scheduled = "COMPLETED", !.executed = IF e.executed = "NO" THEN "INFLIGHT" ELSE e.executed]
           rob == [c.rob EXCEPT ![i] = f]
<1>g. /\ IsCore(c) /\ Typed(c) /\ Win(h, t, ns) /\ RegInv(c.rob, c.RT, h, ns) /\ CountInv(c, h, t)
  BY GoodIs
<1>w. h \in Nat /\ ns \in Nat /\ t \in Nat /\ h .. t - 1 \subseteq Id /\ h .. ns - 1 \subseteq Id /\ i \in Id
  BY <1>g DEF Win
<1>t. c.rob \in [Id -> Row] /\ e \in Row
  BY <1>g, <1>w DEF Typed
<1>1. /\ IsCore(new) /\ new.rob = rob /\ new.RT = c.RT /\ new.inflight_reg = c.inflight_reg
      /\ new.LQ = c.LQ /\ new.LQ_occupancy = c.LQ_occupancy /\ new.inflight_mem = c.inflight_mem
      /\ SameStores(c, new)
  <2>1. new = [c EXCEPT !.rob = rob]
    <3> DEFINE v == IF e.executed = "NO" THEN "INFLIGHT" ELSE e.executed
    <3>1. new = [c EXCEPT !.rob[i].scheduled = "COMPLETED", !.rob[i].executed = v]
      BY DEF FinishedOf
    <3>2. rob = [c.rob EXCEPT ![i] = [e EXCEPT !.scheduled = "COMPLETED", !.executed = v]]
      OBVIOUS
    <3> HIDE DEF v, rob, f
    <3>3. [c.rob EXCEPT ![i].scheduled = "COMPLETED", ![i].executed = v] = rob
      BY <1>t, <1>w, <3>2 DEF e, Row
    <3> QED
      BY <1>g, <3>1, <3>3 DEF IsCore, Names
  <2> HIDE DEF rob
  <2> QED
    BY <1>g, <2>1 DEF IsCore, Names, SameStores
<1>2. FinishRow(e, f)
  <2>f. f = [e EXCEPT !.scheduled = "COMPLETED", !.executed = IF e.executed = "NO" THEN "INFLIGHT" ELSE e.executed]
    OBVIOUS
  <2> HIDE DEF e, f
  <2> QED
    BY <1>t, <2>f, FinishRowIs
<1> HIDE DEF f
<1>3. rob \in [Id -> Row] /\ rob[i] = f /\ \A k \in Id : k # i => rob[k] = c.rob[k]
  BY <1>2, <1>t, <1>w DEF FinishRow
<1> HIDE DEF rob
<1>4. /\ MemSame(e, f) /\ f.reg_ready = e.reg_ready /\ f.num_reg_dependent = e.num_reg_dependent
      /\ f.reg_depend_on_me = e.reg_depend_on_me /\ (Done(f) <=> Done(e))
  BY <1>2 DEF FinishRow
<1>5. MemFrame(c.rob, rob)
  BY <1>3, <1>4 DEF MemFrame, MemSame
<1>6. Typed(new)
  BY <1>1, <1>3, <1>g, Zenon DEF Typed, SameStores
<1>7. Quiet(c, new, h, ns)
  <2>1. \A k \in Id : k \notin h .. ns - 1 => new.rob[k] = c.rob[k]
    BY <1>1, <1>3
  <2> QED
    BY <1>1, <1>5, <1>6, <2>1 DEF Quiet
<1>8. RegInv(new.rob, new.RT, h, ns)
  <2>1. RegFrame(c.rob, rob, h, ns)
    <3> SUFFICES ASSUME NEW k \in h .. ns - 1
                 PROVE  /\ rob[k].ins = c.rob[k].ins /\ rob[k].reg_ready = c.rob[k].reg_ready
                        /\ rob[k].num_reg_dependent = c.rob[k].num_reg_dependent
                        /\ rob[k].reg_depend_on_me = c.rob[k].reg_depend_on_me
                        /\ Done(rob[k]) <=> Done(c.rob[k])
                        /\ rob[k].executed # c.rob[k].executed => is_memory(c.rob[k]) /\ c.rob[k].reg_ready
                        /\ rob[k].source_added = c.rob[k].source_added
                        /\ rob[k].destination_added = c.rob[k].destination_added
      BY DEF RegFrame
    <3>1. CASE k = i
      BY <1>3, <1>4, <3>1 DEF MemSame
    <3>2. CASE k # i
      BY <1>3, <1>w, <3>2
    <3> QED
      BY <3>1, <3>2
  <2> QED
    BY <1>1, <1>g, <1>w, <2>1, RegKept
<1>9. CountInv(new, h, t)
  <2>1. \A k \in h .. t - 1 : /\ Done(rob[k]) <=> Done(c.rob[k])
                              /\ is_memory(c.rob[k]) \/ rob[k] = c.rob[k]
    BY <1>3, <1>4, <1>w
  <2>2. OpsOK(rob, c.LQ, c.SQ, h, t)
    BY <1>5, <1>g, <2>1, OpsKept DEF CountInv, Win
  <2>3. \A k \in h .. t - 1 : MemSame(c.rob[k], rob[k])
    BY <1>5, <1>w DEF MemFrame
  <2>4. MemInflight(rob, h, t) = MemInflight(c.rob, h, t)
    BY <2>1, <2>3 DEF MemInflight, MemSame, is_memory
  <2>5. RegInflight(rob, h, t) = RegInflight(c.rob, h, t)
    BY <2>1, <2>3 DEF RegInflight, MemSame, is_memory
  <2> QED
    BY <1>1, <1>g, <2>2, <2>4, <2>5 DEF CountInv, SameStores
<1>10. SamePlan(c, new)
  BY <1>1, <1>3, <1>4 DEF SamePlan, MemSame
<1>11. Good(new, h, t, ns, d, r)
  BY <1>7, <1>8, <1>9, MemoryKept, Zenon
<1> QED
  BY <1>10, <1>11

LEMMA MemorySchedulingStep ==
  ASSUME NEW c, NEW t, NEW ns, NEW d, NEW r, Good(c, head, t, ns, d, r), NEW i \in head .. ns - 1,
         c.rob[i].reg_ready, is_memory(c.rob[i])
  PROVE  do_memory_scheduling(c, i) \in GoodFrom(c, head, t, ns, d, r)
<1> DEFINE x == check_and_add_lsq(c, i)
           y == do_memory_scheduling(c, i)
<1>1. x \in GoodFrom(c, head, t, ns, d, r)
  BY AddedIs
<1>2. y = x \/ y = FinishedOf(x, i)
  BY DEF do_memory_scheduling, FinishedOf
<1>i. i \in Id
  BY GoodIs DEF Win
<1> HIDE DEF x, y
<1>3. Good(x, head, t, ns, d, r) /\ SamePlan(c, x)
  BY <1>1 DEF GoodFrom
<1>4. x.rob[i].reg_ready /\ is_memory(x.rob[i])
  BY <1>3, <1>i DEF SamePlan, is_memory
<1>5. CASE y = x
  BY <1>1, <1>5 DEF y
<1>6. CASE y = FinishedOf(x, i)
  <2>1. Good(y, head, t, ns, d, r) /\ SamePlan(x, y)
    BY <1>3, <1>4, <1>6, FinishStep
  <2>2. y \in Shape /\ SamePlan(c, y)
    BY <1>3, <2>1 DEF Good, SamePlan
  <2>3. y \in GoodFrom(c, head, t, ns, d, r)
    BY <2>1, <2>2 DEF GoodFrom
  <2> QED
    BY <2>3 DEF y
<1> QED
  BY <1>2, <1>5, <1>6

LEMMA MemoryLoop ==
  ASSUME NEW c, NEW t, NEW ns, NEW d, NEW r, Good(c, head, t, ns, d, r), NEW C, C = GoodFrom(c, head, t, ns, d, r),
         NEW q, NEW n \in Nat,
         \A k \in 1 .. n : q[k] \in head .. ns - 1 /\ is_memory(c.rob[q[k]]) /\ c.rob[q[k]].reg_ready,
         NEW run, run = CHOOSE f : f = [k \in 0 .. n |-> IF k = 0 THEN c ELSE do_memory_scheduling(f[k - 1], q[k])]
  PROVE  run[n] \in C
<1> DEFINE F == [x \in C \X (1 .. n) |-> do_memory_scheduling(x[1], q[x[2]])]
<1>1. ASSUME NEW x \in C, NEW k \in 1 .. n PROVE do_memory_scheduling(x, q[k]) \in C
  <2> DEFINE i == q[k]
  <2>1. Good(x, head, t, ns, d, r) /\ SamePlan(c, x)
    BY DEF GoodFrom
  <2>2. i \in head .. ns - 1 /\ is_memory(c.rob[i]) /\ c.rob[i].reg_ready
    OBVIOUS
  <2> HIDE DEF i
  <2>3. i \in Id
    BY <2>1, <2>2, GoodIs DEF Win
  <2>4. x.rob[i].reg_ready /\ is_memory(x.rob[i])
    BY <2>1, <2>2, <2>3 DEF SamePlan, is_memory
  <2> DEFINE y == do_memory_scheduling(x, i)
  <2>5. y \in GoodFrom(x, head, t, ns, d, r)
    BY <2>1, <2>2, <2>4, MemorySchedulingStep
  <2> HIDE DEF y
  <2>6. y \in Shape /\ Good(y, head, t, ns, d, r) /\ SamePlan(c, y)
    BY <2>1, <2>5 DEF GoodFrom, SamePlan
  <2>7. y \in C
    BY <2>6 DEF GoodFrom
  <2> QED
    BY <2>7 DEF y, i
<1>2. c \in C
  BY DEF GoodFrom, SamePlan, Good
<1>3. F \in [C \X (1 .. n) -> C]
  BY <1>1
<1>4. \A x \in C, k \in 1 .. n : F[<<x, k>>] = do_memory_scheduling(x, q[k])
  OBVIOUS
<1> HIDE DEF F
<1>5. PICK g \in [0 .. n -> C] : g[0] = c /\ \A k \in 1 .. n : g[k] = F[<<g[k - 1], k>>]
  <2>1. \E g \in [0 .. n -> C] : Runs(g, n, c, F)
    BY <1>2, <1>3, LoopRuns
  <2> QED
    BY <2>1 DEF Runs
<1>6. g = [k \in 0 .. n |-> IF k = 0 THEN c ELSE do_memory_scheduling(g[k - 1], q[k])]
  <2>1. ASSUME NEW k \in 0 .. n PROVE g[k] = IF k = 0 THEN c ELSE do_memory_scheduling(g[k - 1], q[k])
    <3>1. k # 0 => k \in 1 .. n /\ k - 1 \in 0 .. n
      OBVIOUS
    <3> QED
      BY <1>4, <1>5, <3>1
  <2> QED
    BY <1>5, <2>1
<1>7. run = [k \in 0 .. n |-> IF k = 0 THEN c ELSE do_memory_scheduling(run[k - 1], q[k])]
  BY <1>6, Zenon
<1>8. run[0] = c /\ \A k \in 1 .. n : run[k] = do_memory_scheduling(run[k - 1], q[k])
  <2>1. 0 \in 0 .. n /\ \A k \in 1 .. n : k \in 0 .. n /\ k # 0
    OBVIOUS
  <2> QED
    BY <1>7, <2>1, Zenon
<1>9. KeptBy(run, n, C)
  BY <1>1, <1>8 DEF KeptBy
<1>10. run[0] \in C
  BY <1>2, <1>8
<1> QED
  BY <1>9, <1>10, LoopKeeps

LEMMA TriedIs ==
  ASSUME GoodNow
  PROVE  /\ Len(tried) \in Nat
         /\ \A k \in 1 .. Len(tried) : /\ tried[k] \in head .. next_schedule - 1
                                       /\ is_memory(core.rob[tried[k]]) /\ core.rob[tried[k]].reg_ready
<1> DEFINE S == {i \in head .. next_schedule - 1 : is_memory(core.rob[i]) /\ core.rob[i].reg_ready
                                                   /\ core.rob[i].scheduled = "INFLIGHT"}
           s == Ascending(S)
           n == IF Len(s) < SCHEDULER_SIZE THEN Len(s) ELSE SCHEDULER_SIZE
<1>1. tried = SubSeq(s, 1, n)
  BY Zenon DEF tried
<1>2. S \in SUBSET Nat /\ IsFiniteSet(S)
  <2>1. head \in Nat /\ next_schedule \in Nat
    BY GoodIs DEF Win, GoodNow
  <2>2. S \in SUBSET (head .. next_schedule - 1)
    OBVIOUS
  <2> HIDE DEF S
  <2>3. IsFiniteSet(S)
    BY <2>1, <2>2, InRobFinite
  <2> QED
    BY <2>1, <2>2, <2>3
<1>3. \A i \in S : i \in head .. next_schedule - 1 /\ is_memory(core.rob[i]) /\ core.rob[i].reg_ready
  OBVIOUS
<1> HIDE DEF S
<1>4. s \in Seq(S)
  BY <1>2, AscendingIs
<1> HIDE DEF s
<1>5. n \in 0 .. Len(s)
  <2>1. Len(s) \in Nat /\ SCHEDULER_SIZE \in Nat
    BY <1>4, Sizes
  <2> QED
    BY <2>1
<1> HIDE DEF n
<1>6. Len(tried) = n /\ \A k \in 1 .. n : tried[k] = s[k] /\ s[k] \in S
  BY <1>1, <1>4, <1>5
<1> QED
  BY <1>3, <1>5, <1>6

LEMMA MemoryScheduledStep ==
  ASSUME GoodNow
  PROVE  Good(memory_scheduled, head, tail, next_schedule, dtlb, l1d)
<1> DEFINE n == Len(tried)
           q == tried
           C == GoodFrom(core, head, tail, next_schedule, dtlb, l1d)
           run == CHOOSE f : f = [k \in 0 .. n |-> IF k = 0 THEN core ELSE do_memory_scheduling(f[k - 1], q[k])]
<1>1. memory_scheduled = run[n]
  BY Zenon DEF memory_scheduled
<1>2. /\ n \in Nat
      /\ \A k \in 1 .. n : q[k] \in head .. next_schedule - 1 /\ is_memory(core.rob[q[k]]) /\ core.rob[q[k]].reg_ready
  BY TriedIs
<1>3. Good(core, head, tail, next_schedule, dtlb, l1d)
  BY DEF GoodNow
<1>4. /\ run = CHOOSE f : f = [k \in 0 .. n |-> IF k = 0 THEN core ELSE do_memory_scheduling(f[k - 1], q[k])]
      /\ C = GoodFrom(core, head, tail, next_schedule, dtlb, l1d)
  OBVIOUS
<1> HIDE DEF n, q, C, run
<1>5. run[n] \in C
  BY <1>2, <1>3, <1>4, MemoryLoop
<1> QED
  BY <1>1, <1>5 DEF C, GoodFrom

-------------------------------------------------------------------------------
(* The initial state *)

LEMMA InitGood == Init => GoodNow
<1> SUFFICES ASSUME Init PROVE GoodNow
  OBVIOUS
<1> DEFINE e == Entry(NoInstr)
<1>0. head = 1 /\ tail = 1 /\ next_schedule = 1 /\ dtlb = {} /\ l1d = {}
  BY DEF Init
<1>c. core = [rob |-> [i \in Id |-> e], LQ |-> [l \in LqSlot |-> EmptyLoad], LQ_occupancy |-> 0,
              SQ |-> [s \in SqSlot |-> EmptyStore], SQ_occupancy |-> 0,
              SQ_head |-> 0, SQ_tail |-> 0, STA |-> << >>,
              RT |-> [x \in Lists |-> << >>], inflight_reg |-> 0, inflight_mem |-> 0]
  BY DEF Init
<1>e. /\ e \in Row /\ e.ins = NoInstr /\ e = Entry(e.ins) /\ e.source_added = {} /\ e.destination_added = {}
      /\ DOMAIN e.lq_index = DOMAIN e.ins.src /\ DOMAIN e.sq_index = DOMAIN e.ins.dst
  <2>1. e \in Row
    BY EntryIs
  <2> QED
    BY <2>1, EntryFields
<1> HIDE DEF e
<1>1. /\ core.rob = [i \in Id |-> e] /\ core.LQ = [l \in LqSlot |-> EmptyLoad] /\ core.LQ_occupancy = 0
      /\ core.SQ = [s \in SqSlot |-> EmptyStore] /\ core.SQ_occupancy = 0 /\ core.SQ_head = 0 /\ core.SQ_tail = 0
      /\ core.STA = << >> /\ core.RT = [x \in Lists |-> << >>] /\ core.inflight_reg = 0 /\ core.inflight_mem = 0
      /\ IsCore(core)
  BY <1>c DEF IsCore, Names
<1>z. /\ 0 \in SqSlot /\ SQ_SIZE \in Nat \ {0} /\ 0 % SQ_SIZE = 0 /\ MaxInstr \in Nat
  <2>1. SQ_SIZE \in Nat \ {0}
    BY Sizes
  <2>2. 0 % SQ_SIZE = 0 /\ 0 \in 0 .. SQ_SIZE - 1
    <3>1. 0 \in 0 .. 2 * SQ_SIZE - 1 /\ 0 < SQ_SIZE
      BY <2>1
    <3> QED
      BY <2>1, <3>1, WrapOnce
  <2> QED
    BY <2>1, <2>2, Sizes DEF SqSlot
<1>2. Typed(core)
  <2>1. EmptyLoad \in Loads /\ EmptyStore \in Stores
    BY DEF EmptyLoad, EmptyStore, Loads, Stores
  <2>2. << >> \in Seq(Id) /\ << >> \in Seq(Nat)
    OBVIOUS
  <2>3. core.rob \in [Id -> Row] /\ core.LQ \in [LqSlot -> Loads] /\ core.SQ \in [SqSlot -> Stores]
    BY <1>1, <1>e, <2>1
  <2>4. core.RT \in [Lists -> Seq(Nat)] /\ core.STA \in Seq(Id)
    BY <1>1, <2>2
  <2> QED
    BY <1>1, <1>z, <2>3, <2>4 DEF Typed
<1>3. core \in Shape
  BY <1>1, <1>2, ShapeIff
<1>4. Window(1, 1, 1)
  BY Sizes DEF Window
<1>w. 1 .. 1 - 1 = {}
  OBVIOUS
<1>5. EntriesOK(core.rob, 1, 1, 1)
  <2>1. \A i \in Id : core.rob[i] = e
    BY <1>1
  <2> QED
    BY <1>e, <2>1 DEF EntriesOK
<1>6. RegInv(core.rob, core.RT, 1, 1)
  <2>1. core.RT["RTE0"] = << >> /\ core.RT["RTE1"] = << >>
    BY <1>1 DEF Lists
  <2>2. DependsOK(core.rob, 1, 1) /\ WritersOK(core.rob, 1, 1) /\ CountsOK(core.rob, 1, 1)
    BY <1>w DEF DependsOK, WritersOK, CountsOK
  <2>3. ReadyOK(core.rob, core.RT, 1, 1)
    BY <2>1, EmptyList DEF ReadyOK
  <2> QED
    BY <2>2, <2>3 DEF RegInv
<1>7. LoadInv(core.rob, core.LQ, core.SQ, 1, 1)
  <2>1. \A l \in LqSlot : core.LQ[l] = EmptyLoad /\ core.LQ[l].addr = 0
    BY <1>1 DEF EmptyLoad
  <2> QED
    BY Zenon, <1>w, <2>1 DEF LoadInv, LoadsOK, ProducersOK, LinkedOK, ForwardsOK
<1>s. \A s \in SqSlot : core.SQ[s] = EmptyStore /\ core.SQ[s].addr = 0
  BY <1>1 DEF EmptyStore
<1>8. StoreInv(core, 1, 1, 1)
  <2>1. RingOK(core)
    <3>1. \A k \in 0 .. SQ_SIZE - 1 : at(core, k) \in SqSlot
      BY <1>1, <1>z, AtSlot
    <3>2. at(core, 0) = 0
      BY <1>1, <1>z DEF at
    <3>3. \A k \in 0 .. SQ_SIZE - 1 : core.SQ[at(core, k)].addr = 0 /\ ~(k < 0)
      BY <1>s, <3>1
    <3> QED
      BY <1>1, <1>z, <3>2, <3>3 DEF RingOK
  <2>2. StoresOK(core.rob, core.SQ, 1, 1)
    BY <1>s, <1>w DEF StoresOK
  <2>3. OrderOK(core, 1, 1)
    <3>1. DOMAIN core.STA = {} /\ 0 .. core.SQ_occupancy - 1 = {}
      BY <1>1
    <3> QED
      BY <1>w, <3>1 DEF OrderOK
  <2> QED
    BY <2>1, <2>2, <2>3 DEF StoreInv
<1>9. CountInv(core, 1, 1)
  <2>1. OpsOK(core.rob, core.LQ, core.SQ, 1, 1)
    BY <1>w DEF OpsOK
  <2>2. UsedLoads(core.LQ) = {} /\ MemInflight(core.rob, 1, 1) = {} /\ RegInflight(core.rob, 1, 1) = {}
    BY <1>1, <1>w DEF UsedLoads, MemInflight, RegInflight, EmptyLoad
  <2> QED
    BY <1>1, <2>1, <2>2, FS_EmptySet DEF CountInv
<1>10. PlacesOK(core, {}, {})
  <2>1. \A x \in {"RTL0", "RTL1", "RTS0", "RTS1"} : core.RT[x] = << >>
    BY <1>1 DEF Lists
  <2>2. Translating({}, "LQ") = {} /\ Translating({}, "SQ") = {}
    BY DEF Translating
  <2>3. \A l \in LqSlot : core.LQ[l].addr = 0
    BY <1>1 DEF EmptyLoad
  <2> QED
    BY <1>s, <2>1, <2>2, <2>3, EmptyList DEF PlacesOK
<1> QED
  BY <1>0, <1>3, <1>4, <1>5, <1>6, <1>7, <1>8, <1>9, <1>10 DEF GoodNow, Good

-------------------------------------------------------------------------------
(* The steps *)

LEMMA NextGood == GoodNow /\ [Next]_vars => GoodNow'
<1> SUFFICES ASSUME GoodNow, [Next]_vars PROVE GoodNow'
  OBVIOUS
<1>g. Good(core, head, tail, next_schedule, dtlb, l1d)
  BY DEF GoodNow
<1>n. GoodNow' <=> Good(core', head', tail', next_schedule', dtlb', l1d')
  BY DEF GoodNow
<1>1. ASSUME NEW ins \in Instr, Dispatch(ins) PROVE GoodNow'
  <2>1. core' = DispatchedOf(core, tail, ins)
    BY <1>1 DEF Dispatch, DispatchedOf, add_to_rob
  <2>2. /\ tail <= MaxInstr /\ tail - head < ROB_SIZE /\ tail' = tail + 1 /\ head' = head
        /\ next_schedule' = next_schedule /\ dtlb' = dtlb /\ l1d' = l1d
    BY <1>1 DEF Dispatch
  <2> DEFINE new == core'
  <2>3. new = DispatchedOf(core, tail, ins)
    BY <2>1
  <2> HIDE DEF new
  <2>4. Good(new, head, tail + 1, next_schedule, dtlb, l1d)
    BY <1>g, <2>2, <2>3, DispatchStep
  <2> QED
    BY <1>n, <2>2, <2>4 DEF new
<1>2. ASSUME do_scheduling PROVE GoodNow'
  <2>1. core' = ScheduledOf(core, next_schedule)
    BY <1>2, Zenon DEF do_scheduling, ScheduledOf
  <2>2. /\ next_schedule < tail /\ tail' = tail /\ head' = head
        /\ next_schedule' = next_schedule + 1 /\ dtlb' = dtlb /\ l1d' = l1d
    BY <1>2 DEF do_scheduling
  <2> DEFINE new == core'
  <2>3. new = ScheduledOf(core, next_schedule)
    BY <2>1
  <2> HIDE DEF new
  <2>4. Good(new, head, tail, next_schedule + 1, dtlb, l1d)
    BY <1>g, <2>2, <2>3, SchedulingStep
  <2> QED
    BY <1>n, <2>2, <2>4 DEF new
<1> DEFINE Still == head' = head /\ tail' = tail /\ next_schedule' = next_schedule
<1>3. ASSUME NEW list \in {"RTE0", "RTE1"}, do_execution(list) PROVE GoodNow'
  <2>1. /\ core.RT[list] # << >> /\ Still /\ dtlb' = dtlb /\ l1d' = l1d
        /\ core' = [core EXCEPT !.rob[Head(core.RT[list])].executed = "INFLIGHT", !.RT[list] = Tail(@),
                                !.inflight_reg = @ + 1]
    BY <1>3 DEF do_execution
  <2> DEFINE new == core'
  <2>2. new = [core EXCEPT !.rob[Head(core.RT[list])].executed = "INFLIGHT", !.RT[list] = Tail(@),
                           !.inflight_reg = @ + 1]
    BY <2>1
  <2> HIDE DEF new
  <2>3. Good(new, head, tail, next_schedule, dtlb, l1d)
    BY <1>g, <2>1, <2>2, ExecutionStep
  <2> QED
    BY <1>n, <2>1, <2>3 DEF new
<1>4. ASSUME NEW i \in InRob, complete_execution(i) PROVE GoodNow'
  <2>1. core' = CompletionOf(core, i)
    BY <1>4, Zenon DEF complete_execution, CompletionOf
  <2>2. /\ Still /\ dtlb' = dtlb /\ l1d' = l1d /\ i \in head .. tail - 1
        /\ core.rob[i].executed = "INFLIGHT" /\ (is_memory(core.rob[i]) => core.rob[i].num_mem_ops = 0)
    BY <1>4 DEF complete_execution, CanComplete, InRob
  <2> DEFINE new == core'
  <2>3. new = CompletionOf(core, i)
    BY <2>1
  <2> HIDE DEF new
  <2>4. Good(new, head, tail, next_schedule, dtlb, l1d)
    BY <1>g, <2>2, <2>3, CompleteStep
  <2> QED
    BY <1>n, <2>2, <2>4 DEF new
<1>5. ASSUME schedule_memory_instruction PROVE GoodNow'
  <2>1. core' = memory_scheduled /\ Still /\ dtlb' = dtlb /\ l1d' = l1d
    BY <1>5 DEF schedule_memory_instruction
  <2>2. Good(memory_scheduled, head, tail, next_schedule, dtlb, l1d)
    BY MemoryScheduledStep
  <2> QED
    BY <1>n, <2>1, <2>2
<1>6. ASSUME NEW list, NEW queue, (list = "RTS0" /\ queue = "SQ") \/ (list = "RTL0" /\ queue = "LQ"),
             translate(list, queue) PROVE GoodNow'
  <2>1. /\ core.RT[list] # << >> /\ Still /\ l1d' = l1d /\ dtlb' = dtlb \cup {<<queue, Head(core.RT[list])>>}
        /\ core' = PoppedOf(core, list)
    BY <1>6 DEF translate, PoppedOf
  <2> DEFINE new == core'
  <2>2. new = PoppedOf(core, list)
    BY <2>1
  <2> HIDE DEF new
  <2>3. Good(new, head, tail, next_schedule, dtlb \cup {<<queue, Head(core.RT[list])>>}, l1d)
    BY <1>6, <1>g, <2>1, <2>2, TranslateStep
  <2> QED
    BY <1>n, <2>1, <2>3 DEF new
<1>7. ASSUME execute_store PROVE GoodNow'
  <2> DEFINE s == Head(core.RT["RTS1"])
             new == core'
  <2>1. /\ core.RT["RTS1"] # << >> /\ Still /\ l1d' = l1d /\ dtlb' = dtlb /\ ProducerMatches(core, s)
    BY <1>7 DEF execute_store
  <2>2. new = StoredOf(core, s)
    BY <1>7, Zenon DEF execute_store, StoredOf, FetchedOf, SlotsFrom
  <2>3. s = Head(core.RT["RTS1"])
    OBVIOUS
  <2> HIDE DEF s, new
  <2>4. Good(new, head, tail, next_schedule, dtlb, l1d)
    BY <1>g, <2>1, <2>2, <2>3, StoreStep
  <2> QED
    BY <1>n, <2>1, <2>4 DEF new
<1>8. ASSUME execute_load PROVE GoodNow'
  <2>1. /\ core.RT["RTL1"] # << >> /\ Still /\ dtlb' = dtlb /\ l1d' = l1d \cup {Head(core.RT["RTL1"])}
        /\ core' = PoppedOf(core, "RTL1")
    BY <1>8 DEF execute_load, PoppedOf
  <2> DEFINE new == core'
  <2>2. new = PoppedOf(core, "RTL1")
    BY <2>1
  <2> HIDE DEF new
  <2>3. Good(new, head, tail, next_schedule, dtlb, l1d \cup {Head(core.RT["RTL1"])})
    BY <1>g, <2>1, <2>2, LoadStep
  <2> QED
    BY <1>n, <2>1, <2>3 DEF new
<1>9. ASSUME NEW G \in SUBSET dtlb, NEW p \in G, complete_translation(p, G) PROVE GoodNow'
  <2>1. Still /\ l1d' = l1d /\ dtlb' = dtlb \ G /\ core' = TranslatedOf(core, p, G)
    BY <1>9 DEF complete_translation, TranslatedOf, Answered
  <2> DEFINE new == core'
  <2>2. new = TranslatedOf(core, p, G)
    BY <2>1
  <2> HIDE DEF new
  <2>3. Good(new, head, tail, next_schedule, dtlb \ G, l1d)
    BY <1>g, <2>2, TranslationStep
  <2> QED
    BY <1>n, <2>1, <2>3 DEF new
<1>10. ASSUME NEW L \in SUBSET l1d, complete_read(L) PROVE GoodNow'
  <2>1. Still /\ dtlb' = dtlb /\ l1d' = l1d \ L /\ core' = release_load_queue(core, L, 0)
    BY <1>10 DEF complete_read
  <2> DEFINE new == core'
  <2>2. new = release_load_queue(core, L, 0)
    BY <2>1
  <2> HIDE DEF new
  <2>3. Good(new, head, tail, next_schedule, dtlb, l1d \ L)
    BY <1>g, <2>2, ReadStep
  <2> QED
    BY <1>n, <2>1, <2>3 DEF new
<1>11. ASSUME retire_rob PROVE GoodNow'
  <2>1. /\ head < tail /\ Done(core.rob[head]) /\ head' = head + 1 /\ tail' = tail /\ next_schedule' = next_schedule
        /\ dtlb' = dtlb /\ l1d' = l1d
    BY <1>11 DEF retire_rob, CanRetire, Done
  <2> DEFINE new == core'
  <2>2. new = RetiredOf(core, head)
    BY <1>11, Zenon DEF retire_rob, RetiredOf
  <2> HIDE DEF new
  <2>3. Good(new, head + 1, tail, next_schedule, dtlb, l1d)
    BY <1>g, <2>1, <2>2, RetireStep
  <2> QED
    BY <1>n, <2>1, <2>3 DEF new
<1>12. ASSUME UNCHANGED vars PROVE GoodNow'
  BY <1>12, <1>g, <1>n DEF vars
<1> QED
  BY <1>1, <1>2, <1>3, <1>4, <1>5, <1>6, <1>7, <1>8, <1>9, <1>10, <1>11, <1>12 DEF Next, Backend, Finished, Aborted

LEMMA AlwaysGood == Spec => []GoodNow
  BY InitGood, NextGood, PTL DEF Spec

-------------------------------------------------------------------------------
(* What the invariant says of the states of Spec *)

LEMMA NowIs ==
  ASSUME GoodNow
  PROVE  /\ IsCore(core) /\ Typed(core) /\ Win(head, tail, next_schedule)
         /\ EntriesOK(core.rob, head, tail, next_schedule)
         /\ RegInv(core.rob, core.RT, head, next_schedule)
         /\ LoadInv(core.rob, core.LQ, core.SQ, head, next_schedule)
         /\ StoreInv(core, head, tail, next_schedule) /\ CountInv(core, head, tail) /\ PlacesOK(core, dtlb, l1d)
         /\ Window(head, tail, next_schedule) /\ dtlb \subseteq {"LQ", "SQ"} \X Nat /\ l1d \subseteq LqSlot
BY GoodIs DEF GoodNow, Good

(* num_mem_ops, and the two counters that update_rob tests before it looks  *)
(* for executions to complete, count what is outstanding: no completion of  *)
(* release_load_queue is counted twice or forgotten.                        *)
THEOREM CountersExact == Spec => []OutstandingOps
<1>1. ASSUME GoodNow PROVE OutstandingOps
  <2>1. CountInv(core, head, tail)
    BY <1>1, NowIs
  <2> QED
    BY <2>1 DEF OutstandingOps, CountInv, OpsOK, MemInflight, RegInflight, InRob, LoadsOf, StoresOf, Done
<1> QED
  BY <1>1, AlwaysGood, PTL

(* A load that add_load_queue put into the queue waits for the nearest      *)
(* older store of its address, or for none because the ROB holds none.      *)
THEOREM ProducerIsNearest == Spec => []NearestProducer
<1>1. ASSUME GoodNow, NEW l \in LqSlot, core.LQ[l].addr # 0,
             NEW P, P = {p \in Older(core.LQ[l].id) : core.LQ[l].addr \in Range(core.rob[p].ins.dst)}
      PROVE  IF P = {} THEN core.LQ[l].producer_id = 0 ELSE core.LQ[l].producer_id = youngest(P)
  <2> DEFINE i == core.LQ[l].id
             a == core.LQ[l].addr
             p == core.LQ[l].producer_id
  <2>g. /\ LoadInv(core.rob, core.LQ, core.SQ, head, next_schedule) /\ Win(head, tail, next_schedule)
    BY <1>1, NowIs
  <2>w. head \in Nat \ {0} /\ next_schedule \in Nat
    BY <2>g DEF Win
  <2>1. i \in head .. next_schedule - 1
    BY Zenon, <2>g, <1>1 DEF LoadInv, LoadsOK
  <2>2. IF p = 0 THEN \A q \in head .. i - 1 : a \notin Range(core.rob[q].ins.dst)
        ELSE NearestStore(core.rob, head, i, a, p)
    BY Zenon, <2>g, <1>1 DEF LoadInv, ProducersOK
  <2>3. P = {q \in head .. i - 1 : a \in Range(core.rob[q].ins.dst)}
    BY <1>1 DEF Older
  <2> HIDE DEF i, a, p
  <2>4. CASE p = 0
    <3>1. P = {}
      BY <2>2, <2>3, <2>4
    <3> QED
      BY <2>4, <3>1 DEF p
  <2>5. CASE p # 0
    <3>1. p \in P /\ \A q \in p + 1 .. i - 1 : q \notin P
      BY <2>2, <2>3, <2>5 DEF NearestStore
    <3>2. i \in Int /\ head \in Int /\ i - 1 \in Int /\ P \in SUBSET (head .. i - 1)
      BY <2>1, <2>3, <2>w
    <3>3. youngest(P) \in P /\ \A k \in P : k <= youngest(P)
      BY <3>1, <3>2, YoungestIs
    <3>4. youngest(P) = p
      <4> DEFINE y == youngest(P)
      <4>1. y \in head .. i - 1 /\ p \in head .. i - 1 /\ p <= y /\ y \notin p + 1 .. i - 1
        BY <3>1, <3>2, <3>3
      <4> HIDE DEF y
      <4>2. y = p
        BY <4>1, <3>2
      <4> QED
        BY <4>2 DEF y
    <3> QED
      BY <3>1, <3>4 DEF p
  <2> QED
    BY <2>4, <2>5
<1>2. ASSUME GoodNow PROVE NearestProducer
  <2> SUFFICES ASSUME NEW l \in LqSlot, core.LQ[l].addr # 0
               PROVE  LET i == core.LQ[l].id
                          P == {p \in Older(i) : core.LQ[l].addr \in Range(core.rob[p].ins.dst)}
                      IN  IF P = {} THEN core.LQ[l].producer_id = 0 ELSE core.LQ[l].producer_id = youngest(P)
    BY DEF NearestProducer
  <2> DEFINE P == {p \in Older(core.LQ[l].id) : core.LQ[l].addr \in Range(core.rob[p].ins.dst)}
  <2> HIDE DEF P
  <2>1. IF P = {} THEN core.LQ[l].producer_id = 0 ELSE core.LQ[l].producer_id = youngest(P)
    BY <1>1, <1>2 DEF P
  <2> QED
    BY <2>1 DEF P
<1> QED
  BY <1>2, AlwaysGood, PTL

(* An instruction has started, or has entered a queue, only when the        *)
(* nearest older writer of each of its source registers has executed,       *)
(* although reg_RAW_dependency passes over the writers that have.           *)
THEOREM SourcesReady == Spec => []RegistersReady
<1>1. ASSUME GoodNow, NEW i \in InRob,
             core.rob[i].executed # "NO" \/ core.rob[i].source_added # {} \/ core.rob[i].destination_added # {},
             NEW j \in DOMAIN core.rob[i].ins.rsrc, NEW W,
             W = {p \in Older(i) : core.rob[i].ins.rsrc[j] \in core.rob[p].ins.rdst}, W # {}
      PROVE  core.rob[youngest(W)].executed = "COMPLETED"
  <2> DEFINE e == core.rob[i]
             w == youngest(W)
  <2>g. /\ Typed(core) /\ Win(head, tail, next_schedule) /\ EntriesOK(core.rob, head, tail, next_schedule)
        /\ RegInv(core.rob, core.RT, head, next_schedule)
    BY <1>1, NowIs
  <2>w. /\ head \in Nat \ {0} /\ next_schedule \in Nat /\ tail \in Nat /\ i \in Id /\ i \in Int /\ i - 1 \in Int
    BY <2>g, <1>1 DEF Win, InRob
  <2>1. i \in head .. next_schedule - 1
    <3>1. i \notin head .. next_schedule - 1 => e = Entry(e.ins)
      BY <2>g, <2>w DEF EntriesOK
    <3>2. Entry(e.ins).executed = "NO" /\ Entry(e.ins).source_added = {} /\ Entry(e.ins).destination_added = {}
      BY EntryFields
    <3> QED
      BY <1>1, <3>1, <3>2
  <2>2. e.num_reg_dependent = 0 /\ e.num_reg_dependent = Cardinality(Pending(core.rob, head, i))
    BY <2>g, <2>1, <1>1 DEF RegInv, CountsOK
  <2>3. Pending(core.rob, head, i) = {}
    <3>1. e.ins.rsrc \in Seq(Nat)
      <4>1. e \in Row
        BY <2>g, <2>w DEF Typed
      <4> HIDE DEF e
      <4> QED
        BY <4>1, RowIs
    <3>2. IsFiniteSet(DOMAIN e.ins.rsrc)
      BY <3>1, SeqCount
    <3>3. Pending(core.rob, head, i) \in SUBSET DOMAIN e.ins.rsrc
      BY DEF Pending
    <3>4. IsFiniteSet(Pending(core.rob, head, i))
      BY <3>2, <3>3, FS_Subset
    <3> QED
      BY <2>2, <3>4, FS_EmptySet
  <2>4. w \in W /\ (\A k \in W : k <= w) /\ W \in SUBSET (head .. i - 1)
    <3>1. W \in SUBSET (head .. i - 1)
      BY <1>1 DEF Older
    <3>2. head \in Int /\ i - 1 \in Int /\ W # {}
      BY <2>w, <1>1
    <3>3. youngest(W) \in W /\ \A k \in W : k <= youngest(W)
      BY <3>1, <3>2, YoungestIs
    <3> QED
      BY <3>1, <3>3
  <2> HIDE DEF w
  <2>5. w \in head .. i - 1 /\ e.ins.rsrc[j] \in core.rob[w].ins.rdst
        /\ \A q \in w + 1 .. i - 1 : e.ins.rsrc[j] \notin core.rob[q].ins.rdst
    <3>1. w \in head .. i - 1 /\ e.ins.rsrc[j] \in core.rob[w].ins.rdst
      BY <2>4, <1>1
    <3>2. ASSUME NEW q \in w + 1 .. i - 1, e.ins.rsrc[j] \in core.rob[q].ins.rdst PROVE FALSE
      <4>1. q \in head .. i - 1 /\ ~(q <= w)
        BY <3>1, <2>w
      <4>2. q \in W
        BY <4>1, <3>2, <1>1 DEF Older
      <4> QED
        BY <4>1, <4>2, <2>4
    <3> QED
      BY <3>1, <3>2
  <2>6. Done(core.rob[w]) \/ <<i, j>> \in core.rob[w].reg_depend_on_me
    BY Zenon, <2>g, <2>1, <2>5, <1>1 DEF RegInv, WritersOK
  <2>7. Done(core.rob[w])
    BY <2>3, <2>5, <2>6, <1>1 DEF Pending
  <2> QED
    BY <2>7 DEF Done, w
<1>2. ASSUME GoodNow PROVE RegistersReady
  <2> SUFFICES ASSUME NEW i \in InRob,
                      core.rob[i].executed # "NO" \/ core.rob[i].source_added # {} \/ core.rob[i].destination_added # {},
                      NEW j \in DOMAIN core.rob[i].ins.rsrc
               PROVE  LET W == {p \in Older(i) : core.rob[i].ins.rsrc[j] \in core.rob[p].ins.rdst}
                      IN  W # {} => core.rob[youngest(W)].executed = "COMPLETED"
    BY DEF RegistersReady
  <2> DEFINE W == {p \in Older(i) : core.rob[i].ins.rsrc[j] \in core.rob[p].ins.rdst}
  <2> HIDE DEF W
  <2>1. W # {} => core.rob[youngest(W)].executed = "COMPLETED"
    BY <1>1, <1>2 DEF W
  <2> QED
    BY <2>1 DEF W
<1> QED
  BY <1>2, AlwaysGood, PTL

(* The store queue is a ring in program order: add_store_queue finds its    *)
(* tail empty, and retire_rob takes the stores of the oldest instruction    *)
(* from its head.                                                           *)
THEOREM RingInOrder == Spec => []StoresInOrder
<1> DEFINE n == core.SQ_occupancy
           b == core.SQ[at(core, 0)].id
<1>1. ASSUME GoodNow, n > 0, NEW i \in InRob, i < b PROVE core.rob[i].ins.dst = << >>
  <2> SUFFICES ASSUME core.rob[i].ins.dst # << >> PROVE FALSE
    OBVIOUS
  <2>g. /\ Typed(core) /\ Win(head, tail, next_schedule) /\ RingOK(core)
        /\ StoresOK(core.rob, core.SQ, head, next_schedule) /\ OrderOK(core, head, tail)
    BY <1>1, NowIs DEF StoreInv
  <2>w. /\ head \in Nat \ {0} /\ next_schedule \in Nat /\ tail \in Nat /\ i \in Id /\ i \in Int
        /\ head .. tail - 1 \subseteq Id
    BY <2>g, <1>1 DEF Win, InRob
  <2>1. core.rob[i].ins.dst \in Seq(Addr) /\ core.rob[i] \in Row
    <3>1. core.rob[i] \in Row
      BY <2>g, <2>w DEF Typed
    <3> QED
      BY <3>1, RowIs
  <2>2. 1 \in DOMAIN core.rob[i].ins.dst /\ core.rob[i].ins.dst[1] # 0
    <3>1. 1 \in DOMAIN core.rob[i].ins.dst /\ core.rob[i].ins.dst[1] \in Addr
      BY <2>1
    <3> QED
      BY <3>1, AddrAssumption
  <2>3. n \in Nat /\ SQ_SIZE \in Nat \ {0} /\ n <= SQ_SIZE /\ core.SQ_head \in SqSlot
        /\ \A k \in 0 .. SQ_SIZE - 1 : core.SQ[at(core, k)].addr # 0 <=> k < n
    BY <2>g, Sizes DEF RingOK, Typed
  <2>4. b \in Int /\ b \in head .. next_schedule - 1
    <3>1. at(core, 0) \in SqSlot /\ 0 \in 0 .. SQ_SIZE - 1
      BY <2>3, AtSlot
    <3>2. core.SQ[at(core, 0)].addr # 0
      BY <1>1, <2>3, <3>1
    <3>3. b \in head .. next_schedule - 1
      BY Zenon, <2>g, <3>1, <3>2 DEF StoresOK
    <3> QED
      BY <3>3, <2>w
  <2>5. CASE 1 \in core.rob[i].destination_added
    <3> DEFINE s == core.rob[i].sq_index[1]
    <3>1. i \in head .. next_schedule - 1
      BY <2>4, <1>1, <2>w DEF InRob
    <3>2. s \in SqSlot /\ core.SQ[s].id = i /\ core.SQ[s].addr # 0
      BY Zenon, <2>g, <2>2, <2>5, <3>1 DEF StoresOK
    <3> HIDE DEF s
    <3>3. PICK k \in 0 .. SQ_SIZE - 1 : at(core, k) = s
      BY <2>3, <3>2, AtAll
    <3>4. k < n
      BY <2>3, <3>2, <3>3
    <3>5. 0 \in 0 .. n - 1 /\ k \in 0 .. n - 1 /\ 0 <= k
      BY <2>3, <3>4, <1>1
    <3>6. b <= i
      BY <2>g, <3>2, <3>3, <3>5 DEF OrderOK
    <3> QED
      BY <1>1, <2>4, <2>w, <3>6
  <2>6. CASE 1 \notin core.rob[i].destination_added
    <3> DEFINE B == {k \in DOMAIN core.STA : core.STA[k] = i}
               L == DOMAIN core.rob[i].ins.dst \ core.rob[i].destination_added
    <3>1. Cardinality(B) = Cardinality(L)
      BY <2>g, <1>1 DEF OrderOK, InRob
    <3>2. IsFiniteSet(L) /\ L # {}
      <4>1. L = LeftTo(core.rob[i])
        BY DEF LeftTo
      <4>2. IsFiniteSet(LeftTo(core.rob[i]))
        BY <2>1, TermsFinite
      <4> QED
        BY <4>1, <4>2, <2>2, <2>6
    <3>3. B # {}
      <4> HIDE DEF L
      <4>1. Cardinality(L) # 0
        BY <3>2, FS_EmptySet
      <4>2. Cardinality({}) = 0
        BY FS_EmptySet
      <4> QED
        BY <3>1, <4>1, <4>2
    <3>4. PICK k \in DOMAIN core.STA : core.STA[k] = i
      BY <3>3
    <3>5. 0 \in 0 .. n - 1
      BY <2>3, <1>1
    <3>6. b <= i
      BY <2>g, <3>4, <3>5 DEF OrderOK
    <3> QED
      BY <1>1, <2>4, <2>w, <3>6
  <2> QED
    BY <2>5, <2>6
<1>2. ASSUME GoodNow PROVE /\ core.SQ_tail = at(core, n)
                           /\ \A k \in 0 .. SQ_SIZE - 1 : core.SQ[at(core, k)].addr # 0 <=> k < n
                           /\ \A k \in 1 .. n - 1 : core.SQ[at(core, k - 1)].id <= core.SQ[at(core, k)].id
  <2>g. RingOK(core) /\ OrderOK(core, head, tail)
    BY <1>2, NowIs DEF StoreInv
  <2>1. core.SQ_tail = at(core, n) /\ n \in Nat /\ \A k \in 0 .. SQ_SIZE - 1 : core.SQ[at(core, k)].addr # 0 <=> k < n
    BY <2>g, Sizes DEF RingOK
  <2>2. ASSUME NEW k \in 1 .. n - 1 PROVE core.SQ[at(core, k - 1)].id <= core.SQ[at(core, k)].id
    <3>1. k - 1 \in 0 .. n - 1 /\ k \in 0 .. n - 1 /\ k - 1 <= k
      BY <2>1
    <3> QED
      BY <2>g, <3>1 DEF OrderOK
  <2> QED
    BY <2>1, <2>2
<1>3. ASSUME GoodNow PROVE StoresInOrder
  BY Zenon, <1>1, <1>2, <1>3 DEF StoresInOrder, at
<1> QED
  BY <1>3, AlwaysGood, PTL

-------------------------------------------------------------------------------
(* Types *)

LEMMA EntryTyped ==
  ASSUME NEW e \in Row, e.num_reg_dependent \in Nat, e.num_mem_ops \in Nat
  PROVE  e \in ROBEntry
<1> DEFINE F1 == Instr \cup {NoInstr}
           F2 == BOOLEAN
           F3 == SUBSET Nat
           F4 == Seq(0 .. LQ_SIZE)
           F5 == Seq(0 .. SQ_SIZE)
           F6 == SUBSET (Id \X Nat)
           F7 == SUBSET Id
           F8 == Status
           T == [ins : F1, reg_ready : F2, num_reg_dependent : Nat, scheduled : F8, executed : F8,
                 num_mem_ops : Nat, source_added : F3, destination_added : F3, lq_index : F4, sq_index : F5,
                 reg_depend_on_me : F6, mem_depend_on_me : F7]
<1>1. T = ROBEntry
  BY DEF ROBEntry
<1>2. /\ e.ins \in F1 /\ e.reg_ready \in F2
      /\ e.scheduled \in F8 /\ e.executed \in F8
      /\ e.source_added \in F3 /\ e.destination_added \in F3 /\ e.lq_index \in F4 /\ e.sq_index \in F5
      /\ e.reg_depend_on_me \in F6 /\ e.mem_depend_on_me \in F7
  BY RowIff, Zenon DEF RowTyped
<1>3. IsRow(e)
  BY RowIff
<1> HIDE DEF F1, F2, F3, F4, F5, F6, F7, F8
<1>4. e \in T
  BY <1>2, <1>3 DEF IsRow, RowNames
<1> QED
  BY <1>1, <1>4

LEMMA CoreTyped ==
  ASSUME NEW c \in Shape, c.rob \in [Id -> ROBEntry], c.LQ_occupancy \in 0 .. LQ_SIZE,
         c.SQ_occupancy \in 0 .. SQ_SIZE, c.inflight_reg \in Nat, c.inflight_mem \in Nat
  PROVE  c \in Core
<1> DEFINE F1 == [Id -> ROBEntry]
           F2 == [LqSlot -> [id : Id \cup {0}, addr : Addr \cup {0}, producer_id : Id \cup {0}]]
           F3 == [SqSlot -> [id : Id \cup {0}, addr : Addr \cup {0}, fetched : BOOLEAN]]
           F4 == SqSlot
           F5 == Seq(Id)
           F6 == [Lists -> Seq(Nat)]
           F7 == 0 .. LQ_SIZE
           F8 == 0 .. SQ_SIZE
           T == [rob : F1, LQ : F2, LQ_occupancy : F7, SQ : F3, SQ_occupancy : F8, SQ_head : F4,
                 SQ_tail : F4, STA : F5, RT : F6, inflight_reg : Nat, inflight_mem : Nat]
<1>1. T = Core
  BY DEF Core
<1>2. IsCore(c) /\ Typed(c)
  BY ShapeIff
<1>3. /\ c.rob \in F1 /\ c.LQ \in F2 /\ c.LQ_occupancy \in F7
      /\ c.SQ \in F3 /\ c.SQ_occupancy \in F8 /\ c.SQ_head \in F4 /\ c.SQ_tail \in F4
      /\ c.STA \in F5 /\ c.RT \in F6
  BY <1>2, Zenon DEF Typed, Loads, Stores
<1> HIDE DEF F1, F2, F3, F4, F5, F6, F7, F8
<1>4. c \in T
  BY <1>2, <1>3 DEF IsCore, Names
<1> QED
  BY <1>1, <1>4

(* The state keeps its shape, and the counters that the code decrements,    *)
(* with an assertion after each decrement, do not become negative; the      *)
(* queues never hold more than they have room for.                          *)
THEOREM LsqTypeCorrect == Spec => []TypeOK
<1>1. ASSUME GoodNow PROVE TypeOK
  <2>g. /\ IsCore(core) /\ Typed(core) /\ Win(head, tail, next_schedule)
        /\ EntriesOK(core.rob, head, tail, next_schedule)
        /\ RegInv(core.rob, core.RT, head, next_schedule)
        /\ StoreInv(core, head, tail, next_schedule) /\ CountInv(core, head, tail)
        /\ Window(head, tail, next_schedule) /\ dtlb \subseteq {"LQ", "SQ"} \X Nat /\ l1d \subseteq LqSlot
    BY <1>1, NowIs
  <2>w. /\ head \in Nat \ {0} /\ next_schedule \in Nat /\ tail \in Nat /\ head <= next_schedule
        /\ next_schedule <= tail /\ head .. next_schedule - 1 \subseteq head .. tail - 1
    BY <2>g DEF Win
  <2>1. ASSUME NEW i \in Id PROVE core.rob[i] \in ROBEntry
    <3> DEFINE e == core.rob[i]
    <3>1. e \in Row
      BY <2>g DEF Typed
    <3>2. e.num_reg_dependent \in Nat
      <4>1. CASE i \in head .. next_schedule - 1
        <5>1. e.num_reg_dependent = Cardinality(Pending(core.rob, head, i))
          BY <2>g, <4>1 DEF RegInv, CountsOK
        <5>2. e.ins.rsrc \in Seq(Nat)
          <6> HIDE DEF e
          <6> QED
            BY <3>1, RowIs
        <5>3. IsFiniteSet(DOMAIN e.ins.rsrc)
          BY <5>2, SeqCount
        <5>4. Pending(core.rob, head, i) \in SUBSET DOMAIN e.ins.rsrc
          BY DEF Pending
        <5>5. IsFiniteSet(Pending(core.rob, head, i))
          BY <5>3, <5>4, FS_Subset
        <5> QED
          BY <5>1, <5>5, FS_CardinalityType
      <4>2. CASE i \notin head .. next_schedule - 1
        <5>1. e = Entry(e.ins)
          BY <2>g, <4>2 DEF EntriesOK
        <5>2. Entry(e.ins).num_reg_dependent = 0
          BY DEF Entry
        <5> QED
          BY <5>1, <5>2
      <4> QED
        BY <4>1, <4>2
    <3>3. e.num_mem_ops \in Nat
      <4>1. CASE i \in head .. tail - 1
        <5>1. e.num_mem_ops = OpsOf(e, core.LQ, core.SQ, i)
          BY <2>g, <4>1, OpsIs DEF CountInv
        <5> HIDE DEF e
        <5>2. /\ Cardinality(LeftOf(e)) \in Nat /\ Cardinality(LeftTo(e)) \in Nat
              /\ Cardinality(LoadsOf(core.LQ, i)) \in Nat /\ Cardinality(StoresOf(core.SQ, i)) \in Nat
          BY <3>1, TermsFinite
        <5> QED
          BY <5>1, <5>2 DEF OpsOf
      <4>2. CASE i \notin head .. tail - 1
        <5>1. e = Entry(NoInstr)
          BY <2>g, <2>w, <4>2 DEF EntriesOK
        <5>2. Entry(NoInstr).num_mem_ops = Len(NoInstr.src) + Len(NoInstr.dst)
          BY EntryFields
        <5>3. Len(NoInstr.src) = 0 /\ Len(NoInstr.dst) = 0
          BY DEF NoInstr
        <5> QED
          BY <5>1, <5>2, <5>3
      <4> QED
        BY <4>1, <4>2
    <3> HIDE DEF e
    <3>4. e \in ROBEntry
      BY <3>1, <3>2, <3>3, EntryTyped
    <3> QED
      BY <3>4 DEF e
  <2>2. core.rob \in [Id -> ROBEntry]
    <3>1. core.rob \in [Id -> Row]
      BY <2>g DEF Typed
    <3> QED
      BY <2>1, <3>1
  <2>3. core.LQ_occupancy \in 0 .. LQ_SIZE
    <3>1. core.LQ_occupancy = Cardinality(UsedLoads(core.LQ))
      BY <2>g DEF CountInv
    <3>2. UsedLoads(core.LQ) \in SUBSET LqSlot
      BY DEF UsedLoads
    <3>3. /\ Cardinality(UsedLoads(core.LQ)) \in Nat /\ Cardinality(UsedLoads(core.LQ)) <= LQ_SIZE
      BY <3>2, SlotsFinite, FS_Subset, FS_CardinalityType
    <3> QED
      BY <3>1, <3>3, Sizes
  <2>4. core.SQ_occupancy \in 0 .. SQ_SIZE
    BY <2>g DEF StoreInv, RingOK
  <2>5. core.inflight_reg \in Nat /\ core.inflight_mem \in Nat
    <3>1. MemInflight(core.rob, head, tail) \in SUBSET (head .. tail - 1)
      BY DEF MemInflight
    <3>2. RegInflight(core.rob, head, tail) \in SUBSET (head .. tail - 1)
      BY DEF RegInflight
    <3>3. Cardinality(MemInflight(core.rob, head, tail)) \in Nat /\ Cardinality(RegInflight(core.rob, head, tail)) \in Nat
      BY <2>w, <3>1, <3>2, InRobFinite
    <3> QED
      BY <2>g, <3>3 DEF CountInv
  <2>6. core \in Core
    <3>1. core \in Shape
      BY <2>g, ShapeIff
    <3> QED
      BY <2>2, <2>3, <2>4, <2>5, <3>1, CoreTyped
  <2>7. head \in 1 .. tail /\ tail \in 1 .. MaxInstr + 1 /\ next_schedule \in head .. tail
    BY <2>g DEF Window
  <2> QED
    BY <2>g, <2>6, <2>7 DEF TypeOK
<1> QED
  BY <1>1, AlwaysGood, PTL

-------------------------------------------------------------------------------
(* Where the slots are *)

(* An instruction stores to an address once: the tracer lists every         *)
(* destination address of an instruction one time.                          *)
StoresOnce == \A ins \in Instr : \A j, k \in DOMAIN ins.dst : ins.dst[j] = ins.dst[k] => j = k

LEMMA TimesIs ==
  ASSUME NEW r, core.RT[r] \in Seq(Nat), Distinct(core.RT[r]), NEW s
  PROVE  Times(r, s) = One(s \in Elements(core.RT[r]))
<1> DEFINE D == DOMAIN core.RT[r]
           K == {k \in D : core.RT[r][k] = s}
<1>1. Times(r, s) = Cardinality(K)
  BY DEF Times
<1>2. CASE s \in Elements(core.RT[r])
  <2>1. PICK k \in D : core.RT[r][k] = s
    BY <1>2 DEF Elements
  <2>2. K = {k}
    BY <2>1 DEF Distinct
  <2>3. Cardinality({k}) = 1
    BY FS_Singleton
  <2> QED
    BY <1>1, <1>2, <2>2, <2>3 DEF One
<1>3. CASE s \notin Elements(core.RT[r])
  <2>1. K = {}
    BY <1>3 DEF Elements
  <2>2. Cardinality({}) = 0
    BY FS_EmptySet
  <2> QED
    BY <1>1, <1>3, <2>1, <2>2 DEF One
<1> QED
  BY <1>2, <1>3

LEMMA TranslatingIs ==
  ASSUME NEW d, d \subseteq {"LQ", "SQ"} \X Nat, NEW q \in {"LQ", "SQ"}, NEW s
  PROVE  <<q, s>> \in d <=> s \in Translating(d, q)
<1>1. ASSUME s \in Translating(d, q) PROVE <<q, s>> \in d
  <2>1. PICK x \in d : x[1] = q /\ x[2] = s
    BY <1>1 DEF Translating
  <2>2. x = <<q, s>>
    BY <2>1
  <2> QED
    BY <2>1, <2>2
<1>2. ASSUME <<q, s>> \in d PROVE s \in Translating(d, q)
  <2>1. <<q, s>>[1] = q /\ <<q, s>>[2] = s
    OBVIOUS
  <2> QED
    BY <1>2, <2>1 DEF Translating
<1> QED
  BY <1>1, <1>2

(* A load waits for its producer exactly when it has one. *)
LEMMA WaitsIsProducer ==
  ASSUME StoresOnce, GoodNow, NEW l \in LqSlot, core.LQ[l].addr # 0
  PROVE  WaitsForStore(l) <=> core.LQ[l].producer_id # 0
<1> DEFINE i == core.LQ[l].id
           a == core.LQ[l].addr
           p == core.LQ[l].producer_id
<1>g. /\ Typed(core) /\ Win(head, tail, next_schedule) /\ LoadInv(core.rob, core.LQ, core.SQ, head, next_schedule)
      /\ StoresOK(core.rob, core.SQ, head, next_schedule)
  BY NowIs DEF StoreInv
<1>w. /\ head \in Nat \ {0} /\ next_schedule \in Nat /\ tail \in Nat /\ next_schedule <= tail
      /\ head .. tail - 1 \subseteq Id
  BY <1>g DEF Win
<1>1. ASSUME p = 0 PROVE ~WaitsForStore(l)
  <2>1. p \notin InRob
    BY <1>1, <1>w DEF InRob
  <2> QED
    BY <2>1 DEF WaitsForStore
<1>2. ASSUME p # 0 PROVE WaitsForStore(l)
  <2>1. /\ p \in head .. i - 1 /\ i \in core.rob[p].mem_depend_on_me
        /\ \E j \in DOMAIN core.rob[p].ins.dst : core.rob[p].ins.dst[j] = a /\ Unwritten(core.rob[p], core.SQ, j)
    BY Zenon, <1>g, <1>2 DEF LoadInv, ProducersOK, NearestStore
  <2>2. i \in head .. next_schedule - 1
    BY Zenon, <1>g DEF LoadInv, LoadsOK
  <2>3. p \in InRob /\ p \in head .. next_schedule - 1 /\ p \in Id
    BY <2>1, <2>2, <1>w DEF InRob
  <2>4. PICK j \in DOMAIN core.rob[p].ins.dst : core.rob[p].ins.dst[j] = a /\ Unwritten(core.rob[p], core.SQ, j)
    BY <2>1
  <2>5. ASSUME NEW s \in SqSlot, core.SQ[s] = [id |-> p, addr |-> a, fetched |-> TRUE] PROVE FALSE
    <3>1. core.SQ[s].id = p /\ core.SQ[s].addr = a /\ core.SQ[s].fetched = TRUE
      BY <2>5
    <3>2. PICK k \in core.rob[p].destination_added : core.rob[p].sq_index[k] = s
      BY <1>g, <3>1 DEF StoresOK
    <3>3. core.rob[p].ins.dst[k] = a
      <4>1. core.SQ[core.rob[p].sq_index[k]].addr = core.rob[p].ins.dst[k]
        BY SMTT(30), <1>g, <2>3, <3>2, StoreEntry
      <4> QED
        BY Zenon, <3>1, <3>2, <4>1
    <3>4. k \in DOMAIN core.rob[p].ins.dst
      <4>1. EntriesOK(core.rob, head, tail, next_schedule)
        BY NowIs
      <4> QED
        BY Zenon, <4>1, <2>3, <3>2 DEF EntriesOK
    <3>5. k = j
      <4>1. core.rob[p] \in Row
        BY <1>g, <2>3 DEF Typed
      <4>2. core.rob[p].ins \in Instr \cup {NoInstr}
        BY Zenon, <4>1, RowIs
      <4>3. core.rob[p].ins # NoInstr
        <5>1. DOMAIN NoInstr.dst = {}
          BY DEF NoInstr
        <5> QED
          BY Zenon, <2>4, <5>1
      <4> QED
        BY Zenon, <4>2, <4>3, <2>4, <3>3, <3>4 DEF StoresOnce
    <3> QED
      BY Zenon, <2>4, <3>1, <3>2, <3>5 DEF Unwritten
  <2> HIDE DEF i, a, p
  <2>6. \A s \in SqSlot : core.SQ[s] # [id |-> p, addr |-> a, fetched |-> TRUE]
    BY <2>5
  <2> QED
    BY <2>1, <2>3, <2>6 DEF WaitsForStore, i, a, p
<1> QED
  BY <1>1, <1>2

(* If an instruction stores to an address once, every load and every store  *)
(* in its queue is in exactly one place that will move it, and an empty     *)
(* slot is nowhere: no slot is handled twice, and none is left behind for   *)
(* the load that takes it next.                                             *)
THEOREM OnePlace == StoresOnce => (Spec => []SlotsHaveOnePlace)
<1> SUFFICES ASSUME StoresOnce PROVE Spec => []SlotsHaveOnePlace
  OBVIOUS
<1> DEFINE L0 == Elements(core.RT["RTL0"])
           L1 == Elements(core.RT["RTL1"])
           L2 == Translating(dtlb, "LQ")
           S0 == Elements(core.RT["RTS0"])
           S1 == Elements(core.RT["RTS1"])
           S2 == Translating(dtlb, "SQ")
<1>1. ASSUME GoodNow
      PROVE  /\ \A x \in {"RTL0", "RTL1", "RTS0", "RTS1"} : \A s : Times(x, s) = One(s \in Elements(core.RT[x]))
             /\ \A s : <<"LQ", s>> \in dtlb <=> s \in L2
             /\ \A s : <<"SQ", s>> \in dtlb <=> s \in S2
  <2>g. Typed(core) /\ PlacesOK(core, dtlb, l1d) /\ dtlb \subseteq {"LQ", "SQ"} \X Nat
    BY <1>1, NowIs
  <2>1. ASSUME NEW x \in {"RTL0", "RTL1", "RTS0", "RTS1"} PROVE core.RT[x] \in Seq(Nat) /\ Distinct(core.RT[x])
    BY <2>g DEF Typed, PlacesOK, Lists
  <2> QED
    BY <2>g, <2>1, TimesIs, TranslatingIs
<1>2. ASSUME GoodNow, NEW l \in LqSlot
      PROVE  Times("RTL0", l) + Times("RTL1", l) + One(<<"LQ", l>> \in dtlb) + One(l \in l1d)
               + One(core.LQ[l].addr # 0 /\ WaitsForStore(l)) = One(core.LQ[l].addr # 0)
  <2>1. /\ L0 \cap L1 = {} /\ L0 \cap L2 = {} /\ L1 \cap L2 = {}
        /\ L0 \cap l1d = {} /\ L1 \cap l1d = {} /\ L2 \cap l1d = {}
        /\ l \in L0 \cup L1 \cup L2 \cup l1d <=> core.LQ[l].addr # 0 /\ core.LQ[l].producer_id = 0
    BY <1>2, NowIs DEF PlacesOK
  <2>2. core.LQ[l].addr # 0 => (WaitsForStore(l) <=> core.LQ[l].producer_id # 0)
    BY <1>2, WaitsIsProducer
  <2>3. /\ Times("RTL0", l) = One(l \in L0) /\ Times("RTL1", l) = One(l \in L1)
        /\ <<"LQ", l>> \in dtlb <=> l \in L2
    BY <1>1, <1>2
  <2> HIDE DEF L0, L1, L2
  <2> QED
    BY <2>1, <2>2, <2>3 DEF One
<1>3. ASSUME GoodNow, NEW s \in SqSlot
      PROVE  Times("RTS0", s) + Times("RTS1", s) + One(<<"SQ", s>> \in dtlb)
               = One(core.SQ[s].addr # 0 /\ ~core.SQ[s].fetched)
  <2>1. /\ S0 \cap S1 = {} /\ S0 \cap S2 = {} /\ S1 \cap S2 = {}
        /\ s \in S0 \cup S1 \cup S2 <=> core.SQ[s].addr # 0 /\ ~core.SQ[s].fetched
    BY <1>3, NowIs DEF PlacesOK
  <2>2. /\ Times("RTS0", s) = One(s \in S0) /\ Times("RTS1", s) = One(s \in S1)
        /\ <<"SQ", s>> \in dtlb <=> s \in S2
    BY <1>1, <1>3
  <2> HIDE DEF S0, S1, S2
  <2> QED
    BY <2>1, <2>2 DEF One
<1>4. ASSUME GoodNow PROVE SlotsHaveOnePlace
  <2>1. core.LQ_occupancy = Cardinality({l \in LqSlot : core.LQ[l].addr # 0})
    BY <1>4, NowIs DEF CountInv, UsedLoads
  <2> QED
    BY <1>2, <1>3, <1>4, <2>1 DEF SlotsHaveOnePlace
<1> QED
  BY <1>4, AlwaysGood, PTL

(* The store of RTS1 of an instruction that stores once: each load that it  *)
(* forwards to waits for it in a slot of its own.                           *)
LEMMA MatchNow ==
  ASSUME GoodNow, NEW s \in Elements(core.RT["RTS1"]), Len(core.rob[core.SQ[s].id].ins.dst) = 1
  PROVE  ProducerMatches(core, s) /\ \A f \in Forwarded(core, s) : StillHolds(f, s)
<1> DEFINE P == core.SQ[s].id
           a == core.SQ[s].addr
<1>g. /\ Typed(core) /\ PlacesOK(core, dtlb, l1d) /\ StoresOK(core.rob, core.SQ, head, next_schedule)
      /\ EntriesOK(core.rob, head, tail, next_schedule) /\ Win(head, tail, next_schedule)
      /\ ForwardsOK(core.rob, core.LQ, core.SQ, head, next_schedule)
  BY NowIs DEF StoreInv, LoadInv
<1>s. s \in SqSlot /\ a # 0 /\ ~core.SQ[s].fetched
  BY <1>g DEF PlacesOK
<1>1. P \in head .. next_schedule - 1 /\ P \in Id
  BY Zenon, <1>g, <1>s DEF StoresOK, Win
<1>o. OneStore(core.rob[P])
  BY DEF OneStore
<1>2. PICK m \in core.rob[P].destination_added : core.rob[P].sq_index[m] = s
  BY Zenon, <1>g, <1>s DEF StoresOK
<1>3. core.rob[P].ins.dst[m] = a /\ m \in DOMAIN core.rob[P].ins.dst
  <2>1. core.SQ[core.rob[P].sq_index[m]].addr = core.rob[P].ins.dst[m]
    BY <1>1, <1>2, <1>g, StoreEntry
  <2>2. core.rob[P].destination_added \subseteq DOMAIN core.rob[P].ins.dst
    BY Zenon, <1>1, <1>g DEF EntriesOK
  <2> QED
    BY Zenon, <1>2, <2>1, <2>2
<1>4. Unwritten(core.rob[P], core.SQ, m)
  BY <1>2, <1>s DEF Unwritten
<1>5. ASSUME NEW f \in Forwarded(core, s)
      PROVE  /\ f[2] \in core.rob[f[1]].source_added /\ core.rob[f[1]].ins.src[f[2]] = a
             /\ Waiting(core.rob[f[1]], core.LQ, f[1], f[2], P)
  <2>1. /\ f[1] \in core.rob[P].mem_depend_on_me /\ f[2] \in core.rob[f[1]].source_added
        /\ core.rob[f[1]].ins.src[f[2]] = a
    BY Zenon, ForwardedHas
  <2> QED
    BY Zenon, <1>1, <1>3, <1>4, <1>g, <1>o, <2>1 DEF ForwardsOK
<1>6. ASSUME NEW f \in Forwarded(core, s)
      PROVE  /\ lq_slot(core, f) \in LqSlot
             /\ core.LQ[lq_slot(core, f)] = [id |-> f[1], addr |-> a, producer_id |-> P]
  BY Zenon, <1>5 DEF Waiting, lq_slot
<1>7. ASSUME NEW f \in Forwarded(core, s), NEW g \in Forwarded(core, s), lq_slot(core, f) = lq_slot(core, g)
      PROVE  f = g
  <2>1. f[1] = g[1]
    <3> DEFINE x == f[1]
               y == g[1]
    <3>1. [id |-> x, addr |-> a, producer_id |-> P] = [id |-> y, addr |-> a, producer_id |-> P]
      BY Zenon, <1>6, <1>7
    <3> HIDE DEF x, y, a, P
    <3>2. x = y
      BY <3>1
    <3> QED
      BY <3>2 DEF x, y
  <2>2. \A n \in core.rob[f[1]].source_added :
          core.rob[f[1]].lq_index[n] = core.rob[f[1]].lq_index[f[2]] /\ core.rob[f[1]].ins.src[n] = core.rob[f[1]].ins.src[f[2]]
            => n = f[2]
    BY Zenon, <1>5 DEF Waiting
  <2>3. /\ g[2] \in core.rob[f[1]].source_added /\ core.rob[f[1]].ins.src[g[2]] = core.rob[f[1]].ins.src[f[2]]
        /\ core.rob[f[1]].lq_index[g[2]] = core.rob[f[1]].lq_index[f[2]]
    BY Zenon, <1>5, <1>7, <2>1 DEF lq_slot
  <2>4. g[2] = f[2]
    BY Zenon, <2>2, <2>3
  <2> QED
    BY <2>1, <2>4, ForwardedPair
<1>8. ASSUME NEW f \in Forwarded(core, s)
      PROVE  /\ lq_slot(core, f) < LQ_SIZE /\ core.LQ[lq_slot(core, f)].producer_id = P
             /\ StillHolds(f, s)
  <2> DEFINE l == lq_slot(core, f)
  <2>1. l \in LqSlot /\ core.LQ[l] = [id |-> f[1], addr |-> a, producer_id |-> P]
    BY Zenon, <1>6
  <2>2. StillHolds(f, s)
    BY Zenon, <2>1 DEF StillHolds
  <2> HIDE DEF l, P, a
  <2>3. l < LQ_SIZE /\ core.LQ[l].producer_id = P
    BY <2>1, Sizes DEF LqSlot
  <2> QED
    BY <2>2, <2>3 DEF l
<1> QED
  BY Zenon, <1>7, <1>8 DEF ProducerMatches

(* What execute_store takes on trust, for every instruction that stores     *)
(* once, whatever the others do: from the lookup of the producer in         *)
(* add_load_queue to the execution of the store, each load that the store   *)
(* forwards to keeps its slot and waits in it for this store.  The          *)
(* assertion of execute_store does not fail and no other load is released.  *)
(* Instructions that store twice are left out because there it is false, as *)
(* the run lsq_two_stores shows.                                            *)
THEOREM ForwardsMatch == Spec => []ForwardsToWaiting
<1>1. ASSUME GoodNow PROVE ForwardsToWaiting
  BY <1>1, MatchNow DEF ForwardsToWaiting, Elements
<1> QED
  BY <1>1, AlwaysGood, PTL
===============================================================================
