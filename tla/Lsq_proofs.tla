------------------------------ MODULE Lsq_proofs ------------------------------
(***************************************************************************)
(* The back end for every size of its queues and every set of              *)
(* instructions.  Good(c, h, t, ns, d, r) is the invariant for the core c, *)
(* the ROB h .. t - 1 scheduled up to ns, the translations d and the reads *)
(* r.  It has the core as a parameter because schedule_memory_instruction  *)
(* passes through cores that are not states.                               *)
(***************************************************************************)
EXTENDS Lsq, Scan_proofs, FiniteSetTheorems

-------------------------------------------------------------------------------
(* The ROB *)

Window(h, t, ns) == h \in 1 .. t /\ t \in 1 .. MaxInstr + 1 /\ ns \in h .. t /\ t - h <= ROB_SIZE

(* Entries outside the ROB are empty; those not scheduled yet are as        *)
(* add_to_rob left them.                                                    *)
EntriesOK(rob, h, t, ns) ==
  \A i \in Id :
    LET e == rob[i]
    IN  /\ i \notin h .. t - 1 => e.ins = NoInstr
        /\ i \notin h .. ns - 1 => e = Entry(e.ins)
        /\ e.source_added \subseteq DOMAIN e.ins.src /\ DOMAIN e.lq_index = DOMAIN e.ins.src
        /\ e.destination_added \subseteq DOMAIN e.ins.dst /\ DOMAIN e.sq_index = DOMAIN e.ins.dst

-------------------------------------------------------------------------------
(* Registers *)

Done(e) == e.executed = "COMPLETED"

(* The sources of i that wait for a writer. *)
Pending(rob, h, i) ==
  {j \in DOMAIN rob[i].ins.rsrc :
     \E p \in h .. i - 1 : ~Done(rob[p]) /\ <<i, j>> \in rob[p].reg_depend_on_me}

(* A dependence is between two instructions of the ROB, and a source has    *)
(* one producer.                                                            *)
DependsOK(rob, h, ns) ==
  /\ \A p \in h .. ns - 1 : \A x \in rob[p].reg_depend_on_me :
       x[1] \in p + 1 .. ns - 1 /\ x[2] \in DOMAIN rob[x[1]].ins.rsrc
  /\ \A p, q \in h .. ns - 1 : \A x \in rob[p].reg_depend_on_me : x \in rob[q].reg_depend_on_me => p = q

(* The nearest writer of a source has executed or has the source among its  *)
(* dependents.                                                              *)
WritersOK(rob, h, ns) ==
  \A i \in h .. ns - 1 : \A j \in DOMAIN rob[i].ins.rsrc : \A p \in h .. i - 1 :
    /\ rob[i].ins.rsrc[j] \in rob[p].ins.rdst
    /\ \A q \in p + 1 .. i - 1 : rob[i].ins.rsrc[j] \notin rob[q].ins.rdst
    => Done(rob[p]) \/ <<i, j>> \in rob[p].reg_depend_on_me

CountsOK(rob, h, ns) ==
  \A i \in h .. ns - 1 :
    /\ rob[i].num_reg_dependent = Cardinality(Pending(rob, h, i))
    /\ rob[i].reg_ready => rob[i].num_reg_dependent = 0
    /\ \/ rob[i].executed # "NO" \/ rob[i].source_added # {} \/ rob[i].destination_added # {}
       => rob[i].reg_ready

Distinct(s) == \A a, b \in DOMAIN s : s[a] = s[b] => a = b
Elements(s) == {s[a] : a \in DOMAIN s}

(* RTE0 and RTE1 hold an instruction once, which has not started. *)
Startable(e) == ~is_memory(e) /\ e.reg_ready /\ e.executed = "NO"
ReadyOK(rob, RT, h, ns) ==
  /\ \A i \in Elements(RT["RTE0"]) \cup Elements(RT["RTE1"]) : i \in h .. ns - 1 /\ Startable(rob[i])
  /\ Distinct(RT["RTE0"]) /\ Distinct(RT["RTE1"])
  /\ Elements(RT["RTE0"]) \cap Elements(RT["RTE1"]) = {}

-------------------------------------------------------------------------------
(* Memory operations *)

(* Destination j of e has not been written by execute_store. *)
Unwritten(e, SQ, j) ==
  \/ j \notin e.destination_added
  \/ ~SQ[e.sq_index[j]].fetched

(* A load in the queue belongs to a source that was added. *)
LoadsOK(rob, LQ, h, ns) ==
  \A l \in LqSlot :
    IF LQ[l].addr = 0 THEN LQ[l] = EmptyLoad
    ELSE /\ LQ[l].id \in h .. ns - 1
         /\ \E k \in rob[LQ[l].id].source_added :
              rob[LQ[l].id].lq_index[k] = l /\ rob[LQ[l].id].ins.src[k] = LQ[l].addr

(* p is the nearest store of a before i. *)
NearestStore(rob, h, i, a, p) ==
  /\ p \in h .. i - 1 /\ a \in Range(rob[p].ins.dst)
  /\ \A q \in p + 1 .. i - 1 : a \notin Range(rob[q].ins.dst)

(* A load with a producer waits for a store that is not written yet. *)
ProducersOK(rob, LQ, SQ, h) ==
  \A l \in LqSlot :
    LET i == LQ[l].id
        a == LQ[l].addr
        p == LQ[l].producer_id
    IN  a # 0 =>
          IF p = 0 THEN \A q \in h .. i - 1 : a \notin Range(rob[q].ins.dst)
          ELSE /\ NearestStore(rob, h, i, a, p)
               /\ i \in rob[p].mem_depend_on_me
               /\ \E j \in DOMAIN rob[p].ins.dst : rob[p].ins.dst[j] = a /\ Unwritten(rob[p], SQ, j)

LoadsOf(LQ, i) == {l \in LqSlot : LQ[l].id = i}
StoresOf(SQ, i) == {s \in SqSlot : SQ[s].id = i /\ ~SQ[s].fetched}

OpsOK(rob, LQ, SQ, h, t) ==
  \A i \in h .. t - 1 :
    /\ rob[i].num_mem_ops = Cardinality(DOMAIN rob[i].ins.src \ rob[i].source_added)
                            + Cardinality(DOMAIN rob[i].ins.dst \ rob[i].destination_added)
                            + Cardinality(LoadsOf(LQ, i)) + Cardinality(StoresOf(SQ, i))
    /\ Done(rob[i]) => rob[i].num_mem_ops = 0

MemInflight(rob, h, t) ==
  {i \in h .. t - 1 : is_memory(rob[i]) /\ rob[i].num_mem_ops = 0 /\ ~Done(rob[i])}
RegInflight(rob, h, t) ==
  {i \in h .. t - 1 : ~is_memory(rob[i]) /\ rob[i].executed = "INFLIGHT"}

UsedLoads(LQ) == {l \in LqSlot : LQ[l].addr # 0}

-------------------------------------------------------------------------------
(* The store queue *)

at(c, k) == (c.SQ_head + k) % SQ_SIZE

RingOK(c) ==
  /\ c.SQ_occupancy \in 0 .. SQ_SIZE /\ c.SQ_tail = at(c, c.SQ_occupancy)
  /\ \A k \in 0 .. SQ_SIZE - 1 : c.SQ[at(c, k)].addr # 0 <=> k < c.SQ_occupancy

(* The stores in the queue are the destinations that were added. *)
StoresOK(rob, SQ, h, ns) ==
  /\ \A s \in SqSlot :
       IF SQ[s].addr = 0 THEN SQ[s] = EmptyStore
       ELSE SQ[s].id \in h .. ns - 1 /\ \E j \in rob[SQ[s].id].destination_added : rob[SQ[s].id].sq_index[j] = s
  /\ \A i \in h .. ns - 1 : \A j \in rob[i].destination_added :
       /\ rob[i].sq_index[j] \in SqSlot
       /\ SQ[rob[i].sq_index[j]].id = i /\ SQ[rob[i].sq_index[j]].addr = rob[i].ins.dst[j]
       /\ \A k \in rob[i].destination_added : rob[i].sq_index[j] = rob[i].sq_index[k] => j = k

(* The queue and then STA hold the stores of the ROB in program order. *)
OrderOK(c, h, t) ==
  /\ \A a, b \in 0 .. c.SQ_occupancy - 1 : a <= b => c.SQ[at(c, a)].id <= c.SQ[at(c, b)].id
  /\ \A a, b \in DOMAIN c.STA : a <= b => c.STA[a] <= c.STA[b]
  /\ \A a \in 0 .. c.SQ_occupancy - 1, b \in DOMAIN c.STA : c.SQ[at(c, a)].id <= c.STA[b]
  /\ \A b \in DOMAIN c.STA : c.STA[b] \in h .. t - 1
  /\ \A i \in h .. t - 1 : Cardinality({b \in DOMAIN c.STA : c.STA[b] = i})
                             = Cardinality(DOMAIN c.rob[i].ins.dst \ c.rob[i].destination_added)

-------------------------------------------------------------------------------
(* Where the slots are *)

Translating(d, q) == {x[2] : x \in {y \in d : y[1] = q}}

(* Every load without a producer and every store that is not written is in  *)
(* one list or at one cache.                                                *)
PlacesOK(c, d, r) ==
  LET L0 == Elements(c.RT["RTL0"])
      L1 == Elements(c.RT["RTL1"])
      L2 == Translating(d, "LQ")
      S0 == Elements(c.RT["RTS0"])
      S1 == Elements(c.RT["RTS1"])
      S2 == Translating(d, "SQ")
  IN  /\ \A x \in {"RTL0", "RTL1", "RTS0", "RTS1"} : Distinct(c.RT[x])
      /\ L0 \cap L1 = {} /\ L0 \cap L2 = {} /\ L1 \cap L2 = {}
      /\ L0 \cap r = {} /\ L1 \cap r = {} /\ L2 \cap r = {}
      /\ L0 \cup L1 \cup L2 \cup r = {l \in LqSlot : c.LQ[l].addr # 0 /\ c.LQ[l].producer_id = 0}
      /\ S0 \cap S1 = {} /\ S0 \cap S2 = {} /\ S1 \cap S2 = {}
      /\ S0 \cup S1 \cup S2 = {s \in SqSlot : c.SQ[s].addr # 0 /\ ~c.SQ[s].fetched}

(* The dependents of an instruction p that stores once are behind it with   *)
(* no store of its address between, and each of their loads of it has a     *)
(* slot of its own, in which it waits for p until p is written.             *)
OneStore(e) == Len(e.ins.dst) <= 1

Waiting(e, LQ, i, k, p) ==
  /\ e.lq_index[k] \in LqSlot
  /\ LQ[e.lq_index[k]] = [id |-> i, addr |-> e.ins.src[k], producer_id |-> p]
  /\ \A n \in e.source_added : e.lq_index[n] = e.lq_index[k] /\ e.ins.src[n] = e.ins.src[k] => n = k

ForwardsOK(rob, LQ, SQ, h, ns) ==
  \A p \in h .. ns - 1 : OneStore(rob[p]) => \A i \in rob[p].mem_depend_on_me :
    /\ i \in p + 1 .. ns - 1
    /\ \A j \in DOMAIN rob[p].ins.dst :
         /\ NearestStore(rob, h, i, rob[p].ins.dst[j], p)
         /\ Unwritten(rob[p], SQ, j) =>
              \A k \in rob[i].source_added :
                rob[i].ins.src[k] = rob[p].ins.dst[j] => Waiting(rob[i], LQ, i, k, p)

(* An instruction is a dependent of the nearest store of each address that  *)
(* it has started to load.                                                  *)
LinkedOK(rob, h, ns) ==
  \A i \in h .. ns - 1 : \A k \in rob[i].source_added : \A p \in h .. i - 1 :
    NearestStore(rob, h, i, rob[i].ins.src[k], p) => i \in rob[p].mem_depend_on_me

RegInv(rob, RT, h, ns) ==
  DependsOK(rob, h, ns) /\ WritersOK(rob, h, ns) /\ CountsOK(rob, h, ns) /\ ReadyOK(rob, RT, h, ns)

LoadInv(rob, LQ, SQ, h, ns) ==
  /\ LoadsOK(rob, LQ, h, ns) /\ ProducersOK(rob, LQ, SQ, h)
  /\ LinkedOK(rob, h, ns) /\ ForwardsOK(rob, LQ, SQ, h, ns)

StoreInv(c, h, t, ns) == RingOK(c) /\ StoresOK(c.rob, c.SQ, h, ns) /\ OrderOK(c, h, t)

CountInv(c, h, t) ==
  /\ OpsOK(c.rob, c.LQ, c.SQ, h, t)
  /\ c.LQ_occupancy = Cardinality(UsedLoads(c.LQ))
  /\ c.inflight_mem = Cardinality(MemInflight(c.rob, h, t))
  /\ c.inflight_reg = Cardinality(RegInflight(c.rob, h, t))

(* Core with integers for the counters, whose bounds are part of the other  *)
(* conjuncts.                                                               *)
Row ==
  [ins : Instr \cup {NoInstr}, reg_ready : BOOLEAN, num_reg_dependent : Int,
   scheduled : Status, executed : Status, num_mem_ops : Int,
   source_added : SUBSET Nat, destination_added : SUBSET Nat,
   lq_index : Seq(0 .. LQ_SIZE), sq_index : Seq(0 .. SQ_SIZE),
   reg_depend_on_me : SUBSET (Id \X Nat), mem_depend_on_me : SUBSET Id]
Loads == [id : Id \cup {0}, addr : Addr \cup {0}, producer_id : Id \cup {0}]
Stores == [id : Id \cup {0}, addr : Addr \cup {0}, fetched : BOOLEAN]
Shape ==
  [rob : [Id -> Row], LQ : [LqSlot -> Loads], LQ_occupancy : Int,
   SQ : [SqSlot -> Stores], SQ_occupancy : Int, SQ_head : SqSlot, SQ_tail : SqSlot, STA : Seq(Id),
   RT : [Lists -> Seq(Nat)], inflight_reg : Int, inflight_mem : Int]

Good(c, h, t, ns, d, r) ==
  /\ c \in Shape /\ Window(h, t, ns) /\ EntriesOK(c.rob, h, t, ns)
  /\ d \subseteq {"LQ", "SQ"} \X Nat /\ r \subseteq LqSlot
  /\ RegInv(c.rob, c.RT, h, ns)
  /\ LoadInv(c.rob, c.LQ, c.SQ, h, ns)
  /\ StoreInv(c, h, t, ns)
  /\ CountInv(c, h, t)
  /\ PlacesOK(c, d, r)

GoodNow == Good(core, head, tail, next_schedule, dtlb, l1d)

-------------------------------------------------------------------------------
(* Loops *)

(* A loop of n iterations in which each step is a function of the state is  *)
(* defined.                                                                 *)
Runs(g, n, c0, F) == g[0] = c0 /\ \A k \in 1 .. n : g[k] = F[<<g[k - 1], k>>]

LEMMA LoopRuns ==
  ASSUME NEW n \in Nat, NEW C, NEW c0 \in C, NEW F \in [C \X (1 .. n) -> C]
  PROVE  \E g \in [0 .. n -> C] : Runs(g, n, c0, F)
<1> DEFINE P(m) == \E g \in [0 .. m -> C] : Runs(g, m, c0, F)
           B == {m \in 0 .. n : ~P(m)}
<1> SUFFICES ASSUME B # {} PROVE FALSE
  <2>1. n \in 0 .. n /\ (n \notin B => P(n))
    OBVIOUS
  <2> HIDE DEF B
  <2>2. B = {} => P(n)
    BY <2>1
  <2> QED
    BY <2>2
<1>1. B \in SUBSET Nat
  OBVIOUS
<1>2. PICK m \in B : \A k \in B : m <= k
  BY <1>1, FirstIsLeast
<1>3. m \in 0 .. n /\ ~P(m)
  OBVIOUS
<1>4. P(0)
  <2> DEFINE g == [k \in 0 .. 0 |-> c0]
  <2>1. g \in [0 .. 0 -> C] /\ g[0] = c0 /\ \A k \in 1 .. 0 : g[k] = F[<<g[k - 1], k>>]
    OBVIOUS
  <2> HIDE DEF g
  <2>2. Runs(g, 0, c0, F)
    BY <2>1 DEF Runs
  <2> QED
    BY <2>1, <2>2
<1>5. m \in 1 .. n /\ m - 1 \in 0 .. n
  <2>1. m # 0
    BY <1>3, <1>4
  <2> HIDE DEF P
  <2> QED
    BY <1>3, <2>1
<1>6. P(m - 1)
  BY <1>2, <1>5
<1>g. PICK g \in [0 .. m - 1 -> C] : Runs(g, m - 1, c0, F)
  BY <1>6
<1>7. g[0] = c0 /\ \A k \in 1 .. m - 1 : g[k] = F[<<g[k - 1], k>>]
  BY <1>g DEF Runs
<1> DEFINE f == [k \in 0 .. m |-> IF k = m THEN F[<<g[m - 1], m>>] ELSE g[k]]
<1>8. <<g[m - 1], m>> \in C \X (1 .. n)
  BY <1>5, <1>7
<1>9. F[<<g[m - 1], m>>] \in C
  BY <1>8
<1>10. f \in [0 .. m -> C]
  BY <1>5, <1>7, <1>9
<1>11. f[0] = c0
  BY <1>5, <1>7
<1>12. ASSUME NEW k \in 1 .. m PROVE f[k] = F[<<f[k - 1], k>>]
  <2>1. k \in 0 .. m /\ k - 1 \in 0 .. m /\ k - 1 # m
    BY <1>5
  <2>2. f[k - 1] = g[k - 1]
    BY <2>1
  <2>3. CASE k = m
    BY <2>1, <2>2, <2>3
  <2>4. CASE k # m
    <3>1. k \in 1 .. m - 1
      BY <1>5, <2>4
    <3> QED
      BY <1>7, <2>1, <2>2, <2>4, <3>1
  <2> QED
    BY <2>3, <2>4
<1> HIDE DEF f
<1>13. P(m)
  <2>1. Runs(f, m, c0, F)
    BY <1>11, <1>12 DEF Runs
  <2> QED
    BY <1>10, <2>1
<1> QED
  BY <1>3, <1>13

(* What the first state has and every iteration keeps, the last state has. *)
KeptBy(g, n, C) == \A k \in 1 .. n : g[k - 1] \in C => g[k] \in C

LEMMA LoopKeeps ==
  ASSUME NEW n \in Nat, NEW C, NEW g, g[0] \in C, KeptBy(g, n, C)
  PROVE  g[n] \in C
<1> DEFINE B == {m \in 0 .. n : g[m] \notin C}
<1> SUFFICES ASSUME B # {} PROVE FALSE
  <2>1. n \in 0 .. n
    OBVIOUS
  <2> QED
    BY <2>1
<1>1. B \in SUBSET Nat
  OBVIOUS
<1>2. PICK m \in B : \A k \in B : m <= k
  BY <1>1, FirstIsLeast
<1>3. m \in 1 .. n /\ m - 1 \in 0 .. n /\ g[m] \notin C
  OBVIOUS
<1>4. g[m - 1] \in C
  BY <1>2, <1>3
<1> QED
  BY <1>3, <1>4 DEF KeptBy

-------------------------------------------------------------------------------
(* Lists *)

LEMMA EmptyList == Elements(<< >>) = {} /\ Distinct(<< >>) /\ DOMAIN << >> = {}
BY DEF Elements, Distinct

LEMMA TailList ==
  ASSUME NEW S, NEW s \in Seq(S), s # << >>, Distinct(s)
  PROVE  /\ Head(s) \in S /\ Tail(s) \in Seq(S) /\ Distinct(Tail(s)) /\ Head(s) \notin Elements(Tail(s))
         /\ Elements(s) = Elements(Tail(s)) \cup {Head(s)}
<1>1. /\ Len(s) \in Nat \ {0} /\ DOMAIN s = 1 .. Len(s) /\ Head(s) = s[1] /\ s[1] \in S
      /\ Tail(s) \in Seq(S) /\ DOMAIN Tail(s) = 1 .. Len(s) - 1
      /\ \A k \in 1 .. Len(s) - 1 : Tail(s)[k] = s[k + 1]
  OBVIOUS
<1> DEFINE u == Tail(s)
           n == Len(s)
<1> HIDE DEF u, n
<1>2. /\ n \in Nat \ {0} /\ DOMAIN s = 1 .. n /\ DOMAIN u = 1 .. n - 1
      /\ \A k \in 1 .. n - 1 : u[k] = s[k + 1]
  BY <1>1 DEF u, n
<1>3. Distinct(u)
  <2>1. ASSUME NEW a \in 1 .. n - 1, NEW b \in 1 .. n - 1, u[a] = u[b] PROVE a = b
    <3>1. a + 1 \in 1 .. n /\ b + 1 \in 1 .. n /\ s[a + 1] = s[b + 1]
      BY <1>2, <2>1
    <3>2. a + 1 = b + 1
      BY <1>2, <3>1 DEF Distinct
    <3> QED
      BY <1>2, <3>2
  <2> QED
    BY <1>2, <2>1 DEF Distinct
<1>4. s[1] \notin Elements(u)
  <2>1. ASSUME NEW a \in 1 .. n - 1, u[a] = s[1] PROVE FALSE
    <3>1. a + 1 \in 1 .. n /\ 1 \in 1 .. n /\ s[a + 1] = s[1]
      BY <1>2, <2>1
    <3>2. a + 1 = 1
      BY <1>2, <3>1 DEF Distinct
    <3> QED
      BY <1>2, <3>2
  <2> QED
    BY <1>2, <2>1 DEF Elements
<1>5. Elements(s) = Elements(u) \cup {s[1]}
  <2>1. ASSUME NEW a \in 1 .. n PROVE s[a] \in Elements(u) \cup {s[1]}
    <3>1. CASE a = 1
      BY <3>1
    <3>2. CASE a # 1
      <4>1. a - 1 \in 1 .. n - 1 /\ (a - 1) + 1 = a
        BY <1>2, <3>2
      <4> QED
        BY <1>2, <4>1 DEF Elements
    <3> QED
      BY <3>1, <3>2
  <2>2. ASSUME NEW a \in 1 .. n - 1 PROVE u[a] \in Elements(s)
    <3>1. a + 1 \in 1 .. n
      BY <1>2
    <3> QED
      BY <1>2, <3>1 DEF Elements
  <2>3. s[1] \in Elements(s)
    BY <1>2 DEF Elements
  <2>4. \A x \in Elements(s) : x \in Elements(u) \cup {s[1]}
    BY <1>2, <2>1 DEF Elements
  <2>5. \A x \in Elements(u) : x \in Elements(s)
    BY <1>2, <2>2 DEF Elements
  <2> QED
    BY <2>3, <2>4, <2>5
<1> QED
  BY <1>1, <1>3, <1>4, <1>5 DEF u

LEMMA ConcatList ==
  ASSUME NEW S, NEW s \in Seq(S), NEW u \in Seq(S), Distinct(s), Distinct(u),
         Elements(s) \cap Elements(u) = {}
  PROVE  s \o u \in Seq(S) /\ Distinct(s \o u) /\ Elements(s \o u) = Elements(s) \cup Elements(u)
<1> DEFINE m == Len(s)
           n == Len(u)
           v == s \o u
<1>1. /\ m \in Nat /\ n \in Nat /\ DOMAIN s = 1 .. m /\ DOMAIN u = 1 .. n
      /\ v \in Seq(S) /\ DOMAIN v = 1 .. m + n
      /\ \A k \in 1 .. m + n : v[k] = IF k <= m THEN s[k] ELSE u[k - m]
  OBVIOUS
<1> HIDE DEF m, n, v
<1>2. ASSUME NEW k \in 1 .. m + n
      PROVE  \/ k \in 1 .. m /\ v[k] = s[k] /\ v[k] \in Elements(s)
             \/ k > m /\ k - m \in 1 .. n /\ v[k] = u[k - m] /\ v[k] \in Elements(u)
  <2>1. CASE k <= m
    BY <1>1, <2>1 DEF Elements
  <2>2. CASE k > m
    <3>1. k - m \in 1 .. n /\ ~(k <= m)
      BY <1>1, <2>2
    <3>2. v[k] = u[k - m]
      BY <1>1, <3>1
    <3>3. u[k - m] \in Elements(u)
      BY <1>1, <3>1 DEF Elements
    <3> QED
      BY <2>2, <3>1, <3>2, <3>3
  <2> QED
    BY <1>1, <2>1, <2>2
<1>3. Distinct(v)
  <2>1. ASSUME NEW a \in 1 .. m + n, NEW b \in 1 .. m + n, v[a] = v[b] PROVE a = b
    <3>1. CASE a \in 1 .. m /\ v[a] = s[a] /\ v[a] \in Elements(s)
      <4>1. b \in 1 .. m /\ v[b] = s[b]
        BY <1>2, <2>1, <3>1
      <4> QED
        BY <1>1, <2>1, <3>1, <4>1 DEF Distinct
    <3>2. CASE a > m /\ a - m \in 1 .. n /\ v[a] = u[a - m] /\ v[a] \in Elements(u)
      <4>1. b > m /\ b - m \in 1 .. n /\ v[b] = u[b - m]
        BY <1>2, <2>1, <3>2
      <4>2. a - m = b - m
        BY <1>1, <2>1, <3>2, <4>1 DEF Distinct
      <4> QED
        BY <1>1, <4>2
    <3> QED
      BY <1>2, <3>1, <3>2
  <2> QED
    BY <1>1, <2>1 DEF Distinct
<1>4. \A x \in Elements(v) : x \in Elements(s) \cup Elements(u)
  BY <1>1, <1>2 DEF Elements
<1>5. \A x \in Elements(s) : x \in Elements(v)
  <2>1. ASSUME NEW k \in 1 .. m PROVE k \in 1 .. m + n /\ v[k] = s[k]
    BY <1>1
  <2> QED
    BY <1>1, <2>1 DEF Elements
<1>6. \A x \in Elements(u) : x \in Elements(v)
  <2>1. ASSUME NEW k \in 1 .. n PROVE m + k \in 1 .. m + n /\ v[m + k] = u[k]
    <3>1. m + k \in 1 .. m + n /\ ~(m + k <= m) /\ (m + k) - m = k
      BY <1>1
    <3> QED
      BY <1>1, <3>1
  <2> SUFFICES ASSUME NEW k \in 1 .. n PROVE u[k] \in Elements(v)
    BY <1>1 DEF Elements
  <2>2. m + k \in DOMAIN v /\ v[m + k] = u[k]
    BY <1>1, <2>1
  <2> QED
    BY <2>2 DEF Elements
<1> QED
  BY <1>1, <1>3, <1>4, <1>5, <1>6 DEF v

LEMMA SeqSubset ==
  ASSUME NEW S, NEW T, S \subseteq T, NEW s \in Seq(S)
  PROVE  s \in Seq(T)
OBVIOUS

LEMMA OneList ==
  ASSUME NEW S, NEW x \in S
  PROVE  <<x>> \in Seq(S) /\ Distinct(<<x>>) /\ Elements(<<x>>) = {x}
BY DEF Distinct, Elements

LEMMA AppendList ==
  ASSUME NEW S, NEW s \in Seq(S), Distinct(s), NEW x \in S, x \notin Elements(s)
  PROVE  /\ Append(s, x) \in Seq(S) /\ Distinct(Append(s, x))
         /\ Elements(Append(s, x)) = Elements(s) \cup {x}
<1>1. Append(s, x) = s \o <<x>>
  OBVIOUS
<1> DEFINE y == <<x>>
<1>2. y \in Seq(S) /\ Distinct(y) /\ Elements(y) = {x}
  BY OneList
<1> HIDE DEF y
<1>3. Elements(s) \cap Elements(y) = {}
  BY <1>2
<1>4. s \o y \in Seq(S) /\ Distinct(s \o y) /\ Elements(s \o y) = Elements(s) \cup Elements(y)
  BY <1>2, <1>3, ConcatList
<1> QED
  BY <1>1, <1>2, <1>4 DEF y

LEMMA FiniteList ==
  ASSUME NEW S, NEW s \in Seq(S)
  PROVE  Elements(s) \in SUBSET S
BY DEF Elements

-------------------------------------------------------------------------------
(* Sorting *)

LEMMA IsASeq ==
  ASSUME NEW n \in Nat, NEW S, NEW s, DOMAIN s = 1 .. n, s = [k \in DOMAIN s |-> s[k]],
         \A k \in 1 .. n : s[k] \in S
  PROVE  s \in Seq(S) /\ Len(s) = n
<1>1. s \in [1 .. n -> S]
  OBVIOUS
<1> QED
  BY <1>1

LEMMA SortedIs ==
  ASSUME NEW S, IsFiniteSet(S), NEW key \in [S -> Int],
         \A x, y \in S : key[x] = key[y] => x = y
  PROVE  /\ SortedBy(S, key) \in Seq(S) /\ Elements(SortedBy(S, key)) = S
         /\ Distinct(SortedBy(S, key)) /\ Len(SortedBy(S, key)) = Cardinality(S)
<1> DEFINE n == Cardinality(S)
           below(x) == {y \in S : key[y] < key[x]}
           rank == [x \in S |-> Cardinality(below(x))]
           s == SortedBy(S, key)
<1>1. n \in Nat
  BY FS_CardinalityType
<1>2. ASSUME NEW x \in S PROVE IsFiniteSet(below(x)) /\ rank[x] = Cardinality(below(x)) /\ rank[x] \in 0 .. n - 1
  <2>1. below(x) \in SUBSET S /\ x \notin below(x)
    OBVIOUS
  <2> HIDE DEF below
  <2>2. IsFiniteSet(below(x)) /\ Cardinality(below(x)) \in Nat /\ Cardinality(below(x)) <= n
        /\ Cardinality(below(x)) # n
    BY <2>1, FS_Subset, FS_CardinalityType
  <2> QED
    BY <1>1, <2>2
<1>3. ASSUME NEW x \in S, NEW y \in S, key[x] < key[y] PROVE rank[x] < rank[y]
  <2>1. below(x) \in SUBSET below(y) /\ x \in below(y) /\ x \notin below(x)
    BY <1>3
  <2>t. IsFiniteSet(below(y))
    BY <1>2
  <2> HIDE DEF below
  <2>2. Cardinality(below(x)) <= Cardinality(below(y)) /\ Cardinality(below(x)) # Cardinality(below(y))
    BY <2>t, <2>1, FS_Subset
  <2> QED
    BY <1>2, <2>2
<1>4. ASSUME NEW x \in S, NEW y \in S, rank[x] = rank[y] PROVE x = y
  <2> HIDE DEF rank, n, below
  <2>0. rank[x] \in Int /\ rank[y] \in Int
    BY <1>1, <1>2
  <2>1. ~(key[x] < key[y]) /\ ~(key[y] < key[x])
    BY <2>0, <1>3, <1>4
  <2> QED
    BY <2>1
<1>5. rank \in Injection(S, 0 .. n - 1)
  <2> HIDE DEF rank
  <2>1. rank \in [S -> 0 .. n - 1]
    BY <1>2 DEF rank
  <2> QED
    BY <1>4, <2>1 DEF Injection, IsInjective
<1>6. IsFiniteSet(0 .. n - 1) /\ Cardinality(0 .. n - 1) = n
  BY <1>1, FS_Interval
<1>7. rank \in Surjection(S, 0 .. n - 1)
  BY <1>5, <1>6, FS_Injection
<1>8. ASSUME NEW k \in 1 .. n PROVE s[k] \in S /\ rank[s[k]] = k - 1
  <2>1. k - 1 \in 0 .. n - 1
    BY <1>1
  <2>2. PICK x \in S : rank[x] = k - 1
    <3> HIDE DEF rank
    <3> QED
      BY <1>7, <2>1 DEF Surjection
  <2>3. s[k] = CHOOSE y \in S : Cardinality(below(y)) = k - 1
    BY DEF SortedBy
  <2>4. Cardinality(below(x)) = k - 1
    BY <2>2
  <2>5. s[k] \in S /\ Cardinality(below(s[k])) = k - 1
    <3> HIDE DEF below, s
    <3> QED
      BY <2>3, <2>4
  <2> HIDE DEF s, below
  <2> QED
    BY <2>5
<1>9. s = [k \in 1 .. n |-> CHOOSE x \in S : Cardinality(below(x)) = k - 1]
  BY DEF SortedBy
<1> HIDE DEF s, rank, below, n
<1>10. s \in Seq(S) /\ Len(s) = n /\ DOMAIN s = 1 .. n
  BY <1>1, <1>8, <1>9, IsASeq
<1>11. Distinct(s)
  <2>1. ASSUME NEW a \in 1 .. n, NEW b \in 1 .. n, s[a] = s[b] PROVE a = b
    <3>1. a - 1 = b - 1
      BY <1>8, <2>1
    <3> QED
      BY <1>1, <3>1
  <2> QED
    BY <1>10, <2>1 DEF Distinct
<1>12. ASSUME NEW x \in S PROVE \E k \in 1 .. n : s[k] = x
  <2>1. rank[x] \in 0 .. n - 1 /\ rank[x] + 1 \in 1 .. n
    BY <1>1, <1>2
  <2>2. s[rank[x] + 1] \in S /\ rank[s[rank[x] + 1]] = rank[x]
    BY <1>1, <1>8, <2>1
  <2> QED
    BY <1>4, <2>1, <2>2
<1>13. Elements(s) = S
  <2>1. \A x \in Elements(s) : x \in S
    BY <1>8, <1>10 DEF Elements
  <2>2. \A x \in S : x \in Elements(s)
    BY <1>10, <1>12 DEF Elements
  <2> QED
    BY <2>1, <2>2
<1> QED
  BY <1>10, <1>11, <1>13 DEF s, n

LEMMA AscendingIs ==
  ASSUME NEW S \in SUBSET Nat, IsFiniteSet(S)
  PROVE  /\ Ascending(S) \in Seq(S) /\ Elements(Ascending(S)) = S /\ Distinct(Ascending(S))
         /\ Len(Ascending(S)) = Cardinality(S)
<1> DEFINE key == [s \in S |-> s]
<1>1. key \in [S -> Int] /\ \A x, y \in S : key[x] = key[y] => x = y
  OBVIOUS
<1> HIDE DEF key
<1>2. SortedBy(S, key) \in Seq(S) /\ Elements(SortedBy(S, key)) = S /\ Distinct(SortedBy(S, key))
      /\ Len(SortedBy(S, key)) = Cardinality(S)
  BY <1>1, SortedIs
<1> QED
  BY <1>2 DEF Ascending, key

LEMMA SameSlot ==
  ASSUME NEW n \in Nat \ {0}, NEW x \in Int, NEW y \in Int, x - y < n, y - x < n, x % n = y % n
  PROVE  x = y
<1>1. x = n * (x \div n) + (x % n) /\ y = n * (y \div n) + (y % n) /\ x \div n \in Int /\ y \div n \in Int
      /\ x % n \in 0 .. n - 1 /\ y % n \in 0 .. n - 1
  OBVIOUS
<1> DEFINE a == x \div n
           b == y \div n
<1>2. x - y = n * (a - b) /\ a \in Int /\ b \in Int
  BY <1>1
<1> HIDE DEF a, b
<1>3. CASE a - b >= 1
  BY <1>2, <1>3
<1>4. CASE b - a >= 1
  BY <1>2, <1>4
<1> QED
  BY <1>2, <1>3, <1>4

LEMMA InRobOrderIs ==
  ASSUME NEW h \in Nat, NEW S \in SUBSET (h .. h + ROB_SIZE - 1)
  PROVE  InRobOrder(S) \in Seq(S) /\ Elements(InRobOrder(S)) = S /\ Distinct(InRobOrder(S))
<1> DEFINE key == [i \in S |-> i % ROB_SIZE]
<1>0. ROB_SIZE \in Nat \ {0}
  BY SizesAssumption
<1>1. IsFiniteSet(S)
  <2>1. h \in Int /\ h + ROB_SIZE - 1 \in Int
    BY <1>0
  <2>2. IsFiniteSet(h .. h + ROB_SIZE - 1)
    BY <2>1, FS_Interval
  <2> QED
    BY <2>2, FS_Subset
<1>2. key \in [S -> Int]
  BY <1>0
<1>3. ASSUME NEW x \in S, NEW y \in S, key[x] = key[y] PROVE x = y
  <2>1. x \in Int /\ y \in Int /\ x - y < ROB_SIZE /\ y - x < ROB_SIZE /\ x % ROB_SIZE = y % ROB_SIZE
    BY <1>0, <1>3
  <2> QED
    BY <1>0, <2>1, SameSlot
<1> HIDE DEF key
<1>4. SortedBy(S, key) \in Seq(S) /\ Elements(SortedBy(S, key)) = S /\ Distinct(SortedBy(S, key))
  BY <1>1, <1>2, <1>3, SortedIs
<1> QED
  BY <1>4 DEF InRobOrder, key

-------------------------------------------------------------------------------
(* Registers *)

SameGraph(rob, new, h, ns) ==
  \A i \in h .. ns - 1 :
    /\ new[i].ins = rob[i].ins /\ new[i].reg_depend_on_me = rob[i].reg_depend_on_me
    /\ Done(new[i]) <=> Done(rob[i])

SameLinks(rob, new, h, ns) ==
  \A i \in h .. ns - 1 :
    /\ new[i].ins = rob[i].ins /\ new[i].reg_depend_on_me = rob[i].reg_depend_on_me
    /\ Done(rob[i]) => Done(new[i])

LEMMA LinksKept ==
  ASSUME NEW rob, NEW new, NEW h \in Nat, NEW ns \in Nat, SameLinks(rob, new, h, ns)
  PROVE  /\ DependsOK(rob, h, ns) => DependsOK(new, h, ns)
         /\ WritersOK(rob, h, ns) => WritersOK(new, h, ns)
<1>1. DependsOK(rob, h, ns) => DependsOK(new, h, ns)
  BY DEF DependsOK, SameLinks
<1>2. WritersOK(rob, h, ns) => WritersOK(new, h, ns)
  BY DEF WritersOK, SameLinks
<1> QED
  BY <1>1, <1>2

LEMMA GraphKept ==
  ASSUME NEW rob, NEW new, NEW h \in Nat, NEW ns \in Nat, SameGraph(rob, new, h, ns)
  PROVE  /\ DependsOK(rob, h, ns) => DependsOK(new, h, ns)
         /\ WritersOK(rob, h, ns) => WritersOK(new, h, ns)
         /\ \A i \in h .. ns - 1 : Pending(new, h, i) = Pending(rob, h, i)
<1>1. SameLinks(rob, new, h, ns)
  BY DEF SameGraph, SameLinks
<1>3. ASSUME NEW i \in h .. ns - 1 PROVE Pending(new, h, i) = Pending(rob, h, i)
  BY DEF Pending, SameGraph
<1> QED
  BY <1>1, <1>3, LinksKept

(* What the memory operations leave alone. *)
RegFrame(rob, new, h, ns) ==
  \A i \in h .. ns - 1 :
    /\ new[i].ins = rob[i].ins /\ new[i].reg_ready = rob[i].reg_ready
    /\ new[i].num_reg_dependent = rob[i].num_reg_dependent
    /\ new[i].reg_depend_on_me = rob[i].reg_depend_on_me
    /\ Done(new[i]) <=> Done(rob[i])
    /\ new[i].executed # rob[i].executed => is_memory(rob[i]) /\ rob[i].reg_ready
    /\ \/ new[i].source_added = rob[i].source_added /\ new[i].destination_added = rob[i].destination_added
       \/ rob[i].reg_ready

LEMMA RegKept ==
  ASSUME NEW rob, NEW new, NEW RT, NEW RT2, NEW h \in Nat, NEW ns \in Nat,
         RegInv(rob, RT, h, ns), RegFrame(rob, new, h, ns),
         RT2["RTE0"] = RT["RTE0"], RT2["RTE1"] = RT["RTE1"]
  PROVE  RegInv(new, RT2, h, ns)
<1>0. SameGraph(rob, new, h, ns)
  BY DEF SameGraph, RegFrame
<1>1. DependsOK(new, h, ns) /\ WritersOK(new, h, ns)
  BY <1>0, GraphKept DEF RegInv
<1>3. ASSUME NEW i \in h .. ns - 1 PROVE Pending(new, h, i) = Pending(rob, h, i)
  BY <1>0, GraphKept
<1>4. CountsOK(new, h, ns)
  BY <1>3 DEF RegInv, CountsOK, RegFrame
<1>5. ReadyOK(new, RT2, h, ns)
  <2>1. ASSUME NEW x \in h .. ns - 1, Startable(rob[x]) PROVE Startable(new[x])
    <3>1. /\ new[x].ins = rob[x].ins /\ new[x].reg_ready = rob[x].reg_ready
          /\ new[x].executed # rob[x].executed => is_memory(rob[x])
      BY DEF RegFrame
    <3>2. ~is_memory(rob[x]) /\ rob[x].reg_ready /\ rob[x].executed = "NO"
      BY <2>1 DEF Startable
    <3>3. ~is_memory(new[x])
      BY <3>1, <3>2 DEF is_memory
    <3> QED
      BY <3>1, <3>2, <3>3 DEF Startable
  <2> QED
    BY <2>1 DEF RegInv, ReadyOK
<1> QED
  BY <1>1, <1>4, <1>5 DEF RegInv

(* The oldest instruction retires. *)
LEMMA RegRetire ==
  ASSUME NEW rob, NEW new, NEW RT, NEW h \in Nat, NEW ns \in Nat, RegInv(rob, RT, h, ns), h < ns,
         Done(rob[h]), \A i \in h + 1 .. ns - 1 : new[i] = rob[i]
  PROVE  RegInv(new, RT, h + 1, ns)
<1>1. DependsOK(new, h + 1, ns)
  BY DEF RegInv, DependsOK
<1>2. WritersOK(new, h + 1, ns)
  BY DEF RegInv, WritersOK
<1>3. ASSUME NEW i \in h + 1 .. ns - 1 PROVE Pending(new, h + 1, i) = Pending(rob, h, i)
  <2>1. ASSUME NEW j, NEW p \in h .. i - 1, ~Done(rob[p]), <<i, j>> \in rob[p].reg_depend_on_me
        PROVE  p \in h + 1 .. i - 1 /\ new[p] = rob[p]
    BY <2>1
  <2>2. new[i] = rob[i]
    OBVIOUS
  <2> QED
    BY <2>1, <2>2 DEF Pending
<1>4. CountsOK(new, h + 1, ns)
  BY <1>3 DEF RegInv, CountsOK
<1>5. ReadyOK(new, RT, h + 1, ns)
  <2>1. ASSUME NEW x \in h .. ns - 1, Startable(rob[x])
        PROVE  x \in h + 1 .. ns - 1 /\ new[x] = rob[x]
    <3>1. x # h
      BY <2>1 DEF Startable, Done
    <3> QED
      BY <3>1
  <2> QED
    BY <2>1 DEF RegInv, ReadyOK
<1> QED
  BY <1>1, <1>2, <1>4, <1>5 DEF RegInv

(* An instruction without memory operands starts. *)
Started(rob, new, h, ns, i) ==
  /\ \A k \in h .. ns - 1 : k # i => new[k] = rob[k]
  /\ new[i].ins = rob[i].ins /\ new[i].reg_ready = rob[i].reg_ready
  /\ new[i].num_reg_dependent = rob[i].num_reg_dependent
  /\ new[i].reg_depend_on_me = rob[i].reg_depend_on_me /\ new[i].executed = "INFLIGHT"

LEMMA RegExecute ==
  ASSUME NEW rob, NEW new, NEW RT \in [Lists -> Seq(Nat)], NEW h \in Nat, NEW ns \in Nat,
         RegInv(rob, RT, h, ns), NEW list \in {"RTE0", "RTE1"}, RT[list] # << >>,
         NEW i, i = Head(RT[list]), Started(rob, new, h, ns, i)
  PROVE  RegInv(new, [RT EXCEPT ![list] = Tail(@)], h, ns) /\ i \in h .. ns - 1 /\ Startable(rob[i])
<1> DEFINE RT2 == [RT EXCEPT ![list] = Tail(@)]
<1>s. /\ \A k \in h .. ns - 1 : k # i => new[k] = rob[k]
      /\ new[i].ins = rob[i].ins /\ new[i].reg_ready = rob[i].reg_ready
      /\ new[i].num_reg_dependent = rob[i].num_reg_dependent
      /\ new[i].reg_depend_on_me = rob[i].reg_depend_on_me /\ new[i].executed = "INFLIGHT"
  BY DEF Started
<1>1. list \in Lists /\ RT[list] \in Seq(Nat) /\ Distinct(RT[list])
  BY DEF Lists, RegInv, ReadyOK
<1>2. /\ Distinct(Tail(RT[list])) /\ i \notin Elements(Tail(RT[list]))
      /\ Elements(RT[list]) = Elements(Tail(RT[list])) \cup {i}
  BY <1>1, TailList
<1>3. i \in h .. ns - 1 /\ Startable(rob[i])
  BY <1>2 DEF RegInv, ReadyOK
<1>4. ~Done(rob[i]) /\ ~Done(new[i])
  BY <1>3, <1>s DEF Done, Startable
<1>a. SameGraph(rob, new, h, ns)
  BY <1>4, <1>s DEF SameGraph
<1>5. DependsOK(new, h, ns)
  BY <1>a, GraphKept DEF RegInv
<1>6. WritersOK(new, h, ns)
  BY <1>a, GraphKept DEF RegInv
<1>7. ASSUME NEW k \in h .. ns - 1 PROVE Pending(new, h, k) = Pending(rob, h, k)
  BY <1>a, GraphKept
<1>8. CountsOK(new, h, ns)
  <2>1. ASSUME NEW k \in h .. ns - 1, k # i
        PROVE  new[k] = rob[k]
    BY <1>s, <2>1
  <2>2. rob[i].reg_ready /\ rob[i].num_reg_dependent = Cardinality(Pending(rob, h, i))
        /\ rob[i].num_reg_dependent = 0
    BY <1>3 DEF RegInv, CountsOK, Startable
  <2>3. CountsOK(rob, h, ns)
    BY DEF RegInv
  <2>4. ASSUME NEW k \in h .. ns - 1
        PROVE  /\ new[k].num_reg_dependent = Cardinality(Pending(new, h, k))
               /\ new[k].reg_ready => new[k].num_reg_dependent = 0
               /\ \/ new[k].executed # "NO" \/ new[k].source_added # {} \/ new[k].destination_added # {}
                  => new[k].reg_ready
    <3>1. Pending(new, h, k) = Pending(rob, h, k)
      BY <1>7
    <3>2. CASE k = i
      BY <1>s, <2>2, <3>1, <3>2
    <3>3. CASE k # i
      <4>1. new[k] = rob[k]
        BY <2>1, <3>3
      <4> QED
        BY <2>3, <3>1, <4>1 DEF CountsOK
    <3> QED
      BY <3>2, <3>3
  <2> QED
    BY <2>4 DEF CountsOK
<1>9. ReadyOK(new, RT2, h, ns)
  <2>1. RT2[list] = Tail(RT[list]) /\ \A r \in Lists : r # list => RT2[r] = RT[r]
    BY <1>1
  <2> HIDE DEF RT2
  <2>2. "RTE0" \in Lists /\ "RTE1" \in Lists
    BY DEF Lists
  <2>3. CASE list = "RTE0"
    <3>1. RT2["RTE0"] = Tail(RT["RTE0"]) /\ RT2["RTE1"] = RT["RTE1"]
      BY <2>1, <2>2, <2>3
    <3> QED
      BY <1>2, <1>s, <2>3, <3>1 DEF RegInv, ReadyOK
  <2>4. CASE list = "RTE1"
    <3>1. RT2["RTE1"] = Tail(RT["RTE1"]) /\ RT2["RTE0"] = RT["RTE0"]
      BY <2>1, <2>2, <2>4
    <3> QED
      BY <1>2, <1>s, <2>4, <3>1 DEF RegInv, ReadyOK
  <2> QED
    BY <2>3, <2>4
<1> QED
  BY <1>3, <1>5, <1>6, <1>8, <1>9 DEF RegInv

LEMMA YoungestIs ==
  ASSUME NEW a \in Int, NEW b \in Int, NEW S \in SUBSET (a .. b), S # {}
  PROVE  youngest(S) \in S /\ \A k \in S : k <= youngest(S)
<1> DEFINE T == {b - x : x \in S}
<1>1. T \in SUBSET Nat /\ T # {}
  <2>1. ASSUME NEW x \in S PROVE b - x \in Nat
    <3>1. x \in a .. b
      OBVIOUS
    <3> QED
      BY <3>1
  <2> QED
    BY <2>1
<1>2. PICK y \in T : \A z \in T : y <= z
  BY <1>1, FirstIsLeast
<1>3. PICK x \in S : y = b - x
  OBVIOUS
<1>4. ASSUME NEW k \in S PROVE k <= x
  <2>1. b - x <= b - k
    BY <1>2, <1>3
  <2> QED
    BY <2>1
<1> QED
  BY <1>4 DEF youngest

(* The register dependences of instruction ns: y[j] is the writer it waits *)
(* for with its source j in deps.                                          *)
RegSame(e, f) ==
  /\ f.ins = e.ins /\ f.executed = e.executed /\ f.reg_ready = e.reg_ready
  /\ f.num_reg_dependent = e.num_reg_dependent
  /\ f.source_added = e.source_added /\ f.destination_added = e.destination_added
WaitsFor(rob, h, ns, y, deps) ==
  \A j \in DOMAIN rob[ns].ins.rsrc :
    LET writes(p) == ~Done(rob[p]) /\ rob[ns].ins.rsrc[j] \in rob[p].ins.rdst
    IN  IF j \in deps THEN y[j] \in h .. ns - 1 /\ writes(y[j]) /\ \A q \in y[j] + 1 .. ns - 1 : ~writes(q)
        ELSE \A q \in h .. ns - 1 : ~writes(q)
Linked(rob, new, h, ns, y, deps) ==
  \A p \in h .. ns - 1 :
    /\ RegSame(rob[p], new[p])
    /\ \A x : x \in new[p].reg_depend_on_me <=>
                x \in rob[p].reg_depend_on_me \/ \E j \in deps : x = <<ns, j>> /\ p = y[j]
Unstarted(e) ==
  e.executed = "NO" /\ e.reg_depend_on_me = {} /\ e.source_added = {} /\ e.destination_added = {}

LEMMA RegSchedule ==
  ASSUME NEW rob, NEW new, NEW RT \in [Lists -> Seq(Nat)], NEW RT2, NEW h \in Nat, NEW ns \in Nat,
         h <= ns, RegInv(rob, RT, h, ns), NEW y, NEW deps, deps \subseteq DOMAIN rob[ns].ins.rsrc,
         WaitsFor(rob, h, ns, y, deps), Linked(rob, new, h, ns, y, deps),
         new[ns].ins = rob[ns].ins, Unstarted(new[ns]),
         new[ns].reg_ready <=> deps = {}, new[ns].num_reg_dependent = Cardinality(deps),
         RT2["RTE0"] = RT["RTE0"],
         RT2["RTE1"] = IF ~is_memory(new[ns]) /\ new[ns].reg_ready THEN Append(RT["RTE1"], ns)
                       ELSE RT["RTE1"]
  PROVE  RegInv(new, RT2, h, ns + 1)
<1> DEFINE rsrc == rob[ns].ins.rsrc
<1>0. DependsOK(rob, h, ns) /\ WritersOK(rob, h, ns) /\ CountsOK(rob, h, ns) /\ ReadyOK(rob, RT, h, ns)
  BY DEF RegInv
<1>1. ASSUME NEW j \in deps PROVE y[j] \in h .. ns - 1 /\ ~Done(rob[y[j]]) /\ j \in DOMAIN rsrc
  BY DEF WaitsFor
<1>2. ASSUME NEW p \in h .. ns PROVE p = ns \/ p \in h .. ns - 1
  OBVIOUS
<1>3. ASSUME NEW p \in h .. ns, NEW x \in new[p].reg_depend_on_me
      PROVE  /\ p \in h .. ns - 1
             /\ \/ x \in rob[p].reg_depend_on_me /\ x[1] \in p + 1 .. ns - 1
                \/ \E j \in deps : x = <<ns, j>> /\ p = y[j]
  <2>1. p \in h .. ns - 1
    BY <1>2 DEF Unstarted
  <2> QED
    BY <1>0, <2>1 DEF DependsOK, Linked
<1>4. ASSUME NEW p \in h .. ns - 1 PROVE new[p].ins = rob[p].ins /\ (Done(new[p]) <=> Done(rob[p]))
  BY DEF Linked, RegSame, Done
<1>5. ASSUME NEW p \in h .. ns - 1, NEW x \in rob[p].reg_depend_on_me PROVE x \in new[p].reg_depend_on_me
  BY DEF Linked
<1>6. ASSUME NEW j \in deps PROVE <<ns, j>> \in new[y[j]].reg_depend_on_me
  BY <1>1 DEF Linked
<1>7. DependsOK(new, h, ns + 1)
  <2>1. ASSUME NEW p \in h .. ns, NEW x \in new[p].reg_depend_on_me
        PROVE  x[1] \in p + 1 .. ns /\ x[2] \in DOMAIN new[x[1]].ins.rsrc
    <3>1. CASE x \in rob[p].reg_depend_on_me /\ x[1] \in p + 1 .. ns - 1
      <4>1. p \in h .. ns - 1 /\ x[1] \in h .. ns - 1
        BY <1>3, <3>1
      <4>2. x[2] \in DOMAIN rob[x[1]].ins.rsrc
        BY <1>0, <3>1, <4>1 DEF DependsOK
      <4> QED
        BY <1>4, <3>1, <4>1, <4>2
    <3>2. CASE \E j \in deps : x = <<ns, j>> /\ p = y[j]
      BY <1>1, <1>3, <3>2
    <3> QED
      BY <1>3, <3>1, <3>2
  <2>2. ASSUME NEW p \in h .. ns, NEW q \in h .. ns,
               NEW x \in new[p].reg_depend_on_me, x \in new[q].reg_depend_on_me
        PROVE  p = q
    <3>1. p \in h .. ns - 1 /\ q \in h .. ns - 1
      BY <1>3, <2>2
    <3>2. CASE x \in rob[p].reg_depend_on_me /\ x[1] \in p + 1 .. ns - 1
      <4>1. ~\E j \in deps : x = <<ns, j>>
        BY <3>2
      <4>2. x \in rob[q].reg_depend_on_me
        BY <1>3, <2>2, <4>1
      <4> QED
        BY <1>0, <3>1, <3>2, <4>2 DEF DependsOK
    <3>3. CASE \E j \in deps : x = <<ns, j>> /\ p = y[j]
      <4>1. PICK j \in deps : x = <<ns, j>> /\ p = y[j]
        BY <3>3
      <4>2. x[1] = ns
        BY <4>1
      <4>3. PICK i \in deps : x = <<ns, i>> /\ q = y[i]
        BY <1>3, <2>2, <4>2
      <4> QED
        BY <4>1, <4>3
    <3> QED
      BY <1>3, <3>2, <3>3
  <2> QED
    BY <2>1, <2>2 DEF DependsOK
<1>8. WritersOK(new, h, ns + 1)
  <2> SUFFICES ASSUME NEW i \in h .. ns, NEW j \in DOMAIN new[i].ins.rsrc, NEW p \in h .. i - 1,
                      new[i].ins.rsrc[j] \in new[p].ins.rdst,
                      \A q \in p + 1 .. i - 1 : new[i].ins.rsrc[j] \notin new[q].ins.rdst
               PROVE  Done(new[p]) \/ <<i, j>> \in new[p].reg_depend_on_me
    <3>1. (ns + 1) - 1 = ns
      OBVIOUS
    <3> QED
      BY <3>1 DEF WritersOK
  <2>1. p \in h .. ns - 1 /\ \A q \in p + 1 .. i - 1 : q \in h .. ns - 1
    OBVIOUS
  <2>2. new[i].ins = rob[i].ins /\ new[p].ins = rob[p].ins /\ \A q \in p + 1 .. i - 1 : new[q].ins = rob[q].ins
    BY <1>2, <1>4, <2>1
  <2>3. CASE i \in h .. ns - 1
    <3>1. Done(rob[p]) \/ <<i, j>> \in rob[p].reg_depend_on_me
      BY <1>0, <2>2, <2>3 DEF WritersOK
    <3> QED
      BY <1>4, <1>5, <2>1, <3>1
  <2>4. CASE i = ns
    <3>1. SUFFICES ASSUME ~Done(rob[p]) PROVE <<ns, j>> \in new[p].reg_depend_on_me
      BY <1>4, <2>1, <2>4
    <3>2. j \in deps
      BY <2>1, <2>2, <2>4, <3>1 DEF WaitsFor
    <3>3. y[j] = p
      <4>1. /\ y[j] \in h .. ns - 1 /\ rsrc[j] \in rob[y[j]].ins.rdst
            /\ \A q \in y[j] + 1 .. ns - 1 : Done(rob[q]) \/ rsrc[j] \notin rob[q].ins.rdst
        BY <3>2 DEF WaitsFor
      <4>2. /\ rsrc[j] \in rob[p].ins.rdst
            /\ \A q \in p + 1 .. ns - 1 : rsrc[j] \notin rob[q].ins.rdst
        BY <2>2, <2>4
      <4>3. ~(p < y[j]) /\ ~(y[j] < p)
        BY <2>1, <3>1, <4>1, <4>2
      <4> QED
        BY <2>1, <4>1, <4>3
    <3> QED
      BY <1>6, <3>2, <3>3
  <2> QED
    BY <1>2, <2>3, <2>4
<1>9. CountsOK(new, h, ns + 1)
  <2>1. ASSUME NEW i \in h .. ns - 1 PROVE Pending(new, h, i) = Pending(rob, h, i)
    <3>1. ASSUME NEW p \in h .. i - 1, NEW j
          PROVE  /\ Done(new[p]) <=> Done(rob[p])
                 /\ <<i, j>> \in new[p].reg_depend_on_me <=> <<i, j>> \in rob[p].reg_depend_on_me
      <4>1. p \in h .. ns - 1 /\ i # ns
        OBVIOUS
      <4> QED
        BY <1>4, <4>1 DEF Linked
    <3>2. new[i].ins = rob[i].ins
      BY <1>4
    <3> QED
      BY <3>1, <3>2 DEF Pending
  <2>2. Pending(new, h, ns) = deps
    <3>1. ASSUME NEW j \in deps PROVE j \in Pending(new, h, ns)
      <4>1. y[j] \in h .. ns - 1 /\ ~Done(new[y[j]]) /\ j \in DOMAIN new[ns].ins.rsrc
        BY <1>1, <1>4
      <4> QED
        BY <1>6, <4>1 DEF Pending
    <3>2. ASSUME NEW p \in h .. ns - 1, NEW j, <<ns, j>> \in new[p].reg_depend_on_me
          PROVE  j \in deps
      BY <1>3, <3>2
    <3> QED
      BY <3>1, <3>2 DEF Pending
  <2>3. ASSUME NEW i \in h .. ns - 1
        PROVE  /\ new[i].num_reg_dependent = Cardinality(Pending(new, h, i))
               /\ new[i].reg_ready => new[i].num_reg_dependent = 0
               /\ \/ new[i].executed # "NO" \/ new[i].source_added # {} \/ new[i].destination_added # {}
                  => new[i].reg_ready
    BY <1>0, <2>1 DEF CountsOK, Linked, RegSame
  <2>4. /\ new[ns].num_reg_dependent = Cardinality(Pending(new, h, ns))
        /\ new[ns].reg_ready => new[ns].num_reg_dependent = 0
    BY <2>2, FS_EmptySet
  <2> QED
    BY <1>2, <2>3, <2>4 DEF CountsOK, Unstarted
<1>10. ReadyOK(new, RT2, h, ns + 1)
  <2>1. "RTE1" \in Lists
    BY DEF Lists
  <2>2. ns \notin Elements(RT["RTE0"]) /\ ns \notin Elements(RT["RTE1"])
    BY <1>0 DEF ReadyOK
  <2>3. ASSUME NEW i \in Elements(RT["RTE0"]) \cup Elements(RT["RTE1"])
        PROVE  i \in h .. ns /\ Startable(new[i])
    <3>1. i \in h .. ns - 1 /\ Startable(rob[i])
      BY <1>0 DEF ReadyOK
    <3>2. new[i].ins = rob[i].ins /\ new[i].executed = rob[i].executed /\ new[i].reg_ready = rob[i].reg_ready
      BY <3>1 DEF Linked, RegSame
    <3>3. ~is_memory(new[i])
      BY <3>1, <3>2 DEF Startable, is_memory
    <3> QED
      BY <3>1, <3>2, <3>3 DEF Startable
  <2>4. CASE ~is_memory(new[ns]) /\ new[ns].reg_ready
    <3>1. RT2["RTE1"] = Append(RT["RTE1"], ns)
      BY <2>4
    <3>2. Distinct(RT2["RTE1"]) /\ Elements(RT2["RTE1"]) = Elements(RT["RTE1"]) \cup {ns}
      <4>1. RT["RTE1"] \in Seq(Nat) /\ Distinct(RT["RTE1"])
        BY <1>0, <2>1 DEF ReadyOK
      <4>2. /\ Distinct(Append(RT["RTE1"], ns))
            /\ Elements(Append(RT["RTE1"], ns)) = Elements(RT["RTE1"]) \cup {ns}
        BY <2>2, <4>1, AppendList
      <4> QED
        BY <3>1, <4>2
    <3>3. Startable(new[ns]) /\ ns \in h .. ns
      BY <2>4 DEF Startable, Unstarted
    <3> QED
      BY <1>0, <2>2, <2>3, <3>2, <3>3 DEF ReadyOK
  <2>5. CASE ~(~is_memory(new[ns]) /\ new[ns].reg_ready)
    BY <1>0, <2>3, <2>5 DEF ReadyOK
  <2> QED
    BY <2>4, <2>5
<1> QED
  BY <1>7, <1>8, <1>9, <1>10 DEF RegInv

LEMMA Sizes ==
  /\ ROB_SIZE \in Nat \ {0} /\ LQ_SIZE \in Nat \ {0} /\ SQ_SIZE \in Nat \ {0} /\ SCHEDULER_SIZE \in Nat \ {0}
  /\ MaxInstr \in Nat
BY SizesAssumption

(* p completes, and its consumers have fewer sources to wait for. *)
SourcesOf(rob, p, i) == {j \in DOMAIN rob[i].ins.rsrc : <<i, j>> \in rob[p].reg_depend_on_me}
DepsOn(rob, p, i) == {d \in rob[p].reg_depend_on_me : d[1] = i}
FreedBy(rob, p) ==
  {i \in Id : /\ Cardinality(DepsOn(rob, p, i)) > 0
              /\ rob[i].num_reg_dependent = Cardinality(DepsOn(rob, p, i))}
Released(rob, new, h, ns, p) ==
  \A k \in h .. ns - 1 :
    /\ new[k].ins = rob[k].ins /\ new[k].reg_depend_on_me = rob[k].reg_depend_on_me
    /\ new[k].source_added = rob[k].source_added /\ new[k].destination_added = rob[k].destination_added
    /\ new[k].executed = IF k = p THEN "COMPLETED" ELSE rob[k].executed
    /\ IF k \in FreedBy(rob, p) THEN new[k].reg_ready /\ new[k].num_reg_dependent = 0
       ELSE /\ new[k].reg_ready = rob[k].reg_ready
            /\ new[k].num_reg_dependent = rob[k].num_reg_dependent - Cardinality(DepsOn(rob, p, k))

RegTyped(rob) == \A k \in Id : rob[k].ins.rsrc \in Seq(Nat) /\ rob[k].reg_depend_on_me \subseteq Id \X Nat

(* The sources of k that p produces are as many as the decrements. *)
LEMMA DepsCount ==
  ASSUME NEW rob, NEW h \in Nat, NEW ns \in Nat, DependsOK(rob, h, ns), NEW p \in h .. ns - 1,
         ~Done(rob[p]), p \in Id, RegTyped(rob), NEW k \in Id
  PROVE  /\ Cardinality(DepsOn(rob, p, k)) \in Nat
         /\ DepsOn(rob, p, k) # {} => k \in p + 1 .. ns - 1 /\ Cardinality(DepsOn(rob, p, k)) > 0
         /\ k \in h .. ns - 1 =>
              /\ SourcesOf(rob, p, k) \subseteq Pending(rob, h, k) /\ IsFiniteSet(Pending(rob, h, k))
              /\ Cardinality(SourcesOf(rob, p, k)) = Cardinality(DepsOn(rob, p, k))
<1> DEFINE J == {j \in DOMAIN rob[k].ins.rsrc : <<k, j>> \in rob[p].reg_depend_on_me}
           D == DepsOn(rob, p, k)
           G == /\ Cardinality(D) \in Nat
                /\ D # {} => k \in p + 1 .. ns - 1 /\ Cardinality(D) > 0
                /\ k \in h .. ns - 1 =>
                     /\ J \subseteq Pending(rob, h, k) /\ IsFiniteSet(Pending(rob, h, k))
                     /\ Cardinality(J) = Cardinality(D)
<1> SUFFICES G
  BY DEF SourcesOf
<1>k. k \in Int
  BY Sizes DEF Id
<1>1. ASSUME NEW x \in D
      PROVE  k \in p + 1 .. ns - 1 /\ x = <<k, x[2]>> /\ x[2] \in J
  <2>1. x \in rob[p].reg_depend_on_me /\ x[1] = k
    BY DEF DepsOn
  <2>2. x \in Id \X Nat
    BY <2>1 DEF RegTyped
  <2>3. x = <<k, x[2]>>
    BY <2>1, <2>2
  <2>4. x[1] \in p + 1 .. ns - 1 /\ x[2] \in DOMAIN rob[x[1]].ins.rsrc
    BY <2>1 DEF DependsOK
  <2> QED
    BY <2>1, <2>3, <2>4
<1>2. CASE D = {} /\ k \notin h .. ns - 1
  BY <1>2, FS_EmptySet
<1>3. CASE k \in h .. ns - 1
  <2>1. IsFiniteSet(DOMAIN rob[k].ins.rsrc)
    <3>1. DOMAIN rob[k].ins.rsrc = 1 .. Len(rob[k].ins.rsrc) /\ Len(rob[k].ins.rsrc) \in Nat
      BY DEF RegTyped
    <3>2. IsFiniteSet(1 .. Len(rob[k].ins.rsrc))
      <4>1. 1 \in Int /\ Len(rob[k].ins.rsrc) \in Int
        BY <3>1
      <4> QED
        BY <4>1, FS_Interval
    <3> QED
      BY <3>1, <3>2
  <2>2. J \in SUBSET DOMAIN rob[k].ins.rsrc /\ Pending(rob, h, k) \in SUBSET DOMAIN rob[k].ins.rsrc
    BY DEF Pending
  <2>3. IsFiniteSet(J) /\ IsFiniteSet(Pending(rob, h, k))
    BY <2>1, <2>2, FS_Subset
  <2> DEFINE f == [j \in J |-> <<k, j>>]
  <2>4. \A j \in J : <<k, j>> \in D
    BY DEF DepsOn
  <2>5. f \in Bijection(J, D)
    <3>1. f \in [J -> D]
      BY <2>4
    <3>2. \A a, b \in J : f[a] = f[b] => a = b
      OBVIOUS
    <3>3. \A x \in D : \E j \in J : f[j] = x
      BY <1>1
    <3> HIDE DEF f, J, D
    <3> QED
      BY <3>1, <3>2, <3>3 DEF Bijection, Injection, Surjection, IsInjective
  <2>6. IsFiniteSet(D) /\ Cardinality(D) = Cardinality(J)
    <3> HIDE DEF f, J, D
    <3>1. ExistsBijection(J, D)
      BY <2>5 DEF ExistsBijection
    <3> QED
      BY <2>3, <3>1, FS_Bijection
  <2>7. J \subseteq Pending(rob, h, k)
    <3>1. ASSUME NEW j \in J PROVE j \in Pending(rob, h, k)
      <4>0. k \in p + 1 .. ns - 1
        BY <1>1, <2>4
      <4>1. p \in h .. k - 1
        BY <1>k, <4>0
      <4> QED
        BY <4>1 DEF Pending
    <3> QED
      BY <3>1
  <2>8. Cardinality(D) \in Nat /\ (D # {} => Cardinality(D) > 0)
    <3> HIDE DEF D
    <3> QED
      BY <2>6, FS_CardinalityType, FS_EmptySet
  <2> QED
    BY <1>1, <1>3, <2>3, <2>6, <2>7, <2>8
<1>4. D # {} => k \in h .. ns - 1
  <2> HIDE DEF D, J
  <2>1. ASSUME NEW x \in D PROVE k \in h .. ns - 1
    <3>1. k \in p + 1 .. ns - 1
      BY <1>1
    <3> QED
      BY <3>1
  <2> QED
    BY <2>1
<1> HIDE DEF G, D
<1> QED
  BY <1>2, <1>3, <1>4

LEMMA RegRelease ==
  ASSUME NEW rob, NEW new, NEW RT \in [Lists -> Seq(Nat)], NEW RT2, NEW h \in Nat \ {0}, NEW ns \in Nat,
         ns <= MaxInstr + 1, ns - h <= ROB_SIZE,
         RegInv(rob, RT, h, ns), NEW p \in h .. ns - 1, rob[p].executed = "INFLIGHT",
         RegTyped(rob), Released(rob, new, h, ns, p),
         RT2["RTE0"] = RT["RTE0"] \o InRobOrder({i \in FreedBy(rob, p) : ~is_memory(rob[i])}),
         RT2["RTE1"] = RT["RTE1"]
  PROVE  /\ RegInv(new, RT2, h, ns) /\ \A k \in h .. ns - 1 : new[k].num_reg_dependent \in Nat
         /\ FreedBy(rob, p) \subseteq p + 1 .. ns - 1 /\ RT2["RTE0"] \in Seq(Nat)
<1>0. DependsOK(rob, h, ns) /\ WritersOK(rob, h, ns) /\ CountsOK(rob, h, ns) /\ ReadyOK(rob, RT, h, ns)
  BY DEF RegInv
<1>i. MaxInstr \in Nat /\ ROB_SIZE \in Nat /\ h .. ns - 1 \subseteq Id /\ Id \subseteq Int
  BY SizesAssumption DEF Id
<1>1. ~Done(rob[p]) /\ p \in Id /\ rob[p].reg_depend_on_me \subseteq Id \X Nat
  BY <1>i DEF Done, RegTyped
<1>3. ASSUME NEW k \in FreedBy(rob, p) PROVE k \in p + 1 .. ns - 1
  <2>1. k \in Id /\ Cardinality(DepsOn(rob, p, k)) > 0
    BY DEF FreedBy
  <2>2. DepsOn(rob, p, k) # {}
    <3>1. Cardinality({}) = 0 /\ ~(0 > 0)
      BY FS_EmptySet
    <3> QED
      BY <2>1, <3>1
  <2> QED
    BY <1>0, <1>1, <2>1, <2>2, DepsCount
<1>4. ASSUME NEW k \in FreedBy(rob, p)
      PROVE  k \in h .. ns - 1 /\ k # p /\ ~rob[k].reg_ready /\ rob[k].executed = "NO"
  <2>1. k \in h .. ns - 1 /\ k # p
    BY <1>3
  <2>2. rob[k].num_reg_dependent # 0
    BY DEF FreedBy
  <2> QED
    BY <1>0, <2>1, <2>2 DEF CountsOK
<1>6. ASSUME NEW k \in h .. ns - 1 PROVE Done(new[k]) <=> (Done(rob[k]) \/ k = p)
  BY DEF Done, Released
<1>7. DependsOK(new, h, ns) /\ WritersOK(new, h, ns)
  <2>1. SameLinks(rob, new, h, ns)
    BY <1>6 DEF SameLinks, Released
  <2> QED
    BY <1>0, <2>1, LinksKept
<1>8. ASSUME NEW k \in h .. ns - 1
      PROVE  /\ new[k].num_reg_dependent = Cardinality(Pending(new, h, k))
             /\ new[k].num_reg_dependent \in Nat
             /\ new[k].reg_ready => new[k].num_reg_dependent = 0
  <2> DEFINE J == SourcesOf(rob, p, k)
             P == Pending(rob, h, k)
             n == Cardinality(DepsOn(rob, p, k))
  <2>a. /\ Cardinality(DepsOn(rob, p, k)) \in Nat
        /\ k \in h .. ns - 1 =>
              /\ SourcesOf(rob, p, k) \subseteq Pending(rob, h, k) /\ IsFiniteSet(Pending(rob, h, k))
              /\ Cardinality(SourcesOf(rob, p, k)) = Cardinality(DepsOn(rob, p, k))
    <3> HIDE DEF J, P, n
    <3>1. DependsOK(rob, h, ns) /\ k \in Id /\ h \in Nat
      BY <1>0, <1>i
    <3> QED
      BY <1>1, <3>1, DepsCount
  <2>1. J \subseteq P /\ IsFiniteSet(P) /\ Cardinality(J) = n /\ n \in Nat
    BY <2>a
  <2>2. Pending(new, h, k) = P \ J
    <3>1. ASSUME NEW q \in h .. k - 1, NEW j
          PROVE  /\ <<k, j>> \in new[q].reg_depend_on_me <=> <<k, j>> \in rob[q].reg_depend_on_me
                 /\ ~Done(new[q]) <=> ~Done(rob[q]) /\ q # p
                 /\ <<k, j>> \in rob[q].reg_depend_on_me /\ <<k, j>> \in rob[p].reg_depend_on_me => q = p
      <4>1. q \in h .. ns - 1
        OBVIOUS
      <4> QED
        BY <1>0, <1>6, <4>1 DEF Released, DependsOK
    <3>2. new[k].ins = rob[k].ins
      BY DEF Released
    <3> QED
      BY <1>1, <3>1, <3>2 DEF Pending, SourcesOf
  <2>3. rob[k].num_reg_dependent = Cardinality(P) /\ (rob[k].reg_ready => rob[k].num_reg_dependent = 0)
    BY <1>0 DEF CountsOK
  <2> HIDE DEF J, P, n
  <2>4. P \cap J = J
    BY <2>1
  <2>5. Cardinality(P \ J) = Cardinality(P) - n /\ Cardinality(P \ J) \in Nat /\ Cardinality(P) \in Nat
    BY <2>1, <2>4, FS_Difference, FS_CardinalityType
  <2>6. CASE k \in FreedBy(rob, p)
    <3>1. new[k].num_reg_dependent = 0
      BY <2>6 DEF Released
    <3>2. rob[k].num_reg_dependent = n
      BY <2>6 DEF FreedBy, n
    <3> QED
      BY <2>2, <2>3, <2>5, <3>1, <3>2
  <2>7. CASE k \notin FreedBy(rob, p)
    <3>1. new[k].num_reg_dependent = rob[k].num_reg_dependent - n /\ new[k].reg_ready = rob[k].reg_ready
      BY <2>7 DEF Released, n
    <3>2. new[k].num_reg_dependent = Cardinality(P \ J)
      BY <2>1, <2>3, <2>5, <3>1
    <3>3. rob[k].num_reg_dependent = 0 => new[k].num_reg_dependent = 0
      BY <2>1, <2>3, <2>5, <3>1, <3>2
    <3> QED
      BY <2>2, <2>3, <2>5, <3>1, <3>2, <3>3
  <2> QED
    BY <2>6, <2>7
<1>9. CountsOK(new, h, ns)
  <2>1. ASSUME NEW k \in h .. ns - 1,
               new[k].executed # "NO" \/ new[k].source_added # {} \/ new[k].destination_added # {}
        PROVE  new[k].reg_ready
    <3>1. CASE k \in FreedBy(rob, p)
      BY <3>1 DEF Released
    <3>2. CASE k \notin FreedBy(rob, p)
      <4>1. new[k].reg_ready = rob[k].reg_ready
        BY <3>2 DEF Released
      <4>2. rob[k].executed # "NO" \/ rob[k].source_added # {} \/ rob[k].destination_added # {}
        BY <2>1 DEF Released
      <4>3. rob[k].reg_ready
        BY <1>0, <4>2 DEF CountsOK
      <4> QED
        BY <4>1, <4>3
    <3> QED
      BY <3>1, <3>2
  <2> QED
    BY <1>8, <2>1 DEF CountsOK
<1> DEFINE F == {i \in FreedBy(rob, p) : ~is_memory(rob[i])}
           s == InRobOrder(F)
<1>10. s \in Seq(Nat) /\ Elements(s) = F /\ Distinct(s)
  <2>1. F \in SUBSET (h .. h + ROB_SIZE - 1)
    BY <1>4, <1>i
  <2> HIDE DEF F
  <2>2. InRobOrder(F) \in Seq(F) /\ Elements(InRobOrder(F)) = F /\ Distinct(InRobOrder(F))
    BY <2>1, InRobOrderIs
  <2>3. F \subseteq Nat
    BY <2>1
  <2>4. InRobOrder(F) \in Seq(Nat)
    BY <2>2, <2>3, SeqSubset
  <2> QED
    BY <2>2, <2>4
<1>11. \A i \in Elements(RT["RTE0"]) \cup Elements(RT["RTE1"]) : i \notin F
  BY <1>0, <1>4 DEF ReadyOK, Startable
<1>12. RT2["RTE0"] = RT["RTE0"] \o s
  OBVIOUS
<1>13. ASSUME NEW i \in F PROVE i \in h .. ns - 1 /\ Startable(new[i])
  <2>1. i \in h .. ns - 1 /\ i # p /\ rob[i].executed = "NO" /\ i \in FreedBy(rob, p) /\ ~is_memory(rob[i])
    BY <1>4
  <2>2. new[i].ins = rob[i].ins /\ new[i].executed = "NO" /\ new[i].reg_ready
    BY <2>1 DEF Released
  <2> QED
    BY <2>1, <2>2 DEF Startable, is_memory
<1>14. ASSUME NEW i \in h .. ns - 1, Startable(rob[i]) PROVE Startable(new[i])
  <2>1. i # p /\ i \notin FreedBy(rob, p)
    BY <1>4, <1>14 DEF Startable
  <2>2. new[i].ins = rob[i].ins /\ new[i].executed = rob[i].executed /\ new[i].reg_ready = rob[i].reg_ready
    BY <2>1 DEF Released
  <2>3. ~is_memory(new[i])
    BY <1>14, <2>2 DEF Startable, is_memory
  <2> QED
    BY <1>14, <2>2, <2>3 DEF Startable
<1> HIDE DEF F, s
<1>15. RT["RTE0"] \in Seq(Nat)
  BY DEF Lists
<1>16. /\ RT2["RTE0"] \in Seq(Nat) /\ Distinct(RT2["RTE0"])
       /\ Elements(RT2["RTE0"]) = Elements(RT["RTE0"]) \cup F
  <2>1. Distinct(RT["RTE0"]) /\ Elements(RT["RTE0"]) \cap Elements(s) = {}
    BY <1>0, <1>10, <1>11 DEF ReadyOK
  <2>2. /\ RT["RTE0"] \o s \in Seq(Nat) /\ Distinct(RT["RTE0"] \o s)
        /\ Elements(RT["RTE0"] \o s) = Elements(RT["RTE0"]) \cup Elements(s)
    BY <1>10, <1>15, <2>1, ConcatList
  <2> QED
    BY <1>10, <1>12, <2>2
<1>17. ReadyOK(new, RT2, h, ns)
  <2>1. \A i \in Elements(RT["RTE0"]) \cup Elements(RT["RTE1"]) : i \in h .. ns - 1 /\ Startable(new[i])
    BY <1>0, <1>14 DEF ReadyOK
  <2> QED
    BY <1>0, <1>11, <1>13, <1>16, <2>1 DEF ReadyOK
<1> QED
  BY <1>3, <1>7, <1>8, <1>9, <1>16, <1>17 DEF RegInv

-------------------------------------------------------------------------------
(* Types *)

LEMMA InsIs ==
  ASSUME NEW ins \in Instr \cup {NoInstr}
  PROVE  /\ ins.src \in Seq(Addr) /\ ins.dst \in Seq(Addr) /\ ins.rsrc \in Seq(Nat) /\ ins.rdst \in SUBSET Nat
         /\ Len(ins.src) <= LQ_SIZE /\ Len(ins.dst) <= SQ_SIZE
<1>1. CASE ins \in Instr
  BY <1>1, InstrAssumption
<1>2. CASE ins = NoInstr
  BY <1>2, Sizes DEF NoInstr
<1> QED
  BY <1>1, <1>2

LEMMA EntryIs ==
  ASSUME NEW ins \in Instr \cup {NoInstr}
  PROVE  Entry(ins) \in Row
<1>1. /\ ins.src \in Seq(Addr) /\ ins.dst \in Seq(Addr)
  BY InsIs
<1>2. /\ [j \in DOMAIN ins.src |-> LQ_SIZE] \in Seq(0 .. LQ_SIZE)
      /\ [j \in DOMAIN ins.dst |-> SQ_SIZE] \in Seq(0 .. SQ_SIZE)
  <2>1. LQ_SIZE \in 0 .. LQ_SIZE /\ SQ_SIZE \in 0 .. SQ_SIZE
    BY Sizes
  <2>2. /\ DOMAIN ins.src = 1 .. Len(ins.src) /\ DOMAIN ins.dst = 1 .. Len(ins.dst)
        /\ Len(ins.src) \in Nat /\ Len(ins.dst) \in Nat
    BY <1>1
  <2> QED
    BY <2>1, <2>2
<1>3. Len(ins.src) + Len(ins.dst) \in Int
  BY <1>1
<1> QED
  BY <1>2, <1>3 DEF Entry, Row, Status

LEMMA ShapeIs ==
  ASSUME NEW c \in Shape
  PROVE  /\ c.rob \in [Id -> Row] /\ c.LQ \in [LqSlot -> Loads] /\ c.LQ_occupancy \in Int
         /\ c.SQ \in [SqSlot -> Stores] /\ c.SQ_occupancy \in Int /\ c.SQ_head \in SqSlot
         /\ c.SQ_tail \in SqSlot /\ c.STA \in Seq(Id) /\ c.RT \in [Lists -> Seq(Nat)]
         /\ c.inflight_reg \in Int /\ c.inflight_mem \in Int
BY DEF Shape

LEMMA RowIs ==
  ASSUME NEW e \in Row
  PROVE  /\ e.ins \in Instr \cup {NoInstr} /\ e.reg_ready \in BOOLEAN /\ e.num_reg_dependent \in Int
         /\ e.scheduled \in Status /\ e.executed \in Status /\ e.num_mem_ops \in Int
         /\ e.source_added \in SUBSET Nat /\ e.destination_added \in SUBSET Nat
         /\ e.lq_index \in Seq(0 .. LQ_SIZE) /\ e.sq_index \in Seq(0 .. SQ_SIZE)
         /\ e.reg_depend_on_me \in SUBSET (Id \X Nat) /\ e.mem_depend_on_me \in SUBSET Id
         /\ e.ins.src \in Seq(Addr) /\ e.ins.dst \in Seq(Addr) /\ e.ins.rsrc \in Seq(Nat)
<1>1. e.ins \in Instr \cup {NoInstr}
  BY DEF Row
<1> QED
  BY <1>1, InsIs DEF Row

LEMMA LoadIs ==
  ASSUME NEW x \in Loads
  PROVE  x.id \in Id \cup {0} /\ x.addr \in Addr \cup {0} /\ x.producer_id \in Id \cup {0}
BY DEF Loads

LEMMA StoreIs ==
  ASSUME NEW x \in Stores
  PROVE  x.id \in Id \cup {0} /\ x.addr \in Addr \cup {0} /\ x.fetched \in BOOLEAN
BY DEF Stores

(* An update of one entry. *)
LEMMA RowUpdate ==
  ASSUME NEW rob \in [Id -> Row], NEW i \in Id, NEW e \in Row
  PROVE  [rob EXCEPT ![i] = e] \in [Id -> Row] /\ \A k \in Id : [rob EXCEPT ![i] = e][k] = IF k = i THEN e ELSE rob[k]
OBVIOUS

(* A record with the fields of an entry, and their types. *)
RowNames ==
  {"ins", "reg_ready", "num_reg_dependent", "scheduled", "executed", "num_mem_ops", "source_added",
   "destination_added", "lq_index", "sq_index", "reg_depend_on_me", "mem_depend_on_me"}
IsRow(e) == e = [f \in RowNames |-> e[f]]
RowTyped(e) ==
  /\ e.ins \in Instr \cup {NoInstr} /\ e.reg_ready \in BOOLEAN /\ e.num_reg_dependent \in Int
  /\ e.scheduled \in Status /\ e.executed \in Status /\ e.num_mem_ops \in Int
  /\ e.source_added \in SUBSET Nat /\ e.destination_added \in SUBSET Nat
  /\ e.lq_index \in Seq(0 .. LQ_SIZE) /\ e.sq_index \in Seq(0 .. SQ_SIZE)
  /\ e.reg_depend_on_me \in SUBSET (Id \X Nat) /\ e.mem_depend_on_me \in SUBSET Id

LEMMA RowIff ==
  ASSUME NEW e
  PROVE  e \in Row <=> IsRow(e) /\ RowTyped(e)
<1>1. ASSUME e \in Row PROVE IsRow(e)
  BY <1>1 DEF Row, IsRow, RowNames
<1>2. ASSUME e \in Row PROVE RowTyped(e)
  BY <1>2 DEF Row, RowTyped
<1>3. ASSUME IsRow(e), RowTyped(e) PROVE e \in Row
  <2> DEFINE F1 == Instr \cup {NoInstr}
             F2 == BOOLEAN
             F3 == SUBSET Nat
             F4 == Seq(0 .. LQ_SIZE)
             F5 == Seq(0 .. SQ_SIZE)
             F6 == SUBSET (Id \X Nat)
             F7 == SUBSET Id
             F8 == Status
             T == [ins : F1, reg_ready : F2, num_reg_dependent : Int, scheduled : F8, executed : F8,
                   num_mem_ops : Int, source_added : F3, destination_added : F3, lq_index : F4, sq_index : F5,
                   reg_depend_on_me : F6, mem_depend_on_me : F7]
  <2>1. T = Row
    BY DEF Row
  <2>2. /\ e.ins \in F1 /\ e.reg_ready \in F2 /\ e.num_reg_dependent \in Int
        /\ e.scheduled \in F8 /\ e.executed \in F8 /\ e.num_mem_ops \in Int
        /\ e.source_added \in F3 /\ e.destination_added \in F3 /\ e.lq_index \in F4 /\ e.sq_index \in F5
        /\ e.reg_depend_on_me \in F6 /\ e.mem_depend_on_me \in F7
    BY <1>3, Zenon DEF RowTyped
  <2> HIDE DEF F1, F2, F3, F4, F5, F6, F7, F8
  <2>3. e \in T
    BY <1>3, <2>2 DEF IsRow, RowNames
  <2> QED
    BY <2>1, <2>3
<1> QED
  BY <1>1, <1>2, <1>3

(* A record with the fields of core, and their types. *)
Names == {"rob", "LQ", "LQ_occupancy", "SQ", "SQ_occupancy", "SQ_head", "SQ_tail", "STA", "RT",
          "inflight_reg", "inflight_mem"}
IsCore(c) == c = [f \in Names |-> c[f]]
Typed(c) ==
  /\ c.rob \in [Id -> Row] /\ c.LQ \in [LqSlot -> Loads] /\ c.LQ_occupancy \in Int
  /\ c.SQ \in [SqSlot -> Stores] /\ c.SQ_occupancy \in Int /\ c.SQ_head \in SqSlot /\ c.SQ_tail \in SqSlot
  /\ c.STA \in Seq(Id) /\ c.RT \in [Lists -> Seq(Nat)] /\ c.inflight_reg \in Int /\ c.inflight_mem \in Int

LEMMA ShapeIff ==
  ASSUME NEW c
  PROVE  c \in Shape <=> IsCore(c) /\ Typed(c)
<1>1. ASSUME c \in Shape PROVE IsCore(c)
  BY <1>1 DEF Shape, IsCore, Names
<1>2. ASSUME c \in Shape PROVE Typed(c)
  BY <1>2 DEF Shape, Typed
<1>3. ASSUME IsCore(c), Typed(c) PROVE c \in Shape
  <2> DEFINE F1 == [Id -> Row]
           F2 == [LqSlot -> Loads]
           F3 == [SqSlot -> Stores]
           F4 == SqSlot
           F5 == Seq(Id)
           F6 == [Lists -> Seq(Nat)]
           T == [rob : F1, LQ : F2, LQ_occupancy : Int, SQ : F3, SQ_occupancy : Int, SQ_head : F4,
                    SQ_tail : F4, STA : F5, RT : F6, inflight_reg : Int, inflight_mem : Int]
  <2>1. T = Shape
    BY DEF Shape
  <2>2. /\ c.rob \in F1 /\ c.LQ \in F2 /\ c.LQ_occupancy \in Int
  /\ c.SQ \in F3 /\ c.SQ_occupancy \in Int /\ c.SQ_head \in F4 /\ c.SQ_tail \in F4
  /\ c.STA \in F5 /\ c.RT \in F6 /\ c.inflight_reg \in Int /\ c.inflight_mem \in Int
    BY <1>3 DEF Typed
  <2> HIDE DEF F1, F2, F3, F4, F5, F6
  <2>3. c \in T
    BY <1>3, <2>2 DEF IsCore, Names
  <2> QED
    BY <2>1, <2>3
<1> QED BY <1>1, <1>2, <1>3

-------------------------------------------------------------------------------
(* Frames: what the steps that do not touch the memory operations keep *)

MemSame(e, f) ==
  /\ f.ins = e.ins /\ f.num_mem_ops = e.num_mem_ops
  /\ f.source_added = e.source_added /\ f.destination_added = e.destination_added
  /\ f.lq_index = e.lq_index /\ f.sq_index = e.sq_index /\ f.mem_depend_on_me = e.mem_depend_on_me

MemFrame(rob, new) == \A i \in Id : MemSame(rob[i], new[i])
MemFrameIn(rob, new, h, ns) == \A i \in h .. ns - 1 : MemSame(rob[i], new[i])
NoneAdded(rob, ns, ns2) == \A i \in ns .. ns2 - 1 : rob[i].destination_added = {}

(* The memory dependences of the instructions h .. ns - 1 stay as they were *)
(* and those up to ns2 have none yet.                                       *)
DependFrame(rob, new, h, ns, ns2) ==
  /\ \A i \in h .. ns - 1 :
       /\ new[i].ins = rob[i].ins /\ new[i].source_added = rob[i].source_added
       /\ new[i].lq_index = rob[i].lq_index /\ new[i].mem_depend_on_me = rob[i].mem_depend_on_me
  /\ \A i \in ns .. ns2 - 1 : new[i].source_added = {} /\ new[i].mem_depend_on_me = {}

SameIns(rob, new, h, ns) == \A q \in h .. ns - 1 : new[q].ins = rob[q].ins

LEMMA NearestKept ==
  ASSUME NEW rob, NEW new, NEW h0 \in Nat, NEW h \in Nat, h0 <= h, NEW ns \in Nat, NEW i \in h .. ns - 1,
         SameIns(rob, new, h, ns), NEW a, NEW p \in h .. i - 1
  PROVE  NearestStore(new, h, i, a, p) <=> NearestStore(rob, h0, i, a, p)
<1> DEFINE Q == p + 1 .. i - 1
<1>1. \A q \in Q : new[q].ins = rob[q].ins
  BY DEF SameIns
<1>2. p \in h0 .. i - 1 /\ p \in h .. i - 1 /\ new[p].ins = rob[p].ins
  BY DEF SameIns
<1>3. /\ NearestStore(new, h, i, a, p) <=> a \in Range(new[p].ins.dst) /\ \A q \in Q : a \notin Range(new[q].ins.dst)
      /\ NearestStore(rob, h0, i, a, p) <=> a \in Range(rob[p].ins.dst) /\ \A q \in Q : a \notin Range(rob[q].ins.dst)
  BY <1>2, Zenon DEF NearestStore
<1> HIDE DEF Q
<1>4. \A q \in Q : a \notin Range(new[q].ins.dst) <=> a \notin Range(rob[q].ins.dst)
  BY <1>1
<1> QED
  BY <1>2, <1>3, <1>4

LEMMA LinkedKept ==
  ASSUME NEW rob, NEW new, NEW h0 \in Nat, NEW h \in Nat, h0 <= h, NEW ns \in Nat, NEW ns2 \in Nat, ns <= ns2,
         DependFrame(rob, new, h, ns, ns2), LinkedOK(rob, h0, ns)
  PROVE  LinkedOK(new, h, ns2)
<1> SUFFICES ASSUME NEW i \in h .. ns2 - 1, NEW k \in new[i].source_added, NEW p \in h .. i - 1,
                    NearestStore(new, h, i, new[i].ins.src[k], p)
             PROVE  i \in new[p].mem_depend_on_me
  BY DEF LinkedOK
<1>1. i \in h .. ns - 1
  <2>1. i \notin ns .. ns2 - 1
    BY DEF DependFrame
  <2> QED
    BY <2>1
<1>2. p \in h .. ns - 1 /\ i \in h0 .. ns - 1 /\ p \in h0 .. i - 1
  BY <1>1
<1>3. new[i].ins = rob[i].ins /\ k \in rob[i].source_added /\ new[p].mem_depend_on_me = rob[p].mem_depend_on_me
  BY <1>1, <1>2 DEF DependFrame
<1>4. NearestStore(rob, h0, i, rob[i].ins.src[k], p)
  <2>1. SameIns(rob, new, h, ns)
    BY DEF DependFrame, SameIns
  <2> DEFINE a == rob[i].ins.src[k]
  <2>2. NearestStore(new, h, i, a, p)
    <3>1. new[i].ins.src[k] = a
      BY <1>3
    <3> HIDE DEF a
    <3> QED
      BY <3>1, Zenon
  <2> HIDE DEF a
  <2>3. NearestStore(rob, h0, i, a, p)
    <3>1. NearestStore(new, h, i, a, p) <=> NearestStore(rob, h0, i, a, p)
      BY <1>1, <2>1, NearestKept, Zenon
    <3> QED
      BY <2>2, <3>1
  <2> QED
    BY <2>3 DEF a
<1>5. i \in rob[p].mem_depend_on_me
  BY <1>2, <1>3, <1>4 DEF LinkedOK
<1> QED
  BY <1>3, <1>5

(* A load that waits for an instruction's only store, which is not written, *)
(* keeps its slot.                                                          *)
StillWaits(rob, new, LQ, LQ2, SQ, SQ2, h, ns) ==
  \A p \in h .. ns - 1 : \A j \in DOMAIN rob[p].ins.dst :
    OneStore(rob[p]) /\ Unwritten(new[p], SQ2, j) =>
      Unwritten(rob[p], SQ, j) /\ \A l \in LqSlot : LQ[l].producer_id = p => LQ2[l] = LQ[l]

LEMMA WaitingKept ==
  ASSUME NEW e, NEW f, NEW LQ, NEW LQ2, NEW i, NEW k, NEW p, Waiting(e, LQ, i, k, p),
         f.ins = e.ins, f.lq_index = e.lq_index, f.source_added = e.source_added,
         \A l \in LqSlot : LQ[l].producer_id = p => LQ2[l] = LQ[l]
  PROVE  Waiting(f, LQ2, i, k, p)
<1> DEFINE l == e.lq_index[k]
           a == e.ins.src[k]
<1>1. /\ l \in LqSlot /\ LQ[l] = [id |-> i, addr |-> a, producer_id |-> p]
      /\ \A n \in e.source_added : e.lq_index[n] = l /\ e.ins.src[n] = a => n = k
  BY DEF Waiting
<1>2. f.lq_index[k] = l /\ f.ins.src[k] = a
  OBVIOUS
<1> HIDE DEF l, a
<1>3. LQ2[l] = LQ[l]
  <2>1. LQ[l].producer_id = p
    BY <1>1
  <2> QED
    BY <1>1, <2>1
<1> QED
  BY <1>1, <1>2, <1>3 DEF Waiting

LEMMA ForwardsKept ==
  ASSUME NEW rob, NEW new, NEW h0 \in Nat, NEW h \in Nat, h0 <= h, NEW ns \in Nat, NEW ns2 \in Nat, ns <= ns2,
         NEW LQ, NEW LQ2, NEW SQ, NEW SQ2, DependFrame(rob, new, h, ns, ns2),
         StillWaits(rob, new, LQ, LQ2, SQ, SQ2, h, ns), ForwardsOK(rob, LQ, SQ, h0, ns)
  PROVE  ForwardsOK(new, LQ2, SQ2, h, ns2)
<1> SUFFICES ASSUME NEW p \in h .. ns2 - 1, OneStore(new[p]), NEW i \in new[p].mem_depend_on_me
             PROVE  /\ i \in p + 1 .. ns2 - 1
                    /\ \A j \in DOMAIN new[p].ins.dst :
                         /\ NearestStore(new, h, i, new[p].ins.dst[j], p)
                         /\ Unwritten(new[p], SQ2, j) =>
                              \A k \in new[i].source_added :
                                new[i].ins.src[k] = new[p].ins.dst[j] => Waiting(new[i], LQ2, i, k, p)
  BY Zenon DEF ForwardsOK
<1>1. p \in h .. ns - 1 /\ p \in h0 .. ns - 1
  <2>1. p \notin ns .. ns2 - 1
    BY DEF DependFrame
  <2> QED
    BY <2>1
<1>2. i \in rob[p].mem_depend_on_me /\ new[p].ins = rob[p].ins
  BY <1>1 DEF DependFrame
<1>o. OneStore(rob[p])
  BY <1>2 DEF OneStore
<1>3. i \in p + 1 .. ns - 1
  BY <1>1, <1>2, <1>o DEF ForwardsOK
<1>4. i \in h .. ns - 1 /\ i \in p + 1 .. ns2 - 1 /\ p \in h .. i - 1
  BY <1>1, <1>3
<1>5. new[i].ins = rob[i].ins /\ new[i].source_added = rob[i].source_added /\ new[i].lq_index = rob[i].lq_index
  BY <1>4 DEF DependFrame
<1>6. ASSUME NEW j \in DOMAIN rob[p].ins.dst
      PROVE  /\ NearestStore(new, h, i, rob[p].ins.dst[j], p)
             /\ Unwritten(new[p], SQ2, j) =>
                  \A k \in rob[i].source_added :
                    rob[i].ins.src[k] = rob[p].ins.dst[j] => Waiting(new[i], LQ2, i, k, p)
  <2> DEFINE a == rob[p].ins.dst[j]
  <2>1. /\ NearestStore(rob, h0, i, a, p)
        /\ Unwritten(rob[p], SQ, j) =>
             \A k \in rob[i].source_added : rob[i].ins.src[k] = a => Waiting(rob[i], LQ, i, k, p)
    BY Zenon, <1>1, <1>2, <1>o DEF ForwardsOK
  <2> HIDE DEF a
  <2>2. NearestStore(new, h, i, a, p)
    <3>1. SameIns(rob, new, h, ns)
      BY DEF DependFrame, SameIns
    <3>2. NearestStore(new, h, i, a, p) <=> NearestStore(rob, h0, i, a, p)
      BY <1>4, <3>1, NearestKept, Zenon
    <3> QED
      BY <2>1, <3>2
  <2>3. ASSUME Unwritten(new[p], SQ2, j), NEW k \in rob[i].source_added, rob[i].ins.src[k] = a
        PROVE  Waiting(new[i], LQ2, i, k, p)
    <3>1. Unwritten(rob[p], SQ, j) /\ \A l \in LqSlot : LQ[l].producer_id = p => LQ2[l] = LQ[l]
      BY <1>1, <1>o, <2>3 DEF StillWaits
    <3>2. Waiting(rob[i], LQ, i, k, p)
      BY <2>1, <2>3, <3>1
    <3> QED
      BY <1>5, <3>1, <3>2, WaitingKept
  <2> QED
    BY <2>2, <2>3 DEF a
<1> QED
  BY <1>2, <1>4, <1>5, <1>6

LEMMA LoadKept ==
  ASSUME NEW rob, NEW new, NEW LQ, NEW SQ, NEW h \in Nat \ {0}, NEW ns \in Nat, NEW ns2 \in Nat,
         ns <= ns2, ns <= MaxInstr + 1, MemFrameIn(rob, new, h, ns), LoadInv(rob, LQ, SQ, h, ns),
         \A i \in ns .. ns2 - 1 : new[i].source_added = {} /\ new[i].mem_depend_on_me = {}
  PROVE  LoadInv(new, LQ, SQ, h, ns2)
<1>1. LoadsOK(new, LQ, h, ns2)
  BY DEF LoadInv, LoadsOK, MemSame, MemFrameIn
<1>2. ProducersOK(new, LQ, SQ, h)
  <2> SUFFICES ASSUME NEW l \in LqSlot, LQ[l].addr # 0
               PROVE  LET i == LQ[l].id
                          a == LQ[l].addr
                          p == LQ[l].producer_id
                      IN  IF p = 0 THEN \A q \in h .. i - 1 : a \notin Range(new[q].ins.dst)
                          ELSE /\ NearestStore(new, h, i, a, p)
                               /\ i \in new[p].mem_depend_on_me
                               /\ \E j \in DOMAIN new[p].ins.dst : new[p].ins.dst[j] = a /\ Unwritten(new[p], SQ, j)
    BY Zenon DEF ProducersOK
  <2> DEFINE i == LQ[l].id
             p == LQ[l].producer_id
  <2>1. i \in h .. ns - 1
    BY DEF LoadInv, LoadsOK
  <2>2. ASSUME NEW q \in h .. i - 1 PROVE q \in h .. ns - 1 /\ MemSame(rob[q], new[q])
    BY <2>1 DEF MemFrameIn
  <2>3. CASE p = 0
    <3>1. \A q \in h .. i - 1 : LQ[l].addr \notin Range(rob[q].ins.dst)
      BY <2>3 DEF LoadInv, ProducersOK
    <3> QED
      BY <2>2, <2>3, <3>1 DEF MemSame
  <2>4. CASE p # 0
    <3>1. /\ NearestStore(rob, h, i, LQ[l].addr, p) /\ i \in rob[p].mem_depend_on_me
          /\ \E j \in DOMAIN rob[p].ins.dst : rob[p].ins.dst[j] = LQ[l].addr /\ Unwritten(rob[p], SQ, j)
      BY Zenon, <2>4 DEF LoadInv, ProducersOK
    <3>2. p \in h .. i - 1 /\ \A q \in p + 1 .. i - 1 : q \in h .. i - 1
      BY <2>1, <3>1 DEF NearestStore
    <3>3. MemSame(rob[p], new[p]) /\ \A q \in p + 1 .. i - 1 : MemSame(rob[q], new[q])
      BY <2>2, <3>2
    <3>4. NearestStore(new, h, i, LQ[l].addr, p)
      BY Zenon, <3>1, <3>3 DEF NearestStore, MemSame
    <3>5. /\ i \in new[p].mem_depend_on_me
          /\ \E j \in DOMAIN new[p].ins.dst : new[p].ins.dst[j] = LQ[l].addr /\ Unwritten(new[p], SQ, j)
      BY <3>1, <3>3 DEF Unwritten, MemSame
    <3> QED
      BY <2>4, <3>4, <3>5
  <2> QED
    BY Zenon, <2>3, <2>4
<1>3. DependFrame(rob, new, h, ns, ns2) /\ StillWaits(rob, new, LQ, LQ, SQ, SQ, h, ns)
  BY DEF DependFrame, StillWaits, MemFrameIn, MemSame, Unwritten
<1>4. LinkedOK(new, h, ns2) /\ ForwardsOK(new, LQ, SQ, h, ns2)
  <2>1. LinkedOK(rob, h, ns) /\ ForwardsOK(rob, LQ, SQ, h, ns) /\ h \in Nat /\ h <= h
    BY DEF LoadInv
  <2> QED
    BY <1>3, <2>1, LinkedKept, ForwardsKept
<1> QED
  BY <1>1, <1>2, <1>4 DEF LoadInv

SameStores(c, new) ==
  /\ new.SQ = c.SQ /\ new.SQ_head = c.SQ_head /\ new.SQ_tail = c.SQ_tail
  /\ new.SQ_occupancy = c.SQ_occupancy /\ new.STA = c.STA

(* What StoresOK and LoadsOK say of one used slot. *)
LEMMA StoreSlot ==
  ASSUME NEW rob, NEW SQ, NEW h, NEW ns, StoresOK(rob, SQ, h, ns), NEW s \in SqSlot
  PROVE  /\ SQ[s].addr = 0 => SQ[s] = EmptyStore
         /\ SQ[s].addr # 0 => /\ SQ[s].id \in h .. ns - 1
                              /\ \E j \in rob[SQ[s].id].destination_added : rob[SQ[s].id].sq_index[j] = s
BY DEF StoresOK

LEMMA StoreEntry ==
  ASSUME NEW rob, NEW SQ, NEW h, NEW ns, StoresOK(rob, SQ, h, ns), NEW i \in h .. ns - 1,
         NEW j \in rob[i].destination_added
  PROVE  /\ rob[i].sq_index[j] \in SqSlot
         /\ SQ[rob[i].sq_index[j]].id = i /\ SQ[rob[i].sq_index[j]].addr = rob[i].ins.dst[j]
         /\ \A k \in rob[i].destination_added : rob[i].sq_index[j] = rob[i].sq_index[k] => j = k
BY DEF StoresOK

LEMMA LoadSlot ==
  ASSUME NEW rob, NEW LQ, NEW h, NEW ns, LoadsOK(rob, LQ, h, ns), NEW l \in LqSlot
  PROVE  /\ LQ[l].addr = 0 => LQ[l] = EmptyLoad
         /\ LQ[l].addr # 0 =>
              /\ LQ[l].id \in h .. ns - 1
              /\ \E k \in rob[LQ[l].id].source_added :
                   rob[LQ[l].id].lq_index[k] = l /\ rob[LQ[l].id].ins.src[k] = LQ[l].addr
BY DEF LoadsOK

(* A slot that names an instruction is used. *)
LEMMA UsedSlots ==
  ASSUME NEW rob, NEW LQ, NEW SQ, NEW h, NEW ns, LoadsOK(rob, LQ, h, ns), StoresOK(rob, SQ, h, ns)
  PROVE  /\ \A l \in LqSlot : LQ[l].id # 0 =>
              LQ[l].addr # 0 /\ LQ[l].id \in h .. ns - 1 /\ rob[LQ[l].id].source_added # {}
         /\ \A s \in SqSlot : SQ[s].id # 0 =>
              SQ[s].addr # 0 /\ SQ[s].id \in h .. ns - 1 /\ rob[SQ[s].id].destination_added # {}
<1>1. EmptyLoad.id = 0 /\ EmptyStore.id = 0
  BY DEF EmptyLoad, EmptyStore
<1>2. ASSUME NEW l \in LqSlot, LQ[l].id # 0
      PROVE  LQ[l].addr # 0 /\ LQ[l].id \in h .. ns - 1 /\ rob[LQ[l].id].source_added # {}
  BY <1>1, <1>2, LoadSlot
<1>3. ASSUME NEW s \in SqSlot, SQ[s].id # 0
      PROVE  SQ[s].addr # 0 /\ SQ[s].id \in h .. ns - 1 /\ rob[SQ[s].id].destination_added # {}
  BY <1>1, <1>3, StoreSlot
<1> QED
  BY Zenon, <1>2, <1>3

LEMMA RingKept ==
  ASSUME NEW c, NEW new, SameStores(c, new), RingOK(c)
  PROVE  RingOK(new)
BY DEF SameStores, RingOK, at

LEMMA StoreKept ==
  ASSUME NEW c, NEW new, NEW h \in Nat \ {0}, NEW ns \in Nat, NEW ns2 \in Nat, NEW t \in Nat,
         ns <= ns2, ns2 <= t, t <= MaxInstr + 1, SameStores(c, new), MemFrame(c.rob, new.rob),
         NoneAdded(new.rob, ns, ns2), StoreInv(c, h, t, ns)
  PROVE  StoreInv(new, h, t, ns2)
<1>1. RingOK(new)
  BY RingKept DEF StoreInv
<1>2. h .. t - 1 \subseteq Id /\ h .. ns - 1 \subseteq Id /\ h .. ns2 - 1 \subseteq Id
  BY Sizes DEF Id
<1>3. StoresOK(new.rob, new.SQ, h, ns2)
  <2>1. ASSUME NEW s \in SqSlot
        PROVE  IF new.SQ[s].addr = 0 THEN new.SQ[s] = EmptyStore
               ELSE /\ new.SQ[s].id \in h .. ns2 - 1
                    /\ \E j \in new.rob[new.SQ[s].id].destination_added : new.rob[new.SQ[s].id].sq_index[j] = s
    <3>1. new.SQ = c.SQ /\ StoresOK(c.rob, c.SQ, h, ns)
      BY DEF SameStores, StoreInv
    <3>2. CASE c.SQ[s].addr = 0
      BY <3>1, <3>2, StoreSlot
    <3>3. CASE c.SQ[s].addr # 0
      <4> DEFINE i == c.SQ[s].id
      <4>1. i \in h .. ns - 1 /\ \E j \in c.rob[i].destination_added : c.rob[i].sq_index[j] = s
        BY <3>1, <3>3, StoreSlot
      <4>2. /\ new.rob[i].destination_added = c.rob[i].destination_added
            /\ new.rob[i].sq_index = c.rob[i].sq_index
        BY Zenon, <1>2, <4>1 DEF MemFrame, MemSame
      <4>3. i \in h .. ns2 - 1
        BY <4>1
      <4> HIDE DEF i
      <4>4. \E j \in new.rob[i].destination_added : new.rob[i].sq_index[j] = s
        BY <4>1, <4>2
      <4> QED
        BY Zenon, <3>1, <3>3, <4>3, <4>4 DEF i
    <3> QED
      BY Zenon, <3>2, <3>3
  <2>2. ASSUME NEW i \in h .. ns2 - 1, NEW j \in new.rob[i].destination_added
        PROVE  /\ new.rob[i].sq_index[j] \in SqSlot
               /\ new.SQ[new.rob[i].sq_index[j]].id = i
               /\ new.SQ[new.rob[i].sq_index[j]].addr = new.rob[i].ins.dst[j]
               /\ \A k \in new.rob[i].destination_added : new.rob[i].sq_index[j] = new.rob[i].sq_index[k] => j = k
    <3>1. i \in h .. ns - 1
      BY <2>2 DEF NoneAdded
    <3>2. MemSame(c.rob[i], new.rob[i])
      BY <1>2, <3>1 DEF MemFrame
    <3>3. new.SQ = c.SQ /\ StoresOK(c.rob, c.SQ, h, ns)
      BY DEF SameStores, StoreInv
    <3>4. /\ new.rob[i].destination_added = c.rob[i].destination_added
          /\ new.rob[i].sq_index = c.rob[i].sq_index /\ new.rob[i].ins = c.rob[i].ins
      BY Zenon, <3>2 DEF MemSame
    <3>5. j \in c.rob[i].destination_added
      BY <2>2, <3>4
    <3>6. /\ c.rob[i].sq_index[j] \in SqSlot
          /\ c.SQ[c.rob[i].sq_index[j]].id = i
          /\ c.SQ[c.rob[i].sq_index[j]].addr = c.rob[i].ins.dst[j]
          /\ \A k \in c.rob[i].destination_added : c.rob[i].sq_index[j] = c.rob[i].sq_index[k] => j = k
      BY <3>1, <3>3, <3>5, StoreEntry
    <3> QED
      BY Zenon, <3>3, <3>4, <3>6
  <2> QED
    BY Zenon, <2>1, <2>2 DEF StoresOK
<1>4. OrderOK(new, h, t)
  <2>1. \A k : at(new, k) = at(c, k)
    BY DEF at, SameStores
  <2>2. \A i \in h .. t - 1 : new.rob[i].ins = c.rob[i].ins /\ new.rob[i].destination_added = c.rob[i].destination_added
    BY <1>2 DEF MemFrame, MemSame
  <2> QED
    BY <2>1, <2>2 DEF StoreInv, OrderOK, SameStores
<1> QED
  BY <1>1, <1>3, <1>4 DEF StoreInv

LEMMA OpsKept ==
  ASSUME NEW rob, NEW new, NEW LQ, NEW SQ, NEW h \in Nat \ {0}, NEW t \in Nat, t <= MaxInstr + 1,
         MemFrame(rob, new), OpsOK(rob, LQ, SQ, h, t),
         \A i \in h .. t - 1 : Done(new[i]) => Done(rob[i]) \/ rob[i].num_mem_ops = 0
  PROVE  OpsOK(new, LQ, SQ, h, t)
<1>1. h .. t - 1 \subseteq Id
  BY Sizes DEF Id
<1>2. ASSUME NEW i \in h .. t - 1 PROVE MemSame(rob[i], new[i])
  BY <1>1 DEF MemFrame
<1> QED
  BY <1>2 DEF OpsOK, MemSame

LEMMA PlacesKept ==
  ASSUME NEW c, NEW new, NEW d, NEW r, PlacesOK(c, d, r), new.LQ = c.LQ, new.SQ = c.SQ,
         \A x \in {"RTL0", "RTL1", "RTS0", "RTS1"} : new.RT[x] = c.RT[x]
  PROVE  PlacesOK(new, d, r)
BY DEF PlacesOK

LEMMA EntriesKept ==
  ASSUME NEW rob, NEW new, NEW h, NEW t, NEW ns, EntriesOK(rob, h, t, ns), MemFrame(rob, new),
         \A i \in Id : i \notin h .. ns - 1 => new[i] = rob[i]
  PROVE  EntriesOK(new, h, t, ns)
BY DEF EntriesOK, MemFrame, MemSame

Win(h, t, ns) ==
  /\ h \in Nat \ {0} /\ t \in Nat /\ ns \in Nat /\ MaxInstr \in Nat /\ ROB_SIZE \in Nat
  /\ h <= ns /\ ns <= t /\ t <= MaxInstr + 1 /\ ns <= MaxInstr + 1
  /\ t - h <= ROB_SIZE /\ ns - h <= ROB_SIZE
  /\ h .. t - 1 \subseteq Id /\ h .. ns - 1 \subseteq h .. t - 1 /\ h .. ns - 1 \subseteq Id

LEMMA GoodIs ==
  ASSUME NEW c, NEW h, NEW t, NEW ns, NEW d, NEW r, Good(c, h, t, ns, d, r)
  PROVE  /\ IsCore(c) /\ Typed(c) /\ Win(h, t, ns) /\ EntriesOK(c.rob, h, t, ns)
         /\ RegInv(c.rob, c.RT, h, ns) /\ LoadInv(c.rob, c.LQ, c.SQ, h, ns)
         /\ StoreInv(c, h, t, ns) /\ CountInv(c, h, t) /\ PlacesOK(c, d, r)
<1>1. Window(h, t, ns) /\ IsCore(c) /\ Typed(c)
  BY ShapeIff DEF Good
<1>2. Win(h, t, ns)
  BY <1>1, Sizes DEF Window, Id, Win
<1> QED
  BY <1>1, <1>2 DEF Good

LEMMA InRobFinite ==
  ASSUME NEW h \in Nat, NEW t \in Nat, NEW S \in SUBSET (h .. t - 1)
  PROVE  IsFiniteSet(S) /\ Cardinality(S) \in Nat
<1>1. IsFiniteSet(h .. t - 1)
  <2>1. h \in Int /\ t - 1 \in Int
    OBVIOUS
  <2> QED
    BY <2>1, FS_Interval
<1> QED
  BY <1>1, FS_Subset, FS_CardinalityType

LEMMA OneMore ==
  ASSUME NEW S, IsFiniteSet(S), NEW x, x \notin S
  PROVE  IsFiniteSet(S \cup {x}) /\ Cardinality(S \cup {x}) = Cardinality(S) + 1 /\ Cardinality(S) \in Nat
BY FS_AddElement, FS_CardinalityType

LEMMA OneLess ==
  ASSUME NEW S, IsFiniteSet(S), NEW x \in S
  PROVE  /\ IsFiniteSet(S \ {x}) /\ Cardinality(S \ {x}) = Cardinality(S) - 1
         /\ Cardinality(S) \in Nat /\ Cardinality(S) > 0
<1>1. IsFiniteSet(S \ {x}) /\ Cardinality(S \ {x}) = Cardinality(S) - 1
  BY FS_RemoveElement
<1> QED
  BY <1>1, FS_CardinalityType, FS_EmptySet

(* A step that leaves the memory operations alone. *)
Quiet(c, new, h, ns) ==
  /\ IsCore(new) /\ Typed(new) /\ MemFrame(c.rob, new.rob)
  /\ \A k \in Id : k \notin h .. ns - 1 => new.rob[k] = c.rob[k]
  /\ new.LQ = c.LQ /\ SameStores(c, new)
  /\ \A x \in {"RTL0", "RTL1", "RTS0", "RTS1"} : new.RT[x] = c.RT[x]

LEMMA MemoryKept ==
  ASSUME NEW c, NEW new, NEW h, NEW t, NEW ns, NEW d, NEW r, Good(c, h, t, ns, d, r),
         Quiet(c, new, h, ns), RegInv(new.rob, new.RT, h, ns), CountInv(new, h, t)
  PROVE  Good(new, h, t, ns, d, r)
<1>q. /\ IsCore(new) /\ Typed(new) /\ MemFrame(c.rob, new.rob)
      /\ \A k \in Id : k \notin h .. ns - 1 => new.rob[k] = c.rob[k]
      /\ new.LQ = c.LQ /\ SameStores(c, new)
      /\ \A x \in {"RTL0", "RTL1", "RTS0", "RTS1"} : new.RT[x] = c.RT[x]
  BY DEF Quiet
<1>g. /\ IsCore(c) /\ Typed(c) /\ Win(h, t, ns) /\ EntriesOK(c.rob, h, t, ns)
      /\ RegInv(c.rob, c.RT, h, ns) /\ LoadInv(c.rob, c.LQ, c.SQ, h, ns)
      /\ StoreInv(c, h, t, ns) /\ CountInv(c, h, t) /\ PlacesOK(c, d, r)
  BY GoodIs
<1>w. /\ h \in Nat \ {0} /\ t \in Nat /\ ns \in Nat /\ h <= ns /\ ns <= t /\ t <= MaxInstr + 1 /\ ns <= MaxInstr + 1
      /\ ns <= ns
  BY <1>g DEF Win
<1>s. new.SQ = c.SQ
  BY <1>q DEF SameStores
<1>1. new \in Shape
  BY <1>q, ShapeIff
<1>2. EntriesOK(new.rob, h, t, ns)
  BY <1>g, <1>q, EntriesKept
<1>3. LoadInv(new.rob, new.LQ, new.SQ, h, ns)
  <2>1. MemFrameIn(c.rob, new.rob, h, ns) /\ ns .. ns - 1 = {}
    BY <1>g, <1>q, <1>w DEF MemFrame, MemFrameIn, Win
  <2>2. LoadInv(new.rob, c.LQ, c.SQ, h, ns)
    BY <1>g, <1>w, <2>1, LoadKept
  <2> QED
    BY <1>q, <1>s, <2>2
<1>4. StoreInv(new, h, t, ns)
  <2>1. NoneAdded(new.rob, ns, ns)
    BY <1>w DEF NoneAdded
  <2> QED
    BY <1>g, <1>q, <1>w, <2>1, StoreKept, Zenon
<1>5. PlacesOK(new, d, r)
  BY <1>g, <1>q, <1>s, PlacesKept
<1> QED
  BY <1>1, <1>2, <1>3, <1>4, <1>5 DEF Good

-------------------------------------------------------------------------------
(* do_execution *)

LEMMA ExecutionStep ==
  ASSUME NEW c, NEW h, NEW t, NEW ns, NEW d, NEW r, Good(c, h, t, ns, d, r),
         NEW list \in {"RTE0", "RTE1"}, c.RT[list] # << >>, NEW new,
         new = [c EXCEPT !.rob[Head(c.RT[list])].executed = "INFLIGHT",
                         !.RT[list] = Tail(@), !.inflight_reg = @ + 1]
  PROVE  Good(new, h, t, ns, d, r)
<1> DEFINE i == Head(c.RT[list])
           rob == [c.rob EXCEPT ![i].executed = "INFLIGHT"]
           RT == [c.RT EXCEPT ![list] = Tail(@)]
<1>g. /\ IsCore(c) /\ Typed(c) /\ Win(h, t, ns) /\ EntriesOK(c.rob, h, t, ns)
      /\ RegInv(c.rob, c.RT, h, ns) /\ LoadInv(c.rob, c.LQ, c.SQ, h, ns)
      /\ StoreInv(c, h, t, ns) /\ CountInv(c, h, t) /\ PlacesOK(c, d, r)
  BY GoodIs
<1>t. /\ c.rob \in [Id -> Row] /\ c.RT \in [Lists -> Seq(Nat)] /\ list \in Lists /\ c.RT[list] \in Seq(Nat)
  BY <1>g DEF Typed, Lists
<1>i. i \in h .. ns - 1 /\ i \in Id
  <2>1. Distinct(c.RT[list])
    BY <1>g DEF RegInv, ReadyOK
  <2>2. i \in Elements(c.RT[list])
    BY <1>t, <2>1, TailList
  <2>3. i \in h .. ns - 1
    BY <1>g, <2>2 DEF RegInv, ReadyOK
  <2> QED
    BY <1>g, <2>3 DEF Win
<1>1. /\ IsCore(new) /\ new.rob = rob /\ new.RT = RT /\ new.inflight_reg = c.inflight_reg + 1
      /\ new.LQ = c.LQ /\ new.LQ_occupancy = c.LQ_occupancy /\ new.inflight_mem = c.inflight_mem
      /\ SameStores(c, new)
  <2> DEFINE x == i
             y == Tail(c.RT[list])
  <2>1. new = [c EXCEPT !.rob[x].executed = "INFLIGHT", !.RT[list] = y, !.inflight_reg = @ + 1]
    BY <1>g DEF IsCore, Names
  <2>2. rob = [c.rob EXCEPT ![x].executed = "INFLIGHT"] /\ RT = [c.RT EXCEPT ![list] = y]
    OBVIOUS
  <2> HIDE DEF x, y, rob, RT
  <2> QED
    BY <1>g, <2>1, <2>2 DEF IsCore, Names, SameStores
<1>2. rob \in [Id -> Row] /\ RT \in [Lists -> Seq(Nat)]
  <2>1. ASSUME NEW e \in Row PROVE [e EXCEPT !.executed = "INFLIGHT"] \in Row
    BY DEF Row, Status
  <2>2. rob \in [Id -> Row]
    BY <1>i, <1>t, <2>1
  <2> QED
    BY <1>t, <2>2
<1>3. /\ \A k \in Id : k # i => rob[k] = c.rob[k]
      /\ rob[i] = [c.rob[i] EXCEPT !.executed = "INFLIGHT"]
  BY <1>i, <1>t
<1>4. /\ MemSame(c.rob[i], rob[i]) /\ rob[i].reg_ready = c.rob[i].reg_ready
      /\ rob[i].num_reg_dependent = c.rob[i].num_reg_dependent
      /\ rob[i].reg_depend_on_me = c.rob[i].reg_depend_on_me /\ rob[i].executed = "INFLIGHT"
  <2>1. c.rob[i] \in Row
    BY <1>i, <1>t
  <2> HIDE DEF rob, i
  <2> QED
    BY <1>3, <2>1 DEF Row, MemSame
<1>5. RT["RTL0"] = c.RT["RTL0"] /\ RT["RTL1"] = c.RT["RTL1"] /\ RT["RTS0"] = c.RT["RTS0"] /\ RT["RTS1"] = c.RT["RTS1"]
  BY <1>t DEF Lists
<1>6. i = Head(c.RT[list]) /\ RT = [c.RT EXCEPT ![list] = Tail(@)]
  OBVIOUS
<1> HIDE DEF rob, i, RT
<1>7. RegInv(rob, RT, h, ns) /\ Startable(c.rob[i])
  <2>1. Started(c.rob, rob, h, ns, i)
    BY <1>3, <1>4, <1>g DEF Started, MemSame, Win
  <2>2. h \in Nat /\ ns \in Nat
    BY <1>g DEF Win
  <2> QED
    BY <1>6, <1>g, <1>t, <2>1, <2>2, RegExecute
<1>8. Typed(new)
  <2>1. new.inflight_reg \in Int
    BY <1>1, <1>g DEF Typed
  <2> QED
    BY <1>1, <1>2, <1>g, <2>1, Zenon DEF Typed, SameStores
<1>9. MemFrame(c.rob, rob)
  BY <1>3, <1>4 DEF MemFrame, MemSame
<1>10. \A k \in Id : k \notin h .. ns - 1 => rob[k] = c.rob[k]
  BY <1>3, <1>i
<1>11. CountInv(new, h, t)
  <2>0. h \in Nat /\ t \in Nat /\ h .. t - 1 \subseteq Id /\ i \in h .. t - 1
    BY <1>g, <1>i DEF Win
  <2>1. \A k \in h .. t - 1 : Done(rob[k]) <=> Done(c.rob[k])
    BY <1>3, <1>4, <1>7, <2>0 DEF Done, Startable
  <2>2. OpsOK(rob, c.LQ, c.SQ, h, t)
    BY <1>9, <1>g, <2>1, OpsKept DEF CountInv, Win
  <2>3. MemInflight(rob, h, t) = MemInflight(c.rob, h, t)
    <3>1. \A k \in h .. t - 1 : MemSame(c.rob[k], rob[k])
      BY <1>9, <2>0 DEF MemFrame
    <3> QED
      BY <2>1, <3>1 DEF MemInflight, MemSame, is_memory
  <2>4. Cardinality(RegInflight(rob, h, t)) = Cardinality(RegInflight(c.rob, h, t)) + 1
    <3>2. i \notin RegInflight(c.rob, h, t) /\ ~is_memory(rob[i])
      BY <1>4, <1>7 DEF RegInflight, Startable, is_memory, MemSame
    <3>3. RegInflight(rob, h, t) = RegInflight(c.rob, h, t) \cup {i}
      BY <1>3, <1>4, <2>0, <3>2 DEF RegInflight
    <3>4. IsFiniteSet(RegInflight(c.rob, h, t))
      BY <2>0, InRobFinite DEF RegInflight
    <3> QED
      BY <3>2, <3>3, <3>4, OneMore
  <2> QED
    BY <1>1, <1>g, <2>2, <2>3, <2>4 DEF CountInv, SameStores
<1>12. Quiet(c, new, h, ns)
  BY <1>1, <1>5, <1>8, <1>9, <1>10 DEF Quiet
<1>13. RegInv(new.rob, new.RT, h, ns)
  BY <1>1, <1>7
<1> QED
  BY <1>11, <1>12, <1>13, MemoryKept, Zenon

-------------------------------------------------------------------------------
(* complete_execution *)

(* The entries of the consumers after reg_RAW_release. *)
FreedOf(e, b, s) == [e EXCEPT !.reg_ready = b, !.num_reg_dependent = 0, !.scheduled = s]
LessOf(e, n) == [e EXCEPT !.num_reg_dependent = @ - n]

RegOf(e, f, b, n) ==
  /\ f \in Row /\ MemSame(e, f) /\ f.reg_ready = b /\ f.num_reg_dependent = n
  /\ f.executed = e.executed /\ f.reg_depend_on_me = e.reg_depend_on_me

LEMMA FreedRow ==
  ASSUME NEW e \in Row, NEW s \in Status, NEW b \in BOOLEAN
  PROVE  RegOf(e, FreedOf(e, b, s), b, 0)
<1> DEFINE f == FreedOf(e, b, s)
<1>e. IsRow(e) /\ RowTyped(e)
  BY RowIff
<1>1. /\ IsRow(f) /\ MemSame(e, f) /\ f.num_reg_dependent = 0 /\ f.executed = e.executed
      /\ f.reg_depend_on_me = e.reg_depend_on_me /\ f.scheduled = s /\ f.reg_ready = b
  BY <1>e DEF IsRow, RowNames, MemSame, FreedOf
<1> HIDE DEF f
<1>2. RowTyped(f)
  <2>1. 0 \in Int
    OBVIOUS
  <2> QED
    BY <1>1, <1>e, <2>1, Zenon DEF RowTyped, MemSame
<1>3. f \in Row
  BY <1>1, <1>2, RowIff
<1> QED
  BY <1>1, <1>3 DEF RegOf, f

LEMMA LessRow ==
  ASSUME NEW e \in Row, NEW n \in Int
  PROVE  RegOf(e, LessOf(e, n), e.reg_ready, e.num_reg_dependent - n) /\ (n = 0 => LessOf(e, n) = e)
<1> DEFINE f == LessOf(e, n)
           m == e.num_reg_dependent - n
<1>1. e.num_reg_dependent \in Int
  BY DEF Row
<1>2. m \in Int /\ f = [e EXCEPT !.num_reg_dependent = m] /\ (n = 0 => m = e.num_reg_dependent)
  BY <1>1 DEF LessOf
<1> HIDE DEF m, f
<1>3. /\ f \in Row /\ MemSame(e, f) /\ f.reg_ready = e.reg_ready /\ f.num_reg_dependent = m
      /\ f.executed = e.executed /\ f.reg_depend_on_me = e.reg_depend_on_me
  BY <1>2 DEF Row, MemSame
<1>4. m = e.num_reg_dependent => f = e
  BY <1>2 DEF Row
<1> QED
  BY <1>2, <1>3, <1>4 DEF m, f, RegOf

LEMMA ExecutedRow ==
  ASSUME NEW e \in Row, NEW s \in Status, NEW f, f = [e EXCEPT !.executed = s]
  PROVE  /\ f \in Row /\ MemSame(e, f) /\ f.reg_ready = e.reg_ready
         /\ f.num_reg_dependent = e.num_reg_dependent /\ f.executed = s
         /\ f.reg_depend_on_me = e.reg_depend_on_me /\ f.scheduled = e.scheduled
BY DEF Row, MemSame

(* What reg_RAW_release does to the core in which p has completed. *)
Freeing(c, new, p) ==
  /\ \A k \in Id :
       /\ new.rob[k] \in Row /\ MemSame(c.rob[k], new.rob[k])
       /\ new.rob[k].reg_depend_on_me = c.rob[k].reg_depend_on_me
       /\ new.rob[k].executed = IF k = p THEN "COMPLETED" ELSE c.rob[k].executed
       /\ IF k \in FreedBy(c.rob, p) THEN new.rob[k].reg_ready /\ new.rob[k].num_reg_dependent = 0
          ELSE /\ new.rob[k].reg_ready = c.rob[k].reg_ready
               /\ new.rob[k].num_reg_dependent = c.rob[k].num_reg_dependent - Cardinality(DepsOn(c.rob, p, k))
       /\ k # p /\ k \notin FreedBy(c.rob, p) /\ Cardinality(DepsOn(c.rob, p, k)) = 0 => new.rob[k] = c.rob[k]
  /\ new.RT = [c.RT EXCEPT !["RTE0"] = @ \o InRobOrder({i \in FreedBy(c.rob, p) : ~is_memory(c.rob[i])})]

CompletedOf(c, p, ireg, imem) ==
  [c EXCEPT !.rob[p].executed = "COMPLETED", !.inflight_reg = ireg, !.inflight_mem = imem]
Counted(rob, p) == \A k \in Id : Cardinality(DepsOn(rob, p, k)) \in Int

ReleasedTo(c, new, p, ireg, imem) ==
  /\ IsCore(new) /\ Freeing(c, new, p) /\ SameStores(c, new) /\ new.rob \in [Id -> Row]
  /\ new.LQ = c.LQ /\ new.LQ_occupancy = c.LQ_occupancy
  /\ new.inflight_reg = ireg /\ new.inflight_mem = imem

LEMMA ReleaseIs ==
  ASSUME NEW c, IsCore(c), Typed(c), NEW p \in Id, NEW ireg \in Int, NEW imem \in Int, NEW x, NEW new,
         x = CompletedOf(c, p, ireg, imem), new = reg_RAW_release(x, p), Counted(c.rob, p)
  PROVE  ReleasedTo(c, new, p, ireg, imem)
<1>1. /\ IsCore(x) /\ x.rob = [c.rob EXCEPT ![p].executed = "COMPLETED"] /\ x.RT = c.RT /\ SameStores(c, x)
      /\ x.LQ = c.LQ /\ x.LQ_occupancy = c.LQ_occupancy /\ x.inflight_reg = ireg /\ x.inflight_mem = imem
  BY DEF IsCore, Names, SameStores, CompletedOf
<1>t. c.rob \in [Id -> Row]
  BY DEF Typed
<1>2. ASSUME NEW k \in Id
      PROVE  /\ x.rob[k] \in Row /\ MemSame(c.rob[k], x.rob[k])
             /\ x.rob[k].reg_depend_on_me = c.rob[k].reg_depend_on_me
             /\ x.rob[k].executed = IF k = p THEN "COMPLETED" ELSE c.rob[k].executed
             /\ x.rob[k].reg_ready = c.rob[k].reg_ready
             /\ x.rob[k].num_reg_dependent = c.rob[k].num_reg_dependent
             /\ k # p => x.rob[k] = c.rob[k]
  <2>1. x.rob[k] = IF k = p THEN [c.rob[k] EXCEPT !.executed = "COMPLETED"] ELSE c.rob[k]
    BY <1>1, <1>t
  <2>2. c.rob[k] \in Row /\ "COMPLETED" \in Status
    BY <1>t DEF Status
  <2>3. CASE k = p
    <3>1. x.rob[k] = [c.rob[k] EXCEPT !.executed = "COMPLETED"]
      BY <2>1, <2>3
    <3> QED
      BY <2>2, <2>3, <3>1, ExecutedRow
  <2>4. CASE k # p
    BY <2>1, <2>2, <2>4 DEF MemSame
  <2> QED
    BY <2>3, <2>4
<1> DEFINE n(i) == Cardinality({d \in x.rob[p].reg_depend_on_me : d[1] = i})
           freed == {i \in Id : n(i) > 0 /\ x.rob[i].num_reg_dependent = n(i)}
           st(i) == IF is_memory(x.rob[i]) THEN "INFLIGHT" ELSE "COMPLETED"
           rob == [i \in Id |->
                    IF i \in freed THEN [x.rob[i] EXCEPT !.reg_ready = TRUE, !.num_reg_dependent = 0,
                                                         !.scheduled = st(i)]
                    ELSE [x.rob[i] EXCEPT !.num_reg_dependent = @ - n(i)]]
           M == {i \in freed : ~is_memory(x.rob[i])}
<1>3. \A i : n(i) = Cardinality(DepsOn(c.rob, p, i))
  BY <1>2 DEF DepsOn
<1>4. freed = FreedBy(c.rob, p)
  <2> HIDE DEF n
  <2> QED
    BY <1>2, <1>3 DEF FreedBy
<1>5. M = {i \in FreedBy(c.rob, p) : ~is_memory(c.rob[i])}
  <2> HIDE DEF freed
  <2> QED
    BY <1>2, <1>4 DEF FreedBy, is_memory, MemSame
<1>6. new = [x EXCEPT !.rob = rob, !.RT["RTE0"] = @ \o InRobOrder(M)]
  BY Zenon DEF reg_RAW_release
<1>7. /\ IsCore(new) /\ new.rob = rob /\ new.RT = [c.RT EXCEPT !["RTE0"] = @ \o InRobOrder(M)]
      /\ SameStores(c, new) /\ new.LQ = c.LQ /\ new.LQ_occupancy = c.LQ_occupancy
      /\ new.inflight_reg = ireg /\ new.inflight_mem = imem
  <2> HIDE DEF rob, M
  <2> QED
    BY <1>1, <1>6 DEF IsCore, Names, SameStores
<1>8. ASSUME NEW k \in Id
      PROVE  /\ rob[k] \in Row /\ MemSame(x.rob[k], rob[k]) /\ rob[k].executed = x.rob[k].executed
             /\ rob[k].reg_depend_on_me = x.rob[k].reg_depend_on_me
             /\ IF k \in freed THEN rob[k].reg_ready /\ rob[k].num_reg_dependent = 0
                ELSE /\ rob[k].reg_ready = x.rob[k].reg_ready
                     /\ rob[k].num_reg_dependent = x.rob[k].num_reg_dependent - n(k)
             /\ k \notin freed /\ n(k) = 0 => rob[k] = x.rob[k]
  <2>1. x.rob[k] \in Row /\ st(k) \in Status /\ n(k) \in Int /\ TRUE \in BOOLEAN
    <3> HIDE DEF n
    <3> QED
      BY <1>2, <1>3 DEF Status, Counted
  <2>2. CASE k \in freed
    <3>1. rob[k] = FreedOf(x.rob[k], TRUE, st(k))
      BY <2>2 DEF FreedOf
    <3> HIDE DEF rob, freed, st, n
    <3>2. /\ rob[k] \in Row /\ MemSame(x.rob[k], rob[k]) /\ rob[k].reg_ready = TRUE
          /\ rob[k].num_reg_dependent = 0 /\ rob[k].executed = x.rob[k].executed
          /\ rob[k].reg_depend_on_me = x.rob[k].reg_depend_on_me
      <4>1. RegOf(x.rob[k], FreedOf(x.rob[k], TRUE, st(k)), TRUE, 0)
        BY <2>1, FreedRow, Zenon
      <4> QED
        BY <3>1, <4>1 DEF RegOf
    <3> QED
      BY <2>2, <3>2
  <2>3. CASE k \notin freed
    <3>1. rob[k] = LessOf(x.rob[k], n(k))
      BY <2>3 DEF LessOf
    <3> HIDE DEF rob, freed, st, n
    <3>2. /\ rob[k] \in Row /\ MemSame(x.rob[k], rob[k]) /\ rob[k].reg_ready = x.rob[k].reg_ready
          /\ rob[k].num_reg_dependent = x.rob[k].num_reg_dependent - n(k)
          /\ rob[k].executed = x.rob[k].executed /\ rob[k].reg_depend_on_me = x.rob[k].reg_depend_on_me
          /\ (n(k) = 0 => rob[k] = x.rob[k])
      <4>1. /\ RegOf(x.rob[k], LessOf(x.rob[k], n(k)), x.rob[k].reg_ready, x.rob[k].num_reg_dependent - n(k))
            /\ n(k) = 0 => LessOf(x.rob[k], n(k)) = x.rob[k]
        BY <2>1, LessRow, Zenon
      <4> QED
        BY <3>1, <4>1 DEF RegOf
    <3> QED
      BY <2>3, <3>2
  <2> QED
    BY <2>2, <2>3
<1> HIDE DEF rob, freed, M, n
<1>9. rob \in [Id -> Row]
  BY <1>8 DEF rob
<1>10. Freeing(c, new, p)
  <2>1. ASSUME NEW k \in Id
        PROVE  /\ rob[k] \in Row /\ MemSame(c.rob[k], rob[k])
               /\ rob[k].reg_depend_on_me = c.rob[k].reg_depend_on_me
               /\ rob[k].executed = IF k = p THEN "COMPLETED" ELSE c.rob[k].executed
               /\ IF k \in freed THEN rob[k].reg_ready /\ rob[k].num_reg_dependent = 0
                  ELSE /\ rob[k].reg_ready = c.rob[k].reg_ready
                       /\ rob[k].num_reg_dependent = c.rob[k].num_reg_dependent - n(k)
               /\ k # p /\ k \notin freed /\ n(k) = 0 => rob[k] = c.rob[k]
    BY <1>2, <1>8 DEF MemSame
  <2> QED
    BY <1>3, <1>4, <1>5, <1>7, <2>1 DEF Freeing
<1> QED
  BY <1>7, <1>9, <1>10 DEF ReleasedTo

LEMMA LenIs ==
  ASSUME NEW S, NEW s \in Seq(S)
  PROVE  Len(s) \in Nat /\ DOMAIN s = 1 .. Len(s) /\ (Len(s) = 0 => s = << >>)
OBVIOUS

LEMMA NoOps ==
  ASSUME NEW e \in Row, ~is_memory(e)
  PROVE  e.ins.src = << >> /\ e.ins.dst = << >>
<1>1. e.ins.src \in Seq(Addr) /\ e.ins.dst \in Seq(Addr)
  BY RowIs
<1>2. Len(e.ins.src) \in Nat /\ Len(e.ins.dst) \in Nat
  BY <1>1, LenIs
<1> DEFINE a == Len(e.ins.src)
           b == Len(e.ins.dst)
<1>3. ~(a + b > 0)
  BY Zenon DEF is_memory
<1>4. a \in Nat /\ b \in Nat
  BY <1>2
<1> HIDE DEF a, b
<1>5. a = 0 /\ b = 0
  BY <1>3, <1>4
<1> QED
  BY <1>1, <1>5, LenIs DEF a, b

CompletionOf(c, p) ==
  reg_RAW_release([c EXCEPT !.rob[p].executed = "COMPLETED",
                            !.inflight_reg = IF is_memory(c.rob[p]) THEN @ ELSE @ - 1,
                            !.inflight_mem = IF is_memory(c.rob[p]) THEN @ - 1 ELSE @], p)

LEMMA CompleteStep ==
  ASSUME NEW c, NEW h, NEW t, NEW ns, NEW d, NEW r, Good(c, h, t, ns, d, r),
         NEW p \in h .. t - 1, c.rob[p].executed = "INFLIGHT",
         is_memory(c.rob[p]) => c.rob[p].num_mem_ops = 0, NEW new, new = CompletionOf(c, p)
  PROVE  Good(new, h, t, ns, d, r)
<1> DEFINE ireg == IF is_memory(c.rob[p]) THEN c.inflight_reg ELSE c.inflight_reg - 1
           imem == IF is_memory(c.rob[p]) THEN c.inflight_mem - 1 ELSE c.inflight_mem
           x == CompletedOf(c, p, ireg, imem)
<1>g. /\ IsCore(c) /\ Typed(c) /\ Win(h, t, ns) /\ EntriesOK(c.rob, h, t, ns)
      /\ RegInv(c.rob, c.RT, h, ns) /\ LoadInv(c.rob, c.LQ, c.SQ, h, ns)
      /\ StoreInv(c, h, t, ns) /\ CountInv(c, h, t) /\ PlacesOK(c, d, r)
  BY GoodIs
<1>w. /\ h \in Nat \ {0} /\ t \in Nat /\ ns \in Nat /\ t <= MaxInstr + 1 /\ ns <= MaxInstr + 1 /\ ns - h <= ROB_SIZE
      /\ h .. t - 1 \subseteq Id /\ h .. ns - 1 \subseteq Id /\ h .. ns - 1 \subseteq h .. t - 1
  BY <1>g DEF Win
<1>t. /\ c.rob \in [Id -> Row] /\ c.RT \in [Lists -> Seq(Nat)] /\ c.inflight_reg \in Int /\ c.inflight_mem \in Int
  BY <1>g DEF Typed
<1>p. p \in h .. ns - 1 /\ p \in Id
  <2>1. p \in Id
    BY <1>w
  <2>2. p \notin h .. ns - 1 => c.rob[p] = Entry(c.rob[p].ins)
    BY <1>g, <2>1 DEF EntriesOK
  <2> QED
    BY <2>1, <2>2 DEF Entry
<1>r. RegTyped(c.rob)
  <2>1. ASSUME NEW k \in Id PROVE c.rob[k].ins.rsrc \in Seq(Nat) /\ c.rob[k].reg_depend_on_me \subseteq Id \X Nat
    <3>1. c.rob[k] \in Row
      BY <1>t
    <3> QED
      BY <3>1, RowIs
  <2> QED
    BY <2>1 DEF RegTyped
<1>d. ASSUME NEW k \in Id
      PROVE  /\ Cardinality(DepsOn(c.rob, p, k)) \in Nat
             /\ DepsOn(c.rob, p, k) # {} => k \in p + 1 .. ns - 1
  <2>1. DependsOK(c.rob, h, ns) /\ ~Done(c.rob[p]) /\ h \in Nat
    BY <1>g, <1>w DEF RegInv, Done
  <2> QED
    BY <1>p, <1>r, <1>w, <2>1, DepsCount
<1>1. new = reg_RAW_release(x, p)
  <2>1. x = [c EXCEPT !.rob[p].executed = "COMPLETED",
                      !.inflight_reg = IF is_memory(c.rob[p]) THEN @ ELSE @ - 1,
                      !.inflight_mem = IF is_memory(c.rob[p]) THEN @ - 1 ELSE @]
    BY <1>g DEF IsCore, Names, CompletedOf
  <2> QED
    BY <2>1, Zenon DEF CompletionOf
<1>2. ireg \in Int /\ imem \in Int /\ Counted(c.rob, p)
  BY <1>d, <1>t DEF Counted
<1> HIDE DEF ireg, imem, x
<1>3. /\ IsCore(new) /\ Freeing(c, new, p) /\ SameStores(c, new) /\ new.rob \in [Id -> Row]
      /\ new.LQ = c.LQ /\ new.LQ_occupancy = c.LQ_occupancy
      /\ new.inflight_reg = ireg /\ new.inflight_mem = imem
  <2>1. x = CompletedOf(c, p, ireg, imem)
    BY DEF x
  <2>2. ReleasedTo(c, new, p, ireg, imem)
    BY <1>1, <1>2, <1>g, <1>p, <2>1, ReleaseIs, Zenon
  <2> QED
    BY <2>2 DEF ReleasedTo
<1>4. Released(c.rob, new.rob, h, ns, p)
  BY <1>3, <1>w DEF Freeing, Released, MemSame
<1>5. /\ \A y \in {"RTL0", "RTL1", "RTS0", "RTS1", "RTE1"} : new.RT[y] = c.RT[y]
      /\ new.RT["RTE0"] = c.RT["RTE0"] \o InRobOrder({i \in FreedBy(c.rob, p) : ~is_memory(c.rob[i])})
  BY <1>3, <1>t DEF Freeing, Lists
<1>6. /\ RegInv(new.rob, new.RT, h, ns) /\ FreedBy(c.rob, p) \subseteq p + 1 .. ns - 1
      /\ new.RT["RTE0"] \in Seq(Nat)
  BY <1>4, <1>5, <1>g, <1>p, <1>r, <1>t, <1>w, RegRelease
<1>7. new.RT \in [Lists -> Seq(Nat)]
  <2> DEFINE q == c.RT["RTE0"] \o InRobOrder({i \in FreedBy(c.rob, p) : ~is_memory(c.rob[i])})
  <2>1. new.RT = [c.RT EXCEPT !["RTE0"] = q] /\ q \in Seq(Nat)
    BY <1>3, <1>5, <1>6 DEF Freeing
  <2> HIDE DEF q
  <2> QED
    BY <1>t, <2>1
<1>8. Typed(new)
  BY <1>2, <1>3, <1>7, <1>g, Zenon DEF Typed, SameStores
<1>9. MemFrame(c.rob, new.rob)
  BY <1>3 DEF MemFrame, Freeing
<1>10. \A k \in Id : k \notin h .. ns - 1 => new.rob[k] = c.rob[k]
  <2> SUFFICES ASSUME NEW k \in Id, k \notin h .. ns - 1 PROVE new.rob[k] = c.rob[k]
    OBVIOUS
  <2>1. k \notin p + 1 .. ns - 1
    BY <1>p, <1>w
  <2>2. k # p /\ k \notin FreedBy(c.rob, p) /\ DepsOn(c.rob, p, k) = {}
    BY <1>6, <1>d, <1>p, <2>1
  <2>3. Cardinality(DepsOn(c.rob, p, k)) = 0
    BY <2>2, FS_EmptySet
  <2> QED
    BY <1>3, <2>2, <2>3 DEF Freeing
<1>11. CountInv(new, h, t)
  <2>f. \A k \in h .. t - 1 : new.rob[k].executed = IF k = p THEN "COMPLETED" ELSE c.rob[k].executed
    BY <1>3, <1>w DEF Freeing
  <2>m. \A k \in h .. t - 1 : MemSame(c.rob[k], new.rob[k]) /\ (is_memory(new.rob[k]) <=> is_memory(c.rob[k]))
    BY <1>9, <1>w DEF MemFrame, MemSame, is_memory
  <2>z. c.rob[p].num_mem_ops = 0
    <3>1. CASE ~is_memory(c.rob[p])
      <4>2. c.rob[p].ins.src = << >> /\ c.rob[p].ins.dst = << >>
        <5>1. c.rob[p] \in Row
          BY <1>p, <1>t
        <5> QED
          BY <3>1, <5>1, NoOps
      <4>3. DOMAIN c.rob[p].ins.src = {} /\ DOMAIN c.rob[p].ins.dst = {}
        BY <4>2
      <4>4. LoadsOf(c.LQ, p) = {}
        <5> SUFFICES ASSUME NEW l \in LqSlot, c.LQ[l].id = p PROVE FALSE
          BY DEF LoadsOf
        <5>1. c.LQ[l].id # 0 /\ LoadsOK(c.rob, c.LQ, h, ns) /\ StoresOK(c.rob, c.SQ, h, ns)
          BY <1>g, <1>w, <1>p DEF LoadInv, StoreInv
        <5>2. PICK k \in c.rob[p].source_added : TRUE
          BY <5>1, UsedSlots
        <5> QED
          BY <1>g, <1>p, <4>3, <5>2 DEF EntriesOK
      <4>5. StoresOf(c.SQ, p) = {}
        <5> SUFFICES ASSUME NEW s \in SqSlot, c.SQ[s].id = p PROVE FALSE
          BY DEF StoresOf
        <5>1. c.SQ[s].id # 0 /\ LoadsOK(c.rob, c.LQ, h, ns) /\ StoresOK(c.rob, c.SQ, h, ns)
          BY <1>g, <1>w, <1>p DEF LoadInv, StoreInv
        <5>2. PICK k \in c.rob[p].destination_added : TRUE
          BY <5>1, UsedSlots
        <5> QED
          BY <1>g, <1>p, <4>3, <5>2 DEF EntriesOK
      <4>6. c.rob[p].num_mem_ops = Cardinality({}) + Cardinality({}) + Cardinality({}) + Cardinality({})
        <5>1. DOMAIN c.rob[p].ins.src \ c.rob[p].source_added = {} /\ DOMAIN c.rob[p].ins.dst \ c.rob[p].destination_added = {}
          BY <4>3
        <5> QED
          BY <1>g, <4>4, <4>5, <5>1 DEF CountInv, OpsOK
      <4> QED
        BY <4>6, FS_EmptySet
    <3> QED
      BY <3>1
  <2>2. OpsOK(new.rob, c.LQ, c.SQ, h, t)
    <3>1. \A k \in h .. t - 1 : Done(new.rob[k]) => Done(c.rob[k]) \/ c.rob[k].num_mem_ops = 0
      BY <2>f, <2>z DEF Done
    <3> QED
      BY <1>9, <1>g, <1>w, <3>1, OpsKept DEF CountInv
  <2>3. MemInflight(new.rob, h, t) = MemInflight(c.rob, h, t) \ {p}
    BY <2>f, <2>m DEF MemInflight, MemSame, Done
  <2>4. RegInflight(new.rob, h, t) = RegInflight(c.rob, h, t) \ {p}
    BY <2>f, <2>m DEF RegInflight, MemSame
  <2>5. IsFiniteSet(MemInflight(c.rob, h, t)) /\ IsFiniteSet(RegInflight(c.rob, h, t))
    BY <1>w, InRobFinite DEF RegInflight, MemInflight
  <2>6. IF is_memory(c.rob[p]) THEN p \in MemInflight(c.rob, h, t) /\ p \notin RegInflight(c.rob, h, t)
        ELSE p \notin MemInflight(c.rob, h, t) /\ p \in RegInflight(c.rob, h, t)
    BY <2>z DEF RegInflight, MemInflight, Done
  <2>7. ireg = Cardinality(RegInflight(new.rob, h, t)) /\ imem = Cardinality(MemInflight(new.rob, h, t))
    <3>1. CASE is_memory(c.rob[p])
      <4>1. RegInflight(new.rob, h, t) = RegInflight(c.rob, h, t)
        BY <2>4, <2>6, <3>1
      <4>2. Cardinality(MemInflight(new.rob, h, t)) = Cardinality(MemInflight(c.rob, h, t)) - 1
        BY <2>3, <2>5, <2>6, <3>1, OneLess
      <4> QED
        BY <1>g, <3>1, <4>1, <4>2 DEF CountInv, ireg, imem
    <3>2. CASE ~is_memory(c.rob[p])
      <4>1. MemInflight(new.rob, h, t) = MemInflight(c.rob, h, t)
        BY <2>3, <2>6, <3>2
      <4>2. Cardinality(RegInflight(new.rob, h, t)) = Cardinality(RegInflight(c.rob, h, t)) - 1
        BY <2>4, <2>5, <2>6, <3>2, OneLess
      <4> QED
        BY <1>g, <3>2, <4>1, <4>2 DEF CountInv, ireg, imem
    <3> QED
      BY <3>1, <3>2
  <2> QED
    BY <1>3, <1>g, <2>2, <2>7 DEF CountInv, SameStores
<1>12. Quiet(c, new, h, ns)
  BY <1>3, <1>5, <1>8, <1>9, <1>10 DEF Quiet
<1> QED
  BY <1>6, <1>11, <1>12, MemoryKept, Zenon

-------------------------------------------------------------------------------
(* translate, execute_load and complete_translation *)

(* A step that only moves slots between the lists and the caches. *)
OnlyMoves(c, new) ==
  /\ IsCore(new) /\ new.RT \in [Lists -> Seq(Nat)] /\ new.rob = c.rob /\ new.LQ = c.LQ
  /\ new.LQ_occupancy = c.LQ_occupancy /\ new.inflight_reg = c.inflight_reg
  /\ new.inflight_mem = c.inflight_mem /\ SameStores(c, new)
  /\ new.RT["RTE0"] = c.RT["RTE0"] /\ new.RT["RTE1"] = c.RT["RTE1"]

LEMMA MoveKeeps ==
  ASSUME NEW c, NEW new, NEW h, NEW t, NEW ns, NEW d, NEW r, Good(c, h, t, ns, d, r),
         OnlyMoves(c, new), NEW d2, NEW r2, d2 \subseteq {"LQ", "SQ"} \X Nat, r2 \subseteq LqSlot,
         PlacesOK(new, d2, r2)
  PROVE  Good(new, h, t, ns, d2, r2)
<1>g. /\ IsCore(c) /\ Typed(c) /\ Win(h, t, ns) /\ EntriesOK(c.rob, h, t, ns)
      /\ RegInv(c.rob, c.RT, h, ns) /\ LoadInv(c.rob, c.LQ, c.SQ, h, ns)
      /\ StoreInv(c, h, t, ns) /\ CountInv(c, h, t) /\ PlacesOK(c, d, r)
  BY GoodIs
<1>w. /\ h \in Nat \ {0} /\ t \in Nat /\ ns \in Nat /\ ns <= t /\ t <= MaxInstr + 1 /\ ns <= ns
  BY <1>g DEF Win
<1>o. /\ IsCore(new) /\ new.RT \in [Lists -> Seq(Nat)] /\ new.rob = c.rob /\ new.LQ = c.LQ
      /\ new.LQ_occupancy = c.LQ_occupancy /\ new.inflight_reg = c.inflight_reg
      /\ new.inflight_mem = c.inflight_mem /\ SameStores(c, new) /\ new.SQ = c.SQ
      /\ new.RT["RTE0"] = c.RT["RTE0"] /\ new.RT["RTE1"] = c.RT["RTE1"]
  BY DEF OnlyMoves, SameStores
<1>1. new \in Shape
  <2>1. Typed(new)
    BY <1>g, <1>o, Zenon DEF Typed, SameStores
  <2> QED
    BY <1>o, <2>1, ShapeIff
<1>2. RegInv(new.rob, new.RT, h, ns)
  BY <1>g, <1>o DEF RegInv, ReadyOK
<1>3. StoreInv(new, h, t, ns)
  <2>1. NoneAdded(new.rob, ns, ns) /\ MemFrame(c.rob, new.rob)
    BY <1>o, <1>w DEF NoneAdded, MemFrame, MemSame
  <2> QED
    BY <1>g, <1>o, <1>w, <2>1, StoreKept, Zenon
<1>4. CountInv(new, h, t)
  BY <1>g, <1>o DEF CountInv
<1>5. EntriesOK(new.rob, h, t, ns) /\ LoadInv(new.rob, new.LQ, new.SQ, h, ns) /\ Window(h, t, ns)
  BY <1>g, <1>o DEF Good
<1> QED
  BY <1>1, <1>2, <1>3, <1>4, <1>5 DEF Good

(* The elements of the lists, and what they say of the slots. *)
LEMMA PlacesTyped ==
  ASSUME NEW c, NEW d, NEW r, Typed(c), PlacesOK(c, d, r), d \subseteq {"LQ", "SQ"} \X Nat
  PROVE  /\ \A x \in {"RTL0", "RTL1"} : c.RT[x] \in Seq(Nat) /\ Elements(c.RT[x]) \subseteq LqSlot
         /\ \A x \in {"RTS0", "RTS1"} : c.RT[x] \in Seq(Nat) /\ Elements(c.RT[x]) \subseteq SqSlot
         /\ Translating(d, "LQ") \subseteq LqSlot /\ Translating(d, "SQ") \subseteq SqSlot
<1>1. \A x \in {"RTL0", "RTL1", "RTS0", "RTS1"} : c.RT[x] \in Seq(Nat)
  BY DEF Typed, Lists
<1> QED
  BY <1>1 DEF PlacesOK

Sent(d, d2, q, x) ==
  /\ Translating(d2, q) = Translating(d, q) \cup {x}
  /\ \A p : p # q => Translating(d2, p) = Translating(d, p)

LEMMA TranslatingMore ==
  ASSUME NEW d, NEW q, NEW x
  PROVE  Sent(d, d \cup {<<q, x>>}, q, x)
<1>1. {y \in d \cup {<<q, x>>} : y[1] = q} = {y \in d : y[1] = q} \cup {<<q, x>>}
  OBVIOUS
<1>2. Translating(d \cup {<<q, x>>}, q) = Translating(d, q) \cup {x}
  <2> DEFINE A == {y \in d : y[1] = q}
             e == <<q, x>>
  <2>1. Translating(d \cup {e}, q) = {z[2] : z \in A \cup {e}} /\ Translating(d, q) = {z[2] : z \in A} /\ e[2] = x
    BY <1>1 DEF Translating
  <2> HIDE DEF A, e
  <2>2. {z[2] : z \in A \cup {e}} = {z[2] : z \in A} \cup {e[2]}
    OBVIOUS
  <2> QED
    BY <2>1, <2>2 DEF e
<1>3. ASSUME NEW p, p # q PROVE Translating(d \cup {<<q, x>>}, p) = Translating(d, p)
  <2>1. {y \in d \cup {<<q, x>>} : y[1] = p} = {y \in d : y[1] = p}
    BY <1>3
  <2> QED
    BY <2>1 DEF Translating
<1> QED
  BY <1>2, <1>3 DEF Sent

PoppedOf(c, list) == [c EXCEPT !.RT[list] = Tail(@)]

LEMMA PoppedIs ==
  ASSUME NEW c, IsCore(c), Typed(c), NEW list \in {"RTL0", "RTL1", "RTS0", "RTS1"}, c.RT[list] # << >>,
         Distinct(c.RT[list]), NEW new, new = PoppedOf(c, list)
  PROVE  /\ OnlyMoves(c, new) /\ \A x \in {"RTL0", "RTL1", "RTS0", "RTS1"} : x # list => new.RT[x] = c.RT[x]
         /\ Elements(c.RT[list]) = Elements(new.RT[list]) \cup {Head(c.RT[list])}
         /\ Head(c.RT[list]) \notin Elements(new.RT[list]) /\ Distinct(new.RT[list])
<1> DEFINE q == Tail(c.RT[list])
<1>t. c.RT \in [Lists -> Seq(Nat)] /\ list \in Lists /\ c.RT[list] \in Seq(Nat)
  BY DEF Typed, Lists
<1>1. q \in Seq(Nat) /\ Distinct(q) /\ Head(c.RT[list]) \notin Elements(q)
      /\ Elements(c.RT[list]) = Elements(q) \cup {Head(c.RT[list])}
  BY <1>t, TailList
<1>2. new = [c EXCEPT !.RT[list] = q]
  BY DEF PoppedOf
<1> HIDE DEF q
<1>3. /\ IsCore(new) /\ new.RT = [c.RT EXCEPT ![list] = q] /\ new.rob = c.rob /\ new.LQ = c.LQ
      /\ new.LQ_occupancy = c.LQ_occupancy /\ new.inflight_reg = c.inflight_reg
      /\ new.inflight_mem = c.inflight_mem /\ SameStores(c, new)
  BY <1>2 DEF IsCore, Names, SameStores
<1>4. /\ new.RT \in [Lists -> Seq(Nat)] /\ new.RT[list] = q /\ \A x \in Lists : x # list => new.RT[x] = c.RT[x]
  BY <1>1, <1>3, <1>t
<1>5. OnlyMoves(c, new)
  BY <1>3, <1>4 DEF OnlyMoves, Lists
<1> QED
  BY <1>1, <1>4, <1>5 DEF Lists

LEMMA TranslateStep ==
  ASSUME NEW c, NEW h, NEW t, NEW ns, NEW d, NEW r, Good(c, h, t, ns, d, r), NEW list, NEW queue,
         (list = "RTS0" /\ queue = "SQ") \/ (list = "RTL0" /\ queue = "LQ"), c.RT[list] # << >>,
         NEW new, new = PoppedOf(c, list)
  PROVE  Good(new, h, t, ns, d \cup {<<queue, Head(c.RT[list])>>}, r)
<1> DEFINE x == Head(c.RT[list])
           d2 == d \cup {<<queue, x>>}
<1>g. IsCore(c) /\ Typed(c) /\ PlacesOK(c, d, r)
  BY GoodIs
<1>d. d \subseteq {"LQ", "SQ"} \X Nat /\ r \subseteq LqSlot
  BY DEF Good
<1>1. Distinct(c.RT[list]) /\ list \in {"RTL0", "RTL1", "RTS0", "RTS1"}
  BY <1>g DEF PlacesOK
<1>2. /\ OnlyMoves(c, new) /\ \A y \in {"RTL0", "RTL1", "RTS0", "RTS1"} : y # list => new.RT[y] = c.RT[y]
      /\ Elements(c.RT[list]) = Elements(new.RT[list]) \cup {x}
      /\ x \notin Elements(new.RT[list]) /\ Distinct(new.RT[list])
  BY <1>1, <1>g, PoppedIs
<1>3. x \in Nat
  <2>1. x \in LqSlot \/ x \in SqSlot
    BY <1>2, <1>g, <1>d, PlacesTyped
  <2> QED
    BY <2>1, Sizes DEF LqSlot, SqSlot
<1>4. /\ Translating(d2, queue) = Translating(d, queue) \cup {x}
      /\ \A p : p # queue => Translating(d2, p) = Translating(d, p)
  <2> HIDE DEF x
  <2>1. Sent(d, d2, queue, x)
    BY TranslatingMore, Zenon
  <2> QED
    BY <2>1, Zenon DEF Sent
<1>5. d2 \subseteq {"LQ", "SQ"} \X Nat
  BY <1>3, <1>d
<1> HIDE DEF x, d2
<1>6. PlacesOK(new, d2, r)
  <2>o. new.LQ = c.LQ /\ new.SQ = c.SQ
    BY <1>2 DEF OnlyMoves, SameStores
  <2>1. CASE list = "RTS0" /\ queue = "SQ"
    BY <1>2, <1>4, <1>g, <2>1, <2>o DEF PlacesOK
  <2>2. CASE list = "RTL0" /\ queue = "LQ"
    BY <1>2, <1>4, <1>g, <2>2, <2>o DEF PlacesOK
  <2> QED
    BY <2>1, <2>2
<1>7. Good(new, h, t, ns, d2, r)
  BY <1>2, <1>5, <1>6, <1>d, MoveKeeps, Zenon
<1> QED
  BY <1>7 DEF d2, x

LEMMA LoadStep ==
  ASSUME NEW c, NEW h, NEW t, NEW ns, NEW d, NEW r, Good(c, h, t, ns, d, r), c.RT["RTL1"] # << >>,
         NEW new, new = PoppedOf(c, "RTL1")
  PROVE  Good(new, h, t, ns, d, r \cup {Head(c.RT["RTL1"])})
<1> DEFINE x == Head(c.RT["RTL1"])
           r2 == r \cup {x}
           list == "RTL1"
<1>g. IsCore(c) /\ Typed(c) /\ PlacesOK(c, d, r)
  BY GoodIs
<1>d. d \subseteq {"LQ", "SQ"} \X Nat /\ r \subseteq LqSlot
  BY DEF Good
<1>1. Distinct(c.RT[list]) /\ list \in {"RTL0", "RTL1", "RTS0", "RTS1"}
  BY <1>g DEF PlacesOK
<1>2. /\ OnlyMoves(c, new) /\ \A y \in {"RTL0", "RTL1", "RTS0", "RTS1"} : y # list => new.RT[y] = c.RT[y]
      /\ Elements(c.RT[list]) = Elements(new.RT[list]) \cup {x}
      /\ x \notin Elements(new.RT[list]) /\ Distinct(new.RT[list])
  BY <1>1, <1>g, PoppedIs
<1>3. x \in LqSlot
  BY <1>2, <1>g, <1>d, PlacesTyped
<1>4. r2 \subseteq LqSlot
  BY <1>3, <1>d
<1> HIDE DEF x
<1>6. PlacesOK(new, d, r2)
  <2>o. new.LQ = c.LQ /\ new.SQ = c.SQ
    BY <1>2 DEF OnlyMoves, SameStores
  <2> QED
    BY <1>2, <1>g, <2>o DEF PlacesOK
<1> HIDE DEF r2
<1>7. Good(new, h, t, ns, d, r2)
  BY <1>2, <1>4, <1>6, <1>d, MoveKeeps, Zenon
<1> QED
  BY <1>7 DEF r2, x

(* The slots of one queue in an answer of the DTLB. *)
Answered(p, G, q) ==
  (IF p[1] = q THEN <<p[2]>> ELSE << >>) \o handle_merged_translation(G \ {p}, q)

LEMMA AnsweredIs ==
  ASSUME NEW G \in SUBSET ({"LQ", "SQ"} \X Nat), NEW p \in G, NEW q, NEW S \in SUBSET Nat, IsFiniteSet(S),
         Translating(G, q) \subseteq S
  PROVE  /\ Answered(p, G, q) \in Seq(Nat) /\ Distinct(Answered(p, G, q))
         /\ Elements(Answered(p, G, q)) = Translating(G, q)
<1> DEFINE M == Translating(G \ {p}, q)
           T == Translating(G, q)
           u == Ascending(M)
<1>1. \A g \in G : g = <<g[1], g[2]>> /\ g[2] \in Nat
  OBVIOUS
<1>2. \A z : z \in M <=> \E g \in G \ {p} : g[1] = q /\ z = g[2]
  BY DEF Translating
<1>3. \A z : z \in T <=> \E g \in G : g[1] = q /\ z = g[2]
  BY DEF Translating
<1>4. Answered(p, G, q) = (IF p[1] = q THEN <<p[2]>> ELSE << >>) \o u
  BY DEF Answered, handle_merged_translation, Translating
<1> HIDE DEF M, T
<1>5. M \subseteq T
  BY <1>2, <1>3
<1>6. u \in Seq(M) /\ Elements(u) = M /\ Distinct(u)
  <2>1. M \in SUBSET Nat /\ IsFiniteSet(M)
    BY <1>5, FS_Subset DEF T
  <2> QED
    BY <2>1, AscendingIs
<1>7. u \in Seq(Nat)
  <2>1. M \subseteq Nat
    BY <1>5 DEF T
  <2> QED
    BY <1>6, <2>1, SeqSubset
<1> HIDE DEF u
<1>8. CASE p[1] = q
  <2>1. p[2] \in Nat /\ p[2] \notin M
    BY <1>1, <1>2, <1>8
  <2>2. T = {p[2]} \cup M
    BY <1>1, <1>2, <1>3, <1>8
  <2>3. <<p[2]>> \in Seq(Nat) /\ Distinct(<<p[2]>>) /\ Elements(<<p[2]>>) = {p[2]}
    BY <2>1, OneList
  <2>4. Elements(<<p[2]>>) \cap Elements(u) = {}
    BY <1>6, <2>1, <2>3
  <2> DEFINE v == <<p[2]>>
  <2>5. Answered(p, G, q) = v \o u
    BY <1>4, <1>8
  <2> HIDE DEF v
  <2>6. v \o u \in Seq(Nat) /\ Distinct(v \o u) /\ Elements(v \o u) = Elements(v) \cup Elements(u)
    <3>1. v \in Seq(Nat) /\ Distinct(v) /\ Elements(v) \cap Elements(u) = {}
      BY <2>3, <2>4 DEF v
    <3> QED
      BY <1>6, <1>7, <3>1, ConcatList
  <2> QED
    BY <1>6, <2>2, <2>3, <2>5, <2>6 DEF v, T
<1>9. CASE p[1] # q
  <2>1. T = M
    BY <1>2, <1>3, <1>9
  <2>2. Answered(p, G, q) = u
    BY <1>4, <1>7, <1>9
  <2> QED
    BY <1>6, <1>7, <2>1, <2>2 DEF T
<1> QED
  BY <1>8, <1>9

TranslatedOf(c, p, G) ==
  [c EXCEPT !.RT["RTS1"] = @ \o Answered(p, G, "SQ"), !.RT["RTL1"] = @ \o Answered(p, G, "LQ")]

LEMMA TranslationStep ==
  ASSUME NEW c, NEW h, NEW t, NEW ns, NEW d, NEW r, Good(c, h, t, ns, d, r), NEW G \in SUBSET d, NEW p \in G,
         NEW new, new = TranslatedOf(c, p, G)
  PROVE  Good(new, h, t, ns, d \ G, r)
<1> DEFINE a == Answered(p, G, "SQ")
           b == Answered(p, G, "LQ")
           d2 == d \ G
<1>g. IsCore(c) /\ Typed(c) /\ PlacesOK(c, d, r)
  BY GoodIs
<1>d. d \subseteq {"LQ", "SQ"} \X Nat /\ r \subseteq LqSlot
  BY DEF Good
<1>1. /\ \A x \in {"RTL0", "RTL1"} : c.RT[x] \in Seq(Nat) /\ Elements(c.RT[x]) \subseteq LqSlot
      /\ \A x \in {"RTS0", "RTS1"} : c.RT[x] \in Seq(Nat) /\ Elements(c.RT[x]) \subseteq SqSlot
      /\ Translating(d, "LQ") \subseteq LqSlot /\ Translating(d, "SQ") \subseteq SqSlot
  BY <1>d, <1>g, PlacesTyped
<1>2. ASSUME NEW q
      PROVE  Translating(d, q) = Translating(d2, q) \cup Translating(G, q) /\ Translating(d2, q) \cap Translating(G, q) = {}
  <2>1. \A x \in d : x = <<x[1], x[2]>>
    BY <1>d
  <2>2. /\ \A z : z \in Translating(d, q) <=> \E y \in d : y[1] = q /\ z = y[2]
        /\ \A z : z \in Translating(d2, q) <=> \E y \in d2 : y[1] = q /\ z = y[2]
        /\ \A z : z \in Translating(G, q) <=> \E y \in G : y[1] = q /\ z = y[2]
    BY DEF Translating
  <2>3. ASSUME NEW z PROVE z \in Translating(d, q) <=> z \in Translating(d2, q) \cup Translating(G, q)
    BY <2>2
  <2>4. ASSUME NEW z, z \in Translating(d2, q), z \in Translating(G, q) PROVE FALSE
    <3>1. PICK x \in d2 : x[1] = q /\ z = x[2]
      BY <2>2, <2>4
    <3>2. PICK y \in G : y[1] = q /\ z = y[2]
      BY <2>2, <2>4
    <3>3. x = <<q, z>> /\ y = <<q, z>>
      BY <2>1, <3>1, <3>2
    <3> QED
      BY <3>3
  <2> QED
    BY <2>3, <2>4
<1>3. LqSlot \in SUBSET Nat /\ SqSlot \in SUBSET Nat /\ IsFiniteSet(LqSlot) /\ IsFiniteSet(SqSlot)
  <2>1. 0 \in Int /\ LQ_SIZE - 1 \in Int /\ SQ_SIZE - 1 \in Int
    BY Sizes
  <2> QED
    BY <2>1, FS_Interval DEF LqSlot, SqSlot
<1>4. /\ a \in Seq(Nat) /\ Distinct(a) /\ Elements(a) = Translating(G, "SQ")
      /\ b \in Seq(Nat) /\ Distinct(b) /\ Elements(b) = Translating(G, "LQ")
  <2>1. G \in SUBSET ({"LQ", "SQ"} \X Nat)
    BY <1>d
  <2>2. Translating(G, "SQ") \subseteq SqSlot /\ Translating(G, "LQ") \subseteq LqSlot
    BY <1>1, <1>2
  <2> QED
    BY <1>3, <2>1, <2>2, AnsweredIs
<1> DEFINE s1 == c.RT["RTS1"] \o a
           l1 == c.RT["RTL1"] \o b
<1>5. new = [c EXCEPT !.RT["RTS1"] = s1, !.RT["RTL1"] = l1]
  <2> HIDE DEF a, b
  <2>1. new = [c EXCEPT !.RT["RTS1"] = @ \o a, !.RT["RTL1"] = @ \o b]
    BY Zenon DEF TranslatedOf, a, b
  <2>2. c.RT \in [Lists -> Seq(Nat)]
    BY <1>g DEF Typed
  <2> QED
    BY <1>g, <2>1, <2>2 DEF IsCore, Names, Lists
<1> HIDE DEF a, b, d2
<1>6. Elements(c.RT["RTS1"]) \cap Elements(a) = {} /\ Elements(c.RT["RTL1"]) \cap Elements(b) = {}
  BY <1>2, <1>4, <1>g DEF PlacesOK
<1>7. Distinct(c.RT["RTS1"]) /\ Distinct(c.RT["RTL1"])
  BY <1>g DEF PlacesOK
<1>8. /\ s1 \in Seq(Nat) /\ Distinct(s1) /\ Elements(s1) = Elements(c.RT["RTS1"]) \cup Elements(a)
      /\ l1 \in Seq(Nat) /\ Distinct(l1) /\ Elements(l1) = Elements(c.RT["RTL1"]) \cup Elements(b)
  BY <1>1, <1>4, <1>6, <1>7, ConcatList
<1> HIDE DEF s1, l1
<1>9. /\ IsCore(new) /\ new.RT = [c.RT EXCEPT !["RTS1"] = s1, !["RTL1"] = l1] /\ new.rob = c.rob /\ new.LQ = c.LQ
      /\ new.LQ_occupancy = c.LQ_occupancy /\ new.inflight_reg = c.inflight_reg
      /\ new.inflight_mem = c.inflight_mem /\ SameStores(c, new)
  BY <1>5, <1>g DEF IsCore, Names, SameStores
<1>10. /\ new.RT \in [Lists -> Seq(Nat)] /\ new.RT["RTS1"] = s1 /\ new.RT["RTL1"] = l1
       /\ \A x \in {"RTE0", "RTE1", "RTL0", "RTS0"} : new.RT[x] = c.RT[x]
  <2>1. c.RT \in [Lists -> Seq(Nat)]
    BY <1>g DEF Typed
  <2>2. "RTS1" \in Lists /\ "RTL1" \in Lists /\ {"RTE0", "RTE1", "RTL0", "RTS0"} \subseteq Lists
    BY DEF Lists
  <2>3. /\ new.RT \in [Lists -> Seq(Nat)] /\ new.RT["RTS1"] = s1 /\ new.RT["RTL1"] = l1
        /\ \A x \in Lists : x # "RTS1" /\ x # "RTL1" => new.RT[x] = c.RT[x]
    BY <1>8, <1>9, <2>1, <2>2
  <2> QED
    BY <2>2, <2>3
<1>11. OnlyMoves(c, new)
  BY <1>9, <1>10 DEF OnlyMoves
<1>12. PlacesOK(new, d2, r)
  <2>o. new.LQ = c.LQ /\ new.SQ = c.SQ
    BY <1>9 DEF SameStores
  <2> QED
    BY <1>2, <1>4, <1>8, <1>10, <1>g, <2>o DEF PlacesOK
<1>13. d2 \subseteq {"LQ", "SQ"} \X Nat
  BY <1>d DEF d2
<1>14. Good(new, h, t, ns, d2, r)
  BY <1>11, <1>12, <1>13, <1>d, MoveKeeps, Zenon
<1> QED
  BY <1>14 DEF d2

-------------------------------------------------------------------------------
(* Dispatch *)

(* A step that changes no entry of the scheduled part. *)
SameIn(rob, new, h, ns) == \A i \in h .. ns - 1 : new[i] = rob[i]

LEMMA SameStoresOK ==
  ASSUME NEW rob, NEW new, NEW SQ, NEW h, NEW ns, SameIn(rob, new, h, ns), StoresOK(rob, SQ, h, ns)
  PROVE  StoresOK(new, SQ, h, ns)
<1>1. ASSUME NEW s \in SqSlot
      PROVE  IF SQ[s].addr = 0 THEN SQ[s] = EmptyStore
             ELSE SQ[s].id \in h .. ns - 1 /\ \E j \in new[SQ[s].id].destination_added : new[SQ[s].id].sq_index[j] = s
  <2>1. SQ[s].addr # 0 => new[SQ[s].id] = rob[SQ[s].id]
    BY Zenon, StoreSlot DEF SameIn
  <2> QED
    BY <2>1, StoreSlot
<1>2. ASSUME NEW i \in h .. ns - 1, NEW j \in new[i].destination_added
      PROVE  /\ new[i].sq_index[j] \in SqSlot
             /\ SQ[new[i].sq_index[j]].id = i /\ SQ[new[i].sq_index[j]].addr = new[i].ins.dst[j]
             /\ \A k \in new[i].destination_added : new[i].sq_index[j] = new[i].sq_index[k] => j = k
  <2>1. new[i] = rob[i]
    BY DEF SameIn
  <2> QED
    BY <2>1, StoreEntry
<1> QED
  BY Zenon, <1>1, <1>2 DEF StoresOK

LEMMA ScheduledKept ==
  ASSUME NEW c, NEW new, NEW h \in Nat \ {0}, NEW ns \in Nat, ns <= MaxInstr + 1, SameIn(c.rob, new.rob, h, ns),
         new.LQ = c.LQ, new.SQ = c.SQ, new.RT = c.RT,
         RegInv(c.rob, c.RT, h, ns), LoadInv(c.rob, c.LQ, c.SQ, h, ns), StoresOK(c.rob, c.SQ, h, ns)
  PROVE  /\ RegInv(new.rob, new.RT, h, ns) /\ LoadInv(new.rob, new.LQ, new.SQ, h, ns)
         /\ StoresOK(new.rob, new.SQ, h, ns)
<1>1. RegInv(new.rob, new.RT, h, ns)
  <2>1. RegFrame(c.rob, new.rob, h, ns)
    BY DEF RegFrame, SameIn
  <2>2. h \in Nat /\ new.RT["RTE0"] = c.RT["RTE0"] /\ new.RT["RTE1"] = c.RT["RTE1"]
    OBVIOUS
  <2> QED
    BY <2>1, <2>2, RegKept
<1>2. LoadInv(new.rob, new.LQ, new.SQ, h, ns)
  <2>1. MemFrameIn(c.rob, new.rob, h, ns) /\ ns <= ns /\ ns .. ns - 1 = {}
    BY DEF MemFrameIn, MemSame, SameIn
  <2>2. LoadInv(new.rob, c.LQ, c.SQ, h, ns)
    BY <2>1, LoadKept
  <2> QED
    BY <2>2
<1>3. StoresOK(new.rob, new.SQ, h, ns)
  BY SameStoresOK
<1> QED
  BY <1>1, <1>2, <1>3

LEMMA IntervalCount ==
  ASSUME NEW a \in Int, NEW b \in Int, NEW n \in Nat, b = a + n - 1
  PROVE  IsFiniteSet(a .. b) /\ Cardinality(a .. b) = n
<1>1. (IF a > b THEN 0 ELSE b - a + 1) = n
  OBVIOUS
<1> QED
  BY <1>1, FS_Interval

LEMMA AtSlot ==
  ASSUME NEW c, c.SQ_head \in SqSlot, NEW k \in Nat
  PROVE  at(c, k) \in SqSlot
<1> DEFINE x == c.SQ_head + k
<1>1. x \in Int /\ SQ_SIZE \in Nat \ {0}
  BY Sizes DEF SqSlot
<1>2. at(c, k) = x % SQ_SIZE
  BY DEF at
<1> HIDE DEF x
<1>3. x % SQ_SIZE \in 0 .. SQ_SIZE - 1
  BY <1>1
<1> QED
  BY <1>2, <1>3 DEF SqSlot

(* n copies of t behind s. *)
Extends(s, x, n, t) ==
  /\ x \in Seq(Id) /\ DOMAIN x = 1 .. Len(s) + n /\ \A b \in 1 .. Len(s) : x[b] = s[b]
  /\ \A b \in Len(s) + 1 .. Len(s) + n : x[b] = t

LEMMA ExtendsIs ==
  ASSUME NEW s \in Seq(Id), NEW n \in Nat, NEW t \in Id, NEW u, u = [j \in 1 .. n |-> t]
  PROVE  Extends(s, s \o u, n, t)
<1>1. u \in Seq(Id) /\ Len(u) = n /\ \A b \in 1 .. n : u[b] = t
  OBVIOUS
<1> QED
  BY <1>1 DEF Extends

(* The order of the stores when i's entry is new and STA has its stores. *)
LEMMA OrderDispatch ==
  ASSUME NEW c, NEW new, NEW h \in Nat \ {0}, NEW t \in Nat, h <= t, t <= MaxInstr, OrderOK(c, h, t),
         RingOK(c), c.STA \in Seq(Id), NEW ns \in Nat, ns <= t, StoresOK(c.rob, c.SQ, h, ns), c.SQ_head \in SqSlot,
         new.SQ = c.SQ, new.SQ_head = c.SQ_head, new.SQ_occupancy = c.SQ_occupancy,
         SameIn(c.rob, new.rob, h, t), NEW n \in Nat, Extends(c.STA, new.STA, n, t),
         new.rob[t].destination_added = {}, DOMAIN new.rob[t].ins.dst = 1 .. n
  PROVE  OrderOK(new, h, t + 1)
<1>a. \A k : at(new, k) = at(c, k)
  BY DEF at
<1>b. ASSUME NEW k \in 0 .. c.SQ_occupancy - 1 PROVE c.SQ[at(c, k)].id \in h .. t - 1
  <2>1. c.SQ_occupancy \in 0 .. SQ_SIZE /\ k \in 0 .. SQ_SIZE - 1 /\ k < c.SQ_occupancy
    BY Sizes DEF RingOK
  <2>2. at(c, k) \in SqSlot
    BY <2>1, AtSlot
  <2>3. c.SQ[at(c, k)].addr # 0
    BY <2>1 DEF RingOK
  <2>4. c.SQ[at(c, k)].id \in h .. ns - 1
    BY Zenon, <2>2, <2>3, StoreSlot
  <2> QED
    BY <2>4
<1>l. Len(c.STA) \in Nat /\ DOMAIN c.STA = 1 .. Len(c.STA)
  BY LenIs
<1> DEFINE m == Len(c.STA)
<1>x. /\ DOMAIN new.STA = 1 .. m + n /\ \A b \in 1 .. m : new.STA[b] = c.STA[b]
      /\ \A b \in m + 1 .. m + n : new.STA[b] = t
  BY DEF Extends
<1>y. m \in Nat /\ DOMAIN c.STA = 1 .. m
  BY <1>l
<1> HIDE DEF m
<1>o. /\ \A a, b \in 0 .. c.SQ_occupancy - 1 : a <= b => c.SQ[at(c, a)].id <= c.SQ[at(c, b)].id
      /\ \A a, b \in 1 .. m : a <= b => c.STA[a] <= c.STA[b]
      /\ \A a \in 0 .. c.SQ_occupancy - 1, b \in 1 .. m : c.SQ[at(c, a)].id <= c.STA[b]
      /\ \A b \in 1 .. m : c.STA[b] \in h .. t - 1
      /\ \A i \in h .. t - 1 : Cardinality({b \in 1 .. m : c.STA[b] = i})
                                 = Cardinality(DOMAIN c.rob[i].ins.dst \ c.rob[i].destination_added)
  BY <1>y DEF OrderOK
<1>1. \A a, b \in 0 .. new.SQ_occupancy - 1 : a <= b => new.SQ[at(new, a)].id <= new.SQ[at(new, b)].id
  BY <1>a, <1>o
<1>2. ASSUME NEW b \in 1 .. m + n PROVE b \in 1 .. m \/ b \in m + 1 .. m + n
  BY <1>y
<1>3. \A b \in DOMAIN new.STA : new.STA[b] \in h .. t
  BY <1>2, <1>o, <1>x
<1>4. \A a, b \in DOMAIN new.STA : a <= b => new.STA[a] <= new.STA[b]
  <2> SUFFICES ASSUME NEW a \in 1 .. m + n, NEW b \in 1 .. m + n, a <= b PROVE new.STA[a] <= new.STA[b]
    BY <1>x
  <2>1. CASE b \in 1 .. m
    <3>1. a \in 1 .. m
      BY <1>y, <2>1
    <3> QED
      BY <1>o, <1>x, <2>1, <3>1
  <2>2. CASE b \in m + 1 .. m + n
    BY <1>3, <1>x, <2>2
  <2> QED
    BY <1>2, <2>1, <2>2
<1>5. \A a \in 0 .. new.SQ_occupancy - 1, b \in DOMAIN new.STA : new.SQ[at(new, a)].id <= new.STA[b]
  <2> SUFFICES ASSUME NEW a \in 0 .. c.SQ_occupancy - 1, NEW b \in 1 .. m + n PROVE c.SQ[at(c, a)].id <= new.STA[b]
    BY <1>a, <1>x
  <2>1. CASE b \in 1 .. m
    BY <1>o, <1>x, <2>1
  <2>2. CASE b \in m + 1 .. m + n
    BY <1>b, <1>x, <2>2
  <2> QED
    BY <1>2, <2>1, <2>2
<1>6. ASSUME NEW i \in h .. t
      PROVE  Cardinality({b \in DOMAIN new.STA : new.STA[b] = i})
               = Cardinality(DOMAIN new.rob[i].ins.dst \ new.rob[i].destination_added)
  <2>1. CASE i \in h .. t - 1
    <3>1. {b \in DOMAIN new.STA : new.STA[b] = i} = {b \in 1 .. m : c.STA[b] = i}
      BY <1>2, <1>x, <1>y, <2>1
    <3> QED
      BY <1>o, <2>1, <3>1 DEF SameIn
  <2>2. CASE i = t
    <3>1. {b \in DOMAIN new.STA : new.STA[b] = i} = m + 1 .. m + n
      BY <1>2, <1>o, <1>x, <1>y, <2>2
    <3>2. DOMAIN new.rob[i].ins.dst \ new.rob[i].destination_added = 1 .. n
      BY <2>2
    <3>4. Cardinality(m + 1 .. m + n) = n /\ Cardinality(1 .. n) = n
      <4>1. Cardinality(m + 1 .. m + n) = n
        <5> DEFINE lo == m + 1
                   hi == m + n
        <5>1. lo \in Int /\ hi \in Int /\ hi = lo + n - 1
          BY <1>y
        <5> HIDE DEF lo, hi
        <5>2. Cardinality(lo .. hi) = n
          BY <5>1, IntervalCount
        <5> QED
          BY <5>2 DEF lo, hi
      <4>2. Cardinality(1 .. n) = n
        <5>1. 1 \in Int /\ n \in Int /\ n = 1 + n - 1
          OBVIOUS
        <5> QED
          BY <5>1, IntervalCount
      <4> QED
        BY <4>1, <4>2
    <3> QED
      BY <3>1, <3>2, <3>4
  <2> QED
    BY <2>1, <2>2
<1>7. h .. t = h .. (t + 1) - 1
  OBVIOUS
<1> QED
  BY <1>1, <1>3, <1>4, <1>5, <1>6, <1>7 DEF OrderOK

(* The entry that add_to_rob makes. *)
LEMMA EntryFields ==
  ASSUME NEW ins
  PROVE  /\ Entry(ins).ins = ins /\ Entry(ins).executed = "NO" /\ Entry(ins).reg_ready = FALSE
         /\ Entry(ins).num_mem_ops = Len(ins.src) + Len(ins.dst)
         /\ Entry(ins).source_added = {} /\ Entry(ins).destination_added = {}
         /\ DOMAIN Entry(ins).lq_index = DOMAIN ins.src /\ DOMAIN Entry(ins).sq_index = DOMAIN ins.dst
         /\ Entry(ins).reg_depend_on_me = {} /\ Entry(ins).mem_depend_on_me = {}
BY DEF Entry

(* The queues hold nothing of an instruction that is not scheduled. *)
LEMMA NoneOf ==
  ASSUME NEW c, NEW h \in Nat \ {0}, NEW ns \in Nat, LoadsOK(c.rob, c.LQ, h, ns), StoresOK(c.rob, c.SQ, h, ns),
         NEW i \in Nat \ {0}, i \notin h .. ns - 1
  PROVE  LoadsOf(c.LQ, i) = {} /\ StoresOf(c.SQ, i) = {}
<1>0. i # 0
  OBVIOUS
<1>1. ASSUME NEW l \in LqSlot, c.LQ[l].id = i PROVE FALSE
  BY Zenon, <1>0, <1>1, UsedSlots
<1>2. ASSUME NEW s \in SqSlot, c.SQ[s].id = i PROVE FALSE
  BY Zenon, <1>0, <1>2, UsedSlots
<1> QED
  BY <1>1, <1>2 DEF LoadsOf, StoresOf

LEMMA SeqCount ==
  ASSUME NEW S, NEW s \in Seq(S)
  PROVE  IsFiniteSet(DOMAIN s) /\ Cardinality(DOMAIN s) = Len(s) /\ Len(s) \in Nat
<1>1. Len(s) \in Nat /\ DOMAIN s = 1 .. Len(s)
  BY LenIs
<1>2. 1 \in Int /\ Len(s) \in Int /\ Len(s) = 1 + Len(s) - 1
  BY <1>1
<1> QED
  BY <1>1, <1>2, IntervalCount

DispatchedOf(c, t, ins) ==
  [[c EXCEPT !.rob[t] = Entry(ins)] EXCEPT !.STA = @ \o [j \in DOMAIN ins.dst |-> t]]

LEMMA DispatchStep ==
  ASSUME NEW c, NEW h, NEW t, NEW ns, NEW d, NEW r, Good(c, h, t, ns, d, r), NEW ins \in Instr,
         t <= MaxInstr, t - h < ROB_SIZE, NEW new, new = DispatchedOf(c, t, ins)
  PROVE  Good(new, h, t + 1, ns, d, r)
<1> DEFINE e == Entry(ins)
           n == Len(ins.dst)
           sta == c.STA \o [j \in DOMAIN ins.dst |-> t]
<1>g. /\ IsCore(c) /\ Typed(c) /\ Win(h, t, ns) /\ EntriesOK(c.rob, h, t, ns)
      /\ RegInv(c.rob, c.RT, h, ns) /\ LoadInv(c.rob, c.LQ, c.SQ, h, ns)
      /\ StoreInv(c, h, t, ns) /\ CountInv(c, h, t) /\ PlacesOK(c, d, r)
  BY GoodIs
<1>w. /\ h \in Nat \ {0} /\ t \in Nat /\ ns \in Nat /\ h <= ns /\ ns <= t /\ h <= t /\ ns <= MaxInstr + 1
      /\ MaxInstr \in Nat /\ ROB_SIZE \in Nat /\ h .. t - 1 \subseteq Id /\ h .. ns - 1 \subseteq Id
      /\ t \in Id
  BY <1>g DEF Win, Id
<1>t. c.rob \in [Id -> Row] /\ c.STA \in Seq(Id) /\ c.SQ_head \in SqSlot
  BY <1>g DEF Typed
<1>s. StoresOK(c.rob, c.SQ, h, ns) /\ RingOK(c) /\ OrderOK(c, h, t) /\ LoadsOK(c.rob, c.LQ, h, ns)
  BY <1>g DEF StoreInv, LoadInv
<1>i. /\ ins \in Instr \cup {NoInstr} /\ ins.src \in Seq(Addr) /\ ins.dst \in Seq(Addr) /\ DOMAIN ins.dst = 1 .. n
      /\ n \in Nat /\ Len(ins.src) \in Nat /\ DOMAIN ins.src = 1 .. Len(ins.src)
  <2>1. ins.src \in Seq(Addr) /\ ins.dst \in Seq(Addr)
    BY InsIs
  <2> QED
    BY <2>1, LenIs
<1>e. e \in Row
  BY <1>i, EntryIs
<1>f. /\ e.ins = ins /\ e.executed = "NO" /\ e.num_mem_ops = Len(ins.src) + n
      /\ e.source_added = {} /\ e.destination_added = {} /\ DOMAIN e.lq_index = DOMAIN ins.src
      /\ DOMAIN e.sq_index = DOMAIN ins.dst
  BY EntryFields
<1>x. Extends(c.STA, sta, n, t)
  <2> DEFINE u == [j \in DOMAIN ins.dst |-> t]
  <2>1. u = [j \in 1 .. n |-> t]
    BY <1>i
  <2> HIDE DEF u, n
  <2>2. Extends(c.STA, c.STA \o u, n, t)
    BY <1>i, <1>t, <1>w, <2>1, ExtendsIs
  <2> QED
    BY <2>2 DEF u
<1>1. new = [c EXCEPT !.rob[t] = e, !.STA = sta]
  BY <1>g DEF IsCore, Names, DispatchedOf
<1> HIDE DEF e, n, sta
<1>2. /\ IsCore(new) /\ new.rob = [c.rob EXCEPT ![t] = e] /\ new.STA = sta /\ new.RT = c.RT
      /\ new.LQ = c.LQ /\ new.LQ_occupancy = c.LQ_occupancy /\ new.SQ = c.SQ
      /\ new.SQ_head = c.SQ_head /\ new.SQ_tail = c.SQ_tail /\ new.SQ_occupancy = c.SQ_occupancy
      /\ new.inflight_mem = c.inflight_mem /\ new.inflight_reg = c.inflight_reg
  BY <1>1, <1>g DEF IsCore, Names
<1>3. new.rob \in [Id -> Row] /\ new.rob[t] = e /\ \A k \in Id : k # t => new.rob[k] = c.rob[k]
  BY <1>2, <1>e, <1>t, <1>w
<1>4. new \in Shape
  <2>1. sta \in Seq(Id)
    BY <1>x DEF Extends
  <2>2. Typed(new)
    BY <1>2, <1>3, <1>g, <2>1, Zenon DEF Typed
  <2> QED
    BY <1>2, <2>2, ShapeIff
<1>5. Window(h, t + 1, ns)
  BY <1>w DEF Window
<1>6. EntriesOK(new.rob, h, t + 1, ns)
  <2> SUFFICES ASSUME NEW i \in Id
               PROVE  LET v == new.rob[i]
                      IN  /\ i \notin h .. (t + 1) - 1 => v.ins = NoInstr
                          /\ i \notin h .. ns - 1 => v = Entry(v.ins)
                          /\ v.source_added \subseteq DOMAIN v.ins.src /\ DOMAIN v.lq_index = DOMAIN v.ins.src
                          /\ v.destination_added \subseteq DOMAIN v.ins.dst /\ DOMAIN v.sq_index = DOMAIN v.ins.dst
    BY DEF EntriesOK
  <2>0. i \in Int
    BY <1>w DEF Id
  <2>1. CASE i = t
    <3>1. i \in h .. (t + 1) - 1
      BY <1>w, <2>1
    <3>2. e = Entry(e.ins)
      BY <1>f DEF e
    <3> QED
      BY <1>3, <1>f, <2>1, <3>1, <3>2
  <2>2. CASE i # t
    <3>1. i \notin h .. (t + 1) - 1 => i \notin h .. t - 1
      BY <1>w, <2>0
    <3> QED
      BY <1>3, <1>g, <2>2, <3>1 DEF EntriesOK
  <2> QED
    BY <2>1, <2>2
<1>7. SameIn(c.rob, new.rob, h, t) /\ SameIn(c.rob, new.rob, h, ns)
  BY <1>3, <1>w DEF SameIn
<1>8. /\ RegInv(new.rob, new.RT, h, ns) /\ LoadInv(new.rob, new.LQ, new.SQ, h, ns)
      /\ StoresOK(new.rob, new.SQ, h, ns)
  BY <1>2, <1>7, <1>g, <1>s, <1>w, ScheduledKept
<1>9. OrderOK(new, h, t + 1)
  <2>1. new.rob[t].destination_added = {} /\ DOMAIN new.rob[t].ins.dst = 1 .. n /\ Extends(c.STA, new.STA, n, t)
    BY <1>2, <1>3, <1>f, <1>i, <1>x
  <2> QED
    BY <1>2, <1>7, <1>i, <1>s, <1>t, <1>w, <2>1, OrderDispatch
<1>10. StoreInv(new, h, t + 1, ns)
  <2>1. RingOK(new)
    BY <1>2, <1>s DEF RingOK, at
  <2> QED
    BY <1>8, <1>9, <2>1 DEF StoreInv
<1>c. LoadsOf(c.LQ, t) = {} /\ StoresOf(c.SQ, t) = {}
  <2>1. t \in Nat \ {0} /\ t \notin h .. ns - 1
    BY <1>w
  <2> QED
    BY <1>s, <1>w, <2>1, NoneOf
<1>u. ASSUME NEW i \in h .. (t + 1) - 1 PROVE (i = t /\ new.rob[i] = e) \/ (i \in h .. t - 1 /\ i # t /\ new.rob[i] = c.rob[i])
  BY <1>3, <1>w
<1>11. OpsOK(new.rob, new.LQ, new.SQ, h, t + 1)
  <2>1. e.num_mem_ops = Cardinality(DOMAIN e.ins.src \ e.source_added)
                        + Cardinality(DOMAIN e.ins.dst \ e.destination_added)
                        + Cardinality(LoadsOf(c.LQ, t)) + Cardinality(StoresOf(c.SQ, t))
    <3>1. /\ Cardinality(DOMAIN e.ins.src \ e.source_added) = Len(ins.src)
          /\ Cardinality(DOMAIN e.ins.dst \ e.destination_added) = n
      <4>1. DOMAIN e.ins.src \ e.source_added = DOMAIN ins.src /\ DOMAIN e.ins.dst \ e.destination_added = DOMAIN ins.dst
        BY <1>f
      <4> QED
        BY <1>i, <4>1, SeqCount DEF n
    <3>2. Cardinality(LoadsOf(c.LQ, t)) = 0 /\ Cardinality(StoresOf(c.SQ, t)) = 0
      BY <1>c, FS_EmptySet
    <3>3. e.num_mem_ops = Len(ins.src) + n
      BY <1>f
    <3> HIDE DEF e
    <3> QED
      BY <1>i, <3>1, <3>2, <3>3
  <2>2. ~Done(e)
    BY <1>f DEF Done
  <2>3. \A i \in h .. t - 1 :
          /\ c.rob[i].num_mem_ops = Cardinality(DOMAIN c.rob[i].ins.src \ c.rob[i].source_added)
                            + Cardinality(DOMAIN c.rob[i].ins.dst \ c.rob[i].destination_added)
                            + Cardinality(LoadsOf(c.LQ, i)) + Cardinality(StoresOf(c.SQ, i))
          /\ Done(c.rob[i]) => c.rob[i].num_mem_ops = 0
    BY <1>g DEF CountInv, OpsOK
  <2>s. new.LQ = c.LQ /\ new.SQ = c.SQ
    BY <1>2
  <2>4. ASSUME NEW i \in h .. (t + 1) - 1
        PROVE  /\ new.rob[i].num_mem_ops = Cardinality(DOMAIN new.rob[i].ins.src \ new.rob[i].source_added)
                            + Cardinality(DOMAIN new.rob[i].ins.dst \ new.rob[i].destination_added)
                            + Cardinality(LoadsOf(new.LQ, i)) + Cardinality(StoresOf(new.SQ, i))
               /\ Done(new.rob[i]) => new.rob[i].num_mem_ops = 0
    <3> HIDE DEF e
    <3>1. CASE i = t /\ new.rob[i] = e
      BY <2>1, <2>2, <2>s, <3>1
    <3>2. CASE i \in h .. t - 1 /\ new.rob[i] = c.rob[i]
      BY <2>3, <2>s, <3>2
    <3> QED
      BY <1>u, <3>1, <3>2
  <2> HIDE DEF e
  <2> QED
    BY <2>4, Zenon DEF OpsOK
<1>12. MemInflight(new.rob, h, t + 1) = MemInflight(c.rob, h, t)
  <2>1. ~(is_memory(e) /\ e.num_mem_ops = 0)
    <3>1. is_memory(e) <=> Len(ins.src) + n > 0
      BY <1>f DEF is_memory, n
    <3> QED
      BY <1>f, <1>i, <3>1
  <2>2. h .. t - 1 \subseteq h .. (t + 1) - 1
    BY <1>w
  <2> QED
    BY <1>u, <2>1, <2>2 DEF MemInflight
<1>13. RegInflight(new.rob, h, t + 1) = RegInflight(c.rob, h, t)
  <2>2. h .. t - 1 \subseteq h .. (t + 1) - 1
    BY <1>w
  <2> QED
    BY <1>f, <1>u, <2>2 DEF RegInflight
<1>14. CountInv(new, h, t + 1)
  BY <1>2, <1>11, <1>12, <1>13, <1>g DEF CountInv
<1>15. PlacesOK(new, d, r)
  BY <1>2, <1>g DEF PlacesOK
<1>16. d \subseteq {"LQ", "SQ"} \X Nat /\ r \subseteq LqSlot
  BY DEF Good
<1> QED
  BY <1>4, <1>5, <1>6, <1>8, <1>10, <1>14, <1>15, <1>16 DEF Good

-------------------------------------------------------------------------------
(* The ring of the store queue *)

LEMMA WrapOnce ==
  ASSUME NEW n \in Nat \ {0}, NEW x \in 0 .. 2 * n - 1
  PROVE  x % n = IF x < n THEN x ELSE x - n
<1> DEFINE y == x % n
           a == x \div n
<1>1. x = n * a + y /\ a \in Int /\ y \in 0 .. n - 1
  OBVIOUS
<1> HIDE DEF y, a
<1>2. CASE a >= 2
  <2>1. n * a >= n * 2
    BY <1>1, <1>2
  <2> QED
    BY <1>1, <2>1
<1>3. CASE a <= -1
  <2>1. n * a <= n * (-1)
    BY <1>1, <1>3
  <2> QED
    BY <1>1, <2>1
<1>4. CASE a = 0
  BY <1>1, <1>4 DEF y
<1>5. CASE a = 1
  BY <1>1, <1>5 DEF y
<1> QED
  BY <1>1, <1>2, <1>3, <1>4, <1>5

LEMMA AtIs ==
  ASSUME NEW c, c.SQ_head \in SqSlot, NEW k \in 0 .. SQ_SIZE
  PROVE  at(c, k) = IF c.SQ_head + k < SQ_SIZE THEN c.SQ_head + k ELSE c.SQ_head + k - SQ_SIZE
<1> DEFINE x == c.SQ_head + k
<1>1. SQ_SIZE \in Nat \ {0} /\ x \in 0 .. 2 * SQ_SIZE - 1 /\ at(c, k) = x % SQ_SIZE
  BY Sizes DEF SqSlot, at
<1> HIDE DEF x
<1>2. x % SQ_SIZE = IF x < SQ_SIZE THEN x ELSE x - SQ_SIZE
  BY <1>1, WrapOnce
<1>3. at(c, k) = IF x < SQ_SIZE THEN x ELSE x - SQ_SIZE
  BY <1>1, <1>2
<1>4. x = c.SQ_head + k /\ c.SQ_head \in Int /\ k \in Int
  BY <1>1 DEF x, SqSlot
<1>5. CASE x < SQ_SIZE
  BY <1>1, <1>3, <1>4, <1>5
<1>6. CASE ~(x < SQ_SIZE)
  BY <1>1, <1>3, <1>4, <1>6
<1> QED
  BY <1>5, <1>6

(* The positions of the ring are the slots. *)
LEMMA AtOne ==
  ASSUME NEW c, c.SQ_head \in SqSlot, NEW a \in 0 .. SQ_SIZE - 1, NEW b \in 0 .. SQ_SIZE - 1, at(c, a) = at(c, b)
  PROVE  a = b
<1>1. SQ_SIZE \in Nat \ {0} /\ c.SQ_head \in 0 .. SQ_SIZE - 1 /\ a \in 0 .. SQ_SIZE /\ b \in 0 .. SQ_SIZE
  BY Sizes DEF SqSlot
<1>2. /\ at(c, a) = IF c.SQ_head + a < SQ_SIZE THEN c.SQ_head + a ELSE c.SQ_head + a - SQ_SIZE
      /\ at(c, b) = IF c.SQ_head + b < SQ_SIZE THEN c.SQ_head + b ELSE c.SQ_head + b - SQ_SIZE
  BY <1>1, AtIs
<1> DEFINE H == c.SQ_head
           u == at(c, a)
<1>3. /\ u = IF H + a < SQ_SIZE THEN H + a ELSE H + a - SQ_SIZE
      /\ u = IF H + b < SQ_SIZE THEN H + b ELSE H + b - SQ_SIZE
      /\ H \in 0 .. SQ_SIZE - 1
  BY <1>1, <1>2
<1> HIDE DEF H, u
<1> QED
  BY <1>1, <1>3

LEMMA AtAll ==
  ASSUME NEW c, c.SQ_head \in SqSlot, NEW s \in SqSlot
  PROVE  \E k \in 0 .. SQ_SIZE - 1 : at(c, k) = s
<1> DEFINE k == IF s >= c.SQ_head THEN s - c.SQ_head ELSE s + SQ_SIZE - c.SQ_head
<1>1. SQ_SIZE \in Nat \ {0} /\ c.SQ_head \in 0 .. SQ_SIZE - 1 /\ s \in 0 .. SQ_SIZE - 1
  BY Sizes DEF SqSlot
<1>2. k \in 0 .. SQ_SIZE - 1 /\ k \in 0 .. SQ_SIZE
      /\ (IF c.SQ_head + k < SQ_SIZE THEN c.SQ_head + k ELSE c.SQ_head + k - SQ_SIZE) = s
  BY <1>1
<1> HIDE DEF k
<1>3. at(c, k) = s
  BY <1>2, AtIs
<1> QED
  BY <1>2, <1>3

LEMMA AtShift ==
  ASSUME NEW c, NEW new, c.SQ_head \in SqSlot, NEW n \in 0 .. SQ_SIZE, new.SQ_head = at(c, n),
         NEW k \in 0 .. SQ_SIZE
  PROVE  at(new, k) = IF n + k <= SQ_SIZE THEN at(c, n + k) ELSE at(c, n + k - SQ_SIZE)
<1> DEFINE H == c.SQ_head
           N == new.SQ_head
           z == SQ_SIZE
           m == IF n + k <= z THEN n + k ELSE n + k - z
<1>1. z \in Nat \ {0} /\ H \in 0 .. z - 1 /\ m \in 0 .. z
  BY Sizes DEF SqSlot
<1>2. N = IF H + n < z THEN H + n ELSE H + n - z
  BY AtIs
<1>3. N \in SqSlot
  BY <1>1, <1>2 DEF SqSlot
<1>4. at(new, k) = IF N + k < z THEN N + k ELSE N + k - z
  BY <1>3, AtIs
<1>5. at(c, m) = IF H + m < z THEN H + m ELSE H + m - z
  <2> HIDE DEF m
  <2> QED
    BY <1>1, AtIs
<1>6. m = IF n + k <= z THEN n + k ELSE n + k - z
  OBVIOUS
<1>7. at(new, k) = at(c, m)
  <2>1. n \in 0 .. z /\ k \in 0 .. z
    OBVIOUS
  <2> HIDE DEF H, N, z, m
  <2> QED
    BY <1>1, <1>2, <1>4, <1>5, <1>6, <2>1
<1> QED
  BY <1>7

LEMMA FirstPositions ==
  ASSUME NEW n \in Nat
  PROVE  IsFiniteSet(0 .. n - 1) /\ Cardinality(0 .. n - 1) = n
<1> DEFINE b == n - 1
<1>1. 0 \in Int /\ b \in Int /\ b = 0 + n - 1
  OBVIOUS
<1> HIDE DEF b
<1>2. IsFiniteSet(0 .. b) /\ Cardinality(0 .. b) = n
  BY <1>1, IntervalCount
<1> QED
  BY <1>2 DEF b

(* A set of positions without gaps. *)
LEMMA PrefixIs ==
  ASSUME NEW N \in Nat, NEW P \in SUBSET (0 .. N - 1), \A k \in P : \A j \in 0 .. k - 1 : j \in P,
         NEW n \in Nat, Cardinality(P) = n
  PROVE  P = 0 .. n - 1
<1>1. IsFiniteSet(P)
  <2>1. 0 \in Int /\ N - 1 \in Int
    OBVIOUS
  <2> QED
    BY <2>1, FS_Interval, FS_Subset
<1>2. ASSUME NEW j \in 0 .. n - 1 PROVE j \in P
  <2> SUFFICES ASSUME j \notin P PROVE FALSE
    OBVIOUS
  <2>1. P \subseteq 0 .. j - 1
    <3>1. ASSUME NEW k \in P PROVE k < j
      OBVIOUS
    <3> QED
      BY <3>1
  <2>2. IsFiniteSet(0 .. j - 1) /\ Cardinality(0 .. j - 1) = j
    <3>1. j \in Nat
      OBVIOUS
    <3> QED
      BY <3>1, FirstPositions
  <2>3. Cardinality(P) <= j
    <3> DEFINE Q == 0 .. j - 1
    <3>1. P \in SUBSET Q /\ IsFiniteSet(Q) /\ Cardinality(Q) = j
      BY <2>1, <2>2
    <3> HIDE DEF Q
    <3> QED
      BY <3>1, FS_Subset
  <2> QED
    BY <2>3
<1>3. IsFiniteSet(0 .. n - 1) /\ Cardinality(0 .. n - 1) = n
  BY FirstPositions
<1>4. 0 .. n - 1 \in SUBSET P
  BY <1>2
<1> QED
  BY <1>1, <1>3, <1>4, FS_Subset

(* f names each element of B once. *)
Names1(f, A, B) ==
  /\ \A a \in A : f[a] \in B
  /\ \A a, b \in A : f[a] = f[b] => a = b
  /\ \A x \in B : \E a \in A : f[a] = x

LEMMA SameCount ==
  ASSUME NEW A, IsFiniteSet(A), NEW B, NEW f, Names1(f, A, B)
  PROVE  IsFiniteSet(B) /\ Cardinality(B) = Cardinality(A)
<1> DEFINE g == [a \in A |-> f[a]]
<1>1. g \in [A -> B] /\ (\A a, b \in A : g[a] = g[b] => a = b) /\ (\A x \in B : \E a \in A : g[a] = x)
  BY DEF Names1
<1> HIDE DEF g
<1>2. g \in Bijection(A, B)
  BY <1>1 DEF Bijection, Injection, Surjection, IsInjective
<1>3. ExistsBijection(A, B)
  BY <1>2 DEF ExistsBijection
<1> QED
  BY <1>3, FS_Bijection

(* The stores of the oldest instruction are the first of the ring. *)
AllAdded(e, n) == DOMAIN e.ins.dst = 1 .. n /\ e.destination_added = 1 .. n

HeadIs(c, h, n) ==
  /\ n <= c.SQ_occupancy /\ \A k \in 0 .. SQ_SIZE - 1 : c.SQ[at(c, k)].id = h <=> k < n
  /\ {c.rob[h].sq_index[j] : j \in 1 .. n} = {s \in SqSlot : c.SQ[s].id = h}

LEMMA HeadStores ==
  ASSUME NEW c, NEW h \in Nat \ {0}, NEW t \in Nat, NEW ns \in Nat, h < ns, RingOK(c), StoresOK(c.rob, c.SQ, h, ns),
         OrderOK(c, h, t), c.SQ_head \in SqSlot, NEW n \in Nat, AllAdded(c.rob[h], n)
  PROVE  HeadIs(c, h, n)
<1> DEFINE q == c.rob[h].sq_index
           S == {s \in SqSlot : c.SQ[s].id = h}
           N == c.SQ_occupancy
           P == {k \in 0 .. N - 1 : c.SQ[at(c, k)].id = h}
           pos == [k \in P |-> at(c, k)]
<1>0. /\ N \in 0 .. SQ_SIZE /\ SQ_SIZE \in Nat \ {0} /\ N \in Nat
      /\ \A k \in 0 .. SQ_SIZE - 1 : c.SQ[at(c, k)].addr # 0 <=> k < N
  BY Sizes DEF RingOK
<1>h. h \in h .. ns - 1
  OBVIOUS
<1>1. ASSUME NEW j \in 1 .. n
      PROVE  q[j] \in SqSlot /\ c.SQ[q[j]].id = h /\ \A k \in 1 .. n : q[j] = q[k] => j = k
  <2>1. c.rob[h].destination_added = 1 .. n
    BY DEF AllAdded
  <2>2. j \in c.rob[h].destination_added
    BY <2>1
  <2>3. /\ c.rob[h].sq_index[j] \in SqSlot /\ c.SQ[c.rob[h].sq_index[j]].id = h
        /\ \A k \in c.rob[h].destination_added :
             c.rob[h].sq_index[j] = c.rob[h].sq_index[k] => j = k
    BY <1>h, <2>2, StoreEntry
  <2> QED
    BY Zenon, <2>1, <2>3
<1>2. ASSUME NEW s \in S PROVE c.SQ[s].addr # 0 /\ \E j \in 1 .. n : q[j] = s
  <2>1. s \in SqSlot /\ c.SQ[s].id = h
    OBVIOUS
  <2>2. c.SQ[s].addr # 0
    <3> SUFFICES ASSUME c.SQ[s].addr = 0 PROVE FALSE
      OBVIOUS
    <3>1. c.SQ[s] = EmptyStore
      BY <2>1, StoreSlot
    <3> QED
      BY <2>1, <3>1 DEF EmptyStore
  <2>3. \E j \in c.rob[h].destination_added : c.rob[h].sq_index[j] = s
    BY <2>1, <2>2, StoreSlot
  <2> QED
    BY <2>2, <2>3 DEF AllAdded
<1>3. S = {q[j] : j \in 1 .. n}
  BY <1>1, <1>2
<1>4. Names1(q, 1 .. n, S)
  BY Zenon, <1>1, <1>2 DEF Names1
<1>5. IsFiniteSet(S) /\ Cardinality(S) = n
  <2>1. IsFiniteSet(1 .. n) /\ Cardinality(1 .. n) = n
    <3>1. 1 \in Int /\ n \in Int /\ n = 1 + n - 1
      OBVIOUS
    <3> QED
      BY <3>1, IntervalCount
  <2> HIDE DEF S, q
  <2>2. IsFiniteSet(S) /\ Cardinality(S) = Cardinality(1 .. n)
    BY <1>4, <2>1, SameCount
  <2> QED
    BY <2>1, <2>2
<1>6. Names1(pos, P, S)
  <2>1. ASSUME NEW k \in P PROVE pos[k] \in S /\ k \in 0 .. SQ_SIZE - 1 /\ pos[k] = at(c, k)
    <3>1. at(c, k) \in SqSlot
      BY AtSlot
    <3> QED
      BY <1>0, <3>1
  <2>2. ASSUME NEW a \in P, NEW b \in P, pos[a] = pos[b] PROVE a = b
    <3>1. a \in 0 .. SQ_SIZE - 1 /\ b \in 0 .. SQ_SIZE - 1 /\ at(c, a) = at(c, b)
      BY <2>1, <2>2
    <3> QED
      BY <3>1, AtOne
  <2>3. ASSUME NEW s \in S PROVE \E k \in P : pos[k] = s
    <3>1. s \in SqSlot /\ c.SQ[s].addr # 0 /\ c.SQ[s].id = h
      BY <1>2
    <3>2. PICK k \in 0 .. SQ_SIZE - 1 : at(c, k) = s
      BY <3>1, AtAll
    <3>3. k \in P
      BY <1>0, <3>1, <3>2
    <3> QED
      BY <3>2, <3>3
  <2> HIDE DEF pos, P, S
  <2> QED
    BY <2>1, <2>2, <2>3 DEF Names1
<1>7. Cardinality(P) = n
  <2>1. IsFiniteSet(P)
    BY <1>0, InRobFinite, FS_Interval, FS_Subset
  <2> HIDE DEF pos, P, S
  <2>2. Cardinality(S) = Cardinality(P)
    BY <1>6, <2>1, SameCount
  <2> QED
    BY <1>5, <2>2
<1>8. \A k \in P : \A j \in 0 .. k - 1 : j \in P
  <2> SUFFICES ASSUME NEW k \in P, NEW j \in 0 .. k - 1 PROVE j \in P
    OBVIOUS
  <2>1. j \in 0 .. N - 1 /\ j \in 0 .. SQ_SIZE - 1 /\ j <= k /\ k \in 0 .. N - 1 /\ c.SQ[at(c, k)].id = h
    BY <1>0
  <2>2. c.SQ[at(c, j)].id <= h
    BY <2>1 DEF OrderOK
  <2>3. c.SQ[at(c, j)].id \in h .. ns - 1
    <3>1. c.SQ[at(c, j)].addr # 0 /\ at(c, j) \in SqSlot
      BY <1>0, <2>1, AtSlot
    <3> QED
      BY Zenon, <3>1 DEF StoresOK
  <2>4. c.SQ[at(c, j)].id = h
    BY <2>2, <2>3
  <2> QED
    BY <2>1, <2>4
<1>9. P = 0 .. n - 1
  <2>1. P \in SUBSET (0 .. N - 1)
    OBVIOUS
  <2> HIDE DEF P, N
  <2> QED
    BY <1>0, <1>7, <1>8, <2>1, PrefixIs
<1>10. n <= N
  <2>1. n - 1 \in 0 .. n - 1 \/ n = 0
    OBVIOUS
  <2> QED
    BY <1>0, <1>9, <2>1
<1>11. ASSUME NEW k \in 0 .. SQ_SIZE - 1 PROVE c.SQ[at(c, k)].id = h <=> k < n
  <2>1. c.SQ[at(c, k)].id = h => k < N
    <3>1. at(c, k) \in SqSlot
      BY AtSlot
    <3> QED
      BY <1>0, <1>2, <3>1
  <2>2. k \in P <=> k < n
    BY <1>9
  <2> QED
    BY <1>0, <1>10, <2>1, <2>2
<1> QED
  BY <1>3, <1>10, <1>11 DEF HeadIs

-------------------------------------------------------------------------------
(* retire_rob *)

Emptied(SQ, new, h) == \A s \in SqSlot : new[s] = IF SQ[s].id = h THEN EmptyStore ELSE SQ[s]

LEMMA RetireStores ==
  ASSUME NEW c, NEW new, NEW h \in Nat \ {0}, NEW t \in Nat, NEW ns \in Nat, h < ns, ns <= t,
         StoreInv(c, h, t, ns), c.SQ_head \in SqSlot, c.STA \in Seq(Id), NEW n \in Nat, AllAdded(c.rob[h], n),
         Emptied(c.SQ, new.SQ, h), new.SQ_occupancy = c.SQ_occupancy - n, new.SQ_head = at(c, n),
         new.SQ_tail = c.SQ_tail, new.STA = c.STA, SameIn(c.rob, new.rob, h + 1, t)
  PROVE  StoreInv(new, h + 1, t, ns)
<1> DEFINE N == c.SQ_occupancy
           z == SQ_SIZE
<1>s. RingOK(c) /\ StoresOK(c.rob, c.SQ, h, ns) /\ OrderOK(c, h, t)
  BY DEF StoreInv
<1>1. /\ n <= N /\ \A k \in 0 .. z - 1 : c.SQ[at(c, k)].id = h <=> k < n
  <2>1. HeadIs(c, h, n)
    BY <1>s, HeadStores
  <2> QED
    BY <2>1 DEF HeadIs
<1>0. /\ N \in 0 .. z /\ z \in Nat \ {0} /\ c.SQ_tail = at(c, N) /\ n \in 0 .. z
      /\ \A k \in 0 .. z - 1 : c.SQ[at(c, k)].addr # 0 <=> k < N
  BY <1>1, <1>s, Sizes DEF RingOK
<1>2. ASSUME NEW k \in 0 .. z PROVE at(new, k) = IF n + k <= z THEN at(c, n + k) ELSE at(c, n + k - z)
  BY <1>0, AtShift
<1>3. ASSUME NEW k \in 0 .. z - 1
      PROVE  new.SQ[at(c, k)] = IF k < n THEN EmptyStore ELSE c.SQ[at(c, k)]
  <2>1. at(c, k) \in SqSlot
    BY AtSlot
  <2> QED
    BY <1>1, <2>1 DEF Emptied
<1>4. RingOK(new)
  <2>1. new.SQ_occupancy \in 0 .. z
    BY <1>0, <1>1
  <2>2. new.SQ_tail = at(new, new.SQ_occupancy)
    <3> DEFINE k == N - n
    <3>1. k \in 0 .. z /\ n + k <= z /\ n + k = N
      BY <1>0, <1>1
    <3> HIDE DEF k
    <3>2. at(new, k) = at(c, N)
      BY <1>2, <3>1
    <3> QED
      BY <1>0, <3>2 DEF k
  <2>3. ASSUME NEW k \in 0 .. z - 1 PROVE new.SQ[at(new, k)].addr # 0 <=> k < N - n
    <3>0. k \in 0 .. z /\ n + k \in Nat
      BY <1>0
    <3>1. CASE n + k < z
      <4> DEFINE m == n + k
      <4>1. m \in 0 .. z - 1 /\ ~(m < n) /\ at(new, k) = at(c, m)
        BY <1>0, <1>2, <3>0, <3>1
      <4>2. m < N <=> k < N - n
        BY <1>0
      <4> HIDE DEF m
      <4>3. new.SQ[at(c, m)] = c.SQ[at(c, m)]
        BY <1>3, <4>1
      <4> QED
        BY <1>0, <4>1, <4>2, <4>3
    <3>2. CASE n + k >= z
      <4> DEFINE m == n + k - z
      <4>1. m \in 0 .. z - 1 /\ m < n
        BY <1>0, <3>2
      <4>2. at(new, k) = at(c, m)
        <5>1. CASE n + k > z
          BY <1>0, <1>2, <3>0, <5>1
        <5>2. CASE n + k = z
          <6>0. n + k <= z /\ m = 0
            BY <1>0, <5>2
          <6>1. at(new, k) = at(c, z)
            <7>1. at(new, k) = at(c, n + k)
              BY <1>2, <3>0, <6>0
            <7> QED
              BY <5>2, <7>1
          <6>2. at(c, z) = at(c, 0)
            <7>1. z \in 0 .. z /\ 0 \in 0 .. z /\ c.SQ_head \in 0 .. z - 1
              BY <1>0 DEF SqSlot
            <7>2. at(c, z) = (IF c.SQ_head + z < z THEN c.SQ_head + z ELSE c.SQ_head + z - z)
              BY <7>1, AtIs
            <7>3. at(c, 0) = (IF c.SQ_head + 0 < z THEN c.SQ_head + 0 ELSE c.SQ_head + 0 - z)
              BY <7>1, AtIs
            <7> QED
              BY <1>0, <7>1, <7>2, <7>3
          <6> QED
            BY <6>0, <6>1, <6>2
        <5> QED
          BY <1>0, <3>2, <5>1, <5>2
      <4>3. ~(k < N - n)
        BY <1>0, <3>2
      <4> HIDE DEF m
      <4>4. new.SQ[at(c, m)] = EmptyStore
        BY <1>3, <4>1
      <4> QED
        BY <4>2, <4>3, <4>4 DEF EmptyStore
    <3> QED
      BY <1>0, <3>0, <3>1, <3>2
  <2> QED
    BY <2>1, <2>2, <2>3 DEF RingOK
<1>5. StoresOK(new.rob, new.SQ, h + 1, ns)
  <2>1. ASSUME NEW s \in SqSlot
        PROVE  IF new.SQ[s].addr = 0 THEN new.SQ[s] = EmptyStore
               ELSE /\ new.SQ[s].id \in h + 1 .. ns - 1
                    /\ \E j \in new.rob[new.SQ[s].id].destination_added : new.rob[new.SQ[s].id].sq_index[j] = s
    <3>1. CASE c.SQ[s].id = h
      BY <3>1 DEF Emptied, EmptyStore
    <3>2. CASE c.SQ[s].id # h
      <4>1. new.SQ[s] = c.SQ[s]
        BY <3>2 DEF Emptied
      <4>2. CASE c.SQ[s].addr = 0
        BY Zenon, <1>s, <4>1, <4>2 DEF StoresOK
      <4>3. CASE c.SQ[s].addr # 0
        <5> DEFINE i == c.SQ[s].id
        <5>1. i \in h .. ns - 1 /\ \E j \in c.rob[i].destination_added : c.rob[i].sq_index[j] = s
          BY Zenon, <1>s, <4>3 DEF StoresOK
        <5>2. i \in h + 1 .. ns - 1 /\ i \in h + 1 .. t - 1
          BY <3>2, <5>1
        <5>3. new.rob[i] = c.rob[i]
          BY <5>2 DEF SameIn
        <5> QED
          BY Zenon, <4>1, <4>3, <5>1, <5>2, <5>3
      <4> QED
        BY Zenon, <4>2, <4>3
    <3> QED
      BY Zenon, <3>1, <3>2
  <2>2. ASSUME NEW i \in h + 1 .. ns - 1, NEW j \in new.rob[i].destination_added
        PROVE  /\ new.rob[i].sq_index[j] \in SqSlot
               /\ new.SQ[new.rob[i].sq_index[j]].id = i
               /\ new.SQ[new.rob[i].sq_index[j]].addr = new.rob[i].ins.dst[j]
               /\ \A k \in new.rob[i].destination_added : new.rob[i].sq_index[j] = new.rob[i].sq_index[k] => j = k
    <3>1. i \in h .. ns - 1 /\ i \in h + 1 .. t - 1 /\ i # h
      OBVIOUS
    <3>2. new.rob[i] = c.rob[i]
      BY <3>1 DEF SameIn
    <3>3. /\ c.rob[i].sq_index[j] \in SqSlot
          /\ c.SQ[c.rob[i].sq_index[j]].id = i /\ c.SQ[c.rob[i].sq_index[j]].addr = c.rob[i].ins.dst[j]
          /\ \A k \in c.rob[i].destination_added : c.rob[i].sq_index[j] = c.rob[i].sq_index[k] => j = k
      BY Zenon, <1>s, <3>1, <3>2 DEF StoresOK
    <3>4. new.SQ[c.rob[i].sq_index[j]] = c.SQ[c.rob[i].sq_index[j]]
      BY <3>1, <3>3 DEF Emptied
    <3> QED
      BY Zenon, <3>2, <3>3, <3>4
  <2> QED
    BY Zenon, <2>1, <2>2 DEF StoresOK
<1>6. OrderOK(new, h + 1, t)
  <2>a. ASSUME NEW a \in 0 .. N - n - 1
        PROVE  n + a \in 0 .. N - 1 /\ new.SQ[at(new, a)] = c.SQ[at(c, n + a)]
    <3> DEFINE m == n + a
    <3>1. a \in 0 .. z /\ m <= z /\ m \in 0 .. z - 1 /\ ~(m < n) /\ m \in 0 .. N - 1
      BY <1>0, <1>1
    <3>2. at(new, a) = at(c, m)
      BY <1>2, <3>1
    <3> HIDE DEF m
    <3>3. new.SQ[at(c, m)] = c.SQ[at(c, m)]
      BY <1>3, <3>1
    <3>4. m \in 0 .. N - 1 /\ new.SQ[at(new, a)] = c.SQ[at(c, m)]
      BY <3>1, <3>2, <3>3
    <3> QED
      BY <3>4 DEF m
  <2>o. /\ \A a, b \in 0 .. N - 1 : a <= b => c.SQ[at(c, a)].id <= c.SQ[at(c, b)].id
        /\ \A a, b \in DOMAIN c.STA : a <= b => c.STA[a] <= c.STA[b]
        /\ \A a \in 0 .. N - 1, b \in DOMAIN c.STA : c.SQ[at(c, a)].id <= c.STA[b]
        /\ \A b \in DOMAIN c.STA : c.STA[b] \in h .. t - 1
        /\ \A i \in h .. t - 1 : Cardinality({b \in DOMAIN c.STA : c.STA[b] = i})
                                   = Cardinality(DOMAIN c.rob[i].ins.dst \ c.rob[i].destination_added)
    BY <1>s DEF OrderOK
  <2>1. ASSUME NEW a \in 0 .. N - n - 1, NEW b \in 0 .. N - n - 1, a <= b
        PROVE  new.SQ[at(new, a)].id <= new.SQ[at(new, b)].id
    <3> DEFINE u == n + a
               v == n + b
    <3>1. u \in 0 .. N - 1 /\ v \in 0 .. N - 1 /\ u <= v
      BY <2>1, <2>a
    <3>2. new.SQ[at(new, a)] = c.SQ[at(c, u)] /\ new.SQ[at(new, b)] = c.SQ[at(c, v)]
      BY <2>a
    <3> HIDE DEF u, v
    <3> QED
      BY <2>o, <3>1, <3>2
  <2>2. \A a \in 0 .. N - n - 1, b \in DOMAIN c.STA : new.SQ[at(new, a)].id <= c.STA[b]
    BY <2>a, <2>o
  <2>3. {b \in DOMAIN c.STA : c.STA[b] = h} = {}
    <3> DEFINE B == {b \in DOMAIN c.STA : c.STA[b] = h}
    <3>1. Cardinality(B) = 0
      <4>1. DOMAIN c.rob[h].ins.dst \ c.rob[h].destination_added = {}
        BY DEF AllAdded
      <4>2. h \in h .. t - 1
        OBVIOUS
      <4> QED
        BY <2>o, <4>1, <4>2, FS_EmptySet
    <3>2. IsFiniteSet(B)
      BY SeqCount, FS_Subset
    <3> HIDE DEF B
    <3>3. B = {}
      BY <3>1, <3>2, FS_EmptySet
    <3> QED
      BY <3>3 DEF B
  <2>4. ASSUME NEW b \in DOMAIN c.STA PROVE c.STA[b] \in h + 1 .. t - 1
    <3>1. c.STA[b] \in h .. t - 1 /\ c.STA[b] # h
      BY <2>3, <2>o
    <3> QED
      BY <3>1
  <2>5. ASSUME NEW i \in h + 1 .. t - 1 PROVE i \in h .. t - 1 /\ new.rob[i] = c.rob[i]
    BY DEF SameIn
  <2> QED
    BY <2>1, <2>2, <2>4, <2>5, <2>o DEF OrderOK
<1> QED
  BY <1>4, <1>5, <1>6 DEF StoreInv

LEMMA SlotsFinite ==
  /\ IsFiniteSet(LqSlot) /\ Cardinality(LqSlot) = LQ_SIZE /\ LqSlot \subseteq Nat
  /\ IsFiniteSet(SqSlot) /\ Cardinality(SqSlot) = SQ_SIZE /\ SqSlot \subseteq Nat
<1>1. /\ 0 \in Int /\ LQ_SIZE - 1 \in Int /\ LQ_SIZE \in Nat /\ LQ_SIZE - 1 = 0 + LQ_SIZE - 1
      /\ SQ_SIZE - 1 \in Int /\ SQ_SIZE \in Nat /\ SQ_SIZE - 1 = 0 + SQ_SIZE - 1
  BY Sizes
<1>2. /\ IsFiniteSet(0 .. LQ_SIZE - 1) /\ Cardinality(0 .. LQ_SIZE - 1) = LQ_SIZE
      /\ IsFiniteSet(0 .. SQ_SIZE - 1) /\ Cardinality(0 .. SQ_SIZE - 1) = SQ_SIZE
  BY <1>1, IntervalCount
<1> QED
  BY <1>2 DEF LqSlot, SqSlot

(* The four terms of num_mem_ops. *)
LeftOf(e) == DOMAIN e.ins.src \ e.source_added
LeftTo(e) == DOMAIN e.ins.dst \ e.destination_added

LEMMA TermsFinite ==
  ASSUME NEW e \in Row, NEW LQ, NEW SQ, NEW i
  PROVE  /\ IsFiniteSet(LeftOf(e)) /\ IsFiniteSet(LeftTo(e))
         /\ IsFiniteSet(LoadsOf(LQ, i)) /\ IsFiniteSet(StoresOf(SQ, i))
         /\ Cardinality(LeftOf(e)) \in Nat /\ Cardinality(LeftTo(e)) \in Nat
         /\ Cardinality(LoadsOf(LQ, i)) \in Nat /\ Cardinality(StoresOf(SQ, i)) \in Nat
<1>1. e.ins.src \in Seq(Addr) /\ e.ins.dst \in Seq(Addr)
  BY RowIs
<1>2. IsFiniteSet(DOMAIN e.ins.src) /\ IsFiniteSet(DOMAIN e.ins.dst)
  BY <1>1, SeqCount
<1>3. LeftOf(e) \in SUBSET DOMAIN e.ins.src /\ LeftTo(e) \in SUBSET DOMAIN e.ins.dst
  BY DEF LeftOf, LeftTo
<1>4. LoadsOf(LQ, i) \in SUBSET LqSlot /\ StoresOf(SQ, i) \in SUBSET SqSlot
  BY DEF LoadsOf, StoresOf
<1>5. /\ IsFiniteSet(LeftOf(e)) /\ IsFiniteSet(LeftTo(e))
      /\ IsFiniteSet(LoadsOf(LQ, i)) /\ IsFiniteSet(StoresOf(SQ, i))
  BY <1>2, <1>3, <1>4, SlotsFinite, FS_Subset
<1> QED
  BY <1>5, FS_CardinalityType

OpsOf(e, LQ, SQ, i) ==
  Cardinality(LeftOf(e)) + Cardinality(LeftTo(e)) + Cardinality(LoadsOf(LQ, i)) + Cardinality(StoresOf(SQ, i))

LEMMA OpsIs ==
  ASSUME NEW rob, NEW LQ, NEW SQ, NEW h, NEW t
  PROVE  OpsOK(rob, LQ, SQ, h, t) <=>
           \A i \in h .. t - 1 : rob[i].num_mem_ops = OpsOf(rob[i], LQ, SQ, i) /\ (Done(rob[i]) => rob[i].num_mem_ops = 0)
BY DEF OpsOK, OpsOf, LeftOf, LeftTo

LEMMA NothingLeft ==
  ASSUME NEW e \in Row, NEW LQ, NEW SQ, NEW i, OpsOf(e, LQ, SQ, i) = 0
  PROVE  LeftOf(e) = {} /\ LeftTo(e) = {} /\ LoadsOf(LQ, i) = {} /\ StoresOf(SQ, i) = {}
<1> DEFINE A == LeftOf(e)
           B == LeftTo(e)
           C == LoadsOf(LQ, i)
           D == StoresOf(SQ, i)
<1>1. /\ IsFiniteSet(A) /\ IsFiniteSet(B) /\ IsFiniteSet(C) /\ IsFiniteSet(D)
      /\ Cardinality(A) \in Nat /\ Cardinality(B) \in Nat /\ Cardinality(C) \in Nat /\ Cardinality(D) \in Nat
  BY TermsFinite
<1>2. Cardinality(A) + Cardinality(B) + Cardinality(C) + Cardinality(D) = 0
  BY DEF OpsOf
<1> HIDE DEF A, B, C, D
<1>3. Cardinality(A) = 0 /\ Cardinality(B) = 0 /\ Cardinality(C) = 0 /\ Cardinality(D) = 0
  <2> DEFINE a == Cardinality(A)
             b == Cardinality(B)
             x == Cardinality(C)
             y == Cardinality(D)
  <2>1. a \in Nat /\ b \in Nat /\ x \in Nat /\ y \in Nat /\ a + b + x + y = 0
    BY <1>1, <1>2
  <2> HIDE DEF a, b, x, y
  <2>2. a = 0 /\ b = 0 /\ x = 0 /\ y = 0
    BY <2>1
  <2> QED
    BY <2>2 DEF a, b, x, y
<1>4. A = {} /\ B = {} /\ C = {} /\ D = {}
  BY <1>1, <1>3, FS_EmptySet
<1> QED
  BY <1>4 DEF A, B, C, D

RetiredOf(c, h) ==
  LET e == c.rob[h]
      S == {e.sq_index[j] : j \in DOMAIN e.sq_index}
  IN  [c EXCEPT !.rob[h] = Entry(NoInstr),
                !.SQ = [s \in SqSlot |-> IF s \in S THEN EmptyStore ELSE @[s]],
                !.SQ_occupancy = @ - Len(e.ins.dst),
                !.SQ_head = (@ + Len(e.ins.dst)) % SQ_SIZE]

(* A load whose producer retires would have waited for a store that was    *)
(* written.                                                                *)
LEMMA RetireLoads ==
  ASSUME NEW c, NEW new, NEW h \in Nat \ {0}, NEW t \in Nat, NEW ns \in Nat, h < ns, ns <= t,
         LoadInv(c.rob, c.LQ, c.SQ, h, ns), StoresOK(c.rob, c.SQ, h, ns), LeftTo(c.rob[h]) = {},
         LoadsOf(c.LQ, h) = {}, StoresOf(c.SQ, h) = {}, Emptied(c.SQ, new.SQ, h), new.LQ = c.LQ,
         SameIn(c.rob, new.rob, h + 1, t)
  PROVE  LoadInv(new.rob, new.LQ, new.SQ, h + 1, ns)
<1>1. ASSUME NEW l \in LqSlot, c.LQ[l].addr # 0
      PROVE  c.LQ[l].id \in h + 1 .. ns - 1 /\ new.rob[c.LQ[l].id] = c.rob[c.LQ[l].id]
  <2>1. c.LQ[l].id \in h .. ns - 1 /\ c.LQ[l].id # h
    BY Zenon, <1>1 DEF LoadInv, LoadsOK, LoadsOf
  <2> QED
    BY <2>1 DEF SameIn
<1>2. LoadsOK(new.rob, new.LQ, h + 1, ns)
  <2>1. LoadsOK(c.rob, c.LQ, h, ns)
    BY DEF LoadInv
  <2>2. ASSUME NEW l \in LqSlot
        PROVE  IF new.LQ[l].addr = 0 THEN new.LQ[l] = EmptyLoad
               ELSE /\ new.LQ[l].id \in h + 1 .. ns - 1
                    /\ \E k \in new.rob[new.LQ[l].id].source_added :
                         /\ new.rob[new.LQ[l].id].lq_index[k] = l
                         /\ new.rob[new.LQ[l].id].ins.src[k] = new.LQ[l].addr
    <3>1. CASE c.LQ[l].addr = 0
      <4>1. c.LQ[l] = EmptyLoad
        BY <2>1, <3>1, LoadSlot
      <4> QED
        BY Zenon, <3>1, <4>1
    <3>2. CASE c.LQ[l].addr # 0
      <4>1. c.LQ[l].id \in h + 1 .. ns - 1 /\ new.rob[c.LQ[l].id] = c.rob[c.LQ[l].id]
        BY <1>1, <3>2
      <4>2. \E k \in c.rob[c.LQ[l].id].source_added :
              c.rob[c.LQ[l].id].lq_index[k] = l /\ c.rob[c.LQ[l].id].ins.src[k] = c.LQ[l].addr
        BY <2>1, <3>2, LoadSlot
      <4> QED
        BY <3>2, <4>1, <4>2
    <3> QED
      BY Zenon, <3>1, <3>2
  <2> QED
    BY Zenon, <2>2 DEF LoadsOK
<1>3. ProducersOK(new.rob, new.LQ, new.SQ, h + 1)
  <2> SUFFICES ASSUME NEW l \in LqSlot, c.LQ[l].addr # 0
               PROVE  LET i == c.LQ[l].id
                          a == c.LQ[l].addr
                          p == c.LQ[l].producer_id
                      IN  IF p = 0 THEN \A q \in h + 1 .. i - 1 : a \notin Range(new.rob[q].ins.dst)
                          ELSE /\ NearestStore(new.rob, h + 1, i, a, p)
                               /\ i \in new.rob[p].mem_depend_on_me
                               /\ \E j \in DOMAIN new.rob[p].ins.dst : new.rob[p].ins.dst[j] = a /\ Unwritten(new.rob[p], new.SQ, j)
    BY Zenon DEF ProducersOK
  <2> DEFINE i == c.LQ[l].id
             a == c.LQ[l].addr
             p == c.LQ[l].producer_id
  <2>1. i \in h + 1 .. ns - 1
    BY <1>1
  <2>2. ASSUME NEW q \in h + 1 .. i - 1 PROVE q \in h .. i - 1 /\ new.rob[q] = c.rob[q]
    BY <2>1 DEF SameIn
  <2>3. CASE p = 0
    <3>1. \A q \in h .. i - 1 : a \notin Range(c.rob[q].ins.dst)
      BY Zenon, <2>3 DEF LoadInv, ProducersOK
    <3> QED
      BY <2>2, <2>3, <3>1
  <2>4. CASE p # 0
    <3>1. NearestStore(c.rob, h, i, a, p) /\ i \in c.rob[p].mem_depend_on_me
      BY Zenon, <2>4 DEF LoadInv, ProducersOK
    <3>2. PICK j \in DOMAIN c.rob[p].ins.dst : c.rob[p].ins.dst[j] = a /\ Unwritten(c.rob[p], c.SQ, j)
      BY Zenon, <2>4 DEF LoadInv, ProducersOK
    <3>3. p \in h .. i - 1
      BY Zenon, <3>1 DEF NearestStore
    <3>4. p # h
      <4> SUFFICES ASSUME p = h PROVE FALSE
        OBVIOUS
      <4>1. j \in c.rob[h].destination_added
        BY <3>2 DEF LeftTo
      <4>2. h \in h .. ns - 1
        OBVIOUS
      <4>4. c.rob[h].sq_index[j] \in SqSlot /\ c.SQ[c.rob[h].sq_index[j]].id = h
        BY <4>1, <4>2, StoreEntry
      <4>3. ~c.SQ[c.rob[h].sq_index[j]].fetched
        BY Zenon, <3>2, <4>1 DEF Unwritten
      <4> QED
        BY Zenon, <4>3, <4>4 DEF StoresOf
    <3>5. p \in h + 1 .. i - 1 /\ p \in h .. ns - 1
      BY <2>1, <3>3, <3>4
    <3>6. new.rob[p] = c.rob[p]
      BY <2>2, <3>5
    <3>7. NearestStore(new.rob, h + 1, i, a, p)
      <4>1. \A q \in p + 1 .. i - 1 : q \in h + 1 .. i - 1
        BY <3>5
      <4> QED
        BY Zenon, <2>2, <3>1, <3>5, <3>6, <4>1 DEF NearestStore
    <3>8. Unwritten(c.rob[p], new.SQ, j)
      <4> HIDE DEF p, a, i
      <4>1. CASE j \notin c.rob[p].destination_added
        BY <4>1 DEF Unwritten
      <4>2. CASE j \in c.rob[p].destination_added
        <5>1. c.rob[p].sq_index[j] \in SqSlot /\ c.SQ[c.rob[p].sq_index[j]].id = p
          BY <3>5, <4>2, StoreEntry
        <5>2. new.SQ[c.rob[p].sq_index[j]] = c.SQ[c.rob[p].sq_index[j]]
          BY Zenon, <3>4, <5>1 DEF Emptied
        <5> QED
          BY Zenon, <3>2, <5>2 DEF Unwritten
      <4> QED
        BY Zenon, <4>1, <4>2
    <3> QED
      BY <2>4, <3>1, <3>2, <3>6, <3>7, <3>8
  <2> QED
    BY Zenon, <2>3, <2>4
<1>4. DependFrame(c.rob, new.rob, h + 1, ns, ns) /\ \A i \in h + 1 .. ns - 1 : new.rob[i] = c.rob[i]
  <2>1. \A i \in h + 1 .. ns - 1 : i \in h + 1 .. t - 1
    OBVIOUS
  <2>2. \A i \in h + 1 .. ns - 1 : new.rob[i] = c.rob[i]
    BY <2>1 DEF SameIn
  <2>3. ns .. ns - 1 = {}
    OBVIOUS
  <2> QED
    BY <2>2, <2>3 DEF DependFrame
<1>5. StillWaits(c.rob, new.rob, c.LQ, c.LQ, c.SQ, new.SQ, h + 1, ns)
  <2> SUFFICES ASSUME NEW p \in h + 1 .. ns - 1, NEW j \in DOMAIN c.rob[p].ins.dst,
                      Unwritten(new.rob[p], new.SQ, j)
               PROVE  Unwritten(c.rob[p], c.SQ, j)
    BY DEF StillWaits
  <2>1. new.rob[p] = c.rob[p] /\ p \in h .. ns - 1 /\ p # h
    BY <1>4
  <2>2. CASE j \notin c.rob[p].destination_added
    BY Zenon, <2>2 DEF Unwritten
  <2>3. CASE j \in c.rob[p].destination_added
    <3>1. c.rob[p].sq_index[j] \in SqSlot /\ c.SQ[c.rob[p].sq_index[j]].id = p
      BY Zenon, <2>1, <2>3 DEF StoresOK
    <3>2. new.SQ[c.rob[p].sq_index[j]] = c.SQ[c.rob[p].sq_index[j]]
      BY Zenon, <2>1, <3>1 DEF Emptied
    <3> QED
      BY Zenon, <2>1, <3>2 DEF Unwritten
  <2> QED
    BY <2>2, <2>3
<1>6. LinkedOK(new.rob, h + 1, ns) /\ ForwardsOK(new.rob, c.LQ, new.SQ, h + 1, ns)
  <2> DEFINE h2 == h + 1
  <2>1. h2 \in Nat /\ h \in Nat /\ h <= h2 /\ ns <= ns
    OBVIOUS
  <2>2. /\ DependFrame(c.rob, new.rob, h2, ns, ns) /\ StillWaits(c.rob, new.rob, c.LQ, c.LQ, c.SQ, new.SQ, h2, ns)
        /\ LinkedOK(c.rob, h, ns) /\ ForwardsOK(c.rob, c.LQ, c.SQ, h, ns)
    BY <1>4, <1>5 DEF LoadInv
  <2> HIDE DEF h2
  <2>3. LinkedOK(new.rob, h2, ns)
    BY <2>1, <2>2, LinkedKept
  <2>4. ForwardsOK(new.rob, c.LQ, new.SQ, h2, ns)
    BY <2>1, <2>2, ForwardsKept
  <2> QED
    BY <2>3, <2>4 DEF h2
<1> QED
  BY <1>2, <1>3, <1>6 DEF LoadInv

LEMMA RetireStep ==
  ASSUME NEW c, NEW h, NEW t, NEW ns, NEW d, NEW r, Good(c, h, t, ns, d, r), h < t, Done(c.rob[h]),
         NEW new, new = RetiredOf(c, h)
  PROVE  Good(new, h + 1, t, ns, d, r)
<1> DEFINE e == c.rob[h]
           n == Len(e.ins.dst)
           S == {e.sq_index[j] : j \in DOMAIN e.sq_index}
           sq == [s \in SqSlot |-> IF s \in S THEN EmptyStore ELSE c.SQ[s]]
           e0 == Entry(NoInstr)
           sh == (c.SQ_head + n) % SQ_SIZE
           so == c.SQ_occupancy - n
<1>g. /\ IsCore(c) /\ Typed(c) /\ Win(h, t, ns) /\ EntriesOK(c.rob, h, t, ns)
      /\ RegInv(c.rob, c.RT, h, ns) /\ LoadInv(c.rob, c.LQ, c.SQ, h, ns)
      /\ StoreInv(c, h, t, ns) /\ CountInv(c, h, t) /\ PlacesOK(c, d, r)
  BY GoodIs
<1>w. /\ h \in Nat \ {0} /\ t \in Nat /\ ns \in Nat /\ h <= ns /\ ns <= t /\ t <= MaxInstr + 1 /\ ns <= MaxInstr + 1
      /\ MaxInstr \in Nat /\ ROB_SIZE \in Nat /\ h .. t - 1 \subseteq Id /\ h .. ns - 1 \subseteq Id
      /\ h \in Id /\ t - h <= ROB_SIZE /\ h \in Nat
  BY <1>g DEF Win, Id
<1>t. c.rob \in [Id -> Row] /\ c.STA \in Seq(Id) /\ c.SQ_head \in SqSlot /\ e \in Row /\ c.SQ \in [SqSlot -> Stores]
      /\ c.SQ_occupancy \in Int
  BY <1>g, <1>w DEF Typed
<1>s. StoresOK(c.rob, c.SQ, h, ns) /\ RingOK(c) /\ OrderOK(c, h, t) /\ LoadsOK(c.rob, c.LQ, h, ns)
  BY <1>g DEF StoreInv, LoadInv
<1>h. h < ns
  <2>1. h \notin h .. ns - 1 => c.rob[h] = Entry(c.rob[h].ins)
    BY <1>g, <1>w DEF EntriesOK
  <2>2. h \in h .. ns - 1
    BY <2>1 DEF Entry, Done
  <2> QED
    BY <1>w, <2>2
<1>i. e.ins.dst \in Seq(Addr) /\ n \in Nat /\ DOMAIN e.ins.dst = 1 .. n
  <2>1. e.ins.dst \in Seq(Addr)
    BY <1>t, RowIs
  <2> QED
    BY <2>1, LenIs
<1>z. LeftOf(e) = {} /\ LeftTo(e) = {} /\ LoadsOf(c.LQ, h) = {} /\ StoresOf(c.SQ, h) = {}
  <2>1. OpsOK(c.rob, c.LQ, c.SQ, h, t) /\ h \in h .. t - 1
    BY <1>g, <1>w DEF CountInv
  <2>2. OpsOf(e, c.LQ, c.SQ, h) = 0
    BY <2>1, OpsIs
  <2> QED
    BY <1>t, <2>2, NothingLeft
<1>a. AllAdded(e, n) /\ DOMAIN e.sq_index = 1 .. n
  <2>1. e.destination_added \subseteq DOMAIN e.ins.dst /\ DOMAIN e.sq_index = DOMAIN e.ins.dst
    BY <1>g, <1>w DEF EntriesOK
  <2> QED
    BY <1>i, <1>z, <2>1 DEF AllAdded, LeftTo
<1>x. new = [c EXCEPT !.rob[h] = e0, !.SQ = sq, !.SQ_occupancy = so, !.SQ_head = sh]
  <2>1. new = [c EXCEPT !.rob[h] = Entry(NoInstr),
                        !.SQ = [s \in SqSlot |-> IF s \in S THEN EmptyStore ELSE @[s]],
                        !.SQ_occupancy = @ - n, !.SQ_head = (@ + n) % SQ_SIZE]
    BY Zenon DEF RetiredOf
  <2> HIDE DEF n, S, e
  <2> QED
    BY <1>g, <2>1 DEF IsCore, Names
<1>1. S = {s \in SqSlot : c.SQ[s].id = h} /\ n <= c.SQ_occupancy
  <2>1. S = {e.sq_index[j] : j \in 1 .. n}
    BY <1>a
  <2> HIDE DEF n
  <2>2. n <= c.SQ_occupancy /\ {c.rob[h].sq_index[j] : j \in 1 .. n} = {s \in SqSlot : c.SQ[s].id = h}
    <3>1. HeadIs(c, h, n)
      BY <1>a, <1>h, <1>i, <1>s, <1>t, <1>w, HeadStores, Zenon
    <3> QED
      BY <3>1 DEF HeadIs
  <2> QED
    BY <2>1, <2>2
<1>2. sh = at(c, n) /\ sh \in SqSlot
  <2>1. at(c, n) \in SqSlot
    BY <1>i, <1>t, AtSlot
  <2> QED
    BY <2>1 DEF at
<1>3. Emptied(c.SQ, sq, h)
  BY <1>1 DEF Emptied
<1>4. sq \in [SqSlot -> Stores] /\ so \in Int
  <2>1. EmptyStore \in Stores
    BY DEF EmptyStore, Stores
  <2> HIDE DEF S, n
  <2> QED
    BY <1>i, <1>t, <2>1
<1>5. e0 \in Row
  BY EntryIs
<1>6. n = Len(e.ins.dst) /\ so = c.SQ_occupancy - n /\ e0 = Entry(NoInstr)
  OBVIOUS
<1> HIDE DEF n, S, sq, e0, sh, so
<1>7. /\ IsCore(new) /\ new.rob = [c.rob EXCEPT ![h] = e0] /\ new.STA = c.STA /\ new.RT = c.RT
      /\ new.LQ = c.LQ /\ new.LQ_occupancy = c.LQ_occupancy /\ new.SQ = sq
      /\ new.SQ_head = sh /\ new.SQ_tail = c.SQ_tail /\ new.SQ_occupancy = so
      /\ new.inflight_mem = c.inflight_mem /\ new.inflight_reg = c.inflight_reg
  BY <1>x, <1>g DEF IsCore, Names
<1>8. new.rob \in [Id -> Row] /\ new.rob[h] = e0 /\ \A k \in Id : k # h => new.rob[k] = c.rob[k]
  BY <1>5, <1>7, <1>t, <1>w
<1>9. new \in Shape
  <2>2. Typed(new)
    BY <1>2, <1>4, <1>7, <1>8, <1>g, Zenon DEF Typed
  <2> QED
    BY <1>7, <2>2, ShapeIff
<1>10. Window(h + 1, t, ns)
  BY <1>h, <1>w DEF Window
<1>11. EntriesOK(new.rob, h + 1, t, ns)
  <2> SUFFICES ASSUME NEW i \in Id
               PROVE  LET v == new.rob[i]
                      IN  /\ i \notin h + 1 .. t - 1 => v.ins = NoInstr
                          /\ i \notin h + 1 .. ns - 1 => v = Entry(v.ins)
                          /\ v.source_added \subseteq DOMAIN v.ins.src /\ DOMAIN v.lq_index = DOMAIN v.ins.src
                          /\ v.destination_added \subseteq DOMAIN v.ins.dst /\ DOMAIN v.sq_index = DOMAIN v.ins.dst
    BY DEF EntriesOK
  <2>0. i \in Int
    BY <1>w DEF Id
  <2>1. CASE i = h
    <3>1. /\ e0.ins = NoInstr /\ e0.source_added = {} /\ e0.destination_added = {}
          /\ DOMAIN e0.lq_index = DOMAIN NoInstr.src /\ DOMAIN e0.sq_index = DOMAIN NoInstr.dst
      BY EntryFields DEF e0
    <3>2. e0 = Entry(e0.ins)
      BY <3>1 DEF e0
    <3> QED
      BY <1>8, <2>1, <3>1, <3>2
  <2>2. CASE i # h
    <3>1. (i \notin h + 1 .. t - 1 => i \notin h .. t - 1) /\ (i \notin h + 1 .. ns - 1 => i \notin h .. ns - 1)
      BY <1>w, <2>0, <2>2
    <3> QED
      BY <1>8, <1>g, <2>2, <3>1 DEF EntriesOK
  <2> QED
    BY <2>1, <2>2
<1>12. SameIn(c.rob, new.rob, h + 1, t) /\ (\A i \in h + 1 .. ns - 1 : new.rob[i] = c.rob[i])
  BY <1>8, <1>w DEF SameIn
<1>13. RegInv(new.rob, new.RT, h + 1, ns)
  <2>1. RegInv(new.rob, c.RT, h + 1, ns)
    BY <1>12, <1>g, <1>h, <1>w, RegRetire
  <2> QED
    BY <1>7, <2>1
<1>14. StoreInv(new, h + 1, t, ns)
  <2>1. new.SQ_occupancy = c.SQ_occupancy - n /\ new.SQ_head = at(c, n) /\ Emptied(c.SQ, new.SQ, h)
    BY <1>2, <1>3, <1>6, <1>7
  <2> QED
    BY <1>7, <1>12, <1>a, <1>g, <1>h, <1>i, <1>t, <1>w, <2>1, RetireStores
<1>15. LoadInv(new.rob, new.LQ, new.SQ, h + 1, ns)
  BY <1>3, <1>7, <1>12, <1>g, <1>h, <1>s, <1>w, <1>z, RetireLoads
<1>16. OpsOK(new.rob, new.LQ, new.SQ, h + 1, t)
  <2> SUFFICES ASSUME NEW i \in h + 1 .. t - 1
               PROVE  new.rob[i].num_mem_ops = OpsOf(new.rob[i], new.LQ, new.SQ, i) /\ (Done(new.rob[i]) => new.rob[i].num_mem_ops = 0)
    BY OpsIs
  <2>1. i \in h .. t - 1 /\ i # h /\ i # 0 /\ new.rob[i] = c.rob[i]
    BY <1>12, <1>w DEF SameIn
  <2>2. StoresOf(new.SQ, i) = StoresOf(c.SQ, i)
    BY <1>3, <1>7, <2>1 DEF StoresOf, Emptied, EmptyStore
  <2>3. c.rob[i].num_mem_ops = OpsOf(c.rob[i], c.LQ, c.SQ, i) /\ (Done(c.rob[i]) => c.rob[i].num_mem_ops = 0)
    BY <1>g, <2>1, OpsIs DEF CountInv
  <2> QED
    BY <1>7, <2>1, <2>2, <2>3 DEF OpsOf
<1>u. ASSUME NEW i \in h .. t - 1 PROVE i = h \/ (i \in h + 1 .. t - 1 /\ new.rob[i] = c.rob[i])
  BY <1>12, <1>w DEF SameIn
<1>v. h + 1 .. t - 1 \subseteq h .. t - 1 /\ \A i \in h + 1 .. t - 1 : new.rob[i] = c.rob[i]
  BY <1>12, <1>w DEF SameIn
<1>17. MemInflight(new.rob, h + 1, t) = MemInflight(c.rob, h, t)
  BY <1>u, <1>v DEF MemInflight
<1>18. RegInflight(new.rob, h + 1, t) = RegInflight(c.rob, h, t)
  BY <1>u, <1>v DEF RegInflight, Done
<1>19. CountInv(new, h + 1, t)
  BY <1>7, <1>16, <1>17, <1>18, <1>g DEF CountInv
<1>20. PlacesOK(new, d, r)
  <2>1. {s \in SqSlot : new.SQ[s].addr # 0 /\ ~new.SQ[s].fetched} = {s \in SqSlot : c.SQ[s].addr # 0 /\ ~c.SQ[s].fetched}
    BY <1>3, <1>7, <1>z DEF Emptied, EmptyStore, StoresOf
  <2> QED
    BY <1>7, <1>g, <2>1 DEF PlacesOK
<1>21. d \subseteq {"LQ", "SQ"} \X Nat /\ r \subseteq LqSlot
  BY DEF Good
<1> QED
  BY <1>9, <1>10, <1>11, <1>13, <1>14, <1>15, <1>19, <1>20, <1>21 DEF Good

-------------------------------------------------------------------------------
(* do_scheduling *)

PlanOf(e, n, b, s) == [[e EXCEPT !.num_reg_dependent = n, !.reg_ready = b] EXCEPT !.scheduled = s]
LinkOf(e, D) == [e EXCEPT !.reg_depend_on_me = @ \cup D]

LEMMA PlanRow ==
  ASSUME NEW e \in Row, NEW n \in Int, NEW b \in BOOLEAN, NEW s \in Status
  PROVE  RegOf(e, PlanOf(e, n, b, s), b, n)
<1> DEFINE f == PlanOf(e, n, b, s)
<1>e. IsRow(e) /\ RowTyped(e)
  BY RowIff
<1>1. /\ IsRow(f) /\ MemSame(e, f) /\ f.num_reg_dependent = n /\ f.executed = e.executed
      /\ f.reg_depend_on_me = e.reg_depend_on_me /\ f.scheduled = s /\ f.reg_ready = b
  BY <1>e DEF IsRow, RowNames, MemSame, PlanOf
<1> HIDE DEF f
<1>2. RowTyped(f)
  BY <1>1, <1>e, Zenon DEF RowTyped, MemSame
<1>3. f \in Row
  BY <1>1, <1>2, RowIff
<1> QED
  BY <1>1, <1>3 DEF RegOf, f

Links(e, f, D) ==
  /\ f \in Row /\ MemSame(e, f) /\ RegSame(e, f) /\ f.reg_depend_on_me = e.reg_depend_on_me \cup D
  /\ D = {} => f = e

LEMMA LinkRow ==
  ASSUME NEW e \in Row, NEW D \in SUBSET (Id \X Nat)
  PROVE  Links(e, LinkOf(e, D), D)
<1> DEFINE f == LinkOf(e, D)
           R == e.reg_depend_on_me \cup D
<1>e. IsRow(e) /\ RowTyped(e)
  BY RowIff
<1>0. R \in SUBSET (Id \X Nat) /\ (D = {} => R = e.reg_depend_on_me)
  BY <1>e DEF RowTyped
<1>1. f = [e EXCEPT !.reg_depend_on_me = R]
  BY DEF LinkOf
<1> HIDE DEF R, f
<1>2. /\ IsRow(f) /\ MemSame(e, f) /\ RegSame(e, f) /\ f.reg_depend_on_me = R /\ f.scheduled = e.scheduled
      /\ R = e.reg_depend_on_me => f = e
  BY <1>1, <1>e DEF IsRow, RowNames, MemSame, RegSame
<1>3. RowTyped(f)
  BY <1>0, <1>2, <1>e, Zenon DEF RowTyped, MemSame, RegSame
<1>4. f \in Row
  BY <1>2, <1>3, RowIff
<1> QED
  BY <1>0, <1>2, <1>4 DEF Links, R, f

ScheduledOf(c0, i) ==
  LET c == reg_dependency(c0, i)
  IN  IF is_memory(c.rob[i]) THEN [c EXCEPT !.rob[i].scheduled = "INFLIGHT"]
      ELSE [c EXCEPT !.rob[i].scheduled = "COMPLETED",
                     !.RT["RTE1"] = IF c.rob[i].reg_ready THEN Append(@, i) ELSE @]

(* What do_scheduling does to the core. *)
Planned(c, new, h, i, y, deps) ==
  /\ IsCore(new) /\ new.rob \in [Id -> Row] /\ new.LQ = c.LQ /\ new.LQ_occupancy = c.LQ_occupancy
  /\ SameStores(c, new) /\ new.inflight_reg = c.inflight_reg /\ new.inflight_mem = c.inflight_mem
  /\ \A p \in Id : p # i => Links(c.rob[p], new.rob[p], {<<i, j>> : j \in {k \in deps : p = y[k]}})
  /\ RegOf(c.rob[i], new.rob[i], deps = {}, Cardinality(deps))
  /\ new.RT = IF ~is_memory(c.rob[i]) /\ deps = {} THEN [c.RT EXCEPT !["RTE1"] = Append(@, i)] ELSE c.RT

LEMMA PlannedIs ==
  ASSUME NEW c, IsCore(c), Typed(c), NEW i \in Id, NEW new, new = ScheduledOf(c, i), NEW deps, NEW y,
         deps = {j \in DOMAIN c.rob[i].ins.rsrc : Writers(c, i, c.rob[i].ins.rsrc[j]) # {}},
         y = [j \in deps |-> youngest(Writers(c, i, c.rob[i].ins.rsrc[j]))],
         Cardinality(deps) \in Nat, deps \subseteq Nat
  PROVE  Planned(c, new, head, i, y, deps)
<1> DEFINE n == Cardinality(deps)
           b == deps = {}
           D(p) == {<<i, j>> : j \in {k \in deps : p = y[k]}}
           rob == [p \in Id |-> IF p = i THEN [c.rob[i] EXCEPT !.num_reg_dependent = n, !.reg_ready = b]
                                ELSE LinkOf(c.rob[p], D(p))]
           x == [c EXCEPT !.rob = rob]
           s == IF is_memory(c.rob[i]) THEN "INFLIGHT" ELSE "COMPLETED"
<1>t. c.rob \in [Id -> Row] /\ c.RT \in [Lists -> Seq(Nat)] /\ c.rob[i] \in Row
  BY DEF Typed
<1>1. reg_dependency(c, i) = x
  <2>1. \A p : {<<i, j>> : j \in {k \in deps : p = youngest(Writers(c, i, c.rob[i].ins.rsrc[k]))}} = D(p)
    <3>1. \A k \in deps : y[k] = youngest(Writers(c, i, c.rob[i].ins.rsrc[k]))
      BY Zenon
    <3>2. ASSUME NEW p PROVE {k \in deps : p = youngest(Writers(c, i, c.rob[i].ins.rsrc[k]))} = {k \in deps : p = y[k]}
      BY <3>1, Zenon
    <3> QED
      BY <3>2, Zenon
  <2> DEFINE W(p) == {<<i, j>> : j \in {k \in deps : p = youngest(Writers(c, i, c.rob[i].ins.rsrc[k]))}}
             rob1 == [p \in Id |-> IF p = i THEN [c.rob[i] EXCEPT !.num_reg_dependent = n, !.reg_ready = b]
                                   ELSE [c.rob[p] EXCEPT !.reg_depend_on_me = @ \cup W(p)]]
  <2>2. reg_dependency(c, i) = [c EXCEPT !.rob = rob1]
    BY Zenon DEF reg_dependency
  <2>3. \A p : W(p) = D(p)
    BY <2>1
  <2> HIDE DEF W, D, n, b
  <2>4. rob1 = rob
    BY <2>3 DEF LinkOf
  <2> QED
    BY <2>2, <2>4, Zenon
<1>2. b \in BOOLEAN /\ s \in Status /\ n \in Int
  BY DEF Status
<1>3. ASSUME NEW p \in Id PROVE D(p) \in SUBSET (Id \X Nat)
  <2>1. ASSUME NEW v \in D(p) PROVE v \in Id \X Nat
    <3>1. PICK j \in deps : v = <<i, j>>
      BY Zenon
    <3>2. j \in Nat
      OBVIOUS
    <3> HIDE DEF D
    <3> QED
      BY <3>1, <3>2
  <2> QED
    BY <2>1
<1>4. n = Cardinality(deps) /\ (b <=> deps = {}) /\ b = (deps = {})
  OBVIOUS
<1>5. x.rob = rob /\ x.RT = c.RT /\ IsCore(x)
  <2> HIDE DEF rob
  <2> QED
    BY DEF IsCore, Names
<1>6. rob[i] = [c.rob[i] EXCEPT !.num_reg_dependent = n, !.reg_ready = b] /\ \A p \in Id : p # i => rob[p] = LinkOf(c.rob[p], D(p))
  <2> HIDE DEF n, b, D
  <2> QED
    OBVIOUS
<1>7. (is_memory(rob[i]) <=> is_memory(c.rob[i])) /\ rob[i].reg_ready = b /\ rob[i].ins = c.rob[i].ins
  <2> HIDE DEF n, b, rob
  <2>1. IsRow(c.rob[i])
    BY <1>t, RowIff
  <2>2. rob[i].ins = c.rob[i].ins /\ rob[i].reg_ready = b
    BY Zenon, <1>6, <2>1 DEF IsRow, RowNames
  <2> QED
    BY <2>2 DEF is_memory
<1> DEFINE e == PlanOf(c.rob[i], n, b, s)
           rob2 == [rob EXCEPT ![i] = e]
           RT2 == IF ~is_memory(c.rob[i]) /\ b THEN [c.RT EXCEPT !["RTE1"] = Append(@, i)] ELSE c.RT
<1>8. IsCore(new) /\ new.rob = rob2 /\ new.LQ = c.LQ /\ new.LQ_occupancy = c.LQ_occupancy
      /\ SameStores(c, new) /\ new.inflight_reg = c.inflight_reg /\ new.inflight_mem = c.inflight_mem
      /\ new.RT = RT2
  <2>1. new = IF is_memory(x.rob[i]) THEN [x EXCEPT !.rob[i].scheduled = "INFLIGHT"]
              ELSE [x EXCEPT !.rob[i].scheduled = "COMPLETED",
                             !.RT["RTE1"] = IF x.rob[i].reg_ready THEN Append(@, i) ELSE @]
    BY <1>1, Zenon DEF ScheduledOf
  <2>2. /\ x.LQ = c.LQ /\ x.LQ_occupancy = c.LQ_occupancy
        /\ SameStores(c, x) /\ x.inflight_reg = c.inflight_reg /\ x.inflight_mem = c.inflight_mem
    <3> HIDE DEF rob
    <3> QED
      BY DEF IsCore, Names, SameStores
  <2>3. rob2 = [rob EXCEPT ![i].scheduled = s]
    <3>1. e = [rob[i] EXCEPT !.scheduled = s]
      BY <1>6 DEF PlanOf
    <3> HIDE DEF rob, e
    <3> QED
      BY <3>1
  <2> HIDE DEF x, rob, rob2, n, b
  <2>4. CASE is_memory(c.rob[i])
    <3>1. new = [x EXCEPT !.rob[i].scheduled = "INFLIGHT"] /\ s = "INFLIGHT"
      BY <1>5, <1>7, <2>1, <2>4
    <3> QED
      BY <1>5, <2>2, <2>3, <2>4, <3>1 DEF IsCore, Names, SameStores
  <2>5. CASE ~is_memory(c.rob[i])
    <3>1. /\ new = [x EXCEPT !.rob[i].scheduled = "COMPLETED", !.RT["RTE1"] = IF b THEN Append(@, i) ELSE @]
          /\ s = "COMPLETED"
      BY <1>5, <1>7, <2>1, <2>5
    <3>2. [c.RT EXCEPT !["RTE1"] = IF b THEN Append(@, i) ELSE @] = RT2
      BY <1>t, <2>5
    <3> HIDE DEF RT2
    <3> QED
      BY <1>5, <2>2, <2>3, <2>5, <3>1, <3>2 DEF IsCore, Names, SameStores
  <2> QED
    BY <2>4, <2>5
<1> HIDE DEF n, b, D, rob
<1>9. RegOf(c.rob[i], e, b, n)
  BY <1>2, <1>t, PlanRow
<1> HIDE DEF e
<1>10. ASSUME NEW p \in Id, p # i PROVE Links(c.rob[p], rob[p], D(p))
  <2>1. c.rob[p] \in Row
    BY <1>t
  <2>2. Links(c.rob[p], LinkOf(c.rob[p], D(p)), D(p))
    BY <1>3, <2>1, LinkRow
  <2> QED
    BY <1>6, <1>10, <2>2
<1>11. DOMAIN rob = Id
  BY DEF rob
<1>12. /\ rob2[i] = e /\ \A p \in Id : p # i => rob2[p] = rob[p]
       /\ DOMAIN rob2 = Id
  BY <1>11
<1>13. rob2 \in [Id -> Row]
  <2>1. \A p \in Id : rob2[p] \in Row
    BY <1>9, <1>10, <1>12 DEF RegOf, Links
  <2>2. rob2 = [p \in Id |-> rob2[p]]
    BY <1>11
  <2> HIDE DEF rob2
  <2> QED
    BY <2>1, <2>2
<1> HIDE DEF rob2
<1> QED
  BY <1>4, <1>8, <1>9, <1>10, <1>12, <1>13 DEF Planned, D

LEMMA SchedulingStep ==
  ASSUME NEW c, NEW t, NEW ns, NEW d, NEW r, Good(c, head, t, ns, d, r), ns < t, NEW new, new = ScheduledOf(c, ns)
  PROVE  Good(new, head, t, ns + 1, d, r)
<1> DEFINE h == head
           rsrc == c.rob[ns].ins.rsrc
           W(j) == Writers(c, ns, rsrc[j])
           deps == {j \in DOMAIN rsrc : W(j) # {}}
           y == [j \in deps |-> youngest(W(j))]
<1>g. /\ IsCore(c) /\ Typed(c) /\ Win(h, t, ns) /\ EntriesOK(c.rob, h, t, ns)
      /\ RegInv(c.rob, c.RT, h, ns) /\ LoadInv(c.rob, c.LQ, c.SQ, h, ns)
      /\ StoreInv(c, h, t, ns) /\ CountInv(c, h, t) /\ PlacesOK(c, d, r)
  BY GoodIs
<1>w. /\ h \in Nat \ {0} /\ t \in Nat /\ ns \in Nat /\ h <= ns /\ ns <= t /\ t <= MaxInstr + 1 /\ ns <= MaxInstr + 1
      /\ MaxInstr \in Nat /\ ROB_SIZE \in Nat /\ h .. t - 1 \subseteq Id /\ h .. ns - 1 \subseteq Id
      /\ ns \in Id /\ t - h <= ROB_SIZE /\ h \in Nat /\ ns + 1 \in Nat /\ ns <= ns + 1 /\ ns + 1 <= t
  BY <1>g DEF Win, Id
<1>t. c.rob \in [Id -> Row] /\ c.RT \in [Lists -> Seq(Nat)] /\ c.rob[ns] \in Row
  BY <1>g, <1>w DEF Typed
<1>e. c.rob[ns] = Entry(c.rob[ns].ins)
  <2>1. ns \notin h .. ns - 1
    BY <1>w
  <2> QED
    BY <1>g, <1>w, <2>1 DEF EntriesOK
<1>f. /\ c.rob[ns].executed = "NO" /\ c.rob[ns].source_added = {} /\ c.rob[ns].destination_added = {}
      /\ c.rob[ns].reg_depend_on_me = {}
  BY <1>e, EntryFields
<1>r. rsrc \in Seq(Nat)
  BY <1>t, RowIs
<1>1. IsFiniteSet(deps) /\ Cardinality(deps) \in Nat /\ deps \subseteq Nat /\ deps \subseteq DOMAIN rsrc
  <2>1. IsFiniteSet(DOMAIN rsrc) /\ DOMAIN rsrc \subseteq Nat
    BY <1>r, SeqCount, LenIs
  <2>2. deps \in SUBSET DOMAIN rsrc
    OBVIOUS
  <2> HIDE DEF deps
  <2> QED
    BY <2>1, <2>2, FS_Subset, FS_CardinalityType
<1>2. Planned(c, new, h, ns, y, deps)
  BY <1>1, <1>g, <1>w, PlannedIs
<1>3. WaitsFor(c.rob, h, ns, y, deps)
  <2> SUFFICES ASSUME NEW j \in DOMAIN rsrc
               PROVE  LET writes(p) == ~Done(c.rob[p]) /\ rsrc[j] \in c.rob[p].ins.rdst
                      IN  IF j \in deps THEN y[j] \in h .. ns - 1 /\ writes(y[j]) /\ \A q \in y[j] + 1 .. ns - 1 : ~writes(q)
                          ELSE \A q \in h .. ns - 1 : ~writes(q)
    BY DEF WaitsFor
  <2>1. \A p : p \in W(j) <=> p \in h .. ns - 1 /\ ~Done(c.rob[p]) /\ rsrc[j] \in c.rob[p].ins.rdst
    BY DEF Writers, Older, Done
  <2>2. CASE j \in deps
    <3> DEFINE S == W(j)
    <3>1. h \in Int /\ ns - 1 \in Int /\ S \in SUBSET (h .. ns - 1) /\ S # {}
      BY <1>w, <2>1, <2>2
    <3>2. y[j] = youngest(S)
      BY <2>2
    <3> HIDE DEF S, y
    <3>3. y[j] \in S /\ \A k \in S : k <= y[j]
      BY <3>1, <3>2, YoungestIs
    <3> DEFINE v == y[j]
    <3>5. v \in S /\ (\A k \in S : k <= v) /\ S \subseteq h .. ns - 1
      BY <3>1, <3>3
    <3> HIDE DEF v, h
    <3>6. v \in h .. ns - 1 /\ h \in Nat /\ ns \in Nat
      BY <1>w, <3>5
    <3>7. ASSUME NEW q \in v + 1 .. ns - 1 PROVE q \notin S /\ q \in h .. ns - 1
      BY <3>5, <3>6
    <3>4. \A q \in y[j] + 1 .. ns - 1 : q \notin S /\ q \in h .. ns - 1
      BY <3>7 DEF v
    <3> HIDE DEF W, deps
    <3> QED
      BY <2>1, <2>2, <3>3, <3>4 DEF S
  <2>3. CASE j \notin deps
    <3>1. W(j) = {}
      BY <2>3
    <3> HIDE DEF W, deps
    <3> QED
      BY <2>1, <2>3, <3>1
  <2> QED
    BY <2>2, <2>3
<1> HIDE DEF deps, y, W
<1>y. ASSUME NEW j \in deps PROVE y[j] \in h .. ns - 1
  BY <1>1, <1>3 DEF WaitsFor
<1>4. /\ IsCore(new) /\ new.rob \in [Id -> Row] /\ new.LQ = c.LQ /\ new.LQ_occupancy = c.LQ_occupancy
      /\ SameStores(c, new) /\ new.inflight_reg = c.inflight_reg /\ new.inflight_mem = c.inflight_mem
      /\ \A p \in Id : p # ns => Links(c.rob[p], new.rob[p], {<<ns, j>> : j \in {k \in deps : p = y[k]}})
      /\ RegOf(c.rob[ns], new.rob[ns], deps = {}, Cardinality(deps))
      /\ new.RT = IF ~is_memory(c.rob[ns]) /\ deps = {} THEN [c.RT EXCEPT !["RTE1"] = Append(@, ns)] ELSE c.RT
  BY <1>2 DEF Planned
<1>5. /\ MemSame(c.rob[ns], new.rob[ns]) /\ (new.rob[ns].reg_ready <=> deps = {})
      /\ new.rob[ns].num_reg_dependent = Cardinality(deps) /\ new.rob[ns].executed = "NO"
      /\ new.rob[ns].reg_depend_on_me = {} /\ (is_memory(new.rob[ns]) <=> is_memory(c.rob[ns]))
      /\ new.rob[ns].source_added = {} /\ new.rob[ns].destination_added = {} /\ new.rob[ns].ins = c.rob[ns].ins
  BY <1>4, <1>f DEF RegOf, MemSame, is_memory
<1>n. new.rob[ns].mem_depend_on_me = {} /\ new.rob[ns].source_added = {}
  <2>1. c.rob[ns].mem_depend_on_me = {}
    BY <1>e, EntryFields
  <2> QED
    BY <1>4, <1>f, <2>1 DEF RegOf, MemSame
<1>6. /\ new.RT["RTE0"] = c.RT["RTE0"]
      /\ new.RT["RTE1"] = IF ~is_memory(new.rob[ns]) /\ new.rob[ns].reg_ready THEN Append(c.RT["RTE1"], ns)
                          ELSE c.RT["RTE1"]
      /\ \A x \in {"RTL0", "RTL1", "RTS0", "RTS1"} : new.RT[x] = c.RT[x]
      /\ new.RT \in [Lists -> Seq(Nat)]
  <2>1. Append(c.RT["RTE1"], ns) \in Seq(Nat)
    <3>1. c.RT["RTE1"] \in Seq(Nat)
      BY <1>t DEF Lists
    <3> QED
      BY <1>w, <3>1
  <2> DEFINE v == Append(c.RT["RTE1"], ns)
  <2>2. new.RT = IF ~is_memory(c.rob[ns]) /\ deps = {} THEN [c.RT EXCEPT !["RTE1"] = v] ELSE c.RT
    BY <1>4
  <2> HIDE DEF v
  <2>3. CASE ~is_memory(c.rob[ns]) /\ deps = {}
    BY <1>5, <1>t, <2>1, <2>2, <2>3 DEF Lists, v
  <2>4. CASE ~(~is_memory(c.rob[ns]) /\ deps = {})
    BY <1>5, <1>t, <2>2, <2>4 DEF Lists
  <2> QED
    BY <2>3, <2>4
<1>7. ASSUME NEW p \in Id, p # ns
      PROVE  /\ MemSame(c.rob[p], new.rob[p]) /\ RegSame(c.rob[p], new.rob[p])
             /\ \A x : x \in new.rob[p].reg_depend_on_me <=>
                         x \in c.rob[p].reg_depend_on_me \/ \E j \in deps : x = <<ns, j>> /\ p = y[j]
             /\ p \notin h .. ns - 1 => new.rob[p] = c.rob[p]
  <2> DEFINE D == {<<ns, j>> : j \in {k \in deps : p = y[k]}}
  <2>1. Links(c.rob[p], new.rob[p], D)
    BY <1>4, <1>7
  <2>2. \A x : x \in D <=> \E j \in deps : x = <<ns, j>> /\ p = y[j]
    OBVIOUS
  <2>3. p \notin h .. ns - 1 => D = {}
    BY <1>y
  <2> HIDE DEF D
  <2> QED
    BY <2>1, <2>2, <2>3 DEF Links
<1>8. RegInv(new.rob, new.RT, h, ns + 1)
  <2>1. Linked(c.rob, new.rob, h, ns, y, deps)
    <3>1. \A p \in h .. ns - 1 : p \in Id /\ p # ns
      BY <1>w
    <3> QED
      BY <1>7, <3>1 DEF Linked
  <2>2. Unstarted(new.rob[ns]) /\ deps \subseteq DOMAIN c.rob[ns].ins.rsrc
    BY <1>1, <1>5 DEF Unstarted
  <2> QED
    BY <1>3, <1>5, <1>6, <1>g, <1>t, <1>w, <2>1, <2>2, RegSchedule
<1>9. MemFrame(c.rob, new.rob) /\ \A p \in Id : new.rob[p].executed = c.rob[p].executed
  BY <1>5, <1>7, <1>f DEF MemFrame, RegSame
<1>10. new \in Shape
  <2>1. Typed(new)
    BY <1>4, <1>6, <1>g, Zenon DEF Typed, SameStores
  <2> QED
    BY <1>4, <2>1, ShapeIff
<1>11. Window(h, t, ns + 1)
  BY <1>w DEF Window
<1>12. EntriesOK(new.rob, h, t, ns + 1)
  <2> SUFFICES ASSUME NEW i \in Id
               PROVE  LET v == new.rob[i]
                      IN  /\ i \notin h .. t - 1 => v.ins = NoInstr
                          /\ i \notin h .. (ns + 1) - 1 => v = Entry(v.ins)
                          /\ v.source_added \subseteq DOMAIN v.ins.src /\ DOMAIN v.lq_index = DOMAIN v.ins.src
                          /\ v.destination_added \subseteq DOMAIN v.ins.dst /\ DOMAIN v.sq_index = DOMAIN v.ins.dst
    BY DEF EntriesOK
  <2>0. i \in Int
    BY <1>w DEF Id
  <2>1. MemSame(c.rob[i], new.rob[i])
    BY <1>9 DEF MemFrame
  <2>2. i \notin h .. (ns + 1) - 1 => i # ns /\ i \notin h .. ns - 1
    BY <1>w, <2>0
  <2>3. i \notin h .. (ns + 1) - 1 => new.rob[i] = c.rob[i]
    BY <1>7, <2>2
  <2> QED
    BY <1>g, <2>1, <2>2, <2>3 DEF EntriesOK, MemSame
<1>s. new.SQ = c.SQ
  BY <1>4 DEF SameStores
<1>13. LoadInv(new.rob, new.LQ, new.SQ, h, ns + 1)
  <2>1. MemFrameIn(c.rob, new.rob, h, ns)
    BY <1>9, <1>w DEF MemFrame, MemFrameIn
  <2>2. LoadInv(new.rob, c.LQ, c.SQ, h, ns + 1)
    <3> DEFINE n2 == ns + 1
    <3>1. n2 \in Nat /\ ns <= n2
      BY <1>w
    <3>n. \A i \in ns .. n2 - 1 : new.rob[i].source_added = {} /\ new.rob[i].mem_depend_on_me = {}
      <4>1. \A i \in ns .. n2 - 1 : i = ns
        BY <1>w
      <4> QED
        BY <1>n, <4>1
    <3> HIDE DEF n2
    <3>2. LoadInv(new.rob, c.LQ, c.SQ, h, n2)
      BY <1>g, <1>w, <2>1, <3>1, <3>n, LoadKept
    <3> QED
      BY <3>2 DEF n2
  <2> QED
    BY <1>4, <1>s, <2>2
<1>14. StoreInv(new, h, t, ns + 1)
  <2> DEFINE n2 == ns + 1
  <2>1. NoneAdded(new.rob, ns, n2)
    BY <1>5, <1>w DEF NoneAdded
  <2>2. n2 \in Nat /\ ns <= n2 /\ n2 <= t
    BY <1>w
  <2> HIDE DEF n2
  <2>3. StoreInv(new, h, t, n2)
    BY <1>4, <1>9, <1>g, <1>w, <2>1, <2>2, StoreKept, Zenon
  <2> QED
    BY <2>3 DEF n2
<1>15. CountInv(new, h, t)
  <2>1. \A k \in h .. t - 1 : MemSame(c.rob[k], new.rob[k]) /\ new.rob[k].executed = c.rob[k].executed
    BY <1>9, <1>w DEF MemFrame
  <2>2. OpsOK(new.rob, c.LQ, c.SQ, h, t)
    <3>1. \A k \in h .. t - 1 : Done(new.rob[k]) => Done(c.rob[k]) \/ c.rob[k].num_mem_ops = 0
      BY <2>1 DEF Done
    <3> QED
      BY <1>9, <1>g, <1>w, <3>1, OpsKept DEF CountInv
  <2>3. MemInflight(new.rob, h, t) = MemInflight(c.rob, h, t) /\ RegInflight(new.rob, h, t) = RegInflight(c.rob, h, t)
    BY <2>1 DEF MemInflight, RegInflight, MemSame, is_memory, Done
  <2> QED
    BY <1>4, <1>g, <1>s, <2>2, <2>3 DEF CountInv
<1>16. PlacesOK(new, d, r)
  BY <1>4, <1>6, <1>g, <1>s, PlacesKept
<1>17. d \subseteq {"LQ", "SQ"} \X Nat /\ r \subseteq LqSlot
  BY DEF Good
<1> QED
  BY <1>8, <1>10, <1>11, <1>12, <1>13, <1>14, <1>15, <1>16, <1>17 DEF Good
===============================================================================
