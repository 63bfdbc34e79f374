--------------------------- MODULE SpecFlow_proofs ----------------------------
(***************************************************************************)
(* Requests and answers between the levels of SpecCache, without           *)
(* prefetchers.  ReturnsAreExpected and NoLostWaiter are not inductive: a  *)
(* fill would answer an upper cache twice if the same request were both in *)
(* the read queue and in an MSHR of the level below.  Link says that what  *)
(* a cache waits for is held by exactly one of the two, and the rest of    *)
(* Flow is what makes the three agree after a merge: who sent a packet,    *)
(* that no line is queued twice, and that a queue always has room for a    *)
(* miss.                                                                   *)
(***************************************************************************)
EXTENDS SpecCache_proofs, FiniteSetTheorems

-------------------------------------------------------------------------------
(* The read queues q and the MSHRs ms of a link between u and low *)

(* A request for a that returns to u is in low's read queue. *)
Asks(q, low, u, a) == \E i \in DOMAIN q[low] : q[low][i].addr = a /\ u \in uppers(low, q[low][i])

(* An MSHR of low will return a to u. *)
Tracks(ms, low, u, a) == \E s \in Slots(low) : ms[low][s].addr = a /\ u \in uppers(low, ms[low][s])

(* u has a miss on a that has not been answered. *)
Waits(ms, u, a) == \E s \in Slots(u) : ms[u][s].addr = a /\ ms[u][s].ret = "INFLIGHT"

Link(q, ms, b, u, a) ==
  LET low == lower_level(u)
  IN  IF low \in Caches
      THEN /\ ~(Asks(q, low, u, a) /\ Tracks(ms, low, u, a))
           /\ Waits(ms, u, a) <=> Asks(q, low, u, a) \/ Tracks(ms, low, u, a)
      ELSE Waits(ms, u, a) <=> <<u, a>> \in b

LinksOK(q, ms, b) == \A u \in Caches, a \in Addr : Link(q, ms, b, u, a)

(* A demand request of the core, and the side of the core it comes from. *)
(* An instruction fetch stays speculative on its way down; what is not       *)
(* speculative at the L2C was asked for by the L1D.                          *)
SideOK(c, p) ==
  /\ c = "L1I" => p.spec
  /\ c = "L2C" => p.spec \/ (p.fd /\ "L1D" \in Caches)
Demand(c, p) == p.lvl = 1 /\ p.type # "PREFETCH" /\ SideOK(c, p)
FromCore(c, p) ==
  c \in CoreFacing => /\ p.fi <=> c \in {"L1I", "ITLB"}
                      /\ p.fd <=> c \in {"L1D", "DTLB"}

ReadOK(c, p) == Demand(c, p) /\ FromCore(c, p) /\ (c \notin CoreFacing => uppers(c, p) # {})

Apart(s) == \A i, j \in DOMAIN s : s[i].addr = s[j].addr => i = j

ReadsOK(q) == \A c \in Caches : Apart(q[c]) /\ \A i \in DOMAIN q[c] : ReadOK(c, q[c][i])

WriteOK(c, p) == IF c = "L1D" THEN Demand(c, p) /\ FromCore(c, p) ELSE p.lvl >= level(c)
WritesOK(q) == \A c \in Caches : \A i \in DOMAIN q[c] : WriteOK(c, q[c][i])

TableOK(c, m) == \A s \in DOMAIN m : m[s].addr # 0 => Demand(c, m[s])
TablesOK(ms) == \A c \in Caches : TableOK(c, ms[c])

NoPrefetch(q) == \A c \in Caches : q[c] = << >>

Outside(b) == \A x \in b : lower_level(x[1]) \notin Caches

Flow ==
  /\ LinksOK(RQ, MSHR, below) /\ Outside(below)
  /\ ReadsOK(RQ) /\ WritesOK(WQ) /\ TablesOK(MSHR) /\ NoPrefetch(PQ)

-------------------------------------------------------------------------------
(* Whom a packet is returned to *)

LEMMA UppersAbove ==
  ASSUME NEW c \in Caches, NEW p, p.lvl \in {1, 2, 4, 8}, NEW u \in uppers(c, p)
  PROVE  u \in Caches /\ lower_level(u) = c /\ u # c
<1>1. u \in Caches /\ u \in {upper_level_icache(c), upper_level_dcache(c)} /\ p.lvl < level(c)
  BY DEF uppers
<1>2. c \notin CoreFacing
  <2> SUFFICES ASSUME c \in CoreFacing PROVE FALSE
    OBVIOUS
  <2>1. level(c) = 1
    BY DEF level, CoreFacing
  <2> QED
    BY <1>1, <2>1
<1> QED
  BY <1>1, <1>2, CachesAssumption
     DEF CacheNames, CoreFacing, upper_level_icache, upper_level_dcache, lower_level

LEMMA UppersOfMerge ==
  ASSUME NEW c, NEW e, e.lvl = 1, NEW p, p.lvl = 1, NEW m, m.lvl = 1,
         m.fi = (e.fi \/ p.fi), m.fd = (e.fd \/ p.fd)
  PROVE  uppers(c, m) = uppers(c, e) \cup uppers(c, p)
BY DEF uppers

(* A demand that c sends down comes back to c and to nobody else. *)
LEMMA SentBy ==
  ASSUME NEW c \in Caches, lower_level(c) \in Caches, NEW p, Demand(c, p), FromCore(c, p)
  PROVE  uppers(lower_level(c), p) = {c}
<1>1. CASE c \in CoreFacing
  <2>1. /\ p.fi <=> c \in {"L1I", "ITLB"}
        /\ p.fd <=> c \in {"L1D", "DTLB"}
    BY <1>1 DEF FromCore
  <2>2. lower_level(c) = (IF c \in {"ITLB", "DTLB"} THEN "STLB" ELSE "L2C")
    BY <1>1 DEF CoreFacing, lower_level
  <2> QED
    BY <1>1, <2>1, <2>2
       DEF CoreFacing, uppers, level, upper_level_icache, upper_level_dcache, Demand
<1>2. CASE c \notin CoreFacing
  <2>1. c = "L2C" /\ lower_level(c) = "LLC"
    BY <1>2, CachesAssumption DEF CacheNames, CoreFacing, lower_level
  <2> QED
    BY <2>1 DEF CoreFacing, uppers, level, upper_level_icache, upper_level_dcache, Demand
<1> QED
  BY <1>1, <1>2

LEMMA SlotsAre ==
  ASSUME NEW ms, MshrOK(ms), NEW c \in Caches
  PROVE  /\ Slots(c) = 1 .. MshrSize[c] /\ DOMAIN ms[c] = Slots(c) /\ MshrSize[c] \in Nat
         /\ \A s \in Slots(c) : ms[c][s] \in Entry \cup {FreeEntry}
         /\ Unique(ms[c]) /\ ms[c] \in Table(MshrSize[c])
BY Shape DEF MshrOK, Table, Slots

-------------------------------------------------------------------------------
(* What the operations on the MSHRs do to Waits and Tracks *)

(* The same, with slot s of c left out. *)
WaitsElse(ms, u, a, c, s) ==
  \E t \in Slots(u) : ~(u = c /\ t = s) /\ ms[u][t].addr = a /\ ms[u][t].ret = "INFLIGHT"
TracksElse(ms, low, u, a, c, s) ==
  \E t \in Slots(low) :
    ~(low = c /\ t = s) /\ ms[low][t].addr = a /\ u \in uppers(low, ms[low][t])

(* ms and n are the same but for slot s of cache c. *)
SameBut(ms, n, c, s) ==
  /\ \A d \in Caches : d # c => n[d] = ms[d]
  /\ \A t \in Slots(c) : t # s => n[c][t] = ms[c][t]

LEMMA WaitsSplit ==
  ASSUME NEW ms, NEW n, NEW c \in Caches, NEW s \in Slots(c), SameBut(ms, n, c, s),
         NEW u \in Caches, NEW a
  PROVE  Waits(n, u, a) <=>
           \/ u = c /\ n[c][s].addr = a /\ n[c][s].ret = "INFLIGHT"
           \/ WaitsElse(ms, u, a, c, s)
<1>1. \A t \in Slots(u) : ~(u = c /\ t = s) => n[u][t] = ms[u][t]
  BY DEF SameBut
<1> QED
  BY <1>1 DEF Waits, WaitsElse

LEMMA TracksSplit ==
  ASSUME NEW ms, NEW n, NEW c \in Caches, NEW s \in Slots(c), SameBut(ms, n, c, s),
         NEW l \in Caches, NEW u, NEW a
  PROVE  Tracks(n, l, u, a) <=>
           \/ l = c /\ n[c][s].addr = a /\ u \in uppers(c, n[c][s])
           \/ TracksElse(ms, l, u, a, c, s)
<1>1. \A t \in Slots(l) : ~(l = c /\ t = s) => n[l][t] = ms[l][t]
  BY DEF SameBut
<1> QED
  BY <1>1 DEF Tracks, TracksElse

LEMMA FreeEffect ==
  ASSUME NEW ms, MshrOK(ms), NEW c \in Caches, NEW s \in Slots(c), ms[c][s].ret # "INFLIGHT",
         NEW u \in Caches, NEW a \in Addr
  PROVE  LET n == [ms EXCEPT ![c][s] = FreeEntry]
         IN  /\ Waits(n, u, a) <=> Waits(ms, u, a)
             /\ \A l \in Caches :
                  Tracks(n, l, u, a) <=> Tracks(ms, l, u, a) /\ ~(l = c /\ a = ms[c][s].addr)
<1> DEFINE n == [ms EXCEPT ![c][s] = FreeEntry]
<1>1. DOMAIN ms = Caches /\ DOMAIN ms[c] = Slots(c) /\ Unique(ms[c])
  BY SlotsAre DEF MshrOK
<1>2. SameBut(ms, n, c, s) /\ n[c][s] = FreeEntry
  BY <1>1 DEF SameBut
<1>3. a # 0 /\ FreeEntry.addr = 0 /\ FreeEntry.ret # "INFLIGHT"
  BY AddrAssumption DEF FreeEntry
<1> HIDE DEF n
<1>4. Waits(n, u, a) <=>
        WaitsElse(ms, u, a, c, s)
  BY <1>2, <1>3, WaitsSplit
<1>5. Waits(n, u, a) <=> Waits(ms, u, a)
  BY <1>4 DEF Waits, WaitsElse
<1>6. ASSUME NEW l \in Caches
      PROVE  Tracks(n, l, u, a) <=> Tracks(ms, l, u, a) /\ ~(l = c /\ a = ms[c][s].addr)
  <2>1. Tracks(n, l, u, a) <=>
          TracksElse(ms, l, u, a, c, s)
    BY <1>2, <1>3, TracksSplit
  <2>2. \A t \in Slots(c) : ms[c][t].addr = a /\ a = ms[c][s].addr => t = s
    BY <1>1, <1>3 DEF Unique
  <2> QED
    BY <2>1, <2>2 DEF Tracks, TracksElse
<1> QED
  BY <1>5, <1>6 DEF n

LEMMA AddEffect ==
  ASSUME NEW ms, MshrOK(ms), NEW c \in Caches, NEW p, Request(p),
         NEW r \in {"INFLIGHT", "COMPLETED"},
         free_slots(ms[c]) # {}, NEW u \in Caches, NEW a \in Addr
  PROVE  LET n == [ms EXCEPT ![c] = add_mshr(@, p, r)]
         IN  /\ Waits(n, u, a) <=>
                  Waits(ms, u, a) \/ (u = c /\ a = p.addr /\ r = "INFLIGHT")
             /\ \A l \in Caches :
                  Tracks(n, l, u, a) <=>
                    Tracks(ms, l, u, a) \/ (l = c /\ a = p.addr /\ u \in uppers(c, p))
<1> DEFINE s == First(free_slots(ms[c]))
           n == [ms EXCEPT ![c] = add_mshr(@, p, r)]
<1>1. DOMAIN ms = Caches /\ DOMAIN ms[c] = Slots(c) /\ Slots(c) \subseteq Nat
  BY SlotsAre DEF MshrOK
<1>2. s \in Slots(c) /\ ms[c][s].addr = 0
  <2>1. free_slots(ms[c]) \in SUBSET Nat
    BY <1>1 DEF free_slots
  <2>2. s \in free_slots(ms[c])
    BY <2>1, FirstIsLeast
  <2> QED
    BY <1>1, <2>2 DEF free_slots
<1> HIDE DEF s
<1>3. n[c] = [ms[c] EXCEPT ![s] = entry(p, r)]
  BY <1>1 DEF add_mshr, s
<1>4. SameBut(ms, n, c, s) /\ n[c][s] = entry(p, r)
  BY <1>1, <1>2, <1>3 DEF SameBut
<1> HIDE DEF n
<1>5. /\ entry(p, r).addr = p.addr /\ entry(p, r).ret = r
      /\ uppers(c, entry(p, r)) = uppers(c, p) /\ a # 0
  BY AddrAssumption DEF entry, uppers
<1>6. Waits(n, u, a) <=> Waits(ms, u, a) \/ (u = c /\ a = p.addr /\ r = "INFLIGHT")
  <2>1. Waits(n, u, a) <=>
          \/ u = c /\ n[c][s].addr = a /\ n[c][s].ret = "INFLIGHT"
          \/ WaitsElse(ms, u, a, c, s)
    BY <1>2, <1>4, WaitsSplit
  <2> QED
    BY <1>2, <1>4, <1>5, <2>1 DEF Waits, WaitsElse
<1>7. ASSUME NEW l \in Caches
      PROVE  Tracks(n, l, u, a) <=>
               Tracks(ms, l, u, a) \/ (l = c /\ a = p.addr /\ u \in uppers(c, p))
  <2>1. Tracks(n, l, u, a) <=>
          \/ l = c /\ n[c][s].addr = a /\ u \in uppers(c, n[c][s])
          \/ TracksElse(ms, l, u, a, c, s)
    BY <1>2, <1>4, TracksSplit
  <2> QED
    BY <1>2, <1>4, <1>5, <2>1 DEF Tracks, TracksElse
<1> QED
  BY <1>6, <1>7 DEF n

(* An entry is replaced by one for the same line with the same answer. *)
LEMMA ReplaceEffect ==
  ASSUME NEW ms, NEW n, NEW c \in Caches, NEW s \in Slots(c), SameBut(ms, n, c, s), NEW e, NEW p,
         n[c][s] = e, e.addr = ms[c][s].addr, e.ret = ms[c][s].ret,
         NEW u \in Caches, NEW a \in Addr,
         u \in uppers(c, e) <=> u \in uppers(c, ms[c][s]) \/ u \in uppers(c, p)
  PROVE  /\ Waits(n, u, a) <=> Waits(ms, u, a)
         /\ \A l \in Caches :
              Tracks(n, l, u, a) <=>
                Tracks(ms, l, u, a) \/ (l = c /\ a = e.addr /\ u \in uppers(c, p))
<1>3. Waits(n, u, a) <=> Waits(ms, u, a)
  <2>1. Waits(n, u, a) <=>
          \/ u = c /\ e.addr = a /\ e.ret = "INFLIGHT"
          \/ WaitsElse(ms, u, a, c, s)
    BY WaitsSplit
  <2> QED
    BY <2>1 DEF Waits, WaitsElse
<1>4. ASSUME NEW l \in Caches
      PROVE  Tracks(n, l, u, a) <=> Tracks(ms, l, u, a) \/ (l = c /\ a = e.addr /\ u \in uppers(c, p))
  <2>1. Tracks(n, l, u, a) <=>
          \/ l = c /\ e.addr = a /\ u \in uppers(c, e)
          \/ TracksElse(ms, l, u, a, c, s)
    BY TracksSplit
  <2> QED
    BY <2>1 DEF Tracks, TracksElse
<1> QED
  BY <1>3, <1>4

LEMMA ReturnSlots ==
  ASSUME NEW ms, MshrOK(ms), NEW U, NEW b \in Addr, NEW d \in Caches, NEW t \in Slots(d)
  PROVE  return_data(ms, U, b)[d][t] =
           IF d \in U /\ ms[d][t].addr = b THEN [ms[d][t] EXCEPT !.ret = "COMPLETED"]
           ELSE ms[d][t]
<1> DEFINE n == return_data(ms, U, b)
           s == First(check_mshr(ms[d], b))
<1>1. /\ DOMAIN ms[d] = Slots(d) /\ Unique(ms[d])
      /\ MshrSize[d] \in Nat /\ ms[d] \in Table(MshrSize[d]) /\ Slots(d) = 1 .. MshrSize[d]
  BY SlotsAre
<1>2. b # 0
  BY AddrAssumption
<1>3. CASE d \in U /\ check_mshr(ms[d], b) # {}
  <2>1. s \in Slots(d) /\ ms[d][s].addr = b
    BY <1>1, <1>3, CheckMshrOK
  <2>2. n[d] = [ms[d] EXCEPT ![s].ret = "COMPLETED"]
    BY <1>3 DEF return_data
  <2>3. ms[d][t].addr = b <=> t = s
    BY <1>1, <1>2, <2>1 DEF Unique
  <2> HIDE DEF s, n
  <2>4. CASE t = s
    BY <1>1, <1>3, <2>1, <2>2, <2>3, <2>4 DEF n
  <2>5. CASE t # s
    BY <1>1, <2>2, <2>3, <2>5 DEF n
  <2> QED
    BY <2>4, <2>5
<1>4. CASE ~(d \in U /\ check_mshr(ms[d], b) # {})
  <2>1. n[d] = ms[d]
    BY <1>4 DEF return_data
  <2>2. ~(d \in U /\ ms[d][t].addr = b)
    BY <1>1, <1>4 DEF check_mshr
  <2> HIDE DEF n
  <2> QED
    BY <2>1, <2>2 DEF n
<1> QED
  BY <1>3, <1>4

LEMMA ReturnEffect ==
  ASSUME NEW ms, MshrOK(ms), NEW U, NEW b \in Addr, NEW u \in Caches, NEW a \in Addr
  PROVE  LET n == return_data(ms, U, b)
         IN  /\ Waits(n, u, a) <=> Waits(ms, u, a) /\ ~(u \in U /\ a = b)
             /\ \A l \in Caches : Tracks(n, l, u, a) <=> Tracks(ms, l, u, a)
<1> DEFINE n == return_data(ms, U, b)
<1>1. \A d \in Caches : \A t \in Slots(d) : ms[d][t] \in Entry \cup {FreeEntry}
  BY SlotsAre
<1>2. b # 0
  BY AddrAssumption
<1>3. \A d \in Caches : \A t \in Slots(d) :
        n[d][t] = IF d \in U /\ ms[d][t].addr = b
                  THEN [ms[d][t] EXCEPT !.ret = "COMPLETED"] ELSE ms[d][t]
  BY ReturnSlots
<1> HIDE DEF n
<1>4. ASSUME NEW d \in Caches, NEW t \in Slots(d)
      PROVE  /\ n[d][t].addr = ms[d][t].addr /\ uppers(d, n[d][t]) = uppers(d, ms[d][t])
             /\ n[d][t].ret = IF d \in U /\ ms[d][t].addr = b THEN "COMPLETED" ELSE ms[d][t].ret
  <2>1. CASE ~(d \in U /\ ms[d][t].addr = b)
    BY <1>3, <2>1
  <2>2. CASE d \in U /\ ms[d][t].addr = b
    <3>1. ms[d][t] \in Entry
      BY <1>1, <1>2, <2>2, SlotOK
    <3>2. n[d][t] = [ms[d][t] EXCEPT !.ret = "COMPLETED"]
      BY <1>3, <2>2
    <3>3. /\ n[d][t].addr = ms[d][t].addr /\ n[d][t].ret = "COMPLETED"
          /\ n[d][t].lvl = ms[d][t].lvl /\ n[d][t].fi = ms[d][t].fi /\ n[d][t].fd = ms[d][t].fd
      BY <3>1, <3>2 DEF Entry
    <3> QED
      BY <2>2, <3>3 DEF uppers
  <2> QED
    BY <2>1, <2>2
<1>5. Waits(n, u, a) <=> Waits(ms, u, a) /\ ~(u \in U /\ a = b)
  BY <1>4 DEF Waits, WaitsElse
<1>6. \A l \in Caches : Tracks(n, l, u, a) <=> Tracks(ms, l, u, a)
  BY <1>4 DEF Tracks, TracksElse
<1> QED
  BY <1>5, <1>6 DEF n

-------------------------------------------------------------------------------
(* What the operations on the read queues do to Asks *)

LEMMA TailOf ==
  ASSUME NEW S, NEW s \in Seq(S), s # << >>
  PROVE  /\ DOMAIN s = 1 .. Len(s) /\ Len(s) \in Nat \ {0}
         /\ DOMAIN Tail(s) = 1 .. Len(s) - 1 /\ Head(s) = s[1]
         /\ \A i \in DOMAIN Tail(s) : Tail(s)[i] = s[i + 1]
OBVIOUS

LEMMA PopEffect ==
  ASSUME NEW q, QueuesOK(q), ReadsOK(q), NEW c \in Caches, q[c] # << >>,
         NEW u, NEW a, NEW l \in Caches
  PROVE  /\ Asks([q EXCEPT ![c] = Tail(@)], l, u, a)
              <=> Asks(q, l, u, a) /\ ~(l = c /\ a = Head(q[c]).addr)
         /\ Asks(q, c, u, Head(q[c]).addr) <=> u \in uppers(c, Head(q[c]))
<1> DEFINE n == [q EXCEPT ![c] = Tail(@)]
           s == q[c]
<1>1. DOMAIN q = Caches /\ q[c] \in Seq(Packet)
  BY DEF QueuesOK
<1>2. n[c] = Tail(s) /\ (l # c => n[l] = q[l])
  BY <1>1
<1>3. /\ DOMAIN s = 1 .. Len(s) /\ Len(s) \in Nat \ {0}
      /\ DOMAIN Tail(s) = 1 .. Len(s) - 1 /\ Head(s) = s[1]
      /\ \A i \in DOMAIN Tail(s) : Tail(s)[i] = s[i + 1]
  BY <1>1, TailOf
<1>4. \A i \in DOMAIN s : s[i].addr = s[1].addr => i = 1
  <2>1. 1 \in DOMAIN s
    BY <1>3
  <2> QED
    BY <2>1 DEF ReadsOK, Apart
<1> HIDE DEF n, s
<1>5. Asks(q, c, u, Head(s).addr) <=> u \in uppers(c, Head(s))
  <2>1. 1 \in DOMAIN s
    BY <1>3
  <2> QED
    BY <1>3, <1>4, <2>1 DEF Asks, s
<1>6. ASSUME l = c, Asks(n, l, u, a)
      PROVE  Asks(q, l, u, a) /\ a # Head(s).addr
  <2>1. PICK i \in DOMAIN Tail(s) : Tail(s)[i].addr = a /\ u \in uppers(c, Tail(s)[i])
    BY <1>2, <1>6 DEF Asks
  <2>2. i + 1 \in DOMAIN s /\ s[i + 1].addr = a /\ u \in uppers(c, s[i + 1]) /\ i + 1 # 1
    BY <1>3, <2>1
  <2> QED
    BY <1>3, <1>4, <1>6, <2>2 DEF Asks, s
<1>7. ASSUME l = c, Asks(q, l, u, a), a # Head(s).addr
      PROVE  Asks(n, l, u, a)
  <2>1. PICK i \in DOMAIN s : s[i].addr = a /\ u \in uppers(c, s[i])
    BY <1>7 DEF Asks, s
  <2>2. i # 1
    BY <1>3, <1>7, <2>1
  <2>3. i - 1 \in DOMAIN Tail(s) /\ Tail(s)[i - 1] = s[i]
    BY <1>3, <2>2
  <2> QED
    BY <1>2, <1>7, <2>1, <2>3 DEF Asks
<1>8. l # c => (Asks(n, l, u, a) <=> Asks(q, l, u, a))
  BY <1>2 DEF Asks
<1> QED
  BY <1>5, <1>6, <1>7, <1>8 DEF n, s

LEMMA PopReads ==
  ASSUME NEW q, QueuesOK(q), ReadsOK(q), NEW c \in Caches, q[c] # << >>
  PROVE  ReadsOK([q EXCEPT ![c] = Tail(@)]) /\ ReadOK(c, Head(q[c]))
<1> DEFINE n == [q EXCEPT ![c] = Tail(@)]
           s == q[c]
<1>1. DOMAIN q = Caches /\ q[c] \in Seq(Packet)
  BY DEF QueuesOK
<1>2. n[c] = Tail(s) /\ \A d \in Caches : d # c => n[d] = q[d]
  BY <1>1
<1>3. /\ DOMAIN s = 1 .. Len(s) /\ Len(s) \in Nat \ {0}
      /\ DOMAIN Tail(s) = 1 .. Len(s) - 1 /\ Head(s) = s[1]
      /\ \A i \in DOMAIN Tail(s) : Tail(s)[i] = s[i + 1]
  BY <1>1, TailOf
<1> HIDE DEF n, s
<1>4. Apart(s) /\ \A i \in DOMAIN s : ReadOK(c, s[i])
  BY DEF ReadsOK, s
<1>5. \A i \in DOMAIN Tail(s) : i \in Nat /\ i + 1 \in DOMAIN s
  BY <1>3
<1>6. Apart(Tail(s))
  <2> SUFFICES ASSUME NEW i \in DOMAIN Tail(s), NEW j \in DOMAIN Tail(s),
                      Tail(s)[i].addr = Tail(s)[j].addr
               PROVE  i = j
    BY DEF Apart
  <2>1. s[i + 1].addr = s[j + 1].addr
    BY <1>3
  <2>2. i + 1 = j + 1
    BY <1>4, <1>5, <2>1 DEF Apart
  <2> QED
    BY <1>5, <2>2
<1>7. \A i \in DOMAIN Tail(s) : ReadOK(c, Tail(s)[i])
  BY <1>3, <1>4, <1>5
<1>8. ReadsOK(n)
  BY <1>2, <1>6, <1>7 DEF ReadsOK
<1>9. ReadOK(c, Head(s))
  BY <1>3, <1>4
<1> QED
  BY <1>8, <1>9 DEF n, s

(* The queue has room, or merges the packet into the one for its line. *)
LEMMA RqAddEffect ==
  ASSUME NEW q, QueuesOK(q), ReadsOK(q), NEW c \in Caches, q[c] = RQ[c],
         NEW p \in Packet, ReadOK(c, p), ~rq_forward(c, p),
         rq_duplicate(c, p) # {} \/ Len(RQ[c]) # RqSize[c]
  PROVE  /\ ReadsOK(rq_after_add(q, c, p))
         /\ \A l \in Caches : \A u, a :
              Asks(rq_after_add(q, c, p), l, u, a)
                <=> Asks(q, l, u, a) \/ (l = c /\ a = p.addr /\ u \in uppers(c, p))
<1> DEFINE s == q[c]
           i == First(rq_duplicate(c, p))
           m == merge_flags(s[i], p)
<1>1. DOMAIN q = Caches /\ s \in Seq(Packet)
  BY DEF QueuesOK
<1>2. Apart(s) /\ \A j \in DOMAIN s : ReadOK(c, s[j])
  BY DEF ReadsOK
<1>3. CASE rq_duplicate(c, p) # {}
  <2>1. rq_after_add(q, c, p) = [q EXCEPT ![c][i] = m]
    BY <1>3 DEF rq_after_add
  <2>2. i \in DOMAIN s /\ s[i].addr = p.addr
    <3>1. rq_duplicate(c, p) \in SUBSET Nat
      BY <1>1 DEF rq_duplicate, check_queue
    <3>2. i \in rq_duplicate(c, p)
      BY <1>3, <3>1, FirstIsLeast
    <3> QED
      BY <3>2 DEF rq_duplicate, check_queue
  <2> HIDE DEF i
  <2>3. s[i] \in Packet
    BY <1>1, <2>2
  <2>4. /\ m.addr = s[i].addr /\ m.lvl = s[i].lvl /\ m.type = s[i].type
        /\ m.fi = (s[i].fi \/ p.fi) /\ m.fd = (s[i].fd \/ p.fd) /\ m.spec = s[i].spec
    BY <2>3 DEF merge_flags, Packet
  <2>5. ReadOK(c, s[i])
    BY <1>2, <2>2
  <2> HIDE DEF m
  <2>6. uppers(c, m) = uppers(c, s[i]) \cup uppers(c, p)
    BY <2>4, <2>5, UppersOfMerge DEF ReadOK, Demand
  <2>7. ReadOK(c, m)
    BY <2>4, <2>5, <2>6 DEF ReadOK, Demand, SideOK, FromCore
  <2> DEFINE n == [q EXCEPT ![c][i] = m]
  <2>8. /\ DOMAIN n[c] = DOMAIN s /\ n[c][i] = m
        /\ \A j \in DOMAIN s : j # i => n[c][j] = s[j]
        /\ \A d \in Caches : d # c => n[d] = q[d]
    BY <1>1, <2>2
  <2> HIDE DEF n, s
  <2>9. ReadsOK(n)
    <3>1. Apart(n[c])
      BY <1>2, <2>2, <2>4, <2>8 DEF Apart
    <3>2. \A j \in DOMAIN n[c] : ReadOK(c, n[c][j])
      BY <1>2, <2>7, <2>8
    <3> QED
      BY <2>8, <3>1, <3>2 DEF ReadsOK
  <2>10. ASSUME NEW l \in Caches, NEW u, NEW a
         PROVE  Asks(n, l, u, a)
                  <=> Asks(q, l, u, a) \/ (l = c /\ a = p.addr /\ u \in uppers(c, p))
    <3>1. CASE l # c
      BY <2>8, <3>1 DEF Asks
    <3>2. CASE l = c
      <4>1. Asks(q, c, u, a) <=> \E j \in DOMAIN s : s[j].addr = a /\ u \in uppers(c, s[j])
        BY DEF Asks, s
      <4>2. Asks(n, c, u, a) <=> \E j \in DOMAIN s : n[c][j].addr = a /\ u \in uppers(c, n[c][j])
        BY <2>8 DEF Asks
      <4> QED
        BY <2>2, <2>4, <2>6, <2>8, <3>2, <4>1, <4>2
    <3> QED
      BY <3>1, <3>2
  <2> QED
    BY <2>1, <2>9, <2>10 DEF n
<1>4. CASE rq_duplicate(c, p) = {}
  <2> DEFINE n == [q EXCEPT ![c] = Append(@, p)]
  <2>1. rq_after_add(q, c, p) = n
    BY <1>4 DEF rq_after_add
  <2>2. /\ \A d \in Caches : d # c => n[d] = q[d]
        /\ n[c] = Append(s, p)
    BY <1>1
  <2>3. /\ DOMAIN s = 1 .. Len(s) /\ Len(s) \in Nat
        /\ DOMAIN Append(s, p) = 1 .. Len(s) + 1 /\ Append(s, p)[Len(s) + 1] = p
        /\ \A j \in DOMAIN s : Append(s, p)[j] = s[j]
    BY <1>1
  <2>4. \A j \in DOMAIN s : s[j].addr # p.addr
    BY <1>4 DEF rq_duplicate, check_queue
  <2> DEFINE t == Append(s, p)
             k == Len(s) + 1
  <2>5. DOMAIN t = DOMAIN s \cup {k} /\ k \notin DOMAIN s /\ t[k] = p
    BY <2>3
  <2>6. \A j \in DOMAIN s : t[j] = s[j]
    BY <2>3
  <2> HIDE DEF n, s, t, k
  <2>7. ReadsOK(n)
    <3>1. Apart(t)
      BY <1>2, <2>4, <2>5, <2>6 DEF Apart
    <3>2. \A j \in DOMAIN t : ReadOK(c, t[j])
      BY <1>2, <2>5, <2>6
    <3>3. n[c] = t
      BY <2>2 DEF t
    <3> QED
      BY <2>2, <3>1, <3>2, <3>3 DEF ReadsOK
  <2>8. ASSUME NEW l \in Caches, NEW u, NEW a
        PROVE  Asks(n, l, u, a)
                 <=> Asks(q, l, u, a) \/ (l = c /\ a = p.addr /\ u \in uppers(c, p))
    <3>1. CASE l # c
      BY <2>2, <3>1 DEF Asks
    <3>2. CASE l = c
      <4>1. Asks(q, c, u, a) <=> \E j \in DOMAIN s : s[j].addr = a /\ u \in uppers(c, s[j])
        BY DEF Asks, s
      <4>2. Asks(n, c, u, a) <=> \E j \in DOMAIN t : t[j].addr = a /\ u \in uppers(c, t[j])
        BY <2>2 DEF Asks, t
      <4> QED
        BY <2>5, <2>6, <3>2, <4>1, <4>2
    <3> QED
      BY <3>1, <3>2
  <2> QED
    BY <2>1, <2>7, <2>8
<1> QED
  BY <1>3, <1>4

-------------------------------------------------------------------------------
(* A read queue has room for every miss of the caches above it *)

(* The cache that shares the level below with c. *)
Other(c) == CASE c = "ITLB" -> "DTLB" [] c = "DTLB" -> "ITLB"
              [] c = "L1I" -> "L1D" [] c = "L1D" -> "L1I" [] OTHER -> c

LEMMA OtherIs ==
  ASSUME NEW c \in Caches, lower_level(c) \in Caches
  PROVE  /\ \A u \in Caches : lower_level(u) = lower_level(c) => u \in {c, Other(c)}
         /\ lower_level(Other(c)) = lower_level(c)
         /\ lower_level(c) \notin CoreFacing
BY CachesAssumption DEF CacheNames, CoreFacing, lower_level, Other

(* Every queued read stands for an MSHR of its own in a cache above; c has *)
(* one that is free.                                                       *)
LEMMA RoomForMiss ==
  ASSUME MshrOK(MSHR), QueuesOK(RQ), ReadsOK(RQ), LinksOK(RQ, MSHR, below),
         NEW c \in Caches, lower_level(c) \in Caches, free_slots(MSHR[c]) # {}
  PROVE  Len(RQ[lower_level(c)]) # RqSize[lower_level(c)]
<1> DEFINE low == lower_level(c)
           d   == Other(c)
           m   == MshrSize[c]
           n   == IF d \in Caches /\ d # c THEN MshrSize[d] ELSE 0
           q   == RQ[low]
           k   == Len(q)
<1>1. m \in Nat /\ n \in Nat
  BY Shape
<1>2. RqSize[low] \in Nat /\ RqSize[low] >= m + n
  <2>1. RqSize[low] \in Nat
    BY ShapeAssumption
  <2>2. RqSize[low] >= m
    BY RoomAssumption
  <2>3. d \in Caches /\ d # c => RqSize[low] >= m + MshrSize[d]
    BY RoomAssumption, OtherIs
  <2> QED
    BY <1>1, <2>1, <2>2, <2>3
<1>3. PICK s0 \in Slots(c) : MSHR[c][s0].addr = 0
  BY SlotsAre DEF free_slots
<1>4. q \in Seq(Packet) /\ DOMAIN q = 1 .. k /\ k \in Nat
  BY DEF QueuesOK
<1> DEFINE T == (1 .. m + n) \ {s0}
           At(i, x) == \/ x \in 1 .. m /\ MSHR[c][x].addr = q[i].addr
                       \/ x \notin 1 .. m /\ MSHR[d][x - m].addr = q[i].addr
<1>5. ASSUME NEW i \in 1 .. k
      PROVE  \E x \in T : At(i, x)
  <2> DEFINE a == q[i].addr
  <2>1. a \in Addr /\ a # 0
    <3>1. q[i] \in Packet
      BY <1>4
    <3> QED
      BY <3>1, AddrAssumption DEF Packet
  <2>2. ReadOK(low, q[i])
    BY <1>4 DEF ReadsOK
  <2>3. PICK u : u \in uppers(low, q[i])
    BY <2>2, OtherIs DEF ReadOK
  <2>4. u \in Caches /\ lower_level(u) = low
    BY <2>2, <2>3, UppersAbove DEF ReadOK, Demand
  <2>5. Waits(MSHR, u, a)
    <3>1. Asks(RQ, low, u, a)
      BY <1>4, <2>3 DEF Asks
    <3> HIDE DEF low, a
    <3> QED
      BY <2>1, <2>4, <3>1 DEF LinksOK, Link, low
  <2>6. PICK t \in Slots(u) : MSHR[u][t].addr = a
    BY <2>5 DEF Waits
  <2>7. t \in 1 .. MshrSize[u] /\ MshrSize[u] \in Nat
    BY <2>4, SlotsAre
  <2>8. CASE u = c
    <3>1. t \in 1 .. m /\ t # s0
      BY <1>3, <2>1, <2>6, <2>7, <2>8
    <3> QED
      BY <1>1, <2>6, <2>8, <3>1
  <2>9. CASE u # c
    <3>1. u = d /\ d \in Caches /\ d # c
      BY <2>4, <2>9, OtherIs
    <3>2. n = MshrSize[d]
      BY <3>1
    <3>3. s0 \in 1 .. m
      BY <1>3, SlotsAre
    <3> HIDE DEF d, m, n, a
    <3>4. m + t \in T /\ m + t \notin 1 .. m /\ (m + t) - m = t
      BY <1>1, <2>7, <3>1, <3>2, <3>3
    <3>5. At(i, m + t)
      BY <2>6, <3>1, <3>4 DEF a
    <3> QED
      BY <3>4, <3>5
  <2> QED
    BY <2>8, <2>9
<1> DEFINE f == [i \in 1 .. k |-> CHOOSE x \in T : At(i, x)]
<1>6. f \in [1 .. k -> T] /\ \A i \in 1 .. k : At(i, f[i])
  <2> HIDE DEF T, At
  <2> QED
    BY <1>5
<1>7. f \in Injection(1 .. k, T)
  <2> HIDE DEF f, T
  <2> SUFFICES ASSUME NEW i \in 1 .. k, NEW j \in 1 .. k, f[i] = f[j]
               PROVE  i = j
    <3>1. DOMAIN f = 1 .. k
      BY <1>6
    <3> QED
      BY <1>6, <3>1 DEF Injection, IsInjective
  <2>1. q[i].addr = q[j].addr
    BY <1>6
  <2> QED
    BY <1>4, <2>1 DEF ReadsOK, Apart
<1> HIDE DEF f, At
<1>8. IsFiniteSet(T) /\ Cardinality(T) = m + n - 1
  <2>1. IsFiniteSet(1 .. m + n) /\ Cardinality(1 .. m + n) = m + n /\ s0 \in 1 .. m + n
    <3>1. s0 \in 1 .. m
      BY <1>3, SlotsAre
    <3> HIDE DEF m, n
    <3>2. m + n \in Nat /\ m + n > 0 /\ s0 \in 1 .. m + n
      BY <1>1, <3>1
    <3> QED
      BY <3>2, FS_Interval
  <2> DEFINE S == 1 .. m + n
  <2>2. IsFiniteSet(S) /\ Cardinality(S) = m + n /\ s0 \in S
    BY <2>1
  <2> HIDE DEF m, n, S
  <2>3. /\ IsFiniteSet(S \ {s0})
        /\ Cardinality(S \ {s0}) = IF s0 \in S THEN Cardinality(S) - 1 ELSE Cardinality(S)
    <3>1. IsFiniteSet(S)
      BY <2>2
    <3> QED
      BY ONLY <3>1, FS_RemoveElement, Zenon
  <2>4. T = S \ {s0}
    BY DEF S
  <2> HIDE DEF T
  <2>5. IsFiniteSet(T) /\ Cardinality(T) = Cardinality(S) - 1
    BY <2>2, <2>3, <2>4, Zenon
  <2> QED
    BY <1>1, <2>2, <2>5
<1>9. Cardinality(1 .. k) <= m + n - 1
  <2> HIDE DEF m, n, k, T
  <2> QED
    BY <1>7, <1>8, FS_Injection
<1>10. Cardinality(1 .. k) = k
  <2>1. k \in Nat
    BY <1>4
  <2> HIDE DEF k
  <2>2. 1 \in Int /\ k \in Int
    BY <2>1
  <2>3. Cardinality(1 .. k) = IF 1 > k THEN 0 ELSE k - 1 + 1
    BY <2>2, FS_Interval
  <2> QED
    BY <2>1, <2>3
<1> HIDE DEF k, m, n, low
<1>11. k # RqSize[low]
  BY <1>1, <1>2, <1>4, <1>9, <1>10
<1> QED
  BY <1>11 DEF k, low

-------------------------------------------------------------------------------
(* The MSHRs hold demand requests only *)

LEMMA PutTables ==
  ASSUME NEW ms, TablesOK(ms), NEW n, NEW c \in Caches, NEW s \in Slots(c),
         SameBut(ms, n, c, s), DOMAIN ms[c] = Slots(c), DOMAIN n[c] = Slots(c),
         n[c][s].addr # 0 => Demand(c, n[c][s])
  PROVE  TablesOK(n)
BY DEF TablesOK, TableOK, SameBut

LEMMA FreeTables ==
  ASSUME NEW ms, MshrOK(ms), TablesOK(ms), NEW c \in Caches, NEW s \in Slots(c)
  PROVE  TablesOK([ms EXCEPT ![c][s] = FreeEntry])
<1> DEFINE n == [ms EXCEPT ![c][s] = FreeEntry]
<1>1. DOMAIN ms = Caches /\ DOMAIN ms[c] = Slots(c)
  BY SlotsAre DEF MshrOK
<1>2. SameBut(ms, n, c, s) /\ n[c][s].addr = 0 /\ DOMAIN n[c] = Slots(c)
  BY <1>1 DEF SameBut, FreeEntry
<1> HIDE DEF n
<1>3. TablesOK(n)
  BY <1>1, <1>2, PutTables
<1> QED
  BY <1>3 DEF n

LEMMA DemandEntry ==
  ASSUME NEW c, NEW p, Demand(c, p), NEW r
  PROVE  Demand(c, entry(p, r))
BY DEF Demand, SideOK, entry

LEMMA AddTables ==
  ASSUME NEW ms, MshrOK(ms), TablesOK(ms), NEW c \in Caches, NEW p, Demand(c, p), NEW r
  PROVE  TablesOK([ms EXCEPT ![c] = add_mshr(@, p, r)])
<1> DEFINE n == [ms EXCEPT ![c] = add_mshr(@, p, r)]
           s == First(free_slots(ms[c]))
<1>1. DOMAIN ms = Caches /\ DOMAIN ms[c] = Slots(c) /\ Slots(c) \subseteq Nat
  BY SlotsAre DEF MshrOK
<1>2. CASE free_slots(ms[c]) = {}
  <2>1. \A d \in Caches : n[d] = ms[d]
    BY <1>1, <1>2 DEF add_mshr
  <2> HIDE DEF n
  <2>2. TablesOK(n)
    BY <2>1 DEF TablesOK
  <2> QED
    BY <2>2 DEF n
<1>3. CASE free_slots(ms[c]) # {}
  <2>1. s \in Slots(c)
    <3>1. free_slots(ms[c]) \in SUBSET Nat
      BY <1>1 DEF free_slots
    <3>2. s \in free_slots(ms[c])
      BY <1>3, <3>1, FirstIsLeast
    <3> QED
      BY <1>1, <3>2 DEF free_slots
  <2>2. n[c] = [ms[c] EXCEPT ![s] = entry(p, r)] /\ \A d \in Caches : d # c => n[d] = ms[d]
    BY <1>1, <1>3 DEF add_mshr
  <2> HIDE DEF n, s
  <2>3. SameBut(ms, n, c, s) /\ n[c][s] = entry(p, r) /\ DOMAIN n[c] = Slots(c)
    BY <1>1, <2>1, <2>2 DEF SameBut
  <2>4. TablesOK(n)
    BY <1>1, <2>1, <2>3, PutTables, DemandEntry
  <2> QED
    BY <2>4 DEF n
<1> QED
  BY <1>2, <1>3

LEMMA ReturnTables ==
  ASSUME NEW ms, MshrOK(ms), TablesOK(ms), NEW U, NEW b \in Addr
  PROVE  TablesOK(return_data(ms, U, b))
<1> DEFINE n == return_data(ms, U, b)
<1>1. MshrOK(n)
  BY ReturnOK
<1>2. \A d \in Caches : \A t \in Slots(d) :
        n[d][t] = IF d \in U /\ ms[d][t].addr = b
                  THEN [ms[d][t] EXCEPT !.ret = "COMPLETED"] ELSE ms[d][t]
  BY ReturnSlots
<1> HIDE DEF n
<1>3. ASSUME NEW d \in Caches, NEW t \in Slots(d), n[d][t].addr # 0
      PROVE  Demand(d, n[d][t])
  <2>1. ms[d][t] \in Entry \cup {FreeEntry} /\ DOMAIN ms[d] = Slots(d)
    BY SlotsAre
  <2>2. CASE ~(d \in U /\ ms[d][t].addr = b)
    BY <1>2, <1>3, <2>1, <2>2 DEF TablesOK, TableOK
  <2>3. CASE d \in U /\ ms[d][t].addr = b
    <3>1. ms[d][t] \in Entry /\ ms[d][t].addr # 0
      BY <2>1, <2>3, SlotOK, AddrAssumption
    <3>2. Demand(d, ms[d][t])
      BY <2>1, <3>1 DEF TablesOK, TableOK
    <3>3. n[d][t] = [ms[d][t] EXCEPT !.ret = "COMPLETED"]
      BY <1>2, <2>3
    <3> QED
      BY <3>1, <3>2, <3>3 DEF Demand, SideOK, Entry
  <2> QED
    BY <2>2, <2>3
<1>4. \A d \in Caches : DOMAIN n[d] = Slots(d)
  BY <1>1, SlotsAre
<1>5. TablesOK(n)
  BY <1>3, <1>4 DEF TablesOK, TableOK
<1> QED
  BY <1>5 DEF n

-------------------------------------------------------------------------------
(* The write queues *)

LEMMA PopWrites ==
  ASSUME NEW q, QueuesOK(q), WritesOK(q), NEW c \in Caches, q[c] # << >>
  PROVE  WritesOK([q EXCEPT ![c] = Tail(@)]) /\ WriteOK(c, Head(q[c]))
<1> DEFINE n == [q EXCEPT ![c] = Tail(@)]
           s == q[c]
<1>1. DOMAIN q = Caches /\ q[c] \in Seq(Packet)
  BY DEF QueuesOK
<1>2. n[c] = Tail(s) /\ \A d \in Caches : d # c => n[d] = q[d]
  BY <1>1
<1>3. /\ DOMAIN s = 1 .. Len(s) /\ Len(s) \in Nat \ {0}
      /\ DOMAIN Tail(s) = 1 .. Len(s) - 1 /\ Head(s) = s[1]
      /\ \A i \in DOMAIN Tail(s) : Tail(s)[i] = s[i + 1]
  BY <1>1, TailOf
<1> HIDE DEF n, s
<1>4. \A i \in DOMAIN s : WriteOK(c, s[i])
  BY DEF WritesOK, s
<1>5. \A i \in DOMAIN Tail(s) : i \in Nat /\ i + 1 \in DOMAIN s
  BY <1>3
<1>6. \A i \in DOMAIN Tail(s) : WriteOK(c, Tail(s)[i])
  BY <1>3, <1>4, <1>5
<1>7. WritesOK(n)
  BY <1>2, <1>6 DEF WritesOK
<1>8. WriteOK(c, Head(s))
  BY <1>3, <1>4
<1> QED
  BY <1>7, <1>8 DEF n, s

LEMMA AddWrites ==
  ASSUME NEW q, QueuesOK(q), WritesOK(q), NEW c \in Caches, NEW p \in Packet, WriteOK(c, p)
  PROVE  WritesOK(wq_after_add(q, c, p))
<1>1. CASE wq_index(c, p) # {}
  BY <1>1 DEF wq_after_add
<1>2. CASE wq_index(c, p) = {}
  <2> DEFINE n == [q EXCEPT ![c] = Append(@, p)]
  <2>1. wq_after_add(q, c, p) = n
    BY <1>2 DEF wq_after_add
  <2>2. DOMAIN q = Caches /\ q[c] \in Seq(Packet)
    BY DEF QueuesOK
  <2>3. n[c] = Append(q[c], p) /\ \A d \in Caches : d # c => n[d] = q[d]
    BY <2>2
  <2>4. /\ DOMAIN q[c] = 1 .. Len(q[c]) /\ Len(q[c]) \in Nat
        /\ DOMAIN Append(q[c], p) = 1 .. Len(q[c]) + 1 /\ Append(q[c], p)[Len(q[c]) + 1] = p
        /\ \A j \in DOMAIN q[c] : Append(q[c], p)[j] = q[c][j]
    BY <2>2
  <2> HIDE DEF n
  <2>5. \A i \in DOMAIN n[c] : WriteOK(c, n[c][i])
    BY <2>3, <2>4 DEF WritesOK
  <2> QED
    BY <2>1, <2>3, <2>5 DEF WritesOK
<1> QED
  BY <1>1, <1>2

(* A victim is written with a fill level that nobody above waits for. *)
LEMMA VictimWrite ==
  ASSUME NEW c \in Caches, lower_level(c) \in Caches, NEW v, NEW id
  PROVE  WriteOK(lower_level(c), writeback_packet(c, v, id))
<1>1. lower_level(c) # "L1D" /\ 2 * level(c) >= level(lower_level(c))
  BY CachesAssumption DEF CacheNames, CoreFacing, level, lower_level
<1> QED
  BY <1>1 DEF WriteOK, writeback_packet

LEMMA EvictWrites ==
  ASSUME NEW q, QueuesOK(q), WritesOK(q), NEW c \in Caches, NEW v, NEW id \in Nat,
         v.dirty => v.tag \in Addr
  PROVE  WritesOK(wq_after_evict(q, c, v, id))
<1>1. CASE ~(v.dirty /\ lower_level(c) \in Caches)
  BY <1>1 DEF wq_after_evict
<1>2. CASE v.dirty /\ lower_level(c) \in Caches
  <2>1. writeback_packet(c, v, id) \in Packet
    BY <1>2, LevelType, AddrAssumption DEF writeback_packet, Packet, PacketTypes
  <2> QED
    BY <1>2, <2>1, VictimWrite, AddWrites DEF wq_after_evict
<1> QED
  BY <1>1, <1>2

LEMMA WriteToNobody ==
  ASSUME NEW c \in Caches, NEW p \in Packet, WriteOK(c, p)
  PROVE  uppers(c, p) = {}
<1>1. p.lvl >= level(c)
  BY DEF WriteOK, Demand, level, CoreFacing
<1>2. p.lvl \in Int /\ level(c) \in Int
  BY LevelType DEF Packet
<1> QED
  BY <1>1, <1>2 DEF uppers

-------------------------------------------------------------------------------
(* The links after each kind of step *)

(* Everything the steps below need of IInv. *)
Base == MshrOK(MSHR) /\ QueuesOK(RQ) /\ QueuesOK(WQ) /\ below \subseteq Caches \X Addr

LEMMA TracksSlot ==
  ASSUME NEW ms, MshrOK(ms), NEW c \in Caches, NEW s \in Slots(c), ms[c][s].addr # 0, NEW u
  PROVE  Tracks(ms, c, u, ms[c][s].addr) <=> u \in uppers(c, ms[c][s])
<1>1. DOMAIN ms[c] = Slots(c) /\ Unique(ms[c])
  BY SlotsAre
<1>2. \A t \in Slots(c) : ms[c][t].addr = ms[c][s].addr => t = s
  BY <1>1 DEF Unique
<1> QED
  BY <1>2 DEF Tracks

(* An entry of low, and a packet that low has taken up, return to caches    *)
(* just above low.                                                          *)
LEMMA ReturnsUp ==
  ASSUME NEW c \in Caches, NEW p, p.lvl \in {1, 2, 4, 8}, NEW u, u \in uppers(c, p)
  PROVE  u \in Caches /\ lower_level(u) = c
BY UppersAbove

LEMMA FillLink ==
  ASSUME Base, Flow, NEW c \in Caches, NEW s \in Slots(c), MSHR[c][s].ret = "COMPLETED"
  PROVE  LET n == return_data([MSHR EXCEPT ![c][s] = FreeEntry],
                              uppers(c, MSHR[c][s]), MSHR[c][s].addr)
         IN  LinksOK(RQ, n, below) /\ TablesOK(n)
<1> DEFINE e == MSHR[c][s]
           f == [MSHR EXCEPT ![c][s] = FreeEntry]
           U == uppers(c, e)
           n == return_data(f, U, e.addr)
<1>1. e \in Entry /\ e.addr \in Addr /\ e.addr # 0 /\ e.lvl \in {1, 2, 4, 8} /\ MshrOK(f)
  <2>1. e \in Entry /\ MshrOK(f)
    BY FillMshrOK DEF Base
  <2> QED
    BY <2>1, AddrAssumption DEF Entry
<1>2. TablesOK(f)
  BY FreeTables DEF Base, Flow
<1>3. TablesOK(n)
  BY <1>1, <1>2, ReturnTables
<1>4. ASSUME NEW u \in Caches, NEW a \in Addr
      PROVE  Link(RQ, n, below, u, a)
  <2>1. /\ Waits(f, u, a) <=> Waits(MSHR, u, a)
        /\ \A l \in Caches : Tracks(f, l, u, a) <=> Tracks(MSHR, l, u, a) /\ ~(l = c /\ a = e.addr)
    <3>1. e.ret # "INFLIGHT"
      OBVIOUS
    <3> QED
      BY <3>1, FreeEffect DEF Base
  <2> HIDE DEF f
  <2>2. /\ Waits(n, u, a) <=> Waits(f, u, a) /\ ~(u \in U /\ a = e.addr)
        /\ \A l \in Caches : Tracks(n, l, u, a) <=> Tracks(f, l, u, a)
    BY <1>1, ReturnEffect
  <2>3. Tracks(MSHR, c, u, e.addr) <=> u \in U
    BY <1>1, TracksSlot DEF Base
  <2>4. u \in U => lower_level(u) = c
    BY <1>1, ReturnsUp
  <2>5. Link(RQ, MSHR, below, u, a)
    BY DEF Flow, LinksOK
  <2> HIDE DEF n, U, e
  <2> QED
    BY <2>1, <2>2, <2>3, <2>4, <2>5 DEF Link
<1> QED
  BY <1>3, <1>4 DEF LinksOK

LEMMA RetryLink ==
  ASSUME Base, Flow, NEW c \in Caches, NEW s \in Slots(c), MSHR[c][s].ret = "COMPLETED"
  PROVE  LET n == [MSHR EXCEPT ![c] =
                     add_mshr([@ EXCEPT ![s] = FreeEntry], MSHR[c][s], "COMPLETED")]
         IN  LinksOK(RQ, n, below) /\ TablesOK(n)
<1> DEFINE e == MSHR[c][s]
           f == [MSHR EXCEPT ![c][s] = FreeEntry]
           n == [f EXCEPT ![c] = add_mshr(@, e, "COMPLETED")]
<1>1. e \in Entry /\ e.addr \in Addr /\ e.addr # 0 /\ Request(e) /\ MshrOK(f)
  <2>1. e \in Entry /\ MshrOK(f) /\ Request(e)
    BY FillMshrOK DEF Base
  <2> QED
    BY <2>1, AddrAssumption DEF Entry
<1>2. DOMAIN MSHR = Caches /\ DOMAIN MSHR[c] = Slots(c)
  BY SlotsAre DEF Base, MshrOK
<1>3. [MSHR EXCEPT ![c] = add_mshr([@ EXCEPT ![s] = FreeEntry], e, "COMPLETED")] = n
  BY <1>2
<1>4. free_slots(f[c]) # {}
  <2>1. s \in DOMAIN f[c] /\ f[c][s].addr = 0
    BY <1>2 DEF FreeEntry
  <2> QED
    BY <2>1 DEF free_slots
<1>5. TablesOK(f)
  BY FreeTables DEF Base, Flow
<1>6. Demand(c, e)
  BY <1>1, <1>2 DEF Flow, TablesOK, TableOK
<1> HIDE DEF f
<1>7. TablesOK(n)
  BY <1>1, <1>5, <1>6, AddTables
<1>8. ASSUME NEW u \in Caches, NEW a \in Addr
      PROVE  Link(RQ, n, below, u, a)
  <2>1. /\ Waits(f, u, a) <=> Waits(MSHR, u, a)
        /\ \A l \in Caches : Tracks(f, l, u, a) <=> Tracks(MSHR, l, u, a) /\ ~(l = c /\ a = e.addr)
    <3>1. e.ret # "INFLIGHT"
      OBVIOUS
    <3> QED
      BY <3>1, FreeEffect DEF Base, f
  <2>2. /\ Waits(n, u, a) <=> Waits(f, u, a) \/ (u = c /\ a = e.addr /\ "COMPLETED" = "INFLIGHT")
        /\ \A l \in Caches : Tracks(n, l, u, a) <=>
             Tracks(f, l, u, a) \/ (l = c /\ a = e.addr /\ u \in uppers(c, e))
    <3>1. "COMPLETED" \in {"INFLIGHT", "COMPLETED"}
      OBVIOUS
    <3> HIDE DEF e
    <3> QED
      BY <1>1, <1>4, <3>1, AddEffect, Zenon
  <2>3. Tracks(MSHR, c, u, e.addr) <=> u \in uppers(c, e)
    BY <1>1, TracksSlot DEF Base
  <2>4. Link(RQ, MSHR, below, u, a)
    BY DEF Flow, LinksOK
  <2> HIDE DEF n, e
  <2> QED
    BY <2>1, <2>2, <2>3, <2>4 DEF Link
<1>9. LinksOK(RQ, n, below)
  BY <1>8 DEF LinksOK
<1> HIDE DEF n
<1> QED
  BY <1>3, <1>7, <1>9

(* q is RQ without the request p that c has just taken up. *)
TakenUp(q, c, p) ==
  \A u \in Caches :
    /\ Asks(RQ, c, u, p.addr) <=> u \in uppers(c, p)
    /\ \A a \in Addr, l \in Caches : Asks(q, l, u, a) <=> Asks(RQ, l, u, a) /\ ~(l = c /\ a = p.addr)

LEMMA ReadTakenUp ==
  ASSUME Base, Flow, NEW c \in Caches, RQ[c] # << >>
  PROVE  TakenUp([RQ EXCEPT ![c] = Tail(@)], c, Head(RQ[c]))
BY PopEffect DEF TakenUp, Base, Flow

(* A store is not in a read queue, and nothing above the L1D waits for it. *)
LEMMA StoreTakenUp ==
  ASSUME Base, Flow, "L1D" \in Caches, NEW p \in Packet, WriteOK("L1D", p)
  PROVE  TakenUp(RQ, "L1D", p)
<1>1. uppers("L1D", p) = {}
  BY WriteToNobody
<1>2. ASSUME NEW i \in DOMAIN RQ["L1D"] PROVE uppers("L1D", RQ["L1D"][i]) = {}
  <2>1. ReadOK("L1D", RQ["L1D"][i])
    BY DEF Flow, ReadsOK
  <2> QED
    BY <2>1 DEF ReadOK, Demand, uppers, level, CoreFacing
<1>3. \A u, a : ~Asks(RQ, "L1D", u, a)
  BY <1>2 DEF Asks
<1> QED
  BY <1>1, <1>3 DEF TakenUp

LEMMA HitLink ==
  ASSUME Base, Flow, NEW c \in Caches, NEW p \in Packet, NEW q, TakenUp(q, c, p)
  PROVE  LET n == return_data(MSHR, uppers(c, p), p.addr)
         IN  LinksOK(q, n, below) /\ TablesOK(n)
<1> DEFINE U == uppers(c, p)
           n == return_data(MSHR, U, p.addr)
<1>1. p.addr \in Addr /\ p.lvl \in {1, 2, 4, 8}
  BY DEF Packet
<1>2. TablesOK(n)
  BY <1>1, ReturnTables DEF Base, Flow
<1>3. ASSUME NEW u \in Caches, NEW a \in Addr
      PROVE  Link(q, n, below, u, a)
  <2>1. /\ Waits(n, u, a) <=> Waits(MSHR, u, a) /\ ~(u \in U /\ a = p.addr)
        /\ \A l \in Caches : Tracks(n, l, u, a) <=> Tracks(MSHR, l, u, a)
    BY <1>1, ReturnEffect DEF Base
  <2>2. /\ Asks(RQ, c, u, p.addr) <=> u \in U
        /\ \A l \in Caches : Asks(q, l, u, a) <=> Asks(RQ, l, u, a) /\ ~(l = c /\ a = p.addr)
    BY DEF TakenUp
  <2>3. u \in U => lower_level(u) = c
    BY <1>1, ReturnsUp
  <2>4. Link(RQ, MSHR, below, u, a)
    BY DEF Flow, LinksOK
  <2> HIDE DEF n, U
  <2> QED
    BY <2>1, <2>2, <2>3, <2>4 DEF Link
<1> QED
  BY <1>2, <1>3 DEF LinksOK

(* A demand merged into a demand's entry adds its fill flags and no more. *)
LEMMA MergedEntry ==
  ASSUME NEW c, NEW e \in Entry, Demand(c, e), NEW p \in Packet, Demand(c, p)
  PROVE  /\ merge_demand(e, p).addr = e.addr /\ merge_demand(e, p).ret = e.ret
         /\ Demand(c, merge_demand(e, p))
         /\ merge_demand(e, p).fi = (e.fi \/ p.fi) /\ merge_demand(e, p).fd = (e.fd \/ p.fd)
<1>1. merge_demand(e, p) = merge_prefetch(e, p)
  BY DEF merge_demand, Demand
<1> DEFINE m == merge_flags(e, p)
<1>2. /\ m \in Entry /\ m.addr = e.addr /\ m.ret = e.ret /\ m.lvl = e.lvl /\ m.type = e.type
      /\ m.fi = (e.fi \/ p.fi) /\ m.fd = (e.fd \/ p.fd) /\ m.spec = e.spec
  BY DEF merge_flags, Entry, Packet
<1> HIDE DEF m
<1>3. merge_prefetch(e, p) = [m EXCEPT !.lvl = IF p.lvl < @ THEN p.lvl ELSE @]
  BY DEF merge_prefetch, m
<1>4. p.lvl = 1 /\ m.lvl = 1
  BY <1>2 DEF Demand
<1> QED
  BY <1>1, <1>2, <1>3, <1>4 DEF Demand, SideOK, Entry

LEMMA MergeLink ==
  ASSUME Base, Flow, NEW c \in Caches, NEW p \in Packet, Demand(c, p), NEW q, TakenUp(q, c, p),
         check_mshr(MSHR[c], p.addr) # {}, merge_miss(c, p)
  PROVE  LinksOK(q, MSHR', below) /\ TablesOK(MSHR')
<1> DEFINE s == First(check_mshr(MSHR[c], p.addr))
           e == MSHR[c][s]
           r == merge_demand(e, p)
           n == [MSHR EXCEPT ![c][s] = r]
<1>1. DOMAIN MSHR = Caches /\ DOMAIN MSHR[c] = Slots(c) /\ Slots(c) = 1 .. MshrSize[c]
  BY SlotsAre DEF Base, MshrOK
<1>2. s \in Slots(c) /\ e \in Entry /\ e.addr = p.addr
  BY <1>1, InFlight DEF Base
<1>3. MSHR' = n
  BY <1>1, <1>2 DEF merge_miss
<1>4. p.addr \in Addr /\ p.addr # 0 /\ p.lvl \in {1, 2, 4, 8}
  BY AddrAssumption DEF Packet
<1> HIDE DEF s
<1>5. Demand(c, e)
  BY <1>1, <1>2, <1>4 DEF Flow, TablesOK, TableOK
<1>6. /\ r.addr = e.addr /\ r.ret = e.ret /\ Demand(c, r)
      /\ r.fi = (e.fi \/ p.fi) /\ r.fd = (e.fd \/ p.fd)
  BY <1>2, <1>5, MergedEntry
<1> HIDE DEF r
<1>7. uppers(c, r) = uppers(c, e) \cup uppers(c, p)
  BY <1>5, <1>6, UppersOfMerge DEF Demand
<1>8. SameBut(MSHR, n, c, s) /\ n[c][s] = r /\ DOMAIN n[c] = Slots(c)
  BY <1>1, <1>2 DEF SameBut
<1> HIDE DEF n
<1>9. TablesOK(n)
  BY <1>1, <1>2, <1>6, <1>8, PutTables DEF Flow
<1>10. ASSUME NEW u \in Caches, NEW a \in Addr
       PROVE  Link(q, n, below, u, a)
  <2>1. /\ Waits(n, u, a) <=> Waits(MSHR, u, a)
        /\ \A l \in Caches : Tracks(n, l, u, a) <=>
             Tracks(MSHR, l, u, a) \/ (l = c /\ a = r.addr /\ u \in uppers(c, p))
    <3>1. u \in uppers(c, r) <=> u \in uppers(c, MSHR[c][s]) \/ u \in uppers(c, p)
      BY <1>7
    <3> QED
      BY <1>2, <1>6, <1>8, <3>1, ReplaceEffect
  <2>2. /\ Asks(RQ, c, u, p.addr) <=> u \in uppers(c, p)
        /\ \A l \in Caches : Asks(q, l, u, a) <=> Asks(RQ, l, u, a) /\ ~(l = c /\ a = p.addr)
    BY DEF TakenUp
  <2>3. Link(RQ, MSHR, below, u, a)
    BY DEF Flow, LinksOK
  <2> HIDE DEF e
  <2> QED
    BY <1>2, <1>6, <2>1, <2>2, <2>3 DEF Link
<1> QED
  BY <1>3, <1>9, <1>10 DEF LinksOK

(* The links while the answer to c's new miss is not accounted for: q and n  *)
(* are the queues and MSHRs, ms the MSHRs without c's new entry.             *)
Half(q, n, ms, u, a) ==
  LET low == lower_level(u)
  IN  IF low \in Caches
      THEN /\ ~(Asks(q, low, u, a) /\ Tracks(n, low, u, a))
           /\ Waits(ms, u, a) <=> Asks(q, low, u, a) \/ Tracks(n, low, u, a)
      ELSE Waits(ms, u, a) <=> <<u, a>> \in below

LEMMA MissHalf ==
  ASSUME Base, Flow, NEW c \in Caches, NEW p \in Packet, NEW q, TakenUp(q, c, p),
         check_mshr(MSHR[c], p.addr) = {}, free_slots(MSHR[c]) # {},
         NEW u \in Caches, NEW a \in Addr
  PROVE  LET n == [MSHR EXCEPT ![c] = add_mshr(@, p, "INFLIGHT")]
         IN  /\ Waits(n, u, a) <=> Waits(MSHR, u, a) \/ (u = c /\ a = p.addr)
             /\ u = c /\ a = p.addr => ~Waits(MSHR, u, a)
             /\ Half(q, n, MSHR, u, a)
<1> DEFINE n == [MSHR EXCEPT ![c] = add_mshr(@, p, "INFLIGHT")]
<1>1. /\ Waits(n, u, a) <=> Waits(MSHR, u, a) \/ (u = c /\ a = p.addr /\ "INFLIGHT" = "INFLIGHT")
      /\ \A l \in Caches : Tracks(n, l, u, a) <=>
           Tracks(MSHR, l, u, a) \/ (l = c /\ a = p.addr /\ u \in uppers(c, p))
  <2>1. "INFLIGHT" \in {"INFLIGHT", "COMPLETED"} /\ Request(p) /\ MshrOK(MSHR)
    BY PacketIsRequest DEF Base
  <2> QED
    BY <2>1, AddEffect, Zenon
<1>2. u = c /\ a = p.addr => ~Waits(MSHR, u, a)
  <2>1. DOMAIN MSHR[c] = Slots(c)
    BY SlotsAre DEF Base
  <2> QED
    BY <2>1 DEF Waits, check_mshr
<1>3. /\ Asks(RQ, c, u, p.addr) <=> u \in uppers(c, p)
      /\ \A l \in Caches : Asks(q, l, u, a) <=> Asks(RQ, l, u, a) /\ ~(l = c /\ a = p.addr)
  BY DEF TakenUp
<1>4. Link(RQ, MSHR, below, u, a)
  BY DEF Flow, LinksOK
<1> HIDE DEF n
<1>5. Half(q, n, MSHR, u, a)
  BY <1>1, <1>3, <1>4 DEF Link, Half
<1> QED
  BY <1>1, <1>2, <1>5 DEF n

(* The answer has come at once, from a writeback below or the page table.    *)
LEMMA AnsweredLink ==
  ASSUME Base, NEW c \in Caches, NEW b \in Addr, NEW q, NEW n, MshrOK(n), NEW U, c \in U,
         \A u \in U : u = c,
         \A u \in Caches, a \in Addr :
            /\ Waits(n, u, a) <=> Waits(MSHR, u, a) \/ (u = c /\ a = b)
            /\ u = c /\ a = b => ~Waits(MSHR, u, a)
            /\ Half(q, n, MSHR, u, a)
  PROVE  LinksOK(q, return_data(n, U, b), below)
<1> SUFFICES ASSUME NEW u \in Caches, NEW a \in Addr
             PROVE  Link(q, return_data(n, U, b), below, u, a)
  BY DEF LinksOK
<1> DEFINE m == return_data(n, U, b)
<1>1. /\ Waits(m, u, a) <=> Waits(n, u, a) /\ ~(u \in U /\ a = b)
      /\ \A l \in Caches : Tracks(m, l, u, a) <=> Tracks(n, l, u, a)
  BY ReturnEffect
<1> HIDE DEF m
<1>2. Waits(m, u, a) <=> Waits(MSHR, u, a)
  BY <1>1
<1>3. Half(q, n, MSHR, u, a)
  OBVIOUS
<1>4. Link(q, m, below, u, a)
  BY <1>1, <1>2, <1>3 DEF Link, Half
<1> QED
  BY <1>4 DEF m

LEMMA SideBelow ==
  ASSUME NEW c \in Caches, lower_level(c) \in Caches, NEW p, Demand(c, p), FromCore(c, p)
  PROVE  Demand(lower_level(c), p)
<1>1. lower_level(c) = "L2C" => c \in {"L1I", "L1D"}
  BY CachesAssumption DEF CacheNames, lower_level
<1>2. lower_level(c) # "L1I"
  BY CachesAssumption DEF CacheNames, lower_level
<1>3. c = "L1D" => p.fd
  BY DEF FromCore, CoreFacing
<1> QED
  BY <1>1, <1>2, <1>3 DEF Demand, SideOK

LEMMA MissLink ==
  ASSUME Base, Flow, NEW c \in Caches, NEW p \in Packet, Demand(c, p), FromCore(c, p),
         NEW q, QueuesOK(q), ReadsOK(q), TakenUp(q, c, p),
         \A l \in Caches : l # c => q[l] = RQ[l],
         check_mshr(MSHR[c], p.addr) = {}, free_slots(MSHR[c]) # {}, new_miss(c, p, q)
  PROVE  /\ LinksOK(RQ', MSHR', below') /\ Outside(below')
         /\ ReadsOK(RQ') /\ TablesOK(MSHR')
<1> DEFINE low == lower_level(c)
           b   == p.addr
           n   == [MSHR EXCEPT ![c] = add_mshr(@, p, "INFLIGHT")]
<1>1. b \in Addr
  BY DEF Packet
<1>2. MshrOK(n)
  <2>1. MshrSize[c] \in Nat /\ MSHR[c] \in Table(MshrSize[c]) /\ Unique(MSHR[c])
    BY SlotsAre DEF Base
  <2>2. add_mshr(MSHR[c], p, "INFLIGHT") \in Table(MshrSize[c])
        /\ Unique(add_mshr(MSHR[c], p, "INFLIGHT"))
    BY <2>1, AddMshrOK, PacketIsRequest
  <2> QED
    BY <2>2, MshrExcept DEF Base
<1>3. TablesOK(n)
  BY AddTables DEF Base, Flow
<1>4. \A u \in Caches, a \in Addr :
        /\ Waits(n, u, a) <=> Waits(MSHR, u, a) \/ (u = c /\ a = b)
        /\ u = c /\ a = b => ~Waits(MSHR, u, a)
        /\ Half(q, n, MSHR, u, a)
  BY MissHalf
<1>5. Outside(below)
  BY DEF Flow
<1>6. CASE low \in Caches
  <2>1. /\ RQ' = rq_after_add(q, low, p) /\ below' = below
        /\ MSHR' = IF rq_forward(low, p) THEN return_data(n, uppers(low, p), b) ELSE n
    BY <1>6 DEF new_miss
  <2>2. uppers(low, p) = {c}
    BY <1>6, SentBy
  <2> HIDE DEF n
  <2>3. CASE rq_forward(low, p)
    <3>1. RQ' = q /\ MSHR' = return_data(n, uppers(low, p), b)
      BY <2>1, <2>3 DEF rq_after_add
    <3>2. LinksOK(q, return_data(n, uppers(low, p), b), below)
      BY <1>1, <1>2, <1>4, <2>2, AnsweredLink
    <3>3. TablesOK(return_data(n, uppers(low, p), b))
      BY <1>1, <1>2, <1>3, ReturnTables
    <3> QED
      BY <1>5, <2>1, <3>1, <3>2, <3>3
  <2>4. CASE ~rq_forward(low, p)
    <3> DEFINE r == rq_after_add(q, low, p)
    <3>1. MSHR' = n /\ RQ' = r
      BY <2>1, <2>4
    <3>2. low # c /\ q[low] = RQ[low] /\ low \notin CoreFacing
      BY <1>6, LowerIsOther, OtherIs
    <3>3. ReadOK(low, p)
      BY <1>6, <2>2, <3>2, SideBelow DEF ReadOK, FromCore
    <3>4. Len(RQ[low]) # RqSize[low]
      BY <1>6, RoomForMiss DEF Base, Flow
    <3>5. /\ ReadsOK(r)
          /\ \A l \in Caches : \A u, a :
               Asks(r, l, u, a) <=> Asks(q, l, u, a) \/ (l = low /\ a = b /\ u \in uppers(low, p))
      BY <1>6, <2>4, <3>2, <3>3, <3>4, RqAddEffect
    <3> HIDE DEF r
    <3>6. ASSUME NEW u \in Caches, NEW a \in Addr
          PROVE  Link(r, n, below, u, a)
      <4>1. /\ Waits(n, u, a) <=> Waits(MSHR, u, a) \/ (u = c /\ a = b)
            /\ u = c /\ a = b => ~Waits(MSHR, u, a)
            /\ Half(q, n, MSHR, u, a)
        BY <1>4
      <4>2. \A l \in Caches : Asks(r, l, u, a) <=> Asks(q, l, u, a) \/ (l = low /\ a = b /\ u = c)
        BY <2>2, <3>5
      <4>3. u = c => lower_level(u) = low
        OBVIOUS
      <4> HIDE DEF low, b
      <4> QED
        BY <1>6, <4>1, <4>2, <4>3 DEF Link, Half
    <3> QED
      BY <1>3, <1>5, <2>1, <3>1, <3>5, <3>6 DEF LinksOK
  <2> QED
    BY <2>3, <2>4
<1>7. CASE low \notin Caches /\ c = "STLB"
  <2>1. RQ' = q /\ below' = below /\ MSHR' = return_data(n, {c}, b)
    BY <1>7 DEF new_miss
  <2> HIDE DEF n, b
  <2>2. LinksOK(q, return_data(n, {c}, b), below)
    BY <1>1, <1>2, <1>4, AnsweredLink
  <2>3. TablesOK(return_data(n, {c}, b))
    BY <1>1, <1>2, <1>3, ReturnTables
  <2> QED
    BY <1>5, <2>1, <2>2, <2>3
<1>8. CASE low \notin Caches /\ c # "STLB"
  <2>1. RQ' = q /\ below' = below \cup {<<c, b>>} /\ MSHR' = n
    BY <1>8 DEF new_miss
  <2> HIDE DEF n, b
  <2>2. Outside(below')
    BY <1>5, <1>8, <2>1 DEF Outside
  <2>3. ASSUME NEW u \in Caches, NEW a \in Addr
        PROVE  Link(q, n, below', u, a)
    <3>1. /\ Waits(n, u, a) <=> Waits(MSHR, u, a) \/ (u = c /\ a = b)
          /\ Half(q, n, MSHR, u, a)
      BY <1>4
    <3>2. <<u, a>> \in below' <=> <<u, a>> \in below \/ (u = c /\ a = b)
      BY <2>1
    <3>3. u = c => lower_level(u) \notin Caches
      BY <1>8
    <3> QED
      BY <3>1, <3>2, <3>3 DEF Link, Half
  <2> QED
    BY <1>3, <2>1, <2>2, <2>3 DEF LinksOK
<1> QED
  BY <1>6, <1>7, <1>8

LEMMA BelowLink ==
  ASSUME Base, Flow, NEW c \in Caches, NEW b \in Addr, <<c, b>> \in below
  PROVE  LET n == return_data(MSHR, {c}, b)
             o == below \ {<<c, b>>}
         IN  LinksOK(RQ, n, o) /\ TablesOK(n) /\ Outside(o)
<1> DEFINE n == return_data(MSHR, {c}, b)
           o == below \ {<<c, b>>}
<1>1. TablesOK(n)
  BY ReturnTables DEF Base, Flow
<1>2. Outside(o) /\ lower_level(c) \notin Caches
  BY DEF Flow, Outside
<1>3. ASSUME NEW u \in Caches, NEW a \in Addr
      PROVE  Link(RQ, n, o, u, a)
  <2>1. /\ Waits(n, u, a) <=> Waits(MSHR, u, a) /\ ~(u \in {c} /\ a = b)
        /\ \A l \in Caches : Tracks(n, l, u, a) <=> Tracks(MSHR, l, u, a)
    BY ReturnEffect DEF Base
  <2>2. <<u, a>> \in o <=> <<u, a>> \in below /\ ~(u = c /\ a = b)
    OBVIOUS
  <2>3. Link(RQ, MSHR, below, u, a)
    BY DEF Flow, LinksOK
  <2> HIDE DEF n, o
  <2> QED
    BY <1>2, <2>1, <2>2, <2>3 DEF Link
<1> QED
  BY <1>1, <1>2, <1>3 DEF LinksOK

-------------------------------------------------------------------------------
(* Every action keeps Flow *)

LEMMA BaseOK == ASSUME IInv PROVE Base
BY DEF IInv, Base

LEMMA FillNormalFlow ==
  ASSUME IInv, Flow, NEW c \in Caches, NEW s \in Slots(c), FillNormal(c, s)
  PROVE  Flow'
<1> DEFINE e      == MSHR[c][s]
           set    == get_set(e.addr, NumSet[c])
           way    == lru_victim(block[c][set], NumWay[c])
           victim == block[c][set][way]
<1>1. LinksOK(RQ, MSHR', below) /\ TablesOK(MSHR')
  BY BaseOK, FillLink DEF FillNormal
<1>2. WQ' = wq_after_evict(WQ, c, victim, e.id)
  BY DEF FillNormal
<1>3. e \in Entry
  BY FillMshrOK DEF IInv, FillNormal
<1>4. victim.dirty => victim.tag \in Addr
  <2>1. e.addr \in Addr
    BY <1>3 DEF Entry
  <2>2. SetOK(block[c][set], NumWay[c]) /\ way \in Way(NumWay[c])
    BY <2>1, VictimOK DEF IInv
  <2> QED
    BY <2>2 DEF SetOK
<1>5. e.id \in Nat
  BY <1>3 DEF Entry
<1> HIDE DEF victim, e
<1>6. WritesOK(WQ')
  BY <1>2, <1>4, <1>5, EvictWrites DEF IInv, Flow
<1> QED
  BY <1>1, <1>6 DEF Flow, FillNormal

LEMMA FillSpecFlow ==
  ASSUME IInv, Flow, NEW c \in Caches, NEW s \in Slots(c), FillSpec(c, s) \/ FillSpecRetry(c, s)
  PROVE  Flow'
<1>1. CASE FillSpec(c, s)
  <2>1. LinksOK(RQ, MSHR', below) /\ TablesOK(MSHR')
    BY <1>1, BaseOK, FillLink DEF FillSpec
  <2> QED
    BY <1>1, <2>1 DEF Flow, FillSpec
<1>2. CASE FillSpecRetry(c, s)
  <2>1. LinksOK(RQ, MSHR', below) /\ TablesOK(MSHR')
    BY <1>2, BaseOK, RetryLink DEF FillSpecRetry
  <2> QED
    BY <1>2, <2>1 DEF Flow, FillSpecRetry
<1> QED
  BY <1>1, <1>2

LEMMA ReadHead ==
  ASSUME IInv, Flow, NEW c \in Caches, RQ[c] # << >>
  PROVE  LET q == [RQ EXCEPT ![c] = Tail(@)]
             p == Head(RQ[c])
         IN  /\ p \in Packet /\ Demand(c, p) /\ FromCore(c, p)
             /\ QueuesOK(q) /\ ReadsOK(q) /\ TakenUp(q, c, p)
             /\ \A l \in Caches : l # c => q[l] = RQ[l]
<1>1. TakenUp([RQ EXCEPT ![c] = Tail(@)], c, Head(RQ[c]))
  BY BaseOK, ReadTakenUp
<1>2. Head(RQ[c]) \in Packet /\ QueuesOK([RQ EXCEPT ![c] = Tail(@)])
  BY TailOK DEF IInv
<1>3. ReadsOK([RQ EXCEPT ![c] = Tail(@)]) /\ ReadOK(c, Head(RQ[c]))
  BY PopReads DEF IInv, Flow
<1>4. \A l \in Caches : l # c => [RQ EXCEPT ![c] = Tail(@)][l] = RQ[l]
  BY DEF IInv, QueuesOK
<1> QED
  BY <1>1, <1>2, <1>3, <1>4 DEF ReadOK

LEMMA ReadFlow ==
  ASSUME IInv, Flow, NEW c \in Caches, handle_read(c)
  PROVE  Flow'
<1> DEFINE q == [RQ EXCEPT ![c] = Tail(@)]
           p == Head(RQ[c])
<1>0. RQ[c] # << >>
  BY DEF handle_read, ReadHit, ReadSpecHit, ReadMiss, ReadMerge
<1>1. /\ p \in Packet /\ Demand(c, p) /\ FromCore(c, p)
      /\ QueuesOK(q) /\ ReadsOK(q) /\ TakenUp(q, c, p)
      /\ \A l \in Caches : l # c => q[l] = RQ[l]
  BY <1>0, ReadHead
<1>2. Base
  BY BaseOK
<1>3. CASE ReadHit(c) \/ ReadSpecHit(c)
  <2>1. /\ MSHR' = return_data(MSHR, uppers(c, p), p.addr) /\ RQ' = q
        /\ below' = below /\ WQ' = WQ /\ PQ' = PQ
    BY <1>3 DEF ReadHit, ReadSpecHit
  <2> HIDE DEF p, q
  <2>2. LinksOK(q, MSHR', below) /\ TablesOK(MSHR')
    BY <1>1, <1>2, <2>1, HitLink
  <2> QED
    BY <1>1, <2>1, <2>2 DEF Flow
<1>4. CASE ReadMiss(c)
  <2>1. /\ check_mshr(MSHR[c], p.addr) = {} /\ free_slots(MSHR[c]) # {}
        /\ new_miss(c, p, q) /\ WQ' = WQ /\ PQ' = PQ
    BY <1>4 DEF ReadMiss
  <2> HIDE DEF p, q
  <2>2. LinksOK(RQ', MSHR', below') /\ Outside(below') /\ ReadsOK(RQ') /\ TablesOK(MSHR')
    BY <1>1, <1>2, <2>1, MissLink
  <2> QED
    BY <2>1, <2>2 DEF Flow
<1>5. CASE ReadMerge(c)
  <2>1. /\ check_mshr(MSHR[c], p.addr) # {} /\ merge_miss(c, p) /\ RQ' = q
        /\ below' = below /\ WQ' = WQ /\ PQ' = PQ
    BY <1>5 DEF ReadMerge
  <2> HIDE DEF p, q
  <2>2. LinksOK(q, MSHR', below) /\ TablesOK(MSHR')
    BY <1>1, <1>2, <2>1, MergeLink
  <2> QED
    BY <1>1, <2>1, <2>2 DEF Flow
<1> QED
  BY <1>3, <1>4, <1>5 DEF handle_read

LEMMA ReturnNothing ==
  ASSUME Base, Flow, NEW a \in Addr
  PROVE  LinksOK(RQ, return_data(MSHR, {}, a), below) /\ TablesOK(return_data(MSHR, {}, a))
<1> DEFINE n == return_data(MSHR, {}, a)
<1>1. TablesOK(n)
  BY ReturnTables DEF Base, Flow
<1>2. ASSUME NEW u \in Caches, NEW b \in Addr
      PROVE  Link(RQ, n, below, u, b)
  <2>1. /\ Waits(n, u, b) <=> Waits(MSHR, u, b) /\ ~(u \in {} /\ b = a)
        /\ \A l \in Caches : Tracks(n, l, u, b) <=> Tracks(MSHR, l, u, b)
    BY ReturnEffect DEF Base
  <2>2. Link(RQ, MSHR, below, u, b)
    BY DEF Flow, LinksOK
  <2> HIDE DEF n
  <2> QED
    BY <2>1, <2>2 DEF Link
<1> QED
  BY <1>1, <1>2 DEF LinksOK

LEMMA WriteFlow ==
  ASSUME IInv, Flow, NEW c \in Caches, handle_writeback(c)
  PROVE  Flow'
<1> DEFINE q == [WQ EXCEPT ![c] = Tail(@)]
           p == Head(WQ[c])
<1>0. WQ[c] # << >>
  BY DEF handle_writeback, WriteHit, StoreMiss, StoreMerge, WriteFill
<1>1. p \in Packet /\ p.addr \in Addr /\ p.id \in Nat /\ QueuesOK(q)
  BY <1>0, WqTailOK
<1>2. WritesOK(q) /\ WriteOK(c, p)
  BY <1>0, PopWrites DEF IInv, Flow
<1>3. Base
  BY BaseOK
<1>4. uppers(c, p) = {}
  BY <1>1, <1>2, WriteToNobody
<1>5. CASE WriteHit(c)
  <2>1. /\ MSHR' = return_data(MSHR, uppers(c, p), p.addr) /\ WQ' = q
        /\ below' = below /\ RQ' = RQ /\ PQ' = PQ
    BY <1>5 DEF WriteHit
  <2> HIDE DEF p, q
  <2>2. LinksOK(RQ, MSHR', below) /\ TablesOK(MSHR')
    BY <1>1, <1>3, <1>4, <2>1, ReturnNothing
  <2> QED
    BY <1>2, <2>1, <2>2 DEF Flow
<1>6. CASE StoreMiss(c) \/ StoreMerge(c)
  <2>1. c = "L1D"
    BY <1>6 DEF StoreMiss, StoreMerge
  <2>2. Demand(c, p) /\ FromCore(c, p) /\ TakenUp(RQ, c, p)
    BY <1>1, <1>2, <1>3, <2>1, StoreTakenUp DEF WriteOK
  <2>3. CASE StoreMiss(c)
    <3>1. /\ check_mshr(MSHR[c], p.addr) = {} /\ free_slots(MSHR[c]) # {}
          /\ new_miss(c, p, RQ) /\ WQ' = q /\ PQ' = PQ
      BY <2>3 DEF StoreMiss
    <3> HIDE DEF p, q
    <3>2. QueuesOK(RQ) /\ ReadsOK(RQ)
      BY DEF IInv, Flow
    <3>3. LinksOK(RQ', MSHR', below') /\ Outside(below') /\ ReadsOK(RQ') /\ TablesOK(MSHR')
      BY <1>1, <1>3, <2>2, <3>1, <3>2, MissLink
    <3> QED
      BY <1>2, <3>1, <3>3 DEF Flow
  <2>4. CASE StoreMerge(c)
    <3>1. /\ check_mshr(MSHR[c], p.addr) # {} /\ merge_miss(c, p) /\ WQ' = q
          /\ below' = below /\ RQ' = RQ /\ PQ' = PQ
      BY <2>4 DEF StoreMerge
    <3> HIDE DEF p, q
    <3>2. LinksOK(RQ, MSHR', below) /\ TablesOK(MSHR')
      BY <1>1, <1>3, <2>2, <3>1, MergeLink
    <3> QED
      BY <1>2, <3>1, <3>2 DEF Flow
  <2> QED
    BY <1>6, <2>3, <2>4
<1>7. CASE WriteFill(c)
  <2> DEFINE set    == get_set(p.addr, NumSet[c])
             way    == lru_victim(block[c][set], NumWay[c])
             victim == block[c][set][way]
  <2>1. /\ MSHR' = return_data(MSHR, uppers(c, p), p.addr)
        /\ WQ' = wq_after_evict(q, c, victim, p.id)
        /\ below' = below /\ RQ' = RQ /\ PQ' = PQ
    BY <1>7 DEF WriteFill
  <2>2. victim.dirty => victim.tag \in Addr
    <3>1. SetOK(block[c][set], NumWay[c]) /\ way \in Way(NumWay[c])
      BY <1>1, VictimOK DEF IInv
    <3> QED
      BY <3>1 DEF SetOK
  <2> HIDE DEF p, q, victim
  <2>3. LinksOK(RQ, MSHR', below) /\ TablesOK(MSHR')
    BY <1>1, <1>3, <1>4, <2>1, ReturnNothing
  <2>4. WritesOK(WQ')
    BY <1>1, <1>2, <2>1, <2>2, EvictWrites
  <2> QED
    BY <2>1, <2>3, <2>4 DEF Flow
<1> QED
  BY <1>5, <1>6, <1>7 DEF handle_writeback

LEMMA CpuReadFlow ==
  ASSUME IInv, Flow, NEW c \in Caches, NEW a \in CoreAddr[c], NEW o \in Offsets,
         NEW id \in 1 .. MaxId, CpuRead(c, a, o, id)
  PROVE  Flow'
<1> DEFINE p == read_packet(c, a, o, id)
<1>1. /\ c \in CoreFacing /\ RQ' = rq_after_add(RQ, c, p)
      /\ rq_forward(c, p) \/ rq_duplicate(c, p) # {} \/ Len(RQ[c]) < RqSize[c]
      /\ MSHR' = MSHR /\ below' = below /\ WQ' = WQ /\ PQ' = PQ
  BY DEF CpuRead
<1>2. p \in Packet
  BY ReadPacketOK
<1>3. ReadOK(c, p) /\ p.lvl = 1
  BY <1>1 DEF read_packet, ReadOK, Demand, SideOK, FromCore, CoreFacing
<1> HIDE DEF p
<1>4. uppers(c, p) = {}
  <2>1. level(c) = 1
    BY <1>1 DEF level, CoreFacing
  <2> QED
    BY <1>3, <2>1 DEF uppers
<1>5. CASE rq_forward(c, p)
  BY <1>1, <1>5 DEF rq_after_add, Flow
<1>6. CASE ~rq_forward(c, p)
  <2>1. rq_duplicate(c, p) # {} \/ Len(RQ[c]) # RqSize[c]
    <3>1. Len(RQ[c]) \in Nat /\ RqSize[c] \in Nat
      BY ShapeAssumption DEF IInv, QueuesOK
    <3> QED
      BY <1>1, <1>6, <3>1
  <2> DEFINE r == rq_after_add(RQ, c, p)
  <2>2. /\ ReadsOK(r)
        /\ \A l \in Caches : \A u, b :
             Asks(r, l, u, b) <=> Asks(RQ, l, u, b) \/ (l = c /\ b = p.addr /\ u \in uppers(c, p))
    BY <1>2, <1>3, <1>6, <2>1, RqAddEffect DEF IInv, Flow
  <2> HIDE DEF r
  <2>3. ASSUME NEW u \in Caches, NEW b \in Addr
        PROVE  Link(r, MSHR, below, u, b)
    <3>1. Link(RQ, MSHR, below, u, b)
      BY DEF Flow, LinksOK
    <3>2. \A l \in Caches : Asks(r, l, u, b) <=> Asks(RQ, l, u, b)
      BY <1>4, <2>2
    <3> QED
      BY <3>1, <3>2 DEF Link
  <2> QED
    BY <1>1, <2>2, <2>3 DEF Flow, LinksOK, r
<1> QED
  BY <1>5, <1>6

LEMMA CpuStoreFlow ==
  ASSUME IInv, Flow, NEW a \in CoreAddr["L1D"], NEW o \in Offsets,
         NEW id \in 1 .. MaxId, CpuStore(a, o, id)
  PROVE  Flow'
<1> DEFINE p == [read_packet("L1D", a, o, id) EXCEPT !.type = "RFO"]
<1>1. "L1D" \in Caches /\ WQ' = wq_after_add(WQ, "L1D", p) /\ UNCHANGED <<RQ, MSHR, below, PQ>>
  BY DEF CpuStore
<1>2. p \in Packet
  BY <1>1, ReadPacketOK
<1>3. WriteOK("L1D", p)
  BY DEF read_packet, WriteOK, Demand, SideOK, FromCore
<1> HIDE DEF p
<1>4. WritesOK(WQ')
  BY <1>1, <1>2, <1>3, AddWrites DEF IInv, Flow
<1> QED
  BY <1>1, <1>4 DEF Flow

LEMMA BelowFlow ==
  ASSUME IInv, Flow, NEW c \in Caches, NEW a \in Addr, BelowReturn(c, a)
  PROVE  Flow'
<1>1. LinksOK(RQ, MSHR', below') /\ TablesOK(MSHR') /\ Outside(below')
  BY BaseOK, BelowLink DEF BelowReturn
<1> QED
  BY <1>1 DEF Flow, BelowReturn

LEMMA FlowInit == ASSUME Init PROVE Flow
<1>1. /\ \A c \in Caches : RQ[c] = << >> /\ WQ[c] = << >> /\ PQ[c] = << >>
      /\ below = {}
      /\ \A c \in Caches : MSHR[c] = [s \in Slots(c) |-> FreeEntry]
  BY DEF Init
<1>2. \A c \in Caches : \A s \in Slots(c) : MSHR[c][s] = FreeEntry
  BY <1>1
<1>3. FreeEntry.addr = 0
  BY DEF FreeEntry
<1>4. \A a \in Addr : a # 0
  BY AddrAssumption
<1>5. \A u \in Caches, a \in Addr :
        /\ ~Waits(MSHR, u, a)
        /\ \A l \in Caches : ~Tracks(MSHR, l, u, a) /\ ~Asks(RQ, l, u, a)
  BY <1>1, <1>2, <1>3, <1>4 DEF Waits, Tracks, Asks
<1>6. LinksOK(RQ, MSHR, below)
  BY <1>1, <1>5 DEF LinksOK, Link
<1>7. TablesOK(MSHR)
  BY <1>1, <1>3 DEF TablesOK, TableOK
<1>8. ReadsOK(RQ) /\ WritesOK(WQ) /\ NoPrefetch(PQ) /\ Outside(below)
  BY <1>1 DEF ReadsOK, WritesOK, NoPrefetch, Outside, Apart
<1> QED
  BY <1>6, <1>7, <1>8 DEF Flow

LEMMA FlowStep ==
  ASSUME Prefetchers = {}, IInv, Flow, [Next]_vars
  PROVE  Flow'
<1>1. CASE UNCHANGED <<RQ, WQ, PQ, MSHR, below>>
  BY <1>1 DEF Flow
<1>2. ASSUME NEW c \in Caches, NEW a \in CoreAddr[c], NEW o \in Offsets, NEW id \in 1 .. MaxId,
             CpuRead(c, a, o, id) \/ CpuCommit(c, a, o, id)
      PROVE  Flow'
  BY <1>1, <1>2, CpuReadFlow DEF CpuCommit
<1>3. ASSUME NEW a \in CoreAddr["L1D"], NEW o \in Offsets, NEW id \in 1 .. MaxId,
             CpuStore(a, o, id)
      PROVE  Flow'
  BY <1>3, CpuStoreFlow
<1>4. ASSUME NEW c \in Caches, NEW a \in Addr, NEW lvl \in {1, 2, 4}, IssuePrefetch(c, a, lvl)
      PROVE  Flow'
  BY <1>4 DEF IssuePrefetch
<1>5. ASSUME NEW a \in Addr, SwapOut(a) PROVE Flow'
  BY <1>1, <1>5 DEF SwapOut
<1>6. ASSUME NEW c \in Caches, handle_fill(c) PROVE Flow'
  BY <1>6, FillNormalFlow, FillSpecFlow DEF handle_fill
<1>7. ASSUME NEW c \in Caches, handle_writeback(c) PROVE Flow'
  BY <1>7, WriteFlow
<1>8. ASSUME NEW c \in Caches, handle_read(c) PROVE Flow'
  BY <1>8, ReadFlow
<1>9. ASSUME NEW c \in Caches, commit_blocks(c) PROVE Flow'
  BY <1>1, <1>9 DEF commit_blocks
<1>10. ASSUME NEW c \in Caches, handle_prefetch(c) PROVE Flow'
  <2>1. PQ[c] # << >>
    BY <1>10 DEF handle_prefetch, PrefetchHit, PrefetchMiss, PrefetchMerge
  <2> QED
    BY <2>1 DEF Flow, NoPrefetch
<1>11. ASSUME NEW c \in Caches, UpdateRob(c) PROVE Flow'
  BY <1>1, <1>11 DEF UpdateRob
<1>12. ASSUME NEW c \in Caches, NEW a \in Addr, BelowReturn(c, a) PROVE Flow'
  BY <1>12, BelowFlow
<1>13. CASE Core
  BY <1>13, <1>2, <1>3, <1>4, <1>5 DEF Core
<1>14. ASSUME NEW c \in Caches, operate(c) PROVE Flow'
  BY <1>14, <1>6, <1>7, <1>8, <1>9, <1>10, <1>11, <1>12 DEF operate
<1> QED
  BY <1>1, <1>13, <1>14 DEF Next, vars

LEMMA FlowOK == ASSUME Prefetchers = {} PROVE Spec => [](IInv /\ Flow)
<1>1. Init => IInv /\ Flow
  BY InitOK, FlowInit
<1>2. IInv /\ Flow /\ [Next]_vars => (IInv /\ Flow)'
  BY StepOK, FlowStep
<1> QED
  BY <1>1, <1>2, PTL DEF Spec

-------------------------------------------------------------------------------
(* The theorems *)

LEMMA HoldsIs ==
  ASSUME Flow, NEW u \in Caches, NEW a \in Addr
  PROVE  Owed(u, a) <=> Waits(MSHR, u, a)
<1>1. Link(RQ, MSHR, below, u, a)
  BY DEF Flow, LinksOK
<1>2. ASSUME NEW l \in Caches
      PROVE  Holds(l, u, a) <=> Asks(RQ, l, u, a) \/ Tracks(MSHR, l, u, a)
  <2>1. PQ[l] = << >>
    BY DEF Flow, NoPrefetch
  <2> QED
    BY <2>1 DEF Holds, Asks, Tracks
<1> QED
  BY <1>1, <1>2 DEF Link, Owed

(* In a hierarchy of any size, without prefetchers, return_data's assertion  *)
(* "cannot find a matching entry!" holds: no level answers a request twice,  *)
(* or one that its upper cache did not make, however the requests of the two *)
(* upper caches are merged, forwarded from a writeback or retried.           *)
THEOREM EveryReturnExpected == ASSUME Prefetchers = {} PROVE Spec => []ReturnsAreExpected
<1>1. ASSUME IInv, Flow PROVE ReturnsAreExpected
  BY <1>1, HoldsIs DEF ReturnsAreExpected, Waits
<1> QED
  BY <1>1, FlowOK, PTL

(* No miss is lost on its way down, although handle_read and                 *)
(* handle_writeback do not look at what the lower level's add_rq returns:    *)
(* every cache that waits has a request, or an MSHR, below that will answer  *)
(* it.  A lower level's read queue is never full when a miss reaches it.     *)
THEOREM EveryWaiterServed == ASSUME Prefetchers = {} PROVE Spec => []NoLostWaiter
<1>1. ASSUME IInv, Flow PROVE NoLostWaiter
  <2> SUFFICES ASSUME NEW u \in Caches, NEW s \in Slots(u), MSHR[u][s].ret = "INFLIGHT"
               PROVE  Owed(u, MSHR[u][s].addr)
    BY DEF NoLostWaiter
  <2>1. MSHR[u][s] \in Entry \cup {FreeEntry}
    BY <1>1, SlotsAre DEF IInv
  <2>2. MSHR[u][s].addr \in Addr
    BY <2>1, SlotOK
  <2>3. Waits(MSHR, u, MSHR[u][s].addr)
    BY DEF Waits
  <2> QED
    BY <1>1, <2>2, <2>3, HoldsIs
<1> QED
  BY <1>1, FlowOK, PTL

-------------------------------------------------------------------------------
(* What enters, and what leaves, a normal array *)

Moved(c, s, w) ==
  \/ block'[c][s][w].tag # block[c][s][w].tag
  \/ block'[c][s][w].valid /\ ~block[c][s][w].valid

(* The line a has gone over the LRU victim of its set. *)
Over(c, s, w, a) ==
  /\ block'[c][s][w].tag = a
  /\ s = get_set(a, NumSet[c]) /\ w = lru_victim(block[c][s], NumWay[c])

(* set and new hold the same lines, or new has lost some. *)
SameTags(set, new, n) ==
  \A w \in Way(n) : new[w].tag = set[w].tag /\ (new[w].valid => set[w].valid)

LEMMA SetChange ==
  ASSUME BlocksOK(block), NEW d \in Caches, NEW t \in 0 .. NumSet[d]-1, NEW X,
         block' = [block EXCEPT ![d][t] = X],
         NEW c \in Caches, NEW s \in 0 .. NumSet[c]-1, NEW w, Moved(c, s, w)
  PROVE  c = d /\ s = t /\ block'[c][s] = X
<1>1. c # d => block'[c] = block[c]
  BY DEF BlocksOK
<1>2. c = d /\ s # t => block'[c][s] = block[c][s]
  BY DEF BlocksOK
<1>3. c = d /\ s = t
  BY <1>1, <1>2 DEF Moved
<1> QED
  BY <1>3 DEF BlocksOK

LEMMA TouchTags ==
  ASSUME NEW n \in Nat \ {0}, NEW set, SetOK(set, n), NEW way \in Way(n), NEW p
  PROVE  /\ SameTags(set, touch(set, way, p), n)
         /\ SameTags(set, [touch(set, way, p) EXCEPT ![way].dirty = TRUE], n)
<1>1. \A w \in Way(n) : /\ lru_update(set, way)[w].valid = set[w].valid
                        /\ lru_update(set, way)[w].tag = set[w].tag
  BY UpdateType DEF SetOK
<1> DEFINE u == touch(set, way, p)
<1>2. \A w \in Way(n) : u[w].valid = set[w].valid /\ u[w].tag = set[w].tag
  BY <1>1 DEF touch
<1>3. u \in Sets(n, Addr \cup {0})
  BY TouchOK DEF SetOK
<1> HIDE DEF u
<1>4. \A w \in Way(n) : /\ [u EXCEPT ![way].dirty = TRUE][w].valid = u[w].valid
                        /\ [u EXCEPT ![way].dirty = TRUE][w].tag = u[w].tag
  BY <1>3 DEF Sets
<1> QED
  BY <1>2, <1>4 DEF SameTags, u

LEMMA InvalidateTags ==
  ASSUME NEW n \in Nat \ {0}, NEW set, SetOK(set, n), NEW a
  PROVE  SameTags(set, invalidate_entry(set, a), n)
<1> DEFINE ways == {w \in DOMAIN set : set[w].valid /\ set[w].tag = a}
           f    == First(ways)
<1>1. set \in Sets(n, Addr \cup {0})
  BY DEF SetOK
<1>2. CASE ways = {}
  BY <1>2 DEF invalidate_entry, SameTags
<1>3. CASE ways # {}
  <2>1. invalidate_entry(set, a) = [set EXCEPT ![f].valid = FALSE]
    BY <1>3 DEF invalidate_entry
  <2> HIDE DEF f
  <2>2. \A w \in Way(n) : /\ [set EXCEPT ![f].valid = FALSE][w].tag = set[w].tag
                          /\ [set EXCEPT ![f].valid = FALSE][w].valid => set[w].valid
    BY <1>1 DEF Sets
  <2> QED
    BY <2>1, <2>2 DEF SameTags
<1> QED
  BY <1>2, <1>3

LEMMA FillTags ==
  ASSUME NEW n \in Nat \ {0}, NEW set, SetOK(set, n), NEW old, SameTags(old, set, n),
         NEW way \in Way(n), NEW a, NEW id, NEW d, NEW w \in Way(n)
  PROVE  LET new == fill_cache(set, way, a, id, d)
         IN  IF w = way THEN new[w].tag = a
             ELSE new[w].tag = old[w].tag /\ (new[w].valid => old[w].valid)
<1> DEFINE e   == [valid |-> TRUE, dirty |-> d, tag |-> a, id |-> id, lru |-> set[way].lru]
           new == [set EXCEPT ![way] = e]
<1>1. DOMAIN set = Way(n)
  BY DEF SetOK, Sets
<1>2. e.tag = a
  OBVIOUS
<1> HIDE DEF e
<1>3. new[w] = IF w = way THEN e ELSE set[w]
  BY <1>1
<1>4. fill_cache(set, way, a, id, d) = new
  BY DEF fill_cache, e
<1> HIDE DEF new
<1> QED
  BY <1>2, <1>3, <1>4 DEF SameTags

(* A hit changes no line of its set. *)
LEMMA HitKeeps ==
  ASSUME BlocksOK(block), NEW d \in Caches, NEW p \in Packet, hit_ways(d, p) # {},
         LET set == get_set(p.addr, NumSet[d])
             way == First(hit_ways(d, p))
         IN  \/ block' = [block EXCEPT ![d][set] = touch(@, way, p)]
             \/ block' = [block EXCEPT ![d][set] = [touch(@, way, p) EXCEPT ![way].dirty = TRUE]],
         NEW c \in Caches, NEW s \in 0 .. NumSet[c]-1, NEW w \in Way(NumWay[c])
  PROVE  ~Moved(c, s, w)
<1> DEFINE set == get_set(p.addr, NumSet[d])
           way == First(hit_ways(d, p))
           one == touch(block[d][set], way, p)
           two == [one EXCEPT ![way].dirty = TRUE]
<1>1. set \in 0 .. NumSet[d]-1 /\ SetOK(block[d][set], NumWay[d])
  BY VictimOK DEF Packet
<1>2. way \in Way(NumWay[d])
  BY HitOK
<1>3. SameTags(block[d][set], one, NumWay[d]) /\ SameTags(block[d][set], two, NumWay[d])
  BY <1>1, <1>2, Shape, TouchTags
<1>4. block' = [block EXCEPT ![d][set] = one] \/ block' = [block EXCEPT ![d][set] = two]
  OBVIOUS
<1> HIDE DEF set, way, one, two
<1> SUFFICES ASSUME Moved(c, s, w) PROVE FALSE
  OBVIOUS
<1>5. c = d /\ s = set /\ (block'[c][s] = one \/ block'[c][s] = two)
  BY <1>1, <1>4, SetChange
<1> QED
  BY <1>3, <1>5 DEF Moved, SameTags

(* A fill of the line a changes the victim's way and no other. *)
LEMMA FillMoves ==
  ASSUME BlocksOK(block), NEW d \in Caches, NEW a \in Addr, NEW id, NEW f,
         LET set == get_set(a, NumSet[d])
             way == lru_victim(block[d][set], NumWay[d])
         IN  \/ block' = [block EXCEPT ![d][set] = fill_cache(lru_update(@, way), way, a, id, f)]
             \/ block' = [block EXCEPT ![d][set] = fill_cache(@, way, a, id, f)],
         NEW c \in Caches, NEW s \in 0 .. NumSet[c]-1, NEW w \in Way(NumWay[c]), Moved(c, s, w)
  PROVE  c = d /\ Over(c, s, w, a)
<1> DEFINE set == get_set(a, NumSet[d])
           way == lru_victim(block[d][set], NumWay[d])
           old == block[d][set]
           upd == lru_update(old, way)
           one == fill_cache(upd, way, a, id, f)
           two == fill_cache(old, way, a, id, f)
<1>1. set \in 0 .. NumSet[d]-1 /\ SetOK(old, NumWay[d]) /\ way \in Way(NumWay[d])
  BY VictimOK
<1>2. SetOK(upd, NumWay[d])
  BY <1>1, Shape, UpdateOK
<1>3. SameTags(old, upd, NumWay[d]) /\ SameTags(old, old, NumWay[d])
  BY <1>1, Shape, UpdateType DEF SameTags, SetOK
<1>4. block' = [block EXCEPT ![d][set] = one] \/ block' = [block EXCEPT ![d][set] = two]
  OBVIOUS
<1> HIDE DEF one, two
<1>5. c = d /\ s = set /\ (block'[c][s] = one \/ block'[c][s] = two)
  <2> HIDE DEF set
  <2>1. CASE block' = [block EXCEPT ![d][set] = one]
    BY <1>1, <2>1, SetChange
  <2>2. CASE block' = [block EXCEPT ![d][set] = two]
    BY <1>1, <2>2, SetChange
  <2> QED
    BY <1>4, <2>1, <2>2
<1>6. \A v \in Way(NumWay[d]) :
        IF v = way THEN one[v].tag = a
        ELSE one[v].tag = old[v].tag /\ (one[v].valid => old[v].valid)
  <2> HIDE DEF upd, old, way
  <2> QED
    BY <1>1, <1>2, <1>3, Shape, FillTags DEF one
<1>7. \A v \in Way(NumWay[d]) :
        IF v = way THEN two[v].tag = a
        ELSE two[v].tag = old[v].tag /\ (two[v].valid => old[v].valid)
  <2> HIDE DEF old, way
  <2> QED
    BY <1>1, <1>3, Shape, FillTags DEF two
<1>8. w = way /\ block'[c][s][w].tag = a
  <2>1. block[c][s] = old /\ w \in Way(NumWay[d])
    BY <1>5
  <2> HIDE DEF old, way, set
  <2> QED
    BY <1>5, <1>6, <1>7, <2>1 DEF Moved
<1> QED
  BY <1>5, <1>8 DEF Over

Arrives(c, s, w) ==
  \/ \E t \in Slots(c) : FillNormal(c, t) /\ Over(c, s, w, MSHR[c][t].addr)
  \/ WriteFill(c) /\ Over(c, s, w, Head(WQ[c]).addr)
  \/ commit_blocks(c) /\ Over(c, s, w, Head(CQ[c]).addr)

LEMMA Moves ==
  ASSUME IInv, Next, NEW c \in Caches, NEW s \in 0 .. NumSet[c]-1, NEW w \in Way(NumWay[c]),
         Moved(c, s, w)
  PROVE  Arrives(c, s, w)
<1>0. ASSUME UNCHANGED block PROVE FALSE
  BY <1>0 DEF Moved
<1>1. BlocksOK(block)
  BY DEF IInv
<1>2. ASSUME Core PROVE FALSE
  <2>1. ASSUME NEW d \in Caches, NEW a, NEW o, NEW id,
               CpuRead(d, a, o, id) \/ CpuCommit(d, a, o, id)
        PROVE  FALSE
    BY <1>0, <2>1 DEF CpuRead, CpuCommit, arrays
  <2>2. ASSUME NEW a, NEW o, NEW id, CpuStore(a, o, id) PROVE FALSE
    BY <1>0, <2>2 DEF CpuStore, arrays
  <2>3. ASSUME NEW d \in Caches, NEW a, NEW lvl, IssuePrefetch(d, a, lvl) PROVE FALSE
    BY <1>0, <2>3 DEF IssuePrefetch, arrays
  <2>4. ASSUME NEW a \in Addr, SwapOut(a) PROVE FALSE
    <3> DEFINE set == get_set(a, NumSet[c])
    <3>1. set \in 0 .. NumSet[c]-1 /\ SetOK(block[c][set], NumWay[c])
      BY <1>1, VictimOK
    <3>2. SameTags(block[c][set], invalidate_entry(block[c][set], a), NumWay[c])
      BY <3>1, Shape, InvalidateTags
    <3>3. block'[c] = [block[c] EXCEPT ![set] = invalidate_entry(@, a)]
      BY <2>4 DEF SwapOut
    <3> HIDE DEF set
    <3>4. /\ s # set => block'[c][s] = block[c][s]
          /\ s = set => block'[c][s] = invalidate_entry(block[c][set], a)
      BY <1>1, <3>1, <3>3 DEF BlocksOK
    <3> QED
      BY <3>2, <3>4 DEF Moved, SameTags
  <2> QED
    BY <1>2, <2>1, <2>2, <2>3, <2>4 DEF Core
<1>3. ASSUME NEW d \in Caches, operate(d) PROVE Arrives(c, s, w)
  <2>1. CASE handle_fill(d)
    <3>1. ASSUME NEW t \in Slots(d), FillNormal(d, t) PROVE Arrives(c, s, w)
      <4>1. MSHR[d][t].addr \in Addr
        BY <3>1, FillMshrOK DEF IInv, FillNormal, Entry
      <4>2. c = d /\ Over(c, s, w, MSHR[d][t].addr)
        BY <1>1, <3>1, <4>1, FillMoves DEF FillNormal
      <4> QED
        BY <3>1, <4>2 DEF Arrives
    <3>2. ASSUME NEW t \in Slots(d), FillSpec(d, t) \/ FillSpecRetry(d, t) PROVE FALSE
      BY <1>0, <3>2 DEF FillSpec, FillSpecRetry, arrays
    <3> QED
      BY <2>1, <3>1, <3>2 DEF handle_fill
  <2>2. CASE handle_writeback(d)
    <3>1. CASE WriteHit(d)
      <4>1. Head(WQ[d]) \in Packet
        BY <3>1, WqTailOK DEF WriteHit
      <4> QED
        BY <1>1, <3>1, <4>1, HitKeeps DEF WriteHit
    <3>2. CASE StoreMiss(d) \/ StoreMerge(d)
      BY <1>0, <3>2 DEF StoreMiss, StoreMerge, arrays
    <3>3. CASE WriteFill(d)
      <4>1. Head(WQ[d]).addr \in Addr
        BY <3>3, WqTailOK DEF WriteFill
      <4>2. c = d /\ Over(c, s, w, Head(WQ[d]).addr)
        BY <1>1, <3>3, <4>1, FillMoves DEF WriteFill
      <4> QED
        BY <3>3, <4>2 DEF Arrives
    <3> QED
      BY <2>2, <3>1, <3>2, <3>3 DEF handle_writeback
  <2>3. CASE handle_read(d)
    <3>1. CASE ReadHit(d)
      <4>1. Head(RQ[d]) \in Packet
        BY <3>1, TailOK DEF IInv, ReadHit
      <4> QED
        BY <1>1, <3>1, <4>1, HitKeeps DEF ReadHit
    <3> QED
      BY <1>0, <2>3, <3>1 DEF handle_read, ReadSpecHit, ReadMiss, ReadMerge, arrays
  <2>4. CASE commit_blocks(d)
    <3> DEFINE p    == Head(CQ[d])
               from == spec_block[d][get_set(p.addr, NumSetSpec[d])][First(spec_hit_ways(d, p))]
               set  == get_set(p.addr, NumSet[d])
               to   == lru_victim(block[d][set], NumWay[d])
    <3>1. p \in Packet /\ p.addr \in Addr
      <4>1. p \in Packet
        BY <2>4, TailOK DEF IInv, commit_blocks
      <4> QED
        BY <4>1 DEF Packet
    <3>2. CASE spec_hit_ways(d, p) = {}
      BY <1>0, <2>4, <3>2 DEF commit_blocks, arrays
    <3>3. CASE spec_hit_ways(d, p) # {}
      <4>1. from.tag = p.addr
        BY <3>1, <3>3, SpecHitOK DEF IInv
      <4>2. block' = [block EXCEPT ![d][set] = fill_cache(@, to, from.tag, from.id, FALSE)]
        BY <2>4, <3>3 DEF commit_blocks
      <4> HIDE DEF from
      <4>3. c = d /\ Over(c, s, w, p.addr)
        BY <1>1, <3>1, <4>1, <4>2, FillMoves
      <4> QED
        BY <2>4, <4>3 DEF Arrives
    <3> QED
      BY <3>2, <3>3
  <2>5. CASE handle_prefetch(d)
    <3>1. CASE PrefetchHit(d)
      <4>1. Head(PQ[d]) \in Packet
        BY <3>1, TailOK DEF IInv, PrefetchHit
      <4> QED
        BY <1>1, <3>1, <4>1, HitKeeps DEF PrefetchHit
    <3> QED
      BY <1>0, <2>5, <3>1 DEF handle_prefetch, PrefetchMiss, PrefetchMerge, arrays
  <2>6. CASE UpdateRob(d) \/ \E a \in Addr : BelowReturn(d, a)
    BY <1>0, <2>6 DEF UpdateRob, BelowReturn, arrays
  <2> QED
    BY <1>3, <2>1, <2>2, <2>3, <2>4, <2>5, <2>6 DEF operate
<1> QED
  BY <1>2, <1>3 DEF Next

(* Speculation is isolated in a hierarchy of any size without prefetchers:   *)
(* a line enters the normal array of the L1I or the L2C only by a commit, by *)
(* a writeback from above, or while the L1D waits for it.  An instruction    *)
(* fetch that is merged with a load in the L2C's read queue or MSHRs takes   *)
(* nothing there that the load did not ask for.                              *)
THEOREM FetchesStaySpeculative == ASSUME Prefetchers = {} PROVE Spec => SpeculationIsolated
<1>1. ASSUME IInv, Flow, Next PROVE EntersNormally
  <2> SUFFICES ASSUME NEW c \in {"L1I", "L2C"} \cap Caches, NEW s \in 0 .. NumSet[c]-1,
                      NEW w \in 0 .. NumWay[c]-1, Enters(c, s, w)
               PROVE  \/ CQ[c] # << >> /\ Head(CQ[c]).addr = block'[c][s][w].tag
                      \/ WQ[c] # << >> /\ Head(WQ[c]).addr = block'[c][s][w].tag
                      \/ /\ c = "L2C" /\ "L1D" \in Caches
                         /\ Waits(MSHR, "L1D", block'[c][s][w].tag)
    BY DEF EntersNormally, Waits
  <2>1. Moved(c, s, w)
    BY DEF Enters, Moved
  <2>2. Arrives(c, s, w)
    BY <1>1, <2>1, Moves DEF Way
  <2>3. CASE WriteFill(c) /\ Over(c, s, w, Head(WQ[c]).addr)
    BY <2>3 DEF WriteFill, Over
  <2>4. CASE commit_blocks(c) /\ Over(c, s, w, Head(CQ[c]).addr)
    BY <2>4 DEF commit_blocks, Over
  <2>5. ASSUME NEW t \in Slots(c), FillNormal(c, t), Over(c, s, w, MSHR[c][t].addr)
        PROVE  c = "L2C" /\ "L1D" \in Caches /\ Waits(MSHR, "L1D", block'[c][s][w].tag)
    <3> DEFINE e == MSHR[c][t]
    <3>1. e \in Entry /\ e.addr \in Addr /\ e.addr # 0 /\ e.ret = "COMPLETED" /\ ~e.spec
      <4>1. e \in Entry /\ e.ret = "COMPLETED" /\ ~e.spec
        BY <1>1, <2>5, FillMshrOK DEF IInv, FillNormal
      <4> QED
        BY <4>1, AddrAssumption DEF Entry
    <3>2. MshrOK(MSHR) /\ DOMAIN MSHR[c] = Slots(c)
      BY <1>1, SlotsAre DEF IInv
    <3>3. Demand(c, e)
      BY <1>1, <3>1, <3>2 DEF Flow, TablesOK, TableOK
    <3>4. c = "L2C" /\ "L1D" \in Caches /\ e.fd /\ e.lvl = 1
      BY <3>1, <3>3 DEF Demand, SideOK
    <3>5. "L1D" \in uppers(c, e)
      BY <3>4 DEF uppers, level, CoreFacing, upper_level_dcache
    <3>6. Tracks(MSHR, c, "L1D", e.addr)
      BY <3>1, <3>2, <3>5, TracksSlot
    <3>7. lower_level("L1D") = c
      BY <3>4 DEF lower_level
    <3>8. Waits(MSHR, "L1D", e.addr)
      BY <1>1, <3>1, <3>4, <3>6, <3>7 DEF Flow, LinksOK, Link
    <3> QED
      BY <2>5, <3>4, <3>8 DEF Over
  <2> QED
    BY <2>2, <2>3, <2>4, <2>5 DEF Arrives
<1>2. IInv /\ Flow /\ [Next]_vars => [EntersNormally]_vars
  BY <1>1
<1> QED
  BY <1>2, FlowOK, PTL DEF Spec, SpeculationIsolated

-------------------------------------------------------------------------------
(* Dirty victims *)

(* A packet is in the write queue after wq_after_add, new or as a duplicate. *)
LEMMA Written ==
  ASSUME NEW q, QueuesOK(q), NEW c \in Caches, q[c] = WQ[c], NEW p \in Packet
  PROVE  \E i \in DOMAIN wq_after_add(q, c, p)[c] : wq_after_add(q, c, p)[c][i].addr = p.addr
<1>1. DOMAIN q = Caches /\ q[c] \in Seq(Packet)
  BY DEF QueuesOK
<1>2. CASE wq_index(c, p) # {}
  BY <1>2 DEF wq_after_add, wq_index, check_queue
<1>3. CASE wq_index(c, p) = {}
  <2>1. wq_after_add(q, c, p)[c] = Append(q[c], p)
    BY <1>1, <1>3 DEF wq_after_add
  <2>2. Len(q[c]) + 1 \in DOMAIN Append(q[c], p) /\ Append(q[c], p)[Len(q[c]) + 1] = p
    BY <1>1
  <2> QED
    BY <2>1, <2>2
<1> QED
  BY <1>2, <1>3

LEMMA VictimWritten ==
  ASSUME NEW q, QueuesOK(q), NEW c \in Caches, lower_level(c) \in Caches,
         q[lower_level(c)] = WQ[lower_level(c)], NEW v, v.dirty, v.tag \in Addr, NEW id \in Nat,
         WQ' = wq_after_evict(q, c, v, id)
  PROVE  \E i \in DOMAIN WQ'[lower_level(c)] : WQ'[lower_level(c)][i].addr = v.tag
<1> DEFINE p == writeback_packet(c, v, id)
<1>1. p \in Packet /\ p.addr = v.tag
  BY LevelType, AddrAssumption DEF writeback_packet, Packet, PacketTypes
<1>2. WQ' = wq_after_add(q, lower_level(c), p)
  BY DEF wq_after_evict
<1> HIDE DEF p
<1> QED
  BY <1>1, <1>2, Written

NoCommits == \A c \in Caches : CQ[c] = << >>

LEMMA NoCommitsOK == ASSUME "commit" \notin Kinds PROVE Spec => []NoCommits
<1>1. Init => NoCommits
  BY DEF Init, NoCommits
<1>2. ASSUME NoCommits, [Next]_vars PROVE NoCommits'
  <2>1. ASSUME UNCHANGED CQ PROVE NoCommits'
    BY <1>2, <2>1 DEF NoCommits
  <2>2. CASE Core
    <3>1. ASSUME NEW d \in Caches, NEW a, NEW o, NEW id,
                 CpuRead(d, a, o, id) \/ CpuCommit(d, a, o, id)
          PROVE  NoCommits'
      BY <2>1, <3>1 DEF CpuRead, CpuCommit
    <3>2. ASSUME NEW a, NEW o, NEW id, CpuStore(a, o, id) PROVE NoCommits'
      BY <2>1, <3>2 DEF CpuStore
    <3>3. ASSUME NEW d \in Caches, NEW a, NEW lvl, IssuePrefetch(d, a, lvl) PROVE NoCommits'
      BY <2>1, <3>3 DEF IssuePrefetch
    <3>4. ASSUME NEW a, SwapOut(a) PROVE NoCommits'
      BY <2>1, <3>4 DEF SwapOut
    <3> QED
      BY <2>2, <3>1, <3>2, <3>3, <3>4 DEF Core
  <2>3. ASSUME NEW c \in Caches, operate(c) PROVE NoCommits'
    <3>1. CASE handle_fill(c)
      BY <2>1, <3>1 DEF handle_fill, FillNormal, FillSpec, FillSpecRetry
    <3>2. CASE handle_writeback(c)
      BY <2>1, <3>2 DEF handle_writeback, WriteHit, StoreMiss, StoreMerge, WriteFill
    <3>3. CASE handle_read(c)
      BY <2>1, <3>3 DEF handle_read, ReadHit, ReadSpecHit, ReadMiss, ReadMerge
    <3>4. CASE commit_blocks(c)
      BY <1>2, <3>4 DEF commit_blocks, NoCommits
    <3>5. CASE handle_prefetch(c)
      BY <2>1, <3>5 DEF handle_prefetch, PrefetchHit, PrefetchMiss, PrefetchMerge
    <3>6. CASE UpdateRob(c) \/ \E a \in Addr : BelowReturn(c, a)
      BY <2>1, <3>6 DEF UpdateRob, BelowReturn
    <3> QED
      BY <2>3, <3>1, <3>2, <3>3, <3>4, <3>5, <3>6 DEF operate
  <2> QED
    BY <1>2, <2>1, <2>2, <2>3 DEF Next, vars
<1> QED
  BY <1>1, <1>2, PTL DEF Spec

(* A dirty line leaves a cache only into the write queue below it, whatever  *)
(* reads, stores, prefetches and page swaps do and whichever fill waited for *)
(* room.  Commits are the one exception: commit_blocks overwrites its victim *)
(* without looking at the dirty bit, so the theorem is about runs without.   *)
THEOREM DirtyLinesAreWritten ==
  ASSUME "commit" \notin Kinds PROVE Spec => DirtyVictimWritten
<1>1. ASSUME IInv, NoCommits, Next PROVE LeavesWritten
  <2> SUFFICES ASSUME NEW c \in Caches, NEW s \in 0 .. NumSet[c]-1, NEW w \in 0 .. NumWay[c]-1,
                      block[c][s][w].dirty, block'[c][s][w].tag # block[c][s][w].tag,
                      lower_level(c) \in Caches
               PROVE  \E i \in DOMAIN WQ'[lower_level(c)] :
                        WQ'[lower_level(c)][i].addr = block[c][s][w].tag
    BY DEF LeavesWritten
  <2> DEFINE v == block[c][s][w]
  <2>1. Arrives(c, s, w)
    BY <1>1, Moves DEF Way, Moved
  <2>2. v.tag \in Addr
    BY <1>1 DEF IInv, BlocksOK, SetOK, Way
  <2>3. QueuesOK(WQ)
    BY <1>1 DEF IInv
  <2>4. ASSUME NEW t \in Slots(c), FillNormal(c, t), Over(c, s, w, MSHR[c][t].addr)
        PROVE  \E i \in DOMAIN WQ'[lower_level(c)] : WQ'[lower_level(c)][i].addr = v.tag
    <3>1. MSHR[c][t].id \in Nat
      BY <1>1, <2>4, FillMshrOK DEF IInv, FillNormal, Entry
    <3>2. WQ' = wq_after_evict(WQ, c, v, MSHR[c][t].id)
      BY <2>4 DEF FillNormal, Over
    <3> HIDE DEF v
    <3>3. v.dirty
      BY DEF v
    <3> QED
      BY <2>2, <2>3, <3>1, <3>2, <3>3, VictimWritten
  <2>5. CASE WriteFill(c) /\ Over(c, s, w, Head(WQ[c]).addr)
    <3> DEFINE q == [WQ EXCEPT ![c] = Tail(@)]
    <3>1. Head(WQ[c]).id \in Nat /\ QueuesOK(q)
      BY <1>1, <2>5, WqTailOK DEF WriteFill
    <3>2. q[lower_level(c)] = WQ[lower_level(c)]
      BY <2>3, LowerIsOther DEF QueuesOK
    <3>3. WQ' = wq_after_evict(q, c, v, Head(WQ[c]).id)
      BY <2>5 DEF WriteFill, Over
    <3> HIDE DEF v, q
    <3>4. v.dirty
      BY DEF v
    <3>5. \E i \in DOMAIN WQ'[lower_level(c)] : WQ'[lower_level(c)][i].addr = v.tag
      BY <2>2, <3>1, <3>2, <3>3, <3>4, VictimWritten
    <3> QED
      BY <3>5 DEF v
  <2>6. ~commit_blocks(c)
    BY <1>1 DEF commit_blocks, NoCommits
  <2> QED
    BY <2>1, <2>4, <2>5, <2>6 DEF Arrives
<1>2. IInv /\ NoCommits /\ [Next]_vars => [LeavesWritten]_vars
  BY <1>1
<1> QED
  BY <1>2, InvariantOK, NoCommitsOK, PTL DEF Spec, DirtyVictimWritten
===============================================================================
