-------------------------- MODULE FetchCommit_proofs --------------------------
(***************************************************************************)
(* Why the normal L1I array holds only lines of retired instructions.      *)
(* Every request, speculative block and commit carries the number of an    *)
(* instruction on its line; instructions enter, dispatch and retire in the *)
(* order of their numbers, so a commit's number is that of a retired       *)
(* instruction, and check_hit gives it only a block that is not younger.   *)
(***************************************************************************)
EXTENDS FetchCommit, SpecFlow_proofs

(* The packet p, the block b: brought by one of the first n instructions of *)
(* the trace tr, which is on that line.                                     *)
Of(p, tr, n) == p.id \in 1 .. n /\ tr[p.id] = p.addr
Line(b, tr, n) == b.id \in 1 .. n /\ tr[b.id] = b.tag

(* An instruction fetch. *)
Fetch(p, tr) == p.spec /\ p.type # "PREFETCH" /\ Of(p, tr, Len(tr))

RqInv(q, tr) == \A i \in DOMAIN q["L1I"] : Fetch(q["L1I"][i], tr)
MshrInv(ms, tr) == \A s \in Slots("L1I") : ms["L1I"][s].addr # 0 => Fetch(ms["L1I"][s], tr)
CqInv(q, tr, n) == \A i \in DOMAIN q["L1I"] : Of(q["L1I"][i], tr, n)
SetInv(set, tr, n) == \A w \in DOMAIN set : set[w].valid => Line(set[w], tr, n)
ArrayInv(b, tr, n) == \A s \in DOMAIN b["L1I"] : SetInv(b["L1I"][s], tr, n)

Fetched == [id : Nat, fetched : {"NO", "INFLIGHT", "COMPLETED"}]

(* Instructions are numbered in program order and keep it: the ROB and then *)
(* IFETCH_BUFFER hold the instructions that have not retired.               *)
InOrder(tr, buf, rob, n) ==
  /\ tr \in Seq(Addr) /\ buf \in Seq(Fetched) /\ rob \in Seq(Nat) /\ n \in Nat
  /\ \A i \in 1 .. Len(rob) : rob[i] = n + i
  /\ \A j \in 1 .. Len(buf) : buf[j].id = n + Len(rob) + j
  /\ Len(tr) = n + Len(rob) + Len(buf)

FCInv ==
  /\ IInv
  /\ InOrder(trace, IFETCH_BUFFER, ROB, num_retired)
  /\ RqInv(RQ, trace) /\ MshrInv(MSHR, trace) /\ CqInv(CQ, trace, num_retired)
  /\ ArrayInv(spec_block, trace, Len(trace))
  /\ ArrayInv(block, trace, num_retired)

-------------------------------------------------------------------------------
(* The trace grows, and instructions retire *)

LEMMA OnlyL1I == Caches = {"L1I"} /\ "L1I" \in Caches /\ lower_level("L1I") \notin Caches
BY FrontEndAssumption DEF lower_level

LEMMA Longer ==
  ASSUME NEW tr \in Seq(Addr), NEW a \in Addr, NEW n \in Nat, n <= Len(tr)
  PROVE  /\ \A p : Of(p, tr, n) => Of(p, Append(tr, a), n)
         /\ \A b : Line(b, tr, n) => Line(b, Append(tr, a), n)
         /\ \A p : Fetch(p, tr) => Fetch(p, Append(tr, a))
         /\ \A b : Line(b, tr, Len(tr)) => Line(b, Append(tr, a), Len(Append(tr, a)))
<1>1. /\ Len(tr) \in Nat /\ Len(Append(tr, a)) = Len(tr) + 1
      /\ \A i \in 1 .. Len(tr) : Append(tr, a)[i] = tr[i]
  OBVIOUS
<1> DEFINE t == Append(tr, a)
<1> HIDE DEF t
<1>2. /\ Len(tr) \in Nat /\ Len(t) = Len(tr) + 1
      /\ \A i \in 1 .. Len(tr) : t[i] = tr[i]
  BY <1>1 DEF t
<1>3. 1 .. n \subseteq 1 .. Len(tr) /\ 1 .. Len(tr) \subseteq 1 .. Len(t)
  BY <1>2
<1>4. /\ \A p : Of(p, tr, n) => Of(p, t, n)
      /\ \A b : Line(b, tr, n) => Line(b, t, n)
      /\ \A p : Fetch(p, tr) => Fetch(p, t)
      /\ \A b : Line(b, tr, Len(tr)) => Line(b, t, Len(t))
  BY <1>2, <1>3 DEF Of, Line, Fetch
<1> QED
  BY <1>4 DEF t

LEMMA OneMore ==
  ASSUME NEW tr, NEW n \in Nat
  PROVE  /\ \A p : Of(p, tr, n) => Of(p, tr, n + 1)
         /\ \A b : Line(b, tr, n) => Line(b, tr, n + 1)
BY DEF Of, Line

LEMMA Retired ==
  ASSUME NEW tr, NEW buf, NEW rob, NEW n, InOrder(tr, buf, rob, n)
  PROVE  /\ n \in Nat /\ n <= Len(tr) /\ Len(tr) \in Nat
         /\ rob # << >> => /\ Head(rob) = n + 1 /\ n + 1 \in 1 .. Len(tr)
                           /\ tr[n + 1] \in Addr
<1>1. /\ tr \in Seq(Addr) /\ buf \in Seq(Fetched) /\ rob \in Seq(Nat) /\ n \in Nat
      /\ Len(tr) = n + Len(rob) + Len(buf)
  BY DEF InOrder
<1>2. Len(tr) \in Nat /\ Len(buf) \in Nat /\ Len(rob) \in Nat
  BY <1>1
<1>3. n <= Len(tr)
  BY <1>1, <1>2
<1>4. ASSUME rob # << >>
      PROVE  Head(rob) = n + 1 /\ n + 1 \in 1 .. Len(tr) /\ tr[n + 1] \in Addr
  <2>1. Len(rob) > 0 /\ Head(rob) = rob[1]
    BY <1>1, <1>4
  <2>2. rob[1] = n + 1
    BY <1>2, <2>1 DEF InOrder
  <2>3. n + 1 \in 1 .. Len(tr)
    BY <1>1, <1>2, <2>1
  <2> QED
    BY <1>1, <2>1, <2>2, <2>3
<1> QED
  BY <1>1, <1>2, <1>3, <1>4

-------------------------------------------------------------------------------
(* The stages keep the order *)

LEMMA AppendIs ==
  ASSUME NEW S, NEW s \in Seq(S), NEW e \in S
  PROVE  /\ Append(s, e) \in Seq(S) /\ Len(s) \in Nat /\ Len(Append(s, e)) = Len(s) + 1
         /\ Append(s, e)[Len(s) + 1] = e
         /\ \A j \in 1 .. Len(s) : Append(s, e)[j] = s[j]
OBVIOUS

LEMMA ReadOrder ==
  ASSUME NEW tr, NEW buf, NEW rob, NEW n, InOrder(tr, buf, rob, n), NEW a \in Addr
  PROVE  InOrder(Append(tr, a), Append(buf, [id |-> Len(tr) + 1, fetched |-> "NO"]), rob, n)
<1> DEFINE x == [id |-> Len(tr) + 1, fetched |-> "NO"]
           b == Append(buf, x)
<1>1. /\ tr \in Seq(Addr) /\ buf \in Seq(Fetched) /\ rob \in Seq(Nat) /\ n \in Nat
      /\ \A i \in 1 .. Len(rob) : rob[i] = n + i
      /\ \A j \in 1 .. Len(buf) : buf[j].id = n + Len(rob) + j
      /\ Len(tr) = n + Len(rob) + Len(buf)
  BY DEF InOrder
<1>2. Len(tr) \in Nat /\ Len(buf) \in Nat /\ Len(rob) \in Nat
  BY <1>1
<1>3. x \in Fetched /\ x.id = Len(tr) + 1
  BY <1>2 DEF Fetched
<1> HIDE DEF x
<1>4. Append(tr, a) \in Seq(Addr) /\ Len(Append(tr, a)) = Len(tr) + 1
  BY <1>1, AppendIs
<1>5. /\ b \in Seq(Fetched) /\ Len(b) = Len(buf) + 1 /\ b[Len(buf) + 1] = x
      /\ \A j \in 1 .. Len(buf) : b[j] = buf[j]
  BY <1>1, <1>3, AppendIs
<1> HIDE DEF b
<1>6. ASSUME NEW j \in 1 .. Len(b) PROVE b[j].id = n + Len(rob) + j
  <2>1. CASE j = Len(buf) + 1
    BY <1>1, <1>2, <1>3, <1>5, <2>1
  <2>2. CASE j \in 1 .. Len(buf)
    BY <1>1, <1>5, <2>2
  <2> QED
    BY <1>2, <1>5, <2>1, <2>2
<1> DEFINE tr2 == Append(tr, a)
<1> HIDE DEF tr2
<1>7. Len(tr2) = n + Len(rob) + Len(b)
  <2>1. Len(tr2) = Len(tr) + 1
    BY <1>4 DEF tr2
  <2> QED
    BY <1>1, <1>2, <1>5, <2>1
<1>8. tr2 \in Seq(Addr)
  BY <1>4 DEF tr2
<1>9. InOrder(tr2, b, rob, n)
  BY <1>1, <1>5, <1>6, <1>7, <1>8 DEF InOrder
<1> QED
  BY <1>9 DEF tr2, b, x

LEMMA MarkOrder ==
  ASSUME NEW tr, NEW rob, NEW n, InOrder(tr, IFETCH_BUFFER, rob, n), NEW a,
         NEW f \in {"NO", "INFLIGHT", "COMPLETED"}
  PROVE  InOrder(tr, mark(a, f), rob, n)
<1> DEFINE b == mark(a, f)
<1>1. IFETCH_BUFFER \in Seq(Fetched)
  BY DEF InOrder
<1>2. DOMAIN IFETCH_BUFFER = 1 .. Len(IFETCH_BUFFER) /\ Len(IFETCH_BUFFER) \in Nat
  BY <1>1
<1>3. ASSUME NEW j \in 1 .. Len(IFETCH_BUFFER)
      PROVE  b[j] \in Fetched /\ b[j].id = IFETCH_BUFFER[j].id
  <2>1. IFETCH_BUFFER[j] \in Fetched
    BY <1>1
  <2>2. b[j] = IF line(IFETCH_BUFFER[j].id) = a THEN [IFETCH_BUFFER[j] EXCEPT !.fetched = f]
               ELSE IFETCH_BUFFER[j]
    BY <1>2 DEF mark
  <2> HIDE DEF b
  <2> QED
    BY <2>1, <2>2 DEF Fetched
<1>4. b = [j \in 1 .. Len(IFETCH_BUFFER) |-> b[j]]
  BY <1>2 DEF mark
<1> HIDE DEF b
<1>5. b \in [1 .. Len(IFETCH_BUFFER) -> Fetched]
  BY <1>3, <1>4
<1>6. b \in Seq(Fetched) /\ Len(b) = Len(IFETCH_BUFFER)
  BY <1>2, <1>5
<1> QED
  BY <1>3, <1>6 DEF InOrder, b

LEMMA DispatchOrder ==
  ASSUME NEW tr, NEW buf, NEW rob, NEW n, InOrder(tr, buf, rob, n), buf # << >>
  PROVE  InOrder(tr, Tail(buf), Append(rob, Head(buf).id), n)
<1> DEFINE t == Tail(buf)
           r == Append(rob, Head(buf).id)
<1>1. /\ tr \in Seq(Addr) /\ buf \in Seq(Fetched) /\ rob \in Seq(Nat) /\ n \in Nat
      /\ \A i \in 1 .. Len(rob) : rob[i] = n + i
      /\ \A j \in 1 .. Len(buf) : buf[j].id = n + Len(rob) + j
      /\ Len(tr) = n + Len(rob) + Len(buf)
  BY DEF InOrder
<1>2. /\ DOMAIN buf = 1 .. Len(buf) /\ Len(buf) \in Nat \ {0} /\ Len(rob) \in Nat
      /\ t \in Seq(Fetched) /\ Len(t) = Len(buf) - 1 /\ Head(buf) = buf[1]
      /\ \A i \in 1 .. Len(buf) - 1 : t[i] = buf[i + 1]
  BY <1>1
<1>3. Head(buf).id = n + Len(rob) + 1
  BY <1>1, <1>2
<1>4. /\ r \in Seq(Nat) /\ Len(r) = Len(rob) + 1 /\ r[Len(rob) + 1] = n + (Len(rob) + 1)
      /\ \A i \in 1 .. Len(rob) : r[i] = rob[i]
  <2>1. Head(buf).id \in Nat
    BY <1>1, <1>2, <1>3
  <2> QED
    BY <1>1, <1>2, <1>3, <2>1
<1> HIDE DEF t, r
<1>5. ASSUME NEW i \in 1 .. Len(r) PROVE r[i] = n + i
  <2>1. CASE i = Len(rob) + 1
    BY <1>4, <2>1
  <2>2. CASE i \in 1 .. Len(rob)
    BY <1>1, <1>4, <2>2
  <2> QED
    BY <1>2, <1>4, <2>1, <2>2
<1>6. \A j \in 1 .. Len(t) : t[j].id = n + Len(r) + j
  <2> SUFFICES ASSUME NEW j \in 1 .. Len(t) PROVE t[j].id = n + Len(r) + j
    OBVIOUS
  <2>1. t[j] = buf[j + 1] /\ j + 1 \in 1 .. Len(buf)
    BY <1>2
  <2>2. buf[j + 1].id = n + Len(rob) + (j + 1)
    BY <1>1, <2>1
  <2> QED
    BY <1>1, <1>2, <1>4, <2>1, <2>2
<1>7. Len(tr) = n + Len(r) + Len(t)
  BY <1>1, <1>2, <1>4
<1> QED
  BY <1>1, <1>2, <1>4, <1>5, <1>6, <1>7 DEF InOrder, t, r

LEMMA RetireOrder ==
  ASSUME NEW tr, NEW buf, NEW rob, NEW n, InOrder(tr, buf, rob, n), rob # << >>
  PROVE  InOrder(tr, buf, Tail(rob), n + 1)
<1> DEFINE r == Tail(rob)
<1>1. /\ tr \in Seq(Addr) /\ buf \in Seq(Fetched) /\ rob \in Seq(Nat) /\ n \in Nat
      /\ \A i \in 1 .. Len(rob) : rob[i] = n + i
      /\ \A j \in 1 .. Len(buf) : buf[j].id = n + Len(rob) + j
      /\ Len(tr) = n + Len(rob) + Len(buf)
  BY DEF InOrder
<1>2. /\ Len(rob) \in Nat \ {0} /\ Len(buf) \in Nat
      /\ r \in Seq(Nat) /\ Len(r) = Len(rob) - 1
      /\ \A i \in 1 .. Len(rob) - 1 : r[i] = rob[i + 1]
  BY <1>1
<1> HIDE DEF r
<1>3. \A i \in 1 .. Len(r) : r[i] = (n + 1) + i
  <2> SUFFICES ASSUME NEW i \in 1 .. Len(r) PROVE r[i] = (n + 1) + i
    OBVIOUS
  <2>1. r[i] = rob[i + 1] /\ i + 1 \in 1 .. Len(rob)
    BY <1>2
  <2>2. rob[i + 1] = n + (i + 1)
    BY <1>1, <2>1
  <2> QED
    BY <1>1, <1>2, <2>1, <2>2
<1>4. n + 1 \in Nat /\ (n + 1) + Len(r) = n + Len(rob)
  BY <1>1, <1>2
<1>5. \A j \in 1 .. Len(buf) : buf[j].id = (n + 1) + Len(r) + j
  BY <1>1, <1>4
<1>6. Len(tr) = (n + 1) + Len(r) + Len(buf)
  BY <1>1, <1>4
<1> QED
  BY <1>1, <1>2, <1>3, <1>4, <1>5, <1>6 DEF InOrder, r

-------------------------------------------------------------------------------
(* The steps of the core *)

LEMMA ReadFromTrace == ASSUME FCInv, read_from_trace PROVE FCInv'
<1> DEFINE x == [id |-> Len(trace) + 1, fetched |-> "NO"]
<1>1. PICK a \in CoreAddr["L1I"] : trace' = Append(trace, a)
  BY DEF read_from_trace
<1>2. a \in Addr
  BY <1>1, AddrAssumption, OnlyL1I
<1>3. /\ IFETCH_BUFFER' = Append(IFETCH_BUFFER, x)
      /\ UNCHANGED <<vars, ROB, num_retired>>
  BY DEF read_from_trace
<1> HIDE DEF x
<1>4. InOrder(trace, IFETCH_BUFFER, ROB, num_retired) /\ trace \in Seq(Addr)
  BY DEF FCInv, InOrder
<1>5. InOrder(trace', IFETCH_BUFFER', ROB', num_retired')
  <2>1. InOrder(Append(trace, a), Append(IFETCH_BUFFER, x), ROB, num_retired)
    BY <1>2, <1>4, ReadOrder DEF x
  <2> QED
    BY <1>1, <1>3, <2>1
<1>6. IInv'
  BY <1>3 DEF FCInv, IInv, vars
<1>7. /\ num_retired \in Nat /\ num_retired <= Len(trace)
  BY <1>4, Retired
<1> DEFINE n == num_retired
           t == trace
           u == Append(trace, a)
<1> HIDE DEF n, t, u
<1>8. /\ \A p : Of(p, t, n) => Of(p, u, n)
      /\ \A b : Line(b, t, n) => Line(b, u, n)
      /\ \A p : Fetch(p, t) => Fetch(p, u)
      /\ \A b : Line(b, t, Len(t)) => Line(b, u, Len(u))
  BY <1>2, <1>4, <1>7, Longer DEF n, t, u
<1>9. /\ RqInv(RQ, t) /\ MshrInv(MSHR, t) /\ CqInv(CQ, t, n)
      /\ ArrayInv(spec_block, t, Len(t)) /\ ArrayInv(block, t, n)
  BY DEF FCInv, t, n
<1>10. /\ RqInv(RQ, u) /\ MshrInv(MSHR, u) /\ CqInv(CQ, u, n)
       /\ ArrayInv(spec_block, u, Len(u)) /\ ArrayInv(block, u, n)
  BY <1>8, <1>9 DEF RqInv, MshrInv, CqInv, ArrayInv, SetInv
<1>11. trace' = u /\ num_retired' = n
  BY <1>1, <1>3 DEF u, n
<1>12. UNCHANGED <<RQ, MSHR, CQ, block, spec_block>>
  BY <1>3 DEF vars
<1> QED
  BY <1>5, <1>6, <1>10, <1>11, <1>12 DEF FCInv

(* The instruction numbers of IFETCH_BUFFER are positions of the trace. *)
LEMMA Buffered ==
  ASSUME NEW tr, NEW buf, NEW rob, NEW n, InOrder(tr, buf, rob, n), NEW j \in DOMAIN buf
  PROVE  buf[j].id \in 1 .. Len(tr) /\ buf[j].id \in Nat /\ tr[buf[j].id] \in Addr
<1>1. /\ tr \in Seq(Addr) /\ buf \in Seq(Fetched) /\ rob \in Seq(Nat) /\ n \in Nat
      /\ \A i \in 1 .. Len(buf) : buf[i].id = n + Len(rob) + i
      /\ Len(tr) = n + Len(rob) + Len(buf)
  BY DEF InOrder
<1>2. Len(tr) \in Nat /\ Len(buf) \in Nat /\ Len(rob) \in Nat /\ j \in 1 .. Len(buf)
  BY <1>1
<1>3. buf[j].id = n + Len(rob) + j
  BY <1>1, <1>2
<1>4. buf[j].id \in 1 .. Len(tr) /\ buf[j].id \in Nat
  BY <1>1, <1>2, <1>3
<1> QED
  BY <1>1, <1>4

LEMMA CorePacket ==
  ASSUME NEW a \in Addr, NEW id \in Nat
  PROVE  /\ read_packet("L1I", a, 0, id) \in Packet
         /\ commit_packet("L1I", a, 0, id) \in Packet
         /\ LET p == read_packet("L1I", a, 0, id)
            IN  p.addr = a /\ p.id = id /\ p.spec /\ p.type # "PREFETCH"
         /\ LET p == commit_packet("L1I", a, 0, id) IN p.addr = a /\ p.id = id
<1> DEFINE p == read_packet("L1I", a, 0, id)
<1>1. ASSUME NEW c
      PROVE  LET r == read_packet(c, a, 0, id)
             IN  /\ r \in Packet
                 /\ r.addr = a /\ r.id = id /\ r.type = "LOAD" /\ r.spec = (c = "L1I")
  <2>1. read_packet(c, a, 0, id) \in Packet
    BY AddrAssumption DEF read_packet, Packet, PacketTypes
  <2> QED
    BY <2>1, Zenon DEF read_packet
<1>2. p.addr = a /\ p.id = id /\ p.spec /\ p.type # "PREFETCH"
  BY <1>1
<1>3. p \in Packet
  BY <1>1
<1> HIDE DEF p
<1> DEFINE c == [p EXCEPT !.type = "COMMIT_LOAD", !.spec = TRUE, !.fi = FALSE, !.fd = FALSE]
<1>4. c \in Packet /\ c.addr = a /\ c.id = id
  BY <1>2, <1>3 DEF Packet, PacketTypes
<1> QED
  BY <1>2, <1>3, <1>4 DEF p, commit_packet

(* A merged fetch keeps the number of the first one. *)
LEMMA AddFetch ==
  ASSUME QueuesOK(RQ), "L1I" \in Caches, NEW tr, RqInv(RQ, tr), NEW p \in Packet, Fetch(p, tr)
  PROVE  RqInv(rq_after_add(RQ, "L1I", p), tr)
<1> DEFINE q == RQ["L1I"]
           D == rq_duplicate("L1I", p)
           i == First(D)
           m == [q EXCEPT ![i] = merge_flags(@, p)]
           n == rq_after_add(RQ, "L1I", p)
<1>1. q \in Seq(Packet) /\ DOMAIN RQ = Caches
  BY DEF QueuesOK
<1>2. n["L1I"] \in {q, Append(q, p)} \/ (D # {} /\ n["L1I"] = m)
  BY <1>1 DEF rq_after_add
<1>3. \A k \in DOMAIN q : Fetch(q[k], tr)
  BY DEF RqInv
<1>4. CASE n["L1I"] = q
  BY <1>3, <1>4 DEF RqInv
<1>5. CASE n["L1I"] = Append(q, p)
  <2>1. /\ DOMAIN Append(q, p) = 1 .. Len(q) + 1 /\ DOMAIN q = 1 .. Len(q) /\ Len(q) \in Nat
        /\ \A k \in 1 .. Len(q) : Append(q, p)[k] = q[k]
        /\ Append(q, p)[Len(q) + 1] = p
    BY <1>1
  <2>2. \A k \in DOMAIN Append(q, p) : Fetch(Append(q, p)[k], tr)
    <3> SUFFICES ASSUME NEW k \in DOMAIN Append(q, p) PROVE Fetch(Append(q, p)[k], tr)
      OBVIOUS
    <3>1. CASE k = Len(q) + 1
      BY <2>1, <3>1
    <3>2. CASE k \in 1 .. Len(q)
      BY <1>3, <2>1, <3>2
    <3> QED
      BY <2>1, <3>1, <3>2
  <2> QED
    BY <1>5, <2>2 DEF RqInv
<1>6. CASE D # {} /\ n["L1I"] = m
  <2>1. i \in DOMAIN q
    BY <1>1, <1>6, CheckQueueOK DEF rq_duplicate
  <2> HIDE DEF i
  <2>2. DOMAIN m = DOMAIN q /\ m[i] = merge_flags(q[i], p)
        /\ \A k \in DOMAIN q : k # i => m[k] = q[k]
    BY <2>1
  <2>3. q[i] \in Packet
    BY <1>1, <2>1
  <2>4. Fetch(merge_flags(q[i], p), tr)
    BY <1>3, <2>1, <2>3 DEF merge_flags, Fetch, Of, Packet
  <2>5. \A k \in DOMAIN m : Fetch(m[k], tr)
    BY <1>3, <2>2, <2>4
  <2> QED
    BY <1>6, <2>5 DEF RqInv
<1> QED
  BY <1>2, <1>4, <1>5, <1>6

LEMMA FetchInstruction == ASSUME FCInv, fetch_instruction PROVE FCInv'
<1>1. PICK j \in Unfetched :
        /\ RQ' = rq_after_add(RQ, "L1I", fetch_packet(j))
        /\ IFETCH_BUFFER' = mark(fetch_packet(j).addr, "INFLIGHT")
        /\ UNCHANGED <<arrays, WQ, PQ, CQ, MSHR, PROCESSED, below, answered, issued,
                       trace, ROB, num_retired>>
  BY DEF fetch_instruction
<1> DEFINE p == fetch_packet(j)
           id == IFETCH_BUFFER[j].id
<1>2. InOrder(trace, IFETCH_BUFFER, ROB, num_retired)
  BY DEF FCInv
<1>3. id \in 1 .. Len(trace) /\ id \in Nat /\ trace[id] \in Addr
  BY <1>2, Buffered DEF Unfetched
<1> HIDE DEF id
<1>4. p = read_packet("L1I", trace[id], 0, id)
  BY DEF fetch_packet, line, id
<1>5. p \in Packet /\ Fetch(p, trace)
  BY <1>3, <1>4, CorePacket DEF Fetch, Of
<1> HIDE DEF p
<1>6. QueuesOK(RQ') /\ RqInv(RQ', trace)
  <2>1. QueuesOK(RQ) /\ RqInv(RQ, trace)
    BY DEF FCInv, IInv
  <2>2. RQ' = rq_after_add(RQ, "L1I", p)
    BY <1>1 DEF p
  <2> QED
    BY <1>5, <2>1, <2>2, RqAddOK, AddFetch, OnlyL1I
<1>7. InOrder(trace, IFETCH_BUFFER', ROB, num_retired)
  BY <1>1, <1>2, MarkOrder
<1>8. IInv'
  BY <1>1, <1>6 DEF FCInv, IInv, arrays
<1> QED
  BY <1>1, <1>6, <1>7, <1>8 DEF FCInv, arrays

LEMMA CompleteInstrFetch == ASSUME FCInv, complete_instr_fetch PROVE FCInv'
<1>1. IInv'
  BY UpdateRobOK, OnlyL1I DEF FCInv, complete_instr_fetch
<1>2. InOrder(trace, IFETCH_BUFFER', ROB, num_retired)
  BY MarkOrder DEF FCInv, complete_instr_fetch
<1>3. UNCHANGED <<block, spec_block, RQ, MSHR, CQ, trace, ROB, num_retired>>
  BY DEF complete_instr_fetch, UpdateRob, arrays
<1> QED
  BY <1>1, <1>2, <1>3 DEF FCInv

LEMMA DecodeAndDispatch == ASSUME FCInv, decode_and_dispatch PROVE FCInv'
<1>1. IInv'
  BY DEF FCInv, IInv, vars, decode_and_dispatch
<1>2. InOrder(trace, IFETCH_BUFFER', ROB', num_retired)
  BY DispatchOrder DEF FCInv, decode_and_dispatch
<1>3. UNCHANGED <<block, spec_block, RQ, MSHR, CQ, trace, num_retired>>
  BY DEF decode_and_dispatch, vars
<1> QED
  BY <1>1, <1>2, <1>3 DEF FCInv

(* The commit of the instruction that retires carries its number. *)
LEMMA RetireRob == ASSUME FCInv, retire_rob PROVE FCInv'
<1> DEFINE n == num_retired
           p == commit_packet("L1I", line(Head(ROB)), 0, Head(ROB))
           q == CQ["L1I"]
<1>1. InOrder(trace, IFETCH_BUFFER, ROB, n) /\ ROB # << >>
  BY DEF FCInv, retire_rob
<1>2. n \in Nat /\ Head(ROB) = n + 1 /\ n + 1 \in 1 .. Len(trace) /\ trace[n + 1] \in Addr
  BY <1>1, Retired
<1>3. p \in Packet /\ Of(p, trace, n + 1)
  <2>1. p = commit_packet("L1I", trace[n + 1], 0, n + 1) /\ n + 1 \in Nat /\ n + 1 \in 1 .. n + 1
    BY <1>2 DEF line
  <2> HIDE DEF p
  <2> QED
    BY <1>2, <2>1, CorePacket DEF Of
<1> HIDE DEF p, n
<1>4. /\ CQ' = cq_after_add(CQ, "L1I", p) /\ ROB' = Tail(ROB) /\ num_retired' = n + 1
      /\ UNCHANGED <<arrays, RQ, WQ, PQ, MSHR, PROCESSED, below, answered, issued,
                     trace, IFETCH_BUFFER>>
  BY DEF retire_rob, p, n
<1>5. QueuesOK(CQ) /\ q \in Seq(Packet) /\ DOMAIN CQ = Caches
  BY OnlyL1I DEF FCInv, IInv, QueuesOK
<1>6. IInv'
  <2>1. QueuesOK(CQ')
    BY <1>3, <1>4, <1>5, CqAddOK, OnlyL1I
  <2> QED
    BY <1>4, <2>1 DEF FCInv, IInv, arrays
<1>7. InOrder(trace, IFETCH_BUFFER, Tail(ROB), n + 1)
  BY <1>1, RetireOrder
<1>8. /\ \A r : Of(r, trace, n) => Of(r, trace, n + 1)
      /\ \A b : Line(b, trace, n) => Line(b, trace, n + 1)
  BY <1>2, OneMore
<1>9. CqInv(CQ', trace, n + 1)
  <2>1. CQ'["L1I"] \in {q, Append(q, p)}
    BY <1>4, <1>5, OnlyL1I DEF cq_after_add
  <2>2. \A k \in DOMAIN q : Of(q[k], trace, n + 1)
    BY <1>8 DEF FCInv, CqInv, n
  <2>3. CASE CQ'["L1I"] = q
    BY <2>2, <2>3 DEF CqInv
  <2>4. CASE CQ'["L1I"] = Append(q, p)
    <3>1. /\ DOMAIN Append(q, p) = 1 .. Len(q) + 1 /\ DOMAIN q = 1 .. Len(q) /\ Len(q) \in Nat
          /\ \A k \in 1 .. Len(q) : Append(q, p)[k] = q[k]
          /\ Append(q, p)[Len(q) + 1] = p
      BY <1>3, <1>5
    <3>2. ASSUME NEW k \in DOMAIN Append(q, p) PROVE Of(Append(q, p)[k], trace, n + 1)
      <4>1. CASE k = Len(q) + 1
        BY <1>3, <3>1, <4>1
      <4>2. CASE k \in 1 .. Len(q)
        BY <2>2, <3>1, <4>2
      <4> QED
        BY <3>1, <4>1, <4>2
    <3> QED
      BY <2>4, <3>2 DEF CqInv
  <2> QED
    BY <2>1, <2>3, <2>4
<1>10. ArrayInv(block, trace, n + 1)
  BY <1>8 DEF FCInv, ArrayInv, SetInv, n
<1> QED
  BY <1>4, <1>6, <1>7, <1>9, <1>10 DEF FCInv, arrays

-------------------------------------------------------------------------------
(* The arrays of the L1I *)

LEMMA SetPut ==
  ASSUME NEW b, "L1I" \in DOMAIN b, NEW t \in DOMAIN b["L1I"], NEW tr, NEW n, ArrayInv(b, tr, n),
         NEW X, SetInv(X, tr, n)
  PROVE  ArrayInv([b EXCEPT !["L1I"][t] = X], tr, n)
<1> DEFINE m == [b EXCEPT !["L1I"][t] = X]
<1>1. DOMAIN m["L1I"] = DOMAIN b["L1I"]
  OBVIOUS
<1>2. \A s \in DOMAIN b["L1I"] : m["L1I"][s] = IF s = t THEN X ELSE b["L1I"][s]
  OBVIOUS
<1> HIDE DEF m
<1>3. ArrayInv(m, tr, n)
  BY <1>1, <1>2 DEF ArrayInv
<1> QED
  BY <1>3 DEF m

LEMMA FillSpecSet ==
  ASSUME NEW set, NEW way, NEW a, NEW id, NEW tr, NEW n, SetInv(set, tr, n),
         id \in 1 .. n, tr[id] = a
  PROVE  SetInv(fill_spec(set, way, a, id), tr, n)
<1> DEFINE x == [valid |-> TRUE, tag |-> a, id |-> id]
<1>1. Line(x, tr, n)
  BY DEF Line
<1> HIDE DEF x
<1>2. fill_spec(set, way, a, id) = [set EXCEPT ![way] = x]
  BY DEF fill_spec, x
<1>3. \A w \in DOMAIN set : [set EXCEPT ![way] = x][w] = IF w = way THEN x ELSE set[w]
  OBVIOUS
<1> QED
  BY <1>1, <1>2, <1>3 DEF SetInv

LEMMA FillSet ==
  ASSUME NEW set, NEW way, NEW a, NEW id, NEW d, NEW tr, NEW n, SetInv(set, tr, n),
         id \in 1 .. n, tr[id] = a
  PROVE  SetInv(fill_cache(set, way, a, id, d), tr, n)
<1> DEFINE x == [valid |-> TRUE, dirty |-> d, tag |-> a, id |-> id, lru |-> set[way].lru]
<1>1. Line(x, tr, n)
  BY DEF Line
<1> HIDE DEF x
<1>2. fill_cache(set, way, a, id, d) = [set EXCEPT ![way] = x]
  BY DEF fill_cache, x
<1>3. \A w \in DOMAIN set : [set EXCEPT ![way] = x][w] = IF w = way THEN x ELSE set[w]
  OBVIOUS
<1> QED
  BY <1>1, <1>2, <1>3 DEF SetInv

LEMMA InvalidSet ==
  ASSUME NEW W, NEW set \in [W -> SpecBlock], NEW way \in W, NEW tr, NEW n, SetInv(set, tr, n)
  PROVE  SetInv([set EXCEPT ![way].valid = FALSE], tr, n)
<1> DEFINE x == [set[way] EXCEPT !.valid = FALSE]
           m == [set EXCEPT ![way] = x]
<1>1. set[way] \in SpecBlock
  OBVIOUS
<1>2. ~x.valid
  BY <1>1 DEF SpecBlock
<1>3. [set EXCEPT ![way].valid = FALSE] = m
  OBVIOUS
<1> HIDE DEF x
<1>4. DOMAIN m = DOMAIN set /\ \A w \in DOMAIN set : m[w] = IF w = way THEN x ELSE set[w]
  OBVIOUS
<1> HIDE DEF m
<1> QED
  BY <1>2, <1>3, <1>4 DEF SetInv

LEMMA TouchSet ==
  ASSUME NEW k \in Nat \ {0}, NEW set, SetOK(set, k), NEW way \in Way(k), NEW p,
         NEW tr, NEW n, SetInv(set, tr, n)
  PROVE  SetInv(touch(set, way, p), tr, n)
<1> DEFINE u == lru_update(set, way)
<1>1. /\ u \in Sets(k, Addr \cup {0}) /\ set \in Sets(k, Addr \cup {0})
      /\ \A w \in Way(k) : u[w].valid = set[w].valid /\ u[w].tag = set[w].tag /\ u[w].id = set[w].id
  BY UpdateType DEF SetOK
<1>2. DOMAIN u = Way(k) /\ DOMAIN set = Way(k)
  BY <1>1 DEF Sets
<1> HIDE DEF u
<1>3. SetInv(u, tr, n)
  BY <1>1, <1>2 DEF SetInv, Line
<1> QED
  BY <1>3 DEF touch, u

-------------------------------------------------------------------------------
(* The MSHRs of the L1I *)

LEMMA ReturnFetch ==
  ASSUME NEW ms, MshrOK(ms), NEW U, NEW b \in Addr, NEW tr, MshrInv(ms, tr)
  PROVE  MshrInv(return_data(ms, U, b), tr)
<1> SUFFICES ASSUME NEW t \in Slots("L1I"), return_data(ms, U, b)["L1I"][t].addr # 0
             PROVE  Fetch(return_data(ms, U, b)["L1I"][t], tr)
  BY DEF MshrInv
<1> DEFINE e == ms["L1I"][t]
           n == return_data(ms, U, b)["L1I"][t]
<1>1. n = IF "L1I" \in U /\ e.addr = b THEN [e EXCEPT !.ret = "COMPLETED"] ELSE e
  BY ReturnSlots, OnlyL1I
<1>2. e \in Entry \cup {FreeEntry}
  BY SlotsAre, OnlyL1I
<1>3. e.addr # 0 => Fetch(e, tr)
  BY DEF MshrInv
<1> HIDE DEF e, n
<1>4. n.addr = e.addr /\ n.id = e.id /\ n.spec = e.spec /\ n.type = e.type
  BY <1>1, <1>2 DEF Entry, FreeEntry
<1>5. n.addr # 0
  BY DEF n
<1>6. Fetch(n, tr)
  BY <1>3, <1>4, <1>5 DEF Fetch, Of
<1> QED
  BY <1>6 DEF n

LEMMA PutFetch ==
  ASSUME NEW ms, "L1I" \in DOMAIN ms, NEW m, NEW s, NEW e, NEW tr, MshrInv(ms, tr),
         DOMAIN ms["L1I"] = Slots("L1I"), m = [ms["L1I"] EXCEPT ![s] = e],
         e.addr # 0 => Fetch(e, tr)
  PROVE  MshrInv([ms EXCEPT !["L1I"] = m], tr)
<1>1. \A t \in Slots("L1I") : m[t] = IF t = s THEN e ELSE ms["L1I"][t]
  OBVIOUS
<1>2. [ms EXCEPT !["L1I"] = m]["L1I"] = m
  OBVIOUS
<1> QED
  BY <1>1, <1>2 DEF MshrInv

LEMMA FreeFetch ==
  ASSUME NEW ms, MshrOK(ms), NEW s \in Slots("L1I"), NEW tr, MshrInv(ms, tr)
  PROVE  MshrInv([ms EXCEPT !["L1I"][s] = FreeEntry], tr)
<1>1. "L1I" \in DOMAIN ms /\ DOMAIN ms["L1I"] = Slots("L1I")
  BY SlotsAre, OnlyL1I DEF MshrOK
<1>2. FreeEntry.addr = 0
  BY DEF FreeEntry
<1> DEFINE m == [ms["L1I"] EXCEPT ![s] = FreeEntry]
<1>3. [ms EXCEPT !["L1I"][s] = FreeEntry] = [ms EXCEPT !["L1I"] = m]
  BY <1>1
<1>4. m = [ms["L1I"] EXCEPT ![s] = FreeEntry]
  OBVIOUS
<1> HIDE DEF m
<1>5. MshrInv([ms EXCEPT !["L1I"] = m], tr)
  BY <1>1, <1>2, <1>4, PutFetch
<1> QED
  BY <1>3, <1>5

LEMMA EntryFetch ==
  ASSUME NEW p, NEW tr, Fetch(p, tr), NEW r
  PROVE  Fetch(entry(p, r), tr)
BY DEF entry, Fetch, Of

LEMMA AllocFetch ==
  ASSUME NEW ms, MshrOK(ms), NEW tr, MshrInv(ms, tr), NEW p, Fetch(p, tr), NEW r
  PROVE  MshrInv([ms EXCEPT !["L1I"] = add_mshr(@, p, r)], tr)
<1> DEFINE s == First(free_slots(ms["L1I"]))
           e == entry(p, r)
           m == add_mshr(ms["L1I"], p, r)
<1>1. "L1I" \in DOMAIN ms /\ DOMAIN ms["L1I"] = Slots("L1I")
  BY SlotsAre, OnlyL1I DEF MshrOK
<1>2. m = ms["L1I"] \/ m = [ms["L1I"] EXCEPT ![s] = e]
  BY DEF add_mshr
<1>3. Fetch(e, tr)
  BY EntryFetch
<1>4. [ms EXCEPT !["L1I"] = add_mshr(@, p, r)] = [ms EXCEPT !["L1I"] = m]
  OBVIOUS
<1> HIDE DEF m, e, s
<1>5. CASE m = ms["L1I"]
  BY <1>1, <1>4, <1>5 DEF MshrInv
<1>6. CASE m = [ms["L1I"] EXCEPT ![s] = e]
  <2>1. MshrInv([ms EXCEPT !["L1I"] = m], tr)
    BY <1>1, <1>3, <1>6, PutFetch
  <2> QED
    BY <1>4, <2>1
<1> QED
  BY <1>2, <1>5, <1>6

(* A merged fetch keeps the number of the one that missed first. *)
LEMMA MergeFetch ==
  ASSUME MshrOK(MSHR), NEW tr, MshrInv(MSHR, tr), NEW p \in Packet,
         check_mshr(MSHR["L1I"], p.addr) # {}, merge_miss("L1I", p)
  PROVE  MshrInv(MSHR', tr)
<1> DEFINE s == First(check_mshr(MSHR["L1I"], p.addr))
           e == MSHR["L1I"][s]
           f == merge_demand(e, p)
           m == [MSHR["L1I"] EXCEPT ![s] = f]
<1>1. "L1I" \in DOMAIN MSHR /\ DOMAIN MSHR["L1I"] = Slots("L1I")
  BY SlotsAre, OnlyL1I DEF MshrOK
<1>2. s \in Slots("L1I") /\ e \in Entry /\ e.addr = p.addr
  BY InFlight, OnlyL1I DEF Slots
<1>3. MSHR' = [MSHR EXCEPT !["L1I"] = m]
  BY <1>1, <1>2 DEF merge_miss
<1> HIDE DEF s, e
<1>4. e.addr # 0
  BY <1>2, AddrAssumption DEF Packet
<1>5. Fetch(e, tr)
  BY <1>2, <1>4 DEF MshrInv, e
<1>6. Fetch(f, tr)
  <2>1. f = merge_prefetch(e, p)
    BY <1>5 DEF merge_demand, Fetch
  <2> DEFINE g == merge_flags(e, p)
  <2>2. g \in Entry /\ g.addr = e.addr /\ g.id = e.id /\ g.spec = e.spec /\ g.type = e.type
    BY <1>2 DEF merge_flags, Entry, Packet
  <2>3. f = [g EXCEPT !.lvl = IF p.lvl < @ THEN p.lvl ELSE @]
    BY <2>1 DEF merge_prefetch
  <2> HIDE DEF g, f
  <2>4. f.addr = e.addr /\ f.id = e.id /\ f.spec = e.spec /\ f.type = e.type
    BY <2>2, <2>3 DEF Entry
  <2> QED
    BY <1>5, <2>4 DEF Fetch, Of
<1>7. m = [MSHR["L1I"] EXCEPT ![s] = f]
  OBVIOUS
<1> HIDE DEF m, f
<1>8. MshrInv([MSHR EXCEPT !["L1I"] = m], tr)
  BY <1>1, <1>6, <1>7, PutFetch
<1> QED
  BY <1>3, <1>8

-------------------------------------------------------------------------------
(* The steps of the L1I *)

(* A fetch fills the speculative array only. *)
LEMMA FillStep == ASSUME FCInv, handle_fill("L1I"), UNCHANGED core PROVE FCInv'
<1>1. PICK s \in Slots("L1I") :
        FillNormal("L1I", s) \/ FillSpec("L1I", s) \/ FillSpecRetry("L1I", s)
  BY DEF handle_fill
<1> DEFINE e == MSHR["L1I"][s]
           N == NumSetSpec["L1I"]
           set == get_set(e.addr, N)
           way == spec_victim("L1I", e)
           f == [MSHR EXCEPT !["L1I"][s] = FreeEntry]
<1>2. IInv /\ MshrOK(MSHR) /\ MshrInv(MSHR, trace)
  BY DEF FCInv, IInv
<1>3. e.ret = "COMPLETED"
  BY <1>1 DEF FillNormal, FillSpec, FillSpecRetry
<1>4. e \in Entry /\ e.addr \in Addr /\ MshrOK(f)
  BY <1>2, <1>3, FillMshrOK, OnlyL1I DEF Entry
<1>5. Fetch(e, trace)
  BY <1>2, <1>4, AddrAssumption DEF MshrInv
<1>6. MshrInv(f, trace)
  BY <1>2, FreeFetch
<1>7. ~FillNormal("L1I", s)
  BY <1>5 DEF FillNormal, Fetch
<1>8. UNCHANGED <<trace, IFETCH_BUFFER, ROB, num_retired>>
  BY DEF core
<1>9. IInv'
  BY <1>1, <1>2, <1>7, FillSpecOK, FillSpecRetryOK, OnlyL1I
<1>10. CASE FillSpec("L1I", s)
  <2>1. MSHR' = return_data(f, uppers("L1I", e), e.addr) /\ UNCHANGED <<block, RQ, CQ>>
    BY <1>10 DEF FillSpec
  <2>2. MshrInv(MSHR', trace)
    <3> HIDE DEF f, e
    <3> QED
      BY <1>4, <1>6, <2>1, ReturnFetch
  <2>3. ArrayInv(spec_block, trace, Len(trace)) /\ SpecBlocksOK(spec_block)
    BY DEF FCInv, IInv
  <2>4. ArrayInv(spec_block', trace, Len(trace))
    <3>1. CASE N = 0
      BY <1>10, <2>3, <3>1 DEF FillSpec
    <3>2. CASE N # 0
      <4> DEFINE X == fill_spec(spec_block["L1I"][set], way, e.addr, e.id)
      <4>1. set \in 0 .. N-1
        BY <1>4, <3>2, Shape, SetInRange, OnlyL1I
      <4>2. "L1I" \in DOMAIN spec_block /\ set \in DOMAIN spec_block["L1I"]
        BY <2>3, <4>1, OnlyL1I DEF SpecBlocksOK
      <4>3. SetInv(spec_block["L1I"][set], trace, Len(trace))
        BY <2>3, <4>2 DEF ArrayInv
      <4>4. spec_block' = [spec_block EXCEPT !["L1I"][set] = X]
        BY <1>10, <3>2 DEF FillSpec
      <4>5. SetInv(X, trace, Len(trace))
        <5> HIDE DEF e, set, way
        <5> QED
          BY <1>5, <4>3, FillSpecSet DEF Fetch, Of
      <4> HIDE DEF X, e, set
      <4> QED
        BY <2>3, <4>2, <4>4, <4>5, SetPut
    <3> QED
      BY <3>1, <3>2
  <2> QED
    BY <1>8, <1>9, <2>1, <2>2, <2>4 DEF FCInv
<1>11. CASE FillSpecRetry("L1I", s)
  <2>1. UNCHANGED <<block, spec_block, RQ, CQ>>
    BY <1>11 DEF FillSpecRetry, arrays
  <2>2. "L1I" \in DOMAIN MSHR /\ DOMAIN MSHR["L1I"] = Slots("L1I")
    BY <1>2, SlotsAre, OnlyL1I DEF MshrOK
  <2>3. MSHR' = [f EXCEPT !["L1I"] = add_mshr(@, e, "COMPLETED")]
    BY <1>11, <2>2 DEF FillSpecRetry
  <2>4. MshrInv(MSHR', trace)
    <3> HIDE DEF f, e
    <3> QED
      BY <1>4, <1>5, <1>6, <2>3, AllocFetch
  <2> QED
    BY <1>8, <1>9, <2>1, <2>4 DEF FCInv
<1> QED
  BY <1>1, <1>7, <1>10, <1>11

LEMMA PopFetch ==
  ASSUME QueuesOK(RQ), NEW tr, RqInv(RQ, tr), RQ["L1I"] # << >>
  PROVE  /\ Head(RQ["L1I"]) \in Packet /\ Head(RQ["L1I"]).addr \in Addr
         /\ Fetch(Head(RQ["L1I"]), tr)
         /\ RqInv([RQ EXCEPT !["L1I"] = Tail(@)], tr)
<1> DEFINE q == RQ["L1I"]
           n == [RQ EXCEPT !["L1I"] = Tail(@)]
<1>1. q \in Seq(Packet) /\ "L1I" \in DOMAIN RQ
  BY OnlyL1I DEF QueuesOK
<1>2. n["L1I"] = Tail(q)
  BY <1>1
<1>3. \A i \in DOMAIN q : Fetch(q[i], tr)
  BY DEF RqInv
<1> HIDE DEF q, n
<1>4. /\ DOMAIN q = 1 .. Len(q) /\ Len(q) \in Nat \ {0}
      /\ DOMAIN Tail(q) = 1 .. Len(q) - 1 /\ Head(q) = q[1]
      /\ \A i \in DOMAIN Tail(q) : Tail(q)[i] = q[i + 1]
  BY <1>1, TailOf DEF q
<1>5. Head(q) \in Packet /\ Fetch(Head(q), tr)
  BY <1>1, <1>3, <1>4
<1>6. \A i \in DOMAIN Tail(q) : Fetch(Tail(q)[i], tr)
  BY <1>3, <1>4
<1>7. RqInv(n, tr)
  BY <1>2, <1>6 DEF RqInv
<1> QED
  BY <1>5, <1>7 DEF q, n, Packet

LEMMA ReadStep == ASSUME FCInv, handle_read("L1I"), UNCHANGED core PROVE FCInv'
<1> DEFINE p == Head(RQ["L1I"])
           q == [RQ EXCEPT !["L1I"] = Tail(@)]
           set == get_set(p.addr, NumSet["L1I"])
           way == First(hit_ways("L1I", p))
<1>1. IInv /\ MshrOK(MSHR) /\ MshrInv(MSHR, trace) /\ QueuesOK(RQ) /\ RqInv(RQ, trace)
  BY DEF FCInv, IInv
<1>2. RQ["L1I"] # << >>
  BY DEF handle_read, ReadHit, ReadSpecHit, ReadMiss, ReadMerge
<1>3. p \in Packet /\ p.addr \in Addr /\ Fetch(p, trace) /\ RqInv(q, trace)
  BY <1>1, <1>2, PopFetch
<1>4. UNCHANGED <<trace, IFETCH_BUFFER, ROB, num_retired>>
  BY DEF core
<1>5. IInv'
  BY <1>1, ReadHitOK, ReadSpecHitOK, ReadMissOK, ReadMergeOK, OnlyL1I DEF handle_read
<1>6. CASE ReadHit("L1I")
  <2>1. /\ MSHR' = return_data(MSHR, uppers("L1I", p), p.addr) /\ RQ' = q
        /\ hit_ways("L1I", p) # {}
        /\ block' = [block EXCEPT !["L1I"][set] = touch(@, way, p)]
        /\ UNCHANGED <<spec_block, CQ>>
    BY <1>6 DEF ReadHit
  <2>2. MshrInv(MSHR', trace)
    BY <1>1, <1>3, <2>1, ReturnFetch
  <2>3. ArrayInv(block, trace, num_retired) /\ BlocksOK(block)
    BY DEF FCInv, IInv
  <2>4. ArrayInv(block', trace, num_retired)
    <3> DEFINE old == block["L1I"][set]
               X   == touch(old, way, p)
               k   == NumWay["L1I"]
    <3>1. way \in Way(k) /\ set \in 0 .. NumSet["L1I"]-1 /\ SetOK(old, k)
      BY <1>3, <2>1, <2>3, HitOK, VictimOK, OnlyL1I
    <3>2. "L1I" \in DOMAIN block /\ set \in DOMAIN block["L1I"]
      BY <2>3, <3>1, OnlyL1I DEF BlocksOK
    <3>3. SetInv(old, trace, num_retired) /\ k \in Nat \ {0}
      BY <2>3, <3>2, Shape, OnlyL1I DEF ArrayInv
    <3>4. block' = [block EXCEPT !["L1I"][set] = X]
      BY <2>1
    <3> HIDE DEF old, way, set, k, p
    <3>5. SetInv(X, trace, num_retired)
      BY <3>1, <3>3, TouchSet
    <3> HIDE DEF X
    <3> QED
      BY <2>3, <3>2, <3>4, <3>5, SetPut
  <2> QED
    BY <1>3, <1>4, <1>5, <2>1, <2>2, <2>4 DEF FCInv
<1>7. CASE ReadSpecHit("L1I")
  <2>1. /\ MSHR' = return_data(MSHR, uppers("L1I", p), p.addr) /\ RQ' = q
        /\ UNCHANGED <<block, spec_block, CQ>>
    BY <1>7 DEF ReadSpecHit, arrays
  <2>2. MshrInv(MSHR', trace)
    BY <1>1, <1>3, <2>1, ReturnFetch
  <2> QED
    BY <1>3, <1>4, <1>5, <2>1, <2>2 DEF FCInv
<1>8. CASE ReadMiss("L1I")
  <2>1. new_miss("L1I", p, q) /\ UNCHANGED <<block, spec_block, CQ>>
    BY <1>8 DEF ReadMiss, arrays
  <2>2. RQ' = q /\ MSHR' = [MSHR EXCEPT !["L1I"] = add_mshr(@, p, "INFLIGHT")]
    BY <2>1, OnlyL1I DEF new_miss
  <2>3. MshrInv(MSHR', trace)
    BY <1>1, <1>3, <2>2, AllocFetch
  <2> QED
    BY <1>3, <1>4, <1>5, <2>1, <2>2, <2>3 DEF FCInv
<1>9. CASE ReadMerge("L1I")
  <2>1. /\ merge_miss("L1I", p) /\ check_mshr(MSHR["L1I"], p.addr) # {} /\ RQ' = q
        /\ UNCHANGED <<block, spec_block, CQ>>
    BY <1>9 DEF ReadMerge, arrays
  <2>2. MshrInv(MSHR', trace)
    BY <1>1, <1>3, <2>1, MergeFetch
  <2> QED
    BY <1>3, <1>4, <1>5, <2>1, <2>2 DEF FCInv
<1> QED
  BY <1>6, <1>7, <1>8, <1>9 DEF handle_read

(* The block that a commit moves is not younger than the commit, and the    *)
(* commit is that of a retired instruction.                                 *)
LEMMA CommitStep == ASSUME FCInv, commit_blocks("L1I"), UNCHANGED core PROVE FCInv'
<1> DEFINE p    == Head(CQ["L1I"])
           q    == CQ["L1I"]
           rest == [CQ EXCEPT !["L1I"] = Tail(@)]
           spec == get_set(p.addr, NumSetSpec["L1I"])
           way  == First(spec_hit_ways("L1I", p))
           from == spec_block["L1I"][spec][way]
           set  == get_set(p.addr, NumSet["L1I"])
           to   == lru_victim(block["L1I"][set], NumWay["L1I"])
           n    == num_retired
<1>1. /\ IInv /\ QueuesOK(CQ) /\ CqInv(CQ, trace, n)
      /\ BlocksOK(block) /\ SpecBlocksOK(spec_block)
      /\ ArrayInv(block, trace, n) /\ ArrayInv(spec_block, trace, Len(trace))
  BY DEF FCInv, IInv
<1>2. CQ["L1I"] # << >> /\ CQ' = rest /\ UNCHANGED <<RQ, MSHR>>
  BY OnlyL1I DEF commit_blocks
<1>3. q \in Seq(Packet) /\ "L1I" \in DOMAIN CQ
  BY <1>1, OnlyL1I DEF QueuesOK
<1>4. p \in Packet /\ Of(p, trace, n) /\ CqInv(rest, trace, n)
  <2>1. rest["L1I"] = Tail(q)
    BY <1>3
  <2>2. \A i \in DOMAIN q : Of(q[i], trace, n)
    BY <1>1 DEF CqInv
  <2> HIDE DEF q, rest
  <2>3. /\ DOMAIN q = 1 .. Len(q) /\ Len(q) \in Nat \ {0}
        /\ DOMAIN Tail(q) = 1 .. Len(q) - 1 /\ Head(q) = q[1]
        /\ \A i \in DOMAIN Tail(q) : Tail(q)[i] = q[i + 1]
    BY <1>2, <1>3, TailOf DEF q
  <2>4. Head(q) \in Packet /\ Of(Head(q), trace, n)
    BY <1>3, <2>2, <2>3
  <2>5. \A i \in DOMAIN Tail(q) : Of(Tail(q)[i], trace, n)
    BY <2>2, <2>3
  <2> QED
    BY <2>1, <2>4, <2>5 DEF CqInv, q
<1>5. UNCHANGED <<trace, IFETCH_BUFFER, ROB, num_retired>>
  BY DEF core
<1>6. IInv'
  BY <1>1, CommitOK, OnlyL1I
<1>7. ArrayInv(block', trace, n) /\ ArrayInv(spec_block', trace, Len(trace))
  <2>1. CASE spec_hit_ways("L1I", p) = {}
    <3>1. UNCHANGED <<block, spec_block>>
      BY <2>1 DEF commit_blocks, arrays
    <3> QED
      BY <1>1, <3>1
  <2>2. CASE spec_hit_ways("L1I", p) # {}
    <3> DEFINE X == fill_cache(block["L1I"][set], to, from.tag, from.id, FALSE)
               Y == [spec_block["L1I"][spec] EXCEPT ![way].valid = FALSE]
    <3>1. /\ spec \in 0 .. NumSetSpec["L1I"]-1 /\ way \in Way(NumWaySpec["L1I"])
          /\ from.tag = p.addr /\ from.id \in Nat /\ from.id <= p.id /\ from.valid
      BY <1>1, <1>4, <2>2, SpecHitOK, OnlyL1I
    <3>2. set \in 0 .. NumSet["L1I"]-1
      BY <1>1, <1>4, VictimOK, OnlyL1I DEF Packet
    <3>3. /\ "L1I" \in DOMAIN block /\ set \in DOMAIN block["L1I"]
          /\ "L1I" \in DOMAIN spec_block /\ spec \in DOMAIN spec_block["L1I"]
          /\ spec_block["L1I"][spec] \in [Way(NumWaySpec["L1I"]) -> SpecBlock]
      BY <1>1, <3>1, <3>2, OnlyL1I DEF BlocksOK, SpecBlocksOK
    <3>4. block' = [block EXCEPT !["L1I"][set] = X]
      BY Zenon, <2>2 DEF commit_blocks
    <3>5. spec_block' = [spec_block EXCEPT !["L1I"][spec] = Y]
      BY Zenon, <2>2, <3>3 DEF commit_blocks
    <3>6. SetInv(block["L1I"][set], trace, n) /\ SetInv(spec_block["L1I"][spec], trace, Len(trace))
      BY <1>1, <3>3 DEF ArrayInv
    <3>7. Line(from, trace, Len(trace))
      BY <3>1, <3>3, <3>6 DEF SetInv
    <3> HIDE DEF from, p, set, to
    <3>8. from.id \in 1 .. n /\ trace[from.id] = from.tag
      <4>1. n \in Nat
        BY Retired DEF FCInv
      <4> HIDE DEF n
      <4>2. p.id \in 1 .. n /\ from.id \in 1 .. Len(trace) /\ trace[from.id] = from.tag
        BY <1>4, <3>7 DEF Of, Line
      <4> QED
        BY <3>1, <4>1, <4>2
    <3>9. SetInv(X, trace, n)
      BY <3>6, <3>8, FillSet
    <3>10. SetInv(Y, trace, Len(trace))
      <4> HIDE DEF spec, way
      <4> QED
        BY <3>1, <3>3, <3>6, InvalidSet
    <3> HIDE DEF X, Y, spec, n
    <3> QED
      BY <1>1, <3>3, <3>4, <3>5, <3>9, <3>10, SetPut
  <2> QED
    BY <2>1, <2>2
<1> QED
  BY <1>2, <1>4, <1>5, <1>6, <1>7 DEF FCInv

LEMMA BelowStep ==
  ASSUME FCInv, NEW a \in Addr, BelowReturn("L1I", a), UNCHANGED core
  PROVE  FCInv'
<1>1. IInv'
  BY BelowReturnOK, OnlyL1I DEF FCInv
<1>2. MshrInv(MSHR', trace)
  BY ReturnFetch DEF BelowReturn, FCInv, IInv
<1> QED
  BY <1>1, <1>2 DEF FCInv, BelowReturn, core, arrays

-------------------------------------------------------------------------------
LEMMA FCInitOK == ASSUME FCInit PROVE FCInv
<1>1. IInv
  BY InitOK DEF FCInit
<1>2. InOrder(trace, IFETCH_BUFFER, ROB, num_retired)
  BY DEF FCInit, InOrder
<1>3. RqInv(RQ, trace) /\ CqInv(CQ, trace, num_retired)
  BY OnlyL1I DEF FCInit, Init, RqInv, CqInv
<1>4. MshrInv(MSHR, trace)
  <2>1. \A s \in Slots("L1I") : MSHR["L1I"][s] = FreeEntry
    BY OnlyL1I DEF FCInit, Init
  <2> QED
    BY <2>1 DEF MshrInv, FreeEntry
<1>5. ArrayInv(block, trace, num_retired)
  <2>1. \A s \in DOMAIN block["L1I"] : \A w \in DOMAIN block["L1I"][s] :
          ~block["L1I"][s][w].valid
    BY OnlyL1I DEF FCInit, Init
  <2> QED
    BY <2>1 DEF ArrayInv, SetInv
<1>6. ArrayInv(spec_block, trace, Len(trace))
  <2>1. \A s \in DOMAIN spec_block["L1I"] : \A w \in DOMAIN spec_block["L1I"][s] :
          ~spec_block["L1I"][s][w].valid
    BY OnlyL1I DEF FCInit, Init
  <2> QED
    BY <2>1 DEF ArrayInv, SetInv
<1> QED
  BY <1>1, <1>2, <1>3, <1>4, <1>5, <1>6 DEF FCInv

LEMMA FCStepOK == ASSUME FCInv, [FCNext]_fc_vars PROVE FCInv'
<1>1. CASE UNCHANGED fc_vars
  BY <1>1 DEF fc_vars, vars, core, FCInv, IInv
<1>2. CASE read_from_trace
  BY <1>2, ReadFromTrace
<1>3. CASE fetch_instruction
  BY <1>3, FetchInstruction
<1>4. CASE complete_instr_fetch
  BY <1>4, CompleteInstrFetch
<1>5. CASE decode_and_dispatch
  BY <1>5, DecodeAndDispatch
<1>6. CASE retire_rob
  BY <1>6, RetireRob
<1>7. CASE cache_step(handle_fill("L1I"))
  BY <1>7, FillStep DEF cache_step
<1>8. CASE cache_step(handle_read("L1I"))
  BY <1>8, ReadStep DEF cache_step
<1>9. CASE cache_step(commit_blocks("L1I"))
  BY <1>9, CommitStep DEF cache_step
<1>10. ASSUME NEW a \in Addr, cache_step(BelowReturn("L1I", a)) PROVE FCInv'
  BY <1>10, BelowStep DEF cache_step
<1> QED
  BY <1>1, <1>2, <1>3, <1>4, <1>5, <1>6, <1>7, <1>8, <1>9, <1>10 DEF FCNext

(* The normal L1I array holds only lines that retired instructions brought  *)
(* in: fetches merge in the queues and in the MSHRs, commits are merged and *)
(* lost, and blocks are evicted, but the number a block carries is always   *)
(* that of an instruction on its line, and commit_blocks moves only blocks  *)
(* that are not younger than the retiring instruction.                      *)
THEOREM NormalArrayOnlyRetired == FCSpec => []OnlyRetiredInNormalArray
<1>1. FCInit => FCInv
  BY FCInitOK
<1>2. FCInv /\ [FCNext]_fc_vars => FCInv'
  BY FCStepOK
<1>3. FCInv => OnlyRetiredInNormalArray
  BY DEF FCInv, ArrayInv, SetInv, Line, OnlyRetiredInNormalArray, line
<1> QED
  BY <1>1, <1>2, <1>3, PTL DEF FCSpec
-------------------------------------------------------------------------------
(* No wakeup is lost *)

(* Line a is under way in the L1I: asked for, missed, or answered. *)
Asked(q, a) == \E i \in DOMAIN q["L1I"] : q["L1I"][i].addr = a
Missed(ms, a) == \E s \in Slots("L1I") : ms["L1I"][s].addr = a
HasAnswer(pr, a) == \E i \in DOMAIN pr["L1I"] : pr["L1I"][i] = a
UnderWay(q, ms, pr, a) == Asked(q, a) \/ Missed(ms, a) \/ HasAnswer(pr, a)

Served(buf, tr, q, ms, pr) ==
  \A j \in DOMAIN buf : buf[j].fetched = "INFLIGHT" => UnderWay(q, ms, pr, tr[buf[j].id])

(* Nothing is written to the L1I, so no read is forwarded from its WQ. *)
ServedInv ==
  FCInv /\ WQ["L1I"] = << >> /\ Served(IFETCH_BUFFER, trace, RQ, MSHR, PROCESSED)

(* The answer of a fill or a hit is dropped when PROCESSED is full. *)
NotFull == Len(PROCESSED["L1I"]) < ProcSize["L1I"]

LEMMA StillServed ==
  ASSUME NEW buf, NEW tr, NEW rob, NEW n, InOrder(tr, buf, rob, n),
         NEW q, NEW ms, NEW pr, Served(buf, tr, q, ms, pr), NEW q2, NEW ms2, NEW pr2,
         \A a \in Addr : UnderWay(q, ms, pr, a) => UnderWay(q2, ms2, pr2, a)
  PROVE  Served(buf, tr, q2, ms2, pr2)
<1>1. \A j \in DOMAIN buf : tr[buf[j].id] \in Addr
  BY Buffered
<1> QED
  BY <1>1 DEF Served

LEMMA MarkIs ==
  ASSUME IFETCH_BUFFER \in Seq(Fetched), NEW a, NEW f, NEW j \in DOMAIN mark(a, f)
  PROVE  /\ j \in DOMAIN IFETCH_BUFFER /\ mark(a, f)[j].id = IFETCH_BUFFER[j].id
         /\ mark(a, f)[j].fetched = IF line(IFETCH_BUFFER[j].id) = a THEN f
                                    ELSE IFETCH_BUFFER[j].fetched
<1> DEFINE x == IFETCH_BUFFER[j]
           m == mark(a, f)[j]
<1>1. j \in DOMAIN IFETCH_BUFFER /\ x \in Fetched
  BY DEF mark
<1>2. m = IF line(x.id) = a THEN [x EXCEPT !.fetched = f] ELSE x
  BY <1>1 DEF mark
<1> HIDE DEF x, m
<1>3. m.id = x.id /\ m.fetched = IF line(x.id) = a THEN f ELSE x.fetched
  BY <1>1, <1>2 DEF Fetched
<1> QED
  BY <1>1, <1>3 DEF x, m

-------------------------------------------------------------------------------
(* What the queues and the MSHRs do to a line that is under way *)

(* An accepted fetch is queued or merged with a request for its line. *)
LEMMA AddAsked ==
  ASSUME QueuesOK(RQ), WQ["L1I"] = << >>, NEW p \in Packet, ~refused(p)
  PROVE  /\ Asked(rq_after_add(RQ, "L1I", p), p.addr)
         /\ \A a : Asked(RQ, a) => Asked(rq_after_add(RQ, "L1I", p), a)
<1> DEFINE q == RQ["L1I"]
           D == rq_duplicate("L1I", p)
           i == First(D)
           f == merge_flags(q[i], p)
           m == [q EXCEPT ![i] = f]
           n == rq_after_add(RQ, "L1I", p)
<1>1. q \in Seq(Packet) /\ DOMAIN RQ = Caches /\ "L1I" \in Caches
  BY OnlyL1I DEF QueuesOK
<1>2. ~rq_forward("L1I", p)
  BY DEF rq_forward, wq_index, check_queue
<1>3. CASE D # {}
  <2>1. i \in DOMAIN q
    BY <1>1, <1>3, CheckQueueOK DEF rq_duplicate
  <2>2. n["L1I"] = m
    BY <1>1, <1>2, <1>3, <2>1 DEF rq_after_add
  <2>3. q[i] \in Packet
    BY <1>1, <2>1
  <2>4. f.addr = q[i].addr
    BY <2>3 DEF merge_flags, Packet
  <2> HIDE DEF i, f
  <2>5. DOMAIN m = DOMAIN q /\ \A k \in DOMAIN q : m[k] = IF k = i THEN f ELSE q[k]
    BY <2>1
  <2> HIDE DEF m
  <2>6. \A k \in DOMAIN q : m[k].addr = q[k].addr
    BY <2>4, <2>5
  <2>7. \E k \in DOMAIN q : q[k].addr = p.addr
    BY <1>3 DEF rq_duplicate, check_queue
  <2> HIDE DEF q, n
  <2> QED
    BY <2>2, <2>5, <2>6, <2>7 DEF Asked, q, n
<1>4. CASE D = {}
  <2>1. n["L1I"] = Append(q, p)
    BY <1>1, <1>2, <1>4 DEF rq_after_add, refused
  <2>2. /\ DOMAIN Append(q, p) = 1 .. Len(q) + 1 /\ DOMAIN q = 1 .. Len(q) /\ Len(q) \in Nat
        /\ \A k \in 1 .. Len(q) : Append(q, p)[k] = q[k]
        /\ Append(q, p)[Len(q) + 1] = p
    BY <1>1
  <2> HIDE DEF q, n
  <2> QED
    BY <2>1, <2>2 DEF Asked, q, n
<1> QED
  BY <1>3, <1>4

LEMMA TailAsked ==
  ASSUME QueuesOK(RQ), RQ["L1I"] # << >>, NEW a, Asked(RQ, a), a # Head(RQ["L1I"]).addr
  PROVE  Asked([RQ EXCEPT !["L1I"] = Tail(@)], a)
<1> DEFINE q == RQ["L1I"]
           n == [RQ EXCEPT !["L1I"] = Tail(@)]
<1>1. q \in Seq(Packet) /\ n["L1I"] = Tail(q)
  BY OnlyL1I DEF QueuesOK
<1>2. PICK i \in DOMAIN q : q[i].addr = a
  BY DEF Asked
<1> HIDE DEF q, n
<1>3. /\ DOMAIN q = 1 .. Len(q) /\ Len(q) \in Nat \ {0}
      /\ DOMAIN Tail(q) = 1 .. Len(q) - 1 /\ Head(q) = q[1]
      /\ \A k \in DOMAIN Tail(q) : Tail(q)[k] = q[k + 1]
  BY <1>1, TailOf DEF q
<1>4. i # 1
  BY <1>2, <1>3 DEF q
<1>5. i - 1 \in DOMAIN Tail(q) /\ (i - 1) + 1 = i
  BY <1>2, <1>3, <1>4
<1>6. Tail(q)[i - 1].addr = a
  BY <1>2, <1>3, <1>5
<1> QED
  BY <1>1, <1>5, <1>6 DEF Asked, n

LEMMA TailAnswers ==
  ASSUME PROCESSED \in [Caches -> Seq(Addr)], PROCESSED["L1I"] # << >>,
         NEW a, HasAnswer(PROCESSED, a), a # Head(PROCESSED["L1I"])
  PROVE  HasAnswer([PROCESSED EXCEPT !["L1I"] = Tail(@)], a)
<1> DEFINE q == PROCESSED["L1I"]
           n == [PROCESSED EXCEPT !["L1I"] = Tail(@)]
<1>1. q \in Seq(Addr) /\ n["L1I"] = Tail(q)
  BY OnlyL1I
<1>2. PICK i \in DOMAIN q : q[i] = a
  BY DEF HasAnswer
<1> HIDE DEF q, n
<1>3. /\ DOMAIN q = 1 .. Len(q) /\ Len(q) \in Nat \ {0}
      /\ DOMAIN Tail(q) = 1 .. Len(q) - 1 /\ Head(q) = q[1]
      /\ \A k \in DOMAIN Tail(q) : Tail(q)[k] = q[k + 1]
  BY <1>1, TailOf DEF q
<1>4. i # 1
  BY <1>2, <1>3 DEF q
<1>5. i - 1 \in DOMAIN Tail(q) /\ (i - 1) + 1 = i
  BY <1>2, <1>3, <1>4
<1>6. Tail(q)[i - 1] = a
  BY <1>2, <1>3, <1>5
<1> QED
  BY <1>1, <1>5, <1>6 DEF HasAnswer, n

LEMMA AnswerAdded ==
  ASSUME PROCESSED \in [Caches -> Seq(Addr)], NotFull, NEW p, p.addr \in Addr
  PROVE  /\ HasAnswer(processed_after("L1I", p), p.addr)
         /\ \A a : HasAnswer(PROCESSED, a) => HasAnswer(processed_after("L1I", p), a)
<1> DEFINE q == PROCESSED["L1I"]
           n == processed_after("L1I", p)
<1>1. q \in Seq(Addr) /\ n["L1I"] = Append(q, p.addr)
  BY OnlyL1I DEF processed_after, CoreFacing, NotFull
<1> HIDE DEF n, q
<1>2. /\ DOMAIN Append(q, p.addr) = 1 .. Len(q) + 1 /\ DOMAIN q = 1 .. Len(q)
      /\ Len(q) \in Nat /\ \A k \in 1 .. Len(q) : Append(q, p.addr)[k] = q[k]
      /\ Append(q, p.addr)[Len(q) + 1] = p.addr
  BY <1>1
<1> QED
  BY <1>1, <1>2 DEF HasAnswer, n, q

LEMMA ReturnMissed ==
  ASSUME NEW ms, MshrOK(ms), NEW U, NEW b \in Addr, NEW a, Missed(ms, a)
  PROVE  Missed(return_data(ms, U, b), a)
<1>1. PICK s \in Slots("L1I") : ms["L1I"][s].addr = a
  BY DEF Missed
<1> DEFINE e == ms["L1I"][s]
           n == return_data(ms, U, b)["L1I"][s]
<1>2. n = IF "L1I" \in U /\ e.addr = b THEN [e EXCEPT !.ret = "COMPLETED"] ELSE e
  BY ReturnSlots, OnlyL1I
<1>3. e \in Entry \cup {FreeEntry} /\ e.addr = a
  BY <1>1, SlotsAre, OnlyL1I
<1> HIDE DEF e, n
<1>4. n.addr = a
  BY <1>2, <1>3 DEF Entry, FreeEntry
<1> QED
  BY <1>4 DEF Missed, n

LEMMA FreeMissed ==
  ASSUME NEW ms, MshrOK(ms), NEW s \in Slots("L1I"), NEW a, Missed(ms, a),
         a # ms["L1I"][s].addr
  PROVE  Missed([ms EXCEPT !["L1I"][s] = FreeEntry], a)
<1>1. "L1I" \in DOMAIN ms /\ DOMAIN ms["L1I"] = Slots("L1I")
  BY SlotsAre, OnlyL1I DEF MshrOK
<1>2. PICK t \in Slots("L1I") : ms["L1I"][t].addr = a
  BY DEF Missed
<1>3. [ms EXCEPT !["L1I"][s] = FreeEntry]["L1I"][t] = ms["L1I"][t]
  BY <1>1, <1>2
<1> QED
  BY <1>2, <1>3 DEF Missed

LEMMA AddMissed ==
  ASSUME NEW ms, MshrOK(ms), free_slots(ms["L1I"]) # {}, NEW p, NEW r,
         NEW a \in Addr
  PROVE  /\ Missed([ms EXCEPT !["L1I"] = add_mshr(@, p, r)], p.addr)
         /\ Missed(ms, a) => Missed([ms EXCEPT !["L1I"] = add_mshr(@, p, r)], a)
<1> DEFINE n == [ms EXCEPT !["L1I"] = add_mshr(@, p, r)]
           m == ms["L1I"]
           s == First(free_slots(m))
           e == entry(p, r)
<1>1. "L1I" \in DOMAIN ms /\ DOMAIN m = Slots("L1I") /\ Slots("L1I") \subseteq Nat
  BY SlotsAre, OnlyL1I DEF MshrOK
<1>2. s \in Slots("L1I") /\ m[s].addr = 0
  <2>1. free_slots(m) \in SUBSET Nat
    BY <1>1 DEF free_slots
  <2>2. s \in free_slots(m)
    BY <2>1, FirstIsLeast
  <2> QED
    BY <1>1, <2>2 DEF free_slots
<1>3. n["L1I"] = [m EXCEPT ![s] = e]
  BY <1>1 DEF add_mshr
<1>4. e.addr = p.addr
  BY DEF entry
<1> HIDE DEF s, e, m, n
<1>5. \A t \in Slots("L1I") : n["L1I"][t] = IF t = s THEN e ELSE m[t]
  BY <1>1, <1>3
<1>6. ASSUME Missed(ms, a) PROVE Missed(n, a)
  <2>1. PICK t \in Slots("L1I") : m[t].addr = a
    BY <1>6 DEF Missed, m
  <2>2. t # s
    BY <1>2, <2>1, AddrAssumption
  <2> QED
    BY <1>5, <2>1, <2>2 DEF Missed
<1>7. Missed(n, p.addr)
  BY <1>2, <1>4, <1>5 DEF Missed
<1> QED
  BY <1>6, <1>7 DEF n

LEMMA MergeMissed ==
  ASSUME MshrOK(MSHR), NEW p \in Packet, check_mshr(MSHR["L1I"], p.addr) # {},
         merge_miss("L1I", p), NEW a, Missed(MSHR, a)
  PROVE  Missed(MSHR', a)
<1> DEFINE s == First(check_mshr(MSHR["L1I"], p.addr))
           e == MSHR["L1I"][s]
           f == merge_demand(e, p)
<1>1. "L1I" \in DOMAIN MSHR /\ DOMAIN MSHR["L1I"] = Slots("L1I")
  BY SlotsAre, OnlyL1I DEF MshrOK
<1>2. s \in Slots("L1I") /\ e \in Entry /\ e.addr = p.addr
  BY InFlight, OnlyL1I DEF Slots
<1>3. MSHR' = [MSHR EXCEPT !["L1I"][s] = f]
  BY <1>1, <1>2 DEF merge_miss
<1> HIDE DEF s
<1>4. f.addr = e.addr
  <2> HIDE DEF e
  <2>1. entry(p, e.ret).addr = p.addr
    BY DEF entry
  <2> DEFINE g == merge_flags(e, p)
  <2>2. g \in Entry /\ g.addr = e.addr
    BY <1>2 DEF merge_flags, Entry, Packet
  <2>3. merge_prefetch(e, p) = [g EXCEPT !.lvl = IF p.lvl < @ THEN p.lvl ELSE @]
    BY DEF merge_prefetch
  <2> HIDE DEF g
  <2>4. merge_prefetch(e, p).addr = e.addr
    BY <2>2, <2>3 DEF Entry
  <2> QED
    BY <1>2, <2>1, <2>4 DEF merge_demand
<1> HIDE DEF e, f
<1>5. \A t \in Slots("L1I") : MSHR'["L1I"][t] = IF t = s THEN f ELSE MSHR["L1I"][t]
  BY <1>1, <1>3
<1>6. \A t \in Slots("L1I") : MSHR'["L1I"][t].addr = MSHR["L1I"][t].addr
  BY <1>4, <1>5 DEF e
<1> QED
  BY <1>6 DEF Missed

-------------------------------------------------------------------------------
(* Every step keeps the waiting instructions served *)

(* A new instruction does not wait yet. *)
LEMMA ReadServed ==
  ASSUME FCInv, Served(IFETCH_BUFFER, trace, RQ, MSHR, PROCESSED), read_from_trace
  PROVE  Served(IFETCH_BUFFER', trace', RQ', MSHR', PROCESSED')
<1> DEFINE x == [id |-> Len(trace) + 1, fetched |-> "NO"]
           b == Append(IFETCH_BUFFER, x)
<1>1. PICK a \in CoreAddr["L1I"] : trace' = Append(trace, a)
  BY DEF read_from_trace
<1>2. IFETCH_BUFFER' = b /\ UNCHANGED <<RQ, MSHR, PROCESSED>>
  BY DEF read_from_trace, vars
<1>3. /\ InOrder(trace, IFETCH_BUFFER, ROB, num_retired) /\ trace \in Seq(Addr)
      /\ IFETCH_BUFFER \in Seq(Fetched)
  BY DEF FCInv, InOrder
<1>4. a \in Addr
  BY <1>1, AddrAssumption, OnlyL1I
<1>5. Len(trace) \in Nat /\ \A i \in 1 .. Len(trace) : trace'[i] = trace[i]
  BY <1>1, <1>3, <1>4, AppendIs
<1>6. x \in Fetched /\ x.fetched = "NO"
  BY <1>5 DEF Fetched
<1> HIDE DEF x
<1>7. /\ DOMAIN b = 1 .. Len(IFETCH_BUFFER) + 1 /\ Len(IFETCH_BUFFER) \in Nat
      /\ b[Len(IFETCH_BUFFER) + 1] = x
      /\ \A j \in 1 .. Len(IFETCH_BUFFER) : b[j] = IFETCH_BUFFER[j] /\ j \in DOMAIN IFETCH_BUFFER
  BY <1>3, <1>6
<1> HIDE DEF b
<1>8. ASSUME NEW j \in DOMAIN b, b[j].fetched = "INFLIGHT"
      PROVE  UnderWay(RQ, MSHR, PROCESSED, trace'[b[j].id])
  <2>1. j \in DOMAIN IFETCH_BUFFER /\ b[j] = IFETCH_BUFFER[j]
    BY <1>6, <1>7, <1>8
  <2>2. trace'[b[j].id] = trace[IFETCH_BUFFER[j].id]
    BY <1>3, <1>5, <2>1, Buffered
  <2> QED
    BY <1>8, <2>1, <2>2 DEF Served
<1> QED
  BY <1>2, <1>8 DEF Served

(* The instructions that begin to wait are those on the requested line. *)
LEMMA FetchServed ==
  ASSUME ServedInv, fetch_instruction
  PROVE  Served(IFETCH_BUFFER', trace', RQ', MSHR', PROCESSED')
<1>1. PICK j \in Unfetched :
        /\ ~refused(fetch_packet(j))
        /\ RQ' = rq_after_add(RQ, "L1I", fetch_packet(j))
        /\ IFETCH_BUFFER' = mark(fetch_packet(j).addr, "INFLIGHT")
        /\ UNCHANGED <<MSHR, PROCESSED, trace>>
  BY DEF fetch_instruction
<1> DEFINE p == fetch_packet(j)
           id == IFETCH_BUFFER[j].id
<1>2. /\ InOrder(trace, IFETCH_BUFFER, ROB, num_retired) /\ IFETCH_BUFFER \in Seq(Fetched)
      /\ QueuesOK(RQ) /\ WQ["L1I"] = << >>
      /\ Served(IFETCH_BUFFER, trace, RQ, MSHR, PROCESSED)
  BY DEF ServedInv, FCInv, IInv, InOrder
<1>3. id \in Nat /\ trace[id] \in Addr
  BY <1>2, Buffered DEF Unfetched
<1> HIDE DEF id
<1>4. p = read_packet("L1I", trace[id], 0, id)
  BY DEF fetch_packet, line, id
<1>5. p \in Packet
  BY <1>3, <1>4, CorePacket
<1>6. RQ' = rq_after_add(RQ, "L1I", p) /\ IFETCH_BUFFER' = mark(p.addr, "INFLIGHT") /\ ~refused(p)
  BY <1>1
<1> HIDE DEF p
<1>7. Asked(RQ', p.addr) /\ \A a : Asked(RQ, a) => Asked(RQ', a)
  BY <1>2, <1>5, <1>6, AddAsked
<1>8. \A a : UnderWay(RQ, MSHR, PROCESSED, a) => UnderWay(RQ', MSHR, PROCESSED, a)
  BY <1>7 DEF UnderWay
<1>9. UnderWay(RQ', MSHR, PROCESSED, p.addr)
  BY <1>7 DEF UnderWay
<1> DEFINE b == mark(p.addr, "INFLIGHT")
<1>10. ASSUME NEW k \in DOMAIN b, b[k].fetched = "INFLIGHT"
       PROVE  UnderWay(RQ', MSHR, PROCESSED, trace[b[k].id])
  <2>1. /\ k \in DOMAIN IFETCH_BUFFER /\ b[k].id = IFETCH_BUFFER[k].id
        /\ b[k].fetched = IF trace[b[k].id] = p.addr THEN "INFLIGHT" ELSE IFETCH_BUFFER[k].fetched
    BY <1>2, MarkIs DEF line
  <2> HIDE DEF b
  <2>2. CASE trace[b[k].id] = p.addr
    BY <1>9, <2>2
  <2>3. CASE trace[b[k].id] # p.addr
    BY <1>2, <1>8, <1>10, <2>1, <2>3 DEF Served
  <2> QED
    BY <2>2, <2>3
<1> HIDE DEF b
<1>11. Served(b, trace, RQ', MSHR, PROCESSED)
  BY <1>10 DEF Served
<1> QED
  BY <1>1, <1>6, <1>11 DEF b

(* The consumed answer was for the instructions that no longer wait. *)
LEMMA CompleteServed ==
  ASSUME ServedInv, complete_instr_fetch
  PROVE  Served(IFETCH_BUFFER', trace', RQ', MSHR', PROCESSED')
<1> DEFINE h == Head(PROCESSED["L1I"])
           b == mark(h, "COMPLETED")
<1>1. /\ PROCESSED["L1I"] # << >> /\ PROCESSED' = [PROCESSED EXCEPT !["L1I"] = Tail(@)]
      /\ IFETCH_BUFFER' = b /\ UNCHANGED <<RQ, MSHR, trace>>
  BY DEF complete_instr_fetch, UpdateRob
<1>2. /\ IFETCH_BUFFER \in Seq(Fetched) /\ PROCESSED \in [Caches -> Seq(Addr)]
      /\ Served(IFETCH_BUFFER, trace, RQ, MSHR, PROCESSED)
  BY DEF ServedInv, FCInv, IInv, InOrder
<1>3. \A a : a # h /\ HasAnswer(PROCESSED, a) => HasAnswer(PROCESSED', a)
  BY <1>1, <1>2, TailAnswers
<1> HIDE DEF h
<1>4. \A a : a # h /\ UnderWay(RQ, MSHR, PROCESSED, a) => UnderWay(RQ, MSHR, PROCESSED', a)
  BY <1>3 DEF UnderWay
<1>5. ASSUME NEW k \in DOMAIN b, b[k].fetched = "INFLIGHT"
      PROVE  UnderWay(RQ, MSHR, PROCESSED', trace[b[k].id])
  <2>1. /\ k \in DOMAIN IFETCH_BUFFER /\ b[k].id = IFETCH_BUFFER[k].id
        /\ b[k].fetched = IF trace[b[k].id] = h THEN "COMPLETED" ELSE IFETCH_BUFFER[k].fetched
    BY <1>2, MarkIs DEF line
  <2> HIDE DEF b
  <2>2. trace[b[k].id] # h /\ IFETCH_BUFFER[k].fetched = "INFLIGHT"
    BY <1>5, <2>1
  <2> QED
    BY <1>2, <1>4, <2>1, <2>2 DEF Served
<1> HIDE DEF b
<1>6. Served(b, trace, RQ, MSHR, PROCESSED')
  BY <1>5 DEF Served
<1> QED
  BY <1>1, <1>6

LEMMA DispatchServed ==
  ASSUME ServedInv, decode_and_dispatch
  PROVE  Served(IFETCH_BUFFER', trace', RQ', MSHR', PROCESSED')
<1> DEFINE b == Tail(IFETCH_BUFFER)
<1>1. IFETCH_BUFFER # << >> /\ IFETCH_BUFFER' = b /\ UNCHANGED <<trace, RQ, MSHR, PROCESSED>>
  BY DEF decode_and_dispatch, vars
<1>2. /\ IFETCH_BUFFER \in Seq(Fetched)
      /\ Served(IFETCH_BUFFER, trace, RQ, MSHR, PROCESSED)
  BY DEF ServedInv, FCInv, InOrder
<1>3. /\ DOMAIN IFETCH_BUFFER = 1 .. Len(IFETCH_BUFFER) /\ Len(IFETCH_BUFFER) \in Nat \ {0}
      /\ DOMAIN b = 1 .. Len(IFETCH_BUFFER) - 1
      /\ \A i \in DOMAIN b : b[i] = IFETCH_BUFFER[i + 1]
  BY <1>1, <1>2, TailOf
<1> HIDE DEF b
<1>4. \A i \in DOMAIN b : i + 1 \in DOMAIN IFETCH_BUFFER /\ b[i] = IFETCH_BUFFER[i + 1]
  BY <1>3
<1>5. Served(b, trace, RQ, MSHR, PROCESSED)
  BY <1>2, <1>4 DEF Served
<1> QED
  BY <1>1, <1>5

(* The victim of a fetch is never written back. *)
LEMMA NoNormalFill ==
  ASSUME FCInv, NEW s \in Slots("L1I"), MSHR["L1I"][s].ret = "COMPLETED"
  PROVE  MSHR["L1I"][s].addr \in Addr /\ ~FillNormal("L1I", s)
<1>1. MshrOK(MSHR) /\ MshrInv(MSHR, trace)
  BY DEF FCInv, IInv
<1>2. MSHR["L1I"][s].addr \in Addr
  BY <1>1, FillMshrOK, OnlyL1I DEF Entry
<1> QED
  BY <1>1, <1>2, AddrAssumption DEF FillNormal, MshrInv, Fetch

LEMMA FillKeepsWq == ASSUME FCInv, handle_fill("L1I") PROVE UNCHANGED WQ
<1>1. PICK s \in Slots("L1I") :
        FillNormal("L1I", s) \/ FillSpec("L1I", s) \/ FillSpecRetry("L1I", s)
  BY DEF handle_fill
<1>2. ~FillNormal("L1I", s)
  BY NoNormalFill DEF FillNormal
<1> QED
  BY <1>1, <1>2 DEF FillSpec, FillSpecRetry

(* A fill turns the miss into an answer, or puts the entry back. *)
LEMMA FillServed ==
  ASSUME ServedInv, NotFull, handle_fill("L1I"), NEW a \in Addr,
         UnderWay(RQ, MSHR, PROCESSED, a)
  PROVE  UnderWay(RQ', MSHR', PROCESSED', a)
<1>1. PICK s \in Slots("L1I") :
        FillNormal("L1I", s) \/ FillSpec("L1I", s) \/ FillSpecRetry("L1I", s)
  BY DEF handle_fill
<1> DEFINE e == MSHR["L1I"][s]
           f == [MSHR EXCEPT !["L1I"][s] = FreeEntry]
<1>2. MshrOK(MSHR) /\ MshrInv(MSHR, trace) /\ PROCESSED \in [Caches -> Seq(Addr)]
  BY DEF ServedInv, FCInv, IInv
<1>3. e.ret = "COMPLETED"
  BY <1>1 DEF FillNormal, FillSpec, FillSpecRetry
<1>4. e.addr \in Addr /\ MshrOK(f)
  BY <1>2, <1>3, FillMshrOK, OnlyL1I DEF Entry
<1>5. ~FillNormal("L1I", s)
  BY <1>3, NoNormalFill DEF ServedInv
<1>6. a # e.addr => (Missed(MSHR, a) => Missed(f, a))
  BY <1>2, FreeMissed
<1>7. CASE FillSpec("L1I", s)
  <2>1. /\ MSHR' = return_data(f, uppers("L1I", e), e.addr)
        /\ PROCESSED' = processed_after("L1I", e) /\ UNCHANGED <<RQ, WQ>>
    BY <1>7 DEF FillSpec
  <2> HIDE DEF e, f
  <2>2. HasAnswer(PROCESSED', e.addr) /\ (HasAnswer(PROCESSED, a) => HasAnswer(PROCESSED', a))
    BY <1>2, <1>4, <2>1, AnswerAdded
  <2>3. Missed(f, a) => Missed(MSHR', a)
    BY <1>4, <2>1, ReturnMissed
  <2> QED
    BY <1>6, <2>1, <2>2, <2>3 DEF UnderWay
<1>8. CASE FillSpecRetry("L1I", s)
  <2>1. "L1I" \in DOMAIN MSHR /\ DOMAIN MSHR["L1I"] = Slots("L1I")
    BY <1>2, SlotsAre, OnlyL1I DEF MshrOK
  <2>2. /\ MSHR' = [f EXCEPT !["L1I"] = add_mshr(@, e, "COMPLETED")]
        /\ UNCHANGED <<RQ, WQ, PROCESSED>>
    BY <1>8, <2>1 DEF FillSpecRetry
  <2>3. f["L1I"][s].addr = 0 /\ DOMAIN f["L1I"] = Slots("L1I")
    BY <2>1 DEF FreeEntry
  <2> HIDE DEF e, f
  <2>4. free_slots(f["L1I"]) # {}
    BY <2>3 DEF free_slots
  <2>5. Missed(MSHR', e.addr) /\ (Missed(f, a) => Missed(MSHR', a))
    <3> DEFINE n == [f EXCEPT !["L1I"] = add_mshr(@, e, "COMPLETED")]
    <3>1. Missed(n, e.addr) /\ (Missed(f, a) => Missed(n, a))
      BY <1>4, <2>4, AddMissed
    <3> QED
      BY <2>2, <3>1
  <2> QED
    BY <1>6, <2>2, <2>5 DEF UnderWay
<1> QED
  BY <1>1, <1>5, <1>7, <1>8

(* A hit answers the request, a miss gets an MSHR or joins one. *)
LEMMA HandleServed ==
  ASSUME ServedInv, NotFull, handle_read("L1I"), NEW a \in Addr,
         UnderWay(RQ, MSHR, PROCESSED, a)
  PROVE  UnderWay(RQ', MSHR', PROCESSED', a)
<1> DEFINE p == Head(RQ["L1I"])
           q == [RQ EXCEPT !["L1I"] = Tail(@)]
<1>1. MshrOK(MSHR) /\ QueuesOK(RQ) /\ RqInv(RQ, trace) /\ PROCESSED \in [Caches -> Seq(Addr)]
  BY DEF ServedInv, FCInv, IInv
<1>2. RQ["L1I"] # << >>
  BY DEF handle_read, ReadHit, ReadSpecHit, ReadMiss, ReadMerge
<1>3. p \in Packet /\ p.addr \in Addr
  BY <1>1, <1>2, PopFetch
<1>4. a # p.addr => (Asked(RQ, a) => Asked(q, a))
  BY <1>1, <1>2, TailAsked
<1>5. CASE ReadHit("L1I") \/ ReadSpecHit("L1I")
  <2>1. /\ MSHR' = return_data(MSHR, uppers("L1I", p), p.addr)
        /\ PROCESSED' = processed_after("L1I", p) /\ RQ' = q /\ UNCHANGED WQ
    BY <1>5 DEF ReadHit, ReadSpecHit
  <2> HIDE DEF p, q
  <2>2. HasAnswer(PROCESSED', p.addr) /\ (HasAnswer(PROCESSED, a) => HasAnswer(PROCESSED', a))
    BY <1>1, <1>3, <2>1, AnswerAdded
  <2>3. Missed(MSHR, a) => Missed(MSHR', a)
    BY <1>1, <1>3, <2>1, ReturnMissed
  <2> QED
    BY <1>4, <2>1, <2>2, <2>3 DEF UnderWay
<1>6. CASE ReadMiss("L1I")
  <2>1. /\ new_miss("L1I", p, q) /\ free_slots(MSHR["L1I"]) # {}
        /\ UNCHANGED <<WQ, PROCESSED>>
    BY <1>6 DEF ReadMiss
  <2>2. RQ' = q /\ MSHR' = [MSHR EXCEPT !["L1I"] = add_mshr(@, p, "INFLIGHT")]
    BY <2>1, OnlyL1I DEF new_miss
  <2> HIDE DEF p, q
  <2>3. Missed(MSHR', p.addr) /\ (Missed(MSHR, a) => Missed(MSHR', a))
    <3> DEFINE n == [MSHR EXCEPT !["L1I"] = add_mshr(@, p, "INFLIGHT")]
    <3>1. Missed(n, p.addr) /\ (Missed(MSHR, a) => Missed(n, a))
      BY <1>1, <2>1, AddMissed
    <3> QED
      BY <2>2, <3>1
  <2> QED
    BY <1>4, <2>1, <2>2, <2>3 DEF UnderWay
<1>7. CASE ReadMerge("L1I")
  <2>1. /\ merge_miss("L1I", p) /\ check_mshr(MSHR["L1I"], p.addr) # {} /\ RQ' = q
        /\ UNCHANGED <<WQ, PROCESSED>>
    BY <1>7 DEF ReadMerge
  <2>2. Missed(MSHR, p.addr)
    BY <1>1, <2>1, SlotsAre, OnlyL1I DEF Missed, check_mshr
  <2> HIDE DEF p, q
  <2>3. \A b : Missed(MSHR, b) => Missed(MSHR', b)
    BY <1>1, <1>3, <2>1, MergeMissed
  <2> QED
    BY <1>4, <2>1, <2>2, <2>3 DEF UnderWay
<1> QED
  BY <1>5, <1>6, <1>7 DEF handle_read

(* A step of the L1I that leaves every line under way. *)
LEMMA CacheServed ==
  ASSUME ServedInv, UNCHANGED core,
         \A a \in Addr : UnderWay(RQ, MSHR, PROCESSED, a) => UnderWay(RQ', MSHR', PROCESSED', a)
  PROVE  Served(IFETCH_BUFFER', trace', RQ', MSHR', PROCESSED')
<1>1. /\ InOrder(trace, IFETCH_BUFFER, ROB, num_retired)
      /\ Served(IFETCH_BUFFER, trace, RQ, MSHR, PROCESSED)
  BY DEF ServedInv, FCInv
<1>2. Served(IFETCH_BUFFER, trace, RQ', MSHR', PROCESSED')
  BY <1>1, StillServed
<1> QED
  BY <1>2 DEF core

LEMMA ServedStep == ASSUME ServedInv, NotFull, [FCNext]_fc_vars PROVE ServedInv'
<1>1. FCInv'
  BY FCStepOK DEF ServedInv
<1> DEFINE S == Served(IFETCH_BUFFER, trace, RQ, MSHR, PROCESSED)
<1>2. FCInv /\ WQ["L1I"] = << >> /\ S
  BY DEF ServedInv
<1>3. S' /\ UNCHANGED WQ
  <2>1. CASE UNCHANGED fc_vars
    BY <1>2, <2>1 DEF fc_vars, vars, core
  <2>2. CASE read_from_trace
    <3>1. UNCHANGED WQ
      BY <2>2 DEF read_from_trace, vars
    <3> QED
      BY <1>2, <2>2, <3>1, ReadServed
  <2>3. CASE fetch_instruction
    <3>1. UNCHANGED WQ
      BY <2>3 DEF fetch_instruction
    <3> QED
      BY <2>3, <3>1, FetchServed
  <2>4. CASE complete_instr_fetch
    <3>1. UNCHANGED WQ
      BY <2>4 DEF complete_instr_fetch, UpdateRob
    <3> QED
      BY <2>4, <3>1, CompleteServed
  <2>5. CASE decode_and_dispatch
    <3>1. UNCHANGED WQ
      BY <2>5 DEF decode_and_dispatch, vars
    <3> QED
      BY <2>5, <3>1, DispatchServed
  <2>6. CASE retire_rob
    BY <1>2, <2>6 DEF retire_rob
  <2>7. CASE cache_step(handle_fill("L1I"))
    <3>1. UNCHANGED core /\ handle_fill("L1I")
      BY <2>7 DEF cache_step
    <3>2. UNCHANGED WQ
      BY <1>2, <3>1, FillKeepsWq
    <3>3. \A a \in Addr : UnderWay(RQ, MSHR, PROCESSED, a) =>
                            UnderWay(RQ', MSHR', PROCESSED', a)
      BY <3>1, FillServed
    <3> QED
      BY <3>1, <3>2, <3>3, CacheServed
  <2>8. CASE cache_step(handle_read("L1I"))
    <3>1. UNCHANGED core /\ handle_read("L1I")
      BY <2>8 DEF cache_step
    <3>2. UNCHANGED WQ
      BY <3>1, Zenon DEF handle_read, ReadHit, ReadSpecHit, ReadMiss, ReadMerge
    <3>3. \A a \in Addr : UnderWay(RQ, MSHR, PROCESSED, a) =>
                            UnderWay(RQ', MSHR', PROCESSED', a)
      BY <3>1, HandleServed
    <3> QED
      BY <3>1, <3>2, <3>3, CacheServed
  <2>9. CASE cache_step(commit_blocks("L1I"))
    BY <1>2, <2>9 DEF cache_step, commit_blocks, core
  <2>10. ASSUME NEW b \in Addr, cache_step(BelowReturn("L1I", b)) PROVE S' /\ UNCHANGED WQ
    <3>1. /\ UNCHANGED core /\ UNCHANGED <<RQ, WQ, PROCESSED>>
          /\ MSHR' = return_data(MSHR, {"L1I"}, b) /\ MshrOK(MSHR)
      BY <1>2, <2>10 DEF cache_step, BelowReturn, FCInv, IInv
    <3>2. \A a : Missed(MSHR, a) => Missed(MSHR', a)
      BY <3>1, ReturnMissed
    <3>3. \A a \in Addr : UnderWay(RQ, MSHR, PROCESSED, a) =>
                            UnderWay(RQ', MSHR', PROCESSED', a)
      BY <3>1, <3>2 DEF UnderWay
    <3> QED
      BY <3>1, <3>3, CacheServed
  <2> QED
    BY <2>1, <2>2, <2>3, <2>4, <2>5, <2>6, <2>7, <2>8, <2>9, <2>10 DEF FCNext
<1> QED
  BY <1>1, <1>2, <1>3 DEF ServedInv

(* No wakeup is lost: as long as PROCESSED of the L1I has room, every        *)
(* instruction that waits for its line has a request, an MSHR entry or an   *)
(* answer for that line under way.  A full PROCESSED drops an answer        *)
(* (handle_fill, handle_read), and then nothing asks for the line again.    *)
THEOREM NoWakeupLost == FCSpec /\ []NotFull => []WaitingFetchIsServed
<1>1. FCInit => ServedInv
  <2> SUFFICES ASSUME FCInit PROVE ServedInv
    OBVIOUS
  <2>1. FCInv
    BY FCInitOK
  <2>2. WQ["L1I"] = << >> /\ IFETCH_BUFFER = << >>
    BY OnlyL1I DEF FCInit, Init
  <2> QED
    BY <2>1, <2>2 DEF ServedInv, Served
<1>2. ServedInv /\ NotFull /\ [FCNext]_fc_vars => ServedInv'
  BY ServedStep
<1>3. ServedInv => WaitingFetchIsServed
  <2> SUFFICES ASSUME ServedInv, NEW j \in DOMAIN IFETCH_BUFFER,
                      IFETCH_BUFFER[j].fetched = "INFLIGHT"
               PROVE  LET a == line(IFETCH_BUFFER[j].id)
                      IN  \/ Asked(RQ, a) \/ check_mshr(MSHR["L1I"], a) # {}
                          \/ HasAnswer(PROCESSED, a)
    BY DEF WaitingFetchIsServed, Asked, HasAnswer
  <2>1. UnderWay(RQ, MSHR, PROCESSED, line(IFETCH_BUFFER[j].id))
    BY DEF ServedInv, Served, line
  <2>2. DOMAIN MSHR["L1I"] = Slots("L1I")
    BY SlotsAre, OnlyL1I DEF ServedInv, FCInv, IInv
  <2>3. \A a : Missed(MSHR, a) => check_mshr(MSHR["L1I"], a) # {}
    BY <2>2 DEF Missed, check_mshr
  <2> QED
    BY <2>1, <2>3 DEF UnderWay
<1> QED
  BY <1>1, <1>2, <1>3, PTL DEF FCSpec
===============================================================================
