------------------------------ MODULE Dram_proofs ------------------------------
(***************************************************************************)
(* For every size, layout and latency: the channel keeps its banks,        *)
(* counters and cached indexes consistent, and implements Memory.          *)
(***************************************************************************)
EXTENDS Dram, Scan_proofs, FiniteSetTheorems

-------------------------------------------------------------------------------
(* Slots, addresses and the oldest request *)

LEMMA SlotsFinite ==
  ASSUME NEW k \in Queues
  PROVE  /\ SIZE(k) \in Nat \ {0} /\ Slots(k) \subseteq Nat /\ IsFiniteSet(Slots(k))
         /\ \A i \in Slots(k) : i < SIZE(k) /\ i # SIZE(k)
<1>1. SIZE(k) \in Nat \ {0}
  BY SizeAssumption DEF SIZE, Queues
<1>2. IsFiniteSet(0 .. SIZE(k) - 1)
  BY <1>1, FS_Interval
<1> QED
  BY <1>1, <1>2 DEF Slots

LEMMA DivMod ==
  ASSUME NEW x \in Nat, NEW y \in Nat \ {0}, NEW z \in Nat \ {0}
  PROVE  (x \div y) % z \in 0 .. z - 1
<1>1. x \div y \in Nat
  OBVIOUS
<1> QED
  BY <1>1

LEMMA BankOfAddress ==
  ASSUME NEW a \in Addr \cup {0}
  PROVE  dram_get_bank(a) \in Bank /\ dram_get_row(a) \in Nat
<1>1. a \in Nat
  BY AddrAssumption
<1>2. \A x, y \in Nat \ {0} : x * y \in Nat \ {0}
  OBVIOUS
<1> DEFINE d == DRAM_CHANNELS * DRAM_BANKS * DRAM_COLUMNS
           r == d * DRAM_RANKS
<1>3. d \in Nat \ {0}
  BY <1>2, LayoutAssumption
<1>4. r \in Nat \ {0}
  <2> HIDE DEF d
  <2> QED
    BY <1>2, <1>3, LayoutAssumption
<1>5. dram_get_bank(a) = <<(a \div DRAM_CHANNELS) % DRAM_BANKS, (a \div d) % DRAM_RANKS>>
  BY DEF dram_get_bank
<1>6. dram_get_row(a) = (a \div r) % DRAM_ROWS
  BY DEF dram_get_row
<1> HIDE DEF d, r
<1>7. /\ (a \div DRAM_CHANNELS) % DRAM_BANKS \in 0 .. DRAM_BANKS - 1
      /\ (a \div d) % DRAM_RANKS \in 0 .. DRAM_RANKS - 1
      /\ (a \div r) % DRAM_ROWS \in 0 .. DRAM_ROWS - 1
  BY <1>1, <1>3, <1>4, DivMod, LayoutAssumption
<1>8. dram_get_bank(a) \in Bank
  BY <1>5, <1>7 DEF Bank
<1>9. 0 .. DRAM_ROWS - 1 \subseteq Nat
  BY LayoutAssumption
<1> QED
  BY <1>6, <1>7, <1>8, <1>9

(* i is the slot that Oldest(q, S) chooses. *)
IsOldest(q, S, i) ==
  i \in S /\ \A j \in S : q[i].event < q[j].event \/ (q[i].event = q[j].event /\ i <= j)

LEMMA OldestExists ==
  ASSUME NEW q, NEW S \in SUBSET Nat, S # {}, \A i \in S : q[i].event \in Nat
  PROVE  IsOldest(q, S, Oldest(q, S))
<1> DEFINE E == {q[i].event : i \in S}
           e == First(E)
           T == {i \in S : q[i].event = e}
<1>1. e \in E /\ \A x \in E : e <= x
  <2>1. E \in SUBSET Nat /\ E # {}
    OBVIOUS
  <2> HIDE DEF E
  <2> QED
    BY <2>1, FirstIsLeast
<1>2. T \in SUBSET Nat /\ T # {}
  BY <1>1
<1>3. First(T) \in T /\ \A x \in T : First(T) <= x
  BY <1>2, FirstIsLeast
<1> DEFINE f == First(T)
<1>4. IsOldest(q, S, f)
  <2> SUFFICES ASSUME NEW j \in S
               PROVE  q[f].event < q[j].event \/ (q[f].event = q[j].event /\ f <= j)
    BY <1>3 DEF IsOldest
  <2>1. q[f].event = e /\ e <= q[j].event /\ e \in Nat /\ q[j].event \in Nat
    BY <1>1, <1>3
  <2>2. CASE q[j].event = e
    BY <2>1, <2>2, <1>3
  <2>3. CASE q[j].event # e
    BY <2>1, <2>3
  <2> QED
    BY <2>2, <2>3
<1> HIDE DEF f
<1> QED
  BY <1>4 DEF IsOldest, Oldest

(* Oldest looks at the events of S only. *)
LEMMA OldestSame ==
  ASSUME NEW q, NEW r, NEW S \in SUBSET Nat, S # {},
         \A i \in S : q[i].event \in Nat /\ r[i].event = q[i].event
  PROVE  Oldest(r, S) = Oldest(q, S)
<1> DEFINE i == Oldest(q, S)
           j == Oldest(r, S)
<1>1. IsOldest(q, S, i)
  BY OldestExists
<1>2. IsOldest(r, S, j)
  BY OldestExists
<1> HIDE DEF i, j
<1>3. i = j
  BY <1>1, <1>2 DEF IsOldest
<1> QED
  BY <1>3 DEF i, j

-------------------------------------------------------------------------------
(* The cached indexes *)

LEMMA OldestOrNoneRange ==
  ASSUME NEW c, ChannelOK(c), NEW k \in Queues, NEW S \in SUBSET Slots(k)
  PROVE  /\ OldestOrNone(c, k, S) \in Nat
         /\ S = {} => OldestOrNone(c, k, S) = SIZE(k)
         /\ S # {} => OldestOrNone(c, k, S) \in S
<1>1. S \in SUBSET Nat /\ SIZE(k) \in Nat
  BY SlotsFinite
<1>2. \A i \in S : c.queue[k][i].event \in Nat
  BY DEF ChannelOK, Slot
<1>3. S # {} => Oldest(c.queue[k], S) \in S
  BY <1>1, <1>2, OldestExists DEF IsOldest
<1> QED
  BY <1>1, <1>3 DEF OldestOrNone

(* The indexes of queue k depend on queue k alone, on the slots of S. *)
LEMMA OldestOrNoneSame ==
  ASSUME NEW c, NEW d, ChannelOK(c), NEW k \in Queues, NEW S \in SUBSET Slots(k),
         \A i \in S : d.queue[k][i].event = c.queue[k][i].event
  PROVE  OldestOrNone(d, k, S) = OldestOrNone(c, k, S)
<1>1. S \in SUBSET Nat
  BY SlotsFinite
<1>2. \A i \in S : c.queue[k][i].event \in Nat
  BY DEF ChannelOK, Slot
<1>3. S # {} => Oldest(d.queue[k], S) = Oldest(c.queue[k], S)
  BY <1>1, <1>2, OldestSame
<1> QED
  BY <1>3 DEF OldestOrNone

LEMMA SetsOfSlots ==
  ASSUME NEW c, NEW k
  PROVE  Scheduled(c, k) \in SUBSET Slots(k) /\ Schedulable(c, k) \in SUBSET Slots(k)
BY DEF Scheduled, Schedulable

(* Everything of a channel but its cached indexes. *)
SameButIndexes(d, c) ==
  /\ d.queue = c.queue /\ d.occupancy = c.occupancy /\ d.scheduled = c.scheduled
  /\ d.bank = c.bank /\ d.write_mode = c.write_mode /\ d.dbus = c.dbus

LEMMA UpdateSchedule ==
  ASSUME NEW c, ChannelOK(c), NEW k \in Queues
  PROVE  LET d == update_schedule_cycle(c, k)
         IN  /\ ChannelOK(d) /\ SameButIndexes(d, c)
             /\ d.next_process = c.next_process
             /\ d.next_schedule =
                  [c.next_schedule EXCEPT ![k] = OldestOrNone(c, k, Schedulable(c, k))]
<1> DEFINE x == OldestOrNone(c, k, Schedulable(c, k))
<1>1. x \in Nat
  BY OldestOrNoneRange, SetsOfSlots
<1>2. update_schedule_cycle(c, k) = [c EXCEPT !.next_schedule[k] = x]
  BY DEF update_schedule_cycle
<1> HIDE DEF x
<1>3. ChannelOK([c EXCEPT !.next_schedule[k] = x])
  BY <1>1 DEF ChannelOK
<1> QED
  BY <1>2, <1>3 DEF ChannelOK, SameButIndexes, x

LEMMA UpdateProcess ==
  ASSUME NEW c, ChannelOK(c), NEW k \in Queues
  PROVE  LET d == update_process_cycle(c, k)
         IN  /\ ChannelOK(d) /\ SameButIndexes(d, c)
             /\ d.next_schedule = c.next_schedule
             /\ d.next_process =
                  [c.next_process EXCEPT ![k] = OldestOrNone(c, k, Scheduled(c, k))]
<1> DEFINE x == OldestOrNone(c, k, Scheduled(c, k))
<1>1. x \in Nat
  BY OldestOrNoneRange, SetsOfSlots
<1>2. update_process_cycle(c, k) = [c EXCEPT !.next_process[k] = x]
  BY DEF update_process_cycle
<1> HIDE DEF x
<1>3. ChannelOK([c EXCEPT !.next_process[k] = x])
  BY <1>1 DEF ChannelOK
<1> QED
  BY <1>2, <1>3 DEF ChannelOK, SameButIndexes, x

-------------------------------------------------------------------------------
(* The invariant, as a property of a channel c whose queue a is active *)

SlotOK(c, a, k, i) ==
  /\ c.queue[k][i].addr # 0
  /\ k = a
  /\ c.bank[dram_get_bank(c.queue[k][i].addr)].working
  /\ c.bank[dram_get_bank(c.queue[k][i].addr)].request_index = i

BusyOK(c, b, k, i) ==
  /\ k \in Queues /\ i \in Slots(k)
  /\ c.queue[k][i].scheduled /\ dram_get_bank(c.queue[k][i].addr) = b

BankOK(c, b) ==
  IF c.bank[b].working
  THEN BusyOK(c, b, c.bank[b].kind, c.bank[b].request_index)
  ELSE c.bank[b].kind = "none" /\ c.bank[b].request_index = NoIndex

BanksOK(c, a) ==
  /\ \A k \in Queues : \A i \in Scheduled(c, k) : SlotOK(c, a, k, i)
  /\ \A b \in Bank : BankOK(c, b)

Used(c, k) == {i \in Slots(k) : c.queue[k][i].addr # 0}

Counted(c) ==
  \A k \in Queues : /\ c.scheduled[k] = Cardinality(Scheduled(c, k))
                     /\ c.occupancy[k] = Cardinality(Used(c, k))

FreshS(c, k) == c.next_schedule[k] = OldestOrNone(c, k, Schedulable(c, k))
FreshP(c, k) == c.next_process[k] = OldestOrNone(c, k, Scheduled(c, k))
Fresh(c) == \A k \in Queues : FreshS(c, k) /\ FreshP(c, k)

Unique(c) ==
  \A k \in Queues : \A i, j \in Slots(k) :
    c.queue[k][i].addr # 0 /\ c.queue[k][i].addr = c.queue[k][j].addr => i = j

Good(c, a) == ChannelOK(c) /\ BanksOK(c, a) /\ Counted(c) /\ Fresh(c) /\ Unique(c)

(* All that BanksOK, Counted and Unique read. *)
LEMMA GoodButIndexes ==
  ASSUME NEW c, NEW d, NEW a, ChannelOK(d), SameButIndexes(d, c)
  PROVE  /\ BanksOK(d, a) <=> BanksOK(c, a)
         /\ Counted(d) <=> Counted(c)
         /\ Unique(d) <=> Unique(c)
         /\ \A k : /\ Queued(d, k) = Queued(c, k)
                   /\ Scheduled(d, k) = Scheduled(c, k)
                   /\ Schedulable(d, k) = Schedulable(c, k)
<1>1. \A k : /\ Queued(d, k) = Queued(c, k) /\ Scheduled(d, k) = Scheduled(c, k)
             /\ Schedulable(d, k) = Schedulable(c, k) /\ Used(d, k) = Used(c, k)
  BY DEF SameButIndexes, Queued, Scheduled, Schedulable, Used
<1>2. BanksOK(d, a) <=> BanksOK(c, a)
  <2>1. d.queue = c.queue /\ d.bank = c.bank
    BY DEF SameButIndexes
  <2>2. \A k, i : SlotOK(d, a, k, i) <=> SlotOK(c, a, k, i)
    BY <2>1 DEF SlotOK
  <2>3. \A b : BankOK(d, b) <=> BankOK(c, b)
    BY <2>1 DEF BankOK, BusyOK
  <2> QED
    BY <1>1, <2>2, <2>3 DEF BanksOK
<1>3. Counted(d) <=> Counted(c)
  BY <1>1 DEF SameButIndexes, Counted
<1>4. Unique(d) <=> Unique(c)
  BY DEF SameButIndexes, Unique
<1> QED
  BY <1>1, <1>2, <1>3, <1>4

(* The banks depend on the scheduled slots only. *)
LEMMA BanksKept ==
  ASSUME NEW c, NEW m, NEW x, BanksOK(c, x), m.bank = c.bank,
         \A k \in Queues : /\ Scheduled(m, k) = Scheduled(c, k)
                           /\ \A i \in Scheduled(c, k) : m.queue[k][i] = c.queue[k][i]
  PROVE  BanksOK(m, x)
<1>1. ASSUME NEW k \in Queues, NEW i \in Scheduled(m, k)
      PROVE  SlotOK(m, x, k, i)
  <2>1. SlotOK(c, x, k, i) /\ m.queue[k][i] = c.queue[k][i]
    BY DEF BanksOK
  <2> QED
    BY <2>1 DEF SlotOK
<1>2. ASSUME NEW b \in Bank, NEW k, NEW i, BusyOK(c, b, k, i)
      PROVE  BusyOK(m, b, k, i)
  <2>1. i \in Scheduled(c, k) /\ k \in Queues
    BY <1>2 DEF BusyOK, Scheduled
  <2>2. m.queue[k][i] = c.queue[k][i]
    BY <2>1
  <2> QED
    BY <1>2, <2>2 DEF BusyOK
<1>3. ASSUME NEW b \in Bank PROVE BankOK(m, b)
  <2>1. BankOK(c, b)
    BY DEF BanksOK
  <2> QED
    BY <1>2, <2>1 DEF BankOK
<1> QED
  BY <1>1, <1>3 DEF BanksOK

(* An index stays fresh while its set and the events in it do not change. *)
LEMMA FreshKept ==
  ASSUME NEW c, NEW d, ChannelOK(c), NEW k \in Queues
  PROVE  /\ /\ FreshS(c, k) /\ d.next_schedule[k] = c.next_schedule[k]
            /\ Schedulable(d, k) = Schedulable(c, k)
            /\ \A i \in Schedulable(c, k) : d.queue[k][i].event = c.queue[k][i].event
            => FreshS(d, k)
         /\ /\ FreshP(c, k) /\ d.next_process[k] = c.next_process[k]
            /\ Scheduled(d, k) = Scheduled(c, k)
            /\ \A i \in Scheduled(c, k) : d.queue[k][i].event = c.queue[k][i].event
            => FreshP(d, k)
<1>1. ASSUME NEW S \in SUBSET Slots(k), \A i \in S : d.queue[k][i].event = c.queue[k][i].event
      PROVE  OldestOrNone(d, k, S) = OldestOrNone(c, k, S)
  BY <1>1, OldestOrNoneSame
<1> QED
  BY <1>1, SetsOfSlots DEF FreshS, FreshP

(* Bringing the index of queue k up to date makes it fresh and touches no  *)
(* other.                                                                  *)
LEMMA UpdateScheduleFresh ==
  ASSUME NEW c, ChannelOK(c), NEW k \in Queues
  PROVE  LET d == update_schedule_cycle(c, k)
         IN  /\ FreshS(d, k)
             /\ \A j \in Queues : FreshP(c, j) => FreshP(d, j)
             /\ \A j \in Queues : j # k /\ FreshS(c, j) => FreshS(d, j)
<1> DEFINE d == update_schedule_cycle(c, k)
<1>1. /\ ChannelOK(d) /\ SameButIndexes(d, c) /\ d.next_process = c.next_process
      /\ d.next_schedule = [c.next_schedule EXCEPT ![k] = OldestOrNone(c, k, Schedulable(c, k))]
  BY UpdateSchedule
<1> HIDE DEF d
<1>2. \A j : Scheduled(d, j) = Scheduled(c, j) /\ Schedulable(d, j) = Schedulable(c, j)
  BY <1>1, GoodButIndexes
<1>3. \A j, S : OldestOrNone(d, j, S) = OldestOrNone(c, j, S)
  BY <1>1 DEF SameButIndexes, OldestOrNone
<1>4. c.next_schedule \in [Queues -> Nat]
  BY DEF ChannelOK
<1> QED
  BY <1>1, <1>2, <1>3, <1>4 DEF FreshS, FreshP, d

LEMMA UpdateProcessFresh ==
  ASSUME NEW c, ChannelOK(c), NEW k \in Queues
  PROVE  LET d == update_process_cycle(c, k)
         IN  /\ FreshP(d, k)
             /\ \A j \in Queues : FreshS(c, j) => FreshS(d, j)
             /\ \A j \in Queues : j # k /\ FreshP(c, j) => FreshP(d, j)
<1> DEFINE d == update_process_cycle(c, k)
<1>1. /\ ChannelOK(d) /\ SameButIndexes(d, c) /\ d.next_schedule = c.next_schedule
      /\ d.next_process = [c.next_process EXCEPT ![k] = OldestOrNone(c, k, Scheduled(c, k))]
  BY UpdateProcess
<1> HIDE DEF d
<1>2. \A j : Scheduled(d, j) = Scheduled(c, j) /\ Schedulable(d, j) = Schedulable(c, j)
  BY <1>1, GoodButIndexes
<1>3. \A j, S : OldestOrNone(d, j, S) = OldestOrNone(c, j, S)
  BY <1>1 DEF SameButIndexes, OldestOrNone
<1>4. c.next_process \in [Queues -> Nat]
  BY DEF ChannelOK
<1> QED
  BY <1>1, <1>2, <1>3, <1>4 DEF FreshS, FreshP, d

-------------------------------------------------------------------------------
(* One slot changes *)

(* m has the queues of c, but for slot i of queue k, which holds s. *)
SlotSet(c, m, k, i, s) ==
  /\ m.queue[k] = [c.queue[k] EXCEPT ![i] = s]
  /\ \A j \in Queues : j # k => m.queue[j] = c.queue[j]

(* What that makes of the sets of slots. *)
SlotEffect(c, m, k, i, s) ==
  /\ m.queue[k][i] = s
  /\ \A j \in Slots(k) : j # i => m.queue[k][j] = c.queue[k][j]
  /\ \A j \in Queues : m.queue[j] \in [Slots(j) -> Slot]
  /\ Scheduled(m, k) = IF s.scheduled THEN Scheduled(c, k) \cup {i}
                                      ELSE Scheduled(c, k) \ {i}
  /\ Used(m, k) = IF s.addr # 0 THEN Used(c, k) \cup {i} ELSE Used(c, k) \ {i}
  /\ Schedulable(m, k) = IF s.addr # 0 /\ ~s.scheduled
                         THEN Schedulable(c, k) \cup {i} ELSE Schedulable(c, k) \ {i}
  /\ \A j \in Queues : j # k => /\ Scheduled(m, j) = Scheduled(c, j)
                                /\ Used(m, j) = Used(c, j)
                                /\ Schedulable(m, j) = Schedulable(c, j)
                                /\ Queued(m, j) = Queued(c, j)

LEMMA SlotSetSets ==
  ASSUME NEW c, NEW m, ChannelOK(c), NEW k \in Queues, NEW i \in Slots(k), NEW s \in Slot,
         SlotSet(c, m, k, i, s)
  PROVE  SlotEffect(c, m, k, i, s)
<1>1. c.queue[k] \in [Slots(k) -> Slot] /\ \A j \in Queues : c.queue[j] \in [Slots(j) -> Slot]
  BY DEF ChannelOK
<1>2. /\ m.queue[k][i] = s
      /\ \A j \in Slots(k) : j # i => m.queue[k][j] = c.queue[k][j]
      /\ m.queue[k] \in [Slots(k) -> Slot]
  BY <1>1 DEF SlotSet
<1>3. \A j \in Queues : m.queue[j] \in [Slots(j) -> Slot]
  BY <1>1, <1>2 DEF SlotSet
<1>4. s.scheduled \in BOOLEAN /\ \A j \in Slots(k) : c.queue[k][j].scheduled \in BOOLEAN
  BY <1>1 DEF Slot
<1>5. Scheduled(m, k) = IF s.scheduled THEN Scheduled(c, k) \cup {i} ELSE Scheduled(c, k) \ {i}
  BY <1>2, <1>4 DEF Scheduled
<1>6. Used(m, k) = IF s.addr # 0 THEN Used(c, k) \cup {i} ELSE Used(c, k) \ {i}
  BY <1>2 DEF Used
<1>7. Schedulable(m, k) = IF s.addr # 0 /\ ~s.scheduled
                          THEN Schedulable(c, k) \cup {i} ELSE Schedulable(c, k) \ {i}
  BY <1>2, <1>4 DEF Schedulable
<1>8. \A j \in Queues : j # k => /\ Scheduled(m, j) = Scheduled(c, j)
                                 /\ Used(m, j) = Used(c, j)
                                 /\ Schedulable(m, j) = Schedulable(c, j)
                                 /\ Queued(m, j) = Queued(c, j)
  BY DEF SlotSet, Scheduled, Used, Schedulable, Queued
<1> QED
  BY <1>2, <1>3, <1>5, <1>6, <1>7, <1>8 DEF SlotEffect

(* Adding or removing a slot changes a count by one. *)
LEMMA CountSlots ==
  ASSUME NEW k \in Queues, NEW S \in SUBSET Slots(k), NEW i \in Slots(k)
  PROVE  /\ Cardinality(S) \in Nat
         /\ i \notin S => Cardinality(S \cup {i}) = Cardinality(S) + 1
         /\ i \in S => Cardinality(S \ {i}) = Cardinality(S) - 1 /\ Cardinality(S) > 0
<1>1. IsFiniteSet(S)
  BY SlotsFinite, FS_Subset
<1>2. Cardinality(S) \in Nat
  BY <1>1, FS_CardinalityType
<1>3. i \notin S => Cardinality(S \cup {i}) = Cardinality(S) + 1
  BY <1>1, FS_AddElement
<1>4. i \in S => Cardinality(S \ {i}) = Cardinality(S) - 1
  BY <1>1, FS_RemoveElement
<1>5. i \in S => Cardinality(S) # 0
  BY <1>1, FS_EmptySet
<1> QED
  BY <1>2, <1>3, <1>4, <1>5

(* The occupancy tells whether a slot is free. *)
LEMMA RoomMeansFree ==
  ASSUME NEW c, ChannelOK(c), Counted(c), NEW k \in Queues, c.occupancy[k] # SIZE(k)
  PROVE  check_dram_queue(c, k, 0) # {}
<1>1. Cardinality(Slots(k)) = SIZE(k)
  <2>1. SIZE(k) \in Nat \ {0}
    BY SlotsFinite
  <2>2. Cardinality(0 .. SIZE(k) - 1) = SIZE(k)
    BY <2>1, FS_Interval
  <2> QED
    BY <2>2 DEF Slots
<1>2. Cardinality(Used(c, k)) # SIZE(k)
  BY DEF Counted
<1>3. Used(c, k) # Slots(k)
  BY <1>1, <1>2
<1> QED
  BY <1>3 DEF Used, check_dram_queue

-------------------------------------------------------------------------------
(* The operations keep a channel good *)

LEMMA InsertGood ==
  ASSUME NEW c, NEW x, Good(c, x), NEW k \in Queues, NEW a \in Addr, NEW event \in Nat,
         check_dram_queue(c, k, a) = {}, c.occupancy[k] # SIZE(k)
  PROVE  LET d == Insert(c, k, a, event)
         IN  /\ Good(d, x) /\ d.write_mode = c.write_mode /\ d.dbus = c.dbus
             /\ Queued(d, k) = Queued(c, k) \cup {a}
             /\ \A j \in Queues : j # k => Queued(d, j) = Queued(c, j)
<1> DEFINE i == First(check_dram_queue(c, k, 0))
           s == [addr |-> a, scheduled |-> FALSE, event |-> event]
           m == [c EXCEPT !.queue[k][i] = s, !.occupancy[k] = @ + 1]
           d == update_schedule_cycle(m, k)
<1>1. ChannelOK(c) /\ BanksOK(c, x) /\ Counted(c) /\ Fresh(c) /\ Unique(c)
  BY DEF Good
<1>2. check_dram_queue(c, k, 0) # {}
  BY <1>1, RoomMeansFree
<1>3. Insert(c, k, a, event) = d
  BY <1>2 DEF Insert
<1>4. i \in Slots(k) /\ c.queue[k][i].addr = 0
  <2>1. check_dram_queue(c, k, 0) \in SUBSET Nat
    BY SlotsFinite DEF check_dram_queue
  <2>2. First(check_dram_queue(c, k, 0)) \in check_dram_queue(c, k, 0)
    BY <2>1, <1>2, FirstIsLeast
  <2> QED
    BY <2>2 DEF check_dram_queue
<1>5. a # 0 /\ s \in Slot
  BY AddrAssumption DEF Slot
<1> HIDE DEF i
<1>6. /\ SlotSet(c, m, k, i, s)
      /\ m.occupancy = [c.occupancy EXCEPT ![k] = @ + 1]
      /\ m.scheduled = c.scheduled /\ m.bank = c.bank /\ m.write_mode = c.write_mode
      /\ m.dbus = c.dbus /\ m.next_schedule = c.next_schedule /\ m.next_process = c.next_process
  BY <1>1 DEF ChannelOK, SlotSet
<1>7. ChannelOK(m)
  <2>1. \A j \in Queues : m.queue[j] \in [Slots(j) -> Slot]
    BY <1>1, <1>4, <1>5, <1>6, SlotSetSets DEF SlotEffect
  <2>2. m.queue \in [Queues -> {m.queue[j] : j \in Queues}]
    BY <1>1 DEF ChannelOK
  <2>3. m.occupancy \in [Queues -> Nat]
    BY <1>1, <1>6 DEF ChannelOK
  <2> QED
    BY <1>1, <2>1, <2>2, <2>3 DEF ChannelOK
<1> HIDE DEF m
<1>8. /\ s.addr = a /\ ~s.scheduled /\ i \notin Scheduled(c, k) /\ i \notin Used(c, k)
  BY <1>1, <1>4 DEF BanksOK, SlotOK, BankOK, BusyOK, Scheduled, Used
<1> HIDE DEF s
<1>9. /\ m.queue[k][i] = s
      /\ \A j \in Slots(k) : j # i => m.queue[k][j] = c.queue[k][j]
      /\ \A j \in Queues : j # k => m.queue[j] = c.queue[j]
      /\ \A j \in Queues : Scheduled(m, j) = Scheduled(c, j)
      /\ Used(m, k) = Used(c, k) \cup {i}
      /\ \A j \in Queues : j # k => /\ Used(m, j) = Used(c, j)
                                    /\ Schedulable(m, j) = Schedulable(c, j)
                                    /\ Queued(m, j) = Queued(c, j)
  <2>1. /\ m.queue[k][i] = s
        /\ \A j \in Slots(k) : j # i => m.queue[k][j] = c.queue[k][j]
        /\ Scheduled(m, k) = Scheduled(c, k) \ {i}
        /\ Used(m, k) = Used(c, k) \cup {i}
        /\ \A j \in Queues : j # k => /\ Scheduled(m, j) = Scheduled(c, j)
                                      /\ Used(m, j) = Used(c, j)
                                      /\ Schedulable(m, j) = Schedulable(c, j)
                                      /\ Queued(m, j) = Queued(c, j)
    <3>1. SlotEffect(c, m, k, i, s)
      BY <1>1, <1>4, <1>5, <1>6, SlotSetSets
    <3> QED
      BY <3>1, <1>5, <1>8 DEF SlotEffect
  <2>2. Scheduled(m, k) = Scheduled(c, k)
    BY <2>1, <1>8
  <2>3. \A j \in Queues : j # k => m.queue[j] = c.queue[j]
    BY <1>6 DEF SlotSet
  <2> QED
    BY <2>1, <2>2, <2>3
<1>10. BanksOK(m, x)
  <2>1. \A j \in Queues : \A n \in Scheduled(c, j) : m.queue[j][n] = c.queue[j][n]
    BY <1>8, <1>9 DEF Scheduled
  <2>2. \A j \in Queues : Scheduled(m, j) = Scheduled(c, j)
    BY <1>9
  <2> QED
    BY <1>1, <1>6, <2>1, <2>2, BanksKept
<1>11. Counted(m)
  <2>1. Used(c, k) \in SUBSET Slots(k)
    BY DEF Used
  <2>2. Cardinality(Used(m, k)) = Cardinality(Used(c, k)) + 1
    BY <1>4, <1>8, <1>9, <2>1, CountSlots
  <2>3. c.occupancy \in [Queues -> Nat]
    BY <1>1 DEF ChannelOK
  <2> QED
    BY <1>1, <1>6, <1>9, <2>2, <2>3 DEF Counted
<1>12. Unique(m)
  <2>1. \A j \in Slots(k) : c.queue[k][j].addr # a
    BY DEF check_dram_queue
  <2> QED
    BY <1>1, <1>8, <1>9, <2>1 DEF Unique
<1>13. Queued(m, k) = Queued(c, k) \cup {a}
  <2>1. \A y \in Queued(m, k) : y \in Queued(c, k) \cup {a}
    BY <1>8, <1>9 DEF Queued
  <2>2. \A y \in Queued(c, k) : y \in Queued(m, k)
    BY <1>4, <1>9 DEF Queued
  <2>3. a \in Queued(m, k)
    BY <1>4, <1>5, <1>8, <1>9 DEF Queued
  <2> QED
    BY <2>1, <2>2, <2>3
<1>14. /\ \A j \in Queues : FreshP(m, j)
       /\ \A j \in Queues : j # k => FreshS(m, j)
  <2>1. \A j \in Queues : \A n \in Scheduled(c, j) : m.queue[j][n] = c.queue[j][n]
    BY <1>8, <1>9 DEF Scheduled
  <2>2. ASSUME NEW j \in Queues PROVE FreshP(m, j)
    BY <1>1, <1>6, <1>9, <2>1, FreshKept DEF Fresh
  <2>3. ASSUME NEW j \in Queues, j # k PROVE FreshS(m, j)
    <3>1. m.queue[j] = c.queue[j] /\ Schedulable(m, j) = Schedulable(c, j)
      BY <1>9, <2>3
    <3> QED
      BY <1>1, <1>6, <3>1, FreshKept DEF Fresh
  <2> QED
    BY <2>2, <2>3
<1>15. ChannelOK(d) /\ SameButIndexes(d, m)
  BY <1>7, UpdateSchedule
<1>16. Fresh(d)
  BY <1>7, <1>14, UpdateScheduleFresh DEF Fresh
<1> HIDE DEF d
<1>17. Good(d, x)
  BY <1>10, <1>11, <1>12, <1>15, <1>16, GoodButIndexes DEF Good
<1>18. \A j : Queued(d, j) = Queued(m, j)
  BY <1>15, GoodButIndexes
<1>19. d.write_mode = c.write_mode /\ d.dbus = c.dbus
  BY <1>6, <1>15 DEF SameButIndexes
<1> QED
  BY <1>3, <1>9, <1>13, <1>17, <1>18, <1>19

(* schedule() has chosen slot i: its bank is idle and it gets the bank. *)
Granted(c, k, i, done) ==
  [c EXCEPT !.queue[k][i].scheduled = TRUE,
            !.queue[k][i].event = done,
            !.scheduled[k] = @ + 1,
            !.bank[dram_get_bank(c.queue[k][i].addr)] =
              [working |-> TRUE, request_index |-> i, kind |-> k,
               open_row |-> dram_get_row(c.queue[k][i].addr), cycle_available |-> done]]

LEMMA GrantedGood ==
  ASSUME NEW c, NEW k \in Queues, Good(c, k), NEW i \in Schedulable(c, k), NEW done \in Nat,
         ~c.bank[dram_get_bank(c.queue[k][i].addr)].working
  PROVE  LET d == update_process_cycle(update_schedule_cycle(Granted(c, k, i, done), k), k)
         IN  /\ Good(d, k) /\ d.write_mode = c.write_mode /\ d.dbus = c.dbus
             /\ \A j \in Queues : Queued(d, j) = Queued(c, j)
<1> DEFINE a == c.queue[k][i].addr
           B == dram_get_bank(a)
           s == [c.queue[k][i] EXCEPT !.scheduled = TRUE, !.event = done]
           r == [working |-> TRUE, request_index |-> i, kind |-> k,
                 open_row |-> dram_get_row(a), cycle_available |-> done]
           m == Granted(c, k, i, done)
           e == update_schedule_cycle(m, k)
           d == update_process_cycle(e, k)
<1>1. ChannelOK(c) /\ BanksOK(c, k) /\ Counted(c) /\ Fresh(c) /\ Unique(c)
  BY DEF Good
<1>2. /\ i \in Slots(k) /\ c.queue[k][i] \in Slot /\ a # 0 /\ ~c.queue[k][i].scheduled
      /\ i \notin Scheduled(c, k) /\ i \in Used(c, k)
  BY <1>1 DEF Schedulable, Scheduled, ChannelOK, Used
<1>3. s \in Slot /\ a \in Addr
  BY <1>2 DEF Slot
<1>4. B \in Bank /\ dram_get_row(a) \in Nat
  BY <1>3, BankOfAddress
<1>5. r \in BankRequest
  <2>1. i \in Nat
    BY <1>2, SlotsFinite
  <2> QED
    BY <1>4, <2>1 DEF BankRequest
<1>6. /\ SlotSet(c, m, k, i, s)
      /\ m.scheduled = [c.scheduled EXCEPT ![k] = @ + 1]
      /\ m.bank = [c.bank EXCEPT ![B] = r]
      /\ m.occupancy = c.occupancy /\ m.write_mode = c.write_mode
      /\ m.dbus = c.dbus /\ m.next_schedule = c.next_schedule /\ m.next_process = c.next_process
  <2>2. SlotSet(c, m, k, i, s)
    BY <1>1, <1>2 DEF ChannelOK, SlotSet, Granted
  <2> QED
    BY <1>1, <2>2 DEF ChannelOK, Granted
<1>7. SlotEffect(c, m, k, i, s)
  <2> HIDE DEF m, s
  <2> QED
    BY <1>1, <1>2, <1>3, <1>6, SlotSetSets
<1>8. ChannelOK(m)
  <2>1. \A j \in Queues : m.queue[j] \in [Slots(j) -> Slot]
    BY <1>7 DEF SlotEffect
  <2>2. m.queue \in [Queues -> {m.queue[j] : j \in Queues}]
    BY <1>1 DEF ChannelOK, Granted
  <2>3. m.scheduled \in [Queues -> Nat] /\ m.bank \in [Bank -> BankRequest]
    BY <1>1, <1>4, <1>5, <1>6 DEF ChannelOK
  <2> QED
    BY <1>1, <2>1, <2>2, <2>3 DEF ChannelOK, Granted
<1>9. s.addr = a /\ s.scheduled
  BY <1>2 DEF Slot
<1>10. r.working /\ r.kind = k /\ r.request_index = i
  OBVIOUS
<1> HIDE DEF m, s, r
<1>11. /\ Scheduled(m, k) = Scheduled(c, k) \cup {i}
       /\ \A j \in Queues : Used(m, j) = Used(c, j)
  <2>1. Used(m, k) = Used(c, k)
    BY <1>2, <1>7, <1>9 DEF SlotEffect
  <2> QED
    BY <1>7, <1>9, <2>1 DEF SlotEffect
<1>12. \A j \in Queues : \A n \in Slots(j) :
         /\ m.queue[j][n].addr = c.queue[j][n].addr
         /\ j # k \/ n # i => m.queue[j][n] = c.queue[j][n]
  BY <1>6, <1>7, <1>9 DEF SlotEffect, SlotSet
<1>13. \A b \in Bank : m.bank[b] = IF b = B THEN r ELSE c.bank[b]
  BY <1>1, <1>4, <1>6 DEF ChannelOK
<1>14. BanksOK(m, k)
  <2>1. ASSUME NEW j \in Queues, NEW n \in Scheduled(m, j)
        PROVE  /\ m.queue[j][n].addr # 0
               /\ j = k
               /\ m.bank[dram_get_bank(m.queue[j][n].addr)].working
               /\ m.bank[dram_get_bank(m.queue[j][n].addr)].request_index = n
    <3>1. CASE j = k /\ n = i
      BY <1>2, <1>4, <1>10, <1>12, <1>13, <3>1
    <3>2. CASE j # k \/ n # i
      <4>1. n \in Slots(j)
        BY SetsOfSlots
      <4>2. n \in Scheduled(c, j)
        BY <1>7, <1>11, <3>2 DEF SlotEffect
      <4>3. m.queue[j][n] = c.queue[j][n]
        BY <1>12, <3>2, <4>1
      <4> DEFINE b == dram_get_bank(c.queue[j][n].addr)
      <4>4. b \in Bank
        <5>1. c.queue[j][n].addr \in Addr \cup {0}
          BY <1>1, <4>1 DEF ChannelOK, Slot
        <5> QED
          BY <5>1, BankOfAddress
      <4>5. c.queue[j][n].addr # 0 /\ j = k /\ c.bank[b].working /\ c.bank[b].request_index = n
        <5>1. SlotOK(c, k, j, n)
          BY <1>1, <4>2 DEF BanksOK
        <5> QED
          BY <5>1 DEF SlotOK
      <4>6. b # B
        BY <4>5
      <4>7. m.bank[b] = c.bank[b]
        BY <1>13, <4>4, <4>6
      <4> QED
        BY <4>3, <4>5, <4>7
    <3> QED
      BY <3>1, <3>2
  <2>2. ASSUME NEW b \in Bank
        PROVE  IF m.bank[b].working
               THEN LET j == m.bank[b].kind
                        n == m.bank[b].request_index
                    IN  /\ j \in Queues /\ n \in Slots(j)
                        /\ m.queue[j][n].scheduled /\ dram_get_bank(m.queue[j][n].addr) = b
               ELSE m.bank[b].kind = "none" /\ m.bank[b].request_index = NoIndex
    <3>1. CASE b = B
      <4>1. m.queue[k][i] = s
        BY <1>7 DEF SlotEffect
      <4> QED
        BY <1>2, <1>9, <1>10, <1>13, <3>1, <4>1
    <3>2. CASE b # B
      <4>1. m.bank[b] = c.bank[b]
        BY <1>13, <3>2
      <4> DEFINE j == c.bank[b].kind
                 n == c.bank[b].request_index
      <4>2. CASE c.bank[b].working
        <5>1. /\ j \in Queues /\ n \in Slots(j)
              /\ c.queue[j][n].scheduled /\ dram_get_bank(c.queue[j][n].addr) = b
          BY <1>1, <4>2 DEF BanksOK, BankOK, BusyOK
        <5> HIDE DEF j, n
        <5>2. m.queue[j][n] = c.queue[j][n]
          BY <1>2, <1>12, <5>1
        <5> QED
          BY <4>1, <4>2, <5>1, <5>2 DEF j, n
      <4>3. CASE ~c.bank[b].working
        <5>1. BankOK(c, b)
          BY <1>1 DEF BanksOK
        <5> QED
          BY <4>1, <4>3, <5>1 DEF BankOK
      <4> QED
        BY <4>2, <4>3
    <3> QED
      BY <3>1, <3>2
  <2> QED
    BY <2>1, <2>2 DEF BanksOK, SlotOK, BankOK, BusyOK
<1>15. Counted(m)
  <2>1. Cardinality(Scheduled(m, k)) = Cardinality(Scheduled(c, k)) + 1
    BY <1>2, <1>11, CountSlots, SetsOfSlots
  <2>2. c.scheduled \in [Queues -> Nat]
    BY <1>1 DEF ChannelOK
  <2>3. \A j \in Queues : m.scheduled[j] = Cardinality(Scheduled(m, j))
    BY <1>1, <1>6, <1>7, <2>1, <2>2 DEF Counted, SlotEffect
  <2> QED
    BY <1>1, <1>6, <1>11, <2>3 DEF Counted
<1>16. Unique(m)
  BY <1>1, <1>12 DEF Unique
<1>17. \A j \in Queues : Queued(m, j) = Queued(c, j)
  BY <1>12 DEF Queued
<1>18. \A j \in Queues : j # k => FreshS(m, j) /\ FreshP(m, j)
  <2> SUFFICES ASSUME NEW j \in Queues, j # k
               PROVE  FreshS(m, j) /\ FreshP(m, j)
    OBVIOUS
  <2>1. /\ m.queue[j] = c.queue[j] /\ Schedulable(m, j) = Schedulable(c, j)
        /\ Scheduled(m, j) = Scheduled(c, j)
    BY <1>6, <1>7 DEF SlotSet, SlotEffect
  <2> QED
    BY <1>1, <1>6, <2>1, FreshKept DEF Fresh
<1>19. ChannelOK(e) /\ SameButIndexes(e, m)
  BY <1>8, UpdateSchedule
<1>20. FreshS(e, k) /\ \A j \in Queues : j # k => FreshS(e, j) /\ FreshP(e, j)
  BY <1>8, <1>18, UpdateScheduleFresh
<1> HIDE DEF e
<1>21. ChannelOK(d) /\ SameButIndexes(d, e)
  BY <1>19, UpdateProcess
<1>22. Fresh(d)
  BY <1>19, <1>20, UpdateProcessFresh DEF Fresh
<1> HIDE DEF d
<1>23. SameButIndexes(d, m)
  BY <1>19, <1>21 DEF SameButIndexes
<1>24. Good(d, k)
  BY <1>14, <1>15, <1>16, <1>21, <1>22, <1>23, GoodButIndexes DEF Good
<1>25. \A j \in Queues : Queued(d, j) = Queued(c, j)
  BY <1>17, <1>21, <1>23, GoodButIndexes
<1>26. d.write_mode = c.write_mode /\ d.dbus = c.dbus
  BY <1>6, <1>23 DEF SameButIndexes
<1> QED
  BY <1>24, <1>25, <1>26 DEF d, e, m

LEMMA ScheduleGood ==
  ASSUME NEW c, NEW k \in Queues, Good(c, k), NEW now \in Nat
  PROVE  LET d == schedule(c, k, now)
         IN  /\ Good(d, k) /\ d.write_mode = c.write_mode /\ d.dbus = c.dbus
             /\ \A j \in Queues : Queued(d, j) = Queued(c, j)
<1> DEFINE bank_of(i) == c.bank[dram_get_bank(c.queue[k][i].addr)]
           idle == {i \in Schedulable(c, k) : ~bank_of(i).working}
           hits == {i \in idle : bank_of(i).open_row = dram_get_row(c.queue[k][i].addr)}
           S    == IF hits # {} THEN hits ELSE idle
           i    == Oldest(c.queue[k], S)
           done == now + (IF hits # {} THEN tCAS ELSE tRP + tRCD + tCAS)
<1>1. CASE idle = {}
  <2>1. schedule(c, k, now) = c
    BY <1>1 DEF schedule
  <2> QED
    BY <2>1
<1>2. CASE idle # {}
  <2>1. schedule(c, k, now)
          = update_process_cycle(update_schedule_cycle(Granted(c, k, i, done), k), k)
    BY <1>2 DEF schedule, Granted
  <2>2. S # {} /\ S \subseteq idle
    BY <1>2
  <2>3. idle \subseteq Schedulable(c, k)
    OBVIOUS
  <2>4. done \in Nat
    BY TimeAssumption
  <2> HIDE DEF S, done
  <2>5. i \in S
    <3>1. S \in SUBSET Nat /\ S \subseteq Slots(k)
      BY <2>2, <2>3, SetsOfSlots, SlotsFinite
    <3>2. \A j \in S : c.queue[k][j].event \in Nat
      BY <3>1 DEF Good, ChannelOK, Slot
    <3> QED
      BY <2>2, <3>1, <3>2, OldestExists DEF IsOldest
  <2> HIDE DEF i
  <2>6. i \in Schedulable(c, k) /\ ~c.bank[dram_get_bank(c.queue[k][i].addr)].working
    BY <2>2, <2>5
  <2> QED
    BY <2>1, <2>4, <2>6, GrantedGood
<1> QED
  BY <1>1, <1>2

(* The cached index of process() names a scheduled request, or none. *)
LEMMA NextProcess ==
  ASSUME NEW c, NEW x, Good(c, x), NEW k \in Queues, c.next_process[k] < SIZE(k)
  PROVE  c.next_process[k] \in Scheduled(c, k)
<1>1. c.next_process[k] = OldestOrNone(c, k, Scheduled(c, k))
  BY DEF Good, Fresh, FreshP
<1>2. SIZE(k) \in Nat /\ ~(SIZE(k) < SIZE(k))
  BY SlotsFinite
<1>3. Scheduled(c, k) # {}
  BY <1>1, <1>2, OldestOrNoneRange, SetsOfSlots DEF Good
<1> QED
  BY <1>1, <1>3, OldestOrNoneRange, SetsOfSlots DEF Good

LEMMA WaitForBusGood ==
  ASSUME NEW c, NEW k \in Queues, Good(c, k), c.next_process[k] < SIZE(k)
  PROVE  LET d == wait_for_bus(c, k)
         IN  /\ Good(d, k) /\ d.write_mode = c.write_mode /\ d.dbus = c.dbus
             /\ \A j \in Queues : Queued(d, j) = Queued(c, j)
<1> DEFINE i == c.next_process[k]
           b == dram_get_bank(c.queue[k][i].addr)
           d == [c EXCEPT !.bank[b].cycle_available = c.dbus]
<1>1. ChannelOK(c) /\ BanksOK(c, k) /\ Counted(c) /\ Fresh(c) /\ Unique(c)
  BY DEF Good
<1>2. wait_for_bus(c, k) = d
  BY DEF wait_for_bus
<1>3. b \in Bank
  <2>1. i \in Slots(k)
    BY NextProcess, SetsOfSlots
  <2> HIDE DEF i
  <2>2. c.queue[k][i].addr \in Addr \cup {0}
    BY <1>1, <2>1 DEF ChannelOK, Slot
  <2> QED
    BY <2>2, BankOfAddress
<1> HIDE DEF b
<1>4. /\ d.queue = c.queue /\ d.occupancy = c.occupancy /\ d.scheduled = c.scheduled
      /\ d.write_mode = c.write_mode /\ d.dbus = c.dbus
      /\ d.next_schedule = c.next_schedule /\ d.next_process = c.next_process
      /\ d.bank \in [Bank -> BankRequest]
      /\ \A y \in Bank : /\ d.bank[y].working = c.bank[y].working
                         /\ d.bank[y].kind = c.bank[y].kind
                         /\ d.bank[y].request_index = c.bank[y].request_index
  BY <1>1, <1>3 DEF ChannelOK, BankRequest
<1>5. ChannelOK(d)
  BY <1>1, <1>4 DEF ChannelOK
<1> HIDE DEF d
<1>6. \A j : /\ Scheduled(d, j) = Scheduled(c, j) /\ Schedulable(d, j) = Schedulable(c, j)
             /\ Used(d, j) = Used(c, j) /\ Queued(d, j) = Queued(c, j)
  BY <1>4 DEF Scheduled, Schedulable, Used, Queued
<1>7. BanksOK(d, k)
  <2>1. ASSUME NEW j \in Queues, NEW n \in Scheduled(c, j)
        PROVE  dram_get_bank(c.queue[j][n].addr) \in Bank
    <3>1. c.queue[j][n].addr \in Addr \cup {0}
      BY <1>1, SetsOfSlots DEF ChannelOK, Slot
    <3> QED
      BY <3>1, BankOfAddress
  <2>2. ASSUME NEW j \in Queues, NEW n \in Scheduled(d, j)
        PROVE  SlotOK(d, k, j, n)
    <3>1. n \in Scheduled(c, j)
      BY <1>6
    <3>2. SlotOK(c, k, j, n)
      BY <1>1, <3>1 DEF BanksOK
    <3>3. dram_get_bank(c.queue[j][n].addr) \in Bank
      BY <2>1, <3>1
    <3> QED
      BY <1>4, <3>2, <3>3 DEF SlotOK
  <2>3. ASSUME NEW y \in Bank PROVE BankOK(d, y)
    <3>1. BankOK(c, y)
      BY <1>1 DEF BanksOK
    <3> QED
      BY <1>4, <3>1 DEF BankOK, BusyOK
  <2> QED
    BY <2>2, <2>3 DEF BanksOK
<1>8. Counted(d) /\ Unique(d)
  BY <1>1, <1>4, <1>6 DEF Counted, Unique
<1>9. Fresh(d)
  BY <1>1, <1>4, <1>6, FreshKept DEF Fresh
<1> QED
  BY <1>2, <1>4, <1>5, <1>6, <1>7, <1>8, <1>9 DEF Good

(* process() takes one request out of its queue, and only that one. *)
LEMMA TransferGood ==
  ASSUME NEW c, NEW k \in Queues, Good(c, k), c.next_process[k] < SIZE(k), NEW now \in Nat
  PROVE  LET d == transfer(c, k, now)
             a == c.queue[k][c.next_process[k]].addr
         IN  /\ Good(d, k) /\ d.write_mode = c.write_mode
             /\ d.dbus = now + DRAM_DBUS_RETURN_TIME
             /\ a \in Addr /\ a \in Queued(c, k) /\ Queued(d, k) = Queued(c, k) \ {a}
             /\ \A j \in Queues : j # k => Queued(d, j) = Queued(c, j)
<1> DEFINE i == c.next_process[k]
           a == c.queue[k][i].addr
           b == dram_get_bank(a)
           r == [c.bank[b] EXCEPT !.working = FALSE, !.request_index = NoIndex, !.kind = "none"]
           m == [c EXCEPT !.dbus = now + DRAM_DBUS_RETURN_TIME,
                          !.bank[b] = [@ EXCEPT !.working = FALSE, !.request_index = NoIndex,
                                                !.kind = "none"],
                          !.scheduled[k] = @ - 1,
                          !.queue[k][i] = EmptySlot,
                          !.occupancy[k] = @ - 1]
           d == update_process_cycle(m, k)
<1>1. ChannelOK(c) /\ BanksOK(c, k) /\ Counted(c) /\ Fresh(c) /\ Unique(c)
  BY DEF Good
<1>2. transfer(c, k, now) = d
  BY DEF transfer
<1>3. i \in Scheduled(c, k) /\ i \in Slots(k)
  BY NextProcess, SetsOfSlots
<1> HIDE DEF i
<1>4. /\ a # 0 /\ a \in Addr /\ c.queue[k][i].scheduled
      /\ c.bank[b].working /\ c.bank[b].request_index = i
      /\ i \in Used(c, k) /\ i \notin Schedulable(c, k)
  <2>1. a # 0 /\ c.bank[b].working /\ c.bank[b].request_index = i
    BY <1>1, <1>3 DEF BanksOK, SlotOK
  <2>2. c.queue[k][i] \in Slot
    BY <1>1, <1>3 DEF ChannelOK
  <2>3. c.queue[k][i].scheduled
    BY <1>3 DEF Scheduled
  <2> QED
    BY <1>3, <2>1, <2>2, <2>3 DEF Slot, Used, Schedulable
<1>5. b \in Bank
  BY <1>4, BankOfAddress
<1>6. a \in Queued(c, k)
  BY <1>3, <1>4 DEF Queued
<1> HIDE DEF a, b
<1>7. EmptySlot \in Slot /\ EmptySlot.addr = 0 /\ ~EmptySlot.scheduled
  BY DEF EmptySlot, Slot
<1>8. r \in BankRequest /\ ~r.working /\ r.kind = "none" /\ r.request_index = NoIndex
  BY <1>1, <1>5 DEF ChannelOK, BankRequest
<1>9. /\ SlotSet(c, m, k, i, EmptySlot)
      /\ m.occupancy = [c.occupancy EXCEPT ![k] = @ - 1]
      /\ m.scheduled = [c.scheduled EXCEPT ![k] = @ - 1]
      /\ m.bank = [c.bank EXCEPT ![b] = r]
      /\ m.write_mode = c.write_mode /\ m.dbus = now + DRAM_DBUS_RETURN_TIME
      /\ m.next_schedule = c.next_schedule /\ m.next_process = c.next_process
  BY <1>1, <1>3, <1>5 DEF ChannelOK, SlotSet
<1>10. SlotEffect(c, m, k, i, EmptySlot)
  <2> HIDE DEF m
  <2> QED
    BY <1>1, <1>3, <1>7, <1>9, SlotSetSets
<1>11. /\ Cardinality(Scheduled(c, k)) > 0 /\ Cardinality(Used(c, k)) > 0
       /\ Cardinality(Scheduled(c, k) \ {i}) = Cardinality(Scheduled(c, k)) - 1
       /\ Cardinality(Used(c, k) \ {i}) = Cardinality(Used(c, k)) - 1
  <2>1. Used(c, k) \in SUBSET Slots(k) /\ Scheduled(c, k) \in SUBSET Slots(k)
    BY DEF Used, Scheduled
  <2> QED
    BY <1>3, <1>4, <2>1, CountSlots
<1>12. m.scheduled \in [Queues -> Nat] /\ m.occupancy \in [Queues -> Nat]
  <2>1. c.scheduled[k] > 0 /\ c.occupancy[k] > 0
    BY <1>1, <1>11 DEF Counted
  <2>2. c.scheduled \in [Queues -> Nat] /\ c.occupancy \in [Queues -> Nat]
    BY <1>1 DEF ChannelOK
  <2> HIDE DEF m
  <2> QED
    BY <1>9, <2>1, <2>2
<1>13. ChannelOK(m)
  <2>1. \A j \in Queues : m.queue[j] \in [Slots(j) -> Slot]
    BY <1>10 DEF SlotEffect
  <2>2. m.queue \in [Queues -> {m.queue[j] : j \in Queues}]
    BY <1>1 DEF ChannelOK
  <2>3. m.bank \in [Bank -> BankRequest] /\ m.dbus \in Nat
    BY <1>1, <1>5, <1>8, <1>9, TimeAssumption DEF ChannelOK
  <2> QED
    BY <1>1, <1>12, <2>1, <2>2, <2>3 DEF ChannelOK
<1> HIDE DEF m, r
<1>14. /\ Scheduled(m, k) = Scheduled(c, k) \ {i}
       /\ Used(m, k) = Used(c, k) \ {i}
       /\ \A j \in Queues : Schedulable(m, j) = Schedulable(c, j)
       /\ \A j \in Queues : j # k => /\ Scheduled(m, j) = Scheduled(c, j)
                                     /\ Used(m, j) = Used(c, j)
                                     /\ Queued(m, j) = Queued(c, j)
  <2>1. Schedulable(m, k) = Schedulable(c, k)
    BY <1>4, <1>7, <1>10 DEF SlotEffect
  <2> QED
    BY <1>7, <1>10, <2>1 DEF SlotEffect
<1>15. \A j \in Queues : \A n \in Slots(j) :
         j # k \/ n # i => m.queue[j][n] = c.queue[j][n]
  BY <1>9, <1>10 DEF SlotEffect, SlotSet
<1>16. \A y \in Bank : m.bank[y] = IF y = b THEN r ELSE c.bank[y]
  BY <1>1, <1>5, <1>9 DEF ChannelOK
<1>17. BanksOK(m, k)
  <2>1. ASSUME NEW j \in Queues, NEW n \in Scheduled(m, j)
        PROVE  /\ m.queue[j][n].addr # 0
               /\ j = k
               /\ m.bank[dram_get_bank(m.queue[j][n].addr)].working
               /\ m.bank[dram_get_bank(m.queue[j][n].addr)].request_index = n
    <3>1. n \in Scheduled(c, j) /\ n \in Slots(j) /\ (j # k \/ n # i)
      BY <1>14, SetsOfSlots
    <3>2. m.queue[j][n] = c.queue[j][n]
      BY <1>15, <3>1
    <3> DEFINE y == dram_get_bank(c.queue[j][n].addr)
    <3>3. y \in Bank
      <4>1. c.queue[j][n].addr \in Addr \cup {0}
        BY <1>1, <3>1 DEF ChannelOK, Slot
      <4> QED
        BY <4>1, BankOfAddress
    <3>4. c.queue[j][n].addr # 0 /\ j = k /\ c.bank[y].working /\ c.bank[y].request_index = n
      BY <1>1, <3>1 DEF BanksOK, SlotOK
    <3>5. y # b
      BY <1>4, <3>1, <3>4
    <3>6. m.bank[y] = c.bank[y]
      BY <1>16, <3>3, <3>5
    <3> QED
      BY <3>2, <3>4, <3>6
  <2>2. ASSUME NEW y \in Bank
        PROVE  IF m.bank[y].working
               THEN LET j == m.bank[y].kind
                        n == m.bank[y].request_index
                    IN  /\ j \in Queues /\ n \in Slots(j)
                        /\ m.queue[j][n].scheduled /\ dram_get_bank(m.queue[j][n].addr) = y
               ELSE m.bank[y].kind = "none" /\ m.bank[y].request_index = NoIndex
    <3>1. CASE y = b
      BY <1>8, <1>16, <3>1
    <3>2. CASE y # b
      <4>1. m.bank[y] = c.bank[y]
        BY <1>16, <3>2
      <4> DEFINE j == c.bank[y].kind
                 n == c.bank[y].request_index
      <4>2. CASE c.bank[y].working
        <5>1. /\ j \in Queues /\ n \in Slots(j)
              /\ c.queue[j][n].scheduled /\ dram_get_bank(c.queue[j][n].addr) = y
          BY <1>1, <4>2 DEF BanksOK, BankOK, BusyOK
        <5> HIDE DEF j, n
        <5>2. j # k \/ n # i
          BY <3>2, <5>1 DEF a, b
        <5>3. m.queue[j][n] = c.queue[j][n]
          BY <1>15, <5>1, <5>2
        <5> QED
          BY <4>1, <4>2, <5>1, <5>3 DEF j, n
      <4>3. CASE ~c.bank[y].working
        BY <1>1, <4>1, <4>3 DEF BanksOK, BankOK
      <4> QED
        BY <4>2, <4>3
    <3> QED
      BY <3>1, <3>2
  <2> QED
    BY <2>1, <2>2 DEF BanksOK, SlotOK, BankOK, BusyOK
<1>18. Counted(m)
  <2>1. c.scheduled \in [Queues -> Nat] /\ c.occupancy \in [Queues -> Nat]
    BY <1>1 DEF ChannelOK
  <2>2. /\ m.scheduled[k] = Cardinality(Scheduled(m, k))
        /\ m.occupancy[k] = Cardinality(Used(m, k))
    BY <1>1, <1>9, <1>11, <1>14, <2>1 DEF Counted
  <2>3. ASSUME NEW j \in Queues, j # k
        PROVE  m.scheduled[j] = Cardinality(Scheduled(m, j)) /\ m.occupancy[j] = Cardinality(Used(m, j))
    BY <1>1, <1>9, <1>14, <2>1, <2>3 DEF Counted
  <2> QED
    BY <2>2, <2>3 DEF Counted
<1>19. m.queue[k][i].addr = 0
  BY <1>7, <1>10 DEF SlotEffect
<1>20. Unique(m)
  BY <1>1, <1>15, <1>19 DEF Unique
<1>21. Queued(m, k) = Queued(c, k) \ {a}
  <2>1. \A n \in Slots(k) : n # i => c.queue[k][n].addr # a
    BY <1>1, <1>3, <1>4 DEF Unique, a
  <2>2. \A y \in Queued(m, k) : y \in Queued(c, k) /\ y # a
    BY <1>15, <1>19, <2>1 DEF Queued
  <2>3. \A y \in Queued(c, k) : y # a => y \in Queued(m, k)
    BY <1>15 DEF Queued, a
  <2> QED
    BY <2>2, <2>3
<1>22. /\ \A j \in Queues : FreshS(m, j)
       /\ \A j \in Queues : j # k => FreshP(m, j)
  <2>1. \A n \in Schedulable(c, k) : m.queue[k][n] = c.queue[k][n]
    BY <1>4, <1>15, SetsOfSlots
  <2>2. FreshS(m, k)
    BY <1>1, <1>9, <1>14, <2>1, FreshKept DEF Fresh
  <2>3. ASSUME NEW j \in Queues, j # k PROVE FreshS(m, j) /\ FreshP(m, j)
    <3>1. m.queue[j] = c.queue[j]
      BY <1>9, <2>3 DEF SlotSet
    <3>2. Scheduled(m, j) = Scheduled(c, j) /\ Schedulable(m, j) = Schedulable(c, j)
      BY <1>14, <2>3
    <3> QED
      BY <1>1, <1>9, <3>1, <3>2, FreshKept DEF Fresh
  <2> QED
    BY <2>2, <2>3
<1>23. ChannelOK(d) /\ SameButIndexes(d, m)
  BY <1>13, UpdateProcess
<1>24. Fresh(d)
  BY <1>13, <1>22, UpdateProcessFresh DEF Fresh
<1> HIDE DEF d
<1>25. Good(d, k)
  BY <1>17, <1>18, <1>20, <1>23, <1>24, GoodButIndexes DEF Good
<1>26. \A j \in Queues : Queued(d, j) = Queued(m, j)
  BY <1>23, GoodButIndexes
<1>27. d.write_mode = c.write_mode /\ d.dbus = now + DRAM_DBUS_RETURN_TIME
  BY <1>9, <1>23 DEF SameButIndexes
<1>28. c.queue[k][c.next_process[k]].addr = a
  BY DEF a, i
<1> QED
  BY <1>2, <1>4, <1>6, <1>14, <1>21, <1>25, <1>26, <1>27, <1>28

-------------------------------------------------------------------------------
(* A change of mode *)

(* The banks of the scheduled requests of queue k. *)
BanksOf(c, k) == {dram_get_bank(c.queue[k][i].addr) : i \in Scheduled(c, k)}

(* As many banks are busy as there are scheduled requests. *)
LEMMA BanksOfScheduled ==
  ASSUME NEW c, NEW k \in Queues, ChannelOK(c), BanksOK(c, k)
  PROVE  LET B == BanksOf(c, k)
         IN  /\ B \subseteq Bank
             /\ Cardinality(B) = Cardinality(Scheduled(c, k))
             /\ \A b \in B : c.bank[b].working /\ c.bank[b].kind = k
             /\ \A b \in Bank \ B : /\ ~c.bank[b].working
                                    /\ c.bank[b].kind = "none"
                                    /\ c.bank[b].request_index = NoIndex
<1> DEFINE S == Scheduled(c, k)
           f == [i \in S |-> dram_get_bank(c.queue[k][i].addr)]
           B == {dram_get_bank(c.queue[k][i].addr) : i \in S}
<1>1. ASSUME NEW i \in S
      PROVE  dram_get_bank(c.queue[k][i].addr) \in Bank
  <2>1. c.queue[k][i].addr \in Addr \cup {0}
    BY SetsOfSlots DEF ChannelOK, Slot
  <2> QED
    BY <2>1, BankOfAddress
<1>2. \A i \in S : /\ c.bank[dram_get_bank(c.queue[k][i].addr)].working
                   /\ c.bank[dram_get_bank(c.queue[k][i].addr)].request_index = i
  BY DEF BanksOK, SlotOK
<1>3. ASSUME NEW b \in Bank, c.bank[b].working
      PROVE  c.bank[b].kind = k /\ b \in B
  <2> DEFINE j == c.bank[b].kind
             n == c.bank[b].request_index
  <2>1. /\ j \in Queues /\ n \in Slots(j)
        /\ c.queue[j][n].scheduled /\ dram_get_bank(c.queue[j][n].addr) = b
    BY <1>3 DEF BanksOK, BankOK, BusyOK
  <2> HIDE DEF j, n
  <2>2. n \in Scheduled(c, j)
    BY <2>1 DEF Scheduled
  <2>3. j = k
    BY <2>1, <2>2 DEF BanksOK, SlotOK
  <2> QED
    BY <2>1, <2>2, <2>3 DEF j
<1>4. Cardinality(B) = Cardinality(S)
  <2>1. IsFiniteSet(S)
    BY SlotsFinite, SetsOfSlots, FS_Subset
  <2>2. f \in [S -> B]
    OBVIOUS
  <2>3. \A i, j \in S : f[i] = f[j] => i = j
    BY <1>2
  <2>4. \A b \in B : \E i \in S : f[i] = b
    OBVIOUS
  <2>5. ExistsBijection(S, B)
    <3> HIDE DEF S, B, f
    <3>1. f \in Bijection(S, B)
      BY <2>2, <2>3, <2>4 DEF Bijection, Injection, IsInjective, Surjection
    <3> QED
      BY <3>1 DEF ExistsBijection
  <2> HIDE DEF B, S
  <2> QED
    BY <2>1, <2>5, FS_Bijection
<1>5. \A b \in B : c.bank[b].working /\ b \in Bank
  BY <1>1, <1>2
<1>6. \A b \in Bank : ~c.bank[b].working => c.bank[b].kind = "none" /\ c.bank[b].request_index = NoIndex
  BY DEF BanksOK, BankOK
<1> HIDE DEF B
<1>7. /\ B \subseteq Bank /\ Cardinality(B) = Cardinality(S)
      /\ \A b \in B : c.bank[b].working /\ c.bank[b].kind = k
      /\ \A b \in Bank \ B : /\ ~c.bank[b].working
                             /\ c.bank[b].kind = "none"
                             /\ c.bank[b].request_index = NoIndex
  BY <1>3, <1>4, <1>5, <1>6
<1>8. BanksOf(c, k) = B
  BY DEF BanksOf, B
<1> QED
  BY <1>7, <1>8

LEMMA ResetGood ==
  ASSUME NEW c, NEW k \in Queues, Good(c, k), NEW now \in Nat, NEW x
  PROVE  LET d == reset_remain_requests(c, k, now)
         IN  /\ Good(d, x) /\ d.write_mode = c.write_mode /\ d.dbus = c.dbus
             /\ \A j \in Queues : Queued(d, j) = Queued(c, j)
<1> DEFINE B   == {dram_get_bank(c.queue[k][i].addr) : i \in Scheduled(c, k)}
           row(b) == dram_get_row(c.queue[k][CHOOSE i \in Scheduled(c, k) :
                                    dram_get_bank(c.queue[k][i].addr) = b].addr)
           freed(b) == [IdleBank EXCEPT
                          !.cycle_available = now,
                          !.open_row = IF c.bank[b].cycle_available - tCAS <= now
                                       THEN row(b) ELSE NoRow]
           q   == [i \in Slots(k) |->
                     IF c.queue[k][i].scheduled
                     THEN [c.queue[k][i] EXCEPT !.scheduled = FALSE, !.event = now]
                     ELSE c.queue[k][i]]
           banks == [b \in Bank |-> IF b \in B THEN freed(b) ELSE c.bank[b]]
           count == [j \in Queues |->
                       c.scheduled[j] - Cardinality({b \in B : c.bank[b].kind = j})]
           r   == [c EXCEPT !.queue[k] = q, !.bank = banks, !.scheduled = count]
           d   == [r EXCEPT !.next_schedule = [j \in Queues |-> OldestOrNone(r, j, Schedulable(r, j))],
                            !.next_process = [j \in Queues |-> OldestOrNone(r, j, Scheduled(r, j))]]
<1>1. ChannelOK(c) /\ BanksOK(c, k) /\ Counted(c) /\ Fresh(c) /\ Unique(c)
  BY DEF Good
<1>2. reset_remain_requests(c, k, now) = d
  BY DEF reset_remain_requests
<1>3. /\ B \subseteq Bank /\ Cardinality(B) = Cardinality(Scheduled(c, k))
      /\ \A b \in B : c.bank[b].working /\ c.bank[b].kind = k
      /\ \A b \in Bank \ B : /\ ~c.bank[b].working
                             /\ c.bank[b].kind = "none"
                             /\ c.bank[b].request_index = NoIndex
  <2>1. B = BanksOf(c, k)
    BY DEF BanksOf
  <2> HIDE DEF B
  <2> QED
    BY <1>1, <2>1, BanksOfScheduled
<1>4. ASSUME NEW b \in B
      PROVE  freed(b) \in BankRequest /\ ~freed(b).working /\ freed(b).kind = "none"
                /\ freed(b).request_index = NoIndex
  <2> DEFINE i == CHOOSE i \in Scheduled(c, k) : dram_get_bank(c.queue[k][i].addr) = b
  <2>1. i \in Scheduled(c, k)
    OBVIOUS
  <2>2. i \in Slots(k)
    BY <2>1, SetsOfSlots
  <2> HIDE DEF i
  <2>3. c.queue[k][i].addr \in Addr \cup {0}
    BY <1>1, <2>2 DEF ChannelOK, Slot
  <2>4. row(b) \in Nat
    BY <2>3, BankOfAddress DEF i
  <2> HIDE DEF row
  <2> QED
    BY <2>4 DEF IdleBank, BankRequest
<1>5. /\ q \in [Slots(k) -> Slot]
      /\ \A i \in Slots(k) : q[i].addr = c.queue[k][i].addr /\ ~q[i].scheduled
  <2> SUFFICES ASSUME NEW i \in Slots(k)
               PROVE  q[i] \in Slot /\ q[i].addr = c.queue[k][i].addr /\ ~q[i].scheduled
    OBVIOUS
  <2>1. c.queue[k][i] \in Slot
    BY <1>1 DEF ChannelOK
  <2> QED
    BY <2>1 DEF Slot
<1>6. count = [j \in Queues |-> 0]
  <2>1. {b \in B : c.bank[b].kind = k} = B
    BY <1>3
  <2>2. \A j \in Queues : j # k => {b \in B : c.bank[b].kind = j} = {}
    BY <1>3
  <2>3. \A j \in Queues : j # k => Scheduled(c, j) = {}
    BY <1>1 DEF BanksOK, SlotOK
  <2>4. \A j \in Queues : c.scheduled[j] = Cardinality(Scheduled(c, j)) /\ c.scheduled[j] \in Nat
    BY <1>1 DEF Counted, ChannelOK
  <2>5. ASSUME NEW j \in Queues PROVE count[j] = 0
    <3>1. CASE j = k
      <4>1. count[j] = c.scheduled[k] - Cardinality(B)
        BY <2>1, <3>1
      <4> HIDE DEF B
      <4> QED
        BY <1>3, <2>4, <4>1
    <3>2. CASE j # k
      <4>1. count[j] = 0 - Cardinality({})
        BY <2>2, <2>3, <2>4, <3>2, FS_EmptySet
      <4> QED
        BY <4>1, FS_EmptySet
    <3> QED
      BY <3>1, <3>2
  <2> QED
    BY <2>5
<1> HIDE DEF q, count
<1>7. /\ \A b \in B : banks[b] = freed(b)
      /\ \A b \in Bank \ B : banks[b] = c.bank[b]
      /\ banks \in [Bank -> BankRequest]
  <2>1. c.bank \in [Bank -> BankRequest]
    BY <1>1 DEF ChannelOK
  <2>2. \A b \in B : freed(b) \in BankRequest
    BY <1>4
  <2> HIDE DEF freed, B
  <2> QED
    BY <1>3, <2>1, <2>2
<1>8. \A b \in Bank : ~banks[b].working /\ banks[b].kind = "none" /\ banks[b].request_index = NoIndex
  <2> HIDE DEF banks, B, freed
  <2> QED
    BY <1>3, <1>4, <1>7
<1> HIDE DEF banks, B
<1>9. /\ r.queue[k] = q /\ \A j \in Queues : j # k => r.queue[j] = c.queue[j]
      /\ r.bank = banks /\ r.scheduled = count /\ r.occupancy = c.occupancy
      /\ r.write_mode = c.write_mode /\ r.dbus = c.dbus
  BY <1>1 DEF ChannelOK
<1>10. ChannelOK(r)
  <2>1. \A j \in Queues : r.queue[j] \in [Slots(j) -> Slot]
    BY <1>1, <1>5, <1>9 DEF ChannelOK
  <2>2. r.queue \in [Queues -> {r.queue[j] : j \in Queues}]
    BY <1>1 DEF ChannelOK
  <2>3. r.scheduled \in [Queues -> Nat]
    BY <1>6, <1>9
  <2> QED
    BY <1>1, <1>7, <2>1, <2>2, <2>3 DEF ChannelOK
<1> HIDE DEF r
<1>11. \A j \in Queues : /\ Scheduled(r, j) = {} /\ Used(r, j) = Used(c, j)
                         /\ Queued(r, j) = Queued(c, j)
  <2> SUFFICES ASSUME NEW j \in Queues
               PROVE  Scheduled(r, j) = {} /\ Used(r, j) = Used(c, j) /\ Queued(r, j) = Queued(c, j)
    OBVIOUS
  <2>1. CASE j = k
    BY <1>5, <1>9, <2>1 DEF Scheduled, Used, Queued
  <2>2. CASE j # k
    <3>1. Scheduled(c, j) = {}
      BY <1>1, <2>2 DEF BanksOK, SlotOK
    <3>2. r.queue[j] = c.queue[j]
      BY <1>9, <2>2
    <3> QED
      BY <3>1, <3>2 DEF Scheduled, Used, Queued
  <2> QED
    BY <2>1, <2>2
<1>12. BanksOK(r, x)
  BY <1>8, <1>9, <1>11 DEF BanksOK, SlotOK, BankOK, BusyOK
<1>13. Counted(r)
  <2>1. \A j \in Queues : r.scheduled[j] = 0 /\ r.occupancy[j] = Cardinality(Used(r, j))
    BY <1>1, <1>6, <1>9, <1>11 DEF Counted
  <2>2. \A j \in Queues : Cardinality(Scheduled(r, j)) = 0
    BY <1>11, FS_EmptySet
  <2> QED
    BY <2>1, <2>2 DEF Counted
<1>14. Unique(r)
  <2>1. \A j \in Queues : \A i \in Slots(j) : r.queue[j][i].addr = c.queue[j][i].addr
    BY <1>5, <1>9
  <2> QED
    BY <1>1, <2>1 DEF Unique
<1>15. /\ \A j \in Queues : OldestOrNone(r, j, Schedulable(r, j)) \in Nat
       /\ \A j \in Queues : OldestOrNone(r, j, Scheduled(r, j)) \in Nat
  BY <1>10, OldestOrNoneRange, SetsOfSlots
<1>16. /\ ChannelOK(d) /\ SameButIndexes(d, r)
       /\ \A j \in Queues : /\ d.next_schedule[j] = OldestOrNone(r, j, Schedulable(r, j))
                            /\ d.next_process[j] = OldestOrNone(r, j, Scheduled(r, j))
  BY <1>10, <1>15 DEF ChannelOK, SameButIndexes
<1> HIDE DEF d
<1>17. Fresh(d)
  <2>1. \A j, S : OldestOrNone(d, j, S) = OldestOrNone(r, j, S)
    BY <1>16 DEF SameButIndexes, OldestOrNone
  <2>2. \A j : Scheduled(d, j) = Scheduled(r, j) /\ Schedulable(d, j) = Schedulable(r, j)
    BY <1>16, GoodButIndexes
  <2> QED
    BY <1>16, <2>1, <2>2 DEF Fresh, FreshS, FreshP
<1>18. Good(d, x)
  BY <1>12, <1>13, <1>14, <1>16, <1>17, GoodButIndexes DEF Good
<1>19. \A j \in Queues : Queued(d, j) = Queued(c, j)
  BY <1>11, <1>16, GoodButIndexes
<1>20. d.write_mode = c.write_mode /\ d.dbus = c.dbus
  BY <1>9, <1>16 DEF SameButIndexes
<1> QED
  BY <1>2, <1>18, <1>19, <1>20

LEMMA SetModeGood ==
  ASSUME NEW c, NEW x, Good(c, x), NEW w \in BOOLEAN
  PROVE  LET d == [c EXCEPT !.write_mode = w]
         IN  /\ Good(d, x) /\ d.write_mode = w /\ d.dbus = c.dbus
             /\ \A j \in Queues : Queued(d, j) = Queued(c, j)
<1> DEFINE d == [c EXCEPT !.write_mode = w]
<1>1. ChannelOK(c) /\ BanksOK(c, x) /\ Counted(c) /\ Fresh(c) /\ Unique(c)
  BY DEF Good
<1>2. /\ d.queue = c.queue /\ d.occupancy = c.occupancy /\ d.scheduled = c.scheduled
      /\ d.bank = c.bank /\ d.next_schedule = c.next_schedule /\ d.next_process = c.next_process
      /\ d.write_mode = w /\ d.dbus = c.dbus
  BY <1>1 DEF ChannelOK
<1>3. ChannelOK(d)
  BY <1>1 DEF ChannelOK
<1> HIDE DEF d
<1>4. \A j : /\ Scheduled(d, j) = Scheduled(c, j) /\ Schedulable(d, j) = Schedulable(c, j)
             /\ Used(d, j) = Used(c, j) /\ Queued(d, j) = Queued(c, j)
  BY <1>2 DEF Scheduled, Schedulable, Used, Queued
<1>5. BanksOK(d, x)
  BY <1>1, <1>2, <1>4, BanksKept
<1>6. Counted(d) /\ Unique(d)
  BY <1>1, <1>2, <1>4 DEF Counted, Unique
<1>7. Fresh(d)
  BY <1>1, <1>2, <1>4, FreshKept DEF Fresh
<1>8. Good(d, x)
  BY <1>3, <1>5, <1>6, <1>7 DEF Good
<1> QED
  BY <1>2, <1>4, <1>8 DEF d

LEMMA SetBusGood ==
  ASSUME NEW c, NEW x, Good(c, x), NEW n \in Nat
  PROVE  LET d == [c EXCEPT !.dbus = @ + n]
         IN  /\ Good(d, x) /\ d.write_mode = c.write_mode /\ d.dbus = c.dbus + n
             /\ \A j \in Queues : Queued(d, j) = Queued(c, j)
<1> DEFINE d == [c EXCEPT !.dbus = @ + n]
<1>1. ChannelOK(c) /\ BanksOK(c, x) /\ Counted(c) /\ Fresh(c) /\ Unique(c)
  BY DEF Good
<1>2. /\ d.queue = c.queue /\ d.occupancy = c.occupancy /\ d.scheduled = c.scheduled
      /\ d.bank = c.bank /\ d.next_schedule = c.next_schedule /\ d.next_process = c.next_process
      /\ d.write_mode = c.write_mode /\ d.dbus = c.dbus + n
  BY <1>1 DEF ChannelOK
<1>3. ChannelOK(d)
  BY <1>1 DEF ChannelOK
<1> HIDE DEF d
<1>4. \A j : /\ Scheduled(d, j) = Scheduled(c, j) /\ Schedulable(d, j) = Schedulable(c, j)
             /\ Used(d, j) = Used(c, j) /\ Queued(d, j) = Queued(c, j)
  BY <1>2 DEF Scheduled, Schedulable, Used, Queued
<1>5. BanksOK(d, x)
  BY <1>1, <1>2, <1>4, BanksKept
<1>6. Counted(d) /\ Unique(d)
  BY <1>1, <1>2, <1>4 DEF Counted, Unique
<1>7. Fresh(d)
  BY <1>1, <1>2, <1>4, FreshKept DEF Fresh
<1>8. Good(d, x)
  BY <1>3, <1>5, <1>6, <1>7 DEF Good
<1> QED
  BY <1>2, <1>4, <1>8 DEF d

LEMMA TurnAroundGood ==
  ASSUME NEW c, NEW k \in Queues, Good(c, k), NEW w \in BOOLEAN, NEW now \in Nat, NEW x
  PROVE  LET d == turn_around(c, k, w, now)
         IN  /\ Good(d, x) /\ d.write_mode = w
             /\ d.dbus = c.dbus + DRAM_DBUS_TURN_AROUND_TIME
             /\ \A j \in Queues : Queued(d, j) = Queued(c, j)
<1> DEFINE m == [c EXCEPT !.write_mode = w]
           r == reset_remain_requests(m, k, now)
           d == [r EXCEPT !.dbus = @ + DRAM_DBUS_TURN_AROUND_TIME]
<1>1. turn_around(c, k, w, now) = d
  BY DEF turn_around
<1>2. /\ Good(m, k) /\ m.write_mode = w /\ m.dbus = c.dbus
      /\ \A j \in Queues : Queued(m, j) = Queued(c, j)
  BY SetModeGood
<1> HIDE DEF m
<1>3. /\ Good(r, x) /\ r.write_mode = m.write_mode /\ r.dbus = m.dbus
      /\ \A j \in Queues : Queued(r, j) = Queued(m, j)
  BY <1>2, ResetGood
<1> HIDE DEF r
<1>4. DRAM_DBUS_TURN_AROUND_TIME \in Nat
  BY TimeAssumption
<1>5. /\ Good(d, x) /\ d.write_mode = r.write_mode
      /\ d.dbus = r.dbus + DRAM_DBUS_TURN_AROUND_TIME
      /\ \A j \in Queues : Queued(d, j) = Queued(r, j)
  BY <1>3, <1>4, SetBusGood
<1> HIDE DEF d
<1> QED
  BY <1>1, <1>2, <1>3, <1>5

(* What the mode switch and the schedule step of operate() make of c. *)
PreparedFrom(c, d) ==
  /\ Good(d, Active(d))
  /\ \A j \in Queues : Queued(d, j) = Queued(c, j)
  /\ \/ d.write_mode = c.write_mode /\ d.dbus = c.dbus
     \/ d.write_mode = ~c.write_mode /\ d.dbus = c.dbus + DRAM_DBUS_TURN_AROUND_TIME

LEMMA SwitchModeGood ==
  ASSUME NEW c, Good(c, Active(c)), NEW now \in Nat
  PROVE  PreparedFrom(c, switch_mode(c, now))
<1>1. CASE StartWrites(c)
  <2> DEFINE d == turn_around(c, "RQ", TRUE, now)
  <2>1. switch_mode(c, now) = d
    BY <1>1 DEF switch_mode
  <2>2. ~c.write_mode /\ Active(c) = "RQ"
    BY <1>1 DEF StartWrites, Active
  <2>3. /\ Good(d, "WQ") /\ d.write_mode = TRUE
        /\ d.dbus = c.dbus + DRAM_DBUS_TURN_AROUND_TIME
        /\ \A j \in Queues : Queued(d, j) = Queued(c, j)
    BY <2>2, TurnAroundGood DEF Queues
  <2> HIDE DEF d
  <2>4. Active(d) = "WQ"
    BY <2>3 DEF Active
  <2>5. d.write_mode = ~c.write_mode
    BY <2>2, <2>3
  <2> QED
    BY <2>1, <2>3, <2>4, <2>5 DEF PreparedFrom
<1>2. CASE ~StartWrites(c) /\ StopWrites(c)
  <2> DEFINE d == turn_around(c, "WQ", FALSE, now)
  <2>1. switch_mode(c, now) = d
    BY <1>2 DEF switch_mode
  <2>2. c.write_mode /\ Active(c) = "WQ"
    BY <1>2 DEF StopWrites, Active
  <2>3. /\ Good(d, "RQ") /\ d.write_mode = FALSE
        /\ d.dbus = c.dbus + DRAM_DBUS_TURN_AROUND_TIME
        /\ \A j \in Queues : Queued(d, j) = Queued(c, j)
    BY <2>2, TurnAroundGood DEF Queues
  <2> HIDE DEF d
  <2>4. Active(d) = "RQ"
    BY <2>3 DEF Active
  <2>5. d.write_mode = ~c.write_mode
    BY <2>2, <2>3
  <2> QED
    BY <2>1, <2>3, <2>4, <2>5 DEF PreparedFrom
<1>3. CASE ~StartWrites(c) /\ ~StopWrites(c)
  <2>1. switch_mode(c, now) = c
    BY <1>3 DEF switch_mode
  <2> QED
    BY <2>1 DEF PreparedFrom
<1> QED
  BY <1>1, <1>2, <1>3

LEMMA PreparedGood ==
  ASSUME NEW c, Good(c, Active(c)), NEW now \in Nat
  PROVE  PreparedFrom(c, after_schedule(switch_mode(c, now), now))
<1> DEFINE m == switch_mode(c, now)
           k == Active(m)
           d == after_schedule(m, now)
<1>1. PreparedFrom(c, m)
  BY SwitchModeGood
<1> HIDE DEF m
<1>2. k \in Queues
  BY DEF Active, Queues
<1>3. Good(m, k)
  BY <1>1 DEF PreparedFrom
<1>4. d = schedule(m, k, now) \/ d = m
  BY DEF after_schedule
<1>5. CASE d = m
  BY <1>1, <1>5 DEF m
<1>6. CASE d = schedule(m, k, now)
  <2>1. /\ Good(schedule(m, k, now), k) /\ schedule(m, k, now).write_mode = m.write_mode
        /\ schedule(m, k, now).dbus = m.dbus
        /\ \A j \in Queues : Queued(schedule(m, k, now), j) = Queued(m, j)
    <3> HIDE DEF k
    <3> QED
      BY <1>2, <1>3, ScheduleGood
  <2>2. /\ Good(d, k) /\ d.write_mode = m.write_mode /\ d.dbus = m.dbus
        /\ \A j \in Queues : Queued(d, j) = Queued(m, j)
    BY <1>6, <2>1
  <2> HIDE DEF d
  <2>3. Active(d) = k
    BY <2>2 DEF Active
  <2>4. PreparedFrom(c, d)
    BY <1>1, <2>2, <2>3 DEF PreparedFrom
  <2> QED
    BY <2>4 DEF d, m
<1> QED
  BY <1>4, <1>5, <1>6

-------------------------------------------------------------------------------
(* The inductive invariant *)

IInv == TypeOK /\ Good(ch, Active(ch)) /\ ReadsAreKept /\ BusTurnsAround

(* What a step does to the reads that are owed. *)
MemStep == [Mem!Next]_(Queued(ch, "RQ"))

LEMMA InitInvariant == Init => IInv /\ Mem!Init
<1> SUFFICES ASSUME Init PROVE IInv /\ Mem!Init
  OBVIOUS
<1>1. \A k \in Queues : /\ SIZE(k) \in Nat
                        /\ ch.queue[k] = [i \in Slots(k) |-> EmptySlot]
                        /\ ch.occupancy[k] = 0 /\ ch.scheduled[k] = 0
                        /\ ch.next_schedule[k] = SIZE(k) /\ ch.next_process[k] = SIZE(k)
  BY SlotsFinite DEF Init
<1>2. /\ ch.bank = [b \in Bank |-> IdleBank] /\ ch.write_mode = FALSE /\ ch.dbus = 0
      /\ cycle = 0 /\ warm = FALSE /\ waiting = {} /\ issued = 0
      /\ last = [kind |-> "none", cycle |-> 0]
  BY DEF Init
<1>3. EmptySlot \in Slot /\ EmptySlot.addr = 0 /\ EmptySlot.scheduled = FALSE
  BY DEF EmptySlot, Slot
<1>4. \A k \in Queues : /\ Scheduled(ch, k) = {} /\ Schedulable(ch, k) = {}
                        /\ Used(ch, k) = {} /\ Queued(ch, k) = {}
  BY <1>1, <1>3 DEF Scheduled, Schedulable, Used, Queued
<1>5. ChannelOK(ch)
  <2>1. IdleBank \in BankRequest
    BY DEF IdleBank, BankRequest
  <2>2. \A k \in Queues : ch.queue[k] \in [Slots(k) -> Slot]
    BY <1>1, <1>3
  <2>3. ch.queue = [k \in Queues |-> [i \in Slots(k) |-> EmptySlot]]
    BY DEF Init
  <2>4. ch.queue \in [Queues -> {ch.queue[k] : k \in Queues}]
    BY <2>3
  <2>5. [k \in Queues |-> SIZE(k)] \in [Queues -> Nat]
    BY <1>1
  <2>6. ch \in [queue : [Queues -> {ch.queue[k] : k \in Queues}],
                occupancy : [Queues -> Nat], scheduled : [Queues -> Nat],
                next_schedule : [Queues -> Nat], next_process : [Queues -> Nat],
                bank : [Bank -> BankRequest], write_mode : BOOLEAN, dbus : Nat]
    BY <2>1, <2>4, <2>5 DEF Init
  <2> QED
    BY <2>2, <2>6 DEF ChannelOK
<1>6. BanksOK(ch, Active(ch))
  BY <1>2, <1>4 DEF BanksOK, SlotOK, BankOK, BusyOK, IdleBank
<1>7. Counted(ch)
  BY <1>1, <1>4, FS_EmptySet DEF Counted
<1>8. Fresh(ch)
  BY <1>1, <1>4 DEF Fresh, FreshS, FreshP, OldestOrNone
<1>9. Unique(ch)
  BY <1>1, <1>3 DEF Unique
<1>10. Queued(ch, "RQ") = {}
  BY <1>4 DEF Queues
<1>11. TypeOK /\ ReadsAreKept /\ BusTurnsAround
  BY <1>2, <1>5, <1>10 DEF TypeOK, ReadsAreKept, BusTurnsAround
<1> QED
  BY <1>5, <1>6, <1>7, <1>8, <1>9, <1>10, <1>11 DEF IInv, Good, Mem!Init

(* A line that is not queued is in no slot. *)
LEMMA NotQueued ==
  ASSUME NEW c, NEW k, NEW a \in Addr, a \notin Queued(c, k)
  PROVE  check_dram_queue(c, k, a) = {}
<1>1. a # 0
  BY AddrAssumption
<1> QED
  BY <1>1 DEF Queued, check_dram_queue

LEMMA ReadStep ==
  ASSUME IInv, NEW a \in Addr, NEW event \in Nat, Read(a, event)
  PROVE  IInv' /\ MemStep
<1>1. /\ Good(ch, Active(ch)) /\ TypeOK /\ waiting = Queued(ch, "RQ") /\ "RQ" \in Queues
      /\ BusTurnsAround
  BY DEF IInv, ReadsAreKept, Queues
<1>2. /\ ch.occupancy["RQ"] # SIZE("RQ") /\ a \notin waiting /\ ~Forwarded(ch, a)
      /\ ch' = add_rq(ch, a, event) /\ waiting' = waiting \cup {a}
      /\ cycle' = cycle /\ warm' = warm /\ last' = last /\ issued' = issued + 1
  BY DEF Read, LlcMayCall
<1>3. check_dram_queue(ch, "RQ", a) = {}
  BY <1>1, <1>2, NotQueued
<1>4. ch' = Insert(ch, "RQ", a, event)
  BY <1>2, <1>3 DEF add_rq
<1>5. /\ Good(ch', Active(ch)) /\ ch'.write_mode = ch.write_mode /\ ch'.dbus = ch.dbus
      /\ Queued(ch', "RQ") = Queued(ch, "RQ") \cup {a}
  BY <1>1, <1>2, <1>3, <1>4, InsertGood
<1>6. Active(ch') = Active(ch)
  BY <1>5 DEF Active
<1>7. TypeOK'
  BY <1>1, <1>2, <1>5 DEF TypeOK, Good
<1>8. ReadsAreKept' /\ BusTurnsAround'
  BY <1>1, <1>2, <1>5, <1>6 DEF ReadsAreKept, BusTurnsAround
<1>9. MemStep
  BY <1>1, <1>2, <1>5 DEF MemStep, Mem!Next, Mem!Ask
<1> QED
  BY <1>5, <1>6, <1>7, <1>8, <1>9 DEF IInv

LEMMA WriteStep ==
  ASSUME IInv, NEW a \in Addr, NEW event \in Nat, Write(a, event)
  PROVE  IInv' /\ MemStep
<1>1. /\ Good(ch, Active(ch)) /\ TypeOK /\ waiting = Queued(ch, "RQ")
      /\ "WQ" \in Queues /\ "RQ" \in Queues /\ BusTurnsAround
  BY DEF IInv, ReadsAreKept, Queues
<1>2. /\ ch.occupancy["WQ"] # SIZE("WQ")
      /\ ch' = IF warm THEN add_wq(ch, a, event) ELSE ch
      /\ waiting' = waiting
      /\ cycle' = cycle /\ warm' = warm /\ last' = last /\ issued' = issued + 1
  BY DEF Write, LlcMayCall
<1>3. /\ Good(ch', Active(ch)) /\ ch'.write_mode = ch.write_mode /\ ch'.dbus = ch.dbus
      /\ Queued(ch', "RQ") = Queued(ch, "RQ")
  <2>1. CASE ch' = ch
    BY <1>1, <2>1
  <2>2. CASE ch' # ch
    <3>1. check_dram_queue(ch, "WQ", a) = {} /\ ch' = Insert(ch, "WQ", a, event)
      BY <1>2, <2>2 DEF add_wq
    <3> QED
      BY <1>1, <1>2, <3>1, InsertGood
  <2> QED
    BY <2>1, <2>2
<1>4. Active(ch') = Active(ch)
  BY <1>3 DEF Active
<1>5. TypeOK'
  BY <1>1, <1>2, <1>3 DEF TypeOK, Good
<1>6. ReadsAreKept' /\ BusTurnsAround'
  BY <1>1, <1>2, <1>3, <1>4 DEF ReadsAreKept, BusTurnsAround
<1>7. MemStep
  BY <1>3 DEF MemStep
<1> QED
  BY <1>3, <1>4, <1>5, <1>6, <1>7 DEF IInv

LEMMA NoChannelStep ==
  ASSUME IInv, UNCHANGED <<ch, cycle, waiting, last>>, warm' \in BOOLEAN, issued' \in Nat
  PROVE  IInv' /\ MemStep
BY DEF IInv, TypeOK, ReadsAreKept, BusTurnsAround, MemStep

(* BusTurnsAround of a channel c that operate() is at work on. *)
BusOK(c) ==
  last.kind # "none" =>
    c.dbus >= last.cycle + DRAM_DBUS_RETURN_TIME
                + (IF last.kind = Active(c) THEN 0 ELSE DRAM_DBUS_TURN_AROUND_TIME)

LEMMA PreparedBus ==
  ASSUME IInv, NEW c, PreparedFrom(ch, c)
  PROVE  BusOK(c)
<1> DEFINE T == DRAM_DBUS_TURN_AROUND_TIME
           n == last.cycle + DRAM_DBUS_RETURN_TIME
<1>1. T \in Nat /\ n \in Nat /\ ch.dbus \in Nat /\ last.kind \in Queues \cup {"none"}
      /\ ch.write_mode \in BOOLEAN
  BY TimeAssumption DEF IInv, TypeOK, ChannelOK
<1>2. last.kind # "none" => ch.dbus >= n + (IF last.kind = Active(ch) THEN 0 ELSE T)
  BY DEF IInv, BusTurnsAround
<1> SUFFICES ASSUME last.kind # "none"
             PROVE  c.dbus >= n + (IF last.kind = Active(c) THEN 0 ELSE T)
  BY DEF BusOK
<1> HIDE DEF T, n
<1>3. CASE c.write_mode = ch.write_mode /\ c.dbus = ch.dbus
  BY <1>2, <1>3 DEF Active
<1>4. CASE c.write_mode = ~ch.write_mode /\ c.dbus = ch.dbus + T
  <2>1. c.dbus >= n + T
    <3>1. CASE last.kind = Active(ch)
      BY <1>1, <1>2, <1>4, <3>1
    <3>2. CASE last.kind # Active(ch)
      BY <1>1, <1>2, <1>4, <3>2
    <3> QED
      BY <3>1, <3>2
  <2>2. c.dbus \in Nat /\ n + T >= n
    BY <1>1, <1>4
  <2> QED
    BY <1>1, <2>1, <2>2
<1> QED
  BY <1>3, <1>4 DEF PreparedFrom, T

LEMMA OperateStep ==
  ASSUME IInv, operate
  PROVE  IInv' /\ MemStep
<1>1. TypeOK /\ Good(ch, Active(ch)) /\ waiting = Queued(ch, "RQ") /\ cycle \in Nat
  BY DEF IInv, TypeOK, ReadsAreKept
<1>2. PICK c \in Prepared : Tick(c) \/ WaitForBus(c) \/ ReadBurst(c) \/ WriteBurst(c)
  BY DEF operate
<1>3. c = after_schedule(switch_mode(ch, cycle), cycle)
  BY DEF Prepared
<1>4. PreparedFrom(ch, c)
  BY <1>1, <1>3, PreparedGood
<1> DEFINE k == Active(c)
<1>5. k \in Queues /\ "RQ" \in Queues /\ "WQ" \in Queues
  BY DEF Active, Queues
<1>6. Good(c, k) /\ \A j \in Queues : Queued(c, j) = Queued(ch, j)
  BY <1>4 DEF PreparedFrom
<1>7. BusOK(c)
  BY <1>4, PreparedBus
<1>8. Processes(c, cycle) => c.next_process[k] < SIZE(k)
  BY DEF Processes
<1>9. ASSUME Good(ch', k), ch'.write_mode = c.write_mode, ch'.dbus = c.dbus,
             \A j \in Queues : Queued(ch', j) = Queued(c, j),
             cycle' = cycle + 1, UNCHANGED <<warm, waiting, last, issued>>
      PROVE  IInv' /\ MemStep
  <2>1. Active(ch') = k
    BY <1>9 DEF Active
  <2>2. TypeOK'
    BY <1>1, <1>9 DEF TypeOK, Good
  <2>3. Queued(ch', "RQ") = Queued(ch, "RQ")
    BY <1>5, <1>6, <1>9
  <2>4. BusTurnsAround'
    BY <1>7, <1>9, <2>1 DEF BusTurnsAround, BusOK
  <2>5. ReadsAreKept' /\ MemStep
    BY <1>1, <1>9, <2>3 DEF ReadsAreKept, MemStep
  <2> QED
    BY <1>9, <2>1, <2>2, <2>4, <2>5 DEF IInv
<1>10. CASE Tick(c)
  <2>1. ch' = c /\ cycle' = cycle + 1 /\ UNCHANGED <<warm, waiting, last, issued>>
    BY <1>10 DEF Tick
  <2> QED
    BY <1>6, <1>9, <2>1
<1>11. CASE WaitForBus(c)
  <2>1. /\ ch' = wait_for_bus(c, k) /\ c.next_process[k] < SIZE(k)
        /\ cycle' = cycle + 1 /\ UNCHANGED <<warm, waiting, last, issued>>
    BY <1>8, <1>11 DEF WaitForBus
  <2> HIDE DEF k
  <2>2. /\ Good(ch', k) /\ ch'.write_mode = c.write_mode /\ ch'.dbus = c.dbus
        /\ \A j \in Queues : Queued(ch', j) = Queued(c, j)
    BY <1>5, <1>6, <2>1, WaitForBusGood
  <2> QED
    BY <1>9, <2>1, <2>2
<1> DEFINE a(q) == c.queue[q][c.next_process[q]].addr
<1>12. ASSUME NEW q, Burst(c, q), waiting' \subseteq Addr
       PROVE  /\ q = k /\ Good(ch', Active(ch)') /\ TypeOK' /\ BusTurnsAround'
              /\ a(q) \in Addr /\ a(q) \in Queued(c, q)
              /\ Queued(ch', q) = Queued(c, q) \ {a(q)}
              /\ \A j \in Queues : j # q => Queued(ch', j) = Queued(c, j)
  <2>1. /\ q = k /\ c.next_process[k] < SIZE(k)
        /\ ch' = transfer(c, k, cycle) /\ cycle' = cycle + 1
        /\ last' = [kind |-> k, cycle |-> cycle] /\ UNCHANGED <<warm, issued>>
    BY <1>8, <1>12 DEF Burst
  <2> HIDE DEF k
  <2>2. /\ Good(ch', k) /\ ch'.write_mode = c.write_mode
        /\ ch'.dbus = cycle + DRAM_DBUS_RETURN_TIME
        /\ a(k) \in Addr /\ a(k) \in Queued(c, k)
        /\ Queued(ch', k) = Queued(c, k) \ {a(k)}
        /\ \A j \in Queues : j # k => Queued(ch', j) = Queued(c, j)
    BY <1>1, <1>5, <1>6, <2>1, TransferGood
  <2>3. Active(ch') = k
    BY <2>2 DEF Active, k
  <2>4. TypeOK'
    BY <1>1, <1>5, <1>12, <2>1, <2>2 DEF TypeOK, Good
  <2>5. BusTurnsAround'
    <3>1. last'.kind = k /\ last'.cycle = cycle
      BY <2>1
    <3>2. cycle + DRAM_DBUS_RETURN_TIME >= cycle + DRAM_DBUS_RETURN_TIME + 0
      BY <1>1, TimeAssumption
    <3> QED
      BY <2>2, <2>3, <3>1, <3>2 DEF BusTurnsAround
  <2> HIDE DEF a
  <2> QED
    BY <2>1, <2>2, <2>3, <2>4, <2>5
<1>13. CASE ReadBurst(c)
  <2>1. Burst(c, "RQ") /\ waiting' = waiting \ {a("RQ")}
    BY <1>13 DEF ReadBurst
  <2>2. waiting' \subseteq Addr
    BY <1>1, <2>1 DEF TypeOK
  <2> HIDE DEF a
  <2>3. /\ Good(ch', Active(ch)') /\ TypeOK' /\ BusTurnsAround'
        /\ a("RQ") \in Addr /\ a("RQ") \in Queued(c, "RQ")
        /\ Queued(ch', "RQ") = Queued(c, "RQ") \ {a("RQ")}
    BY <1>12, <2>1, <2>2
  <2>4. ReadsAreKept'
    BY <1>1, <1>5, <1>6, <2>1, <2>3 DEF ReadsAreKept
  <2>5. MemStep
    BY <1>5, <1>6, <2>3 DEF MemStep, Mem!Next, Mem!Answer
  <2> QED
    BY <2>3, <2>4, <2>5 DEF IInv
<1>14. CASE WriteBurst(c)
  <2>1. Burst(c, "WQ") /\ waiting' = waiting
    BY <1>14 DEF WriteBurst
  <2>2. waiting' \subseteq Addr
    BY <1>1, <2>1 DEF TypeOK
  <2> HIDE DEF a
  <2>3. /\ Good(ch', Active(ch)') /\ TypeOK' /\ BusTurnsAround'
        /\ \A j \in Queues : j # "WQ" => Queued(ch', j) = Queued(c, j)
    BY <1>12, <2>1, <2>2
  <2>4. Queued(ch', "RQ") = Queued(ch, "RQ")
    BY <1>5, <1>6, <2>3
  <2>5. ReadsAreKept' /\ MemStep
    BY <1>1, <2>1, <2>4 DEF ReadsAreKept, MemStep
  <2> QED
    BY <2>3, <2>5 DEF IInv
<1> QED
  BY <1>2, <1>10, <1>11, <1>13, <1>14

LEMMA InvariantStep ==
  IInv /\ [Next]_vars => IInv' /\ MemStep
<1> SUFFICES ASSUME IInv, [Next]_vars PROVE IInv' /\ MemStep
  OBVIOUS
<1>1. cycle \in Nat /\ issued \in Nat /\ warm \in BOOLEAN
  BY DEF IInv, TypeOK
<1>2. CASE UNCHANGED vars
  BY <1>1, <1>2, NoChannelStep DEF vars
<1>3. ASSUME NEW a \in Addr, ReadAtOnce(a) PROVE IInv' /\ MemStep
  BY <1>1, <1>3, NoChannelStep DEF ReadAtOnce, LlcMayCall
<1>4. ASSUME NEW a \in Addr, NEW event \in (cycle - MaxDelay) .. cycle, event >= 0,
             Read(a, event) \/ Write(a, event)
      PROVE  IInv' /\ MemStep
  <2>1. event \in Nat
    BY <1>1, <1>4, TimeAssumption
  <2> QED
    BY <1>4, <2>1, ReadStep, WriteStep
<1>5. CASE FinishWarmup
  BY <1>1, <1>5, NoChannelStep DEF FinishWarmup
<1>6. CASE operate
  BY <1>6, OperateStep
<1> QED
  BY <1>2, <1>3, <1>4, <1>5, <1>6 DEF Next

(* The channel's invariant is inductive: every operation of the controller *)
(* leaves the banks, counters, cached indexes and reads consistent.        *)
THEOREM ChannelInvariant == Spec => []IInv
<1>1. Init => IInv
  BY InitInvariant
<1>2. IInv /\ [Next]_vars => IInv'
  BY InvariantStep
<1> QED
  BY <1>1, <1>2, PTL DEF Spec

-------------------------------------------------------------------------------
(* What follows *)

(* The fields of the channel keep their types; in particular no counter    *)
(* that the controller decrements goes below 0.                            *)
THEOREM ChannelTypeCorrect == Spec => []TypeOK
<1>1. IInv => TypeOK
  BY DEF IInv
<1> QED
  BY <1>1, ChannelInvariant, PTL

(* schedule() gives a bank to one request, process() finds it there, and   *)
(* reset_remain_requests() takes back every bank when the mode changes.    *)
THEOREM BanksAreConsistent == Spec => []BanksHoldTheirRequests
<1>1. IInv => BanksHoldTheirRequests
  BY DEF IInv, Good, BanksOK, SlotOK, BankOK, BusyOK, BanksHoldTheirRequests
<1> QED
  BY <1>1, ChannelInvariant, PTL

(* The occupancy and the scheduled counters that the controller maintains  *)
(* by increments are the cardinalities they stand for.                     *)
THEOREM CountersCorrect == Spec => []CountersAgree
<1>1. IInv => CountersAgree
  BY DEF IInv, Good, Counted, Used, CountersAgree
<1> QED
  BY <1>1, ChannelInvariant, PTL

(* No operation forgets to bring a cached index up to date. *)
THEOREM IndexesAreFresh == Spec => []CachedIndexesFresh
<1>1. IInv => CachedIndexesFresh
  BY DEF IInv, Good, Fresh, FreshS, FreshP, CachedIndexesFresh
<1> QED
  BY <1>1, ChannelInvariant, PTL

(* add_rq() has a free slot whenever the LLC calls it, and a read stays    *)
(* queued until process() answers it.                                      *)
THEOREM NoReadIsLost == Spec => []ReadsAreKept
<1>1. IInv => ReadsAreKept
  BY DEF IInv
<1> QED
  BY <1>1, ChannelInvariant, PTL

(* operate() delays the data bus at every change of direction. *)
THEOREM BusWaits == Spec => []BusTurnsAround
<1>1. IInv => BusTurnsAround
  BY DEF IInv
<1> QED
  BY <1>1, ChannelInvariant, PTL

(* Every step of the channel is a request, an answer or no step at all for *)
(* the memory that the caches see.                                         *)
THEOREM ChannelImplementsMemory == Spec => ImplementsMemory
<1>1. Init => Mem!Init
  BY InitInvariant
<1>2. IInv /\ [Next]_vars => [Mem!Next]_(Queued(ch, "RQ"))
  BY InvariantStep DEF MemStep
<1> QED
  BY <1>1, <1>2, ChannelInvariant, PTL DEF Spec, ImplementsMemory, Mem!Spec
================================================================================
