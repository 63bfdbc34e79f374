-------------------------- MODULE PacketQueue_proofs --------------------------
(***************************************************************************)
(* For every SIZE: the ring stays consistent, and implements PacketFifo.   *)
(***************************************************************************)
EXTENDS PacketQueue, Scan_proofs, SequenceTheorems

RingInv == TypeOK /\ RingConsistent

(* The slots of the first SIZE positions are different slots of the ring.  *)
LEMMA SlotInRing ==
  ASSUME head \in 0 .. SIZE-1, NEW k \in 1 .. SIZE
  PROVE  slot(k) \in 0 .. SIZE-1
BY SizeAssumption DEF slot

LEMMA SlotInjective ==
  ASSUME head \in 0 .. SIZE-1, NEW j \in 1 .. SIZE, NEW k \in 1 .. SIZE, slot(j) = slot(k)
  PROVE  j = k
BY SizeAssumption DEF slot

(* A packet differs from the empty packet, because no address is 0. *)
LEMMA PacketNotEmpty == ASSUME NEW p \in Packet PROVE p # empty_packet
BY AddressAssumption DEF Packet, empty_packet

(* The slots in use hold packets. *)
LEMMA InUse ==
  ASSUME RingInv, NEW k \in 1 .. occupancy
  PROVE  k \in 1 .. SIZE /\ slot(k) \in 0 .. SIZE-1 /\ entry[slot(k)] \in Packet
<1>1. k \in 1 .. SIZE /\ head \in 0 .. SIZE-1
  BY SizeAssumption DEF RingInv, TypeOK
<1>2. slot(k) \in 0 .. SIZE-1
  BY <1>1, SlotInRing
<1>3. entry[slot(k)] # empty_packet
  BY <1>2 DEF RingInv, RingConsistent
<1> QED
  BY <1>1, <1>2, <1>3 DEF RingInv, TypeOK

(* check_queue finds the oldest packet with the address, if there is one. *)
Oldest(p, k) ==
  /\ k \in 1 .. occupancy /\ entry[slot(k)].address = p.address
  /\ \A j \in 1 .. occupancy : entry[slot(j)].address = p.address => k <= j

LEMMA CheckQueueNone ==
  ASSUME RingInv, NEW p \in Packet, check_queue(p) = -1
  PROVE  \A k \in 1 .. occupancy : entry[slot(k)].address # p.address
<1> SUFFICES ASSUME NEW k \in 1 .. occupancy, entry[slot(k)].address = p.address
             PROVE  FALSE
  OBVIOUS
<1>t. /\ SIZE \in Nat \ {0} /\ head \in 0 .. SIZE-1 /\ tail \in 0 .. SIZE-1
      /\ occupancy \in 0 .. SIZE /\ slot(k) \in 0 .. SIZE-1
      /\ tail = IF head + occupancy < SIZE THEN head + occupancy
                ELSE head + occupancy - SIZE
  BY InUse, SizeAssumption DEF RingInv, TypeOK, RingConsistent
<1>f. \A S \in SUBSET (0 .. SIZE-1) : S # {} => First(S) \in 0 .. SIZE-1 /\ First(S) # -1
  <2> SUFFICES ASSUME NEW S \in SUBSET (0 .. SIZE-1), S # {}
               PROVE  First(S) \in 0 .. SIZE-1 /\ First(S) # -1
    OBVIOUS
  <2>1. S \in SUBSET Nat
    BY <1>t
  <2>2. First(S) \in S
    BY <2>1, FirstIsLeast
  <2> QED
    BY <2>2, <1>t
<1>1. CASE head < tail
  <2>1. slot(k) \in head .. tail-1
    BY <1>1, <1>t DEF slot
  <2>2. same_address(p, head .. tail-1) \in SUBSET (0 .. SIZE-1)
    BY <1>t DEF same_address
  <2>3. slot(k) \in same_address(p, head .. tail-1)
    BY <2>1 DEF same_address
  <2> QED
    BY <1>1, <1>t, <1>f, <2>2, <2>3 DEF check_queue, first_or_none
<1>2. CASE ~(head < tail)
  <2>1. slot(k) \in head .. SIZE-1 \/ slot(k) \in 0 .. tail-1
    BY <1>2, <1>t DEF slot
  <2>2. /\ same_address(p, head .. SIZE-1) \in SUBSET (0 .. SIZE-1)
        /\ same_address(p, 0 .. tail-1) \in SUBSET (0 .. SIZE-1)
    BY <1>t DEF same_address
  <2>3. \/ slot(k) \in same_address(p, head .. SIZE-1)
        \/ slot(k) \in same_address(p, 0 .. tail-1)
    BY <2>1 DEF same_address
  <2>4. occupancy # 0
    BY <1>t
  <2> QED
    BY <1>2, <1>t, <1>f, <2>2, <2>3, <2>4 DEF check_queue, first_or_none
<1> QED
  BY <1>1, <1>2

LEMMA CheckQueueFound ==
  ASSUME RingInv, NEW p \in Packet, check_queue(p) # -1
  PROVE  \E k : Oldest(p, k) /\ check_queue(p) = slot(k)
<1>t. /\ SIZE \in Nat \ {0} /\ head \in 0 .. SIZE-1 /\ tail \in 0 .. SIZE-1
      /\ occupancy \in 0 .. SIZE
      /\ tail = IF head + occupancy < SIZE THEN head + occupancy
                ELSE head + occupancy - SIZE
  BY SizeAssumption DEF RingInv, TypeOK, RingConsistent
<1>f. ASSUME NEW m \in Nat, NEW n \in Int, same_address(p, m .. n) # {}
      PROVE  /\ First(same_address(p, m .. n)) \in m .. n
             /\ entry[First(same_address(p, m .. n))].address = p.address
             /\ \A j \in m .. n : entry[j].address = p.address
                                    => First(same_address(p, m .. n)) <= j
  <2>1. same_address(p, m .. n) \in SUBSET Nat
    BY DEF same_address
  <2>2. /\ First(same_address(p, m .. n)) \in same_address(p, m .. n)
        /\ \A j \in same_address(p, m .. n) : First(same_address(p, m .. n)) <= j
    BY <1>f, <2>1, FirstIsLeast
  <2> QED
    BY <2>2 DEF same_address
<1>0. occupancy # 0
  BY <1>t DEF check_queue
<1>1. CASE head < tail
  <2> DEFINE i == check_queue(p)
  <2>1. i = First(same_address(p, head .. tail-1)) /\ same_address(p, head .. tail-1) # {}
    BY <1>1 DEF check_queue, first_or_none
  <2>2. /\ i \in head .. tail-1 /\ entry[i].address = p.address
        /\ \A j \in head .. tail-1 : entry[j].address = p.address => i <= j
    BY <2>1, <1>f, <1>t
  <2> HIDE DEF i
  <2>3. i - head + 1 \in 1 .. occupancy /\ slot(i - head + 1) = i
    BY <1>1, <2>2, <1>t DEF slot
  <2>4. \A j \in 1 .. occupancy : slot(j) \in head .. tail-1 /\ slot(j) = head + j - 1
    BY <1>1, <1>t DEF slot
  <2>5. \A j \in 1 .. occupancy : entry[slot(j)].address = p.address => i - head + 1 <= j
    BY <2>2, <2>4, <1>t
  <2>6. Oldest(p, i - head + 1)
    BY <2>2, <2>3, <2>5 DEF Oldest
  <2> QED
    BY <2>3, <2>6 DEF i
<1>2. CASE ~(head < tail) /\ same_address(p, head .. SIZE-1) # {}
  <2> DEFINE i == check_queue(p)
  <2>1. i = First(same_address(p, head .. SIZE-1))
    BY <1>0, <1>2 DEF check_queue
  <2>2. /\ i \in head .. SIZE-1 /\ entry[i].address = p.address
        /\ \A j \in head .. SIZE-1 : entry[j].address = p.address => i <= j
    BY <2>1, <1>2, <1>f, <1>t
  <2> HIDE DEF i
  <2>3. i - head + 1 \in 1 .. occupancy /\ slot(i - head + 1) = i
    BY <1>0, <1>2, <2>2, <1>t DEF slot
  <2>4. \A j \in 1 .. occupancy : \/ slot(j) \in head .. SIZE-1 /\ slot(j) = head + j - 1
                                  \/ j > SIZE - head
    BY <1>2, <1>t DEF slot
  <2>5. \A j \in 1 .. occupancy : entry[slot(j)].address = p.address => i - head + 1 <= j
    BY <2>2, <2>4, <1>t
  <2>6. Oldest(p, i - head + 1)
    BY <2>2, <2>3, <2>5 DEF Oldest
  <2> QED
    BY <2>3, <2>6 DEF i
<1>3. CASE ~(head < tail) /\ same_address(p, head .. SIZE-1) = {}
  <2> DEFINE i == check_queue(p)
  <2>1. i = First(same_address(p, 0 .. tail-1)) /\ same_address(p, 0 .. tail-1) # {}
    BY <1>0, <1>3 DEF check_queue, first_or_none
  <2>2. /\ i \in 0 .. tail-1 /\ entry[i].address = p.address
        /\ \A j \in 0 .. tail-1 : entry[j].address = p.address => i <= j
    BY <2>1, <1>f, <1>t
  <2> HIDE DEF i
  <2>3. i + SIZE - head + 1 \in 1 .. occupancy /\ slot(i + SIZE - head + 1) = i
    <3>1. i \in Nat /\ i < tail /\ head \in Nat /\ head < SIZE
      BY <2>2, <1>t
    <3>2. i + SIZE - head + 1 \in 1 .. occupancy
      BY <1>0, <1>3, <2>2, <1>t
    <3> QED
      BY <3>1, <3>2, <1>t DEF slot
  <2>4. \A j \in 1 .. occupancy : \/ slot(j) \in head .. SIZE-1
                                  \/ slot(j) \in 0 .. tail-1 /\ slot(j) = head + j - 1 - SIZE
    BY <1>3, <1>t DEF slot
  <2>5. \A j \in head .. SIZE-1 : entry[j].address # p.address
    BY <1>3 DEF same_address
  <2>6. \A j \in 1 .. occupancy : entry[slot(j)].address = p.address
                                    => i + SIZE - head + 1 <= j
    BY <2>2, <2>4, <2>5, <1>t
  <2>7. Oldest(p, i + SIZE - head + 1)
    BY <2>2, <2>3, <2>6 DEF Oldest
  <2> QED
    BY <2>3, <2>7 DEF i
<1> QED
  BY <1>1, <1>2, <1>3

-------------------------------------------------------------------------------
(* The inductive invariant *)

LEMMA RingInit == Init => RingInv
<1> SUFFICES ASSUME Init PROVE RingInv
  OBVIOUS
<1>1. TypeOK
  BY SizeAssumption DEF Init, TypeOK
<1>2. RingConsistent
  BY SizeAssumption DEF Init, RingConsistent
<1> QED
  BY <1>1, <1>2 DEF RingInv

LEMMA MergeKeepsRing ==
  ASSUME RingInv, NEW p \in Packet, merge(p)
  PROVE  RingInv'
<1>1. PICK k : Oldest(p, k) /\ check_queue(p) = slot(k)
  BY CheckQueueFound DEF merge
<1>2. /\ slot(k) \in 0 .. SIZE-1 /\ entry[slot(k)] \in Packet
      /\ entry' = [entry EXCEPT ![slot(k)] =
                     [address |-> @.address, flags |-> @.flags \cup p.flags]]
      /\ head' = head /\ tail' = tail /\ occupancy' = occupancy
  BY <1>1, InUse DEF Oldest, merge
<1> DEFINE e == [address |-> entry[slot(k)].address, flags |-> entry[slot(k)].flags \cup p.flags]
<1>3. e \in Packet
  BY <1>2 DEF Packet
<1>4. e # empty_packet /\ entry[slot(k)] # empty_packet
  BY <1>2, <1>3, PacketNotEmpty
<1>5. entry' = [entry EXCEPT ![slot(k)] = e]
  BY <1>2
<1> HIDE DEF e
<1>6. TypeOK'
  BY <1>2, <1>3, <1>5 DEF RingInv, TypeOK
<1>7. \A i : slot(i)' = slot(i)
  BY <1>2 DEF slot
<1>8. \A i \in 0 .. SIZE-1 : entry'[i] # empty_packet <=> entry[i] # empty_packet
  BY <1>2, <1>4, <1>5 DEF RingInv, TypeOK
<1>9. RingConsistent'
  BY <1>2, <1>7, <1>8 DEF RingInv, RingConsistent
<1> QED
  BY <1>6, <1>9 DEF RingInv

LEMMA AddKeepsRing ==
  ASSUME RingInv, NEW p \in Packet, add_queue(p)
  PROVE  RingInv' /\ tail = slot(occupancy + 1) /\ \A k : slot(k)' = slot(k)
<1>t. /\ SIZE \in Nat \ {0} /\ head \in 0 .. SIZE-1 /\ tail \in 0 .. SIZE-1
      /\ occupancy \in 0 .. SIZE-1 /\ entry \in [0 .. SIZE-1 -> Packet \cup {empty_packet}]
      /\ tail = IF head + occupancy < SIZE THEN head + occupancy
                ELSE head + occupancy - SIZE
  BY SizeAssumption DEF RingInv, TypeOK, RingConsistent, add_queue
<1>1. tail = slot(occupancy + 1)
  BY <1>t DEF slot
<1>2. TypeOK'
  BY <1>t DEF TypeOK, add_queue, successor
<1>3. \A k : slot(k)' = slot(k)
  BY DEF slot, add_queue
<1>4. p # empty_packet
  BY PacketNotEmpty
<1>5. tail' = IF head + occupancy + 1 < SIZE THEN head + occupancy + 1
              ELSE head + occupancy + 1 - SIZE
  BY <1>t DEF add_queue, successor
<1>6. \A i \in 0 .. SIZE-1 :
        entry'[i] # empty_packet <=> \E k \in 1 .. occupancy + 1 : i = slot(k)
  <2> SUFFICES ASSUME NEW i \in 0 .. SIZE-1
               PROVE  entry'[i] # empty_packet <=> \E k \in 1 .. occupancy + 1 : i = slot(k)
    OBVIOUS
  <2>1. entry'[i] = IF i = tail THEN p ELSE entry[i]
    BY <1>t DEF add_queue
  <2>2. (\E k \in 1 .. occupancy + 1 : i = slot(k))
          <=> (i = slot(occupancy + 1) \/ \E k \in 1 .. occupancy : i = slot(k))
    BY <1>t
  <2> QED
    BY <2>1, <2>2, <1>1, <1>4 DEF RingInv, RingConsistent
<1>7. RingConsistent'
  BY <1>3, <1>5, <1>6, <1>t DEF RingConsistent, add_queue
<1> QED
  BY <1>1, <1>2, <1>3, <1>7 DEF RingInv

LEMMA RemoveKeepsRing ==
  ASSUME RingInv, remove_queue
  PROVE  RingInv' /\ \A k \in 1 .. occupancy - 1 : slot(k)' = slot(k + 1)
<1>t. /\ SIZE \in Nat \ {0} /\ head \in 0 .. SIZE-1 /\ tail \in 0 .. SIZE-1
      /\ occupancy \in 1 .. SIZE /\ entry \in [0 .. SIZE-1 -> Packet \cup {empty_packet}]
      /\ tail = IF head + occupancy < SIZE THEN head + occupancy
                ELSE head + occupancy - SIZE
  BY SizeAssumption DEF RingInv, TypeOK, RingConsistent, remove_queue
<1>1. head = slot(1)
  BY <1>t DEF slot
<1>2. TypeOK'
  BY <1>t DEF TypeOK, remove_queue, successor
<1>3. \A k \in 1 .. occupancy - 1 : slot(k)' = slot(k + 1)
  BY <1>t DEF slot, remove_queue, successor
<1>5. tail' = IF head' + occupancy' < SIZE THEN head' + occupancy'
              ELSE head' + occupancy' - SIZE
  BY <1>t DEF remove_queue, successor
<1>6. \A i \in 0 .. SIZE-1 :
        entry'[i] # empty_packet <=> \E k \in 1 .. occupancy - 1 : i = slot(k)'
  <2> SUFFICES ASSUME NEW i \in 0 .. SIZE-1
               PROVE  entry'[i] # empty_packet <=> \E k \in 1 .. occupancy - 1 : i = slot(k)'
    OBVIOUS
  <2>1. entry'[i] = IF i = slot(1) THEN empty_packet ELSE entry[i]
    BY <1>t, <1>1 DEF remove_queue
  <2>2. CASE i = slot(1)
    <3>1. \A k \in 1 .. occupancy - 1 : slot(k + 1) # slot(1)
      <4> SUFFICES ASSUME NEW k \in 1 .. occupancy - 1, slot(k + 1) = slot(1) PROVE FALSE
        OBVIOUS
      <4>1. k + 1 \in 1 .. SIZE /\ 1 \in 1 .. SIZE /\ k + 1 # 1
        BY <1>t
      <4> QED
        BY <4>1, <1>t, SlotInjective
    <3> QED
      BY <2>1, <2>2, <3>1, <1>3
  <2>3. CASE i # slot(1)
    <3>1. entry'[i] # empty_packet <=> \E k \in 1 .. occupancy : i = slot(k)
      BY <2>1, <2>3 DEF RingInv, RingConsistent
    <3>2. (\E k \in 1 .. occupancy : i = slot(k)) <=> \E k \in 1 .. occupancy - 1 : i = slot(k + 1)
      <4>1. ASSUME NEW k \in 1 .. occupancy, i = slot(k)
            PROVE  \E j \in 1 .. occupancy - 1 : i = slot(j + 1)
        <5>1. k # 1
          BY <4>1, <2>3
        <5>2. k - 1 \in 1 .. occupancy - 1 /\ (k - 1) + 1 = k
          BY <5>1, <1>t
        <5> QED
          BY <4>1, <5>2
      <4>2. ASSUME NEW k \in 1 .. occupancy - 1, i = slot(k + 1)
            PROVE  \E j \in 1 .. occupancy : i = slot(j)
        <5>1. k + 1 \in 1 .. occupancy
          BY <1>t
        <5> QED
          BY <4>2, <5>1
      <4> QED
        BY <4>1, <4>2
    <3> QED
      BY <3>1, <3>2, <1>3
  <2> QED
    BY <2>2, <2>3
<1>7. RingConsistent'
  BY <1>5, <1>6, <1>t DEF RingConsistent, remove_queue
<1> QED
  BY <1>2, <1>3, <1>7 DEF RingInv

(* The ring never corrupts itself: the assertions of add_queue and          *)
(* remove_queue, and "is not empty index" of the add functions, never fail. *)
THEOREM RingInvariant == Spec => [](TypeOK /\ RingConsistent)
<1>1. RingInv /\ [Next]_vars => RingInv'
  <2> SUFFICES ASSUME RingInv, [Next]_vars PROVE RingInv'
    OBVIOUS
  <2>1. ASSUME NEW p \in Packet, merge(p) PROVE RingInv'
    BY <2>1, MergeKeepsRing
  <2>2. ASSUME NEW p \in Packet, add_queue(p) PROVE RingInv'
    BY <2>2, AddKeepsRing
  <2>3. CASE remove_queue
    BY <2>3, RemoveKeepsRing
  <2>4. CASE UNCHANGED vars
    <3>1. /\ entry' = entry /\ head' = head /\ tail' = tail /\ occupancy' = occupancy
      BY <2>4 DEF vars
    <3>2. TypeOK'
      BY <3>1 DEF RingInv, TypeOK
    <3>3. RingConsistent'
      BY <3>1 DEF RingInv, RingConsistent, slot
    <3> QED
      BY <3>2, <3>3 DEF RingInv
  <2> QED
    BY <2>1, <2>2, <2>3, <2>4 DEF Next
<1> QED
  BY <1>1, RingInit, PTL DEF Spec, RingInv

(* Every slot holds a packet or is empty, and head, tail and occupancy stay  *)
(* inside the ring for every SIZE: the wrap-around of add_queue and          *)
(* remove_queue never leaves the array.                                      *)
THEOREM RingTypeCorrect == Spec => []TypeOK
BY RingInvariant, PTL

-------------------------------------------------------------------------------
(* The refinement *)

ContentsFacts ==
  /\ contents \in Seq(Packet) /\ Len(contents) = occupancy
  /\ \A k \in 1 .. occupancy : contents[k] = entry[slot(k)]

LEMMA ContentsIsSeq == RingInv => ContentsFacts
<1> SUFFICES ASSUME RingInv PROVE ContentsFacts
  OBVIOUS
<1>1. \A k \in 1 .. occupancy : entry[slot(k)] \in Packet
  BY InUse
<1>2. occupancy \in Nat
  BY SizeAssumption DEF RingInv, TypeOK
<1> QED
  BY <1>1, <1>2 DEF ContentsFacts, contents

LEMMA RefineInit == Init => Fifo!Init
BY DEF Init, Fifo!Init, contents

LEMMA RefineMerge ==
  ASSUME RingInv, RingInv', NEW p \in Packet, merge(p)
  PROVE  Fifo!Merge(p)
<1>1. PICK k : Oldest(p, k) /\ check_queue(p) = slot(k)
  BY CheckQueueFound DEF merge
<1>c. /\ contents \in Seq(Packet) /\ Len(contents) = occupancy
      /\ \A j \in 1 .. occupancy : contents[j] = entry[slot(j)]
  BY ContentsIsSeq DEF ContentsFacts
<1>2. k \in Fifo!Matches(p) /\ \A j \in Fifo!Matches(p) : k <= j
  BY <1>1, <1>c DEF Oldest, Fifo!Matches
<1> DEFINE e == [address |-> entry[slot(k)].address, flags |-> entry[slot(k)].flags \cup p.flags]
<1>3. /\ occupancy' = occupancy /\ \A j : slot(j)' = slot(j)
      /\ entry' = [entry EXCEPT ![slot(k)] = e]
  BY <1>1 DEF merge, slot
<1>4. k \in 1 .. SIZE /\ slot(k) \in 0 .. SIZE-1 /\ entry[slot(k)] \in Packet /\ k \in 1 .. occupancy
  BY <1>1, InUse DEF Oldest
<1> HIDE DEF e
<1>5. \A j \in 1 .. occupancy : entry'[slot(j)] = IF j = k THEN e ELSE entry[slot(j)]
  <2> SUFFICES ASSUME NEW j \in 1 .. occupancy
               PROVE  entry'[slot(j)] = IF j = k THEN e ELSE entry[slot(j)]
    OBVIOUS
  <2>1. j \in 1 .. SIZE /\ slot(j) \in 0 .. SIZE-1
    BY InUse
  <2>2. j # k => slot(j) # slot(k)
    BY <2>1, <1>4, SlotInjective DEF RingInv, TypeOK
  <2> QED
    BY <2>1, <2>2, <1>3, <1>4 DEF RingInv, TypeOK
<1>6. contents' = [j \in 1 .. occupancy |-> entry'[slot(j)]]
  BY <1>3 DEF contents
<1>7. contents' = [contents EXCEPT ![k] = e]
  BY <1>4, <1>5, <1>6 DEF contents
<1>8. e = [address |-> contents[k].address, flags |-> contents[k].flags \cup p.flags]
  BY <1>c, <1>4 DEF e
<1> QED
  BY <1>2, <1>7, <1>8 DEF Fifo!Merge

LEMMA RefineAdd ==
  ASSUME RingInv, RingInv', NEW p \in Packet, add_queue(p)
  PROVE  Fifo!Enqueue(p)
<1>c. /\ contents \in Seq(Packet) /\ Len(contents) = occupancy
      /\ \A j \in 1 .. occupancy : contents[j] = entry[slot(j)]
  BY ContentsIsSeq DEF ContentsFacts
<1>d. /\ contents' \in Seq(Packet) /\ Len(contents') = occupancy'
      /\ \A j \in 1 .. occupancy' : contents'[j] = entry'[slot(j)']
  <2>1. ContentsFacts'
    BY ContentsIsSeq, PTL
  <2> QED
    BY <2>1 DEF ContentsFacts
<1>1. Fifo!Matches(p) = {}
  BY <1>c, CheckQueueNone DEF Fifo!Matches, add_queue
<1>2. tail = slot(occupancy + 1) /\ \A k : slot(k)' = slot(k)
  BY AddKeepsRing
<1>t. /\ SIZE \in Nat \ {0} /\ occupancy \in 0 .. SIZE-1 /\ occupancy' = occupancy + 1
      /\ tail \in 0 .. SIZE-1 /\ head \in 0 .. SIZE-1
      /\ entry \in [0 .. SIZE-1 -> Packet \cup {empty_packet}]
      /\ entry' = [entry EXCEPT ![tail] = p]
  BY SizeAssumption DEF RingInv, TypeOK, add_queue
<1>3. \A j \in 1 .. occupancy : entry'[slot(j)] = entry[slot(j)]
  <2> SUFFICES ASSUME NEW j \in 1 .. occupancy PROVE entry'[slot(j)] = entry[slot(j)]
    OBVIOUS
  <2>1. j \in 1 .. SIZE /\ occupancy + 1 \in 1 .. SIZE /\ j # occupancy + 1
    BY <1>t
  <2>2. slot(j) # tail
    BY <2>1, <1>2, <1>t, SlotInjective
  <2>3. slot(j) \in 0 .. SIZE-1
    BY <2>1, <1>t, SlotInRing
  <2> QED
    BY <2>2, <2>3, <1>t
<1>4. entry'[slot(occupancy + 1)] = p
  BY <1>2, <1>t
<1>5. /\ Append(contents, p) \in Seq(Packet) /\ Len(Append(contents, p)) = occupancy + 1
      /\ \A j \in 1 .. occupancy : Append(contents, p)[j] = contents[j]
      /\ Append(contents, p)[occupancy + 1] = p
  BY <1>c, AppendProperties
<1>6. \A j \in 1 .. occupancy + 1 : contents'[j] = Append(contents, p)[j]
  <2> SUFFICES ASSUME NEW j \in 1 .. occupancy + 1
               PROVE  contents'[j] = Append(contents, p)[j]
    OBVIOUS
  <2>1. contents'[j] = entry'[slot(j)]
    BY <1>d, <1>t, <1>2
  <2>2. CASE j = occupancy + 1
    BY <2>1, <2>2, <1>4, <1>5
  <2>3. CASE j \in 1 .. occupancy
    BY <2>1, <2>3, <1>3, <1>5, <1>c
  <2>4. j = occupancy + 1 \/ j \in 1 .. occupancy
    BY <1>t
  <2> QED
    BY <2>2, <2>3, <2>4
<1>7. contents' = Append(contents, p)
  BY <1>5, <1>6, <1>d, <1>t, SeqEqual
<1> QED
  BY <1>1, <1>7, <1>c, <1>t DEF Fifo!Enqueue

LEMMA RefineRemove ==
  ASSUME RingInv, RingInv', remove_queue
  PROVE  Fifo!Serve
<1>c. /\ contents \in Seq(Packet) /\ Len(contents) = occupancy
      /\ \A j \in 1 .. occupancy : contents[j] = entry[slot(j)]
  BY ContentsIsSeq DEF ContentsFacts
<1>d. /\ contents' \in Seq(Packet) /\ Len(contents') = occupancy'
      /\ \A j \in 1 .. occupancy' : contents'[j] = entry'[slot(j)']
  <2>1. ContentsFacts'
    BY ContentsIsSeq, PTL
  <2> QED
    BY <2>1 DEF ContentsFacts
<1>1. \A k \in 1 .. occupancy - 1 : slot(k)' = slot(k + 1)
  BY RemoveKeepsRing
<1>t. /\ SIZE \in Nat \ {0} /\ occupancy \in 1 .. SIZE /\ occupancy' = occupancy - 1
      /\ head \in 0 .. SIZE-1 /\ entry \in [0 .. SIZE-1 -> Packet \cup {empty_packet}]
      /\ entry' = [entry EXCEPT ![head] = empty_packet]
  BY SizeAssumption DEF RingInv, TypeOK, remove_queue
<1>h. head = slot(1)
  BY <1>t DEF slot
<1>2. contents # << >>
  BY <1>c, <1>t
<1>3. /\ Tail(contents) \in Seq(Packet) /\ Len(Tail(contents)) = occupancy - 1
      /\ \A j \in 1 .. occupancy - 1 : Tail(contents)[j] = contents[j + 1]
  BY <1>c, <1>2, <1>t, HeadTailProperties
<1>4. \A j \in 1 .. occupancy - 1 : contents'[j] = Tail(contents)[j]
  <2> SUFFICES ASSUME NEW j \in 1 .. occupancy - 1
               PROVE  contents'[j] = Tail(contents)[j]
    OBVIOUS
  <2>1. j + 1 \in 1 .. SIZE /\ 1 \in 1 .. SIZE /\ j + 1 # 1 /\ j + 1 \in 1 .. occupancy
    BY <1>t
  <2>2. slot(j + 1) # head
    BY <2>1, <1>h, <1>t, SlotInjective
  <2>3. slot(j + 1) \in 0 .. SIZE-1
    BY <2>1, <1>t, SlotInRing
  <2>4. entry'[slot(j + 1)] = entry[slot(j + 1)]
    BY <2>2, <2>3, <1>t
  <2>5. contents'[j] = entry'[slot(j + 1)]
    BY <1>d, <1>1, <1>t
  <2> QED
    BY <2>1, <2>4, <2>5, <1>3, <1>c
<1>5. contents' = Tail(contents)
  BY <1>3, <1>4, <1>d, <1>t, SeqEqual
<1> QED
  BY <1>2, <1>5 DEF Fifo!Serve

(* Every behaviour of the ring is a behaviour of the merging bounded FIFO:  *)
(* the packets in the slots from head on are the queue, oldest first.       *)
THEOREM RingImplementsFifo == Spec => FifoSpec
<1>1. RingInv /\ RingInv' /\ [Next]_vars => [Fifo!Next]_contents
  <2> SUFFICES ASSUME RingInv, RingInv', [Next]_vars PROVE [Fifo!Next]_contents
    OBVIOUS
  <2>p. Packet = Fifo!Packet
    BY DEF Packet, Fifo!Packet
  <2>1. ASSUME NEW p \in Packet, merge(p) PROVE Fifo!Next
    BY <2>1, <2>p, RefineMerge DEF Fifo!Next
  <2>2. ASSUME NEW p \in Packet, add_queue(p) PROVE Fifo!Next
    BY <2>2, <2>p, RefineAdd DEF Fifo!Next
  <2>3. CASE remove_queue
    BY <2>3, RefineRemove DEF Fifo!Next
  <2>4. CASE UNCHANGED vars
    BY <2>4 DEF vars, contents, slot
  <2> QED
    BY <2>1, <2>2, <2>3, <2>4 DEF Next
<1>2. Spec => []RingInv
  BY RingInvariant, PTL DEF RingInv
<1> QED
  BY <1>1, <1>2, RefineInit, PTL DEF Spec, FifoSpec, Fifo!Spec

===============================================================================
