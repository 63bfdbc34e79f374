----------------------------- MODULE PacketQueue -----------------------------
(***************************************************************************)
(* PACKET_QUEUE, the ring buffer behind RQ, WQ, PQ, CQ and PROCESSED, used *)
(* the way add_rq, add_wq, add_pq and add_cq use it: look for a packet     *)
(* with the same address, else append at tail; the handlers remove at      *)
(* head.  The refinement of PacketFifo is what lets SpecCache model every  *)
(* queue by a sequence.                                                    *)
(***************************************************************************)
EXTENDS Integers, Sequences, Scan

CONSTANTS SIZE, Address, Flag

ASSUME SizeAssumption == SIZE \in Nat \ {0}
ASSUME AddressAssumption == 0 \notin Address /\ Address \subseteq Nat

VARIABLES
  entry,      \* the slots 0 .. SIZE-1; an empty PACKET has address 0
  head, tail, occupancy

vars == <<entry, head, tail, occupancy>>

Packet == [address : Address, flags : SUBSET Flag]
empty_packet == [address |-> 0, flags |-> {}]

same_address(p, S) == {i \in S : entry[i].address = p.address}

first_or_none(S) == IF S = {} THEN -1 ELSE First(S)

(* Mutant: the piece behind the wrap is not scanned. *)
check_queue_unwrapped(p) == first_or_none(same_address(p, head .. tail-1))

(* Scan from head to tail, in two pieces when the ring has wrapped (or is  *)
(* full), and return the first slot with the packet's address, else -1.    *)
check_queue(p) ==
  IF head = tail /\ occupancy = 0 THEN -1
  ELSE IF head < tail THEN first_or_none(same_address(p, head .. tail-1))
  ELSE IF same_address(p, head .. SIZE-1) # {} THEN First(same_address(p, head .. SIZE-1))
  ELSE first_or_none(same_address(p, 0 .. tail-1))

(* Mutant: the index leaves the ring. *)
successor_late(i) == IF i + 1 > SIZE THEN 0 ELSE i + 1

successor(i) == IF i + 1 >= SIZE THEN 0 ELSE i + 1

(* A waiting packet for the same address takes over the fill flags. *)
merge(p) ==
  /\ check_queue(p) # -1
  /\ entry' = [entry EXCEPT ![check_queue(p)] =
                 [address |-> @.address, flags |-> @.flags \cup p.flags]]
  /\ UNCHANGED <<head, tail, occupancy>>

(* A full queue refuses the packet; nothing changes. *)
add_queue(p) ==
  /\ check_queue(p) = -1
  /\ occupancy # SIZE
  /\ entry' = [entry EXCEPT ![tail] = p]
  /\ occupancy' = occupancy + 1
  /\ tail' = successor(tail)
  /\ UNCHANGED head

(* Mutant: the slot is not reset. *)
remove_queue_stale ==
  /\ occupancy > 0
  /\ occupancy' = occupancy - 1
  /\ head' = successor(head)
  /\ UNCHANGED <<entry, tail>>

remove_queue ==
  /\ occupancy > 0
  /\ entry' = [entry EXCEPT ![head] = empty_packet]
  /\ occupancy' = occupancy - 1
  /\ head' = successor(head)
  /\ UNCHANGED tail

Init ==
  /\ entry = [i \in 0 .. SIZE-1 |-> empty_packet]
  /\ head = 0 /\ tail = 0 /\ occupancy = 0

Next == (\E p \in Packet : merge(p) \/ add_queue(p)) \/ remove_queue

Spec == Init /\ [][Next]_vars

-------------------------------------------------------------------------------
(* The slot of the i-th oldest packet, and the queue the ring stands for. *)
slot(i) == IF head + i - 1 < SIZE THEN head + i - 1 ELSE head + i - 1 - SIZE

contents == [i \in 1 .. occupancy |-> entry[slot(i)]]

TypeOK ==
  /\ entry \in [0 .. SIZE-1 -> Packet \cup {empty_packet}]
  /\ head \in 0 .. SIZE-1 /\ tail \in 0 .. SIZE-1 /\ occupancy \in 0 .. SIZE

(* head, tail and occupancy agree, the slots in use hold packets and every  *)
(* other slot is empty, so the slot at tail that add_rq, add_wq, add_pq and *)
(* add_cq assert to be empty ("is not empty index") is empty, and           *)
(* add_queue's assertion (not full) and remove_queue's (not empty) hold.    *)
RingConsistent ==
  /\ tail = (IF head + occupancy < SIZE THEN head + occupancy ELSE head + occupancy - SIZE)
  /\ \A i \in 0 .. SIZE-1 :
       entry[i] # empty_packet <=> \E k \in 1 .. occupancy : i = slot(k)

(* The ring implements a merging bounded FIFO. *)
Fifo == INSTANCE PacketFifo WITH q <- contents
FifoSpec == Fifo!Spec
===============================================================================
