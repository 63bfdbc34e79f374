------------------------------ MODULE PacketFifo ------------------------------
(***************************************************************************)
(* What a packet queue promises to its cache: a bounded FIFO of packets    *)
(* that merges a packet into the oldest waiting one for the same address,  *)
(* refuses a packet when it is full, and serves the oldest packet first.   *)
(***************************************************************************)
EXTENDS Integers, Sequences

CONSTANTS
  SIZE,     \* capacity
  Address,  \* addresses that check_queue compares
  Flag      \* what merging collects: fill_l1i, fill_l1d, ...

VARIABLE q  \* the waiting packets, oldest first

Packet == [address : Address, flags : SUBSET Flag]

Matches(p) == {i \in 1 .. Len(q) : q[i].address = p.address}

(* Merge p into the oldest waiting packet for its address. *)
Merge(p) ==
  \E i \in Matches(p) :
    /\ \A j \in Matches(p) : i <= j
    /\ q' = [q EXCEPT ![i] = [address |-> @.address, flags |-> @.flags \cup p.flags]]

Enqueue(p) ==
  /\ Matches(p) = {}
  /\ Len(q) < SIZE
  /\ q' = Append(q, p)

Serve ==
  /\ q # << >>
  /\ q' = Tail(q)

Init == q = << >>

Next == (\E p \in Packet : Merge(p) \/ Enqueue(p)) \/ Serve

Spec == Init /\ [][Next]_q
===============================================================================
