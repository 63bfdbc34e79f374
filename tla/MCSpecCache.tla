----------------------------- MODULE MCSpecCache -----------------------------
(***************************************************************************)
(* Small instances of SpecCache for TLC.                                   *)
(***************************************************************************)
EXTENDS SpecCache

(* Instances: which caches, with everything below them external. *)
InstrAndData == {"L1I", "L1D", "L2C"}
InstrDataLLC == {"L1I", "L1D", "L2C", "LLC"}
DataOnly     == {"L1D", "L2C", "LLC"}
Tlbs         == {"ITLB", "DTLB", "STLB"}

(* The addresses the core sends to each cache. *)
Shared     == [c \in CacheNames |-> Addr]
CodeApart  == [c \in CacheNames |-> IF c = "L1I" THEN {3} ELSE {1, 2}]

(* Sizes that are the same in every cache. *)
Each0 == [c \in CacheNames |-> 0]
Each1 == [c \in CacheNames |-> 1]
Each2 == [c \in CacheNames |-> 2]
Each3 == [c \in CacheNames |-> 3]
Each4 == [c \in CacheNames |-> 4]

(* The RQ of a level has room for every MSHR of the caches above it, as in  *)
(* cache.h (L2C_RQ_SIZE >= L1I_MSHR_SIZE + L1D_MSHR_SIZE).                  *)
MshrByLevel == [c \in CacheNames |-> IF level(c) = 1 THEN 1 ELSE 2]
RqOfUppers == [c \in CacheNames |-> IF level(c) = 1 THEN 1 ELSE 2]

(* Two trees of caches that share nothing but the counter of packets: the   *)
(* TLBs, and the data caches with prefetchers.  One of them is used at a    *)
(* time (the TLBs with MaxRequests packets, the data caches with one less). *)
(* As a constraint OneTree cuts only steps of the core and the prefetchers, *)
(* which have no fairness: no handler of a cache touches the other tree or  *)
(* asks for another line, so a fair behaviour that begins in it stays in it.*)
TlbsAndData == Tlbs \cup DataOnly
TreeAddr  == [c \in CacheNames |-> IF c = "DTLB" THEN {1, 3} ELSE {1, 2}]
TlbWays   == [c \in CacheNames |-> IF c \in Tlbs THEN 2 ELSE 1]
DataPq    == [c \in CacheNames |-> IF c \in Tlbs THEN 0 ELSE 2]
StlbTwo   == [c \in CacheNames |-> IF c = "STLB" THEN 2 ELSE 1]

Untouched(tree) ==
  \A c \in tree : /\ RQ[c] = << >> /\ WQ[c] = << >> /\ PQ[c] = << >>
                   /\ free_slots(MSHR[c]) = Slots(c)
                   /\ \A s \in DOMAIN block[c], w \in DOMAIN block[c][0] : ~block[c][s][w].valid
OneTree ==
  /\ \/ Untouched(DataOnly)
     \/ Untouched(Tlbs) /\ issued < MaxRequests
  /\ \A c \in DataOnly : \A i \in DOMAIN PQ[c] : PQ[c][i].addr \in TreeAddr[c]
===============================================================================
