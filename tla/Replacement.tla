----------------------------- MODULE Replacement -----------------------------
(***************************************************************************)
(* The replacement policies the caches call: LRU for the normal array and  *)
(* the timestamp policy for the speculative array.  One set of an array is *)
(* a function from the ways 0 .. n-1 to blocks; a block is a record with   *)
(* at least the fields valid, id (instr_id) and, in the normal array, lru. *)
(***************************************************************************)
EXTENDS Integers, Scan

Invalid(set, n) == {w \in 0 .. n-1 : ~set[w].valid}

(* The victim is the first invalid way, else the first way in the LRU      *)
(* position n-1; the value n stands for the failing assertion "no victim". *)
lru_victim(set, n) ==
  LET oldest == {w \in 0 .. n-1 : set[w].lru = n-1}
  IN  IF Invalid(set, n) # {} THEN First(Invalid(set, n))
      ELSE IF oldest # {} THEN First(oldest) ELSE n

(* Mutant: every other way ages. *)
lru_update_all(set, way) ==
  [w \in DOMAIN set |->
     IF w = way THEN [set[w] EXCEPT !.lru = 0] ELSE [set[w] EXCEPT !.lru = @ + 1]]

(* Promote way to the MRU position 0; the ways that were younger age by 1. *)
lru_update(set, way) ==
  [w \in DOMAIN set |->
     IF w = way THEN [set[w] EXCEPT !.lru = 0]
     ELSE IF set[w].lru < set[way].lru THEN [set[w] EXCEPT !.lru = @ + 1]
     ELSE set[w]]

(* Mutant: the comparison is reversed, an older block may be evicted. *)
timestamp_victim_older(set, n, id) ==
  LET older == {w \in 0 .. n-1 : set[w].id < id}
  IN  IF Invalid(set, n) # {} THEN First(Invalid(set, n))
      ELSE IF older # {} THEN First(older) ELSE n

(* The victim of a speculative fill for instruction id is the first invalid *)
(* way, else the first way that holds a younger instruction's block; n      *)
(* (NUM_WAY_SPEC) says that the fill must not evict anything.               *)
timestamp_victim(set, n, id) ==
  LET younger == {w \in 0 .. n-1 : set[w].id > id}
  IN  IF Invalid(set, n) # {} THEN First(Invalid(set, n))
      ELSE IF younger # {} THEN First(younger) ELSE n
===============================================================================
