--------------------------------- MODULE Scan ---------------------------------
(***************************************************************************)
(* The code looks things up with loops over an index that stop at the      *)
(* first hit; First(S) is that index when S is the set of hits.            *)
(***************************************************************************)
EXTENDS Integers

First(S) == CHOOSE i \in S : \A j \in S : i <= j
===============================================================================
