----------------------------- MODULE Scan_proofs ------------------------------
EXTENDS Scan, WellFoundedInduction, TLAPS

(* A nonempty set of naturals has a first element: the loops that stop at  *)
(* the first hit find one if there is one.                                 *)
THEOREM FirstIsLeast ==
  ASSUME NEW S \in SUBSET Nat, S # {}
  PROVE  First(S) \in S /\ \A j \in S : First(S) <= j
<1>1. PICK i \in S : \A j \in S : <<j, i>> \notin OpToRel(<, Nat)
  BY NatLessThanWellFounded, WFMin
<1>2. \A j \in S : ~(j < i)
  BY <1>1 DEF OpToRel
<1>3. \A j \in S : i <= j
  BY <1>2
<1> QED
  BY <1>3 DEF First
===============================================================================
