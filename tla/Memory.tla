-------------------------------- MODULE Memory --------------------------------
(***************************************************************************)
(* What the memory below the last-level cache promises: it remembers every *)
(* line that was asked for, answers each request once, at most one at a    *)
(* time, and in the end answers them all.  A request may also be answered  *)
(* in the very call that makes it, and then nothing is owed.               *)
(***************************************************************************)
CONSTANT Addr   \* line addresses

VARIABLE owed   \* the lines that were asked for and not answered yet

Ask(a) ==
  /\ a \notin owed
  /\ owed' = owed \cup {a}

Answer(a) ==
  /\ a \in owed
  /\ owed' = owed \ {a}

Init == owed = {}

Next == \E a \in Addr : Ask(a) \/ Answer(a)

Spec == Init /\ [][Next]_owed

(* Every line that is owed is answered in the end. *)
Answered == \A a \in Addr : a \in owed ~> a \notin owed
===============================================================================
