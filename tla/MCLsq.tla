--------------------------------- MODULE MCLsq ---------------------------------
(* Instances of Lsq: two addresses of one page and one line, so that any   *)
(* requests may merge, and two registers.                                  *)
EXTENDS Lsq

A == 1
B == 2
MCAddr == {A, B}
OnePage == [a \in MCAddr |-> 0]
OneLine == [a \in MCAddr |-> 0]

ins(src, dst, rsrc, rdst) == [src |-> src, dst |-> dst, rsrc |-> rsrc, rdst |-> rdst]

Load     == ins(<<A>>, << >>, << >>, {1})
TwoLoads == ins(<<A, B>>, << >>, << >>, {1, 2})
Store    == ins(<< >>, <<A>>, <<1>>, {})
Update   == ins(<<B>>, <<B>>, << >>, {})
Compute  == ins(<< >>, << >>, <<1, 2>>, {1})
TwoStores == ins(<< >>, <<A, B>>, <<1>>, {})
LoadFrom == ins(<<B>>, << >>, <<1>>, {1})

(* The address of every load is known when it is dispatched. *)
Straight == {Load, TwoLoads, Store, TwoStores, Update, Compute}
(* A load may wait for the register that holds its address. *)
Dependent == {Load, Compute, LoadFrom, Store}
(* Loads of both addresses behind an instruction that stores to both and a *)
(* younger store to one of them.                                           *)
Several == {TwoStores, Update, TwoLoads}
================================================================================
