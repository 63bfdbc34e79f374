---------------------------- MODULE MCFetchCommit -----------------------------
(***************************************************************************)
(* An L1I with one set and one way in each array: two lines compete for    *)
(* the same speculative block.                                             *)
(***************************************************************************)
EXTENDS FetchCommit

InstrOnly == {"L1I"}
L1I_1 == [c \in {"L1I"} |-> 1]
L1I_2 == [c \in {"L1I"} |-> 2]
L1I_4 == [c \in {"L1I"} |-> 4]
AllLines == [c \in {"L1I"} |-> Addr]
===============================================================================
