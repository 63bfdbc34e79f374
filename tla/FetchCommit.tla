----------------------------- MODULE FetchCommit ------------------------------
(***************************************************************************)
(* The front end and the retirement of O3_CPU composed with the L1I of     *)
(* SpecCache.  Instructions enter IFETCH_BUFFER in program order, already  *)
(* translated ("magically translate instructions"), are fetched through    *)
(* the speculative array of the L1I, move in order through the decode      *)
(* buffer (left out: a FIFO delay) to the ROB, retire in order, and commit *)
(* their line.  What an instruction does between dispatch and retirement   *)
(* is left out: it finishes after an arbitrary delay.  The core is the     *)
(* only requester, so SpecCache's own environment is not used here.        *)
(***************************************************************************)
EXTENDS SpecCache

CONSTANTS
  MaxInstr,          \* bound: length of the trace
  IFETCH_SIZE, ROB_SIZE

ASSUME FrontEndAssumption == Caches = {"L1I"} /\ {MaxInstr, IFETCH_SIZE, ROB_SIZE} \subseteq Nat

VARIABLES
  trace,          \* line of every instruction read so far; instr_id = position
  IFETCH_BUFFER,  \* instructions being fetched: [id, fetched]
  ROB,            \* dispatched instructions
  num_retired

core == <<trace, IFETCH_BUFFER, ROB, num_retired>>
fc_vars == <<vars, core>>

line(i) == trace[i]

-------------------------------------------------------------------------------
read_from_trace ==
  /\ Len(trace) < MaxInstr /\ Len(IFETCH_BUFFER) < IFETCH_SIZE
  /\ \E a \in CoreAddr["L1I"] : trace' = Append(trace, a)
  /\ IFETCH_BUFFER' = Append(IFETCH_BUFFER, [id |-> Len(trace) + 1, fetched |-> "NO"])
  /\ UNCHANGED <<vars, ROB, num_retired>>

(* Every buffered instruction on line a changes its fetched flag. *)
mark(a, flag) ==
  [j \in DOMAIN IFETCH_BUFFER |->
     IF line(IFETCH_BUFFER[j].id) = a THEN [IFETCH_BUFFER[j] EXCEPT !.fetched = flag]
     ELSE IFETCH_BUFFER[j]]

(* Mutant: the result -2 of add_rq is ignored. *)
refused_ignored(p) == p.addr \notin Addr

refused(p) == rq_duplicate("L1I", p) = {} /\ Len(RQ["L1I"]) = RqSize["L1I"]

fetch_packet(j) ==
  read_packet("L1I", line(IFETCH_BUFFER[j].id), 0, IFETCH_BUFFER[j].id)

Unfetched == {j \in DOMAIN IFETCH_BUFFER : IFETCH_BUFFER[j].fetched = "NO"}

(* One request of fetch_instruction: the buffer is scanned from its head,  *)
(* a refused request is passed over until the next cycle, and an accepted  *)
(* one stands for every buffered instruction on its line.                  *)
fetch_instruction ==
  \E j \in Unfetched :
    LET p == fetch_packet(j)
    IN  /\ ~refused(p)
        /\ \A i \in Unfetched : i < j => refused(fetch_packet(i))
        /\ RQ' = rq_after_add(RQ, "L1I", p)
        /\ IFETCH_BUFFER' = mark(p.addr, "INFLIGHT")
        /\ UNCHANGED <<arrays, WQ, PQ, CQ, MSHR, PROCESSED, below, answered, issued,
                       trace, ROB, num_retired>>

(* A fetched line completes every buffered instruction on it. *)
complete_instr_fetch ==
  /\ UpdateRob("L1I")
  /\ IFETCH_BUFFER' = mark(Head(PROCESSED["L1I"]), "COMPLETED")
  /\ UNCHANGED <<trace, ROB, num_retired>>

decode_and_dispatch ==
  /\ IFETCH_BUFFER # << >> /\ Head(IFETCH_BUFFER).fetched = "COMPLETED"
  /\ Len(ROB) < ROB_SIZE
  /\ ROB' = Append(ROB, Head(IFETCH_BUFFER).id)
  /\ IFETCH_BUFFER' = Tail(IFETCH_BUFFER)
  /\ UNCHANGED <<vars, trace, num_retired>>

(* The head of the ROB retires and commits its line at the L1I. *)
retire_rob ==
  /\ ROB # << >>
  /\ Len(CQ["L1I"]) < CqSize["L1I"]
  /\ CQ' = cq_after_add(CQ, "L1I", commit_packet("L1I", line(Head(ROB)), 0, Head(ROB)))
  /\ ROB' = Tail(ROB)
  /\ num_retired' = num_retired + 1
  /\ UNCHANGED <<arrays, RQ, WQ, PQ, MSHR, PROCESSED, below, answered, issued,
                 trace, IFETCH_BUFFER>>

cache_step(A) == A /\ UNCHANGED core

FCInit ==
  /\ Init
  /\ trace = << >> /\ IFETCH_BUFFER = << >> /\ ROB = << >> /\ num_retired = 0

FCNext ==
  \/ read_from_trace \/ fetch_instruction \/ complete_instr_fetch
  \/ decode_and_dispatch \/ retire_rob
  \/ cache_step(handle_fill("L1I"))
  \/ cache_step(handle_read("L1I"))
  \/ cache_step(commit_blocks("L1I"))
  \/ \E a \in Addr : cache_step(BelowReturn("L1I", a))

FCSpec == FCInit /\ [][FCNext]_fc_vars

(* Every stage of the core and every handler of the cache runs each cycle.  *)
FCFairness ==
  /\ WF_fc_vars(fetch_instruction) /\ WF_fc_vars(complete_instr_fetch)
  /\ WF_fc_vars(decode_and_dispatch) /\ WF_fc_vars(retire_rob)
  /\ \A s \in Slots("L1I") : WF_fc_vars(cache_step(FillSpec("L1I", s)))
  /\ WF_fc_vars(cache_step(handle_read("L1I")))
  /\ WF_fc_vars(cache_step(commit_blocks("L1I")))
  /\ \A a \in Addr : WF_fc_vars(cache_step(BelowReturn("L1I", a)))

FCFairSpec == FCSpec /\ FCFairness

-------------------------------------------------------------------------------
(* Properties *)

(* The normal L1I array holds only lines of retired instructions: each      *)
(* block there was brought in by an instruction on that line that has       *)
(* retired, however fetches were merged on the way.                         *)
OnlyRetiredInNormalArray ==
  \A s \in DOMAIN block["L1I"] : \A w \in DOMAIN block["L1I"][s] :
     LET b == block["L1I"][s][w]
     IN  b.valid => b.id \in 1 .. num_retired /\ line(b.id) = b.tag

(* No wakeup is lost: an instruction that waits for its line has a request  *)
(* or an answer for that line under way in the L1I, although one request    *)
(* stands for many instructions and the queues merge requests.              *)
WaitingFetchIsServed ==
  \A j \in DOMAIN IFETCH_BUFFER :
     LET a == line(IFETCH_BUFFER[j].id)
     IN  IFETCH_BUFFER[j].fetched = "INFLIGHT" =>
           \/ \E i \in DOMAIN RQ["L1I"] : RQ["L1I"][i].addr = a
           \/ check_mshr(MSHR["L1I"], a) # {}
           \/ \E i \in DOMAIN PROCESSED["L1I"] : PROCESSED["L1I"][i] = a

(* Every instruction of the trace retires: "there will not be any deadlock  *)
(* because the earlier instruction will eventually get committed, thereby   *)
(* freeing up the resource for the newer instruction" (report, 4.2).        *)
NoDeadlock == \A i \in 1 .. MaxInstr : (Len(trace) >= i) ~> (num_retired >= i)
===============================================================================
