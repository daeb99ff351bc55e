------------------------- MODULE HamsaIssueCluster -------------------------
(***************************************************************************)
(* cv32e40p_hamsa_issue_cluster with its decision unit, forwarding and     *)
(* secondary lane, in the configuration with a mirrored register file and  *)
(* two write ports (NATIVE_5R3W = 0).                                      *)
(*                                                                         *)
(* An instruction is [kind, rd, rs]: rd the register it writes, {} or {r}, *)
(* and rs the registers it reads; x0 is no register here.  Kinds of a      *)
(* first instruction are "alu", "load", "quiet" (no register written),     *)
(* "branch" and "serial" (jumps, CSR accesses, custom instructions); a     *)
(* second one is "alu", "reserved" (an OP or OP-IMM encoding the secondary *)
(* decoder rejects) or of a kind the lane does not support.  Results have  *)
(* no value: a result is where it is.                                      *)
(***************************************************************************)
CONSTANT Reg

VARIABLES lane,      \* the result in the lane: {} or {[rd, elder]}
          mirror     \* the registers whose copy in rf_q is the register file's

clusterVars == <<lane, mirror>>

ClusterInit == lane = {} /\ mirror = Reg

writes(i) == IF i.kind \in {"alu", "load", "serial"} THEN i.rd ELSE {}

\* Faults: the decision unit forgets one of its hazards.
raw_hazard_not(i1, i2) == FALSE
waw_hazard_not(i1, i2) == FALSE

raw_hazard(i1, i2) == writes(i1) \cap i2.rs # {}
waw_hazard(i1, i2) == writes(i1) \cap i2.rd # {}

issue2_class_supported(i2) == i2.kind \in {"alu", "reserved"}

\* The generated cores let the lane speculate behind a branch.
issue1_serializing(i1) == i1.kind = "serial"

issue2_valid(i1, i2) ==
  /\ issue2_class_supported(i2) /\ ~issue1_serializing(i1)
  /\ ~raw_hazard(i1, i2) /\ ~waw_hazard(i1, i2)

\* The lane may write when EX is done and leaves it the ALU's write port.
issue2_wb_ready(commit_safe, alu_we) == commit_safe /\ ~alu_we

issue2_ready(wb_ready) == lane = {} \/ wb_ready

\* The lane's result that is written in this cycle.
committing(wb_ready) == IF wb_ready THEN lane ELSE {}

issue2_commit(wb_ready) == UNION {e.rd : e \in committing(wb_ready)}

\* Where the second instruction of a pair gets an operand from.
operand_source(r, ex_rd, wb_rd) ==
  IF r \in ex_rd THEN "ex"
  ELSE IF \E e \in lane : r \in e.rd THEN "lane"
  ELSE IF r \in wb_rd THEN "wb" ELSE "rf"

\* The lane's register: accepted is the second instruction taken over with its first.
\* One that its decoder rejects leaves the lane empty.
LaneClock(kill, wb_ready, moved, accepted) ==
  lane' = IF kill THEN {}
          ELSE IF issue2_ready(wb_ready)
               THEN {[rd |-> p.i2.rd, elder |-> p.i1.kind] : p \in {q \in accepted : q.i2.kind = "alu"}}
          ELSE {[e EXCEPT !.elder = IF moved THEN "gone" ELSE @] : e \in lane}

\* A fault: the copy is not told of what the lane writes.
MirrorClockNoLane(committed, wb_rd, alu_rd) ==
  mirror' = ((mirror \ committed) \cup wb_rd) \cup alu_rd

\* The copy sees all three writers; between a load and the lane in one cycle the load
\* wins in the copy and the lane in the register file.
MirrorClock(committed, wb_rd, alu_rd) ==
  mirror' = (((mirror \cup committed) \ (committed \cap wb_rd)) \cup (wb_rd \ committed)) \cup alu_rd

=============================================================================
