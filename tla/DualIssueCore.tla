--------------------------- MODULE DualIssueCore ---------------------------
(***************************************************************************)
(* The issue cluster beside the primary pipeline it is wired to in the     *)
(* generated cores: decode hands the first instruction of a pair to EX and *)
(* offers the second to the lane; EX writes an ALU result through the ALU  *)
(* port, which the lane uses when EX does not; a load writes from WB.      *)
(*                                                                         *)
(* Of every register the model keeps where its newest value in program     *)
(* order is: in the register file, in EX, in WB, in the lane, or lost.     *)
(*                                                                         *)
(* The cluster has interlocks inside a pair and none between a lane that  *)
(* still has to write and the instructions after it.  Two ghosts name the  *)
(* registers this has put at risk, until a later instruction writes them:  *)
(*   - exposed: one whose order is at risk (see disturbs);                 *)
(*   - crossed: one the lane was given while a load of it was outstanding. *)
(*                                                                         *)
(* A cycle in which the controller halts decode is one that offers no      *)
(* pair; instructions on the APU, loads that also write through the ALU    *)
(* port and accesses that fail are left out.                               *)
(***************************************************************************)
EXTENDS HamsaIssueCluster, Signals

VARIABLES ex,          \* the instruction in EX: {} or {instruction}
          wb,          \* the load in WB: {} or {its rd}
          home,        \* where each register's newest value is
          misread,     \* the last issue read a value that was not the newest
          exposed,     \* the registers whose order a missing interlock put at risk
          crossed,     \* the registers whose copy one did
          late,        \* the lane wrote over what a younger instruction had written
          wrong_path   \* the lane wrote behind a branch as it was taken

vars == <<clusterVars, ex, wb, home, misread, exposed, crossed, late, wrong_path>>

First  == [kind : {"alu", "load", "serial"}, rd : Optional(Reg), rs : SUBSET Reg]
            \cup [kind : {"quiet", "branch"}, rd : {{}}, rs : SUBSET Reg]
Second == [kind : {"alu", "reserved"}, rd : Optional(Reg), rs : SUBSET Reg]
            \cup [kind : {"other"}, rd : {{}}, rs : {{}}]

Init ==
  /\ ClusterInit
  /\ ex = {} /\ wb = {} /\ home = [r \in Reg |-> "rf"]
  /\ misread = FALSE /\ exposed = {} /\ crossed = {} /\ late = FALSE /\ wrong_path = FALSE

branch_in_ex == \E e \in ex : e.kind = "branch"
ex_load      == UNION {e.rd : e \in {i \in ex : i.kind = "load"}}
ex_alu       == UNION {e.rd : e \in {i \in ex : i.kind \in {"alu", "serial"}}}
alu_we       == \E e \in ex : e.kind \in {"alu", "serial"}
wb_rd        == UNION wb

\* Decode waits for a load in EX, or for one not returned, that the first instruction
\* reads, or loads again.
load_stall(i1, wb_ready) ==
  LET awaited == ex_load \cup (IF wb_ready THEN {} ELSE wb_rd)
  IN  awaited \cap (i1.rs \cup IF i1.kind = "load" THEN i1.rd ELSE {}) # {}

\* Where the first instruction gets an operand from: the ALU port, whoever uses it, WB,
\* or the register file.
primary_source(r, committed) ==
  IF r \in ex_alu THEN "ex" ELSE IF r \in committed THEN "lane"
  ELSE IF r \in wb_rd THEN "wb" ELSE "rf"

\* A register file write from a place: it is the newest value, or it destroys it.
written(h, place) == IF h \in {place, "rf"} THEN IF h = place THEN "rf" ELSE "lost" ELSE h

\* pair: the pair decode offers, or none; trap: decode redirects; done: EX is not busy;
\* response: the load in WB returns; taken: the branch in EX, if one is, is taken.
Cycle(pair, trap, done, response, taken) ==
  LET wb_ready  == wb = {} \/ response
      ex_valid  == done /\ wb_ready
      ex_ready  == ex_valid \/ branch_in_ex
      redirect  == trap \/ taken
      lane_writes == issue2_wb_ready(ex_valid, alu_we)
      committed == issue2_commit(lane_writes)
      waiting   == UNION {e.rd : e \in lane \ committing(lane_writes)}
      fired     == {p \in pair : ex_ready /\ ~taken /\ ~load_stall(p.i1, wb_ready)}
      accepted  == {p \in fired : issue2_valid(p.i1, p.i2) /\ issue2_ready(lane_writes)}
      issued    == {p \in accepted : ~redirect /\ p.i2.kind = "alu"}
      awaited   == ex_load \cup (IF wb_ready THEN {} ELSE wb_rd)
      \* The result behind a branch counts once the branch turns out not to be taken.
      behind    == UNION {e.rd : e \in {x \in lane : x.elder = "branch"}}
      resolved  == IF taken THEN {} ELSE behind
      \* The registers for which an instruction that issues has the newest value.
      to_ex     == UNION {writes(p.i1) : p \in fired}
      to_lane   == UNION {p.i2.rd : p \in {q \in issued : q.i1.kind # "branch"}}
      home0     == [r \in Reg |-> IF r \in resolved THEN "lane" ELSE home[r]]
      home1     == [r \in Reg |-> IF wb_ready /\ r \in wb_rd THEN written(home0[r], "wb") ELSE home0[r]]
      home2     == [r \in Reg |-> IF r \in committed THEN written(home1[r], "lane")
                                  ELSE IF ex_valid /\ r \in ex_alu THEN written(home1[r], "ex")
                                  ELSE home1[r]]
      killed    == {r \in Reg : redirect /\ home2[r] = "lane"}
      home3     == [r \in Reg |-> IF r \in killed THEN "lost"
                                  ELSE IF ex_valid /\ r \in ex_load /\ home2[r] = "ex" THEN "wb"
                                  ELSE home2[r]]
      \* The missing interlocks: a younger instruction gets to the ALU port before the
      \* lane, a redirect by a younger instruction or a branch before it kills the lane's
      \* result, it writes behind a taken branch, or it drops what its decoder rejects.
      overtaken == waiting \cap UNION {p.i1.rd : p \in {q \in fired : q.i1.kind \in {"alu", "serial"}}}
      unkilled  == IF taken THEN committed \cap behind ELSE {}
      dropped   == UNION {p.i2.rd : p \in {q \in accepted : q.i2.kind = "reserved"}}
  IN
  /\ LaneClock(redirect, lane_writes, ex_ready, accepted)
  /\ MirrorClock(committed, IF wb_ready THEN wb_rd ELSE {}, IF ex_valid THEN ex_alu ELSE {})
  /\ ex' = IF fired # {} THEN {p.i1 : p \in fired} ELSE IF ex_ready THEN {} ELSE ex
  /\ wb' = IF ex_valid THEN {e.rd : e \in {i \in ex : i.kind = "load"}}
           ELSE IF wb_ready THEN {} ELSE wb
  /\ home' = [r \in Reg |-> IF r \in to_lane THEN "lane" ELSE IF r \in to_ex THEN "ex" ELSE home3[r]]
  /\ exposed' = (exposed \ (to_ex \cup to_lane \cup resolved))
                  \cup (overtaken \cup killed \cup unkilled \cup dropped)
  /\ crossed' = (crossed \ (to_ex \cup to_lane)) \cup (awaited \cap UNION {p.i2.rd : p \in issued})
  /\ misread' =
       \/ \E p \in fired : \E r \in p.i1.rs \ (waiting \cup exposed) :
            home0[r] # primary_source(r, committed)
       \/ \E p \in issued : \E r \in p.i2.rs \ (awaited \cup exposed \cup crossed) :
            LET s == operand_source(r, ex_alu, wb_rd)
            IN  \/ r \in writes(p.i1) \/ home0[r] # s
                \/ s = "rf" /\ r \notin mirror
                \/ s = "wb" /\ ~wb_ready
  /\ late' = \E r \in committed \ unkilled : home1[r] = "rf"
  /\ wrong_path' = (unkilled # {})

\* A first instruction that stands alone has a second of kind "other": the lane takes neither.
Pair == [i1 : First, i2 : Second]

\* EX is busy for as long as it likes, except with a branch.
Busy == {done \in BOOLEAN : done \/ (ex # {} /\ ~branch_in_ex)}

Run == \E pair \in Optional(Pair), done \in Busy, response \in BOOLEAN :
         Cycle(pair, FALSE, done, response, FALSE)

\* A jump, a hardware loop's jump back, a trap or a debug entry: decode redirects fetch
\* and, with it, flushes the lane.
Trap == \E pair \in Optional(Pair), done \in Busy, response \in BOOLEAN :
          Cycle(pair, TRUE, done, response, FALSE)

\* The branch in EX is taken: decode executes nothing, and what the lane would have been
\* given in this cycle is flushed.
TakenBranch == branch_in_ex /\ \E response \in BOOLEAN : Cycle({}, FALSE, TRUE, response, TRUE)

Next == Run \/ Trap \/ TakenBranch

Spec == Init /\ [][Next]_vars

\* Program order decides every register no missing interlock exposes: the newest value of
\* each is in the register file or on its way there, in a stage that holds a writer of it,
\* and no older writer, a load that returns late included, reaches the register file
\* after a newer one.
RegistersInOrder ==
  \A r \in Reg \ exposed : \/ home[r] = "rf"
                           \/ /\ home[r] = "ex"
                              /\ \E e \in ex : r \in writes(e)
                           \/ /\ home[r] = "wb"
                              /\ r \in wb_rd
                           \/ /\ home[r] = "lane"
                              /\ \E e \in lane : r \in e.rd

\* Both instructions of a pair read the newest value of each operand, over the paths the
\* two forwarding networks have, in every cycle: except that the first reads too early
\* what the lane has still to write, the second what a load has still to deliver, and
\* each what a missing interlock put at risk before.
OperandsNewest == ~misread

\* The cluster's copy of the register file holds, of every register whose newest value is
\* in the register file, that value: except of one the lane was given while a load of it
\* was outstanding, or whose order was at risk.
MirrorAgrees == \A r \in Reg \ (exposed \cup crossed) : home[r] = "rf" => r \in mirror

\* The lane commits in program order: it never writes over what a younger instruction has
\* written.
CommitsInOrder == ~late

\* A branch that is taken kills the second instruction it was paired with: what the lane
\* computed behind it reaches no register.
BranchKills == ~wrong_path

=============================================================================
