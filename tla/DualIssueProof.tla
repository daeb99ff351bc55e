-------------------------- MODULE DualIssueProof --------------------------
(***************************************************************************)
(* Program order in the dual-issue back end, for every set of registers:   *)
(* the newest value of each is lost only where an interlock is missing,    *)
(* and both instructions of a pair read it.                                *)
(***************************************************************************)
EXTENDS DualIssueCore, TLAPS

lane_rd == UNION {e.rd : e \in lane}
ex_rd   == UNION {writes(e) : e \in ex}
lane_behind_branch == \E e \in lane : e.elder = "branch"

Elders == {"alu", "load", "quiet", "branch", "gone"}

Typed ==
  /\ lane = {} \/ \E e \in [rd : Optional(Reg), elder : Elders] : lane = {e}
  /\ ex = {} \/ \E i \in First : ex = {i}
  /\ wb = {} \/ \E rd \in Optional(Reg) : wb = {rd}
  /\ home \in [Reg -> {"rf", "ex", "wb", "lane", "lost"}]

\* Where the newest value of a register is: in EX exactly if EX writes it, in WB only if
\* WB loads it, in the lane only if the lane writes it and its branch is resolved.  A lane
\* that writes one whose newest value is elsewhere waits behind a branch, was overtaken by
\* a load still in EX, or is exposed.
Placed ==
  \A r \in Reg :
    /\ home[r] = "ex" <=> r \in ex_rd
    /\ home[r] = "wb" => r \in wb_rd
    /\ home[r] = "lane" => r \in lane_rd /\ ~lane_behind_branch
    /\ home[r] = "lost" => r \in exposed
    /\ r \in wb_rd => home[r] # "rf"
    /\ r \in lane_rd /\ home[r] = "rf" => lane_behind_branch \/ r \in exposed
    /\ r \in lane_rd /\ home[r] = "wb" => lane_behind_branch
    /\ r \in lane_rd /\ home[r] = "lost" => lane_behind_branch
    /\ r \in lane_rd /\ r \in ex_alu => r \in exposed

\* The lane and a load write a register at once only if the lane crossed the load.
Met == \A r \in Reg : r \in lane_rd /\ r \in wb_rd => home[r] = "ex" \/ r \in crossed

Inv ==
  /\ Typed /\ Placed /\ Met
  /\ lane_behind_branch => branch_in_ex
  /\ MirrorAgrees /\ OperandsNewest

----------------------------------------------------------------------------
LEMMA InitInv == Init => Inv
<1> SUFFICES ASSUME Init PROVE Inv
  OBVIOUS
<1>1. lane = {} /\ ex = {} /\ wb = {} /\ mirror = Reg
  BY DEF Init, ClusterInit
<1>2. lane_rd = {} /\ ex_rd = {} /\ wb_rd = {} /\ ~lane_behind_branch
  BY <1>1 DEF lane_rd, ex_rd, wb_rd, lane_behind_branch
<1> QED BY <1>1, <1>2 DEF Init, Inv, Typed, Placed, Met, MirrorAgrees, OperandsNewest

\* What the instruction in EX does with a register.
LEMMA ExWrites ==
  ASSUME Typed
  PROVE  /\ \A r : r \in ex_rd <=> r \in ex_alu \/ r \in ex_load
         /\ \A r : ~(r \in ex_alu /\ r \in ex_load)
         /\ \A r : r \in ex_rd => r \in Reg
         /\ branch_in_ex => ex_rd = {}
         /\ \A r : r \in ex_alu => alu_we
         /\ \A r : r \in ex_load => ~alu_we
<1>1. CASE ex = {}
  BY <1>1 DEF ex_rd, ex_alu, ex_load, branch_in_ex, alu_we
<1>2. ASSUME NEW i \in First, ex = {i}
      PROVE  /\ ex_rd = writes(i) /\ writes(i) \subseteq Reg
             /\ ex_alu = (IF i.kind \in {"alu", "serial"} THEN i.rd ELSE {})
             /\ ex_load = (IF i.kind = "load" THEN i.rd ELSE {})
             /\ branch_in_ex <=> i.kind = "branch"
             /\ alu_we <=> i.kind \in {"alu", "serial"}
  <2>1. ex_rd = writes(i)
    BY <1>2 DEF ex_rd
  <2>2. writes(i) \subseteq Reg
    BY DEF writes, First, Optional
  <2>3. ex_alu = (IF i.kind \in {"alu", "serial"} THEN i.rd ELSE {})
    BY <1>2 DEF ex_alu
  <2>4. ex_load = (IF i.kind = "load" THEN i.rd ELSE {})
    BY <1>2 DEF ex_load
  <2>5. (branch_in_ex <=> i.kind = "branch") /\ (alu_we <=> i.kind \in {"alu", "serial"})
    BY <1>2 DEF branch_in_ex, alu_we
  <2> QED BY <2>1, <2>2, <2>3, <2>4, <2>5
<1>3. ASSUME NEW i \in First, ex = {i}
      PROVE  /\ \A r : r \in ex_rd <=> r \in ex_alu \/ r \in ex_load
             /\ \A r : ~(r \in ex_alu /\ r \in ex_load)
             /\ \A r : r \in ex_rd => r \in Reg
             /\ branch_in_ex => ex_rd = {}
             /\ \A r : r \in ex_alu => alu_we
             /\ \A r : r \in ex_load => ~alu_we
  BY <1>2, <1>3 DEF writes
<1> QED BY <1>1, <1>3 DEF Typed

\* What the stages hold, and what the lane gives up in a cycle.
LEMMA LaneHolds ==
  ASSUME Typed, NEW writes_now \in BOOLEAN
  PROVE  /\ \A r : r \in issue2_commit(writes_now) <=> writes_now /\ r \in lane_rd
         /\ \A r : r \in UNION {e.rd : e \in lane \ committing(writes_now)}
                    <=> ~writes_now /\ r \in lane_rd
         /\ lane_rd \subseteq Reg /\ wb_rd \subseteq Reg
         /\ \A e \in lane : lane = {e} /\ e.rd = lane_rd
<1>1. lane_rd \subseteq Reg
  BY DEF Typed, lane_rd, Optional
<1>2. wb_rd \subseteq Reg
  BY DEF Typed, wb_rd, Optional
<1>3. \A e \in lane : lane = {e} /\ e.rd = lane_rd
  BY DEF Typed, lane_rd
<1>4. committing(writes_now) = IF writes_now THEN lane ELSE {}
  BY DEF committing
<1> QED BY <1>1, <1>2, <1>3, <1>4 DEF issue2_commit, lane_rd

----------------------------------------------------------------------------
\* A cycle of the back end keeps all of it.
LEMMA CycleInv ==
  ASSUME Inv,
         NEW pair \in Optional(Pair), NEW trap \in BOOLEAN, NEW done \in BOOLEAN,
         NEW response \in BOOLEAN, NEW taken \in BOOLEAN, taken => branch_in_ex,
         Cycle(pair, trap, done, response, taken)
  PROVE  Inv'
<1> DEFINE wb_ready  == wb = {} \/ response
           ex_valid  == done /\ wb_ready
           ex_ready  == ex_valid \/ branch_in_ex
           redirect  == trap \/ taken
           lane_writes == issue2_wb_ready(ex_valid, alu_we)
           committed == issue2_commit(lane_writes)
           waiting   == UNION {e.rd : e \in lane \ committing(lane_writes)}
           fired     == {p \in pair : ex_ready /\ ~taken /\ ~load_stall(p.i1, wb_ready)}
           accepted  == {p \in fired : issue2_valid(p.i1, p.i2) /\ issue2_ready(lane_writes)}
           issued    == {p \in accepted : ~redirect /\ p.i2.kind = "alu"}
           awaited   == ex_load \cup (IF wb_ready THEN {} ELSE wb_rd)
           behind    == UNION {e.rd : e \in {x \in lane : x.elder = "branch"}}
           resolved  == IF taken THEN {} ELSE behind
           to_ex     == UNION {writes(p.i1) : p \in fired}
           to_lane   == UNION {p.i2.rd : p \in {q \in issued : q.i1.kind # "branch"}}
           given     == UNION {p.i2.rd : p \in issued}
           home0     == [r \in Reg |-> IF r \in resolved THEN "lane" ELSE home[r]]
           home1     == [r \in Reg |-> IF wb_ready /\ r \in wb_rd THEN written(home0[r], "wb")
                                      ELSE home0[r]]
           home2     == [r \in Reg |-> IF r \in committed THEN written(home1[r], "lane")
                                      ELSE IF ex_valid /\ r \in ex_alu THEN written(home1[r], "ex")
                                      ELSE home1[r]]
           killed    == {r \in Reg : redirect /\ home2[r] = "lane"}
           home3     == [r \in Reg |-> IF r \in killed THEN "lost"
                                      ELSE IF ex_valid /\ r \in ex_load /\ home2[r] = "ex" THEN "wb"
                                      ELSE home2[r]]
           by_alu    == UNION {p.i1.rd : p \in {q \in fired : q.i1.kind \in {"alu", "serial"}}}
           overtaken == waiting \cap by_alu
           unkilled  == IF taken THEN committed \cap behind ELSE {}
           dropped   == UNION {p.i2.rd : p \in {q \in accepted : q.i2.kind = "reserved"}}
\* The parts of the cycle.
<1>1. /\ LaneClock(redirect, lane_writes, ex_ready, accepted)
      /\ MirrorClock(committed, IF wb_ready THEN wb_rd ELSE {}, IF ex_valid THEN ex_alu ELSE {})
      /\ ex' = IF fired # {} THEN {p.i1 : p \in fired} ELSE IF ex_ready THEN {} ELSE ex
      /\ wb' = IF ex_valid THEN {e.rd : e \in {i \in ex : i.kind = "load"}}
               ELSE IF wb_ready THEN {} ELSE wb
  BY DEF Cycle
<1>2. home' = [r \in Reg |-> IF r \in to_lane THEN "lane" ELSE IF r \in to_ex THEN "ex" ELSE home3[r]]
  BY DEF Cycle
<1>3. /\ exposed' = (exposed \ (to_ex \cup to_lane \cup resolved))
                      \cup (overtaken \cup killed \cup unkilled \cup dropped)
      /\ crossed' = (crossed \ (to_ex \cup to_lane)) \cup (awaited \cap given)
  BY DEF Cycle
<1>4. misread' =
        \/ \E p \in fired : \E r \in p.i1.rs \ (waiting \cup exposed) :
             home0[r] # primary_source(r, committed)
        \/ \E p \in issued : \E r \in p.i2.rs \ (awaited \cup exposed \cup crossed) :
             LET s == operand_source(r, ex_alu, wb_rd)
             IN  \/ r \in writes(p.i1) \/ home0[r] # s
                 \/ s = "rf" /\ r \notin mirror
                 \/ s = "wb" /\ ~wb_ready
  BY DEF Cycle
<1>5. Typed
  BY DEF Inv
\* The signals and the sets of registers.
<1>6. /\ lane_writes \in BOOLEAN /\ wb_ready \in BOOLEAN /\ ex_valid \in BOOLEAN
      /\ redirect \in BOOLEAN /\ ex_ready \in BOOLEAN
      /\ ex_valid => wb_ready
      /\ lane_writes <=> ex_valid /\ ~alu_we
      /\ ex_ready <=> ex_valid \/ branch_in_ex
      /\ taken => redirect
  BY DEF issue2_wb_ready, alu_we, branch_in_ex
<1>7. /\ \A r : r \in committed <=> lane_writes /\ r \in lane_rd
      /\ \A r : r \in waiting <=> ~lane_writes /\ r \in lane_rd
      /\ \A r : r \in awaited <=> r \in ex_load \/ (~wb_ready /\ r \in wb_rd)
  BY <1>5, <1>6, LaneHolds
<1>8. /\ \A r : r \in behind <=> r \in lane_rd /\ lane_behind_branch
      /\ \A r : r \in resolved <=> r \in lane_rd /\ lane_behind_branch /\ ~taken
      /\ \A r : r \in unkilled <=> r \in lane_rd /\ lane_behind_branch /\ taken /\ lane_writes
      /\ \A r : r \in killed <=> r \in Reg /\ redirect /\ home2[r] = "lane"
  <2>1. \A r : r \in behind <=> r \in lane_rd /\ lane_behind_branch
    BY <1>5, <1>6, LaneHolds DEF lane_behind_branch
  <2> QED BY <2>1, <1>7
<1>9. /\ fired = {} \/ \E p \in Pair : fired = {p} /\ ex_ready /\ ~taken
                                          /\ ~load_stall(p.i1, wb_ready)
      /\ accepted \subseteq fired
      /\ \A p \in accepted : issue2_valid(p.i1, p.i2) /\ issue2_ready(lane_writes)
      /\ \A p : p \in issued <=> p \in accepted /\ ~redirect /\ p.i2.kind = "alu"
  BY DEF Optional
<1>10. /\ \A r : r \in to_ex <=> \E p \in fired : r \in writes(p.i1)
       /\ \A r : r \in by_alu <=> \E p \in fired : p.i1.kind \in {"alu", "serial"} /\ r \in p.i1.rd
       /\ \A r : r \in to_lane <=> \E p \in issued : r \in p.i2.rd /\ p.i1.kind # "branch"
       /\ \A r : r \in given <=> \E p \in issued : r \in p.i2.rd
       /\ \A r : r \in overtaken <=> r \in waiting /\ r \in by_alu
  OBVIOUS
<1>11. ASSUME NEW r \in Reg
       PROVE  /\ home0[r] = IF r \in resolved THEN "lane" ELSE home[r]
              /\ home1[r] = IF wb_ready /\ r \in wb_rd THEN written(home0[r], "wb") ELSE home0[r]
              /\ home2[r] = IF r \in committed THEN written(home1[r], "lane")
                            ELSE IF ex_valid /\ r \in ex_alu THEN written(home1[r], "ex")
                            ELSE home1[r]
              /\ home3[r] = IF r \in killed THEN "lost"
                            ELSE IF ex_valid /\ r \in ex_load /\ home2[r] = "ex" THEN "wb"
                            ELSE home2[r]
  OBVIOUS
<1> HIDE DEF wb_ready, ex_valid, ex_ready, redirect, lane_writes, committed, waiting, fired,
             accepted, issued, awaited, behind, resolved, to_ex, to_lane, given, home0, home1,
             home2, killed, home3, by_alu, overtaken, unkilled, dropped
\* What is in the stages when it ends.
<1>12. /\ ex' = {} \/ \E i \in First : ex' = {i}
       /\ \A r : r \in ex_rd' <=> r \in to_ex \/ (~ex_ready /\ r \in ex_rd)
       /\ \A r : r \in ex_alu' <=> r \in by_alu \/ (~ex_ready /\ r \in ex_alu)
       /\ \A p \in fired : p.i1.kind = "branch" => branch_in_ex'
  <2>1. CASE fired = {}
    <3>1. ex' = IF ex_ready THEN {} ELSE ex
      BY <2>1, <1>1
    <3>2. ex' = {} => ex_rd' = {} /\ ex_alu' = {}
      BY DEF ex_rd, ex_alu
    <3>3. ex' = ex => ex_rd' = ex_rd /\ ex_alu' = ex_alu
      BY DEF ex_rd, ex_alu
    <3>4. \A r : r \notin to_ex /\ r \notin by_alu
      BY <2>1, <1>10
    <3> QED BY <2>1, <3>1, <3>2, <3>3, <3>4, <1>5 DEF Typed
  <2>2. ASSUME NEW p \in Pair, fired = {p}
        PROVE  /\ \E i \in First : ex' = {i}
               /\ ex_rd' = to_ex /\ ex_alu' = by_alu /\ ex_ready
               /\ \A q \in fired : q.i1.kind = "branch" => branch_in_ex'
    <3>1. ex' = {p.i1} /\ p.i1 \in First
      BY <2>2, <1>1 DEF Pair
    <3>2. ex_rd' = writes(p.i1) /\ (p.i1.kind = "branch" => branch_in_ex')
      BY <3>1 DEF ex_rd, branch_in_ex
    <3>3. ex_alu' = IF p.i1.kind \in {"alu", "serial"} THEN p.i1.rd ELSE {}
      BY <3>1 DEF ex_alu
    <3>4. to_ex = writes(p.i1)
      BY <2>2 DEF to_ex
    <3>5. by_alu = IF p.i1.kind \in {"alu", "serial"} THEN p.i1.rd ELSE {}
      BY <2>2 DEF by_alu
    <3>6. ex_ready
      BY <2>2, <1>9
    <3> QED BY <2>2, <3>1, <3>2, <3>3, <3>4, <3>5, <3>6
  <2> QED BY <2>1, <2>2, <1>9
<1>13. /\ wb' = {} \/ \E rd \in Optional(Reg) : wb' = {rd}
       /\ \A r : r \in wb_rd' <=> IF ex_valid THEN r \in ex_load ELSE ~wb_ready /\ r \in wb_rd
  <2> DEFINE loads == {e.rd : e \in {i \in ex : i.kind = "load"}}
  <2>1. UNION loads = ex_load
    BY DEF ex_load
  <2>2. loads = {} \/ \E rd \in Optional(Reg) : loads = {rd}
    BY <1>5 DEF Typed, First
  <2>3. wb' = IF ex_valid THEN loads ELSE IF wb_ready THEN {} ELSE wb
    BY <1>1
  <2> HIDE DEF loads
  <2> QED BY <2>1, <2>2, <2>3, <1>5 DEF Typed, wb_rd
<1>14. \A p \in accepted : /\ fired = {p} /\ p \in Pair /\ ~taken
                           /\ p.i1.kind \in Elders
                           /\ \A r \in p.i2.rd \cup p.i2.rs : r \notin writes(p.i1)
                           /\ \A r : r \notin waiting
  <2> SUFFICES ASSUME NEW p \in accepted
               PROVE  /\ fired = {p} /\ p \in Pair /\ ~taken
                      /\ p.i1.kind \in Elders
                      /\ \A r \in p.i2.rd \cup p.i2.rs : r \notin writes(p.i1)
                      /\ \A r : r \notin waiting
    OBVIOUS
  <2>1. fired = {p} /\ p \in Pair /\ ~taken
    BY <1>9
  <2>2. p.i1.kind \in Elders
    BY <1>9, <2>1 DEF issue2_valid, issue1_serializing, Pair, First, Elders
  <2>3. \A r \in p.i2.rd \cup p.i2.rs : r \notin writes(p.i1)
    BY <1>9 DEF issue2_valid, raw_hazard, waw_hazard
  <2>4. lane = {} \/ lane_writes
    BY <1>9 DEF issue2_ready
  <2>5. lane = {} => lane_rd = {}
    BY DEF lane_rd
  <2> QED BY <2>1, <2>2, <2>3, <2>4, <2>5, <1>7
<1>15. /\ lane' = {} \/ \E e \in [rd : Optional(Reg), elder : Elders] : lane' = {e}
       /\ \A r : r \in lane_rd' <=> r \in given \/ (~redirect /\ r \in waiting)
       /\ lane_behind_branch' <=> \E p \in issued : p.i1.kind = "branch"
  <2>1. CASE redirect
    <3>1. lane' = {}
      BY <1>1, <2>1 DEF LaneClock
    <3> QED BY <2>1, <3>1, <1>9, <1>10 DEF lane_rd, lane_behind_branch
  <2>2. CASE ~redirect /\ issue2_ready(lane_writes) /\ issued = {}
    <3>1. \A p \in accepted : p.i2.kind # "alu"
      BY <2>2, <1>9
    <3>2. lane' = {}
      BY <1>1, <2>2, <3>1 DEF LaneClock
    <3>3. \A r : r \notin waiting
      <4>1. lane = {} => lane_rd = {}
        BY DEF lane_rd
      <4> QED BY <1>7, <2>2, <4>1 DEF issue2_ready
    <3>4. lane_rd' = {} /\ ~lane_behind_branch'
      BY <3>2 DEF lane_rd, lane_behind_branch
    <3> QED BY <2>2, <3>2, <3>3, <3>4, <1>10
  <2>3. ASSUME ~redirect, NEW p \in issued
        PROVE  /\ \E e \in [rd : Optional(Reg), elder : Elders] : lane' = {e}
               /\ \A r : r \in lane_rd' <=> r \in given
               /\ \A r : r \notin waiting
               /\ lane_behind_branch' <=> \E q \in issued : q.i1.kind = "branch"
    <3>1. accepted = {p} /\ issued = {p} /\ p.i2.kind = "alu"
      BY <1>9, <1>14
    <3>2. lane' = {[rd |-> q.i2.rd, elder |-> q.i1.kind] : q \in {x \in accepted : x.i2.kind = "alu"}}
      BY <1>1, <1>9, <2>3 DEF LaneClock
    <3>3. lane' = {[rd |-> p.i2.rd, elder |-> p.i1.kind]}
      BY <3>1, <3>2
    <3>4. p.i2.rd \in Optional(Reg)
      BY <1>14, <3>1 DEF Pair, Second
    <3>5. lane_rd' = p.i2.rd /\ (lane_behind_branch' <=> p.i1.kind = "branch")
      BY <3>3 DEF lane_rd, lane_behind_branch
    <3>6. [rd |-> p.i2.rd, elder |-> p.i1.kind] \in [rd : Optional(Reg), elder : Elders]
      BY <1>14, <3>1, <3>4
    <3> QED BY <3>1, <3>3, <3>5, <3>6, <1>10, <1>14
  <2>4. CASE ~redirect /\ ~issue2_ready(lane_writes)
    <3>1. PICK e \in [rd : Optional(Reg), elder : Elders] : lane = {e}
      BY <1>5, <2>4 DEF Typed, issue2_ready
    <3>2. lane' = {[e EXCEPT !.elder = IF ex_ready THEN "gone" ELSE @]}
      BY <1>1, <2>4, <3>1 DEF LaneClock
    <3>3. PICK el \in Elders : /\ lane' = {[rd |-> e.rd, elder |-> el]}
                               /\ el = IF ex_ready THEN "gone" ELSE e.elder
      BY <3>2 DEF Elders
    <3>4. lane_rd' = e.rd /\ lane_rd = e.rd /\ ~lane_writes
      BY <2>4, <3>1, <3>3, <1>6 DEF lane_rd, issue2_ready
    <3>5. ~lane_behind_branch'
      <4>1. e.elder = "branch" => ex_ready
        BY <3>1, <1>6 DEF Inv, lane_behind_branch
      <4> QED BY <3>3, <4>1 DEF lane_behind_branch
    <3>6. issued = {}
      BY <1>9, <2>4
    <3>7. [rd |-> e.rd, elder |-> el] \in [rd : Optional(Reg), elder : Elders]
      BY <3>3
    <3>8. \A r : r \notin given
      BY <3>6, <1>10
    <3> QED BY <2>4, <3>3, <3>4, <3>5, <3>6, <3>7, <3>8, <1>7
  <2>5. CASE ~redirect /\ issued # {}
    <3>1. PICK p : p \in issued
      BY <2>5
    <3> QED BY <2>3, <2>5, <3>1
  <2> QED BY <2>1, <2>2, <2>4, <2>5
\* The signals and the sets of one register.
<1>16. ASSUME NEW r \in Reg
       PROVE  /\ r \in ex_rd <=> r \in ex_alu \/ r \in ex_load
              /\ ~(r \in ex_alu /\ r \in ex_load)
              /\ lane_behind_branch => r \notin ex_rd
              /\ lane_behind_branch => ex_ready
              /\ r \in ex_alu => ~lane_writes
              /\ r \in ex_load /\ ex_valid => lane_writes
              /\ r \in given => ~redirect /\ ex_ready /\ r \notin waiting /\ r \notin to_ex
              /\ r \in to_ex => ex_ready /\ ~taken
              /\ r \in to_lane => r \in given /\ ~lane_behind_branch'
              /\ r \in given /\ r \notin to_lane => lane_behind_branch'
              /\ lane_behind_branch' /\ r \in lane_rd' => r \in given /\ r \notin to_lane
              /\ r \in by_alu => r \in to_ex
              /\ taken => ex_ready /\ r \notin ex_rd
              /\ ex_ready /\ ~ex_valid => r \notin ex_rd
  <2>1. /\ r \in ex_rd <=> r \in ex_alu \/ r \in ex_load
        /\ ~(r \in ex_alu /\ r \in ex_load)
        /\ branch_in_ex => r \notin ex_rd
        /\ r \in ex_alu => alu_we
        /\ r \in ex_load => ~alu_we
    BY <1>5, ExWrites
  <2>2. lane_behind_branch => branch_in_ex
    BY DEF Inv
  <2>3. r \in given => ~redirect /\ ex_ready /\ r \notin waiting /\ r \notin to_ex
    <3> SUFFICES ASSUME NEW p \in issued, r \in p.i2.rd
                 PROVE  ~redirect /\ ex_ready /\ r \notin waiting /\ r \notin to_ex
      BY <1>10
    <3> QED BY <1>9, <1>10, <1>14
  <2>4. r \in to_ex => ex_ready /\ ~taken
    BY <1>9, <1>10
  <2>5. /\ r \in to_lane => r \in given /\ ~lane_behind_branch'
        /\ r \in given /\ r \notin to_lane => lane_behind_branch'
    <3>1. \A p, q \in issued : p = q
      BY <1>9, <1>14
    <3> QED BY <3>1, <1>10, <1>15
  <2>6. lane_behind_branch' /\ r \in lane_rd' => r \in given /\ r \notin to_lane
    <3>1. lane_behind_branch' => r \notin waiting
      BY <1>9, <1>14, <1>15
    <3> QED BY <2>5, <3>1, <1>15
  <2>7. r \in by_alu => r \in to_ex
    BY <1>10 DEF writes
  <2> QED BY <2>1, <2>2, <2>3, <2>4, <2>5, <2>6, <2>7, <1>6
<1>17. ASSUME NEW r \in Reg
       PROVE  /\ home[r] \in {"rf", "ex", "wb", "lane", "lost"}
              /\ home[r] = "ex" <=> r \in ex_rd
              /\ home[r] = "wb" => r \in wb_rd
              /\ home[r] = "lane" => r \in lane_rd /\ ~lane_behind_branch
              /\ home[r] = "lost" => r \in exposed
              /\ r \in wb_rd => home[r] # "rf"
              /\ r \in lane_rd /\ home[r] = "rf" => lane_behind_branch \/ r \in exposed
              /\ r \in lane_rd /\ home[r] = "wb" => lane_behind_branch
              /\ r \in lane_rd /\ home[r] = "lost" => lane_behind_branch
              /\ r \in lane_rd /\ r \in ex_alu => r \in exposed
              /\ r \in lane_rd /\ r \in wb_rd => home[r] = "ex" \/ r \in crossed
              /\ r \notin exposed /\ r \notin crossed /\ home[r] = "rf" => r \in mirror
  BY <1>5 DEF Inv, Typed, Placed, Met, MirrorAgrees
\* Where the newest value of a register is when the cycle has ended.
<1>18. ASSUME NEW r \in Reg
       PROVE  home2[r] = IF r \in ex_rd THEN IF ex_valid /\ r \in ex_alu THEN "rf" ELSE "ex"
                         ELSE IF home0[r] = "lane" THEN IF lane_writes THEN "rf" ELSE "lane"
                         ELSE IF home0[r] = "lost" THEN "lost"
                         ELSE IF r \in lane_rd /\ lane_writes THEN "lost"
                         ELSE IF home0[r] = "wb" /\ ~wb_ready THEN "wb" ELSE "rf"
  <2>1. /\ written("ex", "ex") = "rf" /\ written("lane", "lane") = "rf"
        /\ written("wb", "wb") = "rf" /\ written("ex", "wb") = "ex"
        /\ written("lane", "wb") = "lane" /\ written("lost", "wb") = "lost"
        /\ written("ex", "lane") = "ex" /\ written("lost", "lane") = "lost"
        /\ written("rf", "lane") = "lost" /\ written("wb", "lane") = "wb"
    BY DEF written
  <2>2. home0[r] = IF r \in lane_rd /\ lane_behind_branch /\ ~taken THEN "lane" ELSE home[r]
    BY <1>8, <1>11
  <2>3. CASE r \in ex_rd
    <3>1. home0[r] = "ex"
      BY <2>2, <2>3, <1>16, <1>17
    <3>2. home1[r] = "ex"
      BY <2>1, <3>1, <1>11
    <3> QED BY <2>1, <2>3, <3>2, <1>7, <1>11, <1>16
  <2>4. CASE r \notin ex_rd /\ home0[r] = "lane"
    <3>1. home1[r] = "lane" /\ r \in lane_rd /\ r \notin ex_alu
      BY <2>1, <2>2, <2>4, <1>11, <1>16, <1>17
    <3> QED BY <2>1, <2>4, <3>1, <1>7, <1>11
  <2>5. CASE r \notin ex_rd /\ home0[r] = "lost"
    <3>1. home1[r] = "lost" /\ r \notin ex_alu
      BY <2>1, <2>5, <1>11, <1>16
    <3> QED BY <2>1, <2>5, <3>1, <1>7, <1>11
  <2>6. CASE r \notin ex_rd /\ home0[r] = "wb"
    <3>1. home1[r] = (IF wb_ready THEN "rf" ELSE "wb") /\ r \notin ex_alu /\ (lane_writes => wb_ready)
      BY <2>1, <2>2, <2>6, <1>6, <1>11, <1>16, <1>17
    <3> QED BY <2>1, <2>6, <3>1, <1>7, <1>11
  <2>7. CASE r \notin ex_rd /\ home0[r] = "rf"
    <3>1. home1[r] = "rf" /\ r \notin ex_alu
      BY <2>1, <2>2, <2>7, <1>11, <1>16, <1>17
    <3> QED BY <2>1, <2>7, <3>1, <1>7, <1>11
  <2>8. home0[r] \in {"rf", "ex", "wb", "lane", "lost"} /\ (home0[r] = "ex" => r \in ex_rd)
    BY <2>2, <1>17
  <2> QED BY <2>3, <2>4, <2>5, <2>6, <2>7, <2>8
<1>19. ASSUME NEW r \in Reg
       PROVE  /\ home'[r] = IF r \in to_lane THEN "lane" ELSE IF r \in to_ex THEN "ex" ELSE home3[r]
              /\ home3[r] = IF redirect /\ home2[r] = "lane" THEN "lost"
                            ELSE IF ex_valid /\ r \in ex_load /\ home2[r] = "ex" THEN "wb"
                            ELSE home2[r]
              /\ home0[r] = IF r \in lane_rd /\ lane_behind_branch /\ ~taken THEN "lane" ELSE home[r]
              /\ r \in exposed' <=>
                   \/ r \in exposed /\ r \notin to_ex /\ r \notin to_lane
                        /\ ~(r \in lane_rd /\ lane_behind_branch /\ ~taken)
                   \/ r \in waiting /\ r \in by_alu
                   \/ redirect /\ home2[r] = "lane"
                   \/ r \in lane_rd /\ lane_behind_branch /\ taken /\ lane_writes
                   \/ r \in dropped
              /\ r \in crossed' <=> \/ r \in crossed /\ r \notin to_ex /\ r \notin to_lane
                                    \/ r \in awaited /\ r \in given
  <2>1. home'[r] = IF r \in to_lane THEN "lane" ELSE IF r \in to_ex THEN "ex" ELSE home3[r]
    BY <1>2
  <2>2. r \in exposed' <=> \/ r \in exposed /\ r \notin to_ex /\ r \notin to_lane /\ r \notin resolved
                           \/ r \in overtaken \/ r \in killed \/ r \in unkilled \/ r \in dropped
    BY <1>3
  <2>3. r \in crossed' <=> \/ r \in crossed /\ r \notin to_ex /\ r \notin to_lane
                           \/ r \in awaited /\ r \in given
    BY <1>3
  <2> QED BY <2>1, <2>2, <2>3, <1>8, <1>10, <1>11
<1>20. ASSUME NEW r \in Reg
       PROVE  /\ r \in ex_rd' <=> r \in to_ex \/ (~ex_ready /\ r \in ex_rd)
              /\ r \in ex_alu' <=> r \in by_alu \/ (~ex_ready /\ r \in ex_alu)
              /\ r \in wb_rd' <=> IF ex_valid THEN r \in ex_load ELSE ~wb_ready /\ r \in wb_rd
              /\ r \in lane_rd' <=> r \in given \/ (~redirect /\ r \in waiting)
              /\ r \in waiting <=> ~lane_writes /\ r \in lane_rd
              /\ r \in awaited <=> r \in ex_load \/ (~wb_ready /\ r \in wb_rd)
  BY <1>7, <1>12, <1>13, <1>15
<1>21. ASSUME NEW r \in Reg
       PROVE  /\ home'[r] \in {"rf", "ex", "wb", "lane", "lost"}
              /\ home'[r] = "ex" <=> r \in ex_rd'
              /\ home'[r] = "wb" => r \in wb_rd'
              /\ home'[r] = "lane" => r \in lane_rd' /\ ~lane_behind_branch'
              /\ home'[r] = "lost" => r \in exposed'
              /\ r \in wb_rd' => home'[r] # "rf"
              /\ r \in lane_rd' /\ home'[r] = "rf" => lane_behind_branch' \/ r \in exposed'
              /\ r \in lane_rd' /\ home'[r] = "wb" => lane_behind_branch'
              /\ r \in lane_rd' /\ home'[r] = "lost" => lane_behind_branch'
              /\ r \in lane_rd' /\ r \in ex_alu' => r \in exposed'
              /\ r \in lane_rd' /\ r \in wb_rd' => home'[r] = "ex" \/ r \in crossed'
  <2>1. CASE r \in to_lane
    BY <2>1, <1>6, <1>16, <1>17, <1>19, <1>20
  <2>2. CASE r \notin to_lane /\ r \in to_ex
    BY <2>2, <1>6, <1>16, <1>17, <1>19, <1>20
  <2>3. CASE r \notin to_lane /\ r \notin to_ex /\ r \in ex_rd
    <3>1. home2[r] = IF ex_valid /\ r \in ex_alu THEN "rf" ELSE "ex"
      BY <2>3, <1>18
    <3> QED BY <2>3, <3>1, <1>6, <1>16, <1>17, <1>19, <1>20
  <2>4. CASE r \notin to_lane /\ r \notin to_ex /\ r \notin ex_rd /\ home0[r] = "lane"
    <3>1. home2[r] = IF lane_writes THEN "rf" ELSE "lane"
      BY <2>4, <1>18
    <3> QED BY <2>4, <3>1, <1>6, <1>16, <1>17, <1>19, <1>20
  <2>5. CASE r \notin to_lane /\ r \notin to_ex /\ r \notin ex_rd /\ home0[r] # "lane"
    <3>1. home2[r] = IF home0[r] = "lost" THEN "lost"
                     ELSE IF r \in lane_rd /\ lane_writes THEN "lost"
                     ELSE IF home0[r] = "wb" /\ ~wb_ready THEN "wb" ELSE "rf"
      BY <2>5, <1>18
    <3>2. home0[r] = home[r] /\ (r \in lane_rd => (lane_behind_branch /\ taken) \/ r \in exposed)
      BY <2>5, <1>17, <1>19
    <3> QED BY <2>5, <3>1, <3>2, <1>6, <1>16, <1>17, <1>19, <1>20
  <2> QED BY <2>1, <2>2, <2>3, <2>4, <2>5
<1>22. MirrorAgrees'
  <2> SUFFICES ASSUME NEW r \in Reg, r \notin exposed', r \notin crossed', home'[r] = "rf"
               PROVE  r \in mirror'
    BY DEF MirrorAgrees
  <2>1. r \in mirror' <=>
          \/ (r \in mirror \/ r \in committed) /\ ~(r \in committed /\ wb_ready /\ r \in wb_rd)
          \/ wb_ready /\ r \in wb_rd /\ r \notin committed
          \/ ex_valid /\ r \in ex_alu
    BY <1>1 DEF MirrorClock
  <2>2. r \in committed <=> lane_writes /\ r \in lane_rd
    BY <1>7
  <2>3. r \notin to_lane /\ r \notin to_ex /\ home2[r] = "rf"
    BY <1>19
  <2>4. CASE r \in ex_rd
    BY <2>1, <2>3, <2>4, <1>18
  <2>5. CASE r \notin ex_rd /\ home0[r] = "lane"
    <3>1. lane_writes /\ r \in lane_rd
      BY <2>3, <2>5, <1>17, <1>18, <1>19
    <3>2. r \notin wb_rd
      BY <2>3, <2>5, <3>1, <1>17, <1>19
    <3> QED BY <2>1, <2>2, <3>1, <3>2
  <2>6. CASE r \notin ex_rd /\ home0[r] # "lane"
    <3>1. home0[r] = home[r] /\ r \notin committed /\ home[r] # "lost"
      BY <2>2, <2>3, <2>6, <1>18, <1>19
    <3>2. CASE home[r] = "rf"
      <4>1. r \notin exposed /\ r \notin crossed
        BY <2>3, <2>6, <1>19
      <4> QED BY <2>1, <3>1, <3>2, <4>1, <1>17
    <3>3. CASE home[r] # "rf"
      <4>1. home[r] = "wb" /\ r \in wb_rd /\ wb_ready
        BY <2>3, <2>6, <3>1, <3>3, <1>17, <1>18
      <4> QED BY <2>1, <3>1, <4>1
    <3> QED BY <3>2, <3>3
  <2> QED BY <2>4, <2>5, <2>6
\* What the instructions that issue read.
<1>23. ASSUME NEW p \in fired, NEW r \in p.i1.rs, r \notin waiting, r \notin exposed
       PROVE  home0[r] = primary_source(r, committed)
  <2>1. fired = {p} /\ p \in Pair /\ ~taken /\ ~load_stall(p.i1, wb_ready)
    BY <1>9
  <2>2. r \in Reg
    BY <2>1 DEF Pair, First
  <2>3. r \notin awaited
    BY <2>1 DEF load_stall, awaited
  <2>4. r \in committed <=> r \in lane_rd
    BY <1>7, <1>23
  <2> QED BY <2>1, <2>2, <2>3, <2>4, <1>16, <1>17, <1>19, <1>20, <1>23 DEF primary_source
<1>24. ASSUME NEW p \in issued, NEW r \in p.i2.rs,
              r \notin awaited, r \notin exposed, r \notin crossed
       PROVE  /\ r \notin writes(p.i1)
              /\ home0[r] = operand_source(r, ex_alu, wb_rd)
              /\ operand_source(r, ex_alu, wb_rd) = "rf" => r \in mirror
              /\ operand_source(r, ex_alu, wb_rd) = "wb" => wb_ready
  <2>1. p \in accepted /\ r \in Reg /\ ~taken /\ r \notin writes(p.i1)
    BY <1>9, <1>14 DEF Pair, Second
  <2>2. (\E e \in lane : r \in e.rd) <=> r \in lane_rd
    BY DEF lane_rd
  <2>3. operand_source(r, ex_alu, wb_rd) = IF r \in ex_alu THEN "ex" ELSE IF r \in lane_rd THEN "lane"
                                          ELSE IF r \in wb_rd THEN "wb" ELSE "rf"
    BY <2>2 DEF operand_source
  <2>4. home0[r] = operand_source(r, ex_alu, wb_rd)
    BY <2>1, <2>3, <1>16, <1>17, <1>19, <1>20, <1>24
  <2>5. home0[r] = "rf" => r \in mirror
    BY <2>1, <1>17, <1>19, <1>24
  <2>6. operand_source(r, ex_alu, wb_rd) = "wb" => wb_ready
    BY <2>1, <2>3, <1>20, <1>24
  <2> QED BY <2>1, <2>4, <2>5, <2>6
<1>25. ~misread'
  BY <1>4, <1>23, <1>24
<1>26. Typed'
  <2>1. home' = [r \in Reg |-> home'[r]]
    BY <1>2
  <2>2. home' \in [Reg -> {"rf", "ex", "wb", "lane", "lost"}]
    BY <2>1, <1>21
  <2> QED BY <2>2, <1>12, <1>13, <1>15 DEF Typed
<1>27. lane_behind_branch' => branch_in_ex'
  BY <1>9, <1>12, <1>15
<1>28. Placed' /\ Met'
  BY <1>21 DEF Placed, Met
<1> QED BY <1>22, <1>25, <1>26, <1>27, <1>28 DEF Inv, OperandsNewest

LEMMA NextInv == Inv /\ [Next]_vars => Inv'
<1> SUFFICES ASSUME Inv, [Next]_vars PROVE Inv'
  OBVIOUS
<1>1. CASE Run
  <2>1. PICK pair \in Optional(Pair), done \in BOOLEAN, response \in BOOLEAN :
          Cycle(pair, FALSE, done, response, FALSE)
    BY <1>1 DEF Run, Busy
  <2> QED BY <2>1, CycleInv
<1>2. CASE Trap
  <2>1. PICK pair \in Optional(Pair), done \in BOOLEAN, response \in BOOLEAN :
          Cycle(pair, TRUE, done, response, FALSE)
    BY <1>2 DEF Trap, Busy
  <2> QED BY <2>1, CycleInv
<1>3. CASE TakenBranch
  <2>1. PICK response \in BOOLEAN : branch_in_ex /\ Cycle({}, FALSE, TRUE, response, TRUE)
    BY <1>3 DEF TakenBranch
  <2>2. {} \in Optional(Pair)
    BY DEF Optional
  <2> QED BY <2>1, <2>2, CycleInv
<1>4. CASE UNCHANGED vars
  <2>1. /\ lane_rd' = lane_rd /\ ex_rd' = ex_rd /\ wb_rd' = wb_rd
        /\ lane_behind_branch' = lane_behind_branch /\ branch_in_ex' = branch_in_ex
        /\ ex_alu' = ex_alu
    BY <1>4 DEF vars, clusterVars, lane_rd, ex_rd, wb_rd, lane_behind_branch, branch_in_ex, ex_alu
  <2> QED BY <1>4, <2>1 DEF vars, clusterVars, Inv, Typed, Placed, Met, MirrorAgrees,
                             OperandsNewest
<1> QED BY <1>1, <1>2, <1>3, <1>4 DEF Next

\* No value is lost and none is overtaken, where no missing interlock exposes the register:
\* the newest value is in the register file or in the stage that will write it, for every
\* set of registers (cv32e40p_hamsa_issue_cluster.sv:156).
THEOREM OrderOfRegisters == Spec => []RegistersInOrder
<1>1. Inv => RegistersInOrder
  <2> SUFFICES ASSUME Inv, NEW r \in Reg \ exposed
               PROVE  \/ home[r] = "rf"
                      \/ home[r] = "ex" /\ \E e \in ex : r \in writes(e)
                      \/ home[r] = "wb" /\ r \in wb_rd
                      \/ home[r] = "lane" /\ \E e \in lane : r \in e.rd
    BY DEF RegistersInOrder
  <2> QED BY DEF Inv, Typed, Placed, ex_rd, lane_rd
<1> QED BY <1>1, InitInv, NextInv, PTL DEF Spec

\* Both instructions of a pair read the newest value of each operand, over the paths the
\* two forwarding networks have, but for the reads OperandsNewest names, for every set of
\* registers (cv32e40p_dual_issue_forwarding.sv:40).
THEOREM OperandsAreNewest == Spec => []OperandsNewest
<1>1. Inv => OperandsNewest
  BY DEF Inv
<1> QED BY <1>1, InitInv, NextInv, PTL DEF Spec

\* The cluster's copy of the register file falls behind it only in a register the lane was
\* given across a load, or one whose order was at risk, for every set of registers
\* (cv32e40p_hamsa_issue_cluster.sv:207).
THEOREM MirrorIsCurrent == Spec => []MirrorAgrees
<1>1. Inv => MirrorAgrees
  BY DEF Inv
<1> QED BY <1>1, InitInv, NextInv, PTL DEF Spec

=============================================================================
