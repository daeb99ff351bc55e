----------------------------- MODULE PairFetch -----------------------------
(***************************************************************************)
(* The pair buffer as gen_hamsa_core.py wires it into the core: between    *)
(* the IF/ID register of cv32e40p_if_stage and decode.  The fetch stage is *)
(* told pair_in_ready for id_ready, and so loads the register only when    *)
(* the buffer is ready; but it clears it on clear_instr_valid_i, which     *)
(* decode still derives from its own id_ready.                             *)
(*                                                                         *)
(* Inputs of a cycle, chosen freely:                                       *)
(*   fetched   {} or the next instruction of the prefetcher; {} also       *)
(*             stands for halt_if_i                                        *)
(*   ready     id_ready of decode                                          *)
(*   consumed  the secondary lane takes the second instruction of the pair *)
(*   clear     clear_instr_valid_i: id_ready, halt_id or a taken branch    *)
(***************************************************************************)
EXTENDS DualFetchPairBuffer

VARIABLES ifid,        \* the IF/ID register: {} or {instruction}
          fetch_pc,    \* where the fetch stage is
          loaded,      \* what the fetch stage delivered in the last cycle
          given,       \* what the buffer accepted in the last cycle
          taken,       \* how many instructions the back end took in the last cycle
          flushed,     \* the last cycle was a redirect
          mishandled   \* some cycle cleared an instruction the buffer did not accept, or
                       \* kept one that it did or that a redirect made void

vars == <<bufferVars, ifid, fetch_pc, loaded, given, taken, flushed, mishandled>>

Init ==
  /\ BufferInit /\ ifid = {} /\ fetch_pc = 0
  /\ loaded = {} /\ given = {} /\ taken = 0 /\ flushed = FALSE /\ mishandled = FALSE

\* In halfwords.
length(i) == IF "compressed" \in i.flags THEN 1 ELSE 2

\* What fetch can offer.
Incoming == {[pc |-> fetch_pc, flags |-> f] : f \in Flags}

\* clear_instr_valid_i accompanies every cycle in which decode is ready.
clears(ready) == {ready, TRUE}

\* A fault: clearing wins over loading.
IfIdClockCleared(load, clear) ==
  ifid' = IF clear THEN {} ELSE IF load # {} THEN load ELSE ifid

\* The IF/ID register: a new instruction, or emptied, or as it was.
IfIdClock(load, clear) ==
  ifid' = IF load # {} THEN load ELSE IF clear THEN {} ELSE ifid

\* The hand-over of this cycle goes wrong.
mishandles(went, load, clear) ==
  ifid # {} /\ load = {} /\ (clear <=> ~went)

\* A cycle without a redirect.  A hardware loop may send fetch back to 0 behind the
\* instruction delivered, without a flush.
Flow(fetched, ready, consumed, clear, loop) ==
  LET load == accepted(fetched, ready, consumed)
      came == accepted(ifid, ready, consumed)
  IN  /\ BufferClock(FALSE, ifid, ready, consumed)
      /\ IfIdClock(load, clear)
      /\ fetch_pc' \in IF load = {} THEN {fetch_pc}
                       ELSE IF loop THEN {0} ELSE {(i.pc + length(i)) % NPC : i \in load}
      /\ loaded' = load /\ given' = came /\ taken' = taking(ready, consumed)
      /\ flushed' = FALSE
      /\ mishandled' = (mishandled \/ mishandles(came # {}, load, clear))

\* A jump, a taken branch, a trap or a debug request: pc_set empties the buffer, and
\* the prefetcher delivers nothing in this cycle.
Redirect(pc, clear) ==
  /\ BufferClock(TRUE, ifid, FALSE, FALSE)
  /\ IfIdClock({}, clear)
  /\ fetch_pc' = pc
  /\ loaded' = {} /\ given' = {} /\ taken' = 0 /\ flushed' = TRUE
  /\ mishandled' = (mishandled \/ mishandles(TRUE, {}, clear))

Run == \E fetched \in Optional(Incoming), ready, consumed, loop \in BOOLEAN :
         \E clear \in clears(ready) : Flow(fetched, ready, consumed, clear, loop)

Redirected == \E pc \in PC, clear \in BOOLEAN : Redirect(pc, clear)

Next == Run \/ Redirected

Spec == Init /\ [][Next]_vars

\* A cycle in which the back end is ready, and fetch silent or delivering.
Draining  == \E consumed \in BOOLEAN : Flow({}, TRUE, consumed, TRUE, FALSE)
Streaming == \E consumed \in BOOLEAN, i \in Incoming : Flow({i}, TRUE, consumed, TRUE, FALSE)

\* The back end is ready again and again: in cycles of the one kind or of the other.
FairSpec == Spec /\ (WF_vars(Draining) \/ WF_vars(Streaming))

-----------------------------------------------------------------------------
held(register) == IF register = {} THEN <<>> ELSE <<CHOOSE i \in register : TRUE>>

\* The buffer itself: whatever is paired, replayed, serialized or taken by halves, the
\* back end gets what the buffer accepted in the order of acceptance, each exactly once.
Buffer == INSTANCE InstrQueue WITH
  Capacity <- 2, queue <- out \o held(first), broken <- FALSE

BufferSpec == Buffer!QueueSpec

\* What fetch delivered and decode has not taken, in order.
ahead == out \o held(first) \o held(ifid)

\* From fetch to decode, IF/ID register included, the same holds up to the first cycle
\* in which the register is cleared of an instruction the buffer did not accept, or
\* keeps one that it did or that a redirect made void: pairing, replay and flush lose
\* and repeat nothing of themselves, whatever the hand-over is told.
Front == INSTANCE InstrQueue WITH
  Capacity <- 3, queue <- ahead, given <- loaded, broken <- mishandled

FrontSpec == Front!QueueSpec

\* Execution is lossless: when decode takes an instruction or a pair, or the first of a
\* pair whose second is replayed, all that fetch delivered behind it is still ahead
\* (asked of a cycle before which every hand-over went well).
Lossless ==
  [][LET behind == SubSeq(ahead, taken' + 1, Len(ahead))
     IN  taken' # 0 /\ ~mishandled => /\ Len(behind) <= Len(ahead')
                                      /\ behind = SubSeq(ahead', 1, Len(behind))]_vars

\* What the back end can take it gets without the help of fetch, which may be silent
\* for ever: an output, and a waiting instruction that must be alone, is taken or
\* flushed.
HeldLeaves ==
  out # <<>> \/ (\E f \in first : serialized(f)) ~> taken # 0 \/ (out = <<>> /\ first = {})

=============================================================================
