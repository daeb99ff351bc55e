--------------------------- MODULE HamsaFrontend ---------------------------
(***************************************************************************)
(* cv32e40p_hamsa_frontend: the direct-mapped L0 of 16-byte lines, the     *)
(* extraction of up to two instructions from a line                        *)
(* (cv32e40p_dual_decode_128), and the one-entry pair register between the *)
(* lookup and the decode stage.                                            *)
(*                                                                         *)
(* A line's data are named by where and when they were read from memory:   *)
(* [line, version].  The tag of an entry, by contrast, is the address the  *)
(* refill pulse claims; nothing makes the two agree but the engine.        *)
(***************************************************************************)
EXTENDS FetchLines

VARIABLES l0,        \* valid_q, tag_q, data_q: each index holds {} or {[addr, data]}
          pair,      \* pair_valid_q and the pair: {} or {[pc1, pc2, src, ...]}
          pc1        \* pc1_q, which outlives the pair: {} before the first pair, then {pc}

frontVars == <<l0, pair, pc1>>

FrontInit == l0 = [i \in Index |-> {}] /\ pair = {} /\ pc1 = {}

\* The L0 entry a lookup of pc hits: valid and with the right tag.
hit_line(pc) == {e \in l0[index(line_base(pc))] : e.addr = line_base(pc)}

\* What the data of a line hold at halfword h of it.
content(data, h) == data.line * HALFWORDS + h

\* The instructions at halfword h of a line, as the dual decoder cuts them.  An
\* instruction that would cross the end of the line is not valid.
dual_decode(data, h) ==
  LET len1   == halfwords(content(data, h))
      valid1 == h + len1 <= HALFWORDS
      idx2   == h + len1
      len2   == halfwords(content(data, idx2))
  IN  [valid1 |-> valid1, len1 |-> len1,
       illegal1 |-> content(data, h) \in IllegalC,
       valid2 |-> valid1 /\ idx2 < HALFWORDS /\ idx2 + len2 <= HALFWORDS,
       len2   |-> len2,
       illegal2 |-> content(data, idx2) \in IllegalC]

\* The pair register loaded from a hit at pc.
pair_at(pc, data) ==
  LET d   == dual_decode(data, halfword_index(pc))
      two == d.valid2 /\ ~d.illegal1
  IN  [pc1 |-> pc, pc2 |-> pc_plus(pc, d.len1), src |-> data,
       inst2_valid |-> two,
       next_pc |-> IF two /\ ~d.illegal2 THEN pc_plus(pc, d.len1 + d.len2)
                                         ELSE pc_plus(pc, d.len1)]

lookup_ready(pair_ready) == pair = {} \/ pair_ready

\* The pair, if any, that the lookup of this cycle loads (lookup: {} or {pc}): the
\* register can take one, the lookup hits and the first instruction is whole.
Loads(lookup, pair_ready) ==
  UNION {{pair_at(pc, e.data) :
            e \in {x \in hit_line(pc) : dual_decode(x.data, halfword_index(pc)).valid1}}
         : pc \in {p \in lookup : lookup_ready(pair_ready)}}

\* Faults of the L0: a refill does not replace a valid entry; FENCE.I is ignored.
L0ClockNoReplace(invalidate, refilled) ==
  l0' = [i \in Index |-> IF l0[i] = {} /\ \E r \in refilled : index(r.addr) = i THEN refilled
                         ELSE IF invalidate THEN {} ELSE l0[i]]

L0ClockNoFence(invalidate, refilled) ==
  l0' = [i \in Index |-> IF \E r \in refilled : index(r.addr) = i THEN refilled ELSE l0[i]]

\* The L0: an invalidation empties every entry, and a refill pulse writes its entry
\* even in the cycle of an invalidation.
L0Clock(invalidate, refilled) ==
  l0' = [i \in Index |-> IF \E r \in refilled : index(r.addr) = i THEN refilled
                         ELSE IF invalidate THEN {} ELSE l0[i]]

\* A fault: a redirect leaves the pair.
DropPairNot == UNCHANGED <<pair, pc1>>

DropPair == pair' = {} /\ UNCHANGED pc1

LoadPair(p) == pair' = {p} /\ pc1' = {p.pc1}

TakePair(taken) == pair' = (IF taken THEN {} ELSE pair) /\ UNCHANGED pc1

\* The pair register: a redirect drops the pair, and a lookup that hits replaces it.
PairClock(redirect, lookup, pair_ready) ==
  LET loads == Loads(lookup, pair_ready)
  IN  \/ redirect /\ DropPair
      \/ ~redirect /\ \E p \in loads : LoadPair(p)
      \/ ~redirect /\ loads = {} /\ TakePair(pair # {} /\ pair_ready)

FrontClock(invalidate, refilled, redirect, lookup, pair_ready) ==
  /\ L0Clock(invalidate, refilled)
  /\ PairClock(redirect, lookup, pair_ready)

=============================================================================
