----------------------------- MODULE SparvFetch -----------------------------
(***************************************************************************)
(* cv32e40p_sparv_if_stage with its native 128-bit refill: the front end,  *)
(* the prefetcher with its directory, the refill arbiter, the refill       *)
(* engine and the memory behind the line port, all on one clock.           *)
(*                                                                         *)
(* Inputs of a cycle, chosen freely unless a constant says otherwise:      *)
(*   to        {} or the target of a jump, branch, trap, return or loop    *)
(*   fence     the redirect is that of a FENCE.I, which empties the L0     *)
(*   clear     clear_instr_valid_i                                         *)
(*   req       req_i and not halt_if_i: the stage may look up              *)
(*   ready     id_ready_i and not halt_if_i: decode takes the pair         *)
(*   consumed  inst2_consumed_i: decode takes the second instruction too   *)
(*   store     {} or a line the program writes                             *)
(***************************************************************************)
EXTENDS HamsaFrontend, SparvPrefetchCtrl, SparvPrefetchDirectory,
        SparvRefillArbiter, HamsaRefillNative128, InstrMemory

CONSTANTS Targets,         \* where redirects go
          Written,         \* the lines the program writes
          MaxVersion,      \* how often each of them may be written
          ClearIsIdReady   \* clear_instr_valid_i is wired as in the generated core

ASSUME FetchAssumption ==
  /\ Targets \subseteq PC /\ Written \subseteq Line /\ MaxVersion \in Nat
  /\ ClearIsIdReady \in BOOLEAN

VARIABLES pc_q,        \* the next program counter to fetch
          version,     \* how often each line of memory was written
          fenced,      \* its version when the last FENCE.I executed
          spared,      \* the refill pulse in the cycle of that FENCE.I
          disturbed,   \* an access has been granted while another was unanswered
          taken,       \* how many instructions decode took in the last cycle
          overtaken,   \* in the last cycle a prefetch was accepted over another line's miss
          calm         \* in the last cycle: no redirect, lookups on, decode ready

ghostVars == <<version, fenced, spared, disturbed, taken, overtaken, calm>>
vars == <<frontVars, candidate, dir, active, engineVars, pending, pc_q, ghostVars>>

Init ==
  /\ FrontInit /\ CtrlInit /\ DirInit /\ ArbInit /\ EngineInit /\ MemoryInit
  /\ pc_q = 0
  /\ version = [l \in Line |-> 0] /\ fenced = version /\ spared = {} /\ disturbed = FALSE
  /\ taken = 0 /\ overtaken = FALSE /\ calm = FALSE

\* A fault: the second instruction counts as taken whether decode took it or not.
lookup_pc_skips(ready, consumed) ==
  IF pair = {} \/ ~ready THEN pc_q ELSE (CHOOSE p \in pair : TRUE).next_pc

\* What follows the pair when decode takes it, else the fetch counter: both the next
\* lookup and, without a redirect, the next value of the counter.
lookup_pc(ready, consumed) ==
  IF pair = {} \/ ~ready THEN pc_q
  ELSE LET p == CHOOSE p \in pair : TRUE
       IN  IF p.inst2_valid /\ ~consumed THEN p.pc2 ELSE p.next_pc

\* How many instructions decode accounts for when it takes the pair: an illegal second
\* one does not execute there.
accounted(consumed) ==
  IF pair = {} THEN 0
  ELSE IF \E p \in pair : /\ p.inst2_valid /\ consumed
                          /\ content(p.src, halfword_index(p.pc2)) \notin IllegalC
       THEN 2 ELSE 1

\* Where a FENCE.I in decode redirects to, pc_id_o + 4: it is the 32-bit instruction
\* last offered, and decode has not taken it.
fence_targets == {pc_plus(pc, 2) : pc \in {p \in pc1 : p = pc_q /\ p \in Wide}}

\* The memory's side of a cycle: what is read is read when the access is granted.
ReadLine(granted) ==
  IF granted THEN {[line |-> line_addr, version |-> version[line_addr]]} ELSE {}

Cycle(to, fence, clear, req, ready, consumed, granted, answered) ==
  LET redirect  == to # {} \/ clear
      npc       == lookup_pc(ready, consumed)
      lookup    == IF req /\ ~redirect THEN {npc} ELSE {}
      seen      == {pc \in lookup : lookup_ready(ready)}
      hit       == {pc \in seen : hit_line(pc) # {}}
      demand    == {line_base(pc) : pc \in IF refill = {} THEN seen \ hit ELSE {}}
      offer     == prefetch(redirect, demand # {}, busy_o)
      cached    == \E l \in candidate : probe_hit(l)
      accepted  == miss_ready_o /\ select_prefetch(demand, offer, cached) # {}
      refilled  == {r.addr : r \in refill}
      is_prefetch == refill_is_prefetch(refill # {})
  IN
  /\ MayAnswer(answered)
  /\ MemoryClock(ReadLine(granted), answered)
  /\ disturbed' = (disturbed \/ Overlaps(ReadLine(granted), answered))
  /\ pc_q' = IF to # {} THEN CHOOSE t \in to : TRUE ELSE npc
  /\ FrontClock(fence, refill, redirect, lookup, ready)
  /\ CtrlClock(redirect, IF to # {} THEN CHOOSE t \in to : TRUE ELSE pc_q,
               IF is_prefetch THEN {} ELSE refilled, hit,
               offer # {} /\ (accepted \/ cached))
  /\ DirClock(fence, refilled, is_prefetch, hit)
  /\ ArbClock(redirect, miss_ready_o /\ demand # {}, accepted, refill # {})
  /\ EngineClock(redirect, refill_req(demand, offer, cached), granted,
                 {p.data : p \in answered})
  /\ taken' = IF to = {} /\ ready THEN accounted(consumed) ELSE 0
  /\ overtaken' = (accepted /\ \E pc \in seen \ hit : line_base(pc) \notin refilled \cup offer)
  /\ calm' = (to = {} /\ (clear => ClearIsIdReady) /\ req /\ ready)

\* A store of the program, or none, and the ghost record of a FENCE.I.
Stores(store, fence) ==
  /\ version' = [l \in Line |-> IF l \in store THEN version[l] + 1 ELSE version[l]]
  /\ fenced' = IF fence THEN version ELSE fenced
  /\ spared' = IF fence THEN {r \in refill : r.data.version < version[r.data.line]} ELSE spared

\* The memory's choices in a cycle, and the program's: to grant or not, to answer or
\* not, to store or not.
WithMemory(to, fence, clear, req, ready, consumed) ==
  \E granted \in {line_req_o, FALSE}, answered \in Optional(pending),
     store \in Optional({l \in Written : version[l] < MaxVersion}) :
       /\ Stores(store, fence)
       /\ Cycle(to, fence, clear, req, ready, consumed, granted, answered)

\* A cycle without a redirect.
Run ==
  \E req, ready, consumed \in BOOLEAN :
    /\ ClearIsIdReady => ~ready
    /\ WithMemory({}, FALSE, FALSE, req, ready, consumed)

\* A cycle that clear_instr_valid_i alone makes a redirect: req does not matter.
Clear ==
  \E ready, consumed \in BOOLEAN :
    /\ ClearIsIdReady => ready
    /\ WithMemory({}, FALSE, TRUE, TRUE, ready, consumed)

\* A redirect to a target: whether decode is ready does not matter either.
Redirected ==
  \E t \in Targets : WithMemory({t}, FALSE, FALSE, FALSE, FALSE, FALSE)

\* The controller executes a FENCE.I: redirect behind it, and empty the L0.
FenceI ==
  \E t \in fence_targets : WithMemory({t}, TRUE, FALSE, FALSE, FALSE, FALSE)

Next == Run \/ Clear \/ Redirected \/ FenceI

Spec == Init /\ [][Next]_vars

\* A cycle without a redirect or a store, with lookups on and decode ready.  A grant is
\* withheld only unless grantNow.
CalmTick(grantNow) ==
  \E consumed \in BOOLEAN, granted \in {line_req_o, line_req_o /\ grantNow},
     answered \in Optional(pending) :
       /\ Stores({}, FALSE)
       /\ Cycle({}, FALSE, ClearIsIdReady, TRUE, TRUE, consumed, granted, answered)

\* The clock runs through calm cycles too, as long as they change anything, and the
\* memory does not withhold a grant for ever in them.  Cycles that are not calm are
\* the rest of the core's choice, and nothing makes it choose them.
FairSpec ==
  Spec /\ WF_vars(CalmTick(FALSE)) /\ WF_vars(line_req_o /\ CalmTick(TRUE))

-----------------------------------------------------------------------------
\* The registers of the stage; every entry lies at the index of its address, and the
\* pair register holds what the dual decoder cuts from some line.
TypeOK ==
  /\ \A i \in Index :
       /\ IsOptional(l0[i], [addr : {l \in Line : index(l) = i},
                               data : [line : Line, version : 0 .. MaxVersion]])
       /\ IsOptional(dir[i], [addr : {l \in Line : index(l) = i}, prefetched : BOOLEAN])
  /\ pair = {} \/ \E pc \in pc1, l \in Line, v \in 0 .. MaxVersion :
                    pair = {pair_at(pc, [line |-> l, version |-> v])}
  /\ pc_q \in PC /\ pc1 \in Optional(PC)
  /\ candidate \in Optional(Line)
  /\ active \in Optional({"demand", "prefetch"})
  /\ state \in {"IDLE", "REQ", "WAIT_RSP"} /\ line_addr \in Line
  /\ IsOptional(refill, [addr : Line, data : [line : Line, version : 0 .. MaxVersion]])
  /\ taken \in 0 .. 2 /\ disturbed \in BOOLEAN

\* The pair decode sees is always the one at the fetch counter, though the counter
\* is not part of the lookup that loaded it: redirects, partial takes of a pair and
\* dropped pairs keep the two together.
PairAtCounter == \A p \in pair : p.pc1 = pc_q

\* Decode sees the program, instruction by instruction, in order and without a gap,
\* whatever lines are in the L0, in flight or abandoned: never an instruction cut
\* from the data of another line.  The engine keeps no count of the accesses a redirect
\* abandons, so this ends with the first grant over an unanswered access.
Stream == INSTANCE InstrStream
  WITH next <- pc_q,
       window <- {[first |-> content(p.src, halfword_index(p.pc1)),
                   second |-> IF p.inst2_valid
                              THEN {content(p.src, halfword_index(p.pc2))} ELSE {}]
                  : p \in pair}

StreamSpec == Stream!StreamSpec

\* The directory never claims a line the L0 does not hold, so the prefetcher never
\* forgoes a line because of it.
DirectorySound == \A i \in Index : {e.addr : e \in dir[i]} \subseteq {e.addr : e \in l0[i]}

\* All that a FENCE.I leaves of what was read before such a store is the very line whose
\* refill pulse falls into its cycle: not a line in flight, whose answer may come much
\* later, and not a line that was prefetched.
FenceSpares ==
  \A i \in Index : \A e \in l0[i] :
    e.data.version >= fenced[e.data.line] \/ e \in spared \/ disturbed

\* No prefetch is accepted in a cycle in which the demand stream misses on a line, but
\* for a line that is just arriving and for a prefetch of that very line.
DemandFirst == ~overtaken

\* From some time on undisturbed, with lookups on and decode ready, the fetch stage
\* offers pairs again and again.
FetchProgress == <>[]calm => []<>(pair # {})

=============================================================================
