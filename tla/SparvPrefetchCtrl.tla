------------------------- MODULE SparvPrefetchCtrl -------------------------
(***************************************************************************)
(* cv32e40p_sparv_prefetch_ctrl: keeps one candidate, the line after the   *)
(* last useful demand access, and offers it when the refill path is free.  *)
(***************************************************************************)
EXTENDS FetchLines

VARIABLE candidate     \* candidate_valid_q and candidate_addr_q: {} or {line}

CtrlInit == candidate = {}

\* The prefetch offered in this cycle.
prefetch(redirect, demand_miss, busy) ==
  IF redirect \/ demand_miss \/ busy THEN {} ELSE candidate

\* A redirect aims the candidate behind its target.
Retarget(to) == candidate' = {next_line(line_base(to))}

\* A fault: a hit trains the line after the next.
TrainTwoAhead(refilled, hit, accepted) ==
  candidate' = IF accepted THEN {}
               ELSE IF refilled # {} THEN {next_line(a) : a \in refilled}
               ELSE IF hit # {} THEN {next_line(next_line(line_base(pc))) : pc \in hit}
               ELSE candidate

\* A demand refill, and else a demand hit, trains the candidate; an offer that is
\* accepted empties it, whatever was trained in the same cycle.
Train(refilled, hit, accepted) ==
  candidate' = IF accepted THEN {}
               ELSE IF refilled # {} THEN {next_line(a) : a \in refilled}
               ELSE IF hit # {} THEN {next_line(line_base(pc)) : pc \in hit}
               ELSE candidate

\* refilled: the line of a demand refill; hit: the pc of a demand lookup that hits.
CtrlClock(redirect, redirect_pc, refilled, hit, accepted) ==
  \/ redirect /\ Retarget(redirect_pc)
  \/ ~redirect /\ Train(refilled, hit, accepted)

=============================================================================
