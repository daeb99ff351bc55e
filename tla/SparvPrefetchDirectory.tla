----------------------- MODULE SparvPrefetchDirectory -----------------------
(***************************************************************************)
(* cv32e40p_sparv_prefetch_directory: the shadow of the L0's tags that     *)
(* tells the prefetcher which lines are resident, with a bit that marks a  *)
(* line prefetched and not yet demanded.                                   *)
(***************************************************************************)
EXTENDS FetchLines

VARIABLE dir     \* valid_q, tag_q, prefetched_q: each index holds {} or {[addr, prefetched]}

DirInit == dir = [i \in Index |-> {}]

entry(l) == {e \in dir[index(l)] : e.addr = l}

probe_hit(l) == entry(l) # {}

\* A fault: the directory survives FENCE.I.
InvalidateNot == UNCHANGED dir

Invalidate == dir' = [i \in Index |-> {}]

\* The refilled line enters its index; a demanded line loses its mark.
Track(refilled, is_prefetch, hit) ==
  dir' = [i \in Index |->
            IF \E a \in refilled : index(a) = i
            THEN {[addr |-> a, prefetched |-> is_prefetch] : a \in refilled}
            ELSE {IF \E pc \in hit : line_base(pc) = e.addr
                  THEN [e EXCEPT !.prefetched = FALSE] ELSE e : e \in dir[i]}]

\* An invalidation empties the directory, the line arriving in that cycle included.
DirClock(invalidate, refilled, is_prefetch, hit) ==
  \/ invalidate /\ Invalidate
  \/ ~invalidate /\ Track(refilled, is_prefetch, hit)

=============================================================================
