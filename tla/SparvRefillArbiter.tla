------------------------ MODULE SparvRefillArbiter ------------------------
(***************************************************************************)
(* cv32e40p_sparv_refill_arbiter: chooses between a demand miss and a      *)
(* prefetch for the one refill engine, and latches the source of the line  *)
(* in flight.                                                              *)
(***************************************************************************)
VARIABLE active    \* active_valid_q and active_is_prefetch_q: {} or {"demand" or "prefetch"}

ArbInit == active = {}

\* The prefetch that takes part: demand has priority, a resident line is no request.
select_prefetch(demand, prefetch, cached) ==
  IF demand = {} /\ ~cached THEN prefetch ELSE {}

\* The request to the engine.
refill_req(demand, prefetch, cached) ==
  IF demand # {} THEN demand ELSE select_prefetch(demand, prefetch, cached)

\* How the line completing in this cycle is classified.
refill_is_prefetch(complete) == complete /\ active = {"prefetch"}

ArbFlush == active' = {}

\* A completion clears the source, even the one accepted in the same cycle.
Latch(demand_accept, prefetch_accept, complete) ==
  active' = IF complete THEN {}
            ELSE IF demand_accept THEN {"demand"}
            ELSE IF prefetch_accept THEN {"prefetch"}
            ELSE active

ArbClock(flush, demand_accept, prefetch_accept, complete) ==
  \/ flush /\ ArbFlush
  \/ ~flush /\ Latch(demand_accept, prefetch_accept, complete)

=============================================================================
