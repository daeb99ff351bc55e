----------------------- MODULE HamsaRefillNative128 -----------------------
(***************************************************************************)
(* cv32e40p_hamsa_refill_native128: the engine that fills an L0 line with  *)
(* one 16-byte access.  As in HamsaRefill32to128, an action is a clock     *)
(* edge and the registered refill outputs are one optional pulse.          *)
(***************************************************************************)
VARIABLES state,       \* "IDLE", "REQ" or "WAIT_RSP"
          line_addr,   \* the line being filled
          refill       \* the refill pulse: {} or {[addr, data]}

engineVars == <<state, line_addr, refill>>

EngineInit == state = "IDLE" /\ line_addr = 0 /\ refill = {}

busy_o       == state # "IDLE"
miss_ready_o == state = "IDLE"
line_req_o   == state = "REQ"

\* A redirect abandons the line wherever the engine is, granted access or not.
Flush == state' = "IDLE" /\ refill' = {} /\ UNCHANGED line_addr

AcceptMiss(a) ==
  state = "IDLE" /\ state' = "REQ" /\ line_addr' = a /\ refill' = {}

Granted ==
  state = "REQ" /\ state' = "WAIT_RSP" /\ refill' = {} /\ UNCHANGED line_addr

LineReturned(d) ==
  /\ state = "WAIT_RSP"
  /\ state' = "IDLE"
  /\ refill' = {[addr |-> line_addr, data |-> d]}
  /\ UNCHANGED line_addr

Hold == refill' = {} /\ UNCHANGED <<state, line_addr>>

\* One clock edge.  miss, rdata: the optional request and response of the cycle.
EngineClock(flush, miss, gnt, rdata) ==
  \/ flush /\ Flush
  \/ ~flush /\ \E a \in miss : AcceptMiss(a)
  \/ ~flush /\ gnt /\ Granted
  \/ ~flush /\ \E d \in rdata : LineReturned(d)
  \/ /\ ~flush
     /\ \/ state = "IDLE" /\ miss = {}
        \/ state = "REQ" /\ ~gnt
        \/ state = "WAIT_RSP" /\ rdata = {}
     /\ Hold

=============================================================================
