------------------------- MODULE HamsaRefill32to128 -------------------------
(***************************************************************************)
(* cv32e40p_hamsa_refill_32to128: the engine that fills a 16-byte L0 line  *)
(* with four 32-bit accesses, one at a time.                               *)
(*                                                                         *)
(* One action is one clock edge.  The registers the code names state_q,    *)
(* line_addr_q, beat_q and line_q keep their names without the suffix; the *)
(* registered outputs refill_valid_o, refill_addr_o and refill_data_o are  *)
(* one optional pulse, because nothing reads the address and the data      *)
(* while refill_valid_o is low.                                            *)
(***************************************************************************)
EXTENDS Integers

CONSTANTS Line,        \* the 16-byte line addresses
          Word,        \* what a 32-bit access can return
          Zero         \* the word with all bits clear

ASSUME WordAssumption == 0 \in Line /\ Zero \in Word

VARIABLES state,       \* "IDLE", "REQ" or "WAIT_RSP"
          line_addr,   \* the line being filled
          beat,        \* the word of the line being fetched
          line,        \* the words collected so far
          refill       \* the refill pulse: {} or {[addr, data]}

engineVars == <<state, line_addr, beat, line, refill>>

Beats == 0 .. 3

EngineInit ==
  /\ state = "IDLE"
  /\ line_addr = 0
  /\ beat = 0
  /\ line = [b \in Beats |-> Zero]
  /\ refill = {}

busy_o       == state # "IDLE"
miss_ready_o == state = "IDLE"
instr_req_o  == state = "REQ"
\* The word on the address bus.
instr_addr_o == [line |-> line_addr, beat |-> beat]

\* A redirect abandons the line wherever the engine is, granted access or not.
Flush ==
  /\ state' = "IDLE"
  /\ beat' = 0
  /\ refill' = {}
  /\ UNCHANGED <<line_addr, line>>

AcceptMiss(a) ==
  /\ state = "IDLE"
  /\ state' = "REQ"
  /\ line_addr' = a
  /\ beat' = 0
  /\ line' = [b \in Beats |-> Zero]
  /\ refill' = {}

Granted ==
  /\ state = "REQ"
  /\ state' = "WAIT_RSP"
  /\ refill' = {}
  /\ UNCHANGED <<line_addr, beat, line>>

\* Faults of a response: no request for the next word; no check for the last beat.
BeatReturnedNoRequest(w) ==
  /\ state = "WAIT_RSP" /\ beat # 3
  /\ line' = [line EXCEPT ![beat] = w] /\ beat' = beat + 1
  /\ refill' = {} /\ UNCHANGED <<state, line_addr>>

BeatReturnedNoLast(w) ==
  /\ state = "WAIT_RSP"
  /\ line' = [line EXCEPT ![beat] = w] /\ beat' = beat + 1
  /\ state' = "REQ" /\ refill' = {} /\ UNCHANGED line_addr

\* A response that is not the last: keep the word, ask for the next one.
BeatReturned(w) ==
  /\ state = "WAIT_RSP"
  /\ beat # 3
  /\ line' = [line EXCEPT ![beat] = w]
  /\ beat' = beat + 1
  /\ state' = "REQ"
  /\ refill' = {}
  /\ UNCHANGED line_addr

\* Faults of the last response: the pulse sends line_q as it was before the edge; the
\* engine starts over instead of becoming idle.
LineReturnedStale(w) ==
  /\ state = "WAIT_RSP" /\ beat = 3
  /\ line' = [line EXCEPT ![3] = w]
  /\ refill' = {[addr |-> line_addr, data |-> line]}
  /\ state' = "IDLE" /\ beat' = 0 /\ UNCHANGED line_addr

LineReturnedAgain(w) ==
  /\ state = "WAIT_RSP" /\ beat = 3
  /\ line' = [line EXCEPT ![3] = w]
  /\ refill' = {[addr |-> line_addr, data |-> [line EXCEPT ![3] = w]]}
  /\ state' = "REQ" /\ beat' = 0 /\ UNCHANGED line_addr

\* The last response: the pulse carries the three words kept and the one arriving.
LineReturned(w) ==
  /\ state = "WAIT_RSP"
  /\ beat = 3
  /\ line' = [line EXCEPT ![3] = w]
  /\ refill' = {[addr |-> line_addr, data |-> [line EXCEPT ![3] = w]]}
  /\ state' = "IDLE"
  /\ beat' = 0
  /\ UNCHANGED line_addr

\* Nothing the state waits for has come: only the pulse ends.
Hold ==
  /\ refill' = {}
  /\ UNCHANGED <<state, line_addr, beat, line>>

\* One clock edge.  miss, rdata: the optional request and response of the cycle.
EngineClock(flush, miss, gnt, rdata) ==
  \/ flush /\ Flush
  \/ ~flush /\ \E a \in miss : AcceptMiss(a)
  \/ ~flush /\ gnt /\ Granted
  \/ ~flush /\ \E w \in rdata : BeatReturned(w) \/ LineReturned(w)
  \/ /\ ~flush
     /\ \/ state = "IDLE" /\ miss = {}
        \/ state = "REQ" /\ ~gnt
        \/ state = "WAIT_RSP" /\ rdata = {}
     /\ Hold

=============================================================================
