-------------------------- MODULE Refill32System --------------------------
(***************************************************************************)
(* The four-beat refill engine and the memory behind its instruction port, *)
(* advancing together on one clock.                                        *)
(***************************************************************************)
EXTENDS HamsaRefill32to128, InstrMemory

VARIABLE disturbed   \* an access for the line being filled was granted while another was
                     \* unanswered

\* The word the memory holds at the beat b of the line a.
WordAt(a, b) == [line |-> a, beat |-> b]

LineAt(a) == [b \in Beats |-> WordAt(a, b)]

ASSUME ContentAssumption == \A a \in Line, b \in Beats : WordAt(a, b) \in Word

vars == <<engineVars, pending, disturbed>>

Init == EngineInit /\ MemoryInit /\ disturbed = FALSE

\* One clock cycle: the engine's request is granted or not, the memory answers or not,
\* the front end asks for a line or not, and flushes or not.
Cycle(flush, miss, granted, answered) ==
  /\ MayAnswer(answered)
  /\ EngineClock(flush, miss, granted # {}, {p.data : p \in answered})
  /\ MemoryClock(granted, answered)
  /\ disturbed' = IF state = "IDLE" THEN FALSE
                  ELSE disturbed \/ Overlaps(granted, answered)

Requested == IF instr_req_o THEN {instr_addr_o} ELSE {}

Next ==
  \E flush \in BOOLEAN, miss \in Optional(Line), granted \in SUBSET Requested,
     answered \in Optional(pending) : Cycle(flush, miss, granted, answered)

Spec == Init /\ [][Next]_vars

\* A cycle that neither asks for a line nor flushes.
Quiet(granted) ==
  \E answered \in Optional(pending) : Cycle(FALSE, {}, granted, answered)

\* The clock runs even if the front end does nothing, and the memory does not withhold
\* a grant for ever.
FairSpec == Spec /\ WF_vars(Quiet({})) /\ WF_vars(instr_req_o /\ Quiet(Requested))

-----------------------------------------------------------------------------
\* The registers of the engine, and no access older than the memory's bound.
TypeOK ==
  /\ state \in {"IDLE", "REQ", "WAIT_RSP"}
  /\ line_addr \in Line
  /\ beat \in Beats
  /\ line \in [Beats -> Word]
  /\ IsOptional(refill, [addr : Line, data : [Beats -> Word]])
  /\ pending \in SUBSET [data : Word, age : 1 .. MaxLatency]
  /\ disturbed \in BOOLEAN

\* Whatever is redirected when, and however late the memory answers: the line handed
\* to the L0 holds, in each of its four places, the word the memory has at that place of
\* that line, unless one of its accesses was granted while the answer of another, of a
\* line a redirect had abandoned, was outstanding.  A word that comes back before that
\* is never taken for one of the line, though the flush branch of the engine keeps no
\* count of the accesses still unanswered.
LineDelivered == disturbed \/ \A r \in refill : r.data = LineAt(r.addr)

\* A line that was asked for does not stay half filled: the engine becomes idle again,
\* with the line delivered or the request flushed, whatever the answers' delays.
LineCompletes == busy_o ~> ~busy_o

\* The engine does what a line fetch promises.
Fetch == INSTANCE LineFetch
  WITH Content <- LineAt,
       wanted <- IF busy_o THEN {line_addr} ELSE {},
       delivered <- refill

FetchSpec == Fetch!FetchSpec

=============================================================================
