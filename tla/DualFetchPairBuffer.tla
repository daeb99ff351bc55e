------------------------ MODULE DualFetchPairBuffer ------------------------
(***************************************************************************)
(* cv32e40p_dual_fetch_pair_buffer: assembles pairs of sequential 32-bit   *)
(* instructions for the dual-issue back end out of a one-wide fetch, and   *)
(* replays the second of a pair that the back end could not take.          *)
(*                                                                         *)
(* An instruction is its program counter, in halfwords, and its flags:     *)
(* "compressed", "illegal" (illegal_c) and "failed" (fetch_failed).        *)
(***************************************************************************)
EXTENDS Integers, Sequences, Signals

CONSTANTS NPC,         \* the halfwords of the address space
          Flags        \* the sets of flags fetch can raise

PC    == 0 .. NPC - 1
Instr == [pc : PC, flags : Flags]

ASSUME BufferAssumption ==
  /\ NPC \in Nat \ {0}
  /\ Flags \subseteq SUBSET {"compressed", "illegal", "failed"}
  /\ \A f \in Flags : "illegal" \in f => "compressed" \in f

VARIABLES first,       \* the older instruction waiting for a partner: {} or {instruction}
          out          \* the output: <<>>, <<inst1>> or <<inst1, inst2>>

bufferVars == <<first, out>>

BufferInit == first = {} /\ out = <<>>

\* How many instructions the back end takes.
taking(ready, consumed) ==
  IF out = <<>> \/ ~ready THEN 0 ELSE IF Len(out) = 2 /\ ~consumed THEN 1 ELSE Len(out)

out_slot_free(ready) == out = <<>> \/ ready

in_ready_o(ready, consumed) ==
  out_slot_free(ready) /\ ~(Len(out) = 2 /\ ready /\ ~consumed)

serialized(i) == i.flags # {}

can_pair(f, i) ==
  {"compressed", "illegal"} \cap (f.flags \cup i.flags) = {} /\ i.pc = (f.pc + 2) % NPC

\* A redirect drops what is buffered, and what arrives with it.
Flush == first' = {} /\ out' = <<>>

\* The incoming instruction finds no older one: it goes straight out if it must be
\* alone, else it waits for a partner.
AcceptFirst(i) ==
  /\ first = {}
  /\ IF serialized(i) THEN first' = {} /\ out' = <<i>>
                      ELSE first' = {i} /\ out' = <<>>

\* The incoming instruction completes a pair.
PairUp(i) ==
  \E f \in first : can_pair(f, i) /\ first' = {} /\ out' = <<f, i>>

\* It does not: the older one goes out alone, and the incoming one waits.
EmitOlder(i) ==
  \E f \in first : ~can_pair(f, i) /\ first' = {i} /\ out' = <<f>>

\* A fault: it waits for ever.
SerializeRetainedNot == UNCHANGED first /\ out' = <<>>

\* Nothing comes in: a waiting instruction that must be alone goes out.
SerializeRetained ==
  \E f \in first : serialized(f) /\ first' = {} /\ out' = <<f>>

\* A fault: the second instruction is dropped.
ReplayNot(n) == UNCHANGED first /\ out' = IF n = 0 THEN out ELSE <<>>

\* Nothing comes in or out by itself.  The second instruction of a pair of which the
\* back end took one is the older one again; as inst2 it had no flag but "failed".
Replay(n) ==
  /\ out' = IF n = 0 THEN out ELSE <<>>
  /\ first' = IF n = 1 /\ Len(out) = 2
              THEN {[out[2] EXCEPT !.flags = @ \cap {"failed"}]} ELSE first

\* What it takes of the instruction offered, if any.
accepted(in, ready, consumed) == IF in_ready_o(ready, consumed) THEN in ELSE {}

\* One clock edge.  in: the optional instruction offered.
BufferClock(flush, in, ready, consumed) ==
  LET came     == accepted(in, ready, consumed)
      retained == out_slot_free(ready) /\ \E f \in first : serialized(f)
  IN  \/ flush /\ Flush
      \/ ~flush /\ \E i \in came : AcceptFirst(i) \/ PairUp(i) \/ EmitOlder(i)
      \/ ~flush /\ came = {} /\ retained /\ SerializeRetained
      \/ ~flush /\ came = {} /\ ~retained /\ Replay(taking(ready, consumed))

=============================================================================
