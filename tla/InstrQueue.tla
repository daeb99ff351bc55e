---------------------------- MODULE InstrQueue ----------------------------
(***************************************************************************)
(* What a buffer between fetch and decode owes both: the instructions it   *)
(* accepted and not yet handed over, in the order of acceptance.  Decode   *)
(* takes one or two from the head; fetch adds one at the tail; a flush     *)
(* empties it.  Nothing is lost, repeated or reordered.                    *)
(***************************************************************************)
EXTENDS Integers, Sequences, Signals

CONSTANTS Instr, Capacity

VARIABLES queue,     \* the instructions accepted and not yet taken
          given,     \* what fetch gave in the last cycle: {} or {instruction}
          taken,     \* how many instructions decode took in the last cycle
          flushed,   \* the last cycle was a flush
          broken     \* the promise has been broken: nothing is said any more

queueVars == <<queue, given, taken, flushed>>

QueueInit == queue = <<>> /\ given = {} /\ taken = 0 /\ ~flushed

Flush == flushed' /\ queue' = <<>>

\* Taking comes before giving within a cycle.
Move ==
  LET rest == SubSeq(queue, taken' + 1, Len(queue))
  IN  /\ ~flushed'
      /\ taken' \in 0 .. 2 /\ taken' <= Len(queue)
      /\ \/ given' = {} /\ queue' = rest
         \/ \E i \in Instr : given' = {i} /\ queue' = Append(rest, i)
      /\ Len(queue') <= Capacity

QueueNext == Flush \/ Move \/ broken'

QueueSpec == QueueInit /\ [][QueueNext]_queueVars

=============================================================================
