---------------------------- MODULE InstrStream ----------------------------
(***************************************************************************)
(* What a fetch stage owes the decode stage: a window of one or two        *)
(* instructions of the program, the first of which is the next one to      *)
(* execute and the second the one behind it.  Decode takes one or both, a  *)
(* redirect moves the stream elsewhere, and nothing else moves it.         *)
(*                                                                         *)
(* All of this is promised until the memory is disturbed: until it has     *)
(* accepted an access while it owed the answer of an earlier one.          *)
(***************************************************************************)
EXTENDS FetchLines

VARIABLES next,      \* the program counter of the next instruction
          window,    \* what is offered to decode: {} or {[first, second]}
          taken,     \* how many instructions decode took in the last cycle
          disturbed  \* the memory has been disturbed

streamVars == <<next, window, taken, disturbed>>

Succ(pc) == pc_plus(pc, halfwords(pc))

\* The windows that show the program at pc; the second instruction is optional.
Windows(pc) == {[first |-> pc, second |-> s] : s \in Optional({Succ(pc)})}

StreamInit == next = 0 /\ window = {} /\ taken = 0 /\ disturbed = FALSE

Redirect(pc) == next' = pc /\ window' = {} /\ taken' = 0

TakeOne ==
  /\ window # {}
  /\ taken' = 1
  /\ next' = Succ(next)
  /\ window' \in Optional(Windows(next'))

TakeBoth ==
  /\ \E w \in window : w.second # {}
  /\ taken' = 2
  /\ next' = Succ(Succ(next))
  /\ window' \in Optional(Windows(next'))

\* Decode takes nothing: an empty window fills, or the window stays, or it is withdrawn.
Wait ==
  /\ taken' = 0
  /\ window' \in {window, {}} \cup (IF window = {} THEN Optional(Windows(next)) ELSE {})
  /\ UNCHANGED next

StreamNext ==
  \/ \E pc \in PC : Redirect(pc)
  \/ TakeOne
  \/ TakeBoth
  \/ Wait
  \/ disturbed'

StreamSpec == StreamInit /\ [][StreamNext]_streamVars

=============================================================================
