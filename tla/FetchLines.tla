---------------------------- MODULE FetchLines ----------------------------
(***************************************************************************)
(* Addresses of the instruction side.  A program counter counts halfwords, *)
(* a line address counts 16-byte lines, and both wrap at the end of the    *)
(* address space as the 32-bit adders of the code do.  The code's line     *)
(* holds 8 halfwords and its L0 has 8 lines; both are parameters here.     *)
(*                                                                         *)
(* Of the program only what the fetch stage looks at is kept: which        *)
(* halfwords have the two low bits of a 32-bit encoding, and which 16-bit  *)
(* encodings the compressed decoder rejects.                               *)
(***************************************************************************)
EXTENDS Integers, Signals

CONSTANTS NLINES,       \* lines of the address space
          L0_LINES,     \* lines of the direct-mapped L0
          HALFWORDS,    \* halfwords of a line
          Wide,         \* the halfwords whose low bits are 2'b11
          IllegalC      \* the 16-bit encodings that are illegal

Line  == 0 .. NLINES - 1
PC    == 0 .. NLINES * HALFWORDS - 1
Index == 0 .. L0_LINES - 1

ASSUME GeometryAssumption ==
  /\ L0_LINES \in Nat \ {0} /\ HALFWORDS \in Nat \ {0, 1} /\ NLINES \in Nat \ {0}
  /\ NLINES % L0_LINES = 0
  /\ Wide \subseteq PC /\ IllegalC \subseteq PC \ Wide

line_base(pc)      == pc \div HALFWORDS
halfword_index(pc) == pc % HALFWORDS
next_line_unwrapped(l) == l + 1   \* a fault: the adder does not wrap
next_line(l)       == (l + 1) % NLINES
index(l)           == l % L0_LINES
pc_plus(pc, n)     == (pc + n) % (NLINES * HALFWORDS)

\* The length in halfwords of the instruction that starts at a halfword.
halfwords(pc) == IF pc \in Wide THEN 2 ELSE 1

=============================================================================
