---------------------------- MODULE MCRefill32 ----------------------------
(* Four lines, so that a word can be one of the wrong line. *)
EXTENDS Refill32System

MCLine == 0 .. 3
MCWord == [line : MCLine, beat : Beats] \cup {Zero}

=============================================================================
