--------------------------- MODULE MCSparvFetch ---------------------------
(* An L0 of two lines over four lines of four halfwords, and two programs. *)
EXTENDS SparvFetch

\* 16- and 32-bit instructions mixed, none of them across the end of a line; one
\* 16-bit encoding is illegal.
AlignedWide    == {0, 5, 8, 10, 13}
AlignedIllegal == {3}

\* A 32-bit instruction starts at the last halfword of line 0.
CrossingWide == {0, 3, 8}

=============================================================================
