--------------------------- MODULE MCPairBuffer ---------------------------
(* Eight halfwords: more than the six that three instructions span. *)
EXTENDS PairFetch

\* The fetch stage never raises fetch_failed.
MCFlags == {{}, {"compressed"}, {"compressed", "illegal"}}

=============================================================================
