------------------------------ MODULE Signals ------------------------------
(***************************************************************************)
(* A valid bit and the payload it qualifies are one optional value: the    *)
(* empty set while the bit is low, a singleton while it is high.           *)
(***************************************************************************)
Optional(S) == {{}} \cup {{x} : x \in S}

\* v \in Optional(S), for an S too large to enumerate
IsOptional(v, S) == \A x \in v : x \in S /\ v = {x}

=============================================================================
