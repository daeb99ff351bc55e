----------------------------- MODULE LineFetch -----------------------------
(***************************************************************************)
(* What a refill engine promises to the L0: it takes one line request at a *)
(* time, and then either delivers, once and for one cycle, the content the *)
(* memory has at that very line, or drops the request.  How many accesses  *)
(* that takes and what is in flight is not visible here.                   *)
(*                                                                         *)
(* The engines tell answers apart by their order alone.  Once the memory   *)
(* has accepted an access for the line while it still owed the answer of   *)
(* an earlier one, the line is disturbed: its content is not promised.     *)
(***************************************************************************)
CONSTANTS Line,          \* the line addresses
          Content(_)     \* what the memory holds at a line

VARIABLES wanted,        \* the request being served: {} or {line}
          delivered,     \* the pulse of this cycle: {} or {[addr, data]}
          disturbed      \* the line requested last is disturbed

fetchVars == <<wanted, delivered, disturbed>>

FetchInit == wanted = {} /\ delivered = {} /\ disturbed = FALSE

\* The memory may disturb the line being fetched in any cycle, and does not undo it.
MayDisturb == wanted # {} /\ disturbed => disturbed'

Request(a) ==
  /\ wanted = {} /\ wanted' = {a} /\ delivered' = {}
  /\ disturbed' => disturbed

Deliver(a) ==
  /\ wanted = {a}
  /\ wanted' = {}
  /\ \E r \in delivered' :
       delivered' = {r} /\ r.addr = a /\ (disturbed' \/ r.data = Content(a))
  /\ MayDisturb

Drop == wanted' = {} /\ delivered' = {} /\ MayDisturb

Wait == wanted' = wanted /\ delivered' = {} /\ MayDisturb

FetchNext ==
  \/ \E a \in Line : Request(a) \/ Deliver(a)
  \/ Drop
  \/ Wait

FetchSpec == FetchInit /\ [][FetchNext]_fetchVars

=============================================================================
