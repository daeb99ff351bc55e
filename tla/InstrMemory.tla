---------------------------- MODULE InstrMemory ----------------------------
(***************************************************************************)
(* The memory behind an instruction port (the OBI instruction bus, or the  *)
(* native 16-byte line port).  It is outside the core and is modelled from *)
(* how the refill engines use it: an access is granted in a cycle where    *)
(* the request is high, its data come back in a later cycle, one response  *)
(* per cycle, in the order of the grants, and nothing can take a granted   *)
(* access back.                                                            *)
(*                                                                         *)
(* A cycle of the memory grants at most one access and answers at most     *)
(* one: "granted" and "answered" are sets with at most one member.  The    *)
(* age of an access counts the cycles since its grant; MaxLatency bounds   *)
(* it.                                                                     *)
(***************************************************************************)
EXTENDS Integers, Signals

CONSTANT MaxLatency    \* an access is answered at most this many cycles after its grant

ASSUME MaxLatencyAssumption == MaxLatency \in Nat \ {0}

VARIABLE pending       \* the granted accesses not answered yet: [data, age]

MemoryInit == pending = {}

\* Which answer the memory may give in this cycle: only the oldest access is answered,
\* and it is answered at the latest when its time is up.
MayAnswer(answered) ==
  /\ \A p \in answered, q \in pending : q.age <= p.age
  /\ answered = {} => \A p \in pending : p.age < MaxLatency

\* The memory accepts an access and still owes an answer after this cycle.
Overlaps(granted, answered) == granted # {} /\ pending \ answered # {}

\* One clock edge: the answered access leaves, the others age, a granted one enters.
MemoryClock(granted, answered) ==
  pending' = {[data |-> p.data, age |-> p.age + 1] : p \in pending \ answered}
               \cup {[data |-> d, age |-> 1] : d \in granted}

=============================================================================
