--------------------------- MODULE Refill32Proof ---------------------------
(***************************************************************************)
(* The four-beat refill engine, for every set of lines and words, every    *)
(* latency of the memory and redirects in any cycle: it keeps its types,   *)
(* and the line it delivers is right as long as none of its accesses was   *)
(* granted while the answer of another was outstanding.                    *)
(***************************************************************************)
EXTENDS Refill32System, TLAPS

Access == [data : Word, age : 1 .. MaxLatency]

AgesDistinct == \A p, q \in pending : p.age = q.age => p = q

\* The words collected so far are those of the line being filled.
Collected ==
  state # "IDLE" /\ ~disturbed =>
    \A b \in Beats : b < beat => line[b] = WordAt(line_addr, b)

\* What the engine waits for is the only access the memory has to answer.
OwnAccess ==
  state = "WAIT_RSP" /\ ~disturbed =>
    \E p \in pending : pending = {p} /\ p.data = instr_addr_o

Inv ==
  /\ TypeOK
  /\ AgesDistinct
  /\ Collected
  /\ OwnAccess
  /\ LineDelivered

-----------------------------------------------------------------------------
\* A cycle of the memory keeps the ages in range and distinct.
LEMMA MemoryStep ==
  ASSUME pending \in SUBSET Access, AgesDistinct,
         NEW granted \in SUBSET Word, \A w, x \in granted : w = x,
         NEW answered \in Optional(pending),
         MayAnswer(answered), MemoryClock(granted, answered)
  PROVE  /\ pending' \in SUBSET Access
         /\ AgesDistinct'
         /\ \A p \in pending' : \/ p.age = 1 /\ p.data \in granted
                                \/ \E q \in pending \ answered :
                                      p.data = q.data /\ p.age = q.age + 1
         /\ \A q \in pending \ answered : q.age < MaxLatency
<1>1. MaxLatency \in Nat \ {0}
  BY MaxLatencyAssumption
<1>2. \A q \in pending \ answered : q.age \in 1 .. MaxLatency /\ q.age < MaxLatency
  <2>1. CASE answered = {}
    BY <2>1, <1>1 DEF MayAnswer, Access
  <2>2. CASE answered # {}
    <3>1. PICK p \in pending : answered = {p}
      BY <2>2 DEF Optional
    <3>2. \A q \in pending \ answered : q.age <= p.age /\ q.age # p.age
      BY <3>1 DEF MayAnswer, AgesDistinct
    <3>3. QED
      BY <3>1, <3>2, <1>1 DEF Access
  <2>3. QED
    BY <2>1, <2>2
<1>3. \A p \in pending' :
         \/ p = [data |-> p.data, age |-> 1] /\ p.data \in granted
         \/ \E q \in pending \ answered : p = [data |-> q.data, age |-> q.age + 1]
  BY DEF MemoryClock, Access
<1>4. pending' \in SUBSET Access
  BY <1>1, <1>2, <1>3 DEF Access
<1>5. AgesDistinct'
  <2> SUFFICES ASSUME NEW p \in pending', NEW q \in pending', p.age = q.age
               PROVE  p = q
    BY DEF AgesDistinct
  <2>1. CASE p = [data |-> p.data, age |-> 1] /\ p.data \in granted
    BY <2>1, <1>2, <1>3
  <2>2. CASE \E r \in pending \ answered : p = [data |-> r.data, age |-> r.age + 1]
    <3>1. PICK r \in pending \ answered : p = [data |-> r.data, age |-> r.age + 1]
      BY <2>2
    <3>2. PICK s \in pending \ answered : q = [data |-> s.data, age |-> s.age + 1]
      BY <3>1, <1>2, <1>3
    <3>3. r.age = s.age
      BY <3>1, <3>2, <1>2
    <3>4. QED
      BY <3>1, <3>2, <3>3 DEF AgesDistinct
  <2>3. QED
    BY <2>1, <2>2, <1>3
<1>6. QED
  BY <1>2, <1>3, <1>4, <1>5

-----------------------------------------------------------------------------
LEMMA InitInv == Init => Inv
<1> SUFFICES ASSUME Init PROVE Inv
  OBVIOUS
<1> USE DEF Init, EngineInit, MemoryInit
<1>1. TypeOK
  <2>1. line \in [Beats -> Word] /\ line_addr \in Line /\ beat \in Beats
    BY WordAssumption DEF Beats
  <2>2. pending \in SUBSET [data : Word, age : 1 .. MaxLatency]
    OBVIOUS
  <2> QED BY <2>1, <2>2 DEF TypeOK, IsOptional
<1>2. AgesDistinct /\ Collected /\ OwnAccess /\ LineDelivered
  BY DEF AgesDistinct, Collected, OwnAccess, LineDelivered
<1> QED BY <1>1, <1>2 DEF Inv

\* Every cycle keeps the invariant.
LEMMA CycleInv ==
  ASSUME Inv,
         NEW flush \in BOOLEAN, NEW miss \in Optional(Line),
         NEW granted \in SUBSET Requested, NEW answered \in Optional(pending),
         Cycle(flush, miss, granted, answered)
  PROVE  Inv'
<1>1. MaxLatency \in Nat \ {0} /\ Zero \in Word
  BY MaxLatencyAssumption, WordAssumption
<1>2. instr_addr_o \in Word
  BY ContentAssumption DEF Inv, TypeOK, instr_addr_o, WordAt
<1>3. granted # {} => state = "REQ" /\ granted = {instr_addr_o}
  BY DEF Requested, instr_req_o
<1>4. /\ pending' \in SUBSET Access
      /\ AgesDistinct'
  <2>1. granted \in SUBSET Word /\ \A w, x \in granted : w = x
    BY <1>2 DEF Requested
  <2>2. QED
    BY <2>1, MemoryStep DEF Inv, TypeOK, Access, Cycle
<1>5. \A p \in answered : p \in pending /\ p.data \in Word
  BY DEF Optional, Inv, TypeOK
<1>6. /\ disturbed' \in BOOLEAN
      /\ state # "IDLE" /\ ~disturbed' => ~disturbed /\ ~Overlaps(granted, answered)
      /\ pending' = {[data |-> p.data, age |-> p.age + 1] : p \in pending \ answered}
                      \cup {[data |-> d, age |-> 1] : d \in granted}
  BY DEF Cycle, MemoryClock, Inv, TypeOK, Overlaps
<1>7. CASE flush /\ Flush
  BY <1>4, <1>6, <1>7
  DEF Flush, Inv, TypeOK, Access, Collected, OwnAccess, LineDelivered, IsOptional, Beats
<1>8. CASE ~flush /\ \E a \in miss : AcceptMiss(a)
  <2>1. PICK a \in Line : AcceptMiss(a)
    BY <1>8 DEF Optional
  <2>2. line' \in [Beats -> Word]
    BY <1>1, <2>1 DEF AcceptMiss
  <2>3. QED
    BY <1>4, <1>6, <2>1, <2>2
    DEF AcceptMiss, Inv, TypeOK, Access, Collected, OwnAccess, LineDelivered,
        IsOptional, Beats
<1>9. CASE ~flush /\ granted # {} /\ Granted
  <2>1. instr_addr_o' = instr_addr_o
    BY <1>9 DEF Granted, instr_addr_o
  <2>2. OwnAccess'
    <3>1. SUFFICES ASSUME ~disturbed'
                   PROVE  \E p \in pending' : pending' = {p} /\ p.data = instr_addr_o'
      BY DEF OwnAccess
    <3>2. pending \ answered = {}
      BY <1>6, <1>9, <3>1 DEF Overlaps, Granted
    <3>3. pending' = {[data |-> instr_addr_o, age |-> 1]}
      BY <1>3, <1>6, <1>9, <3>2
    <3>4. QED
      BY <2>1, <3>3
  <2>3. QED
    BY <1>4, <1>6, <1>9, <2>2
    DEF Granted, Inv, TypeOK, Access, Collected, LineDelivered, IsOptional
<1>10. CASE ~flush /\ \E w \in {p.data : p \in answered} : BeatReturned(w) \/ LineReturned(w)
  <2>1. PICK p \in answered : BeatReturned(p.data) \/ LineReturned(p.data)
    BY <1>10
  <2>2. state = "WAIT_RSP" /\ p \in pending /\ p.data \in Word
    BY <1>5, <2>1 DEF BeatReturned, LineReturned
  <2>3. line' = [line EXCEPT ![beat] = p.data] /\ line' \in [Beats -> Word]
    BY <2>1, <2>2 DEF BeatReturned, LineReturned, Inv, TypeOK
  <2>4. ASSUME ~disturbed'
        PROVE  \A b \in Beats : b <= beat => line'[b] = WordAt(line_addr, b)
    <3>1. ~disturbed
      BY <1>6, <2>2, <2>4
    <3>2. p.data = WordAt(line_addr, beat)
      BY <2>2, <3>1 DEF Inv, OwnAccess, instr_addr_o, WordAt
    <3>3. QED
      BY <2>2, <2>3, <3>1, <3>2 DEF Inv, TypeOK, Collected, Beats
  <2>5. CASE BeatReturned(p.data)
    <3>1. /\ beat' = beat + 1 /\ beat' \in Beats
          /\ state' = "REQ" /\ refill' = {} /\ line_addr' = line_addr
      BY <2>5 DEF BeatReturned, Inv, TypeOK, Beats
    <3>2. Collected'
      BY <2>4, <3>1 DEF Collected, Inv, TypeOK, Beats, WordAt
    <3>3. QED
      BY <1>4, <1>6, <2>3, <3>1, <3>2
      DEF Inv, TypeOK, OwnAccess, LineDelivered, IsOptional, Access
  <2>6. CASE LineReturned(p.data)
    <3>1. /\ beat' = 0 /\ state' = "IDLE" /\ line_addr' = line_addr
          /\ refill' = {[addr |-> line_addr, data |-> line']}
      BY <2>3, <2>6 DEF LineReturned
    <3>2. ~disturbed' => line' = LineAt(line_addr)
      <4>1. SUFFICES ASSUME ~disturbed' PROVE line' = LineAt(line_addr)
        OBVIOUS
      <4>2. \A b \in Beats : line'[b] = WordAt(line_addr, b)
        BY <2>4, <2>6, <4>1 DEF LineReturned, Beats
      <4>3. QED
        BY <2>3, <4>2 DEF LineAt
    <3>3. IsOptional(refill', [addr : Line, data : [Beats -> Word]])
      BY <2>3, <3>1 DEF IsOptional, Inv, TypeOK
    <3>4. LineDelivered'
      BY <3>1, <3>2 DEF LineDelivered, LineAt, WordAt
    <3>5. QED
      BY <1>4, <1>6, <2>3, <3>1, <3>3, <3>4
      DEF Inv, TypeOK, Collected, OwnAccess, Access, Beats
  <2>7. QED
    BY <2>1, <2>5, <2>6
<1>11. CASE /\ ~flush
            /\ \/ state = "IDLE" /\ miss = {}
               \/ state = "REQ" /\ granted = {}
               \/ state = "WAIT_RSP" /\ answered = {}
            /\ Hold
  <2>1. UNCHANGED <<state, line_addr, beat, line>> /\ refill' = {}
    BY <1>11 DEF Hold
  <2>2. OwnAccess'
    <3>1. SUFFICES ASSUME state = "WAIT_RSP", ~disturbed' PROVE OwnAccess'
      BY <2>1 DEF OwnAccess
    <3>2. answered = {} /\ granted = {} /\ ~disturbed
      BY <1>3, <1>6, <1>11, <3>1
    <3>3. PICK p \in pending : pending = {p} /\ p.data = instr_addr_o
      BY <3>1, <3>2 DEF Inv, OwnAccess
    <3>4. pending' = {[data |-> p.data, age |-> p.age + 1]}
      BY <1>6, <3>2, <3>3
    <3>5. QED
      BY <2>1, <3>3, <3>4 DEF OwnAccess, instr_addr_o
  <2>3. QED
    BY <1>4, <1>6, <2>1, <2>2
    DEF Inv, TypeOK, Access, Collected, LineDelivered, IsOptional
<1>12. QED
  BY <1>7, <1>8, <1>9, <1>10, <1>11 DEF Cycle, EngineClock

LEMMA NextInv == Inv /\ [Next]_vars => Inv'
<1>1. ASSUME Inv, Next PROVE Inv'
  BY <1>1, CycleInv DEF Next
<1>2. ASSUME Inv, UNCHANGED vars PROVE Inv'
  BY <1>2
  DEF vars, engineVars, Inv, TypeOK, AgesDistinct, Collected, OwnAccess, LineDelivered,
      instr_addr_o
<1>3. QED
  BY <1>1, <1>2

\* The engine's registers and the accesses in flight keep their types.
THEOREM TypeCorrect == Spec => []TypeOK
<1>1. Inv => TypeOK
  BY DEF Inv
<1>2. QED
  BY <1>1, InitInv, NextInv, PTL DEF Spec

\* The engine never hands the L0 a word of an abandoned line, however late the memory
\* answers, unless an access of the line was granted while another was unanswered.
THEOREM DeliveredCorrect == Spec => []LineDelivered
<1>1. Inv => LineDelivered
  BY DEF Inv
<1>2. QED
  BY <1>1, InitInv, NextInv, PTL DEF Spec

-----------------------------------------------------------------------------
\* Every cycle of the engine is a step of the line fetch.
LEMMA CycleRefines ==
  ASSUME Inv, Inv',
         NEW flush \in BOOLEAN, NEW miss \in Optional(Line),
         NEW granted \in SUBSET Requested, NEW answered \in Optional(pending),
         Cycle(flush, miss, granted, answered)
  PROVE  Fetch!FetchNext
<1>1. Fetch!MayDisturb
  BY DEF Fetch!MayDisturb, Cycle, busy_o
<1>2. state = "IDLE" => ~disturbed'
  BY DEF Cycle
<1>3. CASE Flush
  BY <1>1, <1>3 DEF Flush, Fetch!FetchNext, Fetch!Drop, busy_o
<1>4. CASE \E a \in miss : AcceptMiss(a)
  <2>1. PICK a \in Line : AcceptMiss(a)
    BY <1>4 DEF Optional
  <2>2. Fetch!Request(a)
    BY <1>2, <2>1 DEF AcceptMiss, Fetch!Request, busy_o
  <2>3. QED
    BY <2>2 DEF Fetch!FetchNext
<1>5. CASE Granted
  BY <1>1, <1>5 DEF Granted, Fetch!FetchNext, Fetch!Wait, busy_o
<1>6. CASE \E w \in {p.data : p \in answered} : BeatReturned(w)
  BY <1>1, <1>6 DEF BeatReturned, Fetch!FetchNext, Fetch!Wait, busy_o
<1>7. CASE \E w \in {p.data : p \in answered} : LineReturned(w)
  <2>1. PICK w : LineReturned(w)
    BY <1>7
  <2> DEFINE r == [addr |-> line_addr, data |-> [line EXCEPT ![3] = w]]
  <2>2. refill' = {r} /\ r.addr = line_addr
    BY <2>1 DEF LineReturned
  <2> HIDE DEF r
  <2>3. disturbed' \/ r.data = LineAt(line_addr)
    BY <2>2 DEF Inv, LineDelivered, LineAt, WordAt
  <2>4. state = "WAIT_RSP" /\ state' = "IDLE" /\ line_addr \in Line
    BY <2>1 DEF LineReturned, Inv, TypeOK
  <2>5. Fetch!Deliver(line_addr)
    BY <1>1, <2>2, <2>3, <2>4 DEF Fetch!Deliver, busy_o
  <2>6. QED
    BY <2>4, <2>5 DEF Fetch!FetchNext
<1>8. CASE Hold
  BY <1>1, <1>8 DEF Hold, Fetch!FetchNext, Fetch!Wait, busy_o
<1>9. QED
  BY <1>3, <1>4, <1>5, <1>6, <1>7, <1>8 DEF Cycle, EngineClock

\* The engine implements the line fetch: asked for a line, it delivers that line's
\* content once or drops the request; what it delivers of a disturbed line is open.
THEOREM EngineFetches == Spec => FetchSpec
<1>1. Init => Fetch!FetchInit
  BY DEF Init, EngineInit, Fetch!FetchInit, busy_o
<1>2. Inv /\ Inv' /\ [Next]_vars => [Fetch!FetchNext]_Fetch!fetchVars
  <2>1. ASSUME Inv, Inv', Next PROVE Fetch!FetchNext
    BY <2>1, CycleRefines DEF Next
  <2>2. ASSUME UNCHANGED vars PROVE UNCHANGED Fetch!fetchVars
    BY <2>2 DEF vars, engineVars, Fetch!fetchVars, busy_o
  <2>3. QED
    BY <2>1, <2>2
<1>3. QED
  BY <1>1, <1>2, InitInv, NextInv, PTL DEF Spec, FetchSpec, Fetch!FetchSpec

=============================================================================
