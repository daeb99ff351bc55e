-------------------------- MODULE SparvFetchProof --------------------------
(***************************************************************************)
(* The fetch stage for every address space, L0 size, program and pattern   *)
(* of redirects, FENCE.I, stores and back-pressure, and every latency of   *)
(* the memory: its types, the pair and its counter, the shadow directory,  *)
(* what a FENCE.I spares, the program decode sees, and demand misses       *)
(* before prefetches.  What FENCE.I spares and the program decode sees are *)
(* proved up to the first grant over an unanswered access.                 *)
(***************************************************************************)
EXTENDS SparvFetch, TLAPS

Data  == [line : Line, version : 0 .. MaxVersion]
Entry == [addr : Line, data : Data]

MemoryTyped ==
  /\ version \in [Line -> 0 .. MaxVersion] /\ fenced \in [Line -> 0 .. MaxVersion]
  /\ pending \subseteq [data : Data, age : Nat \ {0}]

TypeInv == TypeOK /\ MemoryTyped

----------------------------------------------------------------------------
\* Arithmetic of lines and halfwords.
LEMMA DivMod ==
  ASSUME NEW a \in Nat, NEW n \in Nat \ {0}
  PROVE  a = (a \div n) * n + (a % n) /\ a \div n \in Nat /\ a % n \in 0 .. n - 1
OBVIOUS

LEMMA ModSmall ==
  ASSUME NEW a \in Nat, NEW n \in Nat \ {0}, a < n
  PROVE  a % n = a
OBVIOUS

LEMMA DivLess ==
  ASSUME NEW k \in Nat, NEW n \in Nat \ {0}, NEW a \in 0 .. k * n - 1
  PROVE  a \div n \in 0 .. k - 1
OBVIOUS

LEMMA Remainder ==
  ASSUME NEW q \in Nat, NEW n \in Nat \ {0}, NEW r \in 0 .. n - 1
  PROVE  (q * n + r) % n = r
OBVIOUS

LEMMA LastLine ==
  ASSUME NEW k \in Nat, NEW n \in Nat, NEW q \in 0 .. k - 1
  PROVE  q * n \in Nat /\ q * n + n <= k * n
OBVIOUS

LEMMA ProductPositive ==
  ASSUME NEW k \in Nat \ {0}, NEW n \in Nat \ {0}
  PROVE  k * n \in Nat \ {0}
OBVIOUS

\* What a line and a halfword of it are.
LEMMA Addresses ==
  /\ NLINES * HALFWORDS \in Nat \ {0}
  /\ \A pc \in PC : line_base(pc) \in Line /\ halfword_index(pc) \in 0 .. HALFWORDS - 1
  /\ \A pc \in PC : content([line |-> line_base(pc)], halfword_index(pc)) = pc
  /\ \A l \in Line : next_line(l) \in Line /\ index(l) \in Index
  /\ \A n \in Nat, pc \in PC : pc_plus(pc, n) \in PC
  /\ 0 \in PC /\ 0 \in Line
<1>1. /\ NLINES \in Nat \ {0} /\ HALFWORDS \in Nat \ {0} /\ L0_LINES \in Nat \ {0}
  BY GeometryAssumption
<1>2. NLINES * HALFWORDS \in Nat \ {0}
  BY <1>1, ProductPositive
<1>3. ASSUME NEW pc \in PC
      PROVE  /\ line_base(pc) \in Line /\ halfword_index(pc) \in 0 .. HALFWORDS - 1
             /\ pc = line_base(pc) * HALFWORDS + halfword_index(pc)
  <2>1. pc \in Nat /\ pc \in 0 .. NLINES * HALFWORDS - 1
    BY <1>2 DEF PC
  <2>2. pc = (pc \div HALFWORDS) * HALFWORDS + (pc % HALFWORDS)
        /\ pc % HALFWORDS \in 0 .. HALFWORDS - 1
    BY <2>1, <1>1, DivMod
  <2>3. pc \div HALFWORDS \in 0 .. NLINES - 1
    BY <2>1, <1>1, DivLess
  <2> QED BY <2>2, <2>3 DEF Line, line_base, halfword_index
<1>4. ASSUME NEW l \in Line PROVE next_line(l) \in Line /\ index(l) \in Index
  BY <1>1, DivMod DEF Line, Index, next_line, index
<1>5. ASSUME NEW n \in Nat, NEW pc \in PC PROVE pc_plus(pc, n) \in PC
  BY <1>2, DivMod DEF PC, pc_plus
<1> QED BY <1>1, <1>2, <1>3, <1>4, <1>5 DEF content, PC, Line

----------------------------------------------------------------------------
\* A cycle with its inputs, and what is known of them.
Tick(to, fence, clear, req, ready, consumed, granted, answered, store) ==
  /\ Cycle(to, fence, clear, req, ready, consumed, granted, answered)
  /\ Stores(store, fence)
  /\ \A l \in store : version[l] < MaxVersion
  /\ granted => state = "REQ"
  /\ fence => to # {}

LEMMA Steps ==
  ASSUME TypeInv, Next
  PROVE  \E to \in Optional(PC), fence, clear, req, ready, consumed \in BOOLEAN :
           \E granted \in BOOLEAN, answered \in Optional(pending), store \in SUBSET Line :
             Tick(to, fence, clear, req, ready, consumed, granted, answered, store)
<1> DEFINE Legal(to, fence, clear, req, ready, consumed) ==
             WithMemory(to, fence, clear, req, ready, consumed)
           Ticks(to, fence, clear, req, ready, consumed) ==
             \E granted \in BOOLEAN, answered \in Optional(pending), store \in SUBSET Line :
               Tick(to, fence, clear, req, ready, consumed, granted, answered, store)
<1>1. ASSUME NEW to \in Optional(PC), NEW fence \in BOOLEAN, NEW clear \in BOOLEAN,
             NEW req \in BOOLEAN, NEW ready \in BOOLEAN, NEW consumed \in BOOLEAN,
             Legal(to, fence, clear, req, ready, consumed),
             fence => to # {}
      PROVE  Ticks(to, fence, clear, req, ready, consumed)
  <2>1. PICK granted \in {line_req_o, FALSE}, answered \in Optional(pending),
             store \in Optional({l \in Written : version[l] < MaxVersion}) :
               /\ Cycle(to, fence, clear, req, ready, consumed, granted, answered)
               /\ Stores(store, fence)
    BY <1>1 DEF WithMemory
  <2>2. granted \in BOOLEAN /\ (granted => state = "REQ")
    BY DEF line_req_o
  <2>3. store \in SUBSET Line /\ \A l \in store : version[l] < MaxVersion
    BY FetchAssumption DEF Optional
  <2>4. Tick(to, fence, clear, req, ready, consumed, granted, answered, store)
    BY <1>1, <2>1, <2>2, <2>3 DEF Tick
  <2> QED BY <2>2, <2>3, <2>4
<1>2. {} \in Optional(PC) /\ \A t \in PC : {t} \in Optional(PC) /\ {t} # {}
  BY DEF Optional
<1>3. fence_targets \subseteq PC
  <2>1. pc1 \subseteq PC
    BY DEF TypeInv, TypeOK, Optional
  <2> QED BY <2>1, Addresses DEF fence_targets
<1> HIDE DEF Legal, Ticks
<1>4. CASE Run
  <2>1. PICK req, ready, consumed \in BOOLEAN :
          WithMemory({}, FALSE, FALSE, req, ready, consumed)
    BY <1>4 DEF Run
  <2>2. Legal({}, FALSE, FALSE, req, ready, consumed)
    BY <2>1 DEF Legal
  <2>3. Ticks({}, FALSE, FALSE, req, ready, consumed)
    BY <2>2, <1>1, <1>2
  <2>4. \E to \in Optional(PC), f, c, r, rd, co \in BOOLEAN : Ticks(to, f, c, r, rd, co)
    BY <2>3, <1>2, ZenonT(30)
  <2> QED BY <2>4 DEF Ticks
<1>5. CASE Clear
  <2>1. PICK ready, consumed \in BOOLEAN : Legal({}, FALSE, TRUE, TRUE, ready, consumed)
    BY <1>5 DEF Clear, Legal
  <2>2. Ticks({}, FALSE, TRUE, TRUE, ready, consumed)
    BY <2>1, <1>1, <1>2
  <2> QED BY <2>2, <1>2 DEF Ticks
<1>6. CASE Redirected
  <2>1. PICK t \in PC : Legal({t}, FALSE, FALSE, FALSE, FALSE, FALSE)
    BY <1>6, FetchAssumption DEF Redirected, Legal
  <2>2. Ticks({t}, FALSE, FALSE, FALSE, FALSE, FALSE)
    BY <2>1, <1>1, <1>2
  <2> QED BY <2>2, <1>2 DEF Ticks
<1>7. CASE FenceI
  <2>1. PICK t \in PC : Legal({t}, TRUE, FALSE, FALSE, FALSE, FALSE)
    BY <1>7, <1>3 DEF FenceI, Legal
  <2>2. Ticks({t}, TRUE, FALSE, FALSE, FALSE, FALSE)
    BY <2>1, <1>1, <1>2
  <2> QED BY <2>2, <1>2 DEF Ticks
<1> QED BY <1>4, <1>5, <1>6, <1>7 DEF Next

----------------------------------------------------------------------------
\* What a pair holds.
LEMMA PairHolds ==
  ASSUME NEW pc \in PC, NEW d
  PROVE  /\ pair_at(pc, d).pc1 = pc /\ pair_at(pc, d).src = d
         /\ pair_at(pc, d).pc2 = pc_plus(pc, halfwords(content(d, halfword_index(pc))))
         /\ pair_at(pc, d).pc2 \in PC /\ pair_at(pc, d).next_pc \in PC
         /\ pair_at(pc, d).inst2_valid \in BOOLEAN
<1> DEFINE dd   == dual_decode(d, halfword_index(pc))
           len1 == halfwords(content(d, halfword_index(pc)))
<1>1. dd.len1 = len1
  BY DEF dual_decode
<1>2. \A q : halfwords(q) \in Nat
  BY DEF halfwords
<1>3. dd.len2 \in Nat /\ len1 \in Nat
  BY <1>2 DEF dual_decode
<1>4. dd.valid2 \in BOOLEAN /\ dd.illegal1 \in BOOLEAN
  BY DEF dual_decode
<1> DEFINE p == pair_at(pc, d)
<1>5. /\ p.pc1 = pc /\ p.src = d /\ p.pc2 = pc_plus(pc, dd.len1)
      /\ p.inst2_valid = (dd.valid2 /\ ~dd.illegal1)
      /\ p.next_pc \in {pc_plus(pc, dd.len1 + dd.len2), pc_plus(pc, dd.len1)}
  BY DEF pair_at
<1> HIDE DEF p, dd, len1
<1>6. dd.len1 + dd.len2 \in Nat
  BY <1>1, <1>3
<1>7. p.pc2 \in PC /\ p.next_pc \in PC
  BY <1>1, <1>3, <1>5, <1>6, Addresses
<1> QED BY <1>1, <1>4, <1>5, <1>7 DEF p, len1

LEMMA PairShape ==
  ASSUME TypeInv
  PROVE  /\ pc_q \in PC
         /\ pair = {} \/ \E pc \in PC, d \in Data : pc1 = {pc} /\ pair = {pair_at(pc, d)}
<1>1. pc1 = {} \/ \E pc \in PC : pc1 = {pc}
  BY DEF TypeInv, TypeOK, Optional
<1>2. pair = {} \/ \E pc \in pc1, d \in Data : pair = {pair_at(pc, d)}
  BY DEF TypeInv, TypeOK, Data
<1> QED BY <1>1, <1>2 DEF TypeInv, TypeOK

LEMMA LookupTyped ==
  ASSUME TypeInv, NEW ready \in BOOLEAN, NEW consumed \in BOOLEAN
  PROVE  lookup_pc(ready, consumed) \in PC
<1>1. CASE pair = {}
  BY <1>1, PairShape DEF lookup_pc
<1>2. ASSUME NEW pc \in PC, NEW d \in Data, pair = {pair_at(pc, d)}
      PROVE  lookup_pc(ready, consumed) \in PC
  <2>1. (CHOOSE p \in pair : TRUE) = pair_at(pc, d)
    BY <1>2
  <2> QED BY <2>1, <1>2, PairHolds, PairShape DEF lookup_pc
<1> QED BY <1>1, <1>2, PairShape

\* The lookup of a cycle.
Lookups(to, clear, req, ready, consumed) ==
  IF req /\ ~(to # {} \/ clear) THEN {lookup_pc(ready, consumed)} ELSE {}

refilled_lines == {r.addr : r \in refill}

\* The parts of a cycle.
Parts(to, fence, clear, req, ready, consumed, granted, answered) ==
  /\ pc_q' = IF to # {} THEN CHOOSE t \in to : TRUE ELSE lookup_pc(ready, consumed)
  /\ L0Clock(fence, refill)
  /\ PairClock(to # {} \/ clear, Lookups(to, clear, req, ready, consumed), ready)
  /\ \E t \in PC, hit \in Optional(PC), demanded \in {{}, refilled_lines},
        accepted \in BOOLEAN :
       CtrlClock(to # {} \/ clear, t, demanded, hit, accepted)
  /\ \E is_prefetch \in BOOLEAN, hit \in Optional(PC) :
       DirClock(fence, refilled_lines, is_prefetch, hit)
  /\ active' \in {active, {}, {"demand"}, {"prefetch"}}
  /\ \E miss \in Optional(Line) :
       EngineClock(to # {} \/ clear, miss, granted, {p.data : p \in answered})
  /\ MayAnswer(answered) /\ MemoryClock(ReadLine(granted), answered)
  /\ disturbed' = (disturbed \/ Overlaps(ReadLine(granted), answered))
  /\ taken' = IF to = {} /\ ready THEN accounted(consumed) ELSE 0

LEMMA CycleParts ==
  ASSUME TypeInv,
         NEW to \in Optional(PC), NEW fence \in BOOLEAN, NEW clear \in BOOLEAN,
         NEW req \in BOOLEAN, NEW ready \in BOOLEAN, NEW consumed \in BOOLEAN,
         NEW granted \in BOOLEAN, NEW answered \in Optional(pending),
         Cycle(to, fence, clear, req, ready, consumed, granted, answered)
  PROVE  Parts(to, fence, clear, req, ready, consumed, granted, answered)
<1> DEFINE redirect == to # {} \/ clear
           npc      == lookup_pc(ready, consumed)
           lookup   == IF req /\ ~redirect THEN {npc} ELSE {}
           seen     == {pc \in lookup : lookup_ready(ready)}
           hit      == {pc \in seen : hit_line(pc) # {}}
           demand   == {line_base(pc) : pc \in IF refill = {} THEN seen \ hit ELSE {}}
           offer    == prefetch(redirect, demand # {}, busy_o)
           cached   == \E l \in candidate : probe_hit(l)
           accepted == miss_ready_o /\ select_prefetch(demand, offer, cached) # {}
           is_prefetch == refill_is_prefetch(refill # {})
           t        == IF to # {} THEN CHOOSE x \in to : TRUE ELSE pc_q
<1>1. /\ npc \in PC /\ t \in PC
  <2>1. to = {} \/ \E x \in PC : to = {x}
    BY DEF Optional
  <2> QED BY <2>1, LookupTyped, PairShape
<1>2. lookup = Lookups(to, clear, req, ready, consumed)
  BY DEF Lookups
<1> HIDE DEF npc, t
<1>3. hit \in Optional(PC)
  BY <1>1 DEF Optional
<1>4. demand \in Optional(Line)
  <2>1. (IF refill = {} THEN seen \ hit ELSE {}) \in {{}, {npc}}
    OBVIOUS
  <2>2. demand = {} \/ demand = {line_base(npc)}
    BY <2>1
  <2> QED BY <1>1, <2>2, Addresses DEF Optional
<1>5. offer \in {{}, candidate}
  BY DEF prefetch
<1>6. is_prefetch \in BOOLEAN /\ accepted \in BOOLEAN
  BY DEF refill_is_prefetch, miss_ready_o
<1>7. refill_req(demand, offer, cached) \in Optional(Line)
  BY <1>4, <1>5 DEF refill_req, select_prefetch, TypeInv, TypeOK, Optional
<1>8. FrontClock(fence, refill, redirect, lookup, ready)
  BY DEF Cycle, npc
<1>9. CtrlClock(redirect, t, IF is_prefetch THEN {} ELSE refilled_lines, hit,
                offer # {} /\ (accepted \/ cached))
  BY DEF Cycle, npc, t, refilled_lines
<1>10. DirClock(fence, refilled_lines, is_prefetch, hit)
  BY DEF Cycle, npc, refilled_lines
<1>11. active' \in {active, {}, {"demand"}, {"prefetch"}}
  <2>1. ArbClock(redirect, miss_ready_o /\ demand # {}, accepted, refill # {})
    BY DEF Cycle, npc
  <2> HIDE DEF redirect, demand, accepted
  <2> QED BY <2>1 DEF ArbClock, ArbFlush, Latch
<1>12. EngineClock(redirect, refill_req(demand, offer, cached), granted, {p.data : p \in answered})
  BY DEF Cycle, npc
<1>13. /\ pc_q' = IF to # {} THEN CHOOSE x \in to : TRUE ELSE npc
       /\ MayAnswer(answered) /\ MemoryClock(ReadLine(granted), answered)
       /\ disturbed' = (disturbed \/ Overlaps(ReadLine(granted), answered))
       /\ taken' = IF to = {} /\ ready THEN accounted(consumed) ELSE 0
  BY DEF Cycle, npc
<1>14. \E d \in {{}, refilled_lines}, a \in BOOLEAN : CtrlClock(redirect, t, d, hit, a)
  <2> DEFINE a == offer # {} /\ (accepted \/ cached)
             d == IF is_prefetch THEN {} ELSE refilled_lines
  <2>1. a \in BOOLEAN /\ d \in {{}, refilled_lines}
    BY <1>6
  <2>2. CtrlClock(redirect, t, d, hit, a)
    BY <1>9
  <2> HIDE DEF a, d
  <2> QED BY <2>1, <2>2
<1> HIDE DEF hit, demand, offer, cached, accepted, is_prefetch, seen
<1>15. FrontClock(fence, refill, redirect, lookup, ready) =>
         L0Clock(fence, refill) /\ PairClock(redirect, lookup, ready)
  BY DEF FrontClock
<1>16. L0Clock(fence, refill) /\ PairClock(redirect, Lookups(to, clear, req, ready, consumed), ready)
  BY <1>2, <1>8, <1>15
<1>17. \E p \in BOOLEAN, h \in Optional(PC) : DirClock(fence, refilled_lines, p, h)
  BY <1>3, <1>6, <1>10
<1>18. \E miss \in Optional(Line) :
         EngineClock(redirect, miss, granted, {p.data : p \in answered})
  BY <1>7, <1>12
<1>19. \E x \in PC, h \in Optional(PC), d \in {{}, refilled_lines}, a \in BOOLEAN :
          CtrlClock(redirect, x, d, h, a)
  BY <1>1, <1>3, <1>14
<1> QED BY <1>11, <1>13, <1>16, <1>17, <1>18, <1>19 DEF npc, Parts

----------------------------------------------------------------------------
\* What becomes of the pair register.
LEMMA PairStep ==
  ASSUME NEW redirect \in BOOLEAN, NEW lookup, NEW ready \in BOOLEAN,
         PairClock(redirect, lookup, ready)
  PROVE  \/ pair' = {} /\ pc1' = pc1
         \/ ~redirect /\ (pair = {} \/ ~ready) /\ pair' = pair /\ pc1' = pc1
         \/ \E pc \in lookup : \E e \in hit_line(pc) :
              /\ ~redirect /\ lookup_ready(ready)
              /\ dual_decode(e.data, halfword_index(pc)).valid1
              /\ pair' = {pair_at(pc, e.data)} /\ pc1' = {pc}
<1>1. CASE redirect
  BY <1>1 DEF PairClock, DropPair
<1>2. CASE ~redirect /\ Loads(lookup, ready) = {} /\ TakePair(pair # {} /\ ready)
  BY <1>2 DEF TakePair
<1>3. CASE ~redirect /\ \E p \in Loads(lookup, ready) : LoadPair(p)
  <2>1. PICK p \in Loads(lookup, ready) : LoadPair(p)
    BY <1>3
  <2>2. \E pc \in lookup : \E e \in hit_line(pc) :
          /\ lookup_ready(ready) /\ dual_decode(e.data, halfword_index(pc)).valid1
          /\ p = pair_at(pc, e.data)
    BY <2>1 DEF Loads
  <2>3. \A pc, d : pair_at(pc, d).pc1 = pc
    BY DEF pair_at
  <2> QED BY <1>3, <2>1, <2>2, <2>3 DEF LoadPair
<1> QED BY <1>1, <1>2, <1>3 DEF PairClock

\* The L0 holds an arriving line, or what it held, or nothing.
LEMMA L0Step ==
  ASSUME NEW fence \in BOOLEAN, L0Clock(fence, refill), NEW i \in Index
  PROVE  \/ (\E r \in refill : index(r.addr) = i) /\ l0'[i] = refill
         \/ ~fence /\ l0'[i] = l0[i] /\ \A r \in refill : index(r.addr) # i
         \/ fence /\ l0'[i] = {}
BY DEF L0Clock

\* What the engine makes of a cycle.
LEMMA EngineStep ==
  ASSUME NEW flush \in BOOLEAN, NEW miss \in Optional(Line), NEW granted \in BOOLEAN,
         NEW rdata, EngineClock(flush, miss, granted, rdata)
  PROVE  \/ refill' = {} /\ state' = "IDLE" /\ line_addr' = line_addr
         \/ refill' = {} /\ ~flush /\ state = "IDLE" /\ state' = "REQ" /\ line_addr' \in Line
         \/ refill' = {} /\ state = "REQ" /\ state' = "WAIT_RSP" /\ line_addr' = line_addr
                         /\ granted /\ ~flush
         \/ refill' = {} /\ state = "REQ" /\ state' = "REQ" /\ line_addr' = line_addr
                         /\ ~granted /\ ~flush
         \/ refill' = {} /\ state = "WAIT_RSP" /\ state' = "WAIT_RSP" /\ line_addr' = line_addr
                         /\ rdata = {} /\ ~flush
         \/ /\ state = "WAIT_RSP" /\ state' = "IDLE" /\ line_addr' = line_addr /\ ~flush
            /\ \E d \in rdata : refill' = {[addr |-> line_addr, data |-> d]}
<1>1. miss \subseteq Line
  BY DEF Optional
<1>2. CASE flush
  BY <1>2 DEF EngineClock, Flush
<1>3. ASSUME ~flush, NEW a \in miss, AcceptMiss(a)
      PROVE  refill' = {} /\ state = "IDLE" /\ state' = "REQ" /\ line_addr' \in Line
  BY <1>1, <1>3 DEF AcceptMiss
<1>4. CASE ~flush /\ granted /\ Granted
  BY <1>4 DEF Granted
<1>5. CASE ~flush /\ \E d \in rdata : LineReturned(d)
  BY <1>5 DEF LineReturned
<1>6. CASE /\ ~flush
           /\ \/ state = "IDLE" /\ miss = {}
              \/ state = "REQ" /\ ~granted
              \/ state = "WAIT_RSP" /\ rdata = {}
           /\ Hold
  BY <1>6 DEF Hold
<1> QED BY <1>2, <1>3, <1>4, <1>5, <1>6 DEF EngineClock

----------------------------------------------------------------------------
\* Types.
LEMMA InitTyped == Init => TypeInv
<1> SUFFICES ASSUME Init PROVE TypeInv
  OBVIOUS
<1>1. 0 \in 0 .. MaxVersion
  BY FetchAssumption
<1>2. TypeOK
  <2>1. /\ \A i \in Index : l0[i] = {} /\ dir[i] = {}
        /\ pair = {} /\ pc1 = {} /\ pc_q = 0 /\ candidate = {} /\ active = {}
        /\ state = "IDLE" /\ line_addr = 0 /\ refill = {}
        /\ taken = 0 /\ disturbed = FALSE
    BY DEF Init, FrontInit, CtrlInit, DirInit, ArbInit, EngineInit
  <2>2. \A S : IsOptional({}, S) /\ {} \in Optional(S)
    BY DEF IsOptional, Optional
  <2>3. \A i \in Index :
          /\ IsOptional(l0[i], [addr : {l \in Line : index(l) = i},
                                data : [line : Line, version : 0 .. MaxVersion]])
          /\ IsOptional(dir[i], [addr : {l \in Line : index(l) = i}, prefetched : BOOLEAN])
    BY <2>1, <2>2
  <2>4. IsOptional(refill, [addr : Line, data : [line : Line, version : 0 .. MaxVersion]])
    BY <2>1, <2>2
  <2>5. /\ pc1 \in Optional(PC) /\ candidate \in Optional(Line)
        /\ active \in Optional({"demand", "prefetch"})
    BY <2>1, <2>2
  <2>6. pc_q \in PC /\ line_addr \in Line
    <3>1. pc_q = 0 /\ line_addr = 0
      BY <2>1
    <3>2. 0 \in PC /\ 0 \in Line
      BY Addresses
    <3> QED BY <3>1, <3>2
  <2>7. taken \in 0 .. 2 /\ disturbed \in BOOLEAN /\ state \in {"IDLE", "REQ", "WAIT_RSP"}
    <3>1. taken = 0
      BY <2>1
    <3>2. state = "IDLE"
      BY <2>1
    <3>3. disturbed \in BOOLEAN
      BY Zenon DEF Init
    <3>4. taken \in 0 .. 2 /\ state \in {"IDLE", "REQ", "WAIT_RSP"}
      BY <3>1, <3>2
    <3> QED BY <3>3, <3>4, Zenon
  <2> QED BY <2>1, <2>3, <2>4, <2>5, <2>6, <2>7, Zenon DEF TypeOK
<1>3. MemoryTyped
  BY <1>1 DEF Init, MemoryInit, MemoryTyped
<1> QED BY <1>2, <1>3 DEF TypeInv

\* The versions of the lines, and the accesses in flight.
LEMMA MemoryStaysTyped ==
  ASSUME TypeInv, NEW granted \in BOOLEAN, NEW answered \in Optional(pending),
         MemoryClock(ReadLine(granted), answered),
         NEW store \in SUBSET Line, NEW fence \in BOOLEAN, Stores(store, fence),
         \A l \in store : version[l] < MaxVersion
  PROVE  MemoryTyped'
<1>1. version' \in [Line -> 0 .. MaxVersion] /\ fenced' \in [Line -> 0 .. MaxVersion]
  BY FetchAssumption DEF TypeInv, MemoryTyped, Stores
<1>2. ReadLine(granted) \subseteq Data
  BY DEF ReadLine, Data, TypeInv, TypeOK, MemoryTyped
<1>3. \A p \in pending' : p \in [data : Data, age : Nat \ {0}]
  <2> SUFFICES ASSUME NEW p \in pending' PROVE p \in [data : Data, age : Nat \ {0}]
    OBVIOUS
  <2>1. CASE \E q \in pending : p = [data |-> q.data, age |-> q.age + 1]
    <3>1. PICK q \in pending : p = [data |-> q.data, age |-> q.age + 1]
      BY <2>1
    <3>2. q.data \in Data /\ q.age \in Nat \ {0}
      BY DEF TypeInv, MemoryTyped
    <3> QED BY <3>1, <3>2
  <2>2. CASE \E d \in Data : p = [data |-> d, age |-> 1]
    BY <2>2
  <2> QED BY <1>2, <2>1, <2>2 DEF MemoryClock
<1> QED BY <1>1, <1>3 DEF MemoryTyped

LEMMA TypeNext == TypeInv /\ [Next]_vars => TypeInv'
<1> SUFFICES ASSUME TypeInv, [Next]_vars PROVE TypeInv'
  OBVIOUS
<1>1. CASE UNCHANGED vars
  BY <1>1 DEF vars, frontVars, engineVars, ghostVars, TypeInv, TypeOK, MemoryTyped
<1>2. CASE Next
  <2>1. PICK to \in Optional(PC), fence, clear, req, ready, consumed \in BOOLEAN :
          \E granted \in BOOLEAN, answered \in Optional(pending), store \in SUBSET Line :
            Tick(to, fence, clear, req, ready, consumed, granted, answered, store)
    BY <1>2, Steps
  <2>2. PICK granted \in BOOLEAN, answered \in Optional(pending), store \in SUBSET Line :
          Tick(to, fence, clear, req, ready, consumed, granted, answered, store)
    BY <2>1
  <2>3. Cycle(to, fence, clear, req, ready, consumed, granted, answered)
    BY <2>2 DEF Tick
  <2> DEFINE redirect == to # {} \/ clear
             lookup == Lookups(to, clear, req, ready, consumed)
  <2>18. Parts(to, fence, clear, req, ready, consumed, granted, answered)
    BY <2>3, CycleParts, SMTT(30)
  <2>4. /\ pc_q' = IF to # {} THEN CHOOSE t \in to : TRUE ELSE lookup_pc(ready, consumed)
        /\ L0Clock(fence, refill)
        /\ PairClock(redirect, lookup, ready)
        /\ \E t \in PC, hit \in Optional(PC), demanded \in {{}, refilled_lines},
              accepted \in BOOLEAN :
             CtrlClock(redirect, t, demanded, hit, accepted)
        /\ \E is_prefetch \in BOOLEAN, hit \in Optional(PC) :
             DirClock(fence, refilled_lines, is_prefetch, hit)
        /\ active' \in {active, {}, {"demand"}, {"prefetch"}}
        /\ \E miss \in Optional(Line) :
             EngineClock(redirect, miss, granted, {p.data : p \in answered})
        /\ MayAnswer(answered) /\ MemoryClock(ReadLine(granted), answered)
        /\ taken' = IF to = {} /\ ready THEN accounted(consumed) ELSE 0
    BY <2>18 DEF Parts
  <2>5. MemoryTyped'
    BY <2>2, <2>4, MemoryStaysTyped DEF Tick
  <2>6. to = {} \/ \E t \in PC : to = {t}
    BY DEF Optional
  <2>7. pc_q' \in PC
    BY <2>4, <2>6, LookupTyped
  <2>8. lookup \subseteq PC /\ redirect \in BOOLEAN
    BY LookupTyped DEF Lookups
  <2> HIDE DEF redirect, lookup
  <2>9. \A i \in Index : \A e \in l0[i] : e \in Entry /\ index(e.addr) = i
    BY DEF TypeInv, TypeOK, IsOptional, Entry, Data
  <2>10. \A r \in refill : r \in Entry /\ refill = {r}
    BY DEF TypeInv, TypeOK, IsOptional, Entry, Data
  <2>11. /\ pc1' \in Optional(PC)
         /\ pair' = {} \/ \E pc \in pc1', d \in Data : pair' = {pair_at(pc, d)}
    <3>1. CASE pair' = {} /\ pc1' = pc1
      BY <3>1 DEF TypeInv, TypeOK
    <3>2. CASE pair' = pair /\ pc1' = pc1
      BY <3>2 DEF TypeInv, TypeOK, Data
    <3>3. CASE \E pc \in lookup : \E e \in hit_line(pc) :
                 pair' = {pair_at(pc, e.data)} /\ pc1' = {pc}
      <4>4. PICK pc \in lookup : \E e \in hit_line(pc) :
                 pair' = {pair_at(pc, e.data)} /\ pc1' = {pc}
        BY <3>3
      <4>1. PICK e \in hit_line(pc) : pair' = {pair_at(pc, e.data)} /\ pc1' = {pc}
        BY <4>4
      <4>2. pc \in PC /\ index(line_base(pc)) \in Index
        BY <2>8, Addresses
      <4>3. e.data \in Data
        BY <2>9, <4>2 DEF hit_line, Entry
      <4> QED BY <4>1, <4>2, <4>3 DEF Optional
    <3>4. \/ pair' = {} /\ pc1' = pc1
          \/ pair' = pair /\ pc1' = pc1
          \/ \E pc \in lookup : \E e \in hit_line(pc) :
               pair' = {pair_at(pc, e.data)} /\ pc1' = {pc}
      BY <2>4, <2>8, PairStep
    <3> QED BY <3>1, <3>2, <3>3, <3>4
  <2>12. ASSUME NEW i \in Index
         PROVE  IsOptional(l0'[i], [addr : {l \in Line : index(l) = i},
                                    data : [line : Line, version : 0 .. MaxVersion]])
    <3>1. CASE (\E r \in refill : index(r.addr) = i) /\ l0'[i] = refill
      <4>1. PICK r \in refill : index(r.addr) = i
        BY <3>1
      <4>2. refill = {r} /\ r \in Entry
        BY <2>10
      <4> QED BY <3>1, <4>1, <4>2 DEF IsOptional, Entry, Data
    <3>2. CASE l0'[i] = l0[i]
      BY <3>2 DEF TypeInv, TypeOK
    <3>3. CASE l0'[i] = {}
      BY <3>3 DEF IsOptional
    <3> QED BY <2>4, <3>1, <3>2, <3>3, L0Step
  <2>13. ASSUME NEW i \in Index
         PROVE  IsOptional(dir'[i], [addr : {l \in Line : index(l) = i}, prefetched : BOOLEAN])
    <3>1. PICK is_prefetch \in BOOLEAN, hit \in Optional(PC) :
            DirClock(fence, refilled_lines, is_prefetch, hit)
      BY <2>4
    <3>2. CASE Invalidate
      BY <3>2 DEF Invalidate, IsOptional
    <3>3. CASE Track(refilled_lines, is_prefetch, hit) /\ \E a \in refilled_lines : index(a) = i
      <4>1. PICK r \in refill : index(r.addr) = i
        BY <3>3 DEF refilled_lines
      <4>2. refill = {r} /\ r.addr \in Line
        BY <2>10 DEF Entry
      <4>3. refilled_lines = {r.addr}
        BY <4>2 DEF refilled_lines
      <4>4. dir'[i] = {[addr |-> r.addr, prefetched |-> is_prefetch]}
        BY <3>3, <4>3 DEF Track
      <4> QED BY <4>1, <4>2, <4>4 DEF IsOptional
    <3>4. CASE Track(refilled_lines, is_prefetch, hit) /\ ~\E a \in refilled_lines : index(a) = i
      <4>1. dir'[i] = {IF \E pc \in hit : line_base(pc) = e.addr
                       THEN [e EXCEPT !.prefetched = FALSE] ELSE e : e \in dir[i]}
        BY <3>4 DEF Track
      <4>2. IsOptional(dir[i], [addr : {l \in Line : index(l) = i}, prefetched : BOOLEAN])
        BY DEF TypeInv, TypeOK
      <4>3. dir[i] = {} \/ \E e \in [addr : {l \in Line : index(l) = i}, prefetched : BOOLEAN] :
                             dir[i] = {e}
        BY <4>2 DEF IsOptional
      <4>4. ASSUME NEW e \in [addr : {l \in Line : index(l) = i}, prefetched : BOOLEAN],
                   dir[i] = {e}
            PROVE  IsOptional(dir'[i], [addr : {l \in Line : index(l) = i}, prefetched : BOOLEAN])
        <5>1. [e EXCEPT !.prefetched = FALSE]
                \in [addr : {l \in Line : index(l) = i}, prefetched : BOOLEAN]
          OBVIOUS
        <5>2. dir'[i] = {e} \/ dir'[i] = {[e EXCEPT !.prefetched = FALSE]}
          BY <4>1, <4>4
        <5> QED BY <5>1, <5>2 DEF IsOptional
      <4>5. CASE dir[i] = {}
        BY <4>1, <4>5 DEF IsOptional
      <4> QED BY <4>3, <4>4, <4>5
    <3> QED BY <3>1, <3>2, <3>3, <3>4 DEF DirClock
  <2>14. candidate' \in Optional(Line)
    <3>1. PICK t \in PC, hit \in Optional(PC), demanded \in {{}, refilled_lines},
               accepted \in BOOLEAN : CtrlClock(redirect, t, demanded, hit, accepted)
      BY <2>4
    <3>2. hit = {} \/ \E pc \in PC : hit = {pc}
      BY DEF Optional
    <3>3. demanded = {} \/ \E a \in Line : demanded = {a}
      BY <2>10 DEF refilled_lines, Entry
    <3>4. CASE Retarget(t)
      BY <3>4, Addresses DEF Retarget, Optional
    <3>5. CASE Train(demanded, hit, accepted)
      <4>1. candidate' \in {{}, candidate} \/ candidate' = {next_line(a) : a \in demanded}
            \/ candidate' = {next_line(line_base(pc)) : pc \in hit}
        BY <3>5 DEF Train
      <4>2. candidate \in Optional(Line)
        BY DEF TypeInv, TypeOK
      <4>3. \A a \in Line : next_line(a) \in Line
        BY Addresses
      <4>4. \A pc \in PC : line_base(pc) \in Line
        BY Addresses
      <4>5. {next_line(a) : a \in demanded} \in Optional(Line)
        BY <3>3, <4>3 DEF Optional
      <4>6. {next_line(line_base(pc)) : pc \in hit} \in Optional(Line)
        BY <3>2, <4>3, <4>4 DEF Optional
      <4>7. {} \in Optional(Line)
        BY DEF Optional
      <4> QED BY <4>1, <4>2, <4>5, <4>6, <4>7
    <3> QED BY <3>1, <3>4, <3>5 DEF CtrlClock
  <2>15. /\ state' \in {"IDLE", "REQ", "WAIT_RSP"} /\ line_addr' \in Line
         /\ IsOptional(refill', [addr : Line, data : [line : Line, version : 0 .. MaxVersion]])
    <3>1. PICK miss \in Optional(Line) :
             EngineClock(redirect, miss, granted, {p.data : p \in answered})
      BY <2>4
    <3>2. {p.data : p \in answered} \subseteq Data
      BY DEF Optional, TypeInv, MemoryTyped
    <3>3. line_addr \in Line
      BY DEF TypeInv, TypeOK
    <3>4. \A d \in Data : IsOptional({[addr |-> line_addr, data |-> d]},
                               [addr : Line, data : [line : Line, version : 0 .. MaxVersion]])
      BY <3>3 DEF IsOptional, Data
    <3>5. IsOptional({}, [addr : Line, data : [line : Line, version : 0 .. MaxVersion]])
      BY DEF IsOptional
    <3> DEFINE rdata == {p.data : p \in answered}
    <3>7. EngineClock(redirect, miss, granted, rdata)
      BY <3>1
    <3> HIDE DEF rdata
    <3>6. /\ state' \in {"IDLE", "REQ", "WAIT_RSP"}
          /\ line_addr' \in Line
          /\ \/ refill' = {}
             \/ \E d \in rdata : refill' = {[addr |-> line_addr, data |-> d]}
      BY <2>8, <3>3, <3>7, EngineStep
    <3> QED BY <3>2, <3>4, <3>5, <3>6 DEF rdata
  <2>16. active' \in Optional({"demand", "prefetch"})
    BY <2>4 DEF TypeInv, TypeOK, Optional
  <2>17. taken' \in 0 .. 2
    BY <2>4 DEF accounted
  <2>19. disturbed' \in BOOLEAN
    BY <2>18 DEF Parts, TypeInv, TypeOK, Overlaps
  <2> QED BY <2>5, <2>7, <2>11, <2>12, <2>13, <2>14, <2>15, <2>16, <2>17, <2>19
          DEF TypeInv, TypeOK, Data
<1> QED BY <1>1, <1>2

\* The registers and memory of the fetch stage keep their types, whatever redirects,
\* fences, clears and back-pressure a cycle brings (cv32e40p_sparv_if_stage.sv:262).
THEOREM TypeCorrect == Spec => []TypeOK
<1>1. TypeInv => TypeOK
  BY DEF TypeInv
<1> QED BY <1>1, InitTyped, TypeNext, PTL DEF Spec

----------------------------------------------------------------------------
\* The inputs of a step, for the invariants that follow.
LEMMA StepParts ==
  ASSUME TypeInv, Next
  PROVE  \E to \in Optional(PC), fence, clear, req, ready, consumed \in BOOLEAN :
           \E granted \in BOOLEAN, answered \in Optional(pending), store \in SUBSET Line :
             /\ Tick(to, fence, clear, req, ready, consumed, granted, answered, store)
             /\ Parts(to, fence, clear, req, ready, consumed, granted, answered)
<1> DEFINE Ticks(to, fence, clear, req, ready, consumed) ==
             \E granted \in BOOLEAN, answered \in Optional(pending), store \in SUBSET Line :
               /\ Tick(to, fence, clear, req, ready, consumed, granted, answered, store)
               /\ Parts(to, fence, clear, req, ready, consumed, granted, answered)
<1>1. PICK to \in Optional(PC), fence, clear, req, ready, consumed \in BOOLEAN :
        \E granted \in BOOLEAN, answered \in Optional(pending), store \in SUBSET Line :
          Tick(to, fence, clear, req, ready, consumed, granted, answered, store)
  BY Steps
<1>2. PICK granted \in BOOLEAN, answered \in Optional(pending), store \in SUBSET Line :
        Tick(to, fence, clear, req, ready, consumed, granted, answered, store)
  BY <1>1
<1>3. Parts(to, fence, clear, req, ready, consumed, granted, answered)
  BY <1>2, CycleParts, SMTT(30) DEF Tick
<1>4. Ticks(to, fence, clear, req, ready, consumed)
  BY <1>2, <1>3
<1> HIDE DEF Ticks
<1>5. \E t \in Optional(PC), f, c, r, rd, co \in BOOLEAN : Ticks(t, f, c, r, rd, co)
  BY <1>4, ZenonT(30)
<1> QED BY <1>5 DEF Ticks

\* Where the fetch counter goes.
LEMMA CounterStep ==
  ASSUME TypeInv, NEW to \in Optional(PC), NEW clear \in BOOLEAN, NEW req \in BOOLEAN,
         NEW ready \in BOOLEAN, NEW consumed \in BOOLEAN,
         pc_q' = IF to # {} THEN CHOOSE t \in to : TRUE ELSE lookup_pc(ready, consumed)
  PROVE  /\ Lookups(to, clear, req, ready, consumed) \subseteq PC
         /\ to = {} => \A pc \in Lookups(to, clear, req, ready, consumed) : pc = pc_q'
         /\ to # {} => Lookups(to, clear, req, ready, consumed) = {} /\ to = {pc_q'} /\ pc_q' \in PC
         /\ to = {} /\ (pair = {} \/ ~ready) => pc_q' = pc_q
<1>1. to = {} \/ \E t \in PC : to = {t}
  BY DEF Optional
<1> QED BY <1>1, LookupTyped DEF Lookups, lookup_pc

PairInv == TypeInv /\ PairAtCounter

LEMMA PairNext == PairInv /\ [Next]_vars => PairInv'
<1> SUFFICES ASSUME PairInv, [Next]_vars PROVE PairAtCounter'
  BY TypeNext DEF PairInv
<1>1. CASE UNCHANGED vars
  BY <1>1 DEF vars, frontVars, PairInv, PairAtCounter
<1>2. CASE Next
  <2>1. PICK to \in Optional(PC), fence, clear, req, ready, consumed \in BOOLEAN :
          \E granted \in BOOLEAN, answered \in Optional(pending) :
            Parts(to, fence, clear, req, ready, consumed, granted, answered)
    BY <1>2, StepParts, SMTT(30) DEF PairInv
  <2> DEFINE redirect == to # {} \/ clear
             lookup == Lookups(to, clear, req, ready, consumed)
  <2>2. PairClock(redirect, lookup, ready)
    BY <2>1 DEF Parts
  <2>3. /\ to = {} => \A pc \in lookup : pc = pc_q'
        /\ to # {} => lookup = {}
        /\ to = {} /\ (pair = {} \/ ~ready) => pc_q' = pc_q
    BY <2>1, CounterStep, ZenonT(30) DEF Parts, PairInv
  <2>4. redirect \in BOOLEAN /\ (to # {} => redirect)
    OBVIOUS
  <2> HIDE DEF redirect, lookup
  <2>5. \A pc, d : pair_at(pc, d).pc1 = pc
    BY DEF pair_at
  <2>6. \/ pair' = {}
        \/ ~redirect /\ (pair = {} \/ ~ready) /\ pair' = pair
        \/ \E pc \in lookup : \E d : pair' = {pair_at(pc, d)}
    <3>1. \/ pair' = {}
          \/ ~redirect /\ (pair = {} \/ ~ready) /\ pair' = pair
          \/ \E pc \in lookup : \E e \in hit_line(pc) : pair' = {pair_at(pc, e.data)}
      BY <2>2, <2>4, PairStep
    <3> QED BY <3>1
  <2> QED BY <2>3, <2>4, <2>5, <2>6 DEF PairAtCounter, PairInv
<1> QED BY <1>1, <1>2

\* The pair offered to decode is the one at the fetch counter, although the counter and
\* the pair register are written by different rules (cv32e40p_sparv_if_stage.sv:269).
THEOREM PairStaysAtCounter == Spec => []PairAtCounter
<1>1. Init => PairInv
  BY InitTyped DEF Init, FrontInit, PairInv, PairAtCounter
<1>2. PairInv => PairAtCounter
  BY DEF PairInv
<1> QED BY <1>1, <1>2, PairNext, PTL DEF Spec

----------------------------------------------------------------------------
DirInv == TypeInv /\ DirectorySound

LEMMA DirNext == DirInv /\ [Next]_vars => DirInv'
<1> SUFFICES ASSUME DirInv, [Next]_vars PROVE DirectorySound'
  BY TypeNext DEF DirInv
<1>1. CASE UNCHANGED vars
  BY <1>1 DEF vars, frontVars, DirInv, DirectorySound
<1>2. CASE Next
  <2>1. PICK fence \in BOOLEAN : \E is_prefetch \in BOOLEAN, hit \in Optional(PC) :
          L0Clock(fence, refill) /\ DirClock(fence, refilled_lines, is_prefetch, hit)
    BY <1>2, StepParts, SMTT(30) DEF DirInv, Parts
  <2>2. PICK is_prefetch \in BOOLEAN, hit \in Optional(PC) :
          L0Clock(fence, refill) /\ DirClock(fence, refilled_lines, is_prefetch, hit)
    BY <2>1
  <2> SUFFICES ASSUME NEW i \in Index, NEW f \in dir'[i]
               PROVE  \E e \in l0'[i] : e.addr = f.addr
    BY DEF DirectorySound
  <2>3. ~fence /\ Track(refilled_lines, is_prefetch, hit)
    BY <2>2 DEF DirClock, Invalidate
  <2>4. CASE \E r \in refill : index(r.addr) = i
    <3>1. l0'[i] = refill
      BY <2>2, <2>4 DEF L0Clock
    <3>2. dir'[i] = {[addr |-> a, prefetched |-> is_prefetch] : a \in refilled_lines}
      BY <2>3, <2>4 DEF Track, refilled_lines
    <3> QED BY <3>1, <3>2 DEF refilled_lines
  <2>5. CASE ~\E r \in refill : index(r.addr) = i
    <3>1. l0'[i] = l0[i]
      BY <2>2, <2>3, <2>5 DEF L0Clock
    <3>2. dir'[i] = {IF \E pc \in hit : line_base(pc) = e.addr
                     THEN [e EXCEPT !.prefetched = FALSE] ELSE e : e \in dir[i]}
      BY <2>3, <2>5 DEF Track, refilled_lines
    <3>3. PICK e \in dir[i] : f = e \/ f = [e EXCEPT !.prefetched = FALSE]
      BY <3>2
    <3>4. e \in [addr : {l \in Line : index(l) = i}, prefetched : BOOLEAN]
      BY DEF DirInv, TypeInv, TypeOK, IsOptional
    <3>5. f.addr = e.addr
      BY <3>3, <3>4
    <3> QED BY <3>1, <3>5 DEF DirInv, DirectorySound
  <2> QED BY <2>4, <2>5
<1> QED BY <1>1, <1>2

\* The shadow directory claims no line the L0 does not hold, for every L0 size: a
\* refill in the cycle of an invalidation enters the L0 and not the directory, never
\* the other way round (cv32e40p_sparv_prefetch_directory.sv:78).
THEOREM DirectoryIsSound == Spec => []DirectorySound
<1>1. Init => DirInv
  BY InitTyped DEF Init, FrontInit, DirInit, DirInv, DirectorySound
<1>2. DirInv => DirectorySound
  BY DEF DirInv
<1> QED BY <1>1, <1>2, DirNext, PTL DEF Spec

----------------------------------------------------------------------------
\* What the engine waits for is what it asked for.
LineInv ==
  /\ state = "WAIT_RSP" => \A p \in pending : p.data.line = line_addr
  /\ \A r \in refill : r.data.line = r.addr
  /\ \A i \in Index : \A e \in l0[i] : e.data.line = e.addr

EngineInv == TypeInv /\ (disturbed \/ LineInv)

\* The accesses in flight, as long as none is granted over another.
LEMMA PendingStep ==
  ASSUME NEW granted \in BOOLEAN, NEW answered \in Optional(pending),
         ~Overlaps(ReadLine(granted), answered), MemoryClock(ReadLine(granted), answered)
  PROVE  /\ granted => \A p \in pending' :
                p.data = [line |-> line_addr, version |-> version[line_addr]]
         /\ ~granted => \A p \in pending' : \E q \in pending : p.data = q.data
<1>1. CASE granted
  <2>1. pending \ answered = {}
    BY <1>1 DEF Overlaps, ReadLine
  <2>2. pending' = {[data |-> [line |-> line_addr, version |-> version[line_addr]], age |-> 1]}
    BY <1>1, <2>1 DEF MemoryClock, ReadLine
  <2> QED BY <2>2, <1>1
<1>2. CASE ~granted
  <2>1. pending' = {[data |-> p.data, age |-> p.age + 1] : p \in pending \ answered}
    BY <1>2 DEF MemoryClock, ReadLine
  <2> QED BY <2>1, <1>2
<1> QED BY <1>1, <1>2

\* The engine and the memory in a cycle.
LEMMA LineStep ==
  ASSUME TypeInv, LineInv, NEW flush \in BOOLEAN, NEW miss \in Optional(Line),
         NEW fence \in BOOLEAN, NEW granted \in BOOLEAN,
         NEW answered \in Optional(pending),
         L0Clock(fence, refill), EngineClock(flush, miss, granted, {p.data : p \in answered}),
         MemoryClock(ReadLine(granted), answered), ~Overlaps(ReadLine(granted), answered)
  PROVE  LineInv'
<1> DEFINE rdata == {p.data : p \in answered}
<1>1. answered \subseteq pending
  BY DEF Optional
<1>2. rdata \subseteq {p.data : p \in pending}
  BY <1>1
<1>3. EngineClock(flush, miss, granted, rdata)
  OBVIOUS
<1> HIDE DEF rdata
<1>4. /\ granted => \A p \in pending' :
             p.data = [line |-> line_addr, version |-> version[line_addr]]
      /\ ~granted => \A p \in pending' : \E q \in pending : p.data = q.data
  BY PendingStep
<1>5. ASSUME NEW i \in Index, NEW e \in l0'[i] PROVE e.data.line = e.addr
  BY <1>5, L0Step DEF LineInv
<1>6. \/ refill' = {} /\ state' = "IDLE" /\ line_addr' = line_addr
      \/ refill' = {} /\ ~flush /\ state = "IDLE" /\ state' = "REQ" /\ line_addr' \in Line
      \/ refill' = {} /\ state = "REQ" /\ state' = "WAIT_RSP" /\ line_addr' = line_addr
                      /\ granted /\ ~flush
      \/ refill' = {} /\ state = "REQ" /\ state' = "REQ" /\ line_addr' = line_addr
                      /\ ~granted /\ ~flush
      \/ refill' = {} /\ state = "WAIT_RSP" /\ state' = "WAIT_RSP" /\ line_addr' = line_addr
                      /\ rdata = {} /\ ~flush
      \/ /\ state = "WAIT_RSP" /\ state' = "IDLE" /\ line_addr' = line_addr /\ ~flush
         /\ \E d \in rdata : refill' = {[addr |-> line_addr, data |-> d]}
  BY <1>3, EngineStep
<1>7. state' = "WAIT_RSP" => \A p \in pending' : p.data.line = line_addr'
  BY <1>4, <1>6 DEF LineInv
<1>8. \A r \in refill' : r.data.line = r.addr
  BY <1>2, <1>6 DEF LineInv
<1> QED BY <1>5, <1>7, <1>8 DEF LineInv

LEMMA EngineNext == EngineInv /\ [Next]_vars => EngineInv'
<1> SUFFICES ASSUME EngineInv, [Next]_vars, ~disturbed' PROVE LineInv'
  BY TypeNext DEF EngineInv, TypeInv, TypeOK
<1>1. CASE UNCHANGED vars
  BY <1>1 DEF vars, frontVars, engineVars, ghostVars, EngineInv, LineInv
<1>2. CASE Next
  <2>1. PICK to \in Optional(PC), fence, clear, req, ready, consumed \in BOOLEAN :
          \E granted \in BOOLEAN, answered \in Optional(pending), store \in SUBSET Line :
            /\ Tick(to, fence, clear, req, ready, consumed, granted, answered, store)
            /\ Parts(to, fence, clear, req, ready, consumed, granted, answered)
    BY <1>2, StepParts, SMTT(30) DEF EngineInv
  <2>2. PICK granted \in BOOLEAN, answered \in Optional(pending), store \in SUBSET Line :
            /\ Tick(to, fence, clear, req, ready, consumed, granted, answered, store)
            /\ Parts(to, fence, clear, req, ready, consumed, granted, answered)
    BY <2>1
  <2> DEFINE flush == to # {} \/ clear
  <2>3. flush \in BOOLEAN
    OBVIOUS
  <2>4. PICK miss \in Optional(Line) :
          EngineClock(flush, miss, granted, {p.data : p \in answered})
    BY <2>2 DEF Parts
  <2>5. /\ L0Clock(fence, refill) /\ MemoryClock(ReadLine(granted), answered)
        /\ ~disturbed /\ ~Overlaps(ReadLine(granted), answered)
    BY <2>2 DEF Parts
  <2>6. TypeInv /\ LineInv
    BY <2>5 DEF EngineInv
  <2> HIDE DEF flush
  <2> QED BY <2>3, <2>4, <2>5, <2>6, LineStep
<1> QED BY <1>1, <1>2

----------------------------------------------------------------------------
\* The native engine as a line fetch: what it delivers is told by the line it was read from.
LineRead(l) == l
Engine == INSTANCE LineFetch
  WITH Content <- LineRead,
       wanted <- IF busy_o THEN {line_addr} ELSE {},
       delivered <- {[addr |-> r.addr, data |-> r.data.line] : r \in refill}

LEMMA EngineRefines ==
  ASSUME EngineInv, disturbed' \/ LineInv', disturbed => disturbed',
         NEW flush \in BOOLEAN, NEW miss \in Optional(Line),
         NEW granted \in BOOLEAN, NEW rdata, EngineClock(flush, miss, granted, rdata),
         state = "IDLE" => disturbed' = disturbed
  PROVE  Engine!FetchNext
<1> DEFINE want == IF busy_o THEN {line_addr} ELSE {}
           got  == {[addr |-> r.addr, data |-> r.data.line] : r \in refill}
<1>1. line_addr \in Line
  BY DEF EngineInv, TypeInv, TypeOK
<1>2. ASSUME refill' = {} PROVE got' = {}
  BY <1>2
<1>3. ASSUME refill' = {}, state' = "IDLE" PROVE Engine!Drop
  BY <1>2, <1>3 DEF Engine!Drop, Engine!MayDisturb, busy_o
<1>4. ASSUME refill' = {}, state = "IDLE", state' = "REQ", line_addr' \in Line
      PROVE  \E a \in Line : Engine!Request(a)
  BY <1>2, <1>4 DEF Engine!Request, busy_o
<1>5. ASSUME refill' = {}, state # "IDLE", state' # "IDLE", line_addr' = line_addr
      PROVE  Engine!Wait
  BY <1>2, <1>5 DEF Engine!Wait, Engine!MayDisturb, busy_o
<1>6. ASSUME state = "WAIT_RSP", state' = "IDLE", line_addr' = line_addr,
             NEW d \in rdata, refill' = {[addr |-> line_addr, data |-> d]}
      PROVE  \E a \in Line : Engine!Deliver(a)
  <2>1. disturbed' \/ d.line = LineRead(line_addr)
    BY <1>6 DEF LineInv, LineRead
  <2>2. got' = {[addr |-> line_addr, data |-> d.line]}
    BY <1>6
  <2>3. want = {line_addr} /\ want' = {}
    BY <1>6 DEF busy_o
  <2> DEFINE r == [addr |-> line_addr, data |-> d.line]
  <2>4. got' = {r} /\ r.addr = line_addr /\ (disturbed' \/ r.data = LineRead(line_addr))
    BY <2>1, <2>2
  <2> HIDE DEF r
  <2> QED BY <1>1, <2>3, <2>4 DEF Engine!Deliver, Engine!MayDisturb
<1>7. \/ refill' = {} /\ state' = "IDLE"
      \/ refill' = {} /\ state = "IDLE" /\ state' = "REQ" /\ line_addr' \in Line
      \/ refill' = {} /\ state # "IDLE" /\ state' # "IDLE" /\ line_addr' = line_addr
      \/ /\ state = "WAIT_RSP" /\ state' = "IDLE" /\ line_addr' = line_addr
         /\ \E d \in rdata : refill' = {[addr |-> line_addr, data |-> d]}
  <2> HIDE DEF want, got
  <2> QED BY EngineStep
<1>8. CASE refill' = {} /\ state' = "IDLE"
  BY <1>3, <1>8 DEF Engine!FetchNext
<1>9. CASE refill' = {} /\ state = "IDLE" /\ state' = "REQ" /\ line_addr' \in Line
  BY <1>4, <1>9 DEF Engine!FetchNext
<1>10. CASE refill' = {} /\ state # "IDLE" /\ state' # "IDLE" /\ line_addr' = line_addr
  BY <1>5, <1>10 DEF Engine!FetchNext
<1>11. CASE /\ state = "WAIT_RSP" /\ state' = "IDLE" /\ line_addr' = line_addr
            /\ \E d \in rdata : refill' = {[addr |-> line_addr, data |-> d]}
  <2>1. PICK d \in rdata : refill' = {[addr |-> line_addr, data |-> d]}
    BY <1>11
  <2>2. \E a \in Line : Engine!Deliver(a)
    BY <1>6, <1>11, <2>1
  <2> QED BY <2>2 DEF Engine!FetchNext
<1> QED BY <1>7, <1>8, <1>9, <1>10, <1>11

\* The native engine keeps the promise of the four-beat one: asked for a line, it delivers
\* what was read from that very line, once, or drops the request, though a redirect leaves
\* its access in flight, until an access is granted over an unanswered one
\* (cv32e40p_hamsa_refill_native128.sv:65).
THEOREM NativeFetches == Spec => Engine!FetchSpec
<1>1. Init => EngineInv /\ Engine!FetchInit
  BY InitTyped DEF Init, FrontInit, MemoryInit, EngineInit, EngineInv, LineInv, Engine!FetchInit, busy_o
<1>2. EngineInv /\ [Next]_vars => EngineInv'
  BY EngineNext
<1>3. EngineInv /\ EngineInv' /\ [Next]_vars => [Engine!FetchNext]_(Engine!fetchVars)
  <2>1. ASSUME EngineInv, EngineInv', Next PROVE Engine!FetchNext
    <3>1. PICK to \in Optional(PC), fence, clear, req, ready, consumed \in BOOLEAN :
            \E granted \in BOOLEAN, answered \in Optional(pending), store \in SUBSET Line :
              /\ Tick(to, fence, clear, req, ready, consumed, granted, answered, store)
              /\ Parts(to, fence, clear, req, ready, consumed, granted, answered)
      BY <2>1, StepParts, SMTT(30) DEF EngineInv
    <3>2. PICK granted \in BOOLEAN, answered \in Optional(pending), store \in SUBSET Line :
              /\ Tick(to, fence, clear, req, ready, consumed, granted, answered, store)
              /\ Parts(to, fence, clear, req, ready, consumed, granted, answered)
      BY <3>1
    <3> DEFINE flush == to # {} \/ clear
    <3>3. flush \in BOOLEAN
      OBVIOUS
    <3>4. PICK miss \in Optional(Line) :
            EngineClock(flush, miss, granted, {p.data : p \in answered})
      BY <3>2 DEF Parts
    <3>5. (disturbed' \/ LineInv') /\ (disturbed => disturbed')
          /\ (state = "IDLE" => disturbed' = disturbed)
      <4>1. disturbed' = (disturbed \/ Overlaps(ReadLine(granted), answered))
        BY <3>2 DEF Parts
      <4>2. disturbed' \/ LineInv'
        BY <2>1 DEF EngineInv
      <4>3. state = "IDLE" => ReadLine(granted) = {}
        BY <3>2 DEF Tick, ReadLine
      <4>4. state = "IDLE" => ~Overlaps(ReadLine(granted), answered)
        BY <4>3 DEF Overlaps
      <4>5. disturbed \in BOOLEAN
        BY <2>1 DEF EngineInv, TypeInv, TypeOK
      <4> QED BY <4>1, <4>2, <4>4, <4>5
    <3> HIDE DEF flush
    <3> QED BY <2>1, <3>3, <3>4, <3>5, EngineRefines
  <2>2. ASSUME UNCHANGED vars PROVE UNCHANGED Engine!fetchVars
    BY <2>2 DEF vars, engineVars, ghostVars, Engine!fetchVars, busy_o
  <2> QED BY <2>1, <2>2
<1> QED BY <1>1, <1>2, <1>3, PTL DEF Spec, Engine!FetchSpec

----------------------------------------------------------------------------
\* What was read after every store the last FENCE.I has to make visible.
fresh(data) == data.version >= fenced[data.line]

FreshInv ==
  /\ \A l \in Line : fenced[l] <= version[l]
  /\ state = "WAIT_RSP" => \A p \in pending : fresh(p.data)
  /\ \A r \in refill : fresh(r.data)
  /\ \A i \in Index : \A e \in l0[i] : fresh(e.data) \/ e \in spared

FenceInv == EngineInv /\ (disturbed \/ FreshInv)

LEMMA FreshStep ==
  ASSUME EngineInv, FreshInv,
         NEW flush \in BOOLEAN, NEW miss \in Optional(Line),
         NEW fence \in BOOLEAN, NEW granted \in BOOLEAN,
         NEW answered \in Optional(pending), NEW store \in SUBSET Line,
         fence => flush,
         Stores(store, fence),
         L0Clock(fence, refill), EngineClock(flush, miss, granted, {p.data : p \in answered}),
         MemoryClock(ReadLine(granted), answered), ~Overlaps(ReadLine(granted), answered)
  PROVE  FreshInv'
<1> DEFINE rdata == {p.data : p \in answered}
<1>1. rdata \subseteq {p.data : p \in pending}
  BY DEF Optional
<1>2. EngineClock(flush, miss, granted, rdata)
  OBVIOUS
<1> HIDE DEF rdata
<1>3. \A l \in Line : /\ version[l] \in Nat /\ fenced[l] \in Nat
                      /\ version'[l] \in Nat /\ version[l] <= version'[l]
                      /\ fenced[l] <= version[l]
  BY FetchAssumption DEF EngineInv, TypeInv, MemoryTyped, Stores, FreshInv
<1>4. /\ fenced' = IF fence THEN version ELSE fenced
      /\ spared' = IF fence THEN {r \in refill : r.data.version < version[r.data.line]}
                  ELSE spared
  BY DEF Stores
<1>5. \A l \in Line : fenced'[l] <= version'[l]
  BY <1>3, <1>4
<1>6. \A r \in refill : r.data.line \in Line /\ r.data.version \in Nat
  BY FetchAssumption DEF EngineInv, TypeInv, TypeOK, IsOptional
<1>7. \A i \in Index : \A e \in l0'[i] :
        \/ e \in refill
        \/ ~fence /\ e \in l0[i]
  BY L0Step
<1>8. \A i \in Index : \A e \in l0'[i] : e.data.version >= fenced'[e.data.line] \/ e \in spared'
  <2>1. ASSUME NEW e \in refill
        PROVE  e.data.version >= fenced'[e.data.line] \/ e \in spared'
    <3>1. CASE fence
      BY <1>3, <1>4, <1>6, <2>1, <3>1
    <3>2. CASE ~fence
      BY <1>4, <2>1, <3>2 DEF FreshInv, fresh
    <3> QED BY <3>1, <3>2
  <2>2. ASSUME NEW i \in Index, NEW e \in l0[i], ~fence
        PROVE  e.data.version >= fenced'[e.data.line] \/ e \in spared'
    BY <1>4, <2>2 DEF FreshInv, fresh
  <2> QED BY <1>7, <2>1, <2>2
<1>9. \/ refill' = {} /\ state' \in {"IDLE", "REQ"}
      \/ refill' = {} /\ state' = "WAIT_RSP" /\ state = "REQ" /\ granted /\ ~flush
      \/ refill' = {} /\ state' = "WAIT_RSP" /\ state = "WAIT_RSP" /\ ~flush
      \/ state = "WAIT_RSP" /\ state' = "IDLE" /\ ~flush
         /\ \E d \in rdata : refill' = {[addr |-> line_addr, data |-> d]}
  BY <1>2, EngineStep
<1>10. /\ granted => \A p \in pending' :
              p.data = [line |-> line_addr, version |-> version[line_addr]]
       /\ ~granted => \A p \in pending' : \E q \in pending : p.data = q.data
  BY PendingStep
<1>11. line_addr \in Line
  BY DEF EngineInv, TypeInv, TypeOK
<1>12. state' = "WAIT_RSP" => \A p \in pending' : ~fence /\ fresh(p.data)
  BY <1>3, <1>9, <1>10, <1>11 DEF FreshInv, fresh
<1>13. \A r \in refill' : ~fence /\ fresh(r.data)
  BY <1>1, <1>9 DEF FreshInv
<1>14. ~fence => fenced' = fenced
  BY <1>4
<1> QED BY <1>5, <1>8, <1>12, <1>13, <1>14 DEF FreshInv, fresh

LEMMA FenceNext == FenceInv /\ [Next]_vars => FenceInv'
<1> SUFFICES ASSUME FenceInv, [Next]_vars, ~disturbed' PROVE FreshInv'
  BY EngineNext DEF FenceInv, EngineInv, TypeInv, TypeOK
<1>1. CASE UNCHANGED vars
  BY <1>1 DEF vars, frontVars, engineVars, ghostVars, FenceInv, FreshInv, fresh
<1>2. CASE Next
  <2>1. PICK to \in Optional(PC), fence, clear, req, ready, consumed \in BOOLEAN :
          \E granted \in BOOLEAN, answered \in Optional(pending), store \in SUBSET Line :
            /\ Tick(to, fence, clear, req, ready, consumed, granted, answered, store)
            /\ Parts(to, fence, clear, req, ready, consumed, granted, answered)
    BY <1>2, StepParts, SMTT(30) DEF FenceInv, EngineInv
  <2>2. PICK granted \in BOOLEAN, answered \in Optional(pending), store \in SUBSET Line :
            /\ Tick(to, fence, clear, req, ready, consumed, granted, answered, store)
            /\ Parts(to, fence, clear, req, ready, consumed, granted, answered)
    BY <2>1
  <2> DEFINE flush == to # {} \/ clear
  <2>3. flush \in BOOLEAN /\ (to # {} => flush)
    OBVIOUS
  <2>4. PICK miss \in Optional(Line) :
          EngineClock(flush, miss, granted, {p.data : p \in answered})
    BY <2>2 DEF Parts
  <2>5. /\ L0Clock(fence, refill) /\ MemoryClock(ReadLine(granted), answered)
        /\ ~disturbed /\ ~Overlaps(ReadLine(granted), answered)
        /\ Stores(store, fence)
        /\ fence => to # {}
    BY <2>2 DEF Parts, Tick
  <2>6. EngineInv /\ FreshInv
    BY <2>5 DEF FenceInv
  <2> HIDE DEF flush
  <2> QED BY <2>3, <2>4, <2>5, <2>6, FreshStep
<1> QED BY <1>1, <1>2

LEMMA FenceInit == Init => FenceInv
<1> SUFFICES ASSUME Init PROVE FenceInv
  OBVIOUS
<1>1. EngineInv
  BY InitTyped DEF Init, FrontInit, EngineInit, MemoryInit, EngineInv, LineInv
<1>2. \A l \in Line : version[l] = 0 /\ fenced[l] = 0
  BY DEF Init
<1> QED BY <1>1, <1>2 DEF Init, FrontInit, EngineInit, MemoryInit, FenceInv, FreshInv

\* Of what was read before a store it has to make visible, a FENCE.I leaves in the L0 at
\* most the line whose refill pulse falls into its cycle, for every latency of the
\* memory and until an access is granted over an unanswered one
\* (cv32e40p_sparv_if_stage.sv:150, cv32e40p_hamsa_frontend.sv:142).
THEOREM FenceSparesOne == Spec => []FenceSpares
<1>1. FenceInv => FenceSpares
  BY DEF FenceInv, FreshInv, FenceSpares, fresh
<1>2. FenceInv /\ [Next]_vars => FenceInv'
  BY FenceNext
<1> QED BY <1>1, <1>2, FenceInit, PTL DEF Spec

----------------------------------------------------------------------------
\* The pair is cut, whole, from the line its counter lies in.
PairCut ==
  \A p \in pair : /\ p.src.line = line_base(p.pc1)
                  /\ dual_decode(p.src, halfword_index(p.pc1)).valid1

StreamInv == TypeInv /\ LineInv /\ PairAtCounter /\ PairCut

\* As long as the memory has not been disturbed.
LEMMA StreamInvNext == StreamInv /\ ~disturbed /\ [Next]_vars /\ ~disturbed' => StreamInv'
<1> SUFFICES ASSUME StreamInv, ~disturbed, [Next]_vars, ~disturbed' PROVE PairCut'
  BY EngineNext, PairNext DEF StreamInv, PairInv, EngineInv
<1>1. CASE UNCHANGED vars
  BY <1>1 DEF vars, frontVars, StreamInv, PairCut
<1>2. CASE Next
  <2>1. PICK to \in Optional(PC), fence, clear, req, ready, consumed \in BOOLEAN :
          \E granted \in BOOLEAN, answered \in Optional(pending) :
            Parts(to, fence, clear, req, ready, consumed, granted, answered)
    BY <1>2, StepParts, SMTT(30) DEF StreamInv
  <2> DEFINE redirect == to # {} \/ clear
             lookup == Lookups(to, clear, req, ready, consumed)
  <2>2. PairClock(redirect, lookup, ready)
    BY <2>1 DEF Parts
  <2>3. lookup \subseteq PC
    BY <2>1, CounterStep, ZenonT(30) DEF Parts, StreamInv
  <2>4. redirect \in BOOLEAN
    OBVIOUS
  <2> HIDE DEF redirect, lookup
  <2>5. \A pc, d : pair_at(pc, d).pc1 = pc /\ pair_at(pc, d).src = d
    BY DEF pair_at
  <2>6. ASSUME NEW pc \in lookup, NEW e \in hit_line(pc),
               dual_decode(e.data, halfword_index(pc)).valid1, pair' = {pair_at(pc, e.data)}
        PROVE  PairCut'
    <3>1. e.data.line = line_base(pc)
      <4>1. index(line_base(pc)) \in Index
        BY <2>3, Addresses
      <4> QED BY <4>1 DEF hit_line, StreamInv, LineInv
    <3> QED BY <2>5, <2>6, <3>1 DEF PairCut
  <2>7. \/ pair' = {}
        \/ pair' = pair
        \/ \E pc \in lookup : \E e \in hit_line(pc) :
             /\ dual_decode(e.data, halfword_index(pc)).valid1
             /\ pair' = {pair_at(pc, e.data)}
    BY <2>2, <2>4, PairStep
  <2>8. pair' \in {{}, pair} => PairCut'
    BY DEF StreamInv, PairCut
  <2> QED BY <2>6, <2>7, <2>8
<1> QED BY <1>1, <1>2

\* The halfwords of a line, seen from a counter in it.
LEMMA Within ==
  ASSUME NEW pc \in PC, NEW d \in Data, d.line = line_base(pc), NEW n \in Nat,
         halfword_index(pc) + n < HALFWORDS
  PROVE  /\ content(d, halfword_index(pc) + n) = pc + n
         /\ pc_plus(pc, n) = pc + n /\ pc + n \in PC
         /\ halfword_index(pc_plus(pc, n)) = halfword_index(pc) + n
<1>1. /\ NLINES \in Nat \ {0} /\ HALFWORDS \in Nat \ {0}
      /\ NLINES * HALFWORDS \in Nat \ {0}
  BY GeometryAssumption, Addresses
<1> DEFINE l == line_base(pc)
           h == halfword_index(pc)
<1>2. pc = l * HALFWORDS + h /\ l \in 0 .. NLINES - 1 /\ h \in 0 .. HALFWORDS - 1 /\ pc \in Nat
  <2>1. l \in Line /\ h \in 0 .. HALFWORDS - 1
    BY Addresses
  <2>2. pc \in Nat
    BY <1>1 DEF PC
  <2>3. pc = l * HALFWORDS + h
    BY <2>2, <1>1, DivMod DEF line_base, halfword_index
  <2> QED BY <2>1, <2>2, <2>3 DEF Line
<1>3. content(d, h + n) = l * HALFWORDS + (h + n)
  BY DEF content
<1> HIDE DEF l, h
<1>4. h + n \in 0 .. HALFWORDS - 1
  BY <1>1, <1>2 DEF h
<1>5. (l * HALFWORDS + (h + n)) % HALFWORDS = h + n
  BY <1>1, <1>2, <1>4, Remainder
<1>6. l * HALFWORDS \in Nat /\ l * HALFWORDS + HALFWORDS <= NLINES * HALFWORDS
  BY <1>1, <1>2, LastLine
<1>7. pc + n = l * HALFWORDS + (h + n) /\ pc + n < NLINES * HALFWORDS /\ pc + n \in Nat
  BY <1>1, <1>2, <1>4, <1>6
<1>8. pc_plus(pc, n) = pc + n
  BY <1>1, <1>7, ModSmall DEF pc_plus
<1> QED BY <1>1, <1>3, <1>5, <1>7, <1>8 DEF PC, halfword_index, h

\* What decode is offered, as the stream sees it.
offered == {[first |-> content(p.src, halfword_index(p.pc1)),
             second |-> IF p.inst2_valid
                        THEN {content(p.src, halfword_index(p.pc2))} ELSE {}] : p \in pair}

\* The stream counts as the fetch stage does.
LEMMA StreamCounts ==
  /\ \A pc : Stream!Succ(pc) = pc_plus(pc, halfwords(pc))
  /\ \A pc : Stream!Windows(pc) = {[first |-> pc, second |-> x] : x \in Optional({Stream!Succ(pc)})}
  /\ \A S : Stream!Optional(S) = Optional(S)
  /\ Stream!PC = PC
BY DEF Stream!Succ, Stream!pc_plus, Stream!halfwords, pc_plus, halfwords, Stream!Windows,
       Stream!Optional, Optional, Stream!PC, PC

\* What the pair at the counter shows of the program.
LEMMA PairShows ==
  ASSUME StreamInv, NEW p \in pair
  PROVE  /\ pair = {p} /\ p.pc1 = pc_q /\ pc_q \in PC
         /\ p.inst2_valid \in BOOLEAN
         /\ content(p.src, halfword_index(p.pc1)) = pc_q
         /\ p.pc2 = Stream!Succ(pc_q)
         /\ p.inst2_valid => content(p.src, halfword_index(p.pc2)) = p.pc2
         /\ p.next_pc = IF p.inst2_valid /\ p.pc2 \notin IllegalC
                        THEN Stream!Succ(Stream!Succ(pc_q)) ELSE Stream!Succ(pc_q)
<1>1. PICK pc \in PC, d \in Data : pair = {pair_at(pc, d)}
  BY PairShape DEF StreamInv
<1>2. p = pair_at(pc, d) /\ pair = {p}
  BY <1>1
<1>3. p.pc1 = pc /\ p.src = d /\ p.inst2_valid \in BOOLEAN
      /\ p.pc2 = pc_plus(pc, halfwords(content(d, halfword_index(pc))))
  BY <1>2, PairHolds
<1>4. pc = pc_q /\ d.line = line_base(pc) /\ dual_decode(d, halfword_index(pc)).valid1
  BY <1>2, <1>3 DEF StreamInv, PairAtCounter, PairCut
<1> DEFINE h == halfword_index(pc)
           len1 == halfwords(pc)
           len2 == halfwords(Stream!Succ(pc))
<1>5. h \in 0 .. HALFWORDS - 1 /\ HALFWORDS \in Nat \ {0} /\ pc \in Nat
  <2>1. HALFWORDS \in Nat \ {0} /\ NLINES * HALFWORDS \in Nat
    BY Addresses, GeometryAssumption
  <2> QED BY <2>1, Addresses DEF PC
<1>6. content(d, h) = pc
  <2>1. h + 0 = h /\ h + 0 < HALFWORDS /\ pc + 0 = pc
    BY <1>5
  <2> HIDE DEF h
  <2>2. content(d, h + 0) = pc + 0
    BY <2>1, <1>4, Within DEF h
  <2> QED BY <2>1, <2>2
<1>7. p.pc2 = Stream!Succ(pc)
  BY <1>3, <1>6, StreamCounts
<1>8. len1 \in 1 .. 2 /\ len2 \in 1 .. 2
  BY DEF halfwords
<1>9. dual_decode(d, h).len1 = len1
  BY <1>6 DEF dual_decode
<1>10. ASSUME h + len1 < HALFWORDS
       PROVE  /\ content(d, h + len1) = Stream!Succ(pc)
              /\ Stream!Succ(pc) = pc + len1
              /\ halfword_index(Stream!Succ(pc)) = h + len1
  BY <1>4, <1>8, <1>10, Within, StreamCounts
<1>11. dual_decode(d, h).valid2 => h + len1 < HALFWORDS
  BY <1>6 DEF dual_decode
<1>12. p.inst2_valid => dual_decode(d, h).valid2
  BY <1>2 DEF pair_at
<1>13. p.inst2_valid => content(p.src, halfword_index(p.pc2)) = p.pc2
  BY <1>3, <1>7, <1>10, <1>11, <1>12
<1>14. ASSUME p.inst2_valid
       PROVE  /\ dual_decode(d, h).illegal2 = (p.pc2 \in IllegalC)
              /\ dual_decode(d, h).len2 = len2
  <2>1. content(d, h + len1) = Stream!Succ(pc)
    BY <1>10, <1>11, <1>12, <1>14
  <2> QED BY <2>1, <1>6, <1>7 DEF dual_decode
<1>15. pc_plus(pc, len1) = Stream!Succ(pc)
  BY StreamCounts
<1>16. h + len1 < HALFWORDS => pc_plus(pc, len1 + len2) = Stream!Succ(Stream!Succ(pc))
  <2>1. pc + (len1 + len2) = (pc + len1) + len2
    BY <1>5, <1>8
  <2>2. h + len1 < HALFWORDS => pc_plus(pc, len1 + len2) = pc_plus(Stream!Succ(pc), len2)
    BY <2>1, <1>10 DEF pc_plus
  <2> QED BY <2>2, StreamCounts
<1>17. p.next_pc = IF p.inst2_valid /\ ~dual_decode(d, h).illegal2
                   THEN pc_plus(pc, len1 + dual_decode(d, h).len2) ELSE pc_plus(pc, len1)
  BY <1>2, <1>9 DEF pair_at
<1>18. p.next_pc = IF p.inst2_valid /\ p.pc2 \notin IllegalC
                   THEN Stream!Succ(Stream!Succ(pc)) ELSE Stream!Succ(pc)
  BY <1>11, <1>12, <1>14, <1>15, <1>16, <1>17
<1> QED BY <1>2, <1>3, <1>4, <1>6, <1>7, <1>13, <1>18

\* The window is empty or shows the program at the counter.
LEMMA WindowShows == StreamInv => offered \in Optional(Stream!Windows(pc_q))
<1> SUFFICES ASSUME StreamInv PROVE offered \in Optional(Stream!Windows(pc_q))
  OBVIOUS
<1>1. CASE pair = {}
  BY <1>1 DEF offered, Optional
<1>2. CASE pair # {}
  <2>1. PICK p \in pair : TRUE
    BY <1>2
  <2>2. offered = {[first |-> pc_q,
                    second |-> IF p.inst2_valid THEN {Stream!Succ(pc_q)} ELSE {}]}
    BY <2>1, PairShows DEF offered
  <2>3. (IF p.inst2_valid THEN {Stream!Succ(pc_q)} ELSE {}) \in Optional({Stream!Succ(pc_q)})
    BY DEF Optional
  <2> HIDE DEF offered
  <2>4. [first |-> pc_q, second |-> IF p.inst2_valid THEN {Stream!Succ(pc_q)} ELSE {}]
          \in Stream!Windows(pc_q)
    BY <2>3, StreamCounts
  <2> QED BY <2>2, <2>4 DEF Optional
<1> QED BY <1>1, <1>2

\* What decode takes of the pair, and where the counter goes with it.
LEMMA Taking ==
  ASSUME StreamInv, NEW p \in pair, NEW consumed \in BOOLEAN
  PROVE  \/ /\ accounted(consumed) = 1
            /\ lookup_pc(TRUE, consumed) = Stream!Succ(pc_q)
         \/ /\ accounted(consumed) = 2 /\ p.inst2_valid
            /\ lookup_pc(TRUE, consumed) = Stream!Succ(Stream!Succ(pc_q))
<1>1. pair = {p} /\ (CHOOSE x \in pair : TRUE) = p
  BY PairShows
<1>2. lookup_pc(TRUE, consumed) = IF p.inst2_valid /\ ~consumed THEN p.pc2 ELSE p.next_pc
  BY <1>1 DEF lookup_pc
<1>3. accounted(consumed) = IF p.inst2_valid /\ consumed /\ p.pc2 \notin IllegalC THEN 2 ELSE 1
  BY <1>1, PairShows DEF accounted
<1> QED BY <1>2, <1>3, PairShows

LEMMA WindowShowsNext == StreamInv' => (offered \in Optional(Stream!Windows(pc_q)))'
BY WindowShows, PTL

\* Every cycle is a step of the stream.
LEMMA CycleRefines ==
  (disturbed \/ StreamInv) /\ (disturbed => disturbed') /\ [Next]_vars
    => [Stream!StreamNext]_(Stream!streamVars)
<1> SUFFICES ASSUME StreamInv, ~disturbed, [Next]_vars, ~disturbed'
             PROVE  [Stream!StreamNext]_(Stream!streamVars)
  BY DEF Stream!StreamNext
<1>1. CASE UNCHANGED vars
  BY <1>1 DEF vars, frontVars, ghostVars, Stream!streamVars
<1>2. CASE Next
  <2>1. PICK to \in Optional(PC), fence, clear, req, ready, consumed \in BOOLEAN :
          \E granted \in BOOLEAN, answered \in Optional(pending) :
            Parts(to, fence, clear, req, ready, consumed, granted, answered)
    BY <1>2, StepParts, SMTT(30) DEF StreamInv
  <2> DEFINE redirect == to # {} \/ clear
             lookup == Lookups(to, clear, req, ready, consumed)
  <2>2. /\ PairClock(redirect, lookup, ready)
        /\ taken' = IF to = {} /\ ready THEN accounted(consumed) ELSE 0
        /\ pc_q' = IF to # {} THEN CHOOSE t \in to : TRUE ELSE lookup_pc(ready, consumed)
    BY <2>1 DEF Parts
  <2>3. /\ to # {} => lookup = {} /\ pc_q' \in PC
        /\ to = {} /\ (pair = {} \/ ~ready) => pc_q' = pc_q
    BY <2>2, CounterStep, ZenonT(30) DEF StreamInv
  <2>4. redirect \in BOOLEAN /\ (to # {} => redirect)
    OBVIOUS
  <2> HIDE DEF redirect, lookup
  <2>5. \/ pair' = {}
        \/ ~redirect /\ pair' = pair
        \/ ~redirect /\ lookup_ready(ready) /\ lookup # {}
    BY <2>2, <2>4, PairStep
  <2>6. offered' \in Optional(Stream!Windows(pc_q'))
    BY StreamInvNext, WindowShowsNext
  <2>7. (pair' = {} => offered' = {}) /\ (pair' = pair => offered' = offered)
        /\ (pair = {} => offered = {})
    BY DEF offered
  <2>8. CASE to # {}
    <3>1. pair' = {} /\ taken' = 0
      BY <2>2, <2>3, <2>4, <2>5, <2>8
    <3>2. PICK t \in PC : to = {t} /\ pc_q' = t
      BY <2>2, <2>8 DEF Optional
    <3>3. Stream!Redirect(t)
      BY <3>1, <3>2 DEF Stream!Redirect
    <3>4. t \in Stream!PC
      BY StreamCounts
    <3> QED BY <3>3, <3>4 DEF Stream!StreamNext
  <2>9. CASE to = {} /\ (pair = {} \/ ~ready)
    <3>1. taken' = 0 /\ pc_q' = pc_q
      BY <2>2, <2>3, <2>9 DEF accounted
    <3>2. offered' \in {offered, {}} \/ (offered = {} /\ offered' \in Optional(Stream!Windows(pc_q)))
      BY <2>5, <2>6, <2>7, <2>9, <3>1 DEF lookup_ready
    <3>3. Stream!Wait
      <4> DEFINE W == Stream!Windows(pc_q)
      <4>1. Stream!Optional(W) = Optional(W)
        BY StreamCounts
      <4> QED BY <3>1, <3>2, <4>1 DEF Stream!Wait, offered
    <3> QED BY <3>3 DEF Stream!StreamNext
  <2>10. ASSUME to = {}, ready, NEW p \in pair
         PROVE  Stream!StreamNext
    <3>1. ready = TRUE
      BY <2>10
    <3>2. taken' = accounted(consumed) /\ pc_q' = lookup_pc(TRUE, consumed)
      BY <2>2, <2>10, <3>1
    <3>3. pair = {p} /\ p.inst2_valid \in BOOLEAN
      BY PairShows
    <3>4. \E w \in offered : p.inst2_valid => w.second # {}
      <4> DEFINE w == [first |-> content(p.src, halfword_index(p.pc1)),
                       second |-> IF p.inst2_valid
                                  THEN {content(p.src, halfword_index(p.pc2))} ELSE {}]
      <4>1. w \in offered
        BY DEF offered
      <4>2. p.inst2_valid => w.second # {}
        OBVIOUS
      <4> HIDE DEF w
      <4> QED BY <4>1, <4>2
    <3>5. offered' \in Stream!Optional(Stream!Windows(pc_q'))
      BY <2>6, StreamCounts
    <3>6. CASE accounted(consumed) = 1 /\ lookup_pc(TRUE, consumed) = Stream!Succ(pc_q)
      <4>1. Stream!TakeOne
        BY <3>2, <3>4, <3>5, <3>6 DEF Stream!TakeOne, offered
      <4> QED BY <4>1 DEF Stream!StreamNext
    <3>7. CASE /\ accounted(consumed) = 2 /\ p.inst2_valid
               /\ lookup_pc(TRUE, consumed) = Stream!Succ(Stream!Succ(pc_q))
      <4>1. Stream!TakeBoth
        BY <3>2, <3>4, <3>5, <3>7 DEF Stream!TakeBoth, offered
      <4> QED BY <4>1 DEF Stream!StreamNext
    <3> QED BY <3>6, <3>7, Taking
  <2> QED BY <2>8, <2>9, <2>10
<1> QED BY <1>1, <1>2

\* What disturbs the memory stays.
LEMMA DisturbedStays == TypeInv /\ [Next]_vars => (disturbed => disturbed')
<1> SUFFICES ASSUME TypeInv, [Next]_vars, disturbed PROVE disturbed'
  OBVIOUS
<1>1. CASE UNCHANGED vars
  BY <1>1 DEF vars, ghostVars
<1>2. CASE Next
  <2>1. PICK to \in Optional(PC), fence, clear, req, ready, consumed \in BOOLEAN :
          \E granted \in BOOLEAN, answered \in Optional(pending) :
            Parts(to, fence, clear, req, ready, consumed, granted, answered)
    BY <1>2, StepParts, SMTT(30)
  <2> QED BY <2>1 DEF Parts
<1> QED BY <1>1, <1>2

\* Decode sees the program, instruction by instruction, in order and without a gap, for
\* every program, L0 size, latency and pattern of redirects and partial takes, until an
\* access is granted over an unanswered one (cv32e40p_sparv_if_stage.sv:159).
THEOREM FetchIsStream == Spec => StreamSpec
<1> DEFINE SInv == TypeInv /\ (disturbed \/ StreamInv)
<1>1. Init => SInv /\ Stream!StreamInit
  BY FenceInit DEF Init, FrontInit, StreamInv, FenceInv, EngineInv, PairAtCounter, PairCut,
                   Stream!StreamInit
<1>2. SInv /\ [Next]_vars => SInv'
  BY TypeNext, StreamInvNext, DisturbedStays DEF TypeInv, TypeOK
<1>3. SInv /\ [Next]_vars => [Stream!StreamNext]_(Stream!streamVars)
  BY CycleRefines, DisturbedStays
<1> QED BY <1>1, <1>2, <1>3, PTL DEF Spec, StreamSpec, Stream!StreamSpec

----------------------------------------------------------------------------
\* Nothing is in the way of a demand miss: while a line is on its way to the L0, it is
\* the demanded one, or the prefetcher keeps no candidate but the line the counter is
\* bound for.  The counter leaves a line only for the next one.
PairWhole == \A p \in pair : dual_decode(p.src, halfword_index(p.pc1)).valid1

InFlight == state # "IDLE" \/ refill # {}

BoundForCandidate ==
  \/ candidate = {}
  \/ hit_line(pc_q) # {} /\ candidate = {next_line(line_base(pc_q))}
  \/ pair = {} /\ candidate = {line_base(pc_q)}

FlightInv ==
  /\ refill # {} => state = "IDLE"
  /\ \A r \in refill : r.addr = line_addr
  /\ InFlight /\ active = {"demand"} =>
       pair = {} /\ line_addr = line_base(pc_q) /\ hit_line(pc_q) = {}
  /\ InFlight /\ active # {"demand"} => BoundForCandidate

DemandInv == PairInv /\ PairWhole /\ FlightInv /\ DemandFirst

LEMMA Quotient ==
  ASSUME NEW q \in Nat, NEW n \in Nat \ {0}, NEW r \in 0 .. n - 1
  PROVE  (q * n + r) \div n = q
OBVIOUS

LEMMA NextMultiple ==
  ASSUME NEW q \in Nat, NEW n \in Nat
  PROVE  q * n + n = (q + 1) * n
OBVIOUS

LEMMA StrictMultiple ==
  ASSUME NEW q \in Nat, NEW k \in Nat, NEW n \in Nat \ {0}, q < k
  PROVE  q * n \in Nat /\ q * n < k * n
OBVIOUS

\* A step that does not pass the end of the line leads into the same line or the next.
LEMMA StepsInLine ==
  ASSUME NEW pc \in PC, NEW n \in Nat, halfword_index(pc) + n <= HALFWORDS
  PROVE  line_base(pc_plus(pc, n)) \in {line_base(pc), next_line(line_base(pc))}
<1>1. /\ NLINES \in Nat \ {0} /\ HALFWORDS \in Nat \ {0} /\ HALFWORDS > 0
      /\ NLINES * HALFWORDS \in Nat \ {0}
  BY GeometryAssumption, Addresses
<1> DEFINE l == line_base(pc)
           h == halfword_index(pc)
<1>2. pc = l * HALFWORDS + h /\ l \in 0 .. NLINES - 1 /\ h \in 0 .. HALFWORDS - 1 /\ pc \in Nat
  <2>1. l \in Line /\ h \in 0 .. HALFWORDS - 1
    BY Addresses
  <2>2. pc \in Nat
    BY <1>1 DEF PC
  <2>3. pc = l * HALFWORDS + h
    BY <2>2, <1>1, DivMod DEF line_base, halfword_index
  <2> QED BY <2>1, <2>2, <2>3 DEF Line
<1>3. l * HALFWORDS \in Nat /\ l * HALFWORDS + HALFWORDS <= NLINES * HALFWORDS
  BY <1>1, <1>2, LastLine
<1>4. h + n <= HALFWORDS
  OBVIOUS
<1>5. pc_plus(pc, n) = (pc + n) % (NLINES * HALFWORDS)
  BY DEF pc_plus
<1> HIDE DEF l, h
<1>6. CASE h + n < HALFWORDS
  <2>1. pc + n = l * HALFWORDS + (h + n) /\ h + n \in 0 .. HALFWORDS - 1
        /\ pc + n < NLINES * HALFWORDS /\ pc + n \in Nat
    BY <1>1, <1>2, <1>3, <1>6
  <2>2. pc_plus(pc, n) = pc + n
    BY <2>1, <1>1, <1>5, ModSmall
  <2>3. (l * HALFWORDS + (h + n)) \div HALFWORDS = l
    BY <2>1, <1>1, <1>2, Quotient
  <2>4. line_base(pc_plus(pc, n)) = l
    BY <2>1, <2>2, <2>3 DEF line_base
  <2> QED BY <2>4 DEF l
<1>7. CASE h + n = HALFWORDS
  <2>1. pc + n = l * HALFWORDS + HALFWORDS /\ l \in Nat /\ l + 1 \in Nat
    BY <1>1, <1>2, <1>3, <1>7
  <2>2. pc + n = (l + 1) * HALFWORDS
    BY <2>1, <1>1, NextMultiple
  <2>3. CASE l + 1 < NLINES
    <3>1. (l + 1) * HALFWORDS \in Nat /\ (l + 1) * HALFWORDS < NLINES * HALFWORDS
      BY <2>1, <2>3, <1>1, StrictMultiple
    <3>2. pc_plus(pc, n) = (l + 1) * HALFWORDS
      BY <3>1, <2>2, <1>1, <1>5, ModSmall
    <3>3. ((l + 1) * HALFWORDS + 0) \div HALFWORDS = l + 1
      BY <2>1, <1>1, Quotient
    <3>4. (l + 1) % NLINES = l + 1
      BY <2>1, <2>3, <1>1, ModSmall
    <3>5. (l + 1) * HALFWORDS + 0 = (l + 1) * HALFWORDS
      BY <3>1
    <3>6. line_base(pc_plus(pc, n)) = l + 1
      BY <3>2, <3>3, <3>5 DEF line_base
    <3> QED BY <3>4, <3>6 DEF next_line, l
  <2>4. CASE l + 1 = NLINES
    <3>1. pc + n = NLINES * HALFWORDS
      BY <2>2, <2>4
    <3>2. (NLINES * HALFWORDS) % (NLINES * HALFWORDS) = 0 /\ NLINES % NLINES = 0
      <4>1. \A x \in Nat \ {0} : x % x = 0
        OBVIOUS
      <4> QED BY <4>1, <1>1
    <3>3. 0 \div HALFWORDS = 0
      BY <1>1
    <3>4. line_base(pc_plus(pc, n)) = 0 /\ next_line(l) = 0
      BY <3>1, <3>2, <3>3, <1>5, <2>4 DEF line_base, next_line
    <3> QED BY <3>4 DEF l
  <2> QED BY <2>1, <2>3, <2>4, <1>2, <1>1
<1> QED BY <1>1, <1>2, <1>4, <1>6, <1>7

\* What decode leaves of the pair, and what follows it, lies in the pair's line or the next.
LEMMA CounterNear ==
  ASSUME PairInv, PairWhole, pair # {}, NEW consumed \in BOOLEAN
  PROVE  line_base(lookup_pc(TRUE, consumed)) \in {line_base(pc_q), next_line(line_base(pc_q))}
<1>1. PICK pc \in PC, d \in Data : pair = {pair_at(pc, d)}
  BY PairShape DEF PairInv
<1> DEFINE p == pair_at(pc, d)
           h == halfword_index(pc)
           dd == dual_decode(d, h)
<1>2. /\ p.pc1 = pc /\ p.src = d /\ p.pc2 = pc_plus(pc, dd.len1)
      /\ p.inst2_valid = (dd.valid2 /\ ~dd.illegal1)
      /\ p.next_pc = pc_plus(pc, dd.len1 + dd.len2) \/ p.next_pc = pc_plus(pc, dd.len1)
      /\ ~dd.valid2 => p.next_pc = pc_plus(pc, dd.len1)
  BY DEF pair_at
<1>3. dd.valid1 /\ pc = pc_q
  BY <1>1, <1>2 DEF PairWhole, PairInv, PairAtCounter
<1>4. /\ dd.valid1 = (h + dd.len1 <= HALFWORDS)
      /\ dd.valid2 => (h + dd.len1) + dd.len2 <= HALFWORDS
      /\ dd.len1 \in {1, 2} /\ dd.len2 \in {1, 2}
  <2>1. \A q : halfwords(q) \in {1, 2}
    BY DEF halfwords
  <2>2. dd.len1 = halfwords(content(d, h)) /\ dd.len2 = halfwords(content(d, h + dd.len1))
    BY DEF dual_decode
  <2>3. /\ dd.valid1 = (h + dd.len1 <= HALFWORDS)
        /\ dd.valid2 => (h + dd.len1) + dd.len2 <= HALFWORDS
    BY DEF dual_decode
  <2> QED BY <2>1, <2>2, <2>3
<1>5. lookup_pc(TRUE, consumed) \in {p.pc2, p.next_pc}
  <2>1. (CHOOSE q \in pair : TRUE) = p /\ pair # {}
    BY <1>1
  <2> QED BY <2>1 DEF lookup_pc
<1>6. h \in Nat
  BY Addresses, GeometryAssumption
<1> HIDE DEF p, dd, h
<1>7. line_base(pc_plus(pc, dd.len1)) \in {line_base(pc), next_line(line_base(pc))}
  <2> DEFINE n == dd.len1
  <2>1. n \in Nat
    BY <1>4
  <2>3. h + n <= HALFWORDS
    BY <1>3, <1>4
  <2> HIDE DEF n
  <2>2. line_base(pc_plus(pc, n)) \in {line_base(pc), next_line(line_base(pc))}
    BY <2>1, <2>3, StepsInLine DEF h
  <2> QED BY <2>2 DEF n
<1>8. dd.valid2 =>
        line_base(pc_plus(pc, dd.len1 + dd.len2)) \in {line_base(pc), next_line(line_base(pc))}
  <2>1. dd.valid2 => h + (dd.len1 + dd.len2) <= HALFWORDS /\ dd.len1 + dd.len2 \in Nat
    BY <1>4, <1>6, GeometryAssumption
  <2> QED BY <2>1, StepsInLine DEF h
<1> QED BY <1>2, <1>3, <1>5, <1>7, <1>8

\* What a cycle without a redirect does to the flight.  hits, misses: its lookup, as far
\* as the L0 holds its line or not.
Front(ready, hits, misses) ==
  /\ hits \cup misses # {} => pair = {} \/ ready
  /\ hits = {} => pair' = IF pair # {} /\ ready THEN {} ELSE pair
  /\ \A pc \in hits : hit_line(pc) # {}
  /\ \A pc \in misses : hit_line(pc) = {}

Idles == state' = "IDLE" /\ refill' = {} /\ ~overtaken'

DemandStarts(misses) ==
  /\ refill = {} /\ misses # {} /\ state' = "REQ" /\ refill' = {} /\ ~overtaken'
  /\ line_addr' = line_base(pc_q') /\ active' = {"demand"}

PrefetchStarts(misses) ==
  /\ state' = "REQ" /\ refill' = {} /\ candidate' = {} /\ active' # {"demand"}
  /\ candidate # {}
  /\ overtaken' => /\ refill # {} /\ misses # {}
                   /\ line_base(pc_q') \notin refilled_lines \cup candidate

FlightGoesOn(hits) ==
  /\ state # "IDLE" /\ active' = active /\ line_addr' = line_addr /\ ~overtaken'
  /\ refill' # {} => state' = "IDLE"
  /\ \A r \in refill' : r.addr = line_addr
  /\ candidate' = IF hits = {} THEN candidate ELSE {next_line(line_base(pc_q'))}

LEMMA FlightStep ==
  ASSUME TypeInv, refill # {} => state = "IDLE",
         NEW fence \in BOOLEAN, NEW clear \in BOOLEAN,
         NEW req \in BOOLEAN, NEW ready \in BOOLEAN, NEW consumed \in BOOLEAN,
         NEW granted \in BOOLEAN, NEW answered \in Optional(pending), ~clear,
         Cycle({}, fence, clear, req, ready, consumed, granted, answered)
  PROVE  \E hits, misses \in SUBSET {pc_q'} :
           /\ Front(ready, hits, misses)
           /\ \/ Idles
              \/ DemandStarts(misses)
              \/ PrefetchStarts(misses)
              \/ FlightGoesOn(hits)
<1> DEFINE npc      == lookup_pc(ready, consumed)
           lookup   == IF req THEN {npc} ELSE {}
           seen     == {pc \in lookup : lookup_ready(ready)}
           hit      == {pc \in seen : hit_line(pc) # {}}
           miss     == seen \ hit
           demand   == {line_base(pc) : pc \in IF refill = {} THEN miss ELSE {}}
           offer    == prefetch(FALSE, demand # {}, busy_o)
           cached   == \E l \in candidate : probe_hit(l)
           select   == select_prefetch(demand, offer, cached)
           accepted == miss_ready_o /\ select # {}
           request  == refill_req(demand, offer, cached)
           is_prefetch == refill_is_prefetch(refill # {})
           rdata    == {p.data : p \in answered}
<1>1. ({} # {} \/ clear) = FALSE
  OBVIOUS
<1>2. /\ pc_q' = npc
      /\ PairClock(FALSE, lookup, ready)
      /\ \E t : CtrlClock(FALSE, t, IF is_prefetch THEN {} ELSE refilled_lines, hit,
                          offer # {} /\ (accepted \/ cached))
      /\ ArbClock(FALSE, miss_ready_o /\ demand # {}, accepted, refill # {})
      /\ EngineClock(FALSE, request, granted, rdata)
      /\ overtaken' = (accepted /\ \E pc \in miss : line_base(pc) \notin refilled_lines \cup offer)
  BY <1>1 DEF Cycle, FrontClock, refilled_lines
<1>3. seen \subseteq {npc} /\ hit \subseteq {npc} /\ miss \subseteq {npc}
  OBVIOUS
<1>4. Front(ready, hit, miss)
  <2>1. seen # {} => pair = {} \/ ready
    BY DEF lookup_ready
  <2>2. hit = {} => Loads(lookup, ready) = {}
    BY DEF Loads
  <2>3. hit = {} => TakePair(pair # {} /\ ready)
    BY <1>2, <2>2 DEF PairClock
  <2> QED BY <2>1, <2>3 DEF Front, TakePair
<1>5. demand = IF refill = {} /\ miss # {} THEN {line_base(npc)} ELSE {}
  BY <1>3
<1>6. offer = IF demand # {} \/ state # "IDLE" THEN {} ELSE candidate
  BY DEF prefetch, busy_o
<1>7. select = (IF demand = {} /\ ~cached THEN offer ELSE {})
      /\ request = IF demand # {} THEN demand ELSE select
  BY DEF select_prefetch, refill_req
<1>8. accepted <=> state = "IDLE" /\ select # {}
  BY DEF miss_ready_o
<1>9. candidate' = IF offer # {} /\ (accepted \/ cached) THEN {}
                   ELSE IF (IF is_prefetch THEN {} ELSE refilled_lines) # {}
                        THEN {next_line(a) : a \in IF is_prefetch THEN {} ELSE refilled_lines}
                   ELSE IF hit # {} THEN {next_line(line_base(pc)) : pc \in hit}
                   ELSE candidate
  BY <1>2 DEF CtrlClock, Train
<1>10. active' = IF refill # {} THEN {}
                 ELSE IF state = "IDLE" /\ demand # {} THEN {"demand"}
                 ELSE IF accepted THEN {"prefetch"} ELSE active
  BY <1>2 DEF ArbClock, Latch, miss_ready_o
<1>11. candidate = {} \/ \E l \in Line : candidate = {l}
  BY DEF TypeInv, TypeOK, Optional
<1>12. is_prefetch \in BOOLEAN /\ accepted \in BOOLEAN /\ cached \in BOOLEAN
  BY DEF refill_is_prefetch
<1>13. EngineClock(FALSE, request, granted, rdata)
  BY <1>2
<1>14. pc_q' = npc /\ (overtaken' <=> accepted
                       /\ \E pc \in miss : line_base(pc) \notin refilled_lines \cup offer)
  BY <1>2
<1>15. refill = {} => refilled_lines = {}
  BY DEF refilled_lines
<1>16. hit = {} \/ hit = {npc}
  BY <1>3
<1> HIDE DEF npc, lookup, seen, hit, miss, demand, offer, cached, select, accepted, request,
             is_prefetch, rdata
<1>17. CASE state # "IDLE"
  <2>1. refill = {} /\ offer = {} /\ ~accepted
    BY <1>6, <1>8, <1>17
  <2>2. active' = active /\ ~overtaken'
    BY <2>1, <1>10, <1>14, <1>17
  <2>3. candidate' = IF hit = {} THEN candidate ELSE {next_line(line_base(pc_q'))}
    BY <2>1, <1>9, <1>12, <1>14, <1>15, <1>16
  <2>4. \/ refill' = {} /\ line_addr' = line_addr
        \/ /\ state' = "IDLE" /\ line_addr' = line_addr
           /\ \E d \in rdata : refill' = {[addr |-> line_addr, data |-> d]}
    BY <1>13, <1>17 DEF EngineClock, AcceptMiss, Granted, LineReturned, Hold
  <2>5. FlightGoesOn(hit)
    BY <1>17, <2>2, <2>3, <2>4 DEF FlightGoesOn
  <2> QED BY <2>5, <1>3, <1>4, <1>14
<1>18. CASE state = "IDLE" /\ demand # {}
  <2>1. request = {line_base(npc)} /\ refill = {} /\ miss # {} /\ select = {} /\ ~accepted
    BY <1>5, <1>7, <1>8, <1>18
  <2>2. state' = "REQ" /\ refill' = {} /\ line_addr' = line_base(npc)
    BY <1>13, <1>18, <2>1 DEF EngineClock, AcceptMiss, Granted, LineReturned, Hold
  <2>3. DemandStarts(miss)
    BY <2>1, <2>2, <1>10, <1>14, <1>18 DEF DemandStarts
  <2> QED BY <2>3, <1>3, <1>4, <1>14
<1>19. CASE state = "IDLE" /\ demand = {} /\ accepted
  <2>1. offer = candidate /\ select = candidate /\ candidate # {} /\ request = candidate
    BY <1>6, <1>7, <1>8, <1>19
  <2>2. state' = "REQ" /\ refill' = {}
    BY <1>13, <1>19, <2>1 DEF EngineClock, AcceptMiss, Granted, LineReturned, Hold
  <2>3. candidate' = {} /\ active' # {"demand"}
    BY <2>1, <1>9, <1>10, <1>19
  <2>4. overtaken' => /\ refill # {} /\ miss # {}
                      /\ line_base(npc) \notin refilled_lines \cup candidate
    BY <2>1, <1>3, <1>5, <1>14, <1>19
  <2>5. PrefetchStarts(miss)
    BY <2>1, <2>2, <2>3, <2>4, <1>14 DEF PrefetchStarts
  <2> QED BY <2>5, <1>3, <1>4, <1>14
<1>20. CASE state = "IDLE" /\ demand = {} /\ ~accepted
  <2>1. request = {}
    BY <1>7, <1>8, <1>20
  <2>2. state' = "IDLE" /\ refill' = {}
    BY <1>13, <1>20, <2>1 DEF EngineClock, AcceptMiss, Granted, LineReturned, Hold
  <2>3. Idles
    BY <2>2, <1>14, <1>20 DEF Idles
  <2> QED BY <2>3, <1>3, <1>4, <1>14
<1> QED BY <1>12, <1>17, <1>18, <1>19, <1>20

\* A redirect abandons the flight.
LEMMA RedirectStep ==
  ASSUME NEW to \in Optional(PC), NEW fence \in BOOLEAN, NEW clear \in BOOLEAN,
         NEW req \in BOOLEAN, NEW ready \in BOOLEAN, NEW consumed \in BOOLEAN,
         NEW granted \in BOOLEAN, NEW answered \in Optional(pending), to # {} \/ clear,
         Cycle(to, fence, clear, req, ready, consumed, granted, answered)
  PROVE  Idles
<1> DEFINE cached == \E l \in candidate : probe_hit(l)
<1>1. (to # {} \/ clear) = TRUE
  OBVIOUS
<1>2. \E miss, rdata : EngineClock(TRUE, miss, granted, rdata)
  BY <1>1 DEF Cycle
<1>3. overtaken' => \E demand, miss : select_prefetch(demand, prefetch(TRUE, miss, busy_o), cached) # {}
  BY <1>1 DEF Cycle
<1>4. ~overtaken'
  BY <1>3 DEF select_prefetch, prefetch
<1> QED BY <1>2, <1>4 DEF Idles, EngineClock, Flush

LEMMA DemandStep == DemandInv /\ [Next]_vars => DemandInv'
<1> SUFFICES ASSUME DemandInv, [Next]_vars PROVE DemandInv'
  OBVIOUS
<1>1. PairInv'
  BY PairNext DEF DemandInv
<1>2. CASE UNCHANGED vars
  BY <1>1, <1>2 DEF vars, frontVars, engineVars, ghostVars, DemandInv, PairWhole, FlightInv,
                    InFlight, BoundForCandidate, hit_line, DemandFirst
<1>3. CASE Next
  <2>1. PICK to \in Optional(PC), fence, clear, req, ready, consumed \in BOOLEAN :
          \E granted \in BOOLEAN, answered \in Optional(pending), store \in SUBSET Line :
            /\ Tick(to, fence, clear, req, ready, consumed, granted, answered, store)
            /\ Parts(to, fence, clear, req, ready, consumed, granted, answered)
    BY <1>3, StepParts, SMTT(30) DEF DemandInv, PairInv
  <2>2. PICK granted \in BOOLEAN, answered \in Optional(pending) :
          /\ Cycle(to, fence, clear, req, ready, consumed, granted, answered)
          /\ fence => to # {}
          /\ Parts(to, fence, clear, req, ready, consumed, granted, answered)
    BY <2>1 DEF Tick
  <2>3. PairWhole'
    <3> DEFINE redirect == to # {} \/ clear
               lookup == Lookups(to, clear, req, ready, consumed)
    <3>1. PairClock(redirect, lookup, ready) /\ redirect \in BOOLEAN
      BY <2>2 DEF Parts
    <3> HIDE DEF redirect, lookup
    <3>2. \/ pair' \in {{}, pair}
          \/ \E pc \in lookup : \E e \in hit_line(pc) :
               /\ dual_decode(e.data, halfword_index(pc)).valid1
               /\ pair' = {pair_at(pc, e.data)}
      BY <3>1, PairStep
    <3>3. \A pc, d : pair_at(pc, d).pc1 = pc /\ pair_at(pc, d).src = d
      BY DEF pair_at
    <3>4. CASE pair' \in {{}, pair}
      BY <3>4 DEF PairWhole, DemandInv
    <3>5. CASE \E pc \in lookup : \E e \in hit_line(pc) :
                 /\ dual_decode(e.data, halfword_index(pc)).valid1
                 /\ pair' = {pair_at(pc, e.data)}
      BY <3>3, <3>5 DEF PairWhole
    <3> QED BY <3>2, <3>4, <3>5
  <2>4. Idles => FlightInv' /\ DemandFirst'
    BY DEF Idles, FlightInv, InFlight, DemandFirst
  <2>5. CASE to # {} \/ clear
    <3>1. Idles
      BY <2>2, <2>5, RedirectStep, SMTT(30)
    <3> QED BY <1>1, <2>3, <2>4, <3>1 DEF DemandInv
  <2>6. CASE to = {} /\ ~clear
    <3>1. Cycle({}, fence, clear, req, ready, consumed, granted, answered) /\ ~fence
      BY <2>2, <2>6
    <3>2. TypeInv /\ (refill # {} => state = "IDLE")
      BY DEF DemandInv, PairInv, FlightInv
    <3>3. PICK hits, misses \in SUBSET {pc_q'} :
            /\ Front(ready, hits, misses)
            /\ \/ Idles
               \/ DemandStarts(misses)
               \/ PrefetchStarts(misses)
               \/ FlightGoesOn(hits)
      BY <2>6, <3>1, <3>2, FlightStep, ZenonT(30)
    <3>4. pc_q' = lookup_pc(ready, consumed) /\ L0Clock(fence, refill)
      <4>1. pc_q' = IF to # {} THEN CHOOSE t \in to : TRUE ELSE lookup_pc(ready, consumed)
        BY <2>2 DEF Parts
      <4>2. L0Clock(fence, refill)
        BY <2>2 DEF Parts
      <4> QED BY <2>6, <4>1, <4>2
    <3>5. refill = {} => \A pc \in PC : hit_line(pc)' = hit_line(pc)
      <4> SUFFICES ASSUME refill = {}, NEW pc \in PC PROVE hit_line(pc)' = hit_line(pc)
        OBVIOUS
      <4>1. index(line_base(pc)) \in Index
        BY Addresses
      <4>2. l0'[index(line_base(pc))] = l0[index(line_base(pc))]
        BY <4>1, <3>1, <3>4 DEF L0Clock
      <4> QED BY <4>2 DEF hit_line
    <3>6. pc_q' \in PC /\ pc_q \in PC
      BY <3>2, <1>1 DEF PairInv, TypeInv, TypeOK
    <3>7. refill = {} => (hit_line(pc_q))' = {e \in l0[index(line_base(pc_q'))] : e.addr = line_base(pc_q')}
      BY <3>5, <3>6 DEF hit_line
    <3>8. CASE DemandStarts(misses)
      <4>1. pair' = {}
        BY <3>3, <3>8 DEF DemandStarts, Front
      <4>2. (hit_line(pc_q))' = {}
        BY <3>3, <3>7, <3>8 DEF DemandStarts, Front, hit_line
      <4>3. FlightInv' /\ DemandFirst'
        BY <4>1, <4>2, <3>8 DEF DemandStarts, FlightInv, DemandFirst
      <4> QED BY <1>1, <2>3, <4>3 DEF DemandInv
    <3>9. CASE PrefetchStarts(misses)
      <4>1. BoundForCandidate'
        BY <3>9 DEF PrefetchStarts, BoundForCandidate
      <4>2. FlightInv'
        BY <4>1, <3>9 DEF PrefetchStarts, FlightInv
      <4>3. ASSUME refill # {}, misses # {}, candidate # {},
                   line_base(pc_q') \notin refilled_lines \cup candidate
            PROVE  FALSE
        <5>1. refilled_lines = {line_addr}
          BY <4>3 DEF refilled_lines, DemandInv, FlightInv
        <5>2. hit_line(pc_q') = {} /\ (pair = {} \/ ready)
          BY <3>3, <4>3 DEF Front
        <5>3. pair = {} => pc_q' = pc_q
          BY <3>4 DEF lookup_pc
        <5>4. active # {"demand"}
          BY <4>3, <5>1, <5>3 DEF DemandInv, FlightInv, InFlight
        <5>5. \/ hit_line(pc_q) # {} /\ candidate = {next_line(line_base(pc_q))}
              \/ pair = {} /\ candidate = {line_base(pc_q)}
          BY <4>3, <5>4 DEF DemandInv, FlightInv, InFlight, BoundForCandidate
        <5>6. pair # {} /\ ready = TRUE
          BY <4>3, <5>2, <5>3, <5>5
        <5>7. line_base(pc_q') \in {line_base(pc_q), next_line(line_base(pc_q))}
          BY <3>4, <5>6, CounterNear DEF DemandInv
        <5> QED BY <4>3, <5>2, <5>5, <5>6, <5>7 DEF hit_line
      <4>4. DemandFirst'
        BY <4>3, <3>9 DEF PrefetchStarts, DemandFirst
      <4> QED BY <1>1, <2>3, <4>2, <4>4 DEF DemandInv
    <3>10. CASE FlightGoesOn(hits)
      <4>1. refill = {} /\ InFlight
        BY <3>2, <3>10 DEF FlightGoesOn, InFlight
      <4>2. (hit_line(pc_q))' = hit_line(pc_q')
        BY <3>7, <4>1 DEF hit_line
      <4>3. pair = {} => pc_q' = pc_q
        BY <3>4 DEF lookup_pc
      <4>4. ASSUME active = {"demand"}
            PROVE  pair' = {} /\ line_addr' = line_base(pc_q') /\ (hit_line(pc_q))' = {}
        <5>1. pair = {} /\ line_addr = line_base(pc_q) /\ hit_line(pc_q) = {}
          BY <4>1, <4>4 DEF DemandInv, FlightInv
        <5>2. pc_q' = pc_q
          BY <4>3, <5>1
        <5>3. hits = {}
          BY <3>3, <5>1, <5>2 DEF Front
        <5> QED BY <3>3, <3>10, <4>2, <5>1, <5>2, <5>3 DEF Front, FlightGoesOn
      <4>5. ASSUME active # {"demand"} PROVE BoundForCandidate'
        <5>1. BoundForCandidate
          BY <4>1, <4>5 DEF DemandInv, FlightInv
        <5>2. CASE hits # {}
          <6>1. hit_line(pc_q') # {}
            BY <3>3, <5>2 DEF Front
          <6> QED BY <3>10, <4>2, <5>2, <6>1 DEF FlightGoesOn, BoundForCandidate
        <5>3. CASE hits = {} /\ (pair = {} \/ ~ready)
          <6>1. pc_q' = pc_q /\ pair' = pair /\ candidate' = candidate
            BY <3>3, <3>4, <3>10, <5>3 DEF Front, FlightGoesOn, lookup_pc
          <6> QED BY <4>2, <5>1, <6>1 DEF BoundForCandidate
        <5>4. CASE hits = {} /\ pair # {} /\ ready
          <6>1. pair' = {} /\ candidate' = candidate
            BY <3>3, <3>10, <5>4 DEF Front, FlightGoesOn
          <6>2. ready = TRUE
            BY <5>4
          <6>3. line_base(pc_q') \in {line_base(pc_q), next_line(line_base(pc_q))}
            BY <3>4, <5>4, <6>2, CounterNear DEF DemandInv
          <6>4. CASE candidate = {}
            BY <6>1, <6>4 DEF BoundForCandidate
          <6>5. CASE candidate = {next_line(line_base(pc_q))} /\ hit_line(pc_q) # {}
            <7>1. CASE line_base(pc_q') = line_base(pc_q)
              <8>1. hit_line(pc_q') = hit_line(pc_q)
                BY <7>1 DEF hit_line
              <8> QED BY <4>2, <6>1, <6>5, <7>1, <8>1 DEF BoundForCandidate
            <7>2. CASE line_base(pc_q') = next_line(line_base(pc_q))
              BY <6>1, <6>5, <7>2 DEF BoundForCandidate
            <7> QED BY <6>3, <7>1, <7>2
          <6> QED BY <5>1, <5>4, <6>4, <6>5 DEF BoundForCandidate
        <5> QED BY <5>2, <5>3, <5>4
      <4>6. FlightInv'
        BY <3>10, <4>4, <4>5 DEF FlightGoesOn, FlightInv
      <4>7. DemandFirst'
        BY <3>10 DEF FlightGoesOn, DemandFirst
      <4> QED BY <1>1, <2>3, <4>6, <4>7 DEF DemandInv
    <3>11. CASE Idles
      BY <1>1, <2>3, <2>4, <3>11 DEF DemandInv
    <3> QED BY <3>3, <3>8, <3>9, <3>10, <3>11
  <2>7. (to = {} /\ ~clear) \/ to # {} \/ clear
    OBVIOUS
  <2> QED BY <2>5, <2>6, <2>7
<1> QED BY <1>2, <1>3

\* No prefetch is accepted over another line's demand miss, not even in the cycle of a
\* refill pulse, when the miss is masked and the arbiter sees the prefetch alone: the
\* candidate is then the line missed, or none (cv32e40p_sparv_if_stage.sv:192).
THEOREM DemandComesFirst == Spec => []DemandFirst
<1>1. Init => DemandInv
  BY InitTyped DEF Init, FrontInit, EngineInit, DemandInv, PairInv, PairAtCounter, PairWhole,
                   FlightInv, InFlight, DemandFirst
<1>2. DemandInv => DemandFirst
  BY DEF DemandInv
<1> QED BY <1>1, <1>2, DemandStep, PTL DEF Spec

=============================================================================
