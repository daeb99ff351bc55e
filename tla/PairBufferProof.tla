-------------------------- MODULE PairBufferProof --------------------------
(***************************************************************************)
(* The pair buffer hands over what it accepted, in order and once; and so  *)
(* does it with the IF/ID register before it, until the register is        *)
(* cleared or kept against the buffer: for every address space and set of  *)
(* flags.                                                                  *)
(***************************************************************************)
EXTENDS PairFetch, TLAPS, SequenceTheorems

\* A complete pair leaves nothing waiting, so that the second of its instructions can
\* wait in its turn.
Inv ==
  /\ first = {} \/ \E f \in Instr : first = {f}
  /\ \/ out = <<>>
     \/ \E i \in Instr : out = <<i>>
     \/ \E i, j \in Instr : out = <<i, j>> /\ can_pair(i, j) /\ first = {}
  /\ fetch_pc \in PC
  /\ ifid = {} \/ \E i \in Instr : ifid = {i}

LEMMA InvInit == Init => Inv
BY BufferAssumption DEF Init, BufferInit, Inv, PC

\* What fetch offers are instructions.
LEMMA IncomingTyped ==
  ASSUME fetch_pc \in PC, NEW in \in Optional(Incoming)
  PROVE  in = {} \/ \E i \in Instr : in = {i}
BY DEF Incoming, Instr, Optional

\* What a cycle makes of fetch and of the register before the buffer.
LEMMA FlowTyped ==
  ASSUME Inv, NEW fetched \in Optional(Incoming), NEW ready \in BOOLEAN,
         NEW consumed \in BOOLEAN, NEW clear \in BOOLEAN, NEW loop \in BOOLEAN,
         Flow(fetched, ready, consumed, clear, loop)
  PROVE  /\ loaded' = {} \/ \E i \in Instr : loaded' = {i}
         /\ ifid' = IF loaded' # {} THEN loaded' ELSE IF clear THEN {} ELSE ifid
         /\ ifid' = {} \/ \E i \in Instr : ifid' = {i}
         /\ fetch_pc' \in PC
<1>1. fetched = {} \/ \E i \in Instr : fetched = {i}
  BY IncomingTyped DEF Inv
<1>2. loaded' \in {{}, fetched}
  BY DEF Flow, accepted
<1>3. loaded' = {} \/ \E i \in Instr : loaded' = {i}
  BY <1>1, <1>2
<1>4. ifid' = IF loaded' # {} THEN loaded' ELSE IF clear THEN {} ELSE ifid
  BY DEF Flow, IfIdClock
<1>5. \A i \in Instr : (i.pc + length(i)) % NPC \in PC
  BY BufferAssumption DEF Instr, PC, length
<1>6. 0 \in PC
  BY BufferAssumption DEF PC
<1>7. fetch_pc' \in IF loaded' = {} THEN {fetch_pc}
                    ELSE IF loop THEN {0} ELSE {(i.pc + length(i)) % NPC : i \in loaded'}
  BY DEF Flow
<1>8. fetch_pc' \in PC
  BY <1>3, <1>5, <1>6, <1>7 DEF Inv
<1> QED BY <1>3, <1>4, <1>8 DEF Inv

\* A second instruction that waits again has all its flags: a pair has none but
\* "failed".
LEMMA ReplayedSame ==
  ASSUME NEW i \in Instr, NEW j \in Instr, can_pair(i, j)
  PROVE  [j EXCEPT !.flags = @ \cap {"failed"}] = j
<1>1. j.flags \cap {"failed"} = j.flags
  BY BufferAssumption DEF can_pair, Instr
<1> QED BY <1>1 DEF Instr

LEMMA HeldIs == held({}) = <<>> /\ \A f : held({f}) = <<f>>
BY DEF held

\* The sequences of at most two instructions.
LEMMA Two ==
  ASSUME NEW x, NEW y
  PROVE  <<x>> \o <<y>> = <<x, y>> /\ Append(<<x>>, y) = <<x, y>>
<1> DEFINE S == {x, y}
<1>1. <<x>> \in Seq(S) /\ <<y>> \in Seq(S) /\ <<x, y>> \in Seq(S)
  OBVIOUS
<1>2. /\ <<x>> \o <<y>> \in Seq(S) /\ Len(<<x>> \o <<y>>) = 2
      /\ (<<x>> \o <<y>>)[1] = x /\ (<<x>> \o <<y>>)[2] = y
  <2>1. Len(<<x>>) = 1 /\ Len(<<y>>) = 1
    OBVIOUS
  <2> HIDE DEF S
  <2> QED BY <1>1, <2>1, ConcatProperties
<1>3. /\ Append(<<x>>, y) \in Seq(S) /\ Len(Append(<<x>>, y)) = 2
      /\ Append(<<x>>, y)[1] = x /\ Append(<<x>>, y)[2] = y
  OBVIOUS
<1>4. Len(<<x, y>>) = 2 /\ <<x, y>>[1] = x /\ <<x, y>>[2] = y
  OBVIOUS
<1> HIDE DEF S
<1>5. ASSUME NEW s \in Seq(S), Len(s) = 2, s[1] = x, s[2] = y
      PROVE  s = <<x, y>>
  <2>1. \A i \in 1 .. Len(s) : s[i] = <<x, y>>[i]
    BY <1>4, <1>5
  <2> DEFINE p == <<x, y>>
  <2>2. p \in Seq(S) /\ Len(s) = Len(p) /\ \A i \in 1 .. Len(s) : s[i] = p[i]
    BY <1>1, <1>4, <1>5, <2>1
  <2> HIDE DEF p
  <2>3. s = p
    BY <2>2, SeqEqual
  <2> QED BY <2>3 DEF p
<1> QED BY <1>2, <1>3, <1>5

LEMMA Short ==
  /\ <<>> \o <<>> = <<>>
  /\ \A x : <<>> \o <<x>> = <<x>> /\ <<x>> \o <<>> = <<x>> /\ Append(<<>>, x) = <<x>>
  /\ \A x, y : /\ <<x>> \o <<y>> = <<x, y>> /\ <<x, y>> \o <<>> = <<x, y>>
              /\ Append(<<x>>, y) = <<x, y>>
<1>1. <<>> \o <<>> = <<>>
  OBVIOUS
<1>2. ASSUME NEW x
      PROVE  <<>> \o <<x>> = <<x>> /\ <<x>> \o <<>> = <<x>> /\ Append(<<>>, x) = <<x>>
  OBVIOUS
<1>3. ASSUME NEW x, NEW y
      PROVE  <<x, y>> \o <<>> = <<x, y>>
  OBVIOUS
<1> QED BY <1>1, <1>2, <1>3, Two

\* A sequence without its first part.
LEMMA Remainder ==
  ASSUME NEW S, NEW s \in Seq(S), NEW t \in Seq(S)
  PROVE  SubSeq(s \o t, Len(s) + 1, Len(s \o t)) = t
<1>1. s \o t \in Seq(S) /\ Len(s \o t) = Len(s) + Len(t) /\ Len(s) \in Nat /\ Len(t) \in Nat
  BY ConcatProperties
<1>2. \A i \in 1 .. Len(t) : (s \o t)[Len(s) + i] = t[i]
  BY <1>1, ConcatProperties
<1>3. \A i \in Len(s) + 1 .. Len(s \o t) : (s \o t)[i] \in S
  BY <1>1
<1> DEFINE u == SubSeq(s \o t, Len(s) + 1, Len(s \o t))
<1>4. u \in Seq(S) /\ Len(u) = Len(t) /\ \A i \in 1 .. Len(t) : u[i] = (s \o t)[Len(s) + i]
  BY <1>1, <1>3, SubSeqProperties
<1> HIDE DEF u
<1>5. u = t
  BY <1>2, <1>4, SeqEqual
<1> QED BY <1>5 DEF u

\* The output, by its length.
LEMMA OutIs ==
  ASSUME Inv
  PROVE  /\ out \in Seq(Instr) /\ Len(out) \in 0 .. 2
         /\ Len(out) = 2 =>
              \E i, j \in Instr : out = <<i, j>> /\ can_pair(i, j) /\ first = {}
<1>1. CASE out = <<>>
  BY <1>1
<1>2. CASE \E i \in Instr : out = <<i>>
  BY <1>2
<1>3. CASE \E i, j \in Instr : out = <<i, j>> /\ can_pair(i, j) /\ first = {}
  BY <1>3
<1> QED BY <1>1, <1>2, <1>3 DEF Inv

LEMMA HeldLength ==
  ASSUME Inv
  PROVE  /\ held(first) \in Seq(Instr) /\ Len(held(first)) \in 0 .. 1
         /\ out \o held(first) \in Seq(Instr)
         /\ Len(out \o held(first)) = Len(out) + Len(held(first))
         /\ Len(out \o held(first)) <= 2
<1>1. held(first) \in Seq(Instr) /\ Len(held(first)) \in 0 .. 1
  <2>1. CASE first = {}
    <3>1. held(first) = <<>>
      BY <2>1, HeldIs
    <3> QED BY <3>1
  <2>2. CASE \E f \in Instr : first = {f}
    <3>1. PICK f \in Instr : held(first) = <<f>>
      BY <2>2, HeldIs
    <3> QED BY <3>1
  <2> QED BY <2>1, <2>2 DEF Inv
<1>2. first = {} => Len(held(first)) = 0
  BY HeldIs
<1> QED BY <1>1, <1>2, OutIs, ConcatProperties

LEMMA Bounded == Inv => Len(out \o held(first)) <= 2 /\ out \o held(first) \in Seq(Instr)
BY HeldLength

\* An accepted instruction is appended to what the back end leaves, and the buffer is
\* left in order.
LEMMA Accepts ==
  ASSUME Inv, NEW i \in Instr, NEW ready \in BOOLEAN, NEW consumed \in BOOLEAN,
         in_ready_o(ready, consumed), AcceptFirst(i) \/ PairUp(i) \/ EmitOlder(i),
         fetch_pc' \in PC, ifid' = {} \/ \E x \in Instr : ifid' = {x}
  PROVE  /\ Inv'
         /\ taking(ready, consumed) = Len(out)
         /\ out' \o held(first') = Append(held(first), i)
<1>1. taking(ready, consumed) = Len(out)
  BY DEF Inv, taking, in_ready_o, out_slot_free
<1>2. CASE AcceptFirst(i)
  <2>1. \/ first' = {} /\ out' = <<i>>
        \/ first' = {i} /\ out' = <<>>
    BY <1>2 DEF AcceptFirst
  <2>2. held(first) = <<>> /\ Append(<<>>, i) = <<i>>
    BY <1>2, HeldIs, Short DEF AcceptFirst
  <2>3. out' \o held(first') = <<i>>
    BY <2>1, HeldIs, Short
  <2>4. Inv'
    BY <2>1 DEF Inv
  <2> QED BY <1>1, <2>2, <2>3, <2>4
<1>3. CASE PairUp(i)
  <2>1. PICK f \in first : can_pair(f, i) /\ first' = {} /\ out' = <<f, i>>
    BY <1>3 DEF PairUp
  <2>2. f \in Instr /\ held(first) = <<f>>
    BY <2>1, HeldIs DEF Inv
  <2>3. Inv'
    BY <2>1, <2>2 DEF Inv, can_pair
  <2> QED BY <1>1, <2>1, <2>2, <2>3, HeldIs, Short
<1>4. CASE EmitOlder(i)
  <2>1. PICK f \in first : first' = {i} /\ out' = <<f>>
    BY <1>4 DEF EmitOlder
  <2>2. f \in Instr /\ held(first) = <<f>>
    BY <2>1, HeldIs DEF Inv
  <2>3. Inv'
    BY <2>1, <2>2 DEF Inv
  <2>4. out' \o held(first') = <<f, i>> /\ Append(<<f>>, i) = <<f, i>>
    BY <2>1, HeldIs, Short
  <2> QED BY <1>1, <2>2, <2>3, <2>4
<1> QED BY <1>2, <1>3, <1>4

\* The same of a cycle that accepts nothing: what the back end leaves stays.
LEMMA Leaves ==
  ASSUME Inv, NEW ready \in BOOLEAN, NEW consumed \in BOOLEAN,
         LET retained == out_slot_free(ready) /\ \E f \in first : serialized(f)
         IN  \/ retained /\ SerializeRetained
             \/ ~retained /\ Replay(taking(ready, consumed)),
         fetch_pc' \in PC, ifid' = {} \/ \E x \in Instr : ifid' = {x}
  PROVE  /\ Inv'
         /\ \/ /\ taking(ready, consumed) = Len(out)
               /\ out' \o held(first') = held(first)
            \/ /\ taking(ready, consumed) = 0
               /\ out' = out /\ first' = first
            \/ \E i, j \in Instr :
                 /\ out = <<i, j>> /\ first = {} /\ taking(ready, consumed) = 1
                 /\ out' = <<>> /\ first' = {j}
<1>1. CASE out_slot_free(ready) /\ SerializeRetained
  <2>1. PICK f \in first : first' = {} /\ out' = <<f>>
    BY <1>1 DEF SerializeRetained
  <2>2. f \in Instr /\ held(first) = <<f>>
    BY <2>1, HeldIs DEF Inv
  <2>3. taking(ready, consumed) = Len(out)
    BY <1>1, <2>1 DEF Inv, taking, out_slot_free
  <2>4. Inv'
    BY <2>1, <2>2 DEF Inv
  <2> QED BY <2>1, <2>2, <2>3, <2>4, HeldIs, Short
<1>2. CASE Replay(taking(ready, consumed))
  <2>1. CASE taking(ready, consumed) = 0
    BY <1>2, <2>1 DEF Replay, Inv, can_pair
  <2>2. CASE taking(ready, consumed) = 1 /\ Len(out) = 2
    <3>1. PICK i \in Instr, j \in Instr : out = <<i, j>> /\ can_pair(i, j) /\ first = {}
      BY <2>2, OutIs
    <3>2. out' = <<>> /\ first' = {j}
      <4>1. out[2] = j
        BY <3>1
      <4>2. [out[2] EXCEPT !.flags = @ \cap {"failed"}] = j
        BY <3>1, <4>1, ReplayedSame
      <4>3. out' = <<>>
        BY <1>2, <2>2 DEF Replay
      <4>4. first' = {[out[2] EXCEPT !.flags = @ \cap {"failed"}]}
        BY <1>2, <2>2, Zenon DEF Replay
      <4> QED BY <4>2, <4>3, <4>4, Zenon
    <3> QED BY <2>2, <3>1, <3>2 DEF Inv
  <2>3. CASE taking(ready, consumed) # 0 /\ ~(taking(ready, consumed) = 1 /\ Len(out) = 2)
    <3>1. out' = <<>> /\ first' = first
      BY <1>2, <2>3 DEF Replay
    <3>2. taking(ready, consumed) = Len(out)
      BY <2>3 DEF taking, Inv
    <3>3. <<>> \o held(first') = held(first)
      BY <3>1, HeldIs, Short DEF Inv
    <3>4. Inv'
      BY <3>1 DEF Inv
    <3> QED BY <3>1, <3>2, <3>3, <3>4
  <2> QED BY <2>1, <2>2, <2>3
<1> QED BY <1>1, <1>2

\* What a cycle accepts, and that it is one of the branches of the clocked process.
LEMMA Branches ==
  ASSUME Inv, NEW fetched, NEW ready \in BOOLEAN, NEW consumed \in BOOLEAN,
         NEW clear, NEW loop, Flow(fetched, ready, consumed, clear, loop)
  PROVE  \/ \E i \in Instr :
              /\ ifid = {i} /\ given' = {i} /\ in_ready_o(ready, consumed)
              /\ AcceptFirst(i) \/ PairUp(i) \/ EmitOlder(i)
         \/ /\ given' = {} /\ (ifid # {} => ~in_ready_o(ready, consumed))
            /\ LET retained == out_slot_free(ready) /\ \E f \in first : serialized(f)
               IN  \/ retained /\ SerializeRetained
                   \/ ~retained /\ Replay(taking(ready, consumed))
<1>1. ifid = {} \/ \E i \in Instr : ifid = {i}
  BY DEF Inv
<1>2. BufferClock(FALSE, ifid, ready, consumed) /\ given' = accepted(ifid, ready, consumed)
  BY DEF Flow
<1> QED BY <1>1, <1>2 DEF BufferClock, accepted

\* What a cycle without a redirect makes of the contents of the buffer.
LEMMA BufferMoves ==
  ASSUME Inv, NEW fetched \in Optional(Incoming), NEW ready \in BOOLEAN,
         NEW consumed \in BOOLEAN, NEW clear \in BOOLEAN, NEW loop \in BOOLEAN,
         Flow(fetched, ready, consumed, clear, loop)
  PROVE  LET queue == out \o held(first)
             rest  == SubSeq(queue, taken' + 1, Len(queue))
         IN  /\ Inv' /\ ~flushed' /\ taken' \in 0 .. 2 /\ taken' <= Len(queue)
             /\ queue \in Seq(Instr) /\ queue' \in Seq(Instr) /\ Len(queue') <= 2
             /\ \/ given' = {} /\ queue' = rest
                \/ \E i \in Instr : ifid = {i} /\ given' = {i} /\ queue' = Append(rest, i)
<1> DEFINE queue == out \o held(first)
<1>1. fetch_pc' \in PC /\ (ifid' = {} \/ \E i \in Instr : ifid' = {i})
  BY FlowTyped
<1>2. taken' = taking(ready, consumed) /\ ~flushed'
  BY DEF Flow
<1>3. held(first) \in Seq(Instr) /\ Len(held(first)) \in 0 .. 1 /\ Len(out) \in 0 .. 2
  BY HeldLength, OutIs
<1>4. Len(queue) = Len(out) + Len(held(first)) /\ Len(queue) <= 2 /\ queue \in Seq(Instr)
  BY HeldLength
<1>5. taken' \in 0 .. 2 /\ taken' <= Len(queue)
  BY <1>2, <1>3, <1>4 DEF taking
<1>6. Inv'
  BY <1>1, Branches, Accepts, Leaves
<1>7. (Len(out \o held(first)) <= 2 /\ out \o held(first) \in Seq(Instr))'
  BY <1>6, Bounded, PTL
<1>8. SubSeq(queue, Len(out) + 1, Len(queue)) = held(first)
  BY <1>3, OutIs, Remainder
<1>9. SubSeq(queue, 1, Len(queue)) = queue
  BY <1>4, SubSeqFull
<1>10. CASE given' = {}
  <2>1. \/ /\ taken' = Len(out)
           /\ out' \o held(first') = held(first)
        \/ /\ taken' = 0
           /\ out' = out /\ first' = first
        \/ \E i, j \in Instr :
             /\ out = <<i, j>> /\ first = {} /\ taken' = 1
             /\ out' = <<>> /\ first' = {j}
    <3>1. LET retained == out_slot_free(ready) /\ \E f \in first : serialized(f)
          IN  \/ retained /\ SerializeRetained
              \/ ~retained /\ Replay(taking(ready, consumed))
      BY <1>10, Branches
    <3> QED BY <1>1, <1>2, <3>1, Leaves
  <2>2. queue' = SubSeq(queue, taken' + 1, Len(queue))
    <3>1. CASE taken' = Len(out) /\ out' \o held(first') = held(first)
      BY <1>8, <3>1 DEF held
    <3>2. CASE taken' = 0 /\ out' = out /\ first' = first
      BY <1>9, <3>2 DEF held
    <3>3. ASSUME NEW i \in Instr, NEW j \in Instr, out = <<i, j>>, first = {}, taken' = 1,
                 out' = <<>>, first' = {j}
          PROVE  queue' = SubSeq(queue, taken' + 1, Len(queue))
      <4>1. <<i>> \in Seq(Instr) /\ <<j>> \in Seq(Instr) /\ Len(<<i>>) = 1
        OBVIOUS
      <4>2. queue = <<i>> \o <<j>>
        <5>1. held(first) = <<>>
          BY <3>3, HeldIs
        <5>2. <<i, j>> \o <<>> = <<i, j>> /\ <<i>> \o <<j>> = <<i, j>>
          BY Short
        <5> QED BY <3>3, <5>1, <5>2
      <4>3. SubSeq(queue, 1 + 1, Len(queue)) = <<j>>
        BY <4>1, <4>2, Remainder
      <4>4. held(first)' = <<j>>
        BY <3>3, HeldIs DEF held
      <4>5. queue' = <<j>>
        BY <3>3, <4>4, Short
      <4> QED BY <3>3, <4>3, <4>5
    <3> QED BY <2>1, <3>1, <3>2, <3>3
  <2> QED BY <1>2, <1>4, <1>5, <1>6, <1>7, <1>10, <2>2 DEF held
<1>11. ASSUME NEW i \in Instr, given' = {i}
       PROVE  ifid = {i} /\ queue' = Append(SubSeq(queue, taken' + 1, Len(queue)), i)
  <2>1. /\ in_ready_o(ready, consumed) /\ ifid = {i}
        /\ AcceptFirst(i) \/ PairUp(i) \/ EmitOlder(i)
    BY <1>11, Branches
  <2>2. taken' = Len(out) /\ out' \o held(first') = Append(held(first), i)
    BY <1>1, <1>2, <2>1, Accepts
  <2> QED BY <1>8, <2>1, <2>2 DEF held
<1>12. given' = {} \/ \E i \in Instr : given' = {i}
  BY Branches
<1> QED BY <1>2, <1>4, <1>5, <1>6, <1>7, <1>10, <1>11, <1>12 DEF held

LEMMA InvNext == Inv /\ [Next]_vars => Inv'
<1> SUFFICES ASSUME Inv, [Next]_vars PROVE Inv'
  OBVIOUS
<1>1. CASE Run
  <2>1. PICK fetched \in Optional(Incoming), ready, consumed, loop \in BOOLEAN :
             \E clear \in clears(ready) : Flow(fetched, ready, consumed, clear, loop)
    BY <1>1 DEF Run
  <2>2. PICK clear \in BOOLEAN : Flow(fetched, ready, consumed, clear, loop)
    BY <2>1 DEF clears
  <2> QED BY <2>2, BufferMoves
<1>2. CASE Redirected
  BY <1>2 DEF Redirected, Redirect, BufferClock, Flush, IfIdClock, Inv
<1>3. CASE UNCHANGED vars
  BY <1>3 DEF vars, bufferVars, Inv, can_pair
<1> QED BY <1>1, <1>2, <1>3 DEF Next

----------------------------------------------------------------------------
\* Every cycle is a step of the buffer's queue.
LEMMA BufferRefines == Inv /\ [Next]_vars => [Buffer!QueueNext]_(Buffer!queueVars)
<1> SUFFICES ASSUME Inv, [Next]_vars PROVE [Buffer!QueueNext]_(Buffer!queueVars)
  OBVIOUS
<1>1. CASE Run
  <2>1. PICK fetched \in Optional(Incoming), ready, consumed, loop \in BOOLEAN :
             \E clear \in clears(ready) : Flow(fetched, ready, consumed, clear, loop)
    BY <1>1 DEF Run
  <2>2. PICK clear \in BOOLEAN : Flow(fetched, ready, consumed, clear, loop)
    BY <2>1 DEF clears
  <2> QED BY <2>2, BufferMoves DEF Buffer!QueueNext, Buffer!Move
<1>2. CASE Redirected
  BY <1>2, HeldIs DEF Redirected, Redirect, BufferClock, Flush, Buffer!QueueNext, Buffer!Flush, held
<1>3. CASE UNCHANGED vars
  BY <1>3 DEF vars, bufferVars, Buffer!queueVars
<1> QED BY <1>1, <1>2, <1>3 DEF Next

\* The rest of a sequence, when another one follows it.
LEMMA RestConcat ==
  ASSUME NEW S, NEW s \in Seq(S), NEW t \in Seq(S), NEW n \in 0 .. Len(s)
  PROVE  /\ SubSeq(s \o t, n + 1, Len(s \o t)) = SubSeq(s, n + 1, Len(s)) \o t
         /\ SubSeq(s, n + 1, Len(s)) \in Seq(S)
<1> DEFINE a == SubSeq(s, 1, n)
           v == SubSeq(s, n + 1, Len(s))
<1>1. Len(s) \in Nat /\ n \in Nat /\ n <= Len(s)
  OBVIOUS
<1>2. a \in Seq(S) /\ Len(a) = n /\ v \in Seq(S)
  <2>1. (\A i \in 1 .. n : s[i] \in S) /\ (\A i \in n + 1 .. Len(s) : s[i] \in S)
    BY <1>1
  <2>2. a \in Seq(S) /\ Len(a) = IF 1 <= n THEN n - 1 + 1 ELSE 0
    BY <1>1, <2>1, SubSeqProperties
  <2>3. v \in Seq(S)
    BY <1>1, <2>1, SubSeqProperties
  <2> QED BY <1>1, <2>2, <2>3
<1>3. a \o v = s
  <2>1. 1 \in 1 .. Len(s) + 1 /\ n \in 1 - 1 .. Len(s) /\ Len(s) \in n .. Len(s)
    BY <1>1
  <2>2. a \o v = SubSeq(s, 1, Len(s))
    BY <2>1, ConcatAdjacentSubSeq
  <2> QED BY <2>2, SubSeqFull
<1> HIDE DEF a, v
<1>4. s \o t = a \o (v \o t) /\ v \o t \in Seq(S)
  <2>1. v \o t \in Seq(S)
    BY <1>2, ConcatProperties, Zenon
  <2>2. (a \o v) \o t = a \o (v \o t)
    BY <1>2, ConcatAssociative, SMTT(20)
  <2> QED BY <1>3, <2>1, <2>2, Zenon
<1> DEFINE w == v \o t
<1> HIDE DEF w
<1>5. SubSeq(a \o w, Len(a) + 1, Len(a \o w)) = w
  BY <1>2, <1>4, Remainder DEF w
<1>6. SubSeq(s \o t, n + 1, Len(s \o t)) = w
  BY <1>2, <1>4, <1>5 DEF w
<1> QED BY <1>2, <1>6 DEF v, w

\* The register before the buffer, as a sequence.
LEMMA RegisterTyped ==
  ASSUME NEW r, r = {} \/ \E i \in Instr : r = {i}
  PROVE  held(r) \in Seq(Instr) /\ Len(held(r)) \in 0 .. 1
<1>1. CASE r = {}
  <2>1. held(r) = <<>>
    BY <1>1, HeldIs
  <2> QED BY <2>1
<1>2. CASE \E i \in Instr : r = {i}
  <2>1. PICK i \in Instr : held(r) = <<i>>
    BY <1>2, HeldIs
  <2> QED BY <2>1
<1> QED BY <1>1, <1>2

LEMMA AheadLength == Inv => Len(ahead) <= 3
<1> SUFFICES ASSUME Inv PROVE Len(ahead) <= 3
  OBVIOUS
<1>1. held(ifid) \in Seq(Instr) /\ Len(held(ifid)) \in 0 .. 1
  BY RegisterTyped DEF Inv
<1>2. out \o held(first) \in Seq(Instr) /\ Len(out \o held(first)) <= 2
  BY HeldLength
<1> DEFINE queue == out \o held(first)
<1>3. ahead = queue \o held(ifid)
  BY DEF ahead
<1>4. queue \in Seq(Instr) /\ Len(queue) \in Nat /\ Len(queue) <= 2
  BY <1>2
<1> HIDE DEF queue
<1>5. Len(queue \o held(ifid)) = Len(queue) + Len(held(ifid))
  BY <1>1, <1>4, ConcatProperties
<1> QED BY <1>1, <1>3, <1>4, <1>5

\* Every cycle is a step of the queue from fetch to decode, or a mishandled one.
LEMMA FrontRefines == Inv /\ [Next]_vars => [Front!QueueNext]_(Front!queueVars)
<1> SUFFICES ASSUME Inv, [Next]_vars PROVE [Front!QueueNext]_(Front!queueVars)
  OBVIOUS
<1> DEFINE queue == out \o held(first)
<1>1. CASE Run
  <2>1. PICK fetched \in Optional(Incoming), ready, consumed, loop \in BOOLEAN :
             \E clear \in clears(ready) : Flow(fetched, ready, consumed, clear, loop)
    BY <1>1 DEF Run
  <2>2. PICK clear \in BOOLEAN : Flow(fetched, ready, consumed, clear, loop)
    BY <2>1 DEF clears
  <2> DEFINE rest == SubSeq(queue, taken' + 1, Len(queue))
  <2>3. /\ Inv' /\ ~flushed' /\ taken' \in 0 .. 2 /\ taken' <= Len(queue)
        /\ queue \in Seq(Instr) /\ queue' \in Seq(Instr) /\ Len(queue') <= 2
        /\ \/ given' = {} /\ queue' = rest
           \/ \E i \in Instr : ifid = {i} /\ given' = {i} /\ queue' = Append(rest, i)
    BY <2>2, BufferMoves
  <2>4. /\ loaded' = {} \/ \E i \in Instr : loaded' = {i}
        /\ ifid' = IF loaded' # {} THEN loaded' ELSE IF clear THEN {} ELSE ifid
    BY <2>2, FlowTyped
  <2>5. loaded' # {} => in_ready_o(ready, consumed)
    BY <2>2 DEF Flow, accepted
  <2>6. given' = {} => ifid = {} \/ ~in_ready_o(ready, consumed)
    BY <2>2, Branches
  <2>7. mishandled' \/ ifid = {} \/ loaded' # {} \/ (clear <=> given' # {})
    BY <2>2 DEF Flow, mishandles
  <2>8. taken' \in 0 .. Len(queue) /\ held(ifid) \in Seq(Instr) /\ held(loaded') \in Seq(Instr)
    BY <2>3, <2>4, RegisterTyped DEF Inv
  <2>9. Len(ahead) = Len(queue) + Len(held(ifid)) /\ Len(held(ifid)) \in Nat
    BY <2>3, <2>8, ConcatProperties DEF ahead
  <2> DEFINE behind == SubSeq(ahead, taken' + 1, Len(ahead))
  <2>10. behind = rest \o held(ifid) /\ rest \in Seq(Instr)
    <3>1. ahead = queue \o held(ifid)
      BY DEF ahead
    <3> HIDE DEF queue
    <3>2. queue \in Seq(Instr) /\ held(ifid) \in Seq(Instr) /\ taken' \in 0 .. Len(queue)
      BY <2>3, <2>8
    <3> DEFINE last == held(ifid)
               n    == taken'
    <3> HIDE DEF last, n
    <3>3. queue \in Seq(Instr) /\ last \in Seq(Instr) /\ n \in 0 .. Len(queue)
      BY <3>2 DEF last, n
    <3>4. /\ SubSeq(queue \o last, n + 1, Len(queue \o last))
               = SubSeq(queue, n + 1, Len(queue)) \o last
          /\ SubSeq(queue, n + 1, Len(queue)) \in Seq(Instr)
      BY <3>3, RestConcat, ZenonT(20)
    <3> QED BY <3>1, <3>4, Zenon DEF last, n
  <2>11. ahead' = queue' \o held(ifid')
    BY DEF ahead, held
  <2>12. (Len(ahead) <= 3)'
    BY <2>3, AheadLength, PTL
  <2> HIDE DEF queue, rest, behind
  <2>13. ASSUME ifid = {}
         PROVE  queue' = behind /\ ifid' = loaded'
    <3>1. held(ifid) = <<>> /\ queue' = rest
      BY <2>3, <2>13, HeldIs
    <3>2. queue' = behind
      BY <2>10, <3>1, ConcatEmptySeq
    <3> QED BY <2>4, <2>13, <3>2
  <2>14. ASSUME NEW i \in Instr, ifid = {i}, given' = {i}
         PROVE  queue' = behind /\ (mishandled' \/ ifid' = loaded')
    <3>1. held(ifid) = <<i>> /\ queue' = Append(rest, i)
      BY <2>3, <2>14, HeldIs
    <3>2. queue' = behind
      BY <2>10, <3>1, AppendIsConcat
    <3> QED BY <2>4, <2>7, <2>14, <3>2
  <2>15. ASSUME ifid # {}, given' = {}
         PROVE  mishandled' \/ (loaded' = {} /\ ahead' = behind)
    <3>1. loaded' = {} /\ queue' = rest
      BY <2>3, <2>5, <2>6, <2>15
    <3>2. mishandled' \/ ifid' = ifid
      BY <2>4, <2>7, <2>15, <3>1
    <3> QED BY <2>10, <2>11, <3>1, <3>2
  <2>16. ASSUME queue' = behind, ifid' = loaded'
         PROVE  \/ loaded' = {} /\ ahead' = behind
                \/ \E j \in Instr : loaded' = {j} /\ ahead' = Append(behind, j)
    <3>1. behind \in Seq(Instr)
      BY <2>3, <2>16 DEF queue
    <3>2. CASE loaded' = {}
      BY <2>11, <2>16, <3>1, <3>2, HeldIs, ConcatEmptySeq
    <3>3. ASSUME NEW j \in Instr, loaded' = {j}
          PROVE  ahead' = Append(behind, j)
      <4>1. held(ifid') = <<j>>
        BY <2>16, <3>3, HeldIs
      <4>2. Append(behind, j) = behind \o <<j>>
        BY <3>1, AppendIsConcat
      <4> QED BY <2>11, <2>16, <4>1, <4>2
    <3> QED BY <2>4, <3>2, <3>3
  <2>17. \/ mishandled'
         \/ loaded' = {} /\ ahead' = behind
         \/ \E j \in Instr : loaded' = {j} /\ ahead' = Append(behind, j)
    BY <2>3, <2>13, <2>14, <2>15, <2>16 DEF Inv
  <2>18. taken' <= Len(ahead) /\ taken' \in 0 .. 2 /\ ~flushed'
    BY <2>3, <2>8, <2>9 DEF queue
  <2> QED BY <2>12, <2>17, <2>18 DEF Front!QueueNext, Front!Move, behind
<1>2. CASE Redirected
  <2>1. PICK pc \in PC, clear \in BOOLEAN : Redirect(pc, clear)
    BY <1>2 DEF Redirected
  <2>2. out' = <<>> /\ first' = {} /\ loaded' = {} /\ flushed'
    BY <2>1 DEF Redirect, BufferClock, Flush
  <2>3. mishandled' \/ ifid' = {}
    BY <2>1 DEF Redirect, IfIdClock, mishandles
  <2>4. ifid' = {} => ahead' = <<>>
    BY <2>2, HeldIs, Short DEF ahead, held
  <2> QED BY <2>2, <2>3, <2>4 DEF Front!QueueNext, Front!Flush
<1>3. CASE UNCHANGED vars
  BY <1>3 DEF vars, bufferVars, Front!queueVars, ahead, held
<1> QED BY <1>1, <1>2, <1>3 DEF Next

\* The buffer is a queue: of what it accepts nothing is lost, repeated or reordered by
\* pairing, replay or partial takes (dual_fetch_pair_buffer.sv:103).
THEOREM BufferIsQueue == Spec => BufferSpec
<1>1. Init => Buffer!QueueInit
  BY HeldIs, Short DEF Init, BufferInit, Buffer!QueueInit, held
<1> QED BY <1>1, InvInit, InvNext, BufferRefines, PTL DEF Spec, BufferSpec, Buffer!QueueSpec

\* From the IF/ID register on, what fetch delivered reaches decode in order and once,
\* until a cycle mishandles the register: clears it of an instruction the buffer did not
\* accept, or keeps one that it did or that a redirect made void
\* (cv32e40p_if_stage.sv:241, gen_hamsa_core.py:110).
THEOREM FrontIsQueue == Spec => FrontSpec
<1>1. Init => Front!QueueInit
  BY HeldIs, Short DEF Init, BufferInit, Front!QueueInit, held, ahead
<1> QED BY <1>1, InvInit, InvNext, FrontRefines, PTL DEF Spec, FrontSpec, Front!QueueSpec

=============================================================================
