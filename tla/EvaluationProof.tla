-------------------------- MODULE EvaluationProof --------------------------
(***************************************************************************)
(* The result files of the runners: each holds the first rows of one       *)
(* command line, in its order and without a gap, and changes only once     *)
(* every simulation of a command line is through.  A row was measured on   *)
(* what it names, whatever files earlier runs left, and so are the         *)
(* speedups, plots and areas made of it; the readers of a log find the     *)
(* same value where it has one line of metrics; and the regression passes  *)
(* only what it ran.  For every set of command lines and firmware, and any *)
(* number of runs, edits and parses.                                       *)
(***************************************************************************)
EXTENDS Evaluation, TLAPS, SequenceTheorems, Induction

Kept == {"full", "matrix", "ppa"}
Fields == {"inv", "req", "at", "step", "rows", "sha", "failures", "seen", "result"}

\* The first rows a command line asks for, in its order.
RowsOf(rows, req) ==
  /\ rows \in Seq(Range(rows))
  /\ Len(rows) <= Len(Plan(req))
  /\ \A i \in 1 .. Len(rows) : /\ rows[i].benchmark = Called(req, Plan(req)[i][1])
                               /\ rows[i].configuration = Plan(req)[i][2]

Shape(r) == DOMAIN r = Fields /\ (r.step = "idle" => r.rows = <<>>)

\* Where a runner is: at an entry of its plan, or past the last one.
Placed(r) ==
  r.step # "idle" =>
    /\ r.req \in Requests
    /\ r.at \in 0 .. Len(Plan(r.req))
    /\ r.step # "end" => r.at # 0
    /\ r.step = "end" => r.at = Len(Plan(r.req))
    /\ r.step \in {"make", "simulate"} => r.req.script # "ppa"
    /\ r.step = "backend" => r.req.script = "ppa"

\* What it has collected: a row of every entry before that one.
Collected(r) ==
  r.step # "idle" /\ r.req.script # "regression" =>
    /\ RowsOf(r.rows, r.req)
    /\ Len(r.rows) = IF r.step = "end" THEN r.at ELSE r.at - 1

RunInv == Shape(run) /\ Placed(run) /\ Collected(run)
FilesInv ==
  /\ Kept \subseteq DOMAIN csv
  /\ \A f \in Kept : csv[f] # <<>> =>
       \E req \in Requests : req.script = f /\ RowsOf(csv[f], req)
Inv == RunInv /\ FilesInv

---------------------------------------------------------------------------
\* A sequence is one of its own elements, and of any that include them.
LEMMA OwnElements ==
  ASSUME NEW S, NEW s \in Seq(S)
  PROVE  s \in Seq(Range(s))
BY DEF Range

LEMMA Widened ==
  ASSUME NEW S, NEW s \in Seq(S), NEW T, S \subseteq T
  PROVE  s \in Seq(T)
<1>1. Len(s) \in Nat /\ s \in [1 .. Len(s) -> T]
  OBVIOUS
<1> QED
  BY <1>1

\* What two sequences in a row hold.
LEMMA Joined ==
  ASSUME NEW T, NEW s \in Seq(T), NEW t \in Seq(T)
  PROVE  Range(s \o t) = Range(s) \cup Range(t)
<1> DEFINE j == s \o t
<1>1. /\ j \in Seq(T) /\ Len(j) = Len(s) + Len(t)
      /\ \A i \in 1 .. Len(s) : j[i] = s[i]
      /\ \A i \in 1 .. Len(t) : j[Len(s) + i] = t[i]
  BY ConcatProperties
<1>2. Len(s) \in Nat /\ Len(t) \in Nat
  OBVIOUS
<1>3. /\ DOMAIN s = 1 .. Len(s) /\ DOMAIN t = 1 .. Len(t)
      /\ DOMAIN j = 1 .. Len(s) + Len(t)
  BY <1>1
<1> HIDE DEF j
<1>4. ASSUME NEW i \in DOMAIN j PROVE j[i] \in Range(s) \cup Range(t)
  <2>1. CASE i <= Len(s)
    BY <2>1, <1>1, <1>2, <1>3 DEF Range
  <2>2. CASE ~(i <= Len(s))
    <3>1. i - Len(s) \in 1 .. Len(t) /\ i = Len(s) + (i - Len(s))
      BY <2>2, <1>2, <1>3
    <3> QED
      BY <3>1, <1>1, <1>3 DEF Range
  <2> QED
    BY <2>1, <2>2
<1>5. \A x \in Range(s) : x \in Range(j)
  BY <1>1, <1>2, <1>3 DEF Range
<1>6. \A x \in Range(t) : x \in Range(j)
  <2> SUFFICES ASSUME NEW i \in 1 .. Len(t) PROVE t[i] \in Range(j)
    BY <1>3 DEF Range
  <2>1. Len(s) + i \in DOMAIN j /\ j[Len(s) + i] = t[i]
    BY <1>1, <1>2, <1>3
  <2> QED
    BY <2>1 DEF Range
<1>7. \A x \in Range(j) : x \in Range(s) \cup Range(t)
  BY <1>4 DEF Range
<1> QED
  BY <1>5, <1>6, <1>7 DEF j

\* The plan is made firmware by firmware.
Unfolds(req, g, n) ==
  g = [i \in 0 .. n |->
         IF i = 0 THEN <<>> ELSE g[i - 1] \o ItemsOf(req, req.firmware[i])]

LEMMA PlanUnfolds ==
  ASSUME NEW req, Len(req.firmware) \in Nat
  PROVE  \E upto : /\ Unfolds(req, upto, Len(req.firmware))
                   /\ Plan(req) = upto[Len(req.firmware)]
<1> DEFINE S == {n \in Nat : \E g : Unfolds(req, g, n)}
<1>1. 0 \in S
  <2>1. Unfolds(req, [i \in 0 .. 0 |-> <<>>], 0)
    BY DEF Unfolds
  <2> QED
    BY <2>1
<1>2. \A n \in Nat : n \in S => n + 1 \in S
  <2> SUFFICES ASSUME NEW n \in Nat, NEW g, Unfolds(req, g, n)
               PROVE  \E h : Unfolds(req, h, n + 1)
    OBVIOUS
  <2> DEFINE h == [i \in 0 .. n + 1 |->
                     IF i = n + 1 THEN g[n] \o ItemsOf(req, req.firmware[n + 1]) ELSE g[i]]
  <2>1. \A i \in 0 .. n : h[i] = g[i]
    OBVIOUS
  <2>2. \A i \in 0 .. n + 1 :
          h[i] = IF i = 0 THEN <<>> ELSE h[i - 1] \o ItemsOf(req, req.firmware[i])
    BY <2>1 DEF Unfolds
  <2>3. Unfolds(req, h, n + 1)
    BY <2>2 DEF Unfolds
  <2> QED
    BY <2>3
<1> HIDE DEF S
<1>3. Len(req.firmware) \in S
  BY <1>1, <1>2, SetInduction
<1> DEFINE upto == CHOOSE g : Unfolds(req, g, Len(req.firmware))
<1>4. Unfolds(req, upto, Len(req.firmware))
  BY <1>3 DEF S
<1>5. Plan(req) = upto[Len(req.firmware)]
  BY DEF Plan, Unfolds
<1> QED
  BY <1>4, <1>5

\* Every simulation of a firmware with each configuration of the command
\* line; of the firmware that is missing none, unless the flow is not run on it.
Wanted(req, firmware) ==
  {<<f, c>> : f \in IF req.script = "ppa" THEN firmware ELSE firmware \cap Firmware,
              c \in Range(req.configs)}
FirstFirmware(req, n) == {req.firmware[i] : i \in 1 .. n}

LEMMA ItemsAre ==
  ASSUME NEW req, req.configs \in Seq(Range(req.configs)), NEW f
  PROVE  /\ ItemsOf(req, f) \in Seq(Range(ItemsOf(req, f)))
         /\ Range(ItemsOf(req, f)) = Wanted(req, {f})
<1> DEFINE n == Len(req.configs)
<1>1. n \in Nat /\ DOMAIN req.configs = 1 .. n
  OBVIOUS
<1>2. CASE req.script # "ppa" /\ f \notin Firmware
  <2>1. ItemsOf(req, f) = <<>>
    BY <1>2 DEF ItemsOf
  <2>2. Wanted(req, {f}) = {}
    BY <1>2 DEF Wanted
  <2>3. <<>> \in Seq(Range(<<>>)) /\ Range(<<>>) = {}
    BY DEF Range
  <2> QED
    BY <2>1, <2>2, <2>3
<1>3. CASE ~(req.script # "ppa" /\ f \notin Firmware)
  <2> DEFINE items == [j \in 1 .. n |-> <<f, req.configs[j]>>]
             S == {<<f, c>> : c \in Range(req.configs)}
  <2>1. ItemsOf(req, f) = items
    BY <1>1, <1>3 DEF ItemsOf
  <2>2. \A j \in 1 .. n : req.configs[j] \in Range(req.configs)
    BY <1>1 DEF Range
  <2>3. items \in [1 .. n -> S]
    BY <2>2
  <2>4. items \in Seq(S)
    BY <1>1, <2>3
  <2>5. \A c \in Range(req.configs) : \E j \in 1 .. n : c = req.configs[j]
    BY <1>1 DEF Range
  <2>6. Range(items) = S
    BY <2>3, <2>5 DEF Range
  <2>7. S = Wanted(req, {f})
    <3>1. (IF req.script = "ppa" THEN {f} ELSE {f} \cap Firmware) = {f}
      BY <1>3
    <3> QED
      BY <3>1 DEF Wanted
  <2> QED
    BY <2>1, <2>4, <2>6, <2>7
<1> QED
  BY <1>2, <1>3

LEMMA PlanContent ==
  ASSUME NEW req \in Requests
  PROVE  Plan(req) \in Seq(Range(Plan(req))) /\ Range(Plan(req)) = Wanted(req, Range(req.firmware))
<1> DEFINE last == Len(req.firmware)
<1>1. /\ last \in Nat /\ DOMAIN req.firmware = 1 .. last
      /\ req.configs \in Seq(Range(req.configs))
  BY RequestsAssumption
<1>2. PICK upto :
        Unfolds(req, upto, last) /\ Plan(req) = upto[last]
  BY <1>1, PlanUnfolds
<1> DEFINE Right(n) == /\ upto[n] \in Seq(Range(upto[n]))
                       /\ Range(upto[n]) = Wanted(req, FirstFirmware(req, n))
           S == {n \in Nat : n <= last => Right(n)}
<1>3. 0 \in S
  <2>1. upto[0] = <<>>
    BY <1>1, <1>2 DEF Unfolds
  <2>2. <<>> \in Seq(Range(<<>>)) /\ Range(<<>>) = {}
    BY DEF Range
  <2>3. Wanted(req, FirstFirmware(req, 0)) = {}
    BY DEF Wanted, FirstFirmware
  <2> QED
    BY <2>1, <2>2, <2>3
<1> HIDE DEF Right
<1>4. \A n \in Nat : n \in S => n + 1 \in S
  <2> SUFFICES ASSUME NEW n \in Nat, n + 1 <= last, Right(n)
               PROVE  Right(n + 1)
    BY <1>1
  <2> USE DEF Right
  <2> DEFINE f == req.firmware[n + 1]
             some == ItemsOf(req, f)
             before == upto[n]
             T == Range(before) \cup Range(some)
  <2>1. upto[n + 1] = before \o some
    <3>1. n + 1 \in 0 .. last /\ n + 1 # 0 /\ (n + 1) - 1 = n
      BY <1>1
    <3> QED
      BY <1>2, <3>1 DEF Unfolds
  <2>2. some \in Seq(Range(some)) /\ Range(some) = Wanted(req, {f})
    BY <1>1, ItemsAre
  <2>8. before \in Seq(Range(before)) /\ Range(before) = Wanted(req, FirstFirmware(req, n))
    OBVIOUS
  <2> HIDE DEF before, some
  <2>3. before \in Seq(T) /\ some \in Seq(T)
    BY <2>2, <2>8, Widened, ZenonT(30)
  <2>4. Range(upto[n + 1]) = Range(before) \cup Range(some)
    BY <2>1, <2>3, Joined
  <2>5. upto[n + 1] \in Seq(T)
    BY <2>1, <2>3
  <2>6. FirstFirmware(req, n + 1) = FirstFirmware(req, n) \cup {f}
    BY DEF FirstFirmware
  <2>7. Wanted(req, FirstFirmware(req, n + 1))
          = Wanted(req, FirstFirmware(req, n)) \cup Wanted(req, {f})
    BY <2>6 DEF Wanted
  <2> QED
    BY <2>2, <2>4, <2>5, <2>7, <2>8
<1> HIDE DEF S
<1>5. last \in S
  BY <1>1, <1>3, <1>4, SetInduction
<1>6. FirstFirmware(req, last) = Range(req.firmware)
  BY <1>1 DEF FirstFirmware, Range
<1> QED
  BY <1>1, <1>2, <1>5, <1>6 DEF S, Right

LEMMA PlanSequence == \A req \in Requests : Plan(req) \in Seq(Range(Plan(req)))
BY PlanContent

LEMMA PlanLength == \A req \in Requests : Len(Plan(req)) \in Nat
BY PlanSequence

\* An invocation that is over holds nothing.
LEMMA OverSound ==
  ASSUME NEW r, DOMAIN r = Fields, NEW result
  PROVE  Shape(Over(r, result)) /\ Placed(Over(r, result)) /\ Collected(Over(r, result))
BY DEF Over, Shape, Placed, Collected, Fields

\* From an entry to the next one, with the rows that are due by then.
LEMMA AfterSound ==
  ASSUME NEW r, DOMAIN r = Fields, r.req \in Requests,
         r.at \in 0 .. Len(Plan(r.req)),
         r.req.script # "regression" => RowsOf(r.rows, r.req) /\ Len(r.rows) = r.at
  PROVE  Shape(After(r)) /\ Placed(After(r)) /\ Collected(After(r))
<1>1. Len(Plan(r.req)) \in Nat
  BY PlanLength
<1>2. CASE r.at = Len(Plan(r.req))
  <2> DEFINE a == [r EXCEPT !.step = "end"]
  <2>1. DOMAIN a = Fields /\ a.step = "end" /\ a.req = r.req /\ a.at = r.at /\ a.rows = r.rows
    BY DEF Fields
  <2>2. After(r) = a
    BY <1>2 DEF After
  <2> HIDE DEF a
  <2> QED
    BY <1>1, <1>2, <2>1, <2>2 DEF Shape, Placed, Collected
<1>3. CASE r.at # Len(Plan(r.req))
  <2> DEFINE a == [r EXCEPT !.at = @ + 1, !.step = "generate"]
  <2>1. /\ DOMAIN a = Fields /\ a.step = "generate" /\ a.req = r.req
        /\ a.at = r.at + 1 /\ a.rows = r.rows
    BY DEF Fields
  <2>2. After(r) = a
    BY <1>3 DEF After
  <2> HIDE DEF a
  <2> QED
    BY <1>1, <1>3, <2>1, <2>2 DEF Shape, Placed, Collected
<1> QED
  BY <1>2, <1>3

\* A row more, for the entry the runner is at.
LEMMA RowKept ==
  ASSUME RunInv, run.step \notin {"idle", "end"}, run.req.script # "regression",
         NEW vals
  PROVE  LET rows == KeepRow(vals, run.rows)
         IN  RowsOf(rows, run.req) /\ Len(rows) = run.at
<1> DEFINE S == Range(run.rows)
           row == Row(Called(run.req, Item[1]), Item[2],
                      IF run.req.script = "matrix" THEN run.sha ELSE Blank, vals)
           rows == Append(run.rows, row)
<1>1. /\ run.rows \in Seq(S) /\ Len(run.rows) = run.at - 1
      /\ run.req \in Requests /\ run.at \in 1 .. Len(Plan(run.req))
      /\ \A i \in 1 .. Len(run.rows) :
           /\ run.rows[i].benchmark = Called(run.req, Plan(run.req)[i][1])
           /\ run.rows[i].configuration = Plan(run.req)[i][2]
  BY PlanLength DEF RunInv, Placed, Collected, RowsOf
<1>2. /\ row.benchmark = Called(run.req, Plan(run.req)[run.at][1])
      /\ row.configuration = Plan(run.req)[run.at][2]
  BY DEF Row, Item
<1>3. run.rows \in Seq(S \cup {row})
  BY <1>1
<1> HIDE DEF S, row
<1>4. /\ rows \in Seq(S \cup {row}) /\ Len(rows) = Len(run.rows) + 1
      /\ rows[Len(run.rows) + 1] = row
      /\ \A i \in 1 .. Len(run.rows) : rows[i] = run.rows[i]
  BY <1>3, AppendProperties
<1>5. Len(run.rows) \in Nat /\ Len(Plan(run.req)) \in Nat
  BY <1>3, <1>1, PlanLength
<1> HIDE DEF rows
<1>6. rows \in Seq(Range(rows))
  BY <1>4 DEF Range
<1>7. Len(rows) = run.at /\ Len(rows) <= Len(Plan(run.req))
  BY <1>1, <1>4, <1>5
<1>8. ASSUME NEW i \in 1 .. Len(rows)
      PROVE  /\ rows[i].benchmark = Called(run.req, Plan(run.req)[i][1])
             /\ rows[i].configuration = Plan(run.req)[i][2]
  <2>1. CASE i = run.at
    BY <2>1, <1>1, <1>2, <1>4
  <2>2. CASE i # run.at
    <3>1. i \in 1 .. Len(run.rows)
      BY <2>2, <1>1, <1>5, <1>7
    <3> QED
      BY <3>1, <1>1, <1>4
  <2> QED
    BY <2>1, <2>2
<1>9. RowsOf(rows, run.req)
  BY <1>6, <1>7, <1>8 DEF RowsOf
<1> QED
  BY <1>7, <1>9 DEF KeepRow, rows, row

\* A runner's step between an entry and its result.
LEMMA StepOn ==
  ASSUME RunInv, run.step \notin {"idle", "end"}, NEW s, s \notin {"idle", "end"},
         s \in {"make", "simulate"} => run.req.script # "ppa",
         s = "backend" => run.req.script = "ppa",
         run' = [run EXCEPT !.step = s]
  PROVE  RunInv'
<1>1. /\ DOMAIN run' = Fields /\ run'.step = s /\ run'.req = run.req
      /\ run'.at = run.at /\ run'.rows = run.rows
  BY DEF RunInv, Shape, Fields
<1> QED
  BY <1>1 DEF RunInv, Shape, Placed, Collected

---------------------------------------------------------------------------
LEMMA InvInit == Init => Inv
<1> SUFFICES ASSUME Init PROVE Inv
  OBVIOUS
<1>1. Shape(run) /\ Placed(run) /\ Collected(run)
  BY DEF Init, Shape, Placed, Collected, Fields
<1>2. FilesInv
  BY DEF Init, FilesInv, Kept, None
<1> QED
  BY <1>1, <1>2 DEF Inv, RunInv

\* The start of an invocation.
LEMMA BeginSound == RunInv /\ Begin => RunInv'
<1> SUFFICES ASSUME RunInv, Begin PROVE RunInv'
  OBVIOUS
<1>1. PICK req \in Requests :
        LET r == [run EXCEPT !.inv = @ + 1, !.req = req, !.at = 0, !.sha = version,
                    !.result = "none",
                    !.failures = {<<f, "missing">> : f \in Range(req.firmware) \ Firmware}]
        IN  run' = IF Refused(req) THEN Over(r, "failed") ELSE After(r)
  BY DEF Begin
<1> DEFINE r == [run EXCEPT !.inv = @ + 1, !.req = req, !.at = 0, !.sha = version,
                   !.result = "none",
                   !.failures = {<<f, "missing">> : f \in Range(req.firmware) \ Firmware}]
<1>2. DOMAIN r = Fields /\ r.req = req /\ r.at = 0 /\ r.rows = run.rows
  BY DEF RunInv, Shape, Fields
<1>3. run' = Over(r, "failed") \/ run' = After(r)
  BY <1>1
<1> HIDE DEF r
<1>4. run.rows = <<>>
  BY DEF Begin, RunInv, Shape
<1>5. RowsOf(r.rows, r.req) /\ Len(r.rows) = r.at
  BY <1>2, <1>4, PlanLength DEF RowsOf
<1>6. r.at \in 0 .. Len(Plan(r.req))
  BY <1>2, PlanLength
<1>7. CASE run' = Over(r, "failed")
  BY <1>2, <1>7, OverSound DEF RunInv
<1>8. CASE run' = After(r)
  BY <1>2, <1>5, <1>6, <1>8, AfterSound DEF RunInv
<1> QED
  BY <1>3, <1>7, <1>8

\* The invocation ends here, whatever it has done.
LEMMA OverStep ==
  ASSUME RunInv, NEW result, run' = Over(run, result)
  PROVE  RunInv'
BY OverSound DEF RunInv, Shape

\* The entry is done, with a row of it unless the runner is the regression.
LEMMA AfterStep ==
  ASSUME RunInv, run.step \notin {"idle", "end"}, NEW r, run' = After(r),
         DOMAIN r = Fields, r.req = run.req, r.at = run.at,
         run.req.script # "regression" => RowsOf(r.rows, run.req) /\ Len(r.rows) = run.at
  PROVE  RunInv'
<1>1. r.req \in Requests /\ r.at \in 0 .. Len(Plan(r.req))
  BY DEF RunInv, Placed
<1> QED
  BY <1>1, AfterSound DEF RunInv

\* An entry that leaves a row.
LEMMA RowStep ==
  ASSUME RunInv, run.step \notin {"idle", "end"}, run.req.script # "regression",
         NEW vals, run' = After([run EXCEPT !.rows = KeepRow(vals, @)])
  PROVE  RunInv'
<1> DEFINE rows == KeepRow(vals, run.rows)
           r == [run EXCEPT !.rows = rows]
<1>1. RowsOf(rows, run.req) /\ Len(rows) = run.at
  BY RowKept
<1>2. run' = After(r)
  OBVIOUS
<1> HIDE DEF rows
<1>3. DOMAIN r = Fields /\ r.req = run.req /\ r.at = run.at /\ r.rows = rows
  BY DEF RunInv, Shape, Fields
<1> HIDE DEF r
<1> QED
  BY <1>1, <1>2, <1>3, AfterStep

\* Each runner makes of a simulation a row, a failure, or its end.
LEMMA SimulatedSound ==
  ASSUME RunInv, run.step \notin {"idle", "end"}, run.req.script # "ppa",
         run.req.script \in {"full", "matrix", "regression"},
         NEW outcome, NEW rc, NEW written, NEW later,
         Simulated(outcome, rc, written, later)
  PROVE  RunInv'
<1> DEFINE text == Output(outcome, Item[1], work[Suffix(Item[2])], later)
           kept == IF written # None THEN With(sigs, Item, written) ELSE sigs
           sig == At(kept, Item, None)
<1>1. CASE run.req.script = "full"
  <2>1. run' = full_matrix(rc, text)
    BY <1>1 DEF Simulated
  <2>2. \/ run' = Over(run, "failed")
        \/ run' = After([run EXCEPT !.rows = KeepRow(last_line(text), @)])
    BY <2>1 DEF full_matrix
  <2> HIDE DEF text
  <2> QED
    BY <1>1, <2>2, OverStep, RowStep
<1>2. CASE run.req.script = "matrix"
  <2>1. run' = benchmark_matrix(rc, text)
    BY <1>2 DEF Simulated
  <2> HIDE DEF text
  <2> DEFINE vals == [k \in MATRIX_FIELDS |-> At(parse_metrics(text), k, Blank)]
  <2>2. \/ run' = Over(run, "failed")
        \/ run' = After([run EXCEPT !.rows = KeepRow(vals, @)])
    BY <2>1 DEF benchmark_matrix
  <2> HIDE DEF vals
  <2> QED
    BY <1>2, <2>2, OverStep, RowStep
<1>3. CASE run.req.script = "regression"
  <2>1. run' = arch_regression(rc, text, sig)
    BY <1>3 DEF Simulated
  <2> HIDE DEF text, sig
  <2> DEFINE failed == [run EXCEPT !.failures = @ \cup {Item}]
             seen == [run EXCEPT !.seen = With(@, Item, sig)]
  <2>2. run' = After(failed) \/ run' = After(run) \/ run' = After(seen)
    BY <2>1 DEF arch_regression
  <2>3. /\ DOMAIN failed = Fields /\ failed.req = run.req /\ failed.at = run.at
        /\ DOMAIN seen = Fields /\ seen.req = run.req /\ seen.at = run.at
        /\ DOMAIN run = Fields
    BY DEF RunInv, Shape, Fields
  <2> HIDE DEF failed, seen
  <2> QED
    BY <1>3, <2>2, <2>3, AfterStep
<1> QED
  BY <1>1, <1>2, <1>3

---------------------------------------------------------------------------
\* Every step of a runner keeps its place and its rows.
LEMMA RunStep ==
  ASSUME RunInv, [Next]_vars
  PROVE  RunInv'
<1>1. CASE Begin
  BY <1>1, BeginSound
<1>2. CASE Generate
  <2>1. CASE run.req.script = "ppa"
    <3>1. run.step \notin {"idle", "end"} /\ run' = [run EXCEPT !.step = "backend"]
      BY <1>2, <2>1 DEF Generate, GeneratedFor
    <3> QED
      BY <2>1, <3>1, StepOn
  <2>2. CASE run.req.script # "ppa"
    <3>1. run.step \notin {"idle", "end"} /\ run' = [run EXCEPT !.step = "make"]
      BY <1>2, <2>2 DEF Generate, GeneratedFor
    <3> QED
      BY <2>2, <3>1, StepOn
  <2> QED
    BY <2>1, <2>2
<1>3. CASE Make
  <2>1. run.step = "make" /\ run' = [run EXCEPT !.step = "simulate"]
    BY <1>3 DEF Make
  <2>2. run.req.script # "ppa"
    BY <2>1 DEF RunInv, Placed
  <2> QED
    BY <2>1, <2>2, StepOn
<1>4. CASE Simulate
  <2>1. run.req \in Requests /\ run.req.script # "ppa"
    BY <1>4 DEF Simulate, RunInv, Placed
  <2>2. run.req.script \in {"full", "matrix", "regression"}
    BY <2>1, RequestsAssumption
  <2>3. PICK outcome, rc, written, later : Simulated(outcome, rc, written, later)
    BY <1>4 DEF Simulate
  <2>4. run.step \notin {"idle", "end"}
    BY <1>4 DEF Simulate
  <2> QED
    BY <2>1, <2>2, <2>3, <2>4, SimulatedSound
<1>5. CASE GenerateOrMakeFails
  <2>1. run.step \notin {"idle", "end"} /\ run.req \in Requests
    BY <1>5 DEF GenerateOrMakeFails, RunInv, Placed
  <2>2. CASE run.req.script = "ppa"
    BY <1>5, <2>2, OverStep DEF GenerateOrMakeFails
  <2>3. CASE run.req.script # "ppa"
    <3>1. Simulated("broken", 1, None, {})
      BY <1>5, <2>3 DEF GenerateOrMakeFails
    <3>2. run.req.script \in {"full", "matrix", "regression"}
      BY <2>1, <2>3, RequestsAssumption
    <3> QED
      BY <2>1, <2>3, <3>1, <3>2, SimulatedSound
  <2> QED
    BY <2>2, <2>3
<1>6. CASE Backend
  <2>1. run.step \notin {"idle", "end"} /\ run.req.script # "regression"
    BY <1>6 DEF Backend, RunInv, Placed
  <2>2. \/ run' = Over(run, "failed")
        \/ \E vals : run' = After([run EXCEPT !.rows = KeepRow(vals, @)])
    BY <1>6 DEF Backend
  <2> QED
    BY <2>1, <2>2, OverStep, RowStep
<1>7. CASE End
  <2>1. \E result : run' = Over(run, result)
    BY <1>7 DEF End
  <2> QED
    BY <2>1, OverStep
<1>8. CASE Crash
  BY <1>8, OverStep DEF Crash
<1>9. CASE run' = run
  BY <1>9 DEF RunInv, Shape, Placed, Collected
<1>10. ParseHamsa \/ ParseSparv \/ compute_metrics \/ EditSources \/ UNCHANGED vars
         => run' = run
  BY DEF ParseHamsa, ParseSparv, compute_metrics, EditSources, Rest, vars
<1> QED
  BY <1>1, <1>2, <1>3, <1>4, <1>5, <1>6, <1>7, <1>8, <1>9, <1>10 DEF Next

\* The kept files change when a run ends or dies while it writes.
LEMMA FilesChange ==
  ASSUME Inv, [Next]_vars, NEW f \in Kept, csv'[f] # csv[f]
  PROVE  /\ run.step = "end" /\ run.req.script = f
         /\ \E n \in 0 .. Len(run.rows) : csv'[f] = SubSeq(run.rows, 1, n)
<1>1. Kept \subseteq DOMAIN csv /\ f \notin {"parsed", "sparv", "derived"}
  BY DEF Inv, FilesInv, Kept
<1>2. CASE End
  <2>1. /\ run.step = "end" /\ run.req.script # "regression"
        /\ csv' = [csv EXCEPT ![run.req.script] = run.rows]
    BY <1>2 DEF End
  <2>2. run.req.script = f /\ csv'[f] = run.rows
    BY <2>1, <1>1
  <2>3. run.rows \in Seq(Range(run.rows))
    BY <2>1 DEF Inv, RunInv, Collected, RowsOf
  <2>4. run.rows = SubSeq(run.rows, 1, Len(run.rows)) /\ Len(run.rows) \in Nat
    BY <2>3
  <2> QED
    BY <2>1, <2>2, <2>4
<1>3. CASE Crash
  <2>1. /\ run.step = "end" /\ run.req.script # "regression"
        /\ \E n \in 0 .. Len(run.rows) :
             csv' = [csv EXCEPT ![run.req.script] = SubSeq(run.rows, 1, n)]
    BY <1>3 DEF Crash
  <2> QED
    BY <2>1, <1>1
<1>4. ~(Begin \/ Generate \/ Make \/ Simulate \/ GenerateOrMakeFails \/ Backend
         \/ EditSources \/ UNCHANGED vars)
  BY DEF Begin, Generate, GeneratedFor, Make, Simulate, GenerateOrMakeFails, Backend, EditSources, vars
<1>5. ~ParseHamsa /\ ~ParseSparv /\ ~compute_metrics
  BY <1>1 DEF ParseHamsa, ParseSparv, compute_metrics
<1> QED
  BY <1>2, <1>3, <1>4, <1>5 DEF Next

\* A first part of the rows of a command line.
LEMMA RowsPrefix ==
  ASSUME NEW rows, NEW req \in Requests, RowsOf(rows, req), NEW n \in 0 .. Len(rows)
  PROVE  RowsOf(SubSeq(rows, 1, n), req)
<1>1. rows \in Seq(Range(rows)) /\ Len(rows) \in Nat /\ Len(Plan(req)) \in Nat
  BY PlanLength DEF RowsOf
<1> DEFINE part == SubSeq(rows, 1, n)
<1>2. /\ part \in Seq(Range(rows)) /\ Len(part) = n
      /\ \A i \in 1 .. n : part[i] = rows[i]
  BY <1>1, SubSeqProperties
<1> HIDE DEF part
<1>3. part \in Seq(Range(part))
  BY <1>2 DEF Range
<1>4. \A i \in 1 .. n : /\ part[i].benchmark = Called(req, Plan(req)[i][1])
                         /\ part[i].configuration = Plan(req)[i][2]
  BY <1>1, <1>2 DEF RowsOf
<1>5. n <= Len(Plan(req))
  BY <1>1 DEF RowsOf
<1>6. RowsOf(part, req)
  BY <1>2, <1>3, <1>4, <1>5 DEF RowsOf
<1> QED
  BY <1>6 DEF part

LEMMA FilesStep ==
  ASSUME Inv, [Next]_vars
  PROVE  FilesInv'
<1>1. Kept \subseteq DOMAIN csv'
  <2>1. DOMAIN csv' = DOMAIN csv
    BY DEF Next, Begin, Generate, GeneratedFor, Make, Simulate, GenerateOrMakeFails, Backend, End, Crash,
           ParseHamsa, ParseSparv, compute_metrics, EditSources, vars
  <2> QED
    BY <2>1 DEF Inv, FilesInv
<1>2. ASSUME NEW f \in Kept, csv'[f] # <<>>
      PROVE  \E req \in Requests : req.script = f /\ RowsOf(csv'[f], req)
  <2>1. CASE csv'[f] = csv[f]
    BY <2>1, <1>2 DEF Inv, FilesInv
  <2>2. CASE csv'[f] # csv[f]
    <3>1. /\ run.step = "end" /\ run.req.script = f
          /\ \E n \in 0 .. Len(run.rows) : csv'[f] = SubSeq(run.rows, 1, n)
      BY <2>2, FilesChange
    <3>2. run.req \in Requests /\ RowsOf(run.rows, run.req)
      BY <3>1 DEF Inv, RunInv, Placed, Collected, Kept
    <3> QED
      BY <3>1, <3>2, RowsPrefix
  <2> QED
    BY <2>1, <2>2
<1> QED
  BY <1>1, <1>2 DEF FilesInv

LEMMA InvNext == Inv /\ [Next]_vars => Inv'
BY RunStep, FilesStep DEF Inv

---------------------------------------------------------------------------
(***************************************************************************)
(* The images the simulations run on.                                      *)
(***************************************************************************)
\* What is generated and compiled, between the step that makes it and the one
\* that uses it: an image of the entry's configuration, as recent as its commit.
MadeFor(cfg, image) == \E v \in run.sha .. version : image = Image(Resolved(cfg), v)
ImagesInv ==
  /\ version \in 0 .. MaxEdits
  /\ DOMAIN generated = TestbenchSets \cup {"sparv", "H2-5R3W"} /\ DOMAIN work = TestbenchSets
  /\ run.step # "idle" => run.sha \in 0 .. version
  /\ run.step \in {"make", "simulate"} => Item[2] \in AllConfigs
  /\ run.step = "backend" => Item[2] \in Synthesized
  /\ run.step = "make" => due /\ MadeFor(Item[2], generated[Suffix(Item[2])])
  /\ run.step = "simulate" => MadeFor(Item[2], work[Suffix(Item[2])])
  /\ run.step = "backend" /\ Item[2] # "B0" =>
       MadeFor(Item[2], generated[Core(Item[2])])

\* What the end of an invocation, and the next entry, leave of a run.
LEMMA OverIs ==
  ASSUME NEW r, DOMAIN r = Fields, NEW result
  PROVE  LET o == Over(r, result)
         IN  /\ o.step = "idle" /\ o.inv = r.inv /\ o.req = r.req /\ o.at = r.at
             /\ o.failures = r.failures /\ o.result = result /\ o.sha = r.sha
             /\ o.rows = <<>>
BY DEF Over, Fields

LEMMA AfterIs ==
  ASSUME NEW r, DOMAIN r = Fields
  PROVE  LET a == After(r)
         IN  /\ \/ a.step = "end" /\ a.at = r.at /\ r.at = Len(Plan(r.req))
                \/ a.step = "generate" /\ a.at = r.at + 1 /\ r.at # Len(Plan(r.req))
             /\ a.inv = r.inv /\ a.req = r.req /\ a.sha = r.sha /\ a.rows = r.rows
             /\ a.failures = r.failures /\ a.seen = r.seen /\ a.result = r.result
BY DEF After, Fields

\* What a simulation makes of a run: its end, or the entry after this one, with
\* a row, a failure or a signature more.
Collects(r, rc, text) ==
  \/ /\ r.req.script = "full" /\ rc = 0 /\ Has(text, "HAMSA_METRIC")
     /\ run' = After([r EXCEPT !.rows = KeepRow(last_line(text), r.rows)])
  \/ /\ r.req.script = "matrix" /\ rc = 0 /\ "cycles" \in DOMAIN parse_metrics(text)
     /\ run' = After([r EXCEPT !.rows = KeepRow(
                 [k \in MATRIX_FIELDS |-> At(parse_metrics(text), k, Blank)], r.rows)])
Fails(r) ==
  r.req.script = "regression" /\ run' = After([r EXCEPT !.failures = @ \cup {Item}])
Passes(r, rc, text, sig) ==
  /\ r.req.script = "regression" /\ rc = 0 /\ Has(text, "success")
  /\ \/ ~r.req.signatures /\ run' = After(r)
     \/ r.req.signatures /\ sig # None /\ run' = After([r EXCEPT !.seen = With(@, Item, sig)])

LEMMA SimulatedIs ==
  ASSUME run.req.script \in {"full", "matrix", "regression"},
         NEW outcome, NEW rc, NEW written, NEW later,
         Simulated(outcome, rc, written, later)
  PROVE  LET text == Output(outcome, Item[1], work[Suffix(Item[2])], later)
         IN  \/ run.req.script # "regression" /\ run' = Over(run, "failed")
             \/ Collects(run, rc, text)
             \/ Fails(run)
             \/ Passes(run, rc, text, At(sigs', Item, None))
<1> DEFINE text == Output(outcome, Item[1], work[Suffix(Item[2])], later)
           sig == At(sigs', Item, None)
<1>1. CASE run.req.script = "full"
  <2>1. run' = full_matrix(rc, text)
    BY <1>1 DEF Simulated
  <2> HIDE DEF text
  <2> QED
    BY <1>1, <2>1 DEF full_matrix, Collects, text
<1>2. CASE run.req.script = "matrix"
  <2>1. run' = benchmark_matrix(rc, text)
    BY <1>2 DEF Simulated
  <2> HIDE DEF text
  <2> QED
    BY <1>2, <2>1 DEF benchmark_matrix, Collects, text
<1>3. CASE run.req.script = "regression"
  <2>1. run' = arch_regression(rc, text, sig)
    BY <1>3 DEF Simulated
  <2> HIDE DEF text, sig
  <2>2. Fails(run) \/ Passes(run, rc, text, sig)
    BY <1>3, <2>1 DEF arch_regression, Fails, Passes
  <2> QED
    BY <2>2 DEF text, sig
<1> QED
  BY <1>1, <1>2, <1>3

LEMMA SimulatedMoves ==
  ASSUME RunInv, run.req.script \in {"full", "matrix", "regression"},
         NEW outcome, NEW rc, NEW written, NEW later,
         Simulated(outcome, rc, written, later)
  PROVE  /\ run'.step \in {"idle", "end", "generate"} /\ run'.sha = run.sha
         /\ run'.req = run.req /\ run'.inv = run.inv
<1> DEFINE text == Output(outcome, Item[1], work[Suffix(Item[2])], later)
<1>1. \/ run' = Over(run, "failed")
      \/ Collects(run, rc, text) \/ Fails(run)
      \/ Passes(run, rc, text, At(sigs', Item, None))
  BY SimulatedIs
<1>2. DOMAIN run = Fields
  BY DEF RunInv, Shape
<1>3. \/ run' = Over(run, "failed")
      \/ \E r : /\ run' = After(r) /\ DOMAIN r = Fields
                /\ r.sha = run.sha /\ r.req = run.req /\ r.inv = run.inv
  <2>1. CASE Collects(run, rc, text)
    <3>1. PICK rows : run' = After([run EXCEPT !.rows = rows])
      BY <2>1 DEF Collects
    <3> QED
      BY <3>1, <1>2 DEF Fields
  <2>2. CASE Fails(run)
    <3>1. PICK failures : run' = After([run EXCEPT !.failures = failures])
      BY <2>2 DEF Fails
    <3> QED
      BY <3>1, <1>2 DEF Fields
  <2>3. CASE Passes(run, rc, text, At(sigs', Item, None))
    <3>1. run' = After(run) \/ \E seen : run' = After([run EXCEPT !.seen = seen])
      BY <2>3 DEF Passes
    <3>2. CASE run' = After(run)
      BY <3>2, <1>2
    <3>3. CASE \E seen : run' = After([run EXCEPT !.seen = seen])
      BY <3>3, <1>2 DEF Fields
    <3> QED
      BY <3>1, <3>2, <3>3
  <2> QED
    BY <1>1, <2>1, <2>2, <2>3
<1> QED
  BY <1>2, <1>3, OverIs, AfterIs

LEMMA ImagesInit == Init => ImagesInv
BY BoundsAssumption DEF Init, ImagesInv

\* An entry or an invocation is over: what is generated and compiled stays.
LEMMA ImagesKept ==
  ASSUME ImagesInv, UNCHANGED <<version, generated, work>>,
         run'.step \in {"idle", "end", "generate"},
         run'.step # "idle" => run'.sha \in 0 .. version
  PROVE  ImagesInv'
BY DEF ImagesInv

LEMMA ImagesNext == RunInv /\ ImagesInv /\ [Next]_vars => ImagesInv'
<1> SUFFICES ASSUME RunInv, ImagesInv, [Next]_vars PROVE ImagesInv'
  OBVIOUS
<1>1. DOMAIN run = Fields
  BY DEF RunInv, Shape
<1>2. CASE Begin
  <2>1. PICK req \in Requests :
          LET r == [run EXCEPT !.inv = @ + 1, !.req = req, !.at = 0, !.sha = version,
                      !.result = "none",
                      !.failures = {<<f, "missing">> : f \in Range(req.firmware) \ Firmware}]
          IN  run' = IF Refused(req) THEN Over(r, "failed") ELSE After(r)
    BY <1>2 DEF Begin
  <2> DEFINE r == [run EXCEPT !.inv = @ + 1, !.req = req, !.at = 0, !.sha = version,
                     !.result = "none",
                     !.failures = {<<f, "missing">> : f \in Range(req.firmware) \ Firmware}]
  <2>2. DOMAIN r = Fields /\ r.sha = version
    BY <1>1 DEF Fields
  <2>3. run' = Over(r, "failed") \/ run' = After(r)
    BY <2>1
  <2> HIDE DEF r
  <2>4. run'.step \in {"idle", "end", "generate"} /\ run'.sha = version
    BY <2>2, <2>3, OverIs, AfterIs
  <2>5. version \in 0 .. version
    BY BoundsAssumption DEF ImagesInv
  <2> QED
    BY <1>2, <2>4, <2>5, ImagesKept DEF Begin
<1>3. CASE Generate
  <2> DEFINE cfg == Item[2]
             script == run.req.script
             sets == Writes(script, cfg)
             s == IF script = "ppa" THEN "backend" ELSE "make"
  <2>1. /\ run.step = "generate" /\ cfg \in IF script = "ppa" THEN Synthesized ELSE AllConfigs
        /\ run' = [run EXCEPT !.step = s]
        /\ version' = version /\ work' = work /\ due' = (due \/ sets \cap TestbenchSets # {})
        /\ generated' = [x \in DOMAIN generated |->
             IF x \in sets THEN Image(IF x \in {"H2-32", "H2-128"} THEN x ELSE cfg, version)
             ELSE generated[x]]
    BY <1>3 DEF Generate, GeneratedFor
  <2>2. /\ run'.step = s /\ run'.sha = run.sha /\ Item' = Item
    BY <1>1, <2>1 DEF Fields, Item
  <2>3. version \in run.sha .. version /\ run.sha \in 0 .. version
    BY <2>1, BoundsAssumption DEF ImagesInv
  <2>4. DOMAIN generated' = DOMAIN generated
    BY <2>1
  <2>5. CASE script = "ppa"
    <3>1. ASSUME cfg # "B0" PROVE MadeFor(cfg, generated[Core(cfg)])'
      <4>1. Core(cfg) \in DOMAIN generated
        <5>1. cfg \in AllConfigs => Suffix(cfg) \in TestbenchSets
          BY DEF TestbenchSets
        <5>2. cfg \in AllConfigs \/ cfg = "H2-5R3W"
          BY <2>1, <2>5 DEF Synthesized
        <5>3. cfg = "H2-5R3W" => Core(cfg) = "H2-5R3W"
          BY DEF Core, Suffix, Resolved, SparvConfigs
        <5> QED
          BY <5>1, <5>2, <5>3 DEF ImagesInv, Core
      <4>2. sets = {Core(cfg)}
        BY <2>5, <3>1 DEF Writes
      <4>3. /\ Core(cfg) \in {"H2-32", "H2-128"} => Core(cfg) = Resolved(cfg)
            /\ Resolved(cfg) = cfg
        BY <2>1, <2>5 DEF Core, Suffix, Resolved, Synthesized, AllConfigs, SparvConfigs
      <4>4. generated'[Core(cfg)] = Image(Resolved(cfg), version)
        BY <2>1, <4>1, <4>2, <4>3
      <4> QED
        BY <2>1, <2>2, <2>3, <4>4 DEF MadeFor
    <3> QED
      BY <2>1, <2>2, <2>3, <2>4, <2>5, <3>1 DEF ImagesInv
  <2>6. CASE script # "ppa"
    <3>1. cfg \in AllConfigs /\ Suffix(cfg) \in TestbenchSets
      BY <2>1, <2>6 DEF TestbenchSets
    <3>2. Suffix(cfg) \in sets
      BY <2>6 DEF Writes
    <3>3. /\ Suffix(cfg) \in {"H2-32", "H2-128"} => Suffix(cfg) = Resolved(cfg)
          /\ Suffix(cfg) \notin {"H2-32", "H2-128"} => Resolved(cfg) = cfg
      BY <3>1 DEF Suffix, Resolved, AllConfigs, SparvConfigs
    <3>4. generated'[Suffix(cfg)] = Image(Resolved(cfg), version) /\ due'
      BY <2>1, <3>1, <3>2, <3>3 DEF ImagesInv
    <3>5. MadeFor(cfg, generated[Suffix(cfg)])'
      BY <2>1, <2>2, <2>3, <3>4 DEF MadeFor
    <3> QED
      BY <2>1, <2>2, <2>3, <2>4, <2>6, <3>1, <3>4, <3>5 DEF ImagesInv
  <2> QED
    BY <2>5, <2>6
<1>4. CASE Make
  <2> DEFINE cfg == Item[2]
  <2>1. /\ run.step = "make" /\ run' = [run EXCEPT !.step = "simulate"]
        /\ version' = version /\ generated' = generated
    BY <1>4 DEF Make
  <2>2. run'.step = "simulate" /\ run'.sha = run.sha /\ Item' = Item
    BY <1>1, <2>1 DEF Fields, Item
  <2>3. due /\ MadeFor(cfg, generated[Suffix(cfg)]) /\ cfg \in AllConfigs
    BY <2>1 DEF ImagesInv
  <2>4. work' = [work EXCEPT ![Suffix(cfg)] = generated[Suffix(cfg)]]
    BY <1>4, <2>3 DEF Make
  <2>5. Suffix(cfg) \in TestbenchSets
    BY <2>3 DEF TestbenchSets
  <2>6. DOMAIN work' = TestbenchSets /\ work'[Suffix(cfg)] = generated[Suffix(cfg)]
    BY <2>4, <2>5 DEF ImagesInv
  <2>7. MadeFor(cfg, work[Suffix(cfg)])'
    BY <2>1, <2>2, <2>3, <2>6 DEF MadeFor
  <2> QED
    BY <2>1, <2>2, <2>3, <2>6, <2>7 DEF ImagesInv
<1>5. CASE Simulate \/ GenerateOrMakeFails
  <2>1. run.step # "idle" /\ run.req \in Requests /\ UNCHANGED <<version, generated, work>>
    BY <1>5 DEF Simulate, GenerateOrMakeFails, RunInv, Placed
  <2>2. \/ run' = Over(run, "failed")
        \/ \E outcome, rc, written, later :
             run.req.script # "ppa" /\ Simulated(outcome, rc, written, later)
    BY <1>5 DEF Simulate, GenerateOrMakeFails, RunInv, Placed
  <2>3. run'.step \in {"idle", "end", "generate"} /\ run'.sha = run.sha
    BY <1>1, <2>1, <2>2, RequestsAssumption, OverIs, SimulatedMoves
  <2>4. run.sha \in 0 .. version
    BY <2>1 DEF ImagesInv
  <2> QED
    BY <2>1, <2>3, <2>4, ImagesKept
<1>6. CASE Backend
  <2>1. run.step # "idle" /\ UNCHANGED <<version, generated, work>>
    BY <1>6 DEF Backend
  <2>2. \/ run' = Over(run, "failed")
        \/ \E rows : run' = After([run EXCEPT !.rows = rows])
    BY <1>6 DEF Backend
  <2>3. \/ run' = Over(run, "failed")
        \/ \E r : run' = After(r) /\ DOMAIN r = Fields /\ r.sha = run.sha
    <3>1. CASE \E rows : run' = After([run EXCEPT !.rows = rows])
      BY <1>1, <3>1 DEF Fields
    <3> QED
      BY <2>2, <3>1
  <2>4. run'.step \in {"idle", "end", "generate"} /\ run'.sha = run.sha
    BY <1>1, <2>3, OverIs, AfterIs
  <2> QED
    BY <2>1, <2>4, ImagesKept DEF ImagesInv
<1>7. CASE End \/ Crash
  <2>1. (\E result : run' = Over(run, result)) /\ UNCHANGED <<version, generated, work>>
    BY <1>7 DEF End, Crash
  <2>2. run'.step = "idle"
    BY <1>1, <2>1, OverIs
  <2> QED
    BY <2>1, <2>2, ImagesKept
<1>8. CASE EditSources
  <2>1. /\ run.step \in {"idle", "generate", "backend"} /\ run' = run
        /\ UNCHANGED <<generated, work>> /\ version < MaxEdits /\ version' = version + 1
    BY <1>8 DEF EditSources
  <2>2. version \in Nat /\ version' \in 0 .. MaxEdits
    BY <2>1, BoundsAssumption DEF ImagesInv
  <2>3. \A n : n \in 0 .. version => n \in 0 .. version' /\ n .. version \subseteq n .. version'
    BY <2>1, <2>2
  <2>4. Item' = Item
    BY <2>1 DEF Item
  <2>5. run.step # "idle" => run.sha \in 0 .. version' /\ run.sha .. version \subseteq run.sha .. version'
    BY <2>3 DEF ImagesInv
  <2>6. run.step = "backend" /\ Item[2] # "B0" => MadeFor(Item[2], generated[Core(Item[2])])'
    BY <2>1, <2>4, <2>5 DEF ImagesInv, MadeFor
  <2> QED
    BY <2>1, <2>2, <2>4, <2>5, <2>6 DEF ImagesInv
<1>9. CASE ParseHamsa \/ ParseSparv \/ compute_metrics \/ UNCHANGED vars
  <2>1. UNCHANGED <<version, generated, due, work, run>>
    BY <1>9 DEF ParseHamsa, ParseSparv, compute_metrics, Rest, vars
  <2>2. Item' = Item
    BY <2>1 DEF Item
  <2> QED
    BY <2>1, <2>2 DEF ImagesInv, MadeFor
<1> QED
  BY <1>2, <1>3, <1>4, <1>5, <1>6, <1>7, <1>8, <1>9 DEF Next

---------------------------------------------------------------------------
(***************************************************************************)
(* The logs, and what the programs read in them.                           *)
(***************************************************************************)
\* The programs of a command line go by the names it has for them.
LEMMA ProgramsGoBy ==
  ASSUME NEW req \in Requests, NEW name, req.script = "full" => name = req.name
  PROVE  Programs(req, name) \subseteq GoesBy(name)
BY DEF Programs, GoesBy

LEMMA EntryNamed ==
  ASSUME RunInv, run.step \notin {"idle", "end"}
  PROVE  /\ Item[1] \in Programs(run.req, Called(run.req, Item[1]))
         /\ Item[1] \in GoesBy(Called(run.req, Item[1]))
         /\ run.req.script = "full" => Called(run.req, Item[1]) = run.req.name
<1>1. run.req \in Requests /\ run.at \in 1 .. Len(Plan(run.req))
  BY PlanLength DEF RunInv, Placed
<1>2. Item \in Range(Plan(run.req))
  BY <1>1, PlanSequence DEF Item, Range
<1>3. Item \in Wanted(run.req, Range(run.req.firmware))
  BY <1>1, <1>2, PlanContent
<1>4. Item[1] \in Range(run.req.firmware)
  BY <1>3 DEF Wanted
<1>5. Item[1] \in Programs(run.req, Called(run.req, Item[1]))
  BY <1>4 DEF Programs, Called
<1> QED
  BY <1>1, <1>5, ProgramsGoBy DEF Called

\* A log is what a simulation of a program of its name printed, if there was one.
Printed(key, text) ==
  \E outcome \in {"success", "failure", "cut", "broken"}, v \in 0 .. MaxEdits,
     program \in GoesBy(key[2]) : \E later :
    text = Output(outcome, program, Image(Resolved(key[3]), v), later)
LogsInv == \A key \in DOMAIN logs : Printed(key, logs[key].text)

LEMMA MaxIs ==
  ASSUME NEW S, S \subseteq Nat, NEW n \in S, \A m \in S : m <= n
  PROVE  Max(S) = n
<1>1. \A x \in S : (\A y \in S : x >= y) => x = n
  OBVIOUS
<1>2. n \in S /\ \A y \in S : n >= y
  OBVIOUS
<1> QED
  BY <1>1, <1>2 DEF Max

\* A key is found when some line has it, with the value of the last that does.
LEMMA MergedHas ==
  ASSUME NEW text, NEW lines, NEW key
  PROVE  key \in DOMAIN Merged(text, lines) <=>
           \E i \in lines : key \in DOMAIN text[i].toks
BY DEF Merged

LEMMA MergedAt ==
  ASSUME NEW text, NEW lines, lines \subseteq Nat, NEW n \in lines,
         NEW key, key \in DOMAIN text[n].toks,
         \A m \in lines : key \in DOMAIN text[m].toks => m <= n
  PROVE  key \in DOMAIN Merged(text, lines) /\ Merged(text, lines)[key] = text[n].toks[key]
<1> DEFINE having == {i \in lines : key \in DOMAIN text[i].toks}
<1>1. Max(having) = n
  BY MaxIs
<1>2. key \in UNION {DOMAIN text[i].toks : i \in lines}
  OBVIOUS
<1> QED
  BY <1>1, <1>2 DEF Merged

\* A key on a line after the first has its value from such a line.
LEMMA MergedValue ==
  ASSUME NEW text, NEW lines \in SUBSET (1 .. 5), NEW key,
         NEW i \in lines, i # 1, key \in DOMAIN text[i].toks
  PROVE  /\ key \in DOMAIN Merged(text, lines)
         /\ \E m \in lines \ {1} : /\ key \in DOMAIN text[m].toks
                                  /\ Merged(text, lines)[key] = text[m].toks[key]
<1> DEFINE having == {m \in lines : key \in DOMAIN text[m].toks}
<1>1. \E n \in having : \A m \in having : m <= n
  <2>1. having \subseteq 1 .. 5 /\ i \in having
    OBVIOUS
  <2> HIDE DEF having
  <2>2. \A m \in having : m = 1 \/ m = 2 \/ m = 3 \/ m = 4 \/ m = 5
    BY <2>1
  <2>3. CASE 5 \in having
    BY <2>2, <2>3
  <2>4. CASE 5 \notin having /\ 4 \in having
    BY <2>2, <2>4
  <2>5. CASE 5 \notin having /\ 4 \notin having /\ 3 \in having
    BY <2>2, <2>5
  <2>6. CASE 5 \notin having /\ 4 \notin having /\ 3 \notin having
    BY <2>1, <2>2, <2>6
  <2> QED
    BY <2>3, <2>4, <2>5, <2>6
<1>2. PICK n \in having : \A m \in having : m <= n
  BY <1>1
<1>3. n # 1
  BY <1>2
<1>4. key \in DOMAIN Merged(text, lines) /\ Merged(text, lines)[key] = text[n].toks[key]
  <2>1. Max(having) = n
    <3>1. lines \subseteq Nat
      OBVIOUS
    <3>2. having \subseteq Nat
      BY <3>1
    <3> HIDE DEF having
    <3> QED
      BY <1>2, <3>2, MaxIs
  <2>2. key \in UNION {DOMAIN text[m].toks : m \in lines}
    OBVIOUS
  <2> QED
    BY <2>1, <2>2 DEF Merged
<1> QED
  BY <1>2, <1>3, <1>4

\* The lines with metrics, by their counters.
LEMMA HamsaLineIs ==
  ASSUME NEW f, NEW image, NEW keys
  PROVE  LET line == HamsaLine(f, image, keys)
         IN  /\ line.tag = "HAMSA_METRIC"
             /\ PARSE_FIELDS \cap keys \subseteq DOMAIN line.toks
             /\ DOMAIN line.toks \subseteq FULL_FIELDS \cap keys
             /\ \A k \in DOMAIN line.toks : line.toks[k] = Value(f, image, k)
BY DEF HamsaLine, Counted, FULL_FIELDS, PARSE_FIELDS

LEMMA SparvLineIs ==
  ASSUME NEW f, NEW image
  PROVE  LET line == SparvLine(f, image)
         IN  /\ line.tag = "SPARV_METRIC"
             /\ DOMAIN line.toks = {"cycles", "retired", "prefetch_fills"}
             /\ line.toks["cycles"] = Value(f, image, "cycles")
             /\ line.toks["retired"] = Sum(Value(f, image, "issue1_retired"),
                                           Value(f, image, "issue2_retired"))
BY DEF SparvLine, COUNTERS

\* A simulation prints nothing, a line of its firmware, or that one, the
\* outcome, and the lines of metrics or others in their place.
Printout(text, outcome, f, image, later) ==
  /\ DOMAIN text = 1 .. 5 /\ text[1] = Chatter /\ text[2] = Says(outcome)
  /\ text[3] = HamsaLine(f, image, Keys \ later)
  /\ text[4] = IF later = {} THEN Says("other") ELSE HamsaLine(f, image, later)
  /\ text[5] \in {Says("other"), SparvLine(f, image)}

LEMMA OutputIs ==
  ASSUME NEW outcome \in {"success", "failure", "cut", "broken"}, NEW f, NEW image, NEW later
  PROVE  LET text == Output(outcome, f, image, later)
         IN  \/ outcome = "broken" /\ text = <<>>
             \/ outcome = "cut" /\ text = <<Chatter>>
             \/ /\ outcome \in {"success", "failure"}
                /\ Printout(text, outcome, f, image, later)
<1>1. CASE outcome = "broken"
  BY <1>1 DEF Output
<1>2. CASE outcome = "cut"
  BY <1>2 DEF Output
<1>3. CASE outcome \in {"success", "failure"}
  <2> DEFINE a == Chatter
             b == Says(outcome)
             c == HamsaLine(f, image, Keys \ later)
             d == IF later = {} THEN Says("other") ELSE HamsaLine(f, image, later)
             e == IF image[1] \in SparvConfigs THEN SparvLine(f, image) ELSE Says("other")
             five == <<a, b, c, d, e>>
  <2>1. Output(outcome, f, image, later) = five
    BY <1>3 DEF Output
  <2>2. e \in {Says("other"), SparvLine(f, image)}
    OBVIOUS
  <2> HIDE DEF a, b, c, d, e
  <2>3. /\ DOMAIN five = 1 .. 5 /\ five[1] = a /\ five[2] = b /\ five[3] = c
        /\ five[4] = d /\ five[5] = e
    OBVIOUS
  <2> HIDE DEF five
  <2>4. Printout(five, outcome, f, image, later)
    BY <2>2, <2>3 DEF Printout, a, b, c, d
  <2> QED
    BY <1>3, <2>1, <2>4
<1> QED
  BY <1>1, <1>2, <1>3

\* What each reader finds.
Reads(text, f, image, later) ==
  /\ later = {} =>
       /\ \A k \in FULL_FIELDS : last_line(text)[k] \in {Value(f, image, k), Zero}
       /\ \A k \in PARSE_FIELDS : last_line(text)[k] = Value(f, image, k)
  /\ later # {} => {3, 4} \subseteq Tagged(text, {"HAMSA_METRIC"})
  /\ \A k \in FULL_FIELDS \cap DOMAIN parse_metrics(text) :
       parse_metrics(text)[k] = Value(f, image, k)
  /\ "cycles" \in DOMAIN parse_metrics(text)
  /\ \A k \in PARSE_FIELDS : /\ k \in DOMAIN parse_hamsa_log(text)
                             /\ parse_hamsa_log(text)[k] = Value(f, image, k)
  /\ parse_sparv_log(text)["cycles"] = Value(f, image, "cycles")
  /\ Has(text, "SPARV_METRIC") =>
       LET retired == Sum(Value(f, image, "issue1_retired"), Value(f, image, "issue2_retired"))
       IN  parse_sparv_log(text)["retired"] = retired /\ parse_metrics(text)["retired"] = retired

\* Adding the total of the retired instructions leaves the other counters.
LEMMA MetricsAre ==
  ASSUME NEW text, NEW k \in FULL_FIELDS
  PROVE  LET metrics == Merged(text, Tagged(text, {"HAMSA_METRIC", "SPARV_METRIC"}))
         IN  /\ k \in DOMAIN parse_metrics(text) <=> k \in DOMAIN metrics
             /\ k \in DOMAIN metrics => parse_metrics(text)[k] = metrics[k]
<1> DEFINE metrics == Merged(text, Tagged(text, {"HAMSA_METRIC", "SPARV_METRIC"}))
<1>1. k # "retired"
  BY DEF FULL_FIELDS
<1>2. parse_metrics(text) = metrics \/ \E v : parse_metrics(text) = With(metrics, "retired", v)
  BY DEF parse_metrics
<1> HIDE DEF metrics
<1>3. \A v : LET more == With(metrics, "retired", v)
             IN  /\ k \in DOMAIN more <=> k \in DOMAIN metrics
                 /\ k \in DOMAIN metrics => more[k] = metrics[k]
  BY <1>1 DEF With
<1>4. CASE parse_metrics(text) = metrics
  BY <1>4 DEF metrics
<1>5. CASE parse_metrics(text) # metrics
  BY <1>2, <1>3, <1>5 DEF metrics
<1> QED
  BY <1>4, <1>5

LEMMA TextRead ==
  ASSUME NEW outcome \in {"success", "failure"}, NEW f, NEW image, NEW later
  PROVE  Reads(Output(outcome, f, image, later), f, image, later)
<1> DEFINE text == Output(outcome, f, image, later)
           first == HamsaLine(f, image, Keys \ later)
           second == HamsaLine(f, image, later)
           other == Says("other")
           sparv == SparvLine(f, image)
           retired == Sum(Value(f, image, "issue1_retired"), Value(f, image, "issue2_retired"))
<1>1. Printout(text, outcome, f, image, later)
  BY OutputIs
<1>2. /\ first.tag = "HAMSA_METRIC" /\ second.tag = "HAMSA_METRIC"
      /\ PARSE_FIELDS \ later \subseteq DOMAIN first.toks
      /\ PARSE_FIELDS \cap later \subseteq DOMAIN second.toks
      /\ DOMAIN first.toks \subseteq FULL_FIELDS /\ DOMAIN second.toks \subseteq FULL_FIELDS
      /\ \A k \in DOMAIN first.toks : first.toks[k] = Value(f, image, k)
      /\ \A k \in DOMAIN second.toks : second.toks[k] = Value(f, image, k)
  <2>1. PARSE_FIELDS \cap (Keys \ later) = PARSE_FIELDS \ later
    BY DEF PARSE_FIELDS, Keys
  <2> QED
    BY <2>1, HamsaLineIs
<1>3. /\ sparv.tag = "SPARV_METRIC"
      /\ DOMAIN sparv.toks = {"cycles", "retired", "prefetch_fills"}
      /\ sparv.toks["cycles"] = Value(f, image, "cycles") /\ sparv.toks["retired"] = retired
  BY SparvLineIs
<1>4. /\ DOMAIN text = 1 .. 5
      /\ text[1].tag = "firmware"
      /\ text[2].tag = outcome /\ DOMAIN text[2].toks = {}
      /\ text[3] = first
      /\ text[4] = IF later = {} THEN other ELSE second
      /\ text[5] \in {other, sparv}
      /\ other.tag = "other" /\ DOMAIN other.toks = {}
  <2>1. Chatter.tag = "firmware"
    BY DEF Chatter
  <2>2. \A tag : Says(tag).tag = tag /\ DOMAIN Says(tag).toks = {}
    BY DEF Says
  <2> QED
    BY <1>1, <2>1, <2>2 DEF Printout
<1>0. \A k \in PARSE_FIELDS : k \in FULL_FIELDS /\ k # "retired"
  BY DEF PARSE_FIELDS, FULL_FIELDS
<1>17. "retired" \notin FULL_FIELDS /\ "cycles" \in PARSE_FIELDS
  BY DEF PARSE_FIELDS, FULL_FIELDS
<1> HIDE DEF text, first, second, sparv, other, retired
\* The lines one by one.
<1>5. ASSUME NEW k \in FULL_FIELDS, NEW m \in 2 .. 5, k \in DOMAIN text[m].toks
      PROVE  text[m].toks[k] = Value(f, image, k)
  <2>1. m = 2 \/ m = 3 \/ m = 4 \/ m = 5
    OBVIOUS
  <2>2. k \in DOMAIN sparv.toks => k = "cycles"
    BY <1>3, <1>5 DEF FULL_FIELDS
  <2> QED
    BY <1>2, <1>3, <1>4, <1>5, <2>1, <2>2
<1>6. ASSUME NEW k \in PARSE_FIELDS
      PROVE  \E m \in Tagged(text, {"HAMSA_METRIC"}) : k \in DOMAIN text[m].toks
  <2>1. CASE k \notin later
    <3>1. 3 \in Tagged(text, {"HAMSA_METRIC"}) /\ k \in DOMAIN text[3].toks
      BY <1>2, <1>4, <2>1 DEF Tagged
    <3> QED
      BY <3>1
  <2>2. CASE k \in later
    <3>1. 4 \in Tagged(text, {"HAMSA_METRIC"}) /\ k \in DOMAIN text[4].toks
      BY <1>2, <1>4, <2>2 DEF Tagged
    <3> QED
      BY <3>1
  <2> QED
    BY <2>1, <2>2
<1>7. \A tags \in SUBSET {"HAMSA_METRIC", "SPARV_METRIC"} : Tagged(text, tags) \subseteq 2 .. 5
  <2> SUFFICES ASSUME NEW tags \in SUBSET {"HAMSA_METRIC", "SPARV_METRIC"},
                      NEW m \in Tagged(text, tags)
               PROVE  m \in 2 .. 5
    OBVIOUS
  <2>1. m \in 1 .. 5 /\ text[m].tag \in {"HAMSA_METRIC", "SPARV_METRIC"}
    BY <1>4 DEF Tagged
  <2>2. m # 1
    BY <1>4, <2>1
  <2> QED
    BY <2>1, <2>2
<1>8. Tagged(text, {"HAMSA_METRIC"}) \subseteq Tagged(text, {"HAMSA_METRIC", "SPARV_METRIC"})
  BY DEF Tagged
\* The readers one by one.
<1>9. later # {} => {3, 4} \subseteq Tagged(text, {"HAMSA_METRIC"})
  BY <1>2, <1>4 DEF Tagged
<1>10. ASSUME later = {}
       PROVE  /\ \A k \in FULL_FIELDS : last_line(text)[k] \in {Value(f, image, k), Zero}
              /\ \A k \in PARSE_FIELDS : last_line(text)[k] = Value(f, image, k)
  <2>1. Tagged(text, {"HAMSA_METRIC"}) = {3}
    <3>1. text[5].tag # "HAMSA_METRIC" /\ text[4].tag # "HAMSA_METRIC" /\ text[2].tag # "HAMSA_METRIC"
      BY <1>3, <1>4, <1>10
    <3>2. text[3].tag = "HAMSA_METRIC"
      BY <1>2, <1>4
    <3>3. \A m \in 2 .. 5 : m = 2 \/ m = 3 \/ m = 4 \/ m = 5
      OBVIOUS
    <3> QED
      BY <1>4, <1>7, <3>1, <3>2, <3>3 DEF Tagged
  <2>2. Max({3}) = 3
    BY MaxIs
  <2>3. \A k \in FULL_FIELDS : last_line(text)[k] = At(first.toks, k, Zero)
    BY <1>4, <2>1, <2>2 DEF last_line
  <2> QED
    BY <1>0, <1>2, <1>10, <2>3 DEF At
<1>11. ASSUME NEW k \in PARSE_FIELDS
       PROVE  /\ k \in DOMAIN parse_hamsa_log(text)
              /\ parse_hamsa_log(text)[k] = Value(f, image, k)
  <2> DEFINE lines == Tagged(text, {"HAMSA_METRIC"})
             val == Value(f, image, k)
  <2>1. lines \subseteq 2 .. 5
    BY <1>7
  <2>2. PICK i \in lines : k \in DOMAIN text[i].toks
    BY <1>6
  <2>3. \A m \in lines \ {1} : k \in DOMAIN text[m].toks => text[m].toks[k] = val
    BY <1>0, <1>5, <2>1
  <2> HIDE DEF lines, val
  <2>4. k \in DOMAIN Merged(text, lines) /\ Merged(text, lines)[k] = val
    <3>1. lines \in SUBSET (1 .. 5) /\ i # 1
      BY <2>1
    <3> QED
      BY <2>2, <2>3, <3>1, MergedValue
  <2> QED
    BY <2>4 DEF parse_hamsa_log, lines, val
<1> DEFINE tagged == Tagged(text, {"HAMSA_METRIC", "SPARV_METRIC"})
           metrics == Merged(text, tagged)
<1>12. tagged \subseteq 2 .. 5
  BY <1>7
<1>13. ASSUME NEW k \in FULL_FIELDS, k \in DOMAIN metrics
       PROVE  metrics[k] = Value(f, image, k)
  <2>1. PICK i \in tagged : k \in DOMAIN text[i].toks
    BY <1>13, MergedHas
  <2>2. \A m \in tagged \ {1} : k \in DOMAIN text[m].toks => text[m].toks[k] = Value(f, image, k)
    BY <1>5, <1>12
  <2> HIDE DEF tagged
  <2>3. tagged \in SUBSET (1 .. 5) /\ i # 1
    BY <1>12
  <2> QED
    BY <2>1, <2>2, <2>3, MergedValue
<1>14. /\ \A k \in FULL_FIELDS \cap DOMAIN parse_metrics(text) :
            parse_metrics(text)[k] = Value(f, image, k)
       /\ "cycles" \in DOMAIN parse_metrics(text)
  <2>1. "cycles" \in DOMAIN metrics
    BY <1>6, <1>8, <1>17, MergedHas
  <2> HIDE DEF metrics
  <2> QED
    BY <1>0, <1>13, <1>17, <2>1, MetricsAre DEF metrics
<1>15. parse_sparv_log(text)["cycles"] = Value(f, image, "cycles")
  <2> DEFINE lines == 1 .. 5
  <2>1. PICK i \in 2 .. 5 : "cycles" \in DOMAIN text[i].toks
    BY <1>6, <1>7, <1>17
  <2>2. \A m \in lines \ {1} : "cycles" \in DOMAIN text[m].toks =>
                               text[m].toks["cycles"] = Value(f, image, "cycles")
    <3>1. \A m \in lines \ {1} : m \in 2 .. 5
      OBVIOUS
    <3> QED
      BY <1>0, <1>5, <1>17, <3>1
  <2>3. lines \in SUBSET (1 .. 5) /\ i \in lines /\ i # 1
    OBVIOUS
  <2> HIDE DEF lines
  <2>4. /\ "cycles" \in DOMAIN Merged(text, lines)
        /\ Merged(text, lines)["cycles"] = Value(f, image, "cycles")
    BY <2>1, <2>2, <2>3, MergedValue
  <2>5. DOMAIN text = lines
    BY <1>4 DEF lines
  <2> QED
    BY <2>4, <2>5 DEF parse_sparv_log, COUNTERS, At
<1>16. ASSUME Has(text, "SPARV_METRIC")
       PROVE  parse_sparv_log(text)["retired"] = retired /\ parse_metrics(text)["retired"] = retired
  <2>1. text[5] = sparv
    <3>1. PICK m \in 1 .. 5 : text[m].tag = "SPARV_METRIC"
      BY <1>4, <1>16 DEF Has
    <3>2. m = 1 \/ m = 2 \/ m = 3 \/ m = 4 \/ m = 5
      OBVIOUS
    <3> QED
      BY <1>2, <1>4, <3>1, <3>2
  <2>2. ASSUME NEW m \in 2 .. 5, "retired" \in DOMAIN text[m].toks
        PROVE  text[m].toks["retired"] = retired
    <3>1. m = 2 \/ m = 3 \/ m = 4 \/ m = 5
      OBVIOUS
    <3> QED
      BY <1>2, <1>3, <1>4, <1>17, <2>1, <2>2, <3>1
  <2>3. "retired" \in DOMAIN text[5].toks /\ 5 \in tagged
    BY <1>3, <1>4, <2>1 DEF Tagged
  <2>4. "retired" \in DOMAIN metrics /\ metrics["retired"] = retired
    <3> HIDE DEF tagged
    <3>1. tagged \in SUBSET (1 .. 5)
      BY <1>12
    <3>2. \A m \in tagged \ {1} : "retired" \in DOMAIN text[m].toks =>
                                  text[m].toks["retired"] = retired
      BY <1>12, <2>2
    <3> QED
      BY <2>3, <3>1, <3>2, MergedValue
  <2>5. parse_metrics(text)["retired"] = retired
    <3> HIDE DEF metrics
    <3>1. parse_metrics(text) = metrics
      BY <2>4 DEF parse_metrics, metrics
    <3> QED
      BY <2>4, <3>1
  <2> DEFINE lines == 1 .. 5
  <2>6. \A m \in lines \ {1} : "retired" \in DOMAIN text[m].toks =>
                               text[m].toks["retired"] = retired
    <3>1. \A m \in lines \ {1} : m \in 2 .. 5
      OBVIOUS
    <3> QED
      BY <2>2, <3>1
  <2>7. lines \in SUBSET (1 .. 5) /\ 5 \in lines /\ 5 # 1 /\ DOMAIN text = lines
    BY <1>4
  <2> HIDE DEF lines
  <2>8. "retired" \in DOMAIN Merged(text, lines) /\ Merged(text, lines)["retired"] = retired
    <3> HIDE DEF text, retired, tagged, metrics
    <3>1. "retired" \in DOMAIN text[5].toks
      BY <2>3
    <3>2. /\ "retired" \in DOMAIN Merged(text, lines)
          /\ \E m \in lines \ {1} : /\ "retired" \in DOMAIN text[m].toks
                                   /\ Merged(text, lines)["retired"] = text[m].toks["retired"]
      BY <2>7, <3>1, MergedValue
    <3> QED
      BY <2>6, <3>2
  <2> QED
    BY <2>5, <2>7, <2>8 DEF parse_sparv_log, COUNTERS, At
<1> QED
  BY <1>9, <1>10, <1>11, <1>14, <1>15, <1>16 DEF Reads, retired, text

\* The text a simulation of an entry leaves, at the step it happens.
LEMMA TextPrinted ==
  ASSUME RunInv, ImagesInv, NEW outcome \in {"success", "failure", "cut", "broken"}, NEW later,
         \/ outcome = "broken"
         \/ run.step = "simulate"
  PROVE  \E v \in 0 .. MaxEdits :
           /\ run.step = "simulate" => run.sha <= v
           /\ Output(outcome, Item[1], work[Suffix(Item[2])], later)
                = Output(outcome, Item[1], Image(Resolved(Item[2]), v), later)
<1>1. version \in 0 .. MaxEdits
  BY DEF ImagesInv
<1>2. CASE run.step = "simulate"
  <2>1. PICK v \in run.sha .. version : work[Suffix(Item[2])] = Image(Resolved(Item[2]), v)
    BY <1>2 DEF ImagesInv, MadeFor
  <2>2. run.sha \in 0 .. version
    BY <1>2 DEF ImagesInv
  <2>3. v \in 0 .. MaxEdits /\ run.sha <= v
    BY <1>1, <2>2, BoundsAssumption
  <2> QED
    BY <2>1, <2>3
<1>3. CASE run.step # "simulate"
  <2>1. outcome = "broken"
    BY <1>3
  <2>2. \A f, image : Output(outcome, f, image, later) = <<>>
    BY <2>1 DEF Output
  <2> QED
    BY <1>1, <1>3, <2>2
<1> QED
  BY <1>2, <1>3

\* A simulation that is over has left its log.
LEMMA LogWritten ==
  ASSUME RunInv, ImagesInv, LogsInv, NEW outcome \in {"success", "failure", "cut", "broken"},
         NEW rc, NEW written, NEW later, Simulated(outcome, rc, written, later),
         run.step \notin {"idle", "end"}, outcome = "broken" \/ run.step = "simulate"
  PROVE  LogsInv'
<1> DEFINE text == Output(outcome, Item[1], work[Suffix(Item[2])], later)
           log == [inv |-> run.inv, rc |-> rc, text |-> text]
<1>1. logs' = With(logs, Log, log)
  BY DEF Simulated
<1>2. log.text = text /\ Log[2] = Called(run.req, Item[1]) /\ Log[3] = Item[2]
  BY DEF Log
<1>3. Printed(Log, log.text)
  <2>1. PICK v \in 0 .. MaxEdits : text = Output(outcome, Item[1], Image(Resolved(Item[2]), v), later)
    BY TextPrinted
  <2>2. Item[1] \in GoesBy(Called(run.req, Item[1]))
    BY EntryNamed
  <2> HIDE DEF text
  <2> QED
    BY <1>2, <2>1, <2>2 DEF Printed
<1> HIDE DEF log
<1>5. /\ DOMAIN logs' = DOMAIN logs \cup {Log} /\ logs'[Log] = log
      /\ \A k \in DOMAIN logs \ {Log} : logs'[k] = logs[k]
  <2> DEFINE more == With(logs, Log, log)
  <2>1. /\ DOMAIN more = DOMAIN logs \cup {Log} /\ more[Log] = log
        /\ \A k \in DOMAIN logs \ {Log} : more[k] = logs[k]
    BY DEF With
  <2> HIDE DEF more
  <2>2. logs' = more
    BY <1>1 DEF more
  <2> QED
    BY <2>1, <2>2
<1>4. ASSUME NEW key \in DOMAIN logs' PROVE Printed(key, logs'[key].text)
  <2>1. CASE key = Log
    BY <1>3, <1>5, <2>1
  <2>2. CASE key # Log
    BY <1>5, <2>2 DEF LogsInv
  <2> QED
    BY <2>1, <2>2
<1> QED
  BY <1>4 DEF LogsInv

LEMMA LogsInit == Init => LogsInv
BY DEF Init, LogsInv

\* The step that simulates or fails to, taken apart.
LEMMA SimulateIs ==
  ASSUME RunInv, Simulate
  PROVE  /\ run.step = "simulate" /\ run.req \in Requests
         /\ run.req.script \in {"full", "matrix", "regression"}
         /\ UNCHANGED <<version, json, csv>>
         /\ \E outcome \in {"success", "failure", "cut"} : \E rc, written, later :
              /\ Simulated(outcome, rc, written, later)
              /\ run.req.script = "full" => later = {}
<1>1. PICK outcome \in Outcomes : \E rc, written, later :
              /\ Simulated(outcome, rc, written, later)
              /\ run.req.script = "full" => later = {}
  BY DEF Simulate
<1>2. outcome \in {"success", "failure", "cut"}
  BY DEF Outcomes
<1> QED
  BY <1>1, <1>2, RequestsAssumption DEF Simulate, RunInv, Placed

LEMMA FailureIs ==
  ASSUME RunInv, GenerateOrMakeFails
  PROVE  /\ run.step # "idle" /\ run.step # "end" /\ run.req \in Requests
         /\ UNCHANGED <<version, json, csv>>
         /\ \/ /\ run.req.script = "ppa" /\ run' = Over(run, "failed")
               /\ UNCHANGED <<logs, sigs>>
            \/ /\ run.req.script \in {"full", "matrix", "regression"}
               /\ Simulated("broken", 1, None, {})
BY RequestsAssumption DEF GenerateOrMakeFails, RunInv, Placed

LEMMA LogsNext == RunInv /\ ImagesInv /\ LogsInv /\ [Next]_vars => LogsInv'
<1> SUFFICES ASSUME RunInv, ImagesInv, LogsInv, [Next]_vars PROVE LogsInv'
  OBVIOUS
<1>1. CASE Simulate
  BY <1>1, SimulateIs, LogWritten
<1>2. CASE GenerateOrMakeFails
  <2>1. CASE UNCHANGED logs
    BY <2>1 DEF LogsInv
  <2>2. CASE Simulated("broken", 1, None, {})
    <3>1. run.step \notin {"idle", "end"}
      BY <1>2 DEF GenerateOrMakeFails
    <3>2. run.req.script \in {"full", "matrix", "regression"} \/ UNCHANGED logs
      BY <1>2, FailureIs
    <3> QED
      BY <2>1, <2>2, <3>1, <3>2, LogWritten
  <2> QED
    BY <1>2, <2>1, <2>2, FailureIs
<1>3. CASE ~Simulate /\ ~GenerateOrMakeFails
  <2>1. logs' = logs
    BY <1>3 DEF Next, Begin, Generate, GeneratedFor, Make, Backend, End, Crash, ParseHamsa, ParseSparv,
                compute_metrics, EditSources, Rest, vars
  <2> QED
    BY <2>1 DEF LogsInv
<1> QED
  BY <1>1, <1>2, <1>3

\* With a metric line, or a test that passed, there is everything the readers
\* look for.
Telling(text) ==
  \/ Has(text, "HAMSA_METRIC") \/ Has(text, "success")
  \/ "cycles" \in DOMAIN parse_metrics(text) \/ "cycles" \in DOMAIN parse_hamsa_log(text)

LEMMA OutputRead ==
  ASSUME NEW outcome \in {"success", "failure", "cut", "broken"}, NEW f, NEW image, NEW later,
         NEW text, text = Output(outcome, f, image, later), Telling(text)
  PROVE  Reads(text, f, image, later)
<1>2. CASE outcome \in {"success", "failure"}
  BY <1>2, TextRead
<1>3. CASE outcome \in {"cut", "broken"}
  <2>1. text = <<>> \/ text = <<Chatter>>
    BY <1>3, OutputIs
  <2>2. Chatter.tag = "firmware"
    BY DEF Chatter
  <2>3. \A i \in DOMAIN text : text[i].tag = "firmware"
    BY <2>1, <2>2
  <2>4. \A tags : tags \subseteq {"HAMSA_METRIC", "SPARV_METRIC"} => Tagged(text, tags) = {}
    BY <2>3 DEF Tagged
  <2>5. "cycles" \notin DOMAIN parse_hamsa_log(text)
    <3>1. Tagged(text, {"HAMSA_METRIC"}) = {}
      BY <2>4
    <3> QED
      BY <3>1, MergedHas DEF parse_hamsa_log
  <2>6. "cycles" \notin DOMAIN parse_metrics(text)
    <3> DEFINE tagged == Tagged(text, {"HAMSA_METRIC", "SPARV_METRIC"})
    <3>1. tagged = {} /\ "cycles" \in FULL_FIELDS
      BY <2>4 DEF FULL_FIELDS
    <3>2. "cycles" \notin DOMAIN Merged(text, tagged)
      BY <3>1, MergedHas
    <3> QED
      BY <3>1, <3>2, MetricsAre
  <2>7. ~Has(text, "HAMSA_METRIC") /\ ~Has(text, "success")
    BY <2>3 DEF Has
  <2> QED
    BY <2>5, <2>6, <2>7 DEF Telling
<1> QED
  BY <1>2, <1>3

LEMMA LogRead ==
  ASSUME NEW key, NEW text, Printed(key, text), Telling(text)
  PROVE  \E v \in 0 .. MaxEdits, program \in GoesBy(key[2]) : \E later :
           Reads(text, program, Image(Resolved(key[3]), v), later)
BY OutputRead DEF Printed

LEMMA BaseNext ==
  Inv /\ ImagesInv /\ LogsInv /\ [Next]_vars => (Inv /\ ImagesInv /\ LogsInv)'
BY InvNext, ImagesNext, LogsNext DEF Inv

(* Whatever a log holds, and on however many lines, the programs that read *)
(* it take the same from it, but for run_full_matrix.py where there are    *)
(* several lines (parse_hamsa_log.py:35, parse_sparv_log.py:34,            *)
(* run_benchmark_matrix.py:46, run_full_matrix.py:70).                     *)
THEOREM ReadersAgree == Spec => []ParsersAgree
<1>1. LogsInv => ParsersAgree
  <2> SUFFICES ASSUME LogsInv, NEW key \in DOMAIN logs, Has(logs[key].text, "HAMSA_METRIC")
               PROVE  LET text   == logs[key].text
                          found  == parse_hamsa_log(text)
                          metric == parse_metrics(text)
                          count  == parse_sparv_log(text)
                      IN  /\ metric["cycles"] = found["cycles"] /\ count["cycles"] = found["cycles"]
                          /\ Has(text, "SPARV_METRIC") =>
                               /\ count["retired"] = Sum(found["issue1_retired"], found["issue2_retired"])
                               /\ metric["retired"] = count["retired"]
                          /\ (\A i, j \in Tagged(text, {"HAMSA_METRIC"}) : i = j) =>
                               \A k \in PARSE_FIELDS : last_line(text)[k] = found[k]
    BY DEF ParsersAgree
  <2> DEFINE text == logs[key].text
  <2>1. Printed(key, text)
    BY DEF LogsInv
  <2> HIDE DEF text
  <2>2. PICK v \in 0 .. MaxEdits, program \in GoesBy(key[2]) : \E later :
          Reads(text, program, Image(Resolved(key[3]), v), later)
    BY <2>1, LogRead DEF text, Telling
  <2>3. PICK later : Reads(text, program, Image(Resolved(key[3]), v), later)
    BY <2>2
  <2>4. {"cycles", "issue1_retired", "issue2_retired"} = PARSE_FIELDS /\ "cycles" \in FULL_FIELDS
    BY DEF PARSE_FIELDS, FULL_FIELDS
  <2>5. (\A i, j \in Tagged(text, {"HAMSA_METRIC"}) : i = j) => later = {}
    <3>1. 3 # 4
      OBVIOUS
    <3> QED
      BY <2>3, <3>1 DEF Reads
  <2> DEFINE found == parse_hamsa_log(text)
             metric == parse_metrics(text)
             count == parse_sparv_log(text)
             last == last_line(text)
  <2>6. metric["cycles"] = found["cycles"] /\ count["cycles"] = found["cycles"]
    BY <2>3, <2>4 DEF Reads
  <2>7. Has(text, "SPARV_METRIC") =>
               /\ count["retired"] = Sum(found["issue1_retired"], found["issue2_retired"])
               /\ metric["retired"] = count["retired"]
    BY <2>3, <2>4 DEF Reads
  <2>8. later = {} => \A k \in PARSE_FIELDS : last[k] = found[k]
    BY <2>3 DEF Reads
  <2> QED
    BY <2>5, <2>6, <2>7, <2>8 DEF text
<1>2. Init => Inv /\ ImagesInv /\ LogsInv
  BY InvInit, ImagesInit, LogsInit
<1> QED
  BY <1>1, <1>2, BaseNext, PTL DEF Spec

---------------------------------------------------------------------------
(***************************************************************************)
(* The rows: what was measured, on which image.                            *)
(***************************************************************************)
\* Measured in one run of a program of the command line that the row is about,
\* on one image of the row's own configuration, made of the sources as they were
\* at from or later.
Cycles(row, program, v) ==
  row.vals["cycles"] = Value(program, Image(Resolved(row.configuration), v), "cycles")
MeasuredOn(row, program, v) ==
  /\ Cycles(row, program, v)
  /\ \A k \in FULL_FIELDS : row.vals[k] \in
       {Value(program, Image(Resolved(row.configuration), v), k), Zero, Blank}
Measured(row, req, from) ==
  /\ req.script = "full" => row.benchmark = req.name
  /\ \E v \in 0 .. MaxEdits, program \in Programs(req, row.benchmark) :
       from <= v /\ MeasuredOn(row, program, v)
\* Measured at all, on the baseline if the row says so.
Timed(row) ==
  \E v \in 0 .. MaxEdits, program \in GoesBy(row.benchmark) : \E cfg :
    /\ row.configuration = "B0" => cfg = "B0"
    /\ row.vals["cycles"] = Value(program, Image(cfg, v), "cycles")

RunRows ==
  run.step # "idle" /\ run.req.script \in {"full", "matrix"} =>
    \A i \in DOMAIN run.rows :
      /\ Measured(run.rows[i], run.req, run.sha)
      /\ run.req.script = "matrix" => run.rows[i].sha = run.sha
Since(f, row) == IF f = "matrix" THEN row.sha ELSE 0
FileRows ==
  /\ {"parsed", "derived"} \subseteq DOMAIN csv
  /\ \A f \in {"full", "matrix"} : csv[f] # <<>> =>
       \E req \in Requests :
         /\ req.script = f
         /\ \A i \in DOMAIN csv[f] : Measured(csv[f][i], req, Since(f, csv[f][i]))
  /\ csv["parsed"] \in Seq(Range(csv["parsed"]))
  /\ \A i \in DOMAIN csv["parsed"] : Timed(csv["parsed"][i])
MadeInv == Inv /\ ImagesInv /\ LogsInv
RowsInv == RunRows /\ FileRows

\* The row a simulation leaves.
LEMMA RowMeasured ==
  ASSUME RunInv, ImagesInv, NEW outcome \in {"success", "failure", "cut", "broken"},
         run.step \notin {"idle", "end"}, outcome = "broken" \/ run.step = "simulate",
         NEW later, run.req.script = "full" => later = {},
         NEW rc, Collects(run, rc, Output(outcome, Item[1], work[Suffix(Item[2])], later))
  PROVE  \E row : /\ run'.rows = Append(run.rows, row) /\ Measured(row, run.req, run.sha)
                  /\ run.req.script = "matrix" => row.sha = run.sha
<1> DEFINE text == Output(outcome, Item[1], work[Suffix(Item[2])], later)
           image(v) == Image(Resolved(Item[2]), v)
<1>1. DOMAIN run = Fields
  BY DEF RunInv, Shape
<1>2. PICK v \in 0 .. MaxEdits :
        /\ run.step = "simulate" => run.sha <= v
        /\ text = Output(outcome, Item[1], image(v), later)
  BY TextPrinted
<1> HIDE DEF text
<1>3. Telling(text)
  BY DEF Collects, Telling, text
<1>4. Reads(text, Item[1], image(v), later)
  BY <1>2, <1>3, OutputRead
<1>5. run.step = "simulate"
  <2>1. CASE outcome = "broken"
    <3>1. text = <<>>
      BY <2>1 DEF text, Output
    <3>2. DOMAIN text = {}
      BY <3>1
    <3>3. ~Has(text, "HAMSA_METRIC") /\ Tagged(text, {"HAMSA_METRIC", "SPARV_METRIC"}) = {}
      BY <3>2 DEF Has, Tagged
    <3>4. "cycles" \notin DOMAIN parse_metrics(text)
      BY <3>3, MergedHas, MetricsAre DEF FULL_FIELDS
    <3> QED
      BY <3>3, <3>4 DEF Collects, text
  <2> QED
    BY <2>1
<1> DEFINE Right(vals) ==
             /\ vals["cycles"] = Value(Item[1], image(v), "cycles")
             /\ \A k \in FULL_FIELDS : vals[k] \in {Value(Item[1], image(v), k), Zero, Blank}
<1>6. ASSUME NEW vals, Right(vals), run' = After([run EXCEPT !.rows = KeepRow(vals, run.rows)])
      PROVE  \E row : /\ run'.rows = Append(run.rows, row) /\ Measured(row, run.req, run.sha)
                      /\ run.req.script = "matrix" => row.sha = run.sha
  <2> DEFINE sha == IF run.req.script = "matrix" THEN run.sha ELSE Blank
             name == Called(run.req, Item[1])
             row == Row(name, Item[2], sha, vals)
             r == [run EXCEPT !.rows = Append(run.rows, row)]
  <2>1. DOMAIN r = Fields /\ r.rows = Append(run.rows, row) /\ run' = After(r)
    BY <1>1, <1>6 DEF Fields, KeepRow
  <2>2. /\ row.benchmark = name /\ row.configuration = Item[2]
        /\ row.vals = vals /\ row.sha = sha
    BY DEF Row
  <2>5. Item[1] \in Programs(run.req, name) /\ (run.req.script = "full" => name = run.req.name)
    BY EntryNamed
  <2> HIDE DEF row, r, name
  <2>3. run'.rows = Append(run.rows, row)
    BY <2>1, AfterIs
  <2>6. MeasuredOn(row, Item[1], v)
    BY <1>6, <2>2 DEF MeasuredOn, Cycles
  <2>4. Measured(row, run.req, run.sha)
    BY <1>2, <1>5, <2>2, <2>5, <2>6 DEF Measured
  <2> QED
    BY <2>2, <2>3, <2>4
<1>7. CASE run.req.script = "full"
  <2> DEFINE vals == last_line(text)
  <2>1. run' = After([run EXCEPT !.rows = KeepRow(vals, run.rows)])
    BY <1>7 DEF Collects, text
  <2>2. Right(vals)
    BY <1>4, <1>7 DEF Reads, PARSE_FIELDS
  <2> HIDE DEF vals, Right
  <2> QED
    BY <1>6, <2>1, <2>2
<1>8. CASE run.req.script = "matrix"
  <2> DEFINE metrics == parse_metrics(text)
             vals == [k \in MATRIX_FIELDS |-> At(metrics, k, Blank)]
  <2>1. run' = After([run EXCEPT !.rows = KeepRow(vals, run.rows)])
    BY <1>8 DEF Collects, text
  <2>2. /\ "cycles" \in DOMAIN metrics
        /\ \A k \in FULL_FIELDS \cap DOMAIN metrics : metrics[k] = Value(Item[1], image(v), k)
    BY <1>4 DEF Reads
  <2> HIDE DEF metrics
  <2>3. Right(vals)
    BY <2>2 DEF At, FULL_FIELDS, MATRIX_FIELDS, Keys
  <2> HIDE DEF vals, Right
  <2> QED
    BY <1>6, <2>1, <2>3
<1> QED
  BY <1>7, <1>8 DEF Collects

LEMMA RunRowsKept ==
  ASSUME RunRows,
         \/ run'.step = "idle" \/ run'.rows = <<>>
         \/ run'.req.script \notin {"full", "matrix"}
         \/ run.step # "idle" /\ run'.rows = run.rows /\ run'.sha = run.sha /\ run'.req = run.req
         \/ run' = run
  PROVE  RunRows'
<1>1. CASE run'.step = "idle" \/ run'.req.script \notin {"full", "matrix"}
  BY <1>1 DEF RunRows
<1>2. CASE run'.rows = <<>>
  BY <1>2 DEF RunRows
<1>3. CASE run.step # "idle" /\ run'.rows = run.rows /\ run'.sha = run.sha /\ run'.req = run.req
  BY <1>3 DEF RunRows, Measured, MeasuredOn, Cycles
<1>4. CASE run' = run
  BY <1>4 DEF RunRows, Measured, MeasuredOn, Cycles
<1> QED
  BY <1>1, <1>2, <1>3, <1>4

LEMMA RunRowsSimulated ==
  ASSUME Inv, ImagesInv, RunRows, run.req.script \in {"full", "matrix", "regression"},
         NEW outcome \in {"success", "failure", "cut", "broken"}, NEW rc, NEW written, NEW later,
         run.step \notin {"idle", "end"}, outcome = "broken" \/ run.step = "simulate",
         run.req.script = "full" => later = {},
         Simulated(outcome, rc, written, later)
  PROVE  RunRows'
<1> DEFINE text == Output(outcome, Item[1], work[Suffix(Item[2])], later)
<1>1. \/ run' = Over(run, "failed") \/ Collects(run, rc, text)
      \/ Fails(run) \/ Passes(run, rc, text, At(sigs', Item, None))
  BY SimulatedIs
<1>2. run'.sha = run.sha /\ run'.req = run.req
  BY SimulatedMoves DEF Inv
<1>3. CASE run' = Over(run, "failed")
  BY <1>3, OverIs, RunRowsKept DEF Inv, RunInv, Shape
<1>4. CASE Fails(run) \/ Passes(run, rc, text, At(sigs', Item, None))
  <2>1. run'.req.script = "regression"
    BY <1>2, <1>4 DEF Fails, Passes
  <2> QED
    BY <2>1, RunRowsKept
<1>5. CASE Collects(run, rc, text)
  <2>1. PICK row : /\ run'.rows = Append(run.rows, row) /\ Measured(row, run.req, run.sha)
                   /\ run.req.script = "matrix" => row.sha = run.sha
    BY <1>5, RowMeasured DEF Inv
  <2>2. run.req.script \in {"full", "matrix"}
    BY <1>5 DEF Collects
  <2>3. run.rows \in Seq(Range(run.rows))
    BY <2>2 DEF Inv, RunInv, Collected, RowsOf
  <2>4. /\ DOMAIN run'.rows = 1 .. Len(run.rows) + 1 /\ DOMAIN run.rows = 1 .. Len(run.rows)
        /\ Len(run.rows) \in Nat
        /\ run'.rows[Len(run.rows) + 1] = row
        /\ \A i \in 1 .. Len(run.rows) : run'.rows[i] = run.rows[i]
    <3> DEFINE T == Range(run.rows) \cup {row}
    <3>1. run.rows \in Seq(T) /\ row \in T
      BY <2>3, Widened
    <3> QED
      BY <2>1, <3>1
  <2>5. ASSUME NEW i \in DOMAIN run'.rows
        PROVE  /\ Measured(run'.rows[i], run.req, run.sha)
               /\ run.req.script = "matrix" => run'.rows[i].sha = run.sha
    <3>1. CASE i = Len(run.rows) + 1
      BY <2>1, <2>4, <3>1
    <3>2. CASE i # Len(run.rows) + 1
      <4>1. i \in DOMAIN run.rows
        BY <2>4, <3>2
      <4> QED
        BY <2>2, <2>4, <4>1 DEF RunRows
    <3> QED
      BY <3>1, <3>2
  <2> QED
    BY <1>2, <2>5 DEF RunRows, Measured, MeasuredOn, Cycles
<1> QED
  BY <1>1, <1>3, <1>4, <1>5

LEMMA RunRowsNext == MadeInv /\ RunRows /\ [Next]_vars => RunRows'
<1> SUFFICES ASSUME Inv, ImagesInv, LogsInv, RunRows, [Next]_vars PROVE RunRows'
  BY DEF MadeInv
<1>1. DOMAIN run = Fields /\ RunInv /\ RunInv'
  BY RunStep DEF Inv, RunInv, Shape
<1>2. CASE Begin
  <2>1. PICK req \in Requests :
          LET r == [run EXCEPT !.inv = @ + 1, !.req = req, !.at = 0, !.sha = version,
                      !.result = "none",
                      !.failures = {<<f, "missing">> : f \in Range(req.firmware) \ Firmware}]
          IN  run' = IF Refused(req) THEN Over(r, "failed") ELSE After(r)
    BY <1>2 DEF Begin
  <2> DEFINE r == [run EXCEPT !.inv = @ + 1, !.req = req, !.at = 0, !.sha = version,
                     !.result = "none",
                     !.failures = {<<f, "missing">> : f \in Range(req.firmware) \ Firmware}]
  <2>2. DOMAIN r = Fields /\ r.rows = run.rows
    BY <1>1 DEF Fields
  <2>3. run' = Over(r, "failed") \/ run' = After(r)
    BY <2>1
  <2> HIDE DEF r
  <2>4. run.rows = <<>>
    BY <1>1, <1>2 DEF Begin, RunInv, Shape
  <2> QED
    BY <2>2, <2>3, <2>4, OverIs, AfterIs, RunRowsKept
<1>3. CASE Generate \/ Make
  <2>1. run.step # "idle" /\ \E s : run' = [run EXCEPT !.step = s]
    BY <1>3 DEF Generate, GeneratedFor, Make
  <2> QED
    BY <1>1, <2>1, RunRowsKept DEF Fields
<1>4. CASE Simulate
  BY <1>1, <1>4, SimulateIs, RunRowsSimulated
<1>5. CASE GenerateOrMakeFails
  <2>1. CASE run' = Over(run, "failed")
    BY <1>1, <2>1, OverIs, RunRowsKept
  <2> QED
    BY <1>1, <1>5, <2>1, FailureIs, RunRowsSimulated
<1>6. CASE Backend
  <2>1. run.req.script = "ppa"
    BY <1>1, <1>6 DEF Backend, RunInv, Placed
  <2>2. \/ run' = Over(run, "failed")
        \/ \E rows : run' = After([run EXCEPT !.rows = rows])
    BY <1>6 DEF Backend
  <2>3. \/ run' = Over(run, "failed")
        \/ \E r : run' = After(r) /\ DOMAIN r = Fields /\ r.req = run.req
    <3>1. CASE \E rows : run' = After([run EXCEPT !.rows = rows])
      BY <1>1, <3>1 DEF Fields
    <3> QED
      BY <2>2, <3>1
  <2>4. run'.step = "idle" \/ run'.req = run.req
    BY <1>1, <2>3, OverIs, AfterIs
  <2> QED
    BY <2>1, <2>4, RunRowsKept
<1>7. CASE End \/ Crash
  <2>1. \E result : run' = Over(run, result)
    BY <1>7 DEF End, Crash
  <2> QED
    BY <1>1, <2>1, OverIs, RunRowsKept
<1>8. CASE ParseHamsa \/ ParseSparv \/ compute_metrics \/ EditSources \/ UNCHANGED vars
  <2>1. run' = run
    BY <1>8 DEF ParseHamsa, ParseSparv, compute_metrics, EditSources, Rest, vars
  <2> QED
    BY <2>1, RunRowsKept
<1> QED
  BY <1>2, <1>3, <1>4, <1>5, <1>6, <1>7, <1>8 DEF Next

\* What was measured at a commit or later was measured.
LEMMA MeasuredIsTimed ==
  ASSUME NEW row, NEW req \in Requests, NEW from, Measured(row, req, from)
  PROVE  Measured(row, req, 0) /\ Timed(row)
<1>1. PICK v \in 0 .. MaxEdits, program \in Programs(req, row.benchmark) :
        MeasuredOn(row, program, v)
  BY DEF Measured
<1>2. 0 <= v
  BY <1>1, BoundsAssumption
<1>3. Measured(row, req, 0)
  BY <1>1, <1>2 DEF Measured
<1>4. program \in GoesBy(row.benchmark)
  BY ProgramsGoBy DEF Measured
<1>5. row.configuration = "B0" => Resolved(row.configuration) = "B0"
  BY DEF Resolved
<1> QED
  BY <1>1, <1>3, <1>4, <1>5 DEF Timed, MeasuredOn, Cycles

\* The first rows of a run, in a file.
LEMMA PartMeasured ==
  ASSUME Inv, RunRows, run.step = "end", run.req.script \in {"full", "matrix"},
         NEW n \in 0 .. Len(run.rows), NEW part, part = SubSeq(run.rows, 1, n),
         NEW i \in DOMAIN part
  PROVE  /\ Measured(part[i], run.req, run.sha)
         /\ run.req.script = "matrix" => part[i].sha = run.sha
<1>1. run.rows \in Seq(Range(run.rows)) /\ Len(run.rows) \in Nat
  BY DEF Inv, RunInv, Collected, RowsOf
<1>2. Len(part) = n /\ \A j \in 1 .. n : part[j] = run.rows[j]
  BY <1>1, SubSeqProperties
<1>3. part \in Seq(Range(run.rows))
  BY <1>1, SubSeqProperties
<1>4. i \in 1 .. n
  BY <1>2, <1>3
<1>5. part[i] = run.rows[i] /\ i \in DOMAIN run.rows
  BY <1>1, <1>2, <1>4
<1> QED
  BY <1>5 DEF RunRows

LEMMA FileRowsNext == MadeInv /\ RowsInv /\ [Next]_vars => FileRows'
<1> SUFFICES ASSUME Inv, ImagesInv, LogsInv, RunRows, FileRows, [Next]_vars
             PROVE  FileRows'
  BY DEF MadeInv, RowsInv
<1>1. DOMAIN csv' = DOMAIN csv
  BY DEF Next, Begin, Generate, GeneratedFor, Make, Simulate, GenerateOrMakeFails, Backend, End, Crash,
         ParseHamsa, ParseSparv, compute_metrics, EditSources, Rest, vars
<1>2. ASSUME NEW f \in {"full", "matrix"}, csv'[f] # csv[f], NEW i \in DOMAIN csv'[f]
      PROVE  /\ Measured(csv'[f][i], run.req, Since(f, csv'[f][i]))
             /\ run.req \in Requests /\ run.req.script = f
  <2>1. PICK n \in 0 .. Len(run.rows) : csv'[f] = SubSeq(run.rows, 1, n)
    BY <1>2, FilesChange DEF Kept
  <2>2. run.step = "end" /\ run.req.script = f
    BY <1>2, FilesChange DEF Kept
  <2> DEFINE part == csv'[f]
  <2>3. part = SubSeq(run.rows, 1, n) /\ i \in DOMAIN part
    BY <2>1, <1>2
  <2> HIDE DEF part
  <2>4. /\ Measured(part[i], run.req, run.sha)
        /\ run.req.script = "matrix" => part[i].sha = run.sha
    BY <2>2, <2>3, PartMeasured
  <2>5. run.req \in Requests
    BY <2>2 DEF Inv, RunInv, Placed
  <2>6. Measured(part[i], run.req, Since(f, part[i]))
    BY <2>2, <2>4, <2>5, MeasuredIsTimed DEF Since
  <2> QED
    BY <2>2, <2>5, <2>6 DEF part
<1>3. ASSUME NEW f \in {"full", "matrix"}, csv'[f] # <<>>
      PROVE  \E req \in Requests :
               /\ req.script = f
               /\ \A i \in DOMAIN csv'[f] : Measured(csv'[f][i], req, Since(f, csv'[f][i]))
  <2>1. CASE csv'[f] = csv[f]
    BY <1>3, <2>1 DEF FileRows
  <2>2. CASE csv'[f] # csv[f]
    <3>1. run.step = "end" /\ run.req.script = f
      BY <2>2, FilesChange DEF Kept
    <3>2. run.req \in Requests
      BY <3>1 DEF Inv, RunInv, Placed
    <3>3. \A i \in DOMAIN csv'[f] : Measured(csv'[f][i], run.req, Since(f, csv'[f][i]))
      BY <1>2, <2>2
    <3> QED
      BY <3>1, <3>2, <3>3
  <2> QED
    BY <2>1, <2>2
<1>5. /\ csv'["parsed"] \in Seq(Range(csv'["parsed"]))
      /\ \A i \in DOMAIN csv'["parsed"] : Timed(csv'["parsed"][i])
  <2>1. CASE csv'["parsed"] = csv["parsed"]
    BY <2>1 DEF FileRows
  <2>2. CASE ParseHamsa
    <3>1. PICK key \in DOMAIN logs, append \in BOOLEAN :
            LET found == parse_hamsa_log(logs[key].text)
                old   == IF append THEN csv["parsed"] ELSE <<>>
            IN  /\ "cycles" \in DOMAIN found
                /\ csv' = [csv EXCEPT !["parsed"] =
                     IF DOMAIN found \subseteq PARSE_FIELDS
                     THEN Append(old, Row(key[2], Label(key[3]), Blank, found)) ELSE old]
      BY <2>2 DEF ParseHamsa
    <3> DEFINE text == logs[key].text
               found == parse_hamsa_log(text)
               old == IF append THEN csv["parsed"] ELSE <<>>
               row == Row(key[2], Label(key[3]), Blank, found)
    <3>2. Printed(key, text) /\ Telling(text)
      BY <3>1 DEF LogsInv, Telling
    <3>3. Timed(row)
      <4> HIDE DEF text
      <4>1. PICK v \in 0 .. MaxEdits, program \in GoesBy(key[2]) : \E later :
              Reads(text, program, Image(Resolved(key[3]), v), later)
        BY <3>2, LogRead
      <4>2. found["cycles"] = Value(program, Image(Resolved(key[3]), v), "cycles")
        BY <4>1 DEF Reads, PARSE_FIELDS
      <4> HIDE DEF found
      <4>3. /\ row.benchmark = key[2] /\ row.configuration = Label(key[3]) /\ row.vals = found
            /\ row.configuration = "B0" => Resolved(key[3]) = "B0"
        BY DEF Row, Label, Resolved
      <4> HIDE DEF row
      <4> QED
        BY <4>2, <4>3 DEF Timed
    <3>4. csv'["parsed"] = old \/ csv'["parsed"] = Append(old, row)
      BY <3>1 DEF FileRows
    <3> HIDE DEF row
    <3>5. old \in Seq(Range(old)) /\ \A i \in DOMAIN old : Timed(old[i])
      <4>1. <<>> \in Seq(Range(<<>>)) /\ DOMAIN <<>> = {}
        OBVIOUS
      <4> QED
        BY <4>1 DEF FileRows
    <3> HIDE DEF old
    <3>6. CASE csv'["parsed"] = old
      BY <3>5, <3>6
    <3>7. CASE csv'["parsed"] = Append(old, row)
      <4> DEFINE T == Range(old) \cup {row}
                 now == Append(old, row)
      <4>1. old \in Seq(T) /\ row \in T
        BY <3>5, Widened
      <4>2. /\ now \in Seq(T) /\ DOMAIN now = 1 .. Len(old) + 1 /\ now[Len(old) + 1] = row
            /\ Len(old) \in Nat /\ DOMAIN old = 1 .. Len(old)
            /\ \A i \in 1 .. Len(old) : now[i] = old[i]
        BY <4>1
      <4> HIDE DEF now, T
      <4>3. now \in Seq(Range(now))
        BY <4>2, OwnElements
      <4>4. ASSUME NEW i \in DOMAIN now PROVE Timed(now[i])
        <5>1. CASE i = Len(old) + 1
          BY <3>3, <4>2, <5>1
        <5>2. CASE i # Len(old) + 1
          BY <3>5, <4>2, <5>2
        <5> QED
          BY <5>1, <5>2
      <4> QED
        BY <3>7, <4>3, <4>4 DEF now
    <3> QED
      BY <3>4, <3>6, <3>7
  <2>3. CASE ~ParseHamsa
    <3>1. csv'["parsed"] = csv["parsed"]
      <4>0. "parsed" \in DOMAIN csv
        BY DEF FileRows
      <4>1. CASE ParseSparv \/ compute_metrics
        BY <4>0, <4>1 DEF ParseSparv, compute_metrics
      <4>2. CASE End
        <5>1. run.req \in Requests /\ run.step = "end"
          BY <4>2 DEF End, Inv, RunInv, Placed
        <5> QED
          BY <4>0, <4>2, <5>1, RequestsAssumption DEF End
      <4>3. CASE Crash
        <5>1. run.step = "end" => run.req \in Requests
          BY <4>3 DEF Inv, RunInv, Placed
        <5> QED
          BY <4>0, <4>3, <5>1, RequestsAssumption DEF Crash
      <4>4. CASE UNCHANGED csv
        BY <4>4
      <4> QED
        BY <2>3, <4>1, <4>2, <4>3, <4>4
           DEF Next, Begin, Generate, GeneratedFor, Make, Simulate, GenerateOrMakeFails, Backend,
               EditSources, vars
    <3> QED
      BY <2>1, <3>1
  <2> QED
    BY <2>2, <2>3
<1> QED
  BY <1>1, <1>3, <1>5 DEF FileRows

LEMMA RowsInit == Init => RowsInv
<1> SUFFICES ASSUME Init PROVE RowsInv
  OBVIOUS
<1>1. <<>> \in Seq(Range(<<>>)) /\ DOMAIN <<>> = {}
  OBVIOUS
<1>2. run.step = "idle" /\ csv = [f \in {"full", "matrix", "ppa", "parsed", "sparv", "derived"} |-> <<>>]
  BY DEF Init, None
<1> QED
  BY <1>1, <1>2 DEF RowsInv, RunRows, FileRows

LEMMA MeasuredInit == Init => MadeInv /\ RowsInv
BY InvInit, ImagesInit, LogsInit, RowsInit DEF MadeInv

LEMMA MeasuredNext == MadeInv /\ RowsInv /\ [Next]_vars => (MadeInv /\ RowsInv)'
BY BaseNext, RunRowsNext, FileRowsNext DEF MadeInv, RowsInv

(* The rows of the matrix and of the full matrix were measured on the      *)
(* programs of one command line, each on one image of its own              *)
(* configuration, no older than the commit it names                        *)
(* (run_example_vsim.py:47-93, run_benchmark_matrix.py:90).                *)
THEOREM RowsWereAskedFor == Spec => []RowsAsRequested
<1>1. FileRows => RowsAsRequested
  <2> SUFFICES ASSUME FileRows, NEW f \in {"full", "matrix"}, csv[f] # <<>>
               PROVE  \E req \in {r \in Requests : r.script = f} : \A i \in DOMAIN csv[f] :
                        LET row == csv[f][i]
                        IN  /\ f = "full" => row.benchmark = req.name
                            /\ \E v \in 0 .. MaxEdits, program \in Programs(req, row.benchmark) :
                                 /\ f = "matrix" => row.sha <= v
                                 /\ \A k \in FULL_FIELDS : row.vals[k] \in
                                      {Value(program, Image(Resolved(row.configuration), v), k),
                                       Zero, Blank}
                                 /\ row.vals["cycles"] \notin {Zero, Blank}
    BY DEF RowsAsRequested
  <2>1. PICK req \in Requests :
          /\ req.script = f
          /\ \A i \in DOMAIN csv[f] : Measured(csv[f][i], req, Since(f, csv[f][i]))
    BY DEF FileRows
  <2>2. \A program, image : Value(program, image, "cycles") \notin {Zero, Blank}
    BY DEF Value, Zero, Blank
  <2>3. ASSUME NEW i \in DOMAIN csv[f]
        PROVE  LET row == csv[f][i]
               IN  /\ f = "full" => row.benchmark = req.name
                   /\ \E v \in 0 .. MaxEdits, program \in Programs(req, row.benchmark) :
                        /\ f = "matrix" => row.sha <= v
                        /\ \A k \in FULL_FIELDS : row.vals[k] \in
                             {Value(program, Image(Resolved(row.configuration), v), k),
                              Zero, Blank}
                        /\ row.vals["cycles"] \notin {Zero, Blank}
    <3> DEFINE row == csv[f][i]
    <3>1. Measured(row, req, Since(f, row))
      BY <2>1
    <3> HIDE DEF row
    <3>2. PICK v \in 0 .. MaxEdits, program \in Programs(req, row.benchmark) :
            Since(f, row) <= v /\ MeasuredOn(row, program, v)
      BY <3>1 DEF Measured
    <3>3. f = "matrix" => row.sha <= v
      BY <3>2 DEF Since
    <3>4. row.vals["cycles"] \notin {Zero, Blank}
      BY <2>2, <3>2 DEF MeasuredOn, Cycles
    <3>5. f = "full" => row.benchmark = req.name
      BY <2>1, <3>1 DEF Measured
    <3> QED
      BY <3>2, <3>3, <3>4, <3>5 DEF MeasuredOn, row
  <2> QED
    BY <2>1, <2>3, ZenonT(60)
<1> QED
  BY <1>1, MeasuredInit, MeasuredNext, PTL DEF Spec, RowsInv

---------------------------------------------------------------------------
(***************************************************************************)
(* What is derived from the rows.                                          *)
(***************************************************************************)
LEMMA MaxIn ==
  ASSUME NEW n \in Nat, NEW at, at \subseteq 1 .. n, at # {}
  PROVE  Max(at) \in at
<1> DEFINE S == {m \in Nat : \A T : T \subseteq 1 .. m /\ T # {} =>
                              \E x \in T : \A y \in T : x >= y}
<1>1. 0 \in S
  OBVIOUS
<1>2. \A m \in Nat : m \in S => m + 1 \in S
  <2> SUFFICES ASSUME NEW m \in Nat, m \in S, NEW T, T \subseteq 1 .. m + 1, T # {}
               PROVE  \E x \in T : \A y \in T : x >= y
    OBVIOUS
  <2>1. CASE m + 1 \in T
    BY <2>1
  <2>2. CASE m + 1 \notin T
    <3>1. T \subseteq 1 .. m
      BY <2>2
    <3> QED
      BY <3>1
  <2> QED
    BY <2>1, <2>2
<1> HIDE DEF S
<1>3. n \in S
  BY <1>1, <1>2, SetInduction
<1>4. \E x \in at : \A y \in at : x >= y
  BY <1>3 DEF S
<1> QED
  BY <1>4 DEF Max

\* The files that compute_metrics.py and the plots read: sequences of rows with
\* a cycle count each.
LEMMA RowsTimed ==
  ASSUME MadeInv, FileRows, NEW f \in {"full", "matrix", "parsed"}
  PROVE  csv[f] \in Seq(Range(csv[f])) /\ \A i \in DOMAIN csv[f] : Timed(csv[f][i])
<1>1. CASE f = "parsed"
  BY <1>1 DEF FileRows
<1>2. CASE f \in {"full", "matrix"}
  <2>1. csv[f] = <<>> \/ csv[f] \in Seq(Range(csv[f]))
    BY <1>2 DEF MadeInv, Inv, FilesInv, RowsOf, Kept
  <2>2. <<>> \in Seq(Range(<<>>))
    OBVIOUS
  <2>3. ASSUME csv[f] # <<>> PROVE \A i \in DOMAIN csv[f] : Timed(csv[f][i])
    BY <1>2, <2>3, MeasuredIsTimed DEF FileRows
  <2>4. DOMAIN <<>> = {}
    OBVIOUS
  <2> QED
    BY <2>1, <2>2, <2>3, <2>4
<1> QED
  BY <1>1, <1>2

LEMMA BaselineIs ==
  ASSUME NEW rows, rows \in Seq(Range(rows)), \A i \in DOMAIN rows : Timed(rows[i]),
         NEW benchmark, baseline_cycles(rows, benchmark) # Blank
  PROVE  \E v \in 0 .. MaxEdits, program \in GoesBy(benchmark) :
           baseline_cycles(rows, benchmark) = Value(program, Image("B0", v), "cycles")
<1> DEFINE at == {i \in DOMAIN rows : /\ rows[i].configuration = "B0"
                                      /\ rows[i].benchmark = benchmark
                                      /\ rows[i].vals["cycles"] # Blank}
<1>1. at # {} /\ baseline_cycles(rows, benchmark) = rows[Max(at)].vals["cycles"]
  BY DEF baseline_cycles, LastOf
<1>2. Len(rows) \in Nat /\ DOMAIN rows = 1 .. Len(rows)
  OBVIOUS
<1>3. Max(at) \in at
  BY <1>1, <1>2, MaxIn
<1> DEFINE row == rows[Max(at)]
<1>4. /\ Timed(row) /\ row.configuration = "B0" /\ row.benchmark = benchmark
      /\ baseline_cycles(rows, benchmark) = row.vals["cycles"]
  BY <1>1, <1>3
<1> HIDE DEF row
<1> QED
  BY <1>4 DEF Timed

DerivedInv == SpeedupOverBaseline

LEMMA DerivedNext == MadeInv /\ RowsInv /\ DerivedInv /\ [Next]_vars => DerivedInv'
<1> SUFFICES ASSUME MadeInv, RowsInv, DerivedInv, [Next]_vars PROVE DerivedInv'
  OBVIOUS
<1>1. CASE compute_metrics
  <2>1. "derived" \in DOMAIN csv
    BY DEF RowsInv, FileRows
  <2>2. PICK f \in {"full", "matrix", "parsed"} :
          csv'["derived"] = [i \in DOMAIN csv[f] |-> Derived(csv[f], csv[f][i])]
    BY <1>1, <2>1 DEF compute_metrics
  <2> DEFINE rows == csv[f]
  <2>3. rows \in Seq(Range(rows)) /\ \A i \in DOMAIN rows : Timed(rows[i])
    BY RowsTimed DEF RowsInv
  <2> HIDE DEF rows
  <2>4. ASSUME NEW i \in DOMAIN rows, Derived(rows, rows[i]).speedup # Blank
        PROVE  LET row == Derived(rows, rows[i])
               IN  /\ row.speedup[2] = row.vals["cycles"]
                   /\ \E v \in 0 .. MaxEdits, program \in GoesBy(row.benchmark) :
                        row.speedup[1] = Value(program, Image("B0", v), "cycles")
    <3> DEFINE row == rows[i]
               d == Derived(rows, row)
               base == baseline_cycles(rows, row.benchmark)
    <3>1. /\ d.speedup = speedup_vs_baseline(rows, row)
          /\ d.vals = row.vals /\ d.benchmark = row.benchmark
      BY DEF Derived
    <3>2. base # Blank /\ d.speedup = <<base, row.vals["cycles"]>>
      BY <2>4, <3>1 DEF speedup_vs_baseline
    <3>3. PICK v \in 0 .. MaxEdits, program \in GoesBy(row.benchmark) :
            base = Value(program, Image("B0", v), "cycles")
      BY <2>3, <3>2, BaselineIs
    <3> HIDE DEF d, base
    <3>4. d.speedup[1] = base /\ d.speedup[2] = row.vals["cycles"]
      BY <3>2
    <3> QED
      BY <3>1, <3>3, <3>4 DEF d
  <2>5. /\ DOMAIN csv'["derived"] = DOMAIN rows
        /\ \A i \in DOMAIN rows : csv'["derived"][i] = Derived(rows, rows[i])
    BY <2>2 DEF rows
  <2> QED
    BY <2>4, <2>5 DEF DerivedInv, SpeedupOverBaseline
<1>2. CASE ~compute_metrics
  <2>1. csv'["derived"] = csv["derived"]
    <3>0. "derived" \in DOMAIN csv
      BY DEF RowsInv, FileRows
    <3>1. CASE ParseHamsa \/ ParseSparv
      BY <3>0, <3>1 DEF ParseHamsa, ParseSparv
    <3>2. CASE End
      <4>1. run.req \in Requests
        BY <3>2 DEF End, MadeInv, Inv, RunInv, Placed
      <4> QED
        BY <3>0, <3>2, <4>1, RequestsAssumption DEF End
    <3>3. CASE Crash
      <4>1. run.req \in Requests
        BY <3>3 DEF Crash, MadeInv, Inv, RunInv, Placed
      <4> QED
        BY <3>0, <3>3, <4>1, RequestsAssumption DEF Crash
    <3>4. CASE UNCHANGED csv
      BY <3>4
    <3> QED
      BY <1>2, <3>1, <3>2, <3>3, <3>4
         DEF Next, Begin, Generate, GeneratedFor, Make, Simulate, GenerateOrMakeFails, Backend,
             EditSources, vars
  <2> QED
    BY <2>1 DEF DerivedInv, SpeedupOverBaseline
<1> QED
  BY <1>1, <1>2

(* A derived speedup divides the cycles of the baseline on the same        *)
(* benchmark by the row's own (compute_metrics.py:41, 64).                 *)
THEOREM SpeedupsOverBaseline == Spec => []SpeedupOverBaseline
<1>1. Init => DerivedInv
  <2>1. DOMAIN <<>> = {}
    OBVIOUS
  <2> QED
    BY <2>1 DEF Init, None, DerivedInv, SpeedupOverBaseline
<1>2. DerivedInv => SpeedupOverBaseline
  BY DEF DerivedInv
<1> QED
  BY <1>1, <1>2, MeasuredInit, MeasuredNext, DerivedNext, PTL DEF Spec

(* For the row that is plotted, the plot shows the derived speedup         *)
(* (plot_results.py:34-49, compute_metrics.py:64).                         *)
THEOREM PlotsShowDerived == Spec => []PlotsAgree
<1>1. MadeInv /\ RowsInv => PlotsAgree
  <2> SUFFICES ASSUME MadeInv, FileRows, NEW f \in {"full", "matrix", "parsed"},
                      NEW i \in DOMAIN csv[f],
                      csv[f][i].vals["cycles"]
                        = bybench(csv[f], csv[f][i].benchmark, csv[f][i].configuration)
               PROVE  plotted_speedup(csv[f], csv[f][i].benchmark, csv[f][i].configuration)
                        = speedup_vs_baseline(csv[f], csv[f][i])
    BY DEF PlotsAgree, RowsInv
  <2> DEFINE rows == csv[f]
             row == rows[i]
             base == bybench(rows, row.benchmark, "B0")
  <2>1. \A j \in DOMAIN rows : rows[j].vals["cycles"] # Blank
    <3> SUFFICES ASSUME NEW j \in DOMAIN rows PROVE rows[j].vals["cycles"] # Blank
      OBVIOUS
    <3>1. \E program, image : rows[j].vals["cycles"] = Value(program, image, "cycles")
      BY RowsTimed DEF Timed
    <3> QED
      BY <3>1 DEF Value, Blank
  <2>2. baseline_cycles(rows, row.benchmark) = base
    <3>1. {j \in DOMAIN rows : rows[j].configuration = "B0" /\ rows[j].benchmark = row.benchmark
                                 /\ rows[j].vals["cycles"] # Blank}
            = {j \in DOMAIN rows : rows[j].benchmark = row.benchmark
                                     /\ rows[j].configuration = "B0"}
      BY <2>1
    <3> QED
      BY <3>1 DEF baseline_cycles, bybench
  <2>3. row.vals["cycles"] # Blank
    BY <2>1
  <2> QED
    BY <2>2, <2>3 DEF plotted_speedup, speedup_vs_baseline
<1> QED
  BY <1>1, MeasuredInit, MeasuredNext, PTL DEF Spec

---------------------------------------------------------------------------
(***************************************************************************)
(* Areas: reported for the design a row's configuration elaborates to.     *)
(***************************************************************************)
Reported(cfg, area) == area # Blank => area[3][1] = Elaborated(cfg)
PpaInv ==
  /\ \A cfg \in DOMAIN json : Reported(cfg, json[cfg])
  /\ run.step # "idle" /\ run.req.script = "ppa" =>
       \A i \in DOMAIN run.rows :
         Reported(run.rows[i].configuration, run.rows[i].vals["area"])
  /\ \A i \in DOMAIN csv["ppa"] :
       Reported(csv["ppa"][i].configuration, csv["ppa"][i].vals["area"])

\* A flow leaves a report of its own, or none, and if it is through a row with
\* the report that is there.
LEMMA BackendReports ==
  ASSUME Inv, ImagesInv, PpaInv, Backend
  PROVE  /\ \A cfg \in DOMAIN json' : Reported(cfg, json'[cfg])
         /\ \/ run' = Over(run, "failed")
            \/ \E row : /\ run'.rows = Append(run.rows, row)
                        /\ Reported(row.configuration, row.vals["area"])
<1> DEFINE cfg == Item[2]
           design == Netlist(cfg)
           area == Value("ppa", design, "area")
           vals == [k \in {"area"} |-> At(json', cfg, Blank)]
<1>1. /\ run.step = "backend" /\ json' \in {json, With(json, cfg, area)}
      /\ \/ run' = Over(run, "failed")
         \/ run' = After([run EXCEPT !.rows = KeepRow(vals, run.rows)])
  BY DEF Backend
<1>2. DOMAIN run = Fields /\ run.req.script = "ppa"
  BY <1>1 DEF Inv, RunInv, Shape, Placed
<1>3. design[1] = Elaborated(cfg)
  <2>1. CASE cfg = "B0"
    BY <2>1 DEF Netlist, Image, Elaborated
  <2>2. CASE cfg # "B0"
    <3>1. Resolved(cfg) = cfg
      BY <1>1 DEF ImagesInv, Synthesized, AllConfigs, SparvConfigs, Resolved
    <3>2. generated[Core(cfg)][1] = cfg
      BY <1>1, <2>2, <3>1 DEF ImagesInv, MadeFor, Image
    <3>3. Netlist(cfg) = Image(Elaborated(cfg), generated[Core(cfg)][2])
      BY <2>2, <3>2 DEF Netlist
    <3> QED
      BY <3>3 DEF Image
  <2> QED
    BY <2>1, <2>2
<1> HIDE DEF design
<1>4. area[3] = design
  BY DEF Value
<1>5. Reported(cfg, area)
  BY <1>3, <1>4 DEF Reported
<1> HIDE DEF area
<1>6. \A c \in DOMAIN json' : Reported(c, json'[c])
  <2>1. CASE json' = json
    BY <2>1 DEF PpaInv
  <2>2. CASE json' = With(json, cfg, area)
    BY <1>5, <2>2 DEF PpaInv, With
  <2> QED
    BY <1>1, <2>1, <2>2
<1>7. Reported(cfg, vals["area"])
  BY <1>6 DEF At, Reported
<1> HIDE DEF vals
<1> DEFINE row == Row(Called(run.req, Item[1]), cfg,
                      IF run.req.script = "matrix" THEN run.sha ELSE Blank, vals)
           r == [run EXCEPT !.rows = Append(run.rows, row)]
<1>8. ASSUME run' # Over(run, "failed")
      PROVE  DOMAIN r = Fields /\ r.rows = Append(run.rows, row) /\ run' = After(r)
  BY <1>1, <1>2, <1>8 DEF Fields, KeepRow
<1>9. row.configuration = cfg /\ row.vals = vals
  BY DEF Row
<1> HIDE DEF row, r
<1>10. run' # Over(run, "failed") => run'.rows = Append(run.rows, row)
  BY <1>8, AfterIs
<1> QED
  BY <1>6, <1>7, <1>9, <1>10

LEMMA PpaInit == Init => PpaInv
<1>1. DOMAIN <<>> = {}
  OBVIOUS
<1> QED
  BY <1>1 DEF Init, None, PpaInv

LEMMA PpaNext == MadeInv /\ PpaInv /\ [Next]_vars => PpaInv'
<1> SUFFICES ASSUME Inv, ImagesInv, PpaInv, [Next]_vars PROVE PpaInv'
  BY DEF MadeInv
<1>1. DOMAIN run = Fields /\ RunInv /\ RunInv'
  BY RunStep DEF Inv, RunInv, Shape
<1>2. ASSUME NEW i \in DOMAIN csv'["ppa"]
      PROVE  Reported(csv'["ppa"][i].configuration, csv'["ppa"][i].vals["area"])
  <2>1. CASE csv'["ppa"] = csv["ppa"]
    BY <1>2, <2>1 DEF PpaInv
  <2>2. CASE csv'["ppa"] # csv["ppa"]
    <3>1. /\ run.step = "end" /\ run.req.script = "ppa"
          /\ \E n \in 0 .. Len(run.rows) : csv'["ppa"] = SubSeq(run.rows, 1, n)
      BY <2>2, FilesChange DEF Kept
    <3> DEFINE part == csv'["ppa"]
    <3>2. PICK n \in 0 .. Len(run.rows) : part = SubSeq(run.rows, 1, n)
      BY <3>1
    <3>3. i \in DOMAIN part
      BY <1>2
    <3> HIDE DEF part
    <3>4. run.rows \in Seq(Range(run.rows)) /\ Len(run.rows) \in Nat
      BY <3>1 DEF Inv, RunInv, Collected, RowsOf
    <3>5. /\ part \in Seq(Range(run.rows)) /\ Len(part) = n
          /\ \A j \in 1 .. n : part[j] = run.rows[j]
      BY <3>2, <3>4, SubSeqProperties
    <3>6. i \in DOMAIN run.rows /\ part[i] = run.rows[i]
      BY <3>3, <3>4, <3>5
    <3> QED
      BY <3>1, <3>6 DEF PpaInv, part
  <2> QED
    BY <2>1, <2>2
<1>3. CASE Backend /\ run' # Over(run, "failed")
  <2>1. PICK row : /\ run'.rows = Append(run.rows, row)
                   /\ Reported(row.configuration, row.vals["area"])
    BY <1>3, BackendReports
  <2>2. run.req.script = "ppa" /\ run.step # "idle"
    BY <1>1, <1>3 DEF Backend, RunInv, Placed
  <2>3. run.rows \in Seq(Range(run.rows))
    BY <2>2 DEF Inv, RunInv, Collected, RowsOf
  <2> DEFINE T == Range(run.rows) \cup {row}
  <2>4. run.rows \in Seq(T) /\ row \in T
    BY <2>3, Widened
  <2>5. /\ DOMAIN run'.rows = 1 .. Len(run.rows) + 1 /\ DOMAIN run.rows = 1 .. Len(run.rows)
        /\ Len(run.rows) \in Nat
        /\ run'.rows[Len(run.rows) + 1] = row
        /\ \A i \in 1 .. Len(run.rows) : run'.rows[i] = run.rows[i]
    BY <2>1, <2>4
  <2>6. ASSUME NEW i \in DOMAIN run'.rows
        PROVE  Reported(run'.rows[i].configuration, run'.rows[i].vals["area"])
    <3>1. CASE i = Len(run.rows) + 1
      BY <2>1, <2>5, <3>1
    <3>2. CASE i # Len(run.rows) + 1
      BY <2>2, <2>5, <3>2 DEF PpaInv
    <3> QED
      BY <3>1, <3>2
  <2> QED
    BY <1>2, <1>3, <2>6, BackendReports DEF PpaInv
<1>4. CASE ~(Backend /\ run' # Over(run, "failed"))
  <2>1. \A cfg \in DOMAIN json' : Reported(cfg, json'[cfg])
    <3>1. CASE Backend
      BY <3>1, BackendReports
    <3>2. CASE ~Backend
      <4>1. json' = json
        BY <3>2 DEF Next, Begin, Generate, GeneratedFor, Make, Simulate, GenerateOrMakeFails,
                End, Crash, ParseHamsa, ParseSparv, compute_metrics, EditSources, Rest, vars
      <4> QED
        BY <4>1 DEF PpaInv
    <3> QED
      BY <3>1, <3>2
  <2>2. \/ run'.step = "idle" \/ run'.rows = <<>> \/ run'.req.script # "ppa"
        \/ run.step # "idle" /\ run'.rows = run.rows /\ run'.req = run.req
        \/ run' = run
    <3>1. CASE Begin
      <4>1. PICK req \in Requests :
              LET r == [run EXCEPT !.inv = @ + 1, !.req = req, !.at = 0, !.sha = version,
                          !.result = "none",
                          !.failures = {<<f, "missing">> : f \in Range(req.firmware) \ Firmware}]
              IN  run' = IF Refused(req) THEN Over(r, "failed") ELSE After(r)
        BY <3>1 DEF Begin
      <4> DEFINE r == [run EXCEPT !.inv = @ + 1, !.req = req, !.at = 0, !.sha = version,
                         !.result = "none",
                         !.failures = {<<f, "missing">> : f \in Range(req.firmware) \ Firmware}]
      <4>2. DOMAIN r = Fields /\ r.rows = run.rows
        BY <1>1 DEF Fields
      <4>3. run' = Over(r, "failed") \/ run' = After(r)
        BY <4>1
      <4> HIDE DEF r
      <4>4. run.rows = <<>>
        BY <1>1, <3>1 DEF Begin, RunInv, Shape
      <4> QED
        BY <4>2, <4>3, <4>4, OverIs, AfterIs
    <3>2. CASE Generate \/ Make
      <4>1. run.step # "idle" /\ \E s : run' = [run EXCEPT !.step = s]
        BY <3>2 DEF Generate, GeneratedFor, Make
      <4> QED
        BY <1>1, <4>1 DEF Fields
    <3>3. CASE Simulate
      <4>1. run'.req = run.req
        BY <1>1, <3>3, SimulateIs, SimulatedMoves
      <4> QED
        BY <1>1, <3>3, <4>1, SimulateIs
    <3>4. CASE GenerateOrMakeFails
      <4>1. CASE run' = Over(run, "failed")
        BY <1>1, <4>1, OverIs
      <4>2. CASE Simulated("broken", 1, None, {}) /\ run.req.script \in {"full", "matrix", "regression"}
        BY <1>1, <4>2, SimulatedMoves
      <4> QED
        BY <1>1, <3>4, <4>1, <4>2, FailureIs
    <3>5. CASE run' = Over(run, "failed") \/ End \/ Crash
      <4>1. \E result : run' = Over(run, result)
        BY <3>5 DEF End, Crash
      <4> QED
        BY <1>1, <4>1, OverIs
    <3>6. CASE run' = run
      BY <3>6
    <3> QED
      BY <1>4, <3>1, <3>2, <3>3, <3>4, <3>5, <3>6
         DEF Next, ParseHamsa, ParseSparv, compute_metrics, EditSources, Rest, vars
  <2>3. DOMAIN <<>> = {}
    OBVIOUS
  <2> QED
    BY <1>2, <2>1, <2>2, <2>3 DEF PpaInv
<1> QED
  BY <1>3, <1>4

(* The area in a row was reported for the design the row's configuration   *)
(* elaborates to, H0's being H1's (run_ppa_matrix.py:57-76).               *)
THEOREM AreasOfOwnDesign == Spec => []PpaOfOwnDesign
<1>1. PpaInv => PpaOfOwnDesign
  BY DEF PpaInv, PpaOfOwnDesign, Reported
<1> QED
  BY <1>1, MeasuredInit, MeasuredNext, PpaInit, PpaNext, PTL DEF Spec

---------------------------------------------------------------------------
(***************************************************************************)
(* The regression: a test that is through has failed, or what it left says *)
(* that it passed.                                                         *)
(***************************************************************************)
LogOf(item) == <<"regression", item[1], item[2]>>
Passed(written, signed, r, item) ==
  LET log == written[LogOf(item)]
  IN  /\ LogOf(item) \in DOMAIN written
      /\ log.inv = r.inv /\ log.rc = 0 /\ Has(log.text, "success")
      /\ r.req.signatures => /\ item \in DOMAIN r.seen /\ item \in DOMAIN signed
                             /\ r.seen[item] = signed[item]
Missing(req) == {<<f, "missing">> : f \in Range(req.firmware) \ Firmware}
Settled(written, signed, r, n) ==
  \A i \in 1 .. n : \/ Plan(r.req)[i] \in r.failures
                    \/ Passed(written, signed, r, Plan(r.req)[i])
RegressionInv ==
  run.step # "idle" /\ run.req.script = "regression" =>
    /\ Missing(run.req) \subseteq run.failures
    /\ Settled(logs, sigs, run, IF run.step = "end" THEN run.at ELSE run.at - 1)
PassInv ==
  /\ run.step # "idle" => run.result = "none"
  /\ RegressionInv
  /\ PassIsEarned

\* The entries of a plan are pairs of a firmware and a configuration.
LEMMA Pairs ==
  ASSUME NEW req \in Requests, NEW i \in 1 .. Len(Plan(req))
  PROVE  /\ Plan(req)[i] = <<Plan(req)[i][1], Plan(req)[i][2]>>
         /\ Plan(req)[i][1] \in Range(req.firmware)
         /\ req.script # "ppa" => Plan(req)[i][1] \in Firmware
<1> DEFINE item == Plan(req)[i]
<1>1. Plan(req) \in Seq(Range(Plan(req))) /\ Range(Plan(req)) = Wanted(req, Range(req.firmware))
  BY PlanContent
<1>2. item \in Wanted(req, Range(req.firmware))
  BY <1>1 DEF Range
<1> HIDE DEF item
<1>3. PICK f \in (IF req.script = "ppa" THEN Range(req.firmware) ELSE Range(req.firmware) \cap Firmware),
           c \in Range(req.configs) : item = <<f, c>>
  BY <1>2 DEF Wanted
<1>4. item[1] = f /\ item[2] = c
  BY <1>3
<1> QED
  BY <1>3, <1>4 DEF item

\* With every firmware there, the baseline runs whatever else does.
LEMMA BaselinePlanned ==
  ASSUME NEW req \in Requests, Range(req.firmware) \subseteq Firmware,
         "B0" \in Range(req.configs), NEW i \in 1 .. Len(Plan(req))
  PROVE  \E j \in 1 .. Len(Plan(req)) : Plan(req)[j] = <<Plan(req)[i][1], "B0">>
<1> DEFINE f == Plan(req)[i][1]
<1>1. Plan(req) \in Seq(Range(Plan(req))) /\ Range(Plan(req)) = Wanted(req, Range(req.firmware))
  BY PlanContent
<1>2. f \in Range(req.firmware) /\ f \in Firmware
  BY Pairs
<1> HIDE DEF f
<1>3. <<f, "B0">> \in Wanted(req, Range(req.firmware))
  BY <1>2 DEF Wanted
<1>4. <<f, "B0">> \in Range(Plan(req))
  BY <1>1, <1>3
<1> QED
  BY <1>1, <1>4 DEF Range, f

\* Different entries have different logs.
LEMMA LogsApart ==
  ASSUME NEW req \in Requests, NEW i \in 1 .. Len(Plan(req)), NEW n \in 1 .. Len(Plan(req)),
         Plan(req)[i] # Plan(req)[n]
  PROVE  LogOf(Plan(req)[i]) # LogOf(Plan(req)[n])
<1> DEFINE item == Plan(req)[i]
           other == Plan(req)[n]
<1>1. item = <<item[1], item[2]>> /\ other = <<other[1], other[2]>>
  BY Pairs
<1>2. item # other
  OBVIOUS
<1> HIDE DEF item, other
<1>3. item[1] # other[1] \/ item[2] # other[2]
  BY <1>1, <1>2
<1>4. LogOf(item) # LogOf(other)
  BY <1>3 DEF LogOf
<1> QED
  BY <1>4 DEF item, other

LEMMA RegressionSimulated ==
  ASSUME RunInv, RegressionInv, run.step \notin {"idle", "end"}, run.req.script = "regression",
         NEW outcome, NEW rc, NEW written, NEW later,
         Simulated(outcome, rc, written, later)
  PROVE  RegressionInv' /\ run'.result = run.result
<1> DEFINE text == Output(outcome, Item[1], work[Suffix(Item[2])], later)
           log == [inv |-> run.inv, rc |-> rc, text |-> text]
           sig == At(sigs', Item, None)
           req == run.req
           n == run.at
<1>1. /\ DOMAIN run = Fields /\ req \in Requests /\ n \in 1 .. Len(Plan(req))
      /\ Len(Plan(req)) \in Nat
  BY PlanLength DEF RunInv, Shape, Placed
<1>2. Item = Plan(req)[n] /\ Log = LogOf(Item) /\ logs' = With(logs, Log, log)
  <2>1. Called(run.req, Item[1]) = Item[1]
    BY DEF Called
  <2> QED
    BY <2>1 DEF Item, Log, LogOf, Simulated
<1>3. \A k \in DOMAIN sigs \ {Item} : k \in DOMAIN sigs' /\ sigs'[k] = sigs[k]
  <2>1. sigs' = sigs \/ sigs' = With(sigs, Item, written)
    BY DEF Simulated
  <2>2. CASE sigs' = sigs
    BY <2>2
  <2>3. CASE sigs' = With(sigs, Item, written)
    BY <2>3 DEF With
  <2> QED
    BY <2>1, <2>2, <2>3
<1>4. log.inv = run.inv /\ log.rc = rc /\ log.text = text
  OBVIOUS
<1>5. Fails(run) \/ Passes(run, rc, text, sig)
  BY SimulatedIs DEF Collects
<1>6. LogOf(Item) \in DOMAIN logs' /\ logs'[LogOf(Item)] = log
  BY <1>2 DEF With
<1> HIDE DEF text, log, sig
<1>7. PICK r :
        /\ run' = After(r) /\ DOMAIN r = Fields /\ r.req = req /\ r.at = n /\ r.inv = run.inv
        /\ r.result = run.result /\ run.failures \subseteq r.failures
        /\ \A k \in DOMAIN run.seen \ {Item} : k \in DOMAIN r.seen /\ r.seen[k] = run.seen[k]
        /\ Item \in r.failures \/ Passed(logs', sigs', r, Item)
  <2>1. CASE Fails(run)
    <3> DEFINE r == [run EXCEPT !.failures = @ \cup {Item}]
    <3>1. /\ DOMAIN r = Fields /\ r.req = req /\ r.at = n /\ r.inv = run.inv
          /\ r.result = run.result /\ r.failures = run.failures \cup {Item} /\ r.seen = run.seen
      BY <1>1 DEF Fields
    <3>2. run' = After(r)
      BY <2>1 DEF Fails
    <3> HIDE DEF r
    <3> QED
      BY <3>1, <3>2
  <2>2. CASE Passes(run, rc, text, sig) /\ ~req.signatures
    <3>1. run' = After(run) /\ rc = 0 /\ Has(text, "success")
      BY <2>2 DEF Passes
    <3>2. Passed(logs', sigs', run, Item)
      BY <1>4, <1>6, <2>2, <3>1 DEF Passed
    <3> QED
      BY <1>1, <3>1, <3>2
  <2>3. CASE Passes(run, rc, text, sig) /\ req.signatures
    <3> DEFINE seen == With(run.seen, Item, sig)
               r == [run EXCEPT !.seen = seen]
    <3>1. /\ DOMAIN r = Fields /\ r.req = req /\ r.at = n /\ r.inv = run.inv
          /\ r.result = run.result /\ r.failures = run.failures /\ r.seen = seen
      BY <1>1 DEF Fields
    <3>2. run' = After(r) /\ rc = 0 /\ Has(text, "success") /\ sig # None
      BY <2>3 DEF Passes
    <3>3. /\ Item \in DOMAIN seen /\ seen[Item] = sig
          /\ \A k \in DOMAIN run.seen \ {Item} : k \in DOMAIN seen /\ seen[k] = run.seen[k]
      BY DEF With
    <3> HIDE DEF r, seen
    <3>4. Item \in DOMAIN sigs' /\ sigs'[Item] = sig
      BY <3>2 DEF At, sig
    <3>5. Passed(logs', sigs', r, Item)
      BY <1>4, <1>6, <3>1, <3>2, <3>3, <3>4 DEF Passed
    <3> QED
      BY <3>1, <3>2, <3>3, <3>5
  <2> QED
    BY <1>5, <2>1, <2>2, <2>3
<1>8. /\ run'.req = req /\ run'.inv = run.inv /\ run'.failures = r.failures
      /\ run'.seen = r.seen /\ run'.result = run.result
      /\ \/ run'.step = "end" /\ run'.at = n
         \/ run'.step = "generate" /\ run'.at = n + 1
  BY <1>7, AfterIs
<1>9. Settled(logs, sigs, run, n - 1) /\ Missing(req) \subseteq run.failures
  BY <1>1 DEF RegressionInv
<1>10. ASSUME NEW i \in 1 .. n
       PROVE  Plan(req)[i] \in r.failures \/ Passed(logs', sigs', r, Plan(req)[i])
  <2>1. CASE Plan(req)[i] = Item
    BY <1>7, <2>1
  <2>2. CASE Plan(req)[i] # Item
    <3>1. i \in 1 .. n - 1 /\ i \in 1 .. Len(Plan(req))
      BY <1>1, <1>2, <2>2
    <3>2. CASE Plan(req)[i] \in run.failures
      BY <1>7, <3>2
    <3>3. CASE Passed(logs, sigs, run, Plan(req)[i])
      <4> DEFINE item == Plan(req)[i]
      <4>1. LogOf(item) # Log
        BY <1>1, <1>2, <2>2, <3>1, LogsApart
      <4>2. LogOf(item) \in DOMAIN logs => /\ LogOf(item) \in DOMAIN logs'
                                           /\ logs'[LogOf(item)] = logs[LogOf(item)]
        BY <1>2, <4>1 DEF With
      <4>3. /\ item \in DOMAIN sigs => item \in DOMAIN sigs' /\ sigs'[item] = sigs[item]
            /\ item \in DOMAIN run.seen => item \in DOMAIN r.seen /\ r.seen[item] = run.seen[item]
        BY <1>3, <1>7, <2>2
      <4>4. r.inv = run.inv /\ r.req = run.req
        BY <1>7
      <4> QED
        BY <3>3, <4>2, <4>3, <4>4 DEF Passed
    <3> QED
      BY <1>9, <3>1, <3>2, <3>3 DEF Settled
  <2> QED
    BY <2>1, <2>2
<1>11. \A item : Passed(logs', sigs', r, item) => Passed(logs', sigs', run', item)
  BY <1>7, <1>8 DEF Passed
<1>12. Settled(logs', sigs', run', n)
  BY <1>8, <1>10, <1>11 DEF Settled
<1>13. (IF run'.step = "end" THEN run'.at ELSE run'.at - 1) = n
  BY <1>1, <1>8
<1>14. Missing(req) \subseteq run'.failures
  BY <1>7, <1>8, <1>9
<1> QED
  BY <1>8, <1>12, <1>13, <1>14 DEF RegressionInv

\* When no test and no comparison has failed, the signatures are the baseline's.
LEMMA EarnedAtEnd ==
  ASSUME RunInv, RegressionInv, End, run.req.script = "regression",
         run.failures \cup Differing(run.seen) = {},
         NEW i \in DOMAIN Plan(run.req)
  PROVE  LET item == Plan(run.req)[i]
             log  == logs[LogOf(item)]
         IN  /\ Range(run.req.firmware) \subseteq Firmware
             /\ log.inv = run.inv /\ log.rc = 0 /\ Has(log.text, "success")
             /\ run.req.signatures /\ "B0" \in Range(run.req.configs) =>
                  sigs[item] = sigs[<<item[1], "B0">>]
<1> DEFINE req == run.req
           item == Plan(req)[i]
           base == <<item[1], "B0">>
<1>1. /\ run.step = "end" /\ req \in Requests /\ run.at = Len(Plan(req))
      /\ Plan(req) \in Seq(Range(Plan(req)))
  BY PlanContent DEF End, RunInv, Placed
<1>2. i \in 1 .. Len(Plan(req))
  BY <1>1
<1>3. run.failures = {} /\ Differing(run.seen) = {}
  OBVIOUS
<1>4. \A j \in 1 .. Len(Plan(req)) : Passed(logs, sigs, run, Plan(req)[j])
  BY <1>1, <1>3 DEF RegressionInv, Settled
<1>5. Range(req.firmware) \subseteq Firmware
  BY <1>1, <1>3 DEF RegressionInv, Missing
<1>6. Passed(logs, sigs, run, item)
  BY <1>2, <1>4
<1>7. ASSUME req.signatures, "B0" \in Range(req.configs)
      PROVE  sigs[item] = sigs[base]
  <2>1. PICK j \in 1 .. Len(Plan(req)) : Plan(req)[j] = base
    BY <1>1, <1>2, <1>5, <1>7, BaselinePlanned
  <2>2. Passed(logs, sigs, run, base)
    BY <1>4, <2>1
  <2>3. /\ item \in DOMAIN run.seen /\ run.seen[item] = sigs[item]
        /\ base \in DOMAIN run.seen /\ run.seen[base] = sigs[base]
    BY <1>6, <1>7, <2>2 DEF Passed
  <2>4. run.seen[item] = run.seen[base]
    BY <1>3, <2>3 DEF Differing
  <2> QED
    BY <2>3, <2>4
<1> QED
  BY <1>5, <1>6, <1>7 DEF Passed

LEMMA PassKept ==
  ASSUME PassInv, \/ run'.step = "idle" /\ run'.result # "ok"
                  \/ run'.step = "idle" /\ run'.req.script # "regression"
                  \/ UNCHANGED <<run, logs, sigs>>
                  \/ run'.step # "idle" /\ run'.result = "none" /\ RegressionInv'
  PROVE  PassInv'
<1>1. CASE run'.step = "idle" /\ run'.result # "ok"
  BY <1>1 DEF PassInv, RegressionInv, PassIsEarned
<1>2. CASE run'.step = "idle" /\ run'.req.script # "regression"
  BY <1>2 DEF PassInv, RegressionInv, PassIsEarned
<1>3. CASE UNCHANGED <<run, logs, sigs>>
  BY <1>3 DEF PassInv, RegressionInv, PassIsEarned
<1>4. CASE run'.step # "idle" /\ run'.result = "none" /\ RegressionInv'
  BY <1>4 DEF PassInv, PassIsEarned
<1> QED
  BY <1>1, <1>2, <1>3, <1>4

LEMMA PassNext == RunInv /\ PassInv /\ [Next]_vars => PassInv'
<1> SUFFICES ASSUME RunInv, PassInv, [Next]_vars PROVE PassInv'
  OBVIOUS
<1>1. DOMAIN run = Fields /\ RegressionInv /\ (run.step # "idle" => run.result = "none")
  BY DEF RunInv, Shape, PassInv
<1>2. CASE Begin
  <2>1. PICK req \in Requests :
          LET r == [run EXCEPT !.inv = @ + 1, !.req = req, !.at = 0, !.sha = version,
                      !.result = "none", !.failures = Missing(req)]
          IN  run' = IF Refused(req) THEN Over(r, "failed") ELSE After(r)
    BY <1>2 DEF Begin, Missing
  <2> DEFINE r == [run EXCEPT !.inv = @ + 1, !.req = req, !.at = 0, !.sha = version,
                     !.result = "none", !.failures = Missing(req)]
  <2>2. DOMAIN r = Fields /\ r.req = req /\ r.at = 0 /\ r.result = "none" /\ r.failures = Missing(req)
    BY <1>1 DEF Fields
  <2>3. run' = Over(r, "failed") \/ run' = After(r)
    BY <2>1
  <2> HIDE DEF r
  <2>4. CASE run' = Over(r, "failed")
    BY <2>2, <2>4, OverIs, PassKept
  <2>5. CASE run' = After(r)
    <3>1. /\ run'.req = req /\ run'.result = "none" /\ run'.failures = Missing(req)
          /\ \/ run'.step = "end" /\ run'.at = 0
             \/ run'.step = "generate" /\ run'.at = 1
      BY <2>2, <2>5, AfterIs
    <3>2. (IF run'.step = "end" THEN run'.at ELSE run'.at - 1) = 0
      BY <3>1
    <3>3. Settled(logs, sigs, run, 0)'
      BY DEF Settled
    <3>4. RegressionInv'
      BY <3>1, <3>2, <3>3 DEF RegressionInv
    <3> QED
      BY <3>1, <3>4, PassKept
  <2> QED
    BY <2>3, <2>4, <2>5
<1>3. CASE Generate \/ Make
  <2>1. /\ run.step \notin {"idle", "end"} /\ UNCHANGED <<logs, sigs>>
        /\ \E s \in {"backend", "make", "simulate"} : run' = [run EXCEPT !.step = s]
    BY <1>3 DEF Generate, GeneratedFor, Make
  <2>2. /\ run'.step \notin {"idle", "end"} /\ run'.req = run.req /\ run'.at = run.at
        /\ run'.failures = run.failures /\ run'.result = run.result
        /\ run'.inv = run.inv /\ run'.seen = run.seen
    BY <1>1, <2>1 DEF Fields
  <2>3. \A item : Passed(logs, sigs, run, item) => Passed(logs, sigs, run', item)
    BY <2>2 DEF Passed
  <2>4. RegressionInv'
    BY <1>1, <2>1, <2>2, <2>3 DEF RegressionInv, Settled
  <2> QED
    BY <1>1, <2>1, <2>2, <2>4, PassKept
<1>4. ASSUME run.step \notin {"idle", "end"}, run.req.script \in {"full", "matrix", "regression"},
             NEW outcome, NEW rc, NEW written, NEW later,
         Simulated(outcome, rc, written, later)
      PROVE  PassInv'
  <2>1. CASE run.req.script = "regression"
    <3>1. RegressionInv' /\ run'.result = "none"
      BY <1>1, <1>4, <2>1, RegressionSimulated
    <3> QED
      BY <3>1, PassKept
  <2>2. CASE run.req.script # "regression"
    <3>1. run'.req = run.req
      BY <1>4, SimulatedMoves
    <3>2. RegressionInv'
      BY <2>2, <3>1 DEF RegressionInv
    <3>3. run'.step = "idle" \/ run'.result = "none"
      <4>1. CASE run' = Over(run, "failed")
        BY <1>1, <4>1, OverIs
      <4>2. CASE \E rows : run' = After([run EXCEPT !.rows = rows])
        <5>1. \E r : run' = After(r) /\ DOMAIN r = Fields /\ r.result = "none"
          BY <1>1, <1>4, <4>2 DEF Fields
        <5> QED
          BY <5>1, AfterIs
      <4>3. \/ run' = Over(run, "failed")
            \/ \E rows : run' = After([run EXCEPT !.rows = rows])
        BY <1>4, <2>2, SimulatedIs DEF Collects, Fails, Passes
      <4> QED
        BY <4>1, <4>2, <4>3
    <3> QED
      BY <2>2, <3>1, <3>2, <3>3, PassKept
  <2> QED
    BY <2>1, <2>2
<1>5. CASE Simulate
  BY <1>4, <1>5, SimulateIs
<1>6. CASE GenerateOrMakeFails
  <2>1. CASE run' = Over(run, "failed")
    BY <1>1, <2>1, OverIs, PassKept
  <2> QED
    BY <1>4, <1>6, <2>1, FailureIs
<1>7. CASE Backend
  <2>1. run.req.script = "ppa" /\ run.step # "idle"
    BY <1>7 DEF Backend, RunInv, Placed
  <2>2. CASE run' = Over(run, "failed")
    BY <1>1, <2>2, OverIs, PassKept
  <2>3. CASE \E rows : run' = After([run EXCEPT !.rows = rows])
    <3>1. \E r : /\ run' = After(r) /\ DOMAIN r = Fields
                 /\ r.result = "none" /\ r.req = run.req
      BY <1>1, <2>1, <2>3 DEF Fields
    <3>2. run'.req = run.req /\ run'.result = "none" /\ run'.step # "idle"
      BY <3>1, AfterIs
    <3> QED
      BY <2>1, <3>2, PassKept DEF RegressionInv
  <2> QED
    BY <1>7, <2>2, <2>3 DEF Backend
<1>8. CASE Crash
  BY <1>1, <1>8, OverIs, PassKept DEF Crash
<1>9. CASE End
  <2>1. CASE run.req.script # "regression"
    <3>1. run' = Over(run, "ok")
      BY <1>9, <2>1 DEF End
    <3> QED
      BY <1>1, <2>1, <3>1, OverIs, PassKept
  <2>2. CASE run.req.script = "regression" /\ run.failures \cup Differing(run.seen) # {}
    <3>1. run' = Over(run, "failed")
      BY <1>9, <2>2 DEF End
    <3> QED
      BY <1>1, <3>1, OverIs, PassKept
  <2>3. CASE run.req.script = "regression" /\ run.failures \cup Differing(run.seen) = {}
    <3>1. run' = Over(run, "ok") /\ UNCHANGED <<logs, sigs>>
      BY <1>9, <2>3 DEF End
    <3>2. run'.step = "idle" /\ run'.req = run.req /\ run'.inv = run.inv
      BY <1>1, <3>1, OverIs
    <3>3. \A i \in DOMAIN Plan(run.req) :
            LET item == Plan(run.req)[i]
                log  == logs[LogOf(item)]
            IN  /\ log.inv = run.inv /\ log.rc = 0 /\ Has(log.text, "success")
                /\ run.req.signatures /\ "B0" \in Range(run.req.configs) =>
                     sigs[item] = sigs[<<item[1], "B0">>]
      BY <1>1, <1>9, <2>3, EarnedAtEnd
    <3>4. Range(run.req.firmware) \subseteq Firmware
      <4>1. run.step = "end" /\ run.failures = {}
        BY <1>9, <2>3 DEF End
      <4> QED
        BY <1>1, <2>3, <4>1 DEF RegressionInv, Missing
    <3>5. PassIsEarned'
      BY <3>1, <3>2, <3>3, <3>4 DEF PassIsEarned, LogOf
    <3> QED
      BY <3>2, <3>5 DEF PassInv, RegressionInv
  <2> QED
    BY <2>1, <2>2, <2>3
<1>10. CASE ParseHamsa \/ ParseSparv \/ compute_metrics \/ EditSources \/ UNCHANGED vars
  <2>1. UNCHANGED <<run, logs, sigs>>
    BY <1>10 DEF ParseHamsa, ParseSparv, compute_metrics, EditSources, Rest, vars
  <2> QED
    BY <2>1, PassKept
<1> QED
  BY <1>2, <1>3, <1>5, <1>6, <1>7, <1>8, <1>9, <1>10 DEF Next

(* "PASS: all selected configurations match": every test was run by this   *)
(* invocation, exited well and said so, and its signature is the           *)
(* baseline's (run_arch_regression.py:37-79).                              *)
THEOREM PassesAreEarned == Spec => []PassIsEarned
<1>1. Init => PassInv
  BY DEF Init, PassInv, RegressionInv, PassIsEarned
<1>2. PassInv => PassIsEarned
  BY DEF PassInv
<1> QED
  BY <1>1, <1>2, MeasuredInit, MeasuredNext, PassNext, PTL DEF Spec, MadeInv, Inv

---------------------------------------------------------------------------
(* Every result file holds the first rows of one command line, in its      *)
(* order and without a gap; all of them, unless the run was killed while   *)
(* it wrote (run_full_matrix.py:49-88).                                    *)
THEOREM FilesOfOneRun == Spec => []OneCommandLine
<1>1. Inv => OneCommandLine
  <2> SUFFICES ASSUME Inv, NEW f \in Kept, csv[f] # <<>>
               PROVE  \E req \in {r \in Requests : r.script = f} :
                        /\ Len(csv[f]) <= Len(Plan(req))
                        /\ \A i \in DOMAIN csv[f] :
                             /\ csv[f][i].benchmark = Called(req, Plan(req)[i][1])
                             /\ csv[f][i].configuration = Plan(req)[i][2]
    BY DEF OneCommandLine, Kept
  <2>1. PICK req \in Requests : req.script = f /\ RowsOf(csv[f], req)
    BY DEF Inv, FilesInv
  <2>2. DOMAIN csv[f] = 1 .. Len(csv[f])
    BY <2>1 DEF RowsOf
  <2> QED
    BY <2>1, <2>2 DEF RowsOf
<1> QED
  BY <1>1, InvInit, InvNext, PTL DEF Spec

(* Until every simulation of a command line is through, the results of the *)
(* last one stay: a file changes in the last step alone, where the code    *)
(* opens it; a kill in that step may leave it cut short                    *)
(* (run_full_matrix.py:84, run_ppa_matrix.py:81).                          *)
THEOREM ResultsStay == Spec => ResultsKept
<1> DEFINE Step == \A f \in {"full", "matrix", "ppa"} :
             csv'[f] # csv[f] => run.step = "end" /\ run.at = Len(Plan(run.req))
<1>1. Inv /\ [Next]_vars => [Step]_vars
  <2> SUFFICES ASSUME Inv, [Next]_vars, NEW f \in Kept, csv'[f] # csv[f]
               PROVE  run.step = "end" /\ run.at = Len(Plan(run.req))
    BY DEF Kept
  <2>1. run.step = "end"
    BY FilesChange
  <2> QED
    BY <2>1 DEF Inv, RunInv, Placed
<1> QED
  BY <1>1, InvInit, InvNext, PTL DEF Spec, ResultsKept

===========================================================================
