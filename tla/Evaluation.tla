---------------------------- MODULE Evaluation ----------------------------
(* The runners under evaluation/ at work in one tree: the files the        *)
(* generators write, make's compiled images, the logs, signatures and      *)
(* result files they leave for each other.  One runs at a time; any of its *)
(* steps may fail or be its last, and the sources change in between.       *)
EXTENDS MetricLogs

CONSTANTS
  Firmware,     \* the firmware files that are there
  Requests,     \* command lines: [script, name, firmware, configs, signatures]
  Splits,       \* the counters a second metric line has
  MaxRuns,      \* bound: invocations of a runner
  MaxEdits,     \* bound: changes of the preserved sources
  MaxParses     \* bound: uses of the parsers and of compute_metrics.py

ASSUME RequestsAssumption ==
  \A req \in Requests :
    /\ req.script \in {"full", "matrix", "regression", "ppa"}
    /\ req.firmware \in Seq(Range(req.firmware))
    /\ req.configs \in Seq(Range(req.configs))
    /\ req.script = "full" => Len(req.firmware) = 1
ASSUME BoundsAssumption == MaxEdits \in Nat

VARIABLES
  version,      \* of the preserved sources
  generated,    \* what the generated files of a suffix were made for
  due,          \* a testbench file is newer than make's stamps
  work,         \* the compiled image of a testbench top
  logs, sigs, json, csv,
  run, parses
vars == <<version, generated, due, work, logs, sigs, json, csv, run, parses>>

Image(cfg, v) == <<cfg, v>>
None == <<>>
(* What run_example_vsim.py takes, what run_ppa_matrix.py takes, and what  *)
(* is generated for it: the files of a suffix, or a core alone.            *)
SparvConfigs == {"SPARV-32", "SPARV-128"}
AllConfigs == {"B0", "H0", "H1", "H2", "H2-32", "H2-128"} \cup SparvConfigs
Synthesized == (AllConfigs \ {"H2"}) \cup {"H2-5R3W"}
allowed == {"B0", "H0", "H1", "H2-32", "H2-128"}
Resolved(cfg) == IF cfg = "H2" THEN "H2-32" ELSE cfg
Suffix(cfg) == IF cfg = "B0" THEN "eval"
               ELSE IF cfg \in {"H0", "H1"} THEN "hamsa" ELSE Resolved(cfg)
Core(cfg) == IF cfg \in SparvConfigs THEN "sparv" ELSE Suffix(cfg)
TestbenchSets == {Suffix(c) : c \in AllConfigs}

(* SPARV's testbench is made from H2's, which is written first.            *)
Writes(script, cfg) ==
  CASE script = "ppa" -> IF cfg = "B0" THEN {} ELSE {Core(cfg)}
    [] OTHER -> {Suffix(cfg)} \cup (CASE cfg = "SPARV-32"  -> {"sparv", "H2-32"}
                                     [] cfg = "SPARV-128" -> {"sparv", "H2-128"}
                                     [] OTHER -> {})

(* One simulation, or one synthesis, after the other.                      *)
ItemsOf(req, firmware) ==
  IF req.script # "ppa" /\ firmware \notin Firmware THEN <<>>
  ELSE [j \in DOMAIN req.configs |-> <<firmware, req.configs[j]>>]
Plan(req) ==
  LET upto[i \in 0 .. Len(req.firmware)] ==
        IF i = 0 THEN <<>> ELSE upto[i - 1] \o ItemsOf(req, req.firmware[i])
  IN  upto[Len(req.firmware)]
Item == Plan(run.req)[run.at]
(* run_full_matrix.py has one firmware, called by its --name.              *)
Called(req, firmware) == IF req.script = "full" THEN req.name ELSE firmware
Log == <<IF run.req.script = "regression" THEN "regression" ELSE "logs",
         Called(run.req, Item[1]), Item[2]>>

Init ==
  /\ version = 0 /\ due = TRUE /\ parses = 0
  /\ generated = [s \in TestbenchSets \cup {"sparv", "H2-5R3W"} |-> None]
  /\ work = [s \in TestbenchSets |-> None]
  /\ logs = << >> /\ sigs = << >> /\ json = << >>
  /\ csv = [f \in {"full", "matrix", "ppa", "parsed", "sparv", "derived"} |-> None]
  /\ run = [inv |-> 0, req |-> None, at |-> 0, step |-> "idle", rows |-> <<>>,
            sha |-> 0, failures |-> {}, seen |-> << >>, result |-> "none"]

(* The end of an invocation; what it held is gone.                         *)
Over(r, result) ==
  [r EXCEPT !.step = "idle", !.rows = <<>>, !.seen = << >>, !.result = result]
After(r) == IF r.at = Len(Plan(r.req)) THEN [r EXCEPT !.step = "end"]
            ELSE [r EXCEPT !.at = @ + 1, !.step = "generate"]

(* Firmware or a configuration that is not there ends most runners at      *)
(* once; the regression counts it as a failure and goes on.                *)
Refused(req) ==
  \/ req.script = "full" /\ ~(Range(req.configs) \subseteq allowed)
  \/ req.script = "full" /\ ~(Range(req.firmware) \subseteq Firmware)
  \/ req.script = "matrix" /\ ~(Range(req.configs) \subseteq AllConfigs)

Begin ==
  /\ run.step = "idle" /\ run.inv < MaxRuns
  /\ \E req \in Requests :
       LET r == [run EXCEPT !.inv = @ + 1, !.req = req, !.at = 0, !.sha = version, !.result = "none",
                   !.failures = {<<f, "missing">> :
                                   f \in Range(req.firmware) \ Firmware}]
       IN  run' = IF Refused(req) THEN Over(r, "failed") ELSE After(r)
  /\ UNCHANGED <<version, generated, due, work, logs, sigs, json, csv, parses>>

---------------------------------------------------------------------------
(* The runners' first step: every configuration has its generators, which  *)
(* write what they are for anew; a testbench that is written makes make    *)
(* compile again.  For a name that is none there is only the failing step  *)
(* (argparse, prepare).                                                    *)
GeneratedFor(script, cfg, sets) ==
  /\ generated' = [s \in DOMAIN generated |->
       IF s \in sets
       THEN Image(IF s \in {"H2-32", "H2-128"} THEN s ELSE cfg, version) ELSE generated[s]]
  /\ due' = (due \/ sets \cap TestbenchSets # {})
  /\ run' = [run EXCEPT !.step = IF script = "ppa" THEN "backend" ELSE "make"]
  /\ UNCHANGED <<version, work, logs, sigs, json, csv, parses>>

(* Fault: what is there is not generated again.                            *)
GenerateOnce ==
  /\ run.step = "generate"
  /\ LET script == run.req.script
         cfg == Item[2]
     IN  /\ cfg \in IF script = "ppa" THEN Synthesized ELSE AllConfigs
         /\ GeneratedFor(script, cfg,
              {s \in Writes(script, cfg) : generated[s] = None})

Generate ==
  /\ run.step = "generate"
  /\ LET script == run.req.script
         cfg == Item[2]
     IN  /\ cfg \in IF script = "ppa" THEN Synthesized ELSE AllConfigs
         /\ GeneratedFor(script, cfg, Writes(script, cfg))

(* make vsim-run: compile and optimise when the stamps are old.            *)
Make ==
  /\ run.step = "make"
  /\ due' = FALSE
  /\ work' = IF due THEN [work EXCEPT ![Suffix(Item[2])] = generated[Suffix(Item[2])]]
             ELSE work
  /\ run' = [run EXCEPT !.step = "simulate"]
  /\ UNCHANGED <<version, generated, logs, sigs, json, csv, parses>>

---------------------------------------------------------------------------
(* What the simulator prints: what the firmware prints comes first.        *)
Counted(image) == {"cycles", "issue1_retired", "issue2_retired"}
  \cup IF image[1] \in {"B0", "H0", "H1"} THEN {} ELSE {"l0_refills"}
HamsaLine(firmware, image, keys) ==
  [tag |-> "HAMSA_METRIC",
   toks |-> [k \in Counted(image) \cap keys |-> Value(firmware, image, k)]]
SparvLine(firmware, image) ==
  LET v(k) == Value(firmware, image, k)
  IN  [tag |-> "SPARV_METRIC",
       toks |-> [k \in COUNTERS |->
                   IF k = "retired" THEN Sum(v("issue1_retired"), v("issue2_retired"))
                   ELSE v(k)]]
Chatter == [tag |-> "firmware", toks |-> [k \in Keys |-> <<"chatter">>]]
Says(tag) == [tag |-> tag, toks |-> << >>]

(* The tests pass or fail, or the cycle limit cuts them off.  The metrics  *)
(* are on one line, or those of later on a second one.                     *)
Output(outcome, firmware, image, later) ==
  CASE outcome = "broken" -> <<>>
    [] outcome = "cut"    -> <<Chatter>>
    [] OTHER ->
         <<Chatter, Says(outcome), HamsaLine(firmware, image, Keys \ later),
           IF later = {} THEN Says("other") ELSE HamsaLine(firmware, image, later),
           IF image[1] \in SparvConfigs THEN SparvLine(firmware, image)
           ELSE Says("other")>>

(* What each runner makes of an exit code and an output.                   *)
KeepRow(vals, rows) ==
  Append(rows, Row(Called(run.req, Item[1]), Item[2],
                   IF run.req.script = "matrix" THEN run.sha ELSE Blank, vals))

full_matrix(rc, text) ==
  IF rc # 0 \/ ~Has(text, "HAMSA_METRIC") THEN Over(run, "failed")
  ELSE After([run EXCEPT !.rows = KeepRow(last_line(text), @)])

(* Fault: a benchmark that fails is left out.                              *)
benchmark_matrix_skips(rc, text) ==
  LET metrics == parse_metrics(text)
  IN  IF rc # 0 \/ "cycles" \notin DOMAIN metrics THEN After(run)
      ELSE After([run EXCEPT !.rows =
             KeepRow([k \in MATRIX_FIELDS |-> At(metrics, k, Blank)], @)])

benchmark_matrix(rc, text) ==
  LET metrics == parse_metrics(text)
  IN  IF rc # 0 \/ "cycles" \notin DOMAIN metrics THEN Over(run, "failed")
      ELSE After([run EXCEPT !.rows =
             KeepRow([k \in MATRIX_FIELDS |-> At(metrics, k, Blank)], @)])

(* Signatures are compared with B0's once a firmware is through.           *)
Differing(seen) ==
  {k \in DOMAIN seen : <<k[1], "B0">> \in DOMAIN seen /\ seen[k] # seen[<<k[1], "B0">>]}
(* Fault: without the success marker, the exit code decides.               *)
arch_regression_by_exit(rc, text, sig) ==
  After(IF rc # 0 THEN [run EXCEPT !.failures = @ \cup {Item}]
        ELSE IF ~run.req.signatures THEN run
        ELSE IF sig = None THEN [run EXCEPT !.failures = @ \cup {Item}]
        ELSE [run EXCEPT !.seen = With(@, Item, sig)])

arch_regression(rc, text, sig) ==
  After(IF rc # 0 \/ ~Has(text, "success") THEN [run EXCEPT !.failures = @ \cup {Item}]
        ELSE IF ~run.req.signatures THEN run
        ELSE IF sig = None THEN [run EXCEPT !.failures = @ \cup {Item}]
        ELSE [run EXCEPT !.seen = With(@, Item, sig)])

(* A simulation; the log is written whatever came of it.  "broken" is also *)
(* what a failing generator or compiler looks like to the runner.          *)
Simulated(outcome, rc, written, later) ==
  LET text == Output(outcome, Item[1], work[Suffix(Item[2])], later)
      kept == IF written # None THEN With(sigs, Item, written) ELSE sigs
  IN  /\ logs' = With(logs, Log, [inv |-> run.inv, rc |-> rc, text |-> text])
      /\ sigs' = kept
      /\ run' = CASE run.req.script = "full"   -> full_matrix(rc, text)
                  [] run.req.script = "matrix" -> benchmark_matrix(rc, text)
                  [] run.req.script = "regression" ->
                       arch_regression(rc, text, At(kept, Item, None))

(* Only the regression tells failing tests from passing ones.  The command *)
(* of run_benchmark_matrix.py may be any that keeps the log contract; the  *)
(* testbenches the others simulate print one line.                         *)
Outcomes == {"success", "cut"}
              \cup IF run.req.script = "regression" THEN {"failure"} ELSE {}

Simulate ==
  /\ run.step = "simulate"
  /\ \E outcome \in Outcomes :
       \E rc \in IF outcome = "cut" THEN {0, 1} ELSE {0} :
         \E written \in IF run.req.signatures /\ outcome # "cut"
                        THEN {None, <<"good">>, <<"bad">>} ELSE {None} :
           \E later \in IF run.req.script = "matrix" THEN Splits ELSE {{}} :
             Simulated(outcome, rc, written, later)
  /\ UNCHANGED <<version, generated, due, work, json, csv, parses>>

GenerateOrMakeFails ==
  /\ run.step \in {"generate", "make"}
  /\ IF run.req.script = "ppa"
     THEN run' = Over(run, "failed") /\ UNCHANGED <<logs, sigs>>
     ELSE Simulated("broken", 1, None, {})
  /\ due' = TRUE
  /\ UNCHANGED <<version, generated, work, json, csv, parses>>

(* The core alone is elaborated, with the parameters prepare gives; for H0 *)
(* there are none, and the core's default enables the second slot.         *)
Elaborated(cfg) == IF cfg = "H0" THEN "H1" ELSE cfg
Netlist(cfg) ==
  IF cfg = "B0" THEN Image("B0", version)
  ELSE Image(Elaborated(generated[Core(cfg)][1]), generated[Core(cfg)][2])

(* Fault: one output directory for all configurations.                     *)
BackendInOnePlace ==
  /\ run.step = "backend"
  /\ LET result == [k \in {"area"} |-> At(json', "out", Blank)]
     IN  /\ json' \in {json, With(json, "out", Value("ppa", Netlist(Item[2]), "area"))}
         /\ run' = After([run EXCEPT !.rows = KeepRow(result, @)])
  /\ UNCHANGED <<version, generated, due, work, logs, sigs, csv, parses>>

(* run_ppa_matrix.py: the flow may or may not leave a ppa.json, whether or *)
(* not it fails; one that an earlier flow left is as good.                 *)
Backend ==
  /\ run.step = "backend"
  /\ LET cfg == Item[2]
         result == [k \in {"area"} |-> At(json', cfg, Blank)]
     IN  /\ json' \in {json, With(json, cfg, Value("ppa", Netlist(cfg), "area"))}
         /\ \/ run' = Over(run, "failed")
            \/ run' = After([run EXCEPT !.rows = KeepRow(result, @)])
  /\ UNCHANGED <<version, generated, due, work, logs, sigs, csv, parses>>

(* Only now is the result file opened, which empties it.                   *)
End ==
  /\ run.step = "end"
  /\ IF run.req.script = "regression"
     THEN /\ run' = Over(run, IF run.failures \cup Differing(run.seen) = {}
                              THEN "ok" ELSE "failed")
          /\ UNCHANGED csv
     ELSE csv' = [csv EXCEPT ![run.req.script] = run.rows] /\ run' = Over(run, "ok")
  /\ UNCHANGED <<version, generated, due, work, logs, sigs, json, parses>>

(* Fault: what there is of the results is written in any case.             *)
CrashSaving ==
  /\ run.step # "idle" /\ run' = Over(run, "crashed")
  /\ IF run.step # "idle" /\ run.req.script # "regression"
     THEN csv' = [csv EXCEPT ![run.req.script] = run.rows]
     ELSE UNCHANGED csv
  /\ UNCHANGED <<version, generated, due, work, logs, sigs, json, parses>>

Crash ==
  /\ run.step # "idle" /\ run' = Over(run, "crashed")
  /\ IF run.step = "end" /\ run.req.script # "regression"
     THEN \E n \in 0..Len(run.rows) :
            csv' = [csv EXCEPT ![run.req.script] = SubSeq(run.rows, 1, n)]
     ELSE UNCHANGED csv
  /\ UNCHANGED <<version, generated, due, work, logs, sigs, json, parses>>

---------------------------------------------------------------------------
(* In between: the parsers over a log, compute_metrics.py over a file.     *)
CanParse == run.step = "idle" /\ parses < MaxParses /\ parses' = parses + 1
Rest == <<version, generated, due, work, logs, sigs, json, run>>

(* Without --append the file is opened, hence emptied, before a counter    *)
(* that has no column stops the program.  Both H2 frontends are "H2".      *)
Label(cfg) == IF cfg \in {"H2-32", "H2-128"} THEN "H2" ELSE cfg
ParseHamsa ==
  /\ CanParse
  /\ \E key \in DOMAIN logs : \E append \in BOOLEAN :
       LET found == parse_hamsa_log(logs[key].text)
           old   == IF append THEN csv["parsed"] ELSE <<>>
       IN  /\ Label(key[3]) \in {"B0", "H0", "H1", "H2"}
           /\ "cycles" \in DOMAIN found
           /\ csv' = [csv EXCEPT !["parsed"] =
                IF DOMAIN found \subseteq PARSE_FIELDS
                THEN Append(old, Row(key[2], Label(key[3]), Blank, found)) ELSE old]
  /\ UNCHANGED Rest

ParseSparv ==
  /\ CanParse
  /\ \E key \in DOMAIN logs :
       csv' = [csv EXCEPT !["sparv"] =
                Append(@, Row(key[2], key[3], Blank, parse_sparv_log(logs[key].text)))]
  /\ UNCHANGED Rest

Derived(rows, row) ==
  [benchmark |-> row.benchmark, configuration |-> row.configuration,
   sha |-> row.sha, vals |-> row.vals, speedup |-> speedup_vs_baseline(rows, row)]
compute_metrics ==
  /\ CanParse
  /\ \E f \in {"full", "matrix", "parsed"} :
       csv' = [csv EXCEPT !["derived"] =
                [i \in DOMAIN csv[f] |-> Derived(csv[f], csv[f][i])]]
  /\ UNCHANGED Rest

(* At another step it is the same as at the next of these.                 *)
EditSources ==
  /\ run.step \in {"idle", "generate", "backend"}
  /\ version < MaxEdits /\ version' = version + 1
  /\ UNCHANGED <<generated, due, work, logs, sigs, json, csv, run, parses>>

Next ==
  \/ Begin \/ Generate \/ Make \/ Simulate \/ GenerateOrMakeFails \/ Backend
  \/ End \/ Crash \/ ParseHamsa \/ ParseSparv \/ compute_metrics \/ EditSources
Spec == Init /\ [][Next]_vars

---------------------------------------------------------------------------
(* The programs a row of a command line is about, and those a name stands  *)
(* for in any: whoever leaves --name at its default calls all "firmware".  *)
Programs(req, benchmark) ==
  IF req.script = "full" THEN Range(req.firmware) ELSE {benchmark}
GoesBy(benchmark) ==
  {benchmark} \cup UNION {Range(r.firmware) :
                            r \in {q \in Requests : q.script = "full" /\ q.name = benchmark}}

(* The rows of a file are of one command line, and "the same firmware      *)
(* image" (run_full_matrix.py:10): every counter of a row was taken from   *)
(* an image of the row's own configuration, in a run of the program the    *)
(* command line names, all from one image, and one no older than the       *)
(* commit the row is recorded for (run_benchmark_matrix.py:90,             *)
(* run_example_vsim.py:47-79).                                             *)
RowsAsRequested ==
  \A f \in {"full", "matrix"} : csv[f] # <<>> =>
    \E req \in {r \in Requests : r.script = f} : \A i \in DOMAIN csv[f] :
      LET row == csv[f][i]
      IN  /\ f = "full" => row.benchmark = req.name
          /\ \E v \in 0..MaxEdits, program \in Programs(req, row.benchmark) :
               /\ f = "matrix" => row.sha <= v
               /\ \A k \in FULL_FIELDS : row.vals[k] \in
                    {Value(program, Image(Resolved(row.configuration), v), k), Zero, Blank}
               /\ row.vals["cycles"] \notin {Zero, Blank}

(* A result file has the first rows of one command line, in its order and  *)
(* none left out in between: a failed simulation is no gap, and leaves no  *)
(* file (run_full_matrix.py:63-67).  Only a runner killed while it writes  *)
(* leaves fewer than all.                                                  *)
OneCommandLine ==
  \A f \in {"full", "matrix", "ppa"} : csv[f] # <<>> =>
    \E req \in {r \in Requests : r.script = f} :
      /\ Len(csv[f]) <= Len(Plan(req))
      /\ \A i \in DOMAIN csv[f] :
           /\ csv[f][i].benchmark = Called(req, Plan(req)[i][1])
           /\ csv[f][i].configuration = Plan(req)[i][2]

(* Until every configuration has succeeded, the results of the last        *)
(* invocation stay: whoever fails or is killed before the file is opened   *)
(* leaves them alone (run_full_matrix.py:84, run_ppa_matrix.py:81).        *)
ResultsKept ==
  [][\A f \in {"full", "matrix", "ppa"} :
       csv'[f] # csv[f] => run.step = "end" /\ run.at = Len(Plan(run.req))]_vars

(* "PASS: all selected configurations match" (run_arch_regression.py:79):  *)
(* every simulation was made by this invocation, exited well and said so,  *)
(* and the signature files agree with B0's.  A simulation that writes none *)
(* is compared by the file an earlier run of its own left.                 *)
PassIsEarned ==
  run.result = "ok" /\ run.req # None /\ run.req.script = "regression" =>
    /\ Range(run.req.firmware) \subseteq Firmware
    /\ \A i \in DOMAIN Plan(run.req) :
         LET item == Plan(run.req)[i]
             log  == logs[<<"regression", item[1], item[2]>>]
         IN  /\ log.inv = run.inv /\ log.rc = 0 /\ Has(log.text, "success")
             /\ run.req.signatures /\ "B0" \in Range(run.req.configs) =>
                  sigs[item] = sigs[<<item[1], "B0">>]

(* The programs that read a log agree on what it says, whatever the        *)
(* firmware printed before and however the metrics are spread over lines   *)
(* ("one or more lines", HAMSA_DI_EVALUATION.md:137), but for              *)
(* run_full_matrix.py, which takes the last line only: it agrees with them *)
(* when there is no other (parse_sparv_log.py:34, parse_hamsa_log.py:35,   *)
(* run_benchmark_matrix.py:46, run_full_matrix.py:70).                     *)
ParsersAgree ==
  \A key \in DOMAIN logs :
    LET text   == logs[key].text
        found  == parse_hamsa_log(text)
        metric == parse_metrics(text)
        count  == parse_sparv_log(text)
    IN  Has(text, "HAMSA_METRIC") =>
          /\ metric["cycles"] = found["cycles"] /\ count["cycles"] = found["cycles"]
          /\ Has(text, "SPARV_METRIC") =>
               /\ count["retired"] = Sum(found["issue1_retired"], found["issue2_retired"])
               /\ metric["retired"] = count["retired"]
          /\ (\A i, j \in Tagged(text, {"HAMSA_METRIC"}) : i = j) =>
               \A k \in PARSE_FIELDS : last_line(text)[k] = found[k]

(* A derived speedup compares a row's cycles with B0's on the same         *)
(* benchmark, of a program that goes by its name (compute_metrics.py:41).  *)
SpeedupOverBaseline ==
  \A i \in DOMAIN csv["derived"] :
    LET row == csv["derived"][i]
    IN  row.speedup # Blank =>
          /\ row.speedup[2] = row.vals["cycles"]
          /\ \E v \in 0..MaxEdits, program \in GoesBy(row.benchmark) :
               row.speedup[1] = Value(program, Image("B0", v), "cycles")

(* For the row that is plotted, the plot shows the derived speedup         *)
(* (plot_results.py:34-49, compute_metrics.py:64).                         *)
PlotsAgree ==
  \A f \in {"full", "matrix", "parsed"} : \A i \in DOMAIN csv[f] :
    LET row == csv[f][i]
    IN  row.configuration \in PLOTTED /\
        row.vals["cycles"] = bybench(csv[f], row.benchmark, row.configuration) =>
          plotted_speedup(csv[f], row.benchmark, row.configuration)
            = speedup_vs_baseline(csv[f], row)

(* Area and power in a row were reported for the design its own            *)
(* configuration elaborates to, which for H0 is H1's, by this run's flow   *)
(* or an earlier one's (run_ppa_matrix.py:57-76).                          *)
PpaOfOwnDesign ==
  \A i \in DOMAIN csv["ppa"] :
    LET row == csv["ppa"][i]
    IN  row.vals["area"] # Blank =>
          row.vals["area"][3][1] = Elaborated(row.configuration)

===========================================================================
