---------------------------- MODULE MetricLogs ----------------------------
(* What the programs under evaluation/ read out of a simulator's output,   *)
(* and what is derived from it.  A text is a sequence of lines, a line its *)
(* tag and its key=value tokens, [tag, toks].  A value is what it stands   *)
(* for: the counter of the image that ran, for the firmware that ran.      *)
EXTENDS Naturals, FiniteSets, Sequences, SequencesExt

Value(firmware, image, key) == <<"value", firmware, image, key>>
Sum(a, b) == <<"sum", a, b>>
Zero  == <<"zero">>
Blank == <<"blank">>

(* The counters: those both testbenches print (one stands for several),    *)
(* one of the H2 frontend and one of the SPARV stages.                     *)
Keys == {"cycles", "issue1_retired", "issue2_retired", "retired",
         "l0_refills", "prefetch_fills"}
FULL_FIELDS   == {"cycles", "issue1_retired", "issue2_retired", "l0_refills"}
MATRIX_FIELDS == Keys
PARSE_FIELDS  == {"cycles", "issue1_retired", "issue2_retired"}
COUNTERS      == {"cycles", "retired", "prefetch_fills"}

Tagged(text, tags) == {i \in DOMAIN text : text[i].tag \in tags}
Has(text, tag) == \E i \in DOMAIN text : text[i].tag = tag

(* Dictionaries: a key's value or else a default; one more value.          *)
At(f, key, default) == IF key \in DOMAIN f THEN f[key] ELSE default
With(f, key, value) ==
  [k \in DOMAIN f \cup {key} |-> IF k = key THEN value ELSE f[k]]

(* All tokens of some lines; a key's last value counts.                    *)
Merged(text, lines) ==
  [key \in UNION {DOMAIN text[i].toks : i \in lines} |->
     text[Max({i \in lines : key \in DOMAIN text[i].toks})].toks[key]]

(* run_full_matrix.py: the last line alone, "0" for what is not in it.     *)
last_line(text) ==
  LET line == text[Max(Tagged(text, {"HAMSA_METRIC"}))]
  IN  [k \in FULL_FIELDS |-> At(line.toks, k, Zero)]

(* run_benchmark_matrix.py: every metric line.                             *)
parse_metrics(text) ==
  LET metrics == Merged(text, Tagged(text, {"HAMSA_METRIC", "SPARV_METRIC"}))
      issue(k) == At(metrics, k, Zero)
  IN  IF "retired" \notin DOMAIN metrics /\
         {"issue1_retired", "issue2_retired"} \cap DOMAIN metrics # {}
      THEN With(metrics, "retired",
                Sum(issue("issue1_retired"), issue("issue2_retired")))
      ELSE metrics

(* parse_hamsa_log.py and parse_sparv_log.py.  The latter looks at any     *)
(* line, what the firmware prints included.                                *)
parse_hamsa_log(text) == Merged(text, Tagged(text, {"HAMSA_METRIC"}))

(* Fault: a key's first value counts.                                      *)
parse_sparv_log_first(text) ==
  LET found == Merged(Reverse(text), DOMAIN text)
  IN  [k \in COUNTERS |-> At(found, k, Zero)]

parse_sparv_log(text) ==
  LET found == Merged(text, DOMAIN text)
  IN  [k \in COUNTERS |-> At(found, k, Zero)]

---------------------------------------------------------------------------
(* Rows: [benchmark, configuration, sha, vals].                            *)
Row(benchmark, configuration, sha, vals) ==
  [benchmark |-> benchmark, configuration |-> configuration, sha |-> sha,
   vals |-> vals]

LastOf(rows, at) == IF at = {} THEN Blank ELSE rows[Max(at)].vals["cycles"]

(* Speedups stay fractions: <<baseline cycles, cycles>>.                   *)
(* Fault: one baseline for all benchmarks.                                 *)
baseline_cycles_any(rows, benchmark) ==
  LastOf(rows, {i \in DOMAIN rows : /\ rows[i].configuration = "B0"
                                    /\ rows[i].vals["cycles"] # Blank})

baseline_cycles(rows, benchmark) ==
  LastOf(rows, {i \in DOMAIN rows : /\ rows[i].configuration = "B0"
                                    /\ rows[i].benchmark = benchmark
                                    /\ rows[i].vals["cycles"] # Blank})

speedup_vs_baseline(rows, row) ==
  LET base == baseline_cycles(rows, row.benchmark)
  IN  IF base = Blank THEN Blank ELSE <<base, row.vals["cycles"]>>

(* plot_results.py: the last row of a benchmark and a configuration.       *)
PLOTTED == {"H0", "H1", "H2-32", "H2-128"}
(* Fault: the first row stays.                                             *)
bybench_first(rows, benchmark, configuration) ==
  LET at == {i \in DOMAIN rows : /\ rows[i].benchmark = benchmark
                                 /\ rows[i].configuration = configuration}
  IN  IF at = {} THEN Blank ELSE rows[Min(at)].vals["cycles"]

bybench(rows, benchmark, configuration) ==
  LastOf(rows, {i \in DOMAIN rows : /\ rows[i].benchmark = benchmark
                                    /\ rows[i].configuration = configuration})
plotted_speedup(rows, benchmark, configuration) ==
  LET base == bybench(rows, benchmark, "B0")
      cur  == bybench(rows, benchmark, configuration)
  IN  IF Blank \in {base, cur} THEN Blank ELSE <<base, cur>>

===========================================================================
