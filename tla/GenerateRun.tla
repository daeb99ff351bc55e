---------------------------- MODULE GenerateRun ----------------------------
(* The generators at work: one after the other for whatever configuration  *)
(* is asked for, over one set of files.  Each job reads a file, edits it   *)
(* and writes another; it may raise, and the process may be cut off while  *)
(* a file is open for writing.  In between, the layout of the preserved    *)
(* sources changes.                                                        *)
EXTENDS Variants

CONSTANTS
  Tasks,        \* the requests: <<"sim" or "ppa", configuration>>
  Absent,       \* a file that is not there
  MaxRuns,      \* bound: how many generator runs
  MaxLayouts    \* bound: how many layout changes

(* What the evaluation simulates (run_example_vsim.py), and synthesizes.   *)
Evaluated == {"B0", "H0", "H1", "H2-32", "H2-128", "SPARV-32", "SPARV-128"}
Synthesized == Evaluated \cup {"H2-5R3W"}

ASSUME TasksAssumption ==
  Tasks \subseteq ({"sim"} \X Evaluated) \cup ({"ppa"} \X Synthesized)

VARIABLES disk, task, at, result, moved, runs, layouts
vars == <<disk, task, at, result, moved, runs, layouts>>

NoTask == <<"none", "none">>
Request(t) == IF t[1] = "sim" THEN Simulation(t[2]) ELSE prepare(t[2])
Requests == [t \in Tasks |-> Request(t)]
Jobs == IF task = NoTask THEN <<>> ELSE Requests[task].jobs
Written(jobs) == {jobs[i].dst : i \in DOMAIN jobs}
Generated == UNION {Written(Requests[t].jobs) : t \in Tasks}

(* The disk with these sources on it, and nothing generated yet.           *)
From(sources) ==
  [f \in Generated \cup DOMAIN Preserved |->
     IF f \in DOMAIN Preserved THEN sources[f] ELSE Absent]

(* The preserved sources with mark i of file f laid out differently.       *)
Laid(f, i) == [Preserved EXCEPT ![f][i] = Moved(@)]

Read(files, src) == IF files[src] = Absent THEN Failed ELSE files[src]

Init ==
  /\ disk = From(Preserved)
  /\ task = NoTask /\ at = 0 /\ result = "none"
  /\ moved = <<>> /\ runs = 0 /\ layouts = 0

Start ==
  /\ at = 0 /\ runs < MaxRuns
  /\ task' \in Tasks
  /\ runs' = runs + 1
  /\ IF Requests[task'].jobs = <<>> THEN at' = 0 /\ result' = "ok"
     ELSE at' = 1 /\ result' = "none"
  /\ UNCHANGED <<disk, moved, layouts>>

Output == Apply(Jobs[at].edits, Read(disk, Jobs[at].src))

DoJob ==
  /\ at # 0 /\ Output # Failed
  /\ disk' = [disk EXCEPT ![Jobs[at].dst] = Output]
  /\ IF at = Len(Jobs) THEN at' = 0 /\ result' = "ok"
     ELSE at' = at + 1 /\ UNCHANGED result
  /\ UNCHANGED <<task, moved, runs, layouts>>

Fail ==
  /\ at # 0 /\ Output = Failed
  /\ at' = 0 /\ result' = "failed"
  /\ UNCHANGED <<disk, task, moved, runs, layouts>>

(* Killed, at most with the output opened, which empties it.               *)
Crash ==
  /\ at # 0
  /\ \/ UNCHANGED disk
     \/ Output # Failed /\ disk' = [disk EXCEPT ![Jobs[at].dst] = <<>>]
  /\ at' = 0 /\ result' = "failed"
  /\ UNCHANGED <<task, moved, runs, layouts>>

(* One mark of one preserved source is laid out differently.               *)
Relayout ==
  /\ at = 0 /\ layouts < MaxLayouts
  /\ \E f \in DOMAIN Preserved : \E i \in DOMAIN Preserved[f] :
       /\ moved' = <<f, i>>
       /\ disk' = [x \in DOMAIN disk |->
                     IF x \in DOMAIN Preserved THEN Laid(f, i)[x] ELSE disk[x]]
  /\ layouts' = layouts + 1
  /\ result' = "none" /\ task' = NoTask
  /\ UNCHANGED <<at, runs>>

Next == Start \/ DoJob \/ Fail \/ Crash \/ Relayout
Spec == Init /\ [][Next]_vars

---------------------------------------------------------------------------
(* The files after the first n jobs of a run that none of them stops.      *)
Stages(jobs, files) ==
  LET done[n \in 0 .. Len(jobs)] ==
        IF n = 0 THEN files
        ELSE LET d == done[n - 1]
                 j == jobs[n]
             IN  [d EXCEPT ![j.dst] = Apply(j.edits, Read(d, j.src))]
  IN  done
Image(jobs, files) == Stages(jobs, files)[Len(jobs)]
Sources == [f \in DOMAIN Preserved |-> disk[f]]

(* What a run for t leaves where nothing but these sources was.            *)
FirstRun(t, sources) == Image(Requests[t].jobs, From(sources))

(* A run that ends well leaves what the generators make of the sources as  *)
(* they are now: nothing of an earlier run, of another configuration or of *)
(* a run that was cut off goes into it (gen_sparv_core.py:48).             *)
FreshOutputs ==
  result = "ok" =>
    \A f \in Written(Jobs) : disk[f] = Image(Jobs, From(Sources))[f]

(* The substitutions that check nothing: gen_hamsa_sim_h2.py:116-121, 177, *)
(* 189, 209-210, and the same lines of the other generators.               *)
Unchecked(mark) == mark[1] \in {"generate", "finish", "label", "dumpvars"}
LayoutChecked == moved = <<>> \/ ~Unchecked(Preserved[moved[1]][moved[2]])

(* "A source layout change fails loudly instead of silently producing bad  *)
(* RTL" (gen_hamsa_core.py:5): apart from the unchecked substitutions, a   *)
(* run that ends well made the design it makes of the original layout.     *)
LoudOrWhole ==
  result = "ok" /\ LayoutChecked =>
    \A f \in Written(Jobs) :
      PlainText(disk[f]) = PlainText(Image(Jobs, From(Preserved))[f])

Testbench ==
  {"tb_top", "tb_subsystem", "tb_top_eval"}
    \cup {Of(file, s) : file \in {"tb_top", "tb_subsystem"}, s \in DOMAIN Copies}

(* What is compiled or synthesized for t, of the files there are.          *)
Compiled(files, t) ==
  IF t[1] = "sim" THEN {f \in Testbench \cap DOMAIN files : files[f] # Absent} ELSE {}
Design(files, t) == Reached(files, Requests[t].top) \ {"mm_ram"}

(* Each module below the top is in one, and one only, of the files that    *)
(* the manifest lists or that lie beside the testbench, those of earlier   *)
(* runs included (gen_sparv_sim.py:173).                                   *)
FoundOnce(files, t) ==
  \A m \in Design(files, t) :
    Found(files, Requests[t].manifest, Compiled(files, t), m) = 1
Elaborates == result = "ok" => FoundOnce(disk, task)

(* Whatever the layout, the edits of a run leave no net undriven, driven   *)
(* twice or undeclared, no port open and no connection dangling that is    *)
(* not so in the preserved sources (Inherited): there is one fetch stage   *)
(* (gen_hamsa_core_h2.py:107), and what it fetches reaches decode once.    *)
WellDriven(files, t) ==
  \A m \in Design(files, t) \cap DOMAIN files : Flaws(files, m) \subseteq Inherited
DrivenOnce == result = "ok" /\ LayoutChecked => WellDriven(disk, task)

Cores == {"core", "core_hamsa", "core_hamsa_h2", "core_hamsa_h2_5r3w", "core_sparv"}
Core(files, t) == CHOOSE m \in Design(files, t) : m \in Cores
Settings(files, t) ==
  IF t[1] = "ppa" THEN Requests[t].params
  ELSE UNION {Marks(files[m]) : m \in {w \in Design(files, t) \cap DOMAIN files :
                                       Core(files, t) \in Named(files[w], "inst")}}
(* No parameter is given to the synthesis of H0, whose core is the top: the *)
(* core's default enables the second slot, and H1 is what is synthesized.  *)
Meant(t) == IF t = <<"ppa", "H0">> THEN "H1" ELSE t[2]
Configuration(files, t) ==
  \A p \in HamsaParameters :
    /\ Parameter(files[Core(files, t)], Settings(files, t), p) = Requested(Meant(t), p)
    /\ Requested(Meant(t), p) # "none" =>
         \E m \in Marks(files[Core(files, t)]) : m[1] = "set" /\ m[3] = p

(* The core that is simulated or synthesized has the parameters of the     *)
(* configuration that was asked for, whichever ran before, and for the     *)
(* synthesis of H0 those of H1                                             *)
(* (run_example_vsim.py:47, run_ppa_matrix.py:20).                         *)
Configured == result = "ok" => Configuration(disk, task)

(* Every end that a firmware's run comes to in the check of the testbench  *)
(* prints the metrics the evaluation reads before it finishes              *)
(* (gen_baseline_eval_tb.py:5), of events that the core has, where the     *)
(* edits that print them, which check nothing, found the ends.             *)
Printing(files, t) ==
  LET top  == files[Requests[t].top]
      said == Expected(t[2])
  IN  /\ \A path \in FinishPaths : \E i \in DOMAIN top :
            top[i] = path /\ i > Len(said) /\ SubSeq(top, i - Len(said), i - 1) = said
      /\ Named(top, "counts") \subseteq Visible(files, Core(files, t))
MetricsPrinted ==
  result = "ok" /\ LayoutChecked /\ task[1] = "sim" => Printing(disk, task)

---------------------------------------------------------------------------
(* What the proofs need to know of the texts and the edits.  In the layout *)
(* as committed, and where only a mark that no substitution insists on is  *)
(* laid out differently, every generator runs through.                     *)
BaseLayouts ==
  {Preserved} \cup
    UNION {{Laid(f, i) : i \in {k \in DOMAIN Preserved[f] : Unchecked(Preserved[f][k])}} :
             f \in DOMAIN Preserved}
Silent == {"generate", "finish", "label", "dumpvars", "print"}

(* What stands for no text is none.                                        *)
ASSUME NoTextAssumption ==
  \A none \in {Absent, Failed} :
    none \notin Seq(Seq({"moved"} \cup (STRING \cup Seq(STRING))))

ASSUME SourcesAssumption ==
  \A f \in DOMAIN Preserved :
    /\ IsText(Preserved[f])
    /\ \A i \in DOMAIN Preserved[f] : Preserved[f][i][1] \notin {"moved", "print"}

(* A job that has something to read finds each of its anchors once.        *)
ASSUME AnchorsAssumption ==
  \A t \in Tasks : \A sources \in BaseLayouts :
    LET jobs == Requests[t].jobs
        files == Stages(jobs, From(sources))
    IN  \A n \in 1 .. Len(jobs) :
          LET edits == jobs[n].edits
              text == Read(files[n - 1], jobs[n].src)
          IN  /\ Len(edits) \in Nat
              /\ text # Failed =>
                   \A k \in 1 .. Len(edits) :
                     Anchored(Drafts(edits, text)[k - 1], edits[k], Silent)

(* What a generator writes defines no module but that of the file's name.  *)
ASSUME NamesAssumption ==
  \A t \in Tasks : \A sources \in BaseLayouts :
    LET jobs == Requests[t].jobs
        files == Stages(jobs, From(sources))
    IN  \A n \in 1 .. Len(jobs) :
          files[n][jobs[n].dst] # Failed =>
            Named(files[n][jobs[n].dst], "module") \subseteq {jobs[n].dst}

(* The files that a design is made of are sources or written by the run.   *)
SelfContained(files, t) ==
  LET own  == DOMAIN Preserved \cup Written(Requests[t].jobs)
      used == Reached(files, Requests[t].top) \cup Reached(files, Core(files, t))
  IN  /\ {Requests[t].top, Requests[t].manifest, Core(files, t)} \subseteq own
      /\ Named(files[Requests[t].manifest], "file") \cap DOMAIN files \subseteq own
      /\ used \cap DOMAIN files \subseteq own
      /\ \A m \in used \cap DOMAIN files :
           Named(files[m], "inst") \cap DOMAIN files \subseteq own
ASSUME ClosedAssumption ==
  \A t \in Tasks : \A sources \in BaseLayouts :
    (\A f \in Written(Requests[t].jobs) : FirstRun(t, sources)[f] # Failed)
      => SelfContained(FirstRun(t, sources), t)

=============================================================================
