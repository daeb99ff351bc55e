----------------------------- MODULE Variants -----------------------------
(* The evaluated configurations: which generator makes each, and what is   *)
(* then simulated (evaluation/run_example_vsim.py) or synthesized          *)
(* (evaluation/run_ppa_matrix.py).  Also, what a generated design has to   *)
(* be: every module found once, no net or port worse off, the requested    *)
(* parameters, counters that name what the core has.                       *)
EXTENDS Generators

Native(c) == IF c \in {"H2-128", "SPARV-128"} THEN "1" ELSE "0"
Suffix(c) ==
  CASE c \in {"H0", "H1"} -> "hamsa"
    [] c = "H2-32" -> "h2_32"       [] c = "H2-128" -> "h2_128"
    [] c = "SPARV-32" -> "sparv_32" [] c = "SPARV-128" -> "sparv_128"

Simulation(c) ==
  IF c = "B0"
  THEN [jobs |-> gen_baseline_eval_tb, manifest |-> "manifest", top |-> "tb_top_eval"]
  ELSE [jobs |-> CASE c \in {"H0", "H1"} ->
                        gen_hamsa_sim(IF c = "H1" THEN "1" ELSE "0")
                   [] c \in {"H2-32", "H2-128"} -> gen_hamsa_sim_h2(Native(c))
                   [] c \in {"SPARV-32", "SPARV-128"} -> gen_sparv_sim(Native(c)),
        manifest |-> Of("manifest", Suffix(c)), top |-> Of("tb_top", Suffix(c))]

(* prepare: the core itself is the top, its parameters are an argument of  *)
(* the synthesis command.                                                  *)
prepare(c) ==
  LET Synthesis(jobs, manifest, top, params) ==
        [jobs |-> jobs, manifest |-> manifest, top |-> top, params |-> params]
      native == {Set("HAMSA_NATIVE_128_REFILL", Native(c)), Set("HAMSA_ENABLE_ISSUE2", "1")}
  IN  CASE c = "B0" -> Synthesis(<<>>, "manifest", "core", {})
        [] c \in {"H0", "H1"} ->
             Synthesis(gen_hamsa_sim(IF c = "H0" THEN "0" ELSE "1"),
                       "manifest_hamsa", "core_hamsa", {})
        [] c \in {"H2-32", "H2-128"} ->
             Synthesis(gen_hamsa_sim_h2(Native(c)), Of("manifest", Suffix(c)),
                       "core_hamsa_h2", native)
        [] c = "H2-5R3W" ->
             Synthesis(gen_hamsa_core_h2_5r3w, "manifest_h2_5r3w",
                       "core_hamsa_h2_5r3w", {})
        [] c \in {"SPARV-32", "SPARV-128"} ->
             Synthesis(gen_sparv_core, "manifest_sparv", "core_sparv",
                       native \cup {Set("HAMSA_L0_LINES", "8")})

---------------------------------------------------------------------------
(* Reading a text as the HDL compiler does.                                *)
Marks(text) == {Plain(text[i]) : i \in DOMAIN text}
Named(text, kind) == {m[2] : m \in {x \in Marks(text) : x[1] = kind}}

(* Sources: a disk of edited files, the unedited modules besides it.       *)
Provides(disk, file) ==
  IF file \in DOMAIN disk THEN Named(disk[file], "module") ELSE {file}
Children(disk, file) ==
  IF file \in DOMAIN disk THEN Named(disk[file], "inst")
  ELSE IF file \in DOMAIN Instantiates THEN Instantiates[file] ELSE {}

(* Where a manifest lists a file with the module; the simulation compiles  *)
(* the testbench files besides those.                                      *)
Listed(disk, manifest, module) ==
  {i \in DOMAIN disk[manifest] :
     LET mark == Plain(disk[manifest][i])
     IN  mark[1] = "file" /\ module \in Provides(disk, mark[2])}

Depth == 8  \* no hierarchy here is deeper
Levels(disk, top) ==
  LET level[n \in 0 .. Depth] ==
        IF n = 0 THEN {top}
        ELSE LET above == level[n - 1]
             IN  above \cup UNION {Children(disk, m) : m \in above}
  IN  level
Reached(disk, top) == Levels(disk, top)[Depth]

Found(disk, manifest, others, module) ==
  Cardinality(Listed(disk, manifest, module))
    + Cardinality({f \in others : module \in Provides(disk, f)})

Drivers(text, net) ==
  Cardinality({i \in DOMAIN text :
                 Plain(text[i]) \in {Drives(net), Answers(net), Port(net)}})

Nets(text) == UNION {Named(text, k) : k \in {"drives", "reads", "answers"}}
OtherNets == {"pc", "meta", "id_ready"}  \* declared all over the core

(* What is wrong with a text: a net without a driver, with two or          *)
(* undeclared; an open port; a connection to a port that is not there.     *)
UnsoundNets(text) ==
  {net \in Nets(text) :
     \/ Drivers(text, net) # 1
     \/ net \notin Named(text, "decl") \cup Named(text, "port") \cup OtherNets}

OpenPorts(disk, text) ==
  UNION {Named(disk[m], "port") : m \in Named(text, "inst") \cap DOMAIN disk}
    \ (Named(text, "reads") \cup Named(text, "tie"))

(* The instance a line belongs to; what crosses the modules' boundaries.   *)
Within(text, j, m) ==
  \E k \in DOMAIN text :
    /\ k < j /\ Plain(text[k]) = Inst(m)
    /\ \A l \in DOMAIN text : k < l /\ l < j => Plain(text[l])[1] # "inst"
Buses == {"instr", "line", "rf_de", "apu"}

Dangling(disk, text) ==
  {bus \in Buses :
     \E m \in Named(text, "inst") \cap DOMAIN disk : \E j \in DOMAIN text :
       /\ Plain(text[j]) \in {Reads(bus), Tie(bus)} /\ Within(text, j, m)
       /\ bus \notin Named(disk[m], "port")}

Flaws(disk, f) ==
  UnsoundNets(disk[f]) \cup OpenPorts(disk, disk[f]) \cup Dangling(disk, disk[f])

(* Those of the preserved sources: the testbench's "apu" and "apu_o".      *)
Inherited == UNION {Flaws(Preserved, f) : f \in DOMAIN Preserved}

(* A parameter of the core: what its instance sets, or else its default.   *)
Parameter(core, set, name) ==
  LET given == {m \in set : m[1] = "set" /\ m[2] = name}
      own   == {m \in Marks(core) : m[1] = "param" /\ m[2] = name}
  IN  IF own = {} THEN "none"
      ELSE (CHOOSE m \in IF given = {} THEN own ELSE given : TRUE)[3]

Requested(c, name) ==
  CASE name = "HAMSA_ENABLE_ISSUE2" ->
         IF c = "B0" THEN "none" ELSE IF c = "H0" THEN "0" ELSE "1"
    [] name = "HAMSA_NATIVE_128_REFILL" ->
         IF c \in {"B0", "H0", "H1"} THEN "none" ELSE Native(c)
    [] name = "HAMSA_L0_LINES" ->
         IF c \in {"B0", "H0", "H1"} THEN "none" ELSE "8"
HamsaParameters ==
  {"HAMSA_ENABLE_ISSUE2", "HAMSA_NATIVE_128_REFILL", "HAMSA_L0_LINES"}

(* What the counters of the testbench can refer to.                        *)
Offers(module) == IF module = "sparv_if_stage" THEN {"prefetch"}
                  ELSE IF module = "sparv_mult" THEN {"accel"} ELSE {}
Visible(disk, core) ==
  Named(disk[core], "decl") \cup UNION {Offers(m) : m \in Reached(disk, core)}

Expected(c) == IF c \in {"SPARV-32", "SPARV-128"}
               THEN <<Prints("hamsa"), Prints("sparv")>> ELSE <<Prints("hamsa")>>
(* The ends of a firmware's run; without a firmware, or at the limit of    *)
(* cycles, nothing is printed.                                             *)
FinishPaths == {Finish("passed"), Finish("failed"), Finish("exit")}

=============================================================================
