---------------------------- MODULE Generators ----------------------------
(* What the generators under util/ make of the preserved sources: each     *)
(* generator's edits, and the jobs (read, edit, write) of its run, those   *)
(* of the generators it calls first.  A module has the name of its file,   *)
(* without "cv32e40p_".  Lines that only bring more of the same kind       *)
(* (status outputs, counters of one event group) are one mark.             *)
EXTENDS TextEdits

(* The marks.                                                              *)
Module(n)     == <<"module", n>>
Inst(n)       == <<"inst", n>>
Param(n, v)   == <<"param", n, v>>
Set(n, v)     == <<"set", n, v>>
Port(n)       == <<"port", n>>
Tie(n)        == <<"tie", n>>
Decl(n)       == <<"decl", n>>
Drives(n)     == <<"drives", n>>
Reads(n)      == <<"reads", n>>
Answers(n)    == <<"answers", n>>
File(n)       == <<"file", n>>
Label(n)      == <<"label", n>>
Finish(path)  == <<"finish", path>>
Prints(who)   == <<"print", who>>
Counts(event) == <<"counts", event>>
Dumpvars(n)   == <<"dumpvars", n>>
Check         == <<"check", "">>
Generate      == <<"generate", "">>

All(Mark(_), names) == [i \in DOMAIN names |-> Mark(names[i])]

(* The preserved sources.  "fetched" is the instruction and its valid      *)
(* bit, "meta" its flags, "fw" the forwarded ALU result.                   *)
CoreText ==
  <<Module("core"), Param("NUM_MHPMCOUNTERS", "1"), Port("instr"),
    Decl("fetched"), Decl("fw"), Decl("others"),
    Inst("if_stage"), Reads("instr"), Drives("fetched"), Drives("pc"),
    Drives("meta"), Reads("id_ready"),
    Inst("id_stage"), Reads("fetched"), Reads("pc"), Reads("meta"),
    Drives("id_ready"), Reads("fw"),
    Inst("ex_stage"), Drives("fw"), Inst("load_store_unit")>>
IdText == <<Module("id_stage"), Decl("fw_i"), Inst("register_file")>>
ExText == <<Module("ex_stage"), Inst("alu"), Inst("mult")>>
WrapperText ==
  <<Module("wrapper"), Port("instr"), Inst("core"),
    Set("NUM_MHPMCOUNTERS", "NUM_MHPMCOUNTERS"), Reads("instr")>>
(* "apu" is what the subsystem still connects of the coprocessor's ports,  *)
(* which the wrapper keeps to itself, and "apu_o" what it drives instead.  *)
SubsystemText ==
  <<Module("tb_subsystem"), Decl("instr"), Decl("apu"), Inst("wrapper"),
    Reads("instr"), Reads("apu"), Generate, Drives("apu_o"), Inst("mm_ram"),
    Set("INSTR_RDATA_WIDTH", "INSTR_RDATA_WIDTH"), Answers("instr"),
    Label("tb_subsystem")>>
TopText ==
  <<Module("tb_top"), Dumpvars("tb_top"), Finish("no_firmware"),
    Finish("cycle_limit"), Check, Finish("passed"), Finish("failed"),
    Finish("exit"), Inst("tb_subsystem"), Label("tb_top")>>
ManifestText ==
  All(File, <<"if_stage", "register_file", "register_file_5r3w",
    "load_store_unit", "dual_fetch_pair_buffer", "hamsa_frontend",
    "hamsa_refill", "hamsa_if_stage", "issue2_lane", "hamsa_issue_cluster",
    "id_stage", "mult", "ex_stage", "alu", "core", "wrapper">>)

Preserved ==
  [core |-> CoreText, id_stage |-> IdText, ex_stage |-> ExText,
   wrapper |-> WrapperText, tb_subsystem |-> SubsystemText,
   tb_top |-> TopText, manifest |-> ManifestText]

(* Modules that no generator edits, with those they instantiate.           *)
Instantiates ==
  [if_stage |-> {}, register_file |-> {}, register_file_5r3w |-> {},
   load_store_unit |-> {}, dual_fetch_pair_buffer |-> {}, alu |-> {},
   mult |-> {}, hamsa_frontend |-> {}, hamsa_refill |-> {},
   issue2_lane |-> {}, hamsa_if_stage |-> {"hamsa_frontend", "hamsa_refill"},
   hamsa_issue_cluster |-> {"issue2_lane"},
   sparv_prefetch_ctrl |-> {}, sparv_prefetch_directory |-> {},
   sparv_refill_arbiter |-> {}, sparv_mac_dotp_ref |-> {},
   sparv_mac_dotp_engine |-> {"sparv_mac_dotp_ref"},
   sparv_mult |-> {"mult", "sparv_mac_dotp_engine"},
   sparv_if_stage |-> {"hamsa_frontend", "hamsa_refill",
     "sparv_prefetch_ctrl", "sparv_prefetch_directory", "sparv_refill_arbiter"}]

---------------------------------------------------------------------------
(* gen_hamsa_core.py: the pair buffer between fetch and decode, and the    *)
(* cluster between the execute stage and decode's forwarding input.        *)
Cluster(more) ==
  <<Inst("hamsa_issue_cluster"), Set("ENABLE_ISSUE2", "HAMSA_ENABLE_ISSUE2")>>
    \o All(Reads, <<"pair_fire", "fetched", "inst2", "fw">>)
    \o <<Drives("hamsa_fw")>> \o All(Drives, <<"consumed", "issue2">> \o more)

PairBuffer ==
  <<Inst("dual_fetch_pair_buffer")>>
    \o All(Reads, <<"if_fetched", "if_pc", "if_meta", "id_ready", "consumed">>)
    \o All(Drives, <<"pair_ready", "fetched", "pc", "meta", "inst2",
                     "pair_fire">>)

HamsaCore ==
  <<Once(Module("core"), <<Module("core_hamsa")>>),
    After(Param("NUM_MHPMCOUNTERS", "1"), <<Param("HAMSA_ENABLE_ISSUE2", "1")>>),
    After(Decl("fetched"), All(Decl, <<"if_fetched", "if_pc", "if_meta",
                                "pair_ready", "inst2", "consumed", "pair_fire">>)),
    After(Decl("fw"), All(Decl, <<"hamsa_fw", "issue2">>)),
    Once(Drives("fetched"), <<Drives("if_fetched")>>),
    Once(Drives("pc"), <<Drives("if_pc")>>),
    Once(Drives("meta"), <<Drives("if_meta")>>),
    Once(Reads("id_ready"), <<Reads("pair_ready")>>),
    Before(Inst("id_stage"), PairBuffer),
    Once(Reads("fw"), <<Reads("hamsa_fw")>>),
    Before(Inst("load_store_unit"), Cluster(<<>>))>>

(* gen_hamsa_core_h2.py: another fetch stage instead of the whole region.  *)
HamsaIfStage ==
  <<Inst("hamsa_if_stage"), Set("L0_LINES", "HAMSA_L0_LINES"),
    Set("NATIVE_128_REFILL", "HAMSA_NATIVE_128_REFILL")>>
    \o All(Reads, <<"instr", "line", "consumed", "id_ready">>)
    \o All(Drives, <<"fetched", "meta", "pc", "inst2", "l0", "pair_fire">>)

HamsaCoreH2 ==
  <<Once(Module("core"), <<Module("core_hamsa_h2")>>),
    After(Param("NUM_MHPMCOUNTERS", "1"),
          <<Param("HAMSA_ENABLE_ISSUE2", "1"),
            Param("HAMSA_NATIVE_128_REFILL", "0"), Param("HAMSA_L0_LINES", "8")>>),
    After(Port("instr"), <<Port("line")>>),
    After(Decl("fetched"), All(Decl, <<"inst2", "consumed", "pair_fire", "l0">>)),
    After(Decl("fw"), All(Decl, <<"hamsa_fw", "issue2", "blocks">>)),
    Region(Inst("if_stage"), Inst("id_stage"), HamsaIfStage),
    Once(Reads("fw"), <<Reads("hamsa_fw")>>),
    Before(Inst("load_store_unit"), Cluster(<<"blocks">>))>>

(* gen_hamsa_id_stage_5r3w.py and gen_hamsa_core_h2_5r3w.py.               *)
IdStage5R3W ==
  <<Once(Module("id_stage"), <<Module("id_stage_hamsa_5r3w")>>),
    After(Decl("fw_i"), <<Port("rf_de")>>),
    Once(Inst("register_file"), <<Inst("register_file_5r3w")>>)>>

CoreH2_5R3W ==
  <<Once(Module("core_hamsa_h2"), <<Module("core_hamsa_h2_5r3w")>>),
    Once(Inst("id_stage"), <<Inst("id_stage_hamsa_5r3w")>>),
    Before(Inst("id_stage_hamsa_5r3w"), <<Decl("rf_de")>>),
    After(Reads("hamsa_fw"), <<Reads("rf_de")>>),
    After(Set("ENABLE_ISSUE2", "HAMSA_ENABLE_ISSUE2"), <<Set("NATIVE_5R3W", "1")>>),
    Before(Drives("hamsa_fw"), <<Drives("rf_de")>>)>>

Manifest5R3W ==
  <<Once(File("id_stage"), <<File("id_stage_hamsa_5r3w")>>),
    Once(File("core"), <<File("core_hamsa_h2_5r3w")>>)>>

(* gen_sparv_core.py.                                                      *)
SparvExStage ==
  <<Once(Module("ex_stage"), <<Module("sparv_ex_stage")>>),
    Once(Inst("mult"), <<Inst("sparv_mult")>>)>>
SparvCore ==
  <<Once(Module("core_hamsa_h2"), <<Module("core_sparv")>>),
    Once(Inst("hamsa_if_stage"), <<Inst("sparv_if_stage")>>),
    Once(Inst("ex_stage"), <<Inst("sparv_ex_stage")>>)>>

(* Fault: the multiplier is forgotten.                                     *)
SparvSourcesShort ==
  All(File, <<"sparv_prefetch_ctrl", "sparv_prefetch_directory",
    "sparv_refill_arbiter", "sparv_mac_dotp_ref", "sparv_mac_dotp_engine",
    "sparv_ex_stage", "sparv_if_stage">>)

SPARV_SOURCES ==
  All(File, <<"sparv_prefetch_ctrl", "sparv_prefetch_directory",
    "sparv_refill_arbiter", "sparv_mac_dotp_ref", "sparv_mac_dotp_engine",
    "sparv_mult", "sparv_ex_stage", "sparv_if_stage">>)

ManifestSparv ==
  <<Once(File("core"), <<File("core_sparv")>>),
    FirstAfter(File("hamsa_if_stage"), SPARV_SOURCES)>>

---------------------------------------------------------------------------
(* The wrappers, testbenches and manifests of the executable variants.     *)
(* The finish paths are rewritten without a check; what the hierarchical   *)
(* references of the counters name must be in the core.                    *)
(* Fault: the path of failed tests is forgotten.                           *)
PrintedButFailed(who) ==
  [i \in 1..2 |-> LET path == <<"passed", "exit">>[i]
                  IN  Silently(Finish(path), <<Prints(who), Finish(path)>>)]

Printed(who) ==
  [i \in 1..3 |-> LET path == <<"passed", "failed", "exit">>[i]
                  IN  Silently(Finish(path), <<Prints(who), Finish(path)>>)]

(* gen_baseline_eval_tb.py.                                                *)
TopEval ==
  <<Once(Module("tb_top"), <<Module("tb_top_eval")>>),
    Silently(Label("tb_top"), <<Label("tb_top_eval")>>),
    First(Check, All(Counts, <<"others">>))>> \o Printed("hamsa")

(* A variant's copy of a file is named after the variant.                  *)
Copies ==
  [hamsa |-> [wrapper |-> "wrapper_hamsa", tb_subsystem |-> "tb_subsystem_hamsa",
              tb_top |-> "tb_top_hamsa", manifest |-> "manifest_hamsa"],
   h2_32 |-> [wrapper |-> "wrapper_h2_32", tb_subsystem |-> "tb_subsystem_h2_32",
              tb_top |-> "tb_top_h2_32", manifest |-> "manifest_h2_32"],
   h2_128 |-> [wrapper |-> "wrapper_h2_128", tb_subsystem |-> "tb_subsystem_h2_128",
               tb_top |-> "tb_top_h2_128", manifest |-> "manifest_h2_128"],
   sparv_32 |-> [wrapper |-> "wrapper_sparv_32", tb_subsystem |-> "tb_subsystem_sparv_32",
                 tb_top |-> "tb_top_sparv_32", manifest |-> "manifest_sparv_32"],
   sparv_128 |-> [wrapper |-> "wrapper_sparv_128", tb_subsystem |-> "tb_subsystem_sparv_128",
                  tb_top |-> "tb_top_sparv_128", manifest |-> "manifest_sparv_128"]]
Of(file, variant) == Copies[variant][file]

(* gen_hamsa_sim.py and gen_hamsa_sim_h2.py, which follow one pattern.     *)
WrapperHamsa(enable_issue2) ==
  <<Once(Module("wrapper"), <<Module("wrapper_hamsa")>>),
    Once(Inst("core"), <<Inst("core_hamsa")>>),
    After(Set("NUM_MHPMCOUNTERS", "NUM_MHPMCOUNTERS"),
          <<Set("HAMSA_ENABLE_ISSUE2", enable_issue2)>>)>>

Subsystem(suffix) ==
  <<Once(Module("tb_subsystem"), <<Module(Of("tb_subsystem", suffix))>>),
    Once(Inst("wrapper"), <<Inst(Of("wrapper", suffix))>>),
    Silently(Label("tb_subsystem"), <<Label(Of("tb_subsystem", suffix))>>)>>

Top(suffix) ==
  <<Once(Module("tb_top"), <<Module(Of("tb_top", suffix))>>),
    Once(Inst("tb_subsystem"), <<Inst(Of("tb_subsystem", suffix))>>),
    Silently(Label("tb_top"), <<Label(Of("tb_top", suffix))>>)>>

TopHamsa ==
  Top("hamsa")
    \o <<First(Check, All(Counts, <<"others", "consumed", "issue2">>))>>
    \o Printed("hamsa")

Manifest(core, wrapper) ==
  <<Once(File("core"), <<File(core)>>), Once(File("wrapper"), <<File(wrapper)>>)>>

(* Fault: every variant refills over the 32-bit port.                      *)
H2ParametersFixed(native) ==
  <<Set("HAMSA_ENABLE_ISSUE2", "1"), Set("HAMSA_NATIVE_128_REFILL", "0"),
    Set("HAMSA_L0_LINES", "8")>>

H2Parameters(native) ==
  <<Set("HAMSA_ENABLE_ISSUE2", "1"), Set("HAMSA_NATIVE_128_REFILL", native),
    Set("HAMSA_L0_LINES", "8")>>

(* Natively, the line port goes through to the RAM, and the legacy         *)
(* instruction port is tied off.                                           *)
WrapperH2(suffix, native) ==
  <<Once(Module("wrapper"), <<Module(Of("wrapper", suffix))>>),
    Once(Inst("core"), <<Inst("core_hamsa_h2")>>),
    After(Set("NUM_MHPMCOUNTERS", "NUM_MHPMCOUNTERS"), H2Parameters(native))>>
    \o IF native = "1"
       THEN <<After(Port("instr"), <<Port("line")>>),
              After(Reads("instr"), <<Reads("line")>>)>>
       ELSE <<After(Reads("instr"), <<Tie("line")>>)>>

SubsystemH2(suffix, native) ==
  Subsystem(suffix)
    \o IF native = "1"
       THEN <<After(Decl("instr"), <<Decl("line")>>),
              After(Reads("instr"), <<Reads("line")>>),
              Silently(Generate, <<Drives("instr"), Generate>>),
              Once(Set("INSTR_RDATA_WIDTH", "INSTR_RDATA_WIDTH"),
                   <<Set("INSTR_RDATA_WIDTH", "128")>>),
              Once(Answers("instr"), <<Answers("line")>>)>>
       ELSE <<>>

TopH2(suffix) ==
  Top(suffix)
    \o <<Silently(Dumpvars("tb_top"), <<Dumpvars(Of("tb_top", suffix))>>),
         First(Check, All(Counts, <<"others", "consumed", "issue2", "blocks", "l0">>))>>
    \o Printed("hamsa")

(* gen_sparv_sim.py renames what gen_hamsa_sim_h2.py wrote.                *)
Renamed(file, from, to) == Rename(Of(file, from), Of(file, to))

WrapperSparv(from, to) ==
  <<Renamed("wrapper", from, to), Rename("core_hamsa_h2", "core_sparv")>>

SubsystemSparv(from, to) ==
  <<Renamed("tb_subsystem", from, to), Renamed("wrapper", from, to)>>

TopSparv(from, to) ==
  <<Renamed("tb_top", from, to), Renamed("tb_subsystem", from, to),
    First(Check, All(Counts, <<"others", "prefetch", "accel">>)),
    Silently(Prints("hamsa"), <<Prints("hamsa"), Prints("sparv")>>)>>

ManifestSparvSim(from, to) ==
  <<Rename("core_hamsa_h2", "core_sparv"), Renamed("wrapper", from, to),
    Unless(SPARV_SOURCES[1], File("hamsa_if_stage"), SPARV_SOURCES)>>

---------------------------------------------------------------------------
(* A run: its jobs in order.  A generator that calls another one first     *)
(* fails when that one fails (check=True).                                 *)
Job(src, edits, dst) == [src |-> src, edits |-> edits, dst |-> dst]

gen_hamsa_core == <<Job("core", HamsaCore, "core_hamsa")>>
gen_hamsa_core_h2 == <<Job("core", HamsaCoreH2, "core_hamsa_h2")>>
gen_baseline_eval_tb == <<Job("tb_top", TopEval, "tb_top_eval")>>

gen_hamsa_core_h2_5r3w ==
  <<Job("id_stage", IdStage5R3W, "id_stage_hamsa_5r3w")>> \o gen_hamsa_core_h2
    \o <<Job("core_hamsa_h2", CoreH2_5R3W, "core_hamsa_h2_5r3w"),
         Job("manifest", Manifest5R3W, "manifest_h2_5r3w")>>

gen_hamsa_sim(enable_issue2) ==
  gen_hamsa_core
    \o <<Job("wrapper", WrapperHamsa(enable_issue2), "wrapper_hamsa"),
         Job("tb_subsystem", Subsystem("hamsa"), "tb_subsystem_hamsa"),
         Job("tb_top", TopHamsa, "tb_top_hamsa"),
         Job("manifest", Manifest("core_hamsa", "wrapper_hamsa"), "manifest_hamsa")>>

gen_hamsa_sim_h2(native) ==
  LET suffix == IF native = "1" THEN "h2_128" ELSE "h2_32"
  IN  gen_hamsa_core_h2
        \o <<Job("wrapper", WrapperH2(suffix, native), Of("wrapper", suffix)),
             Job("tb_subsystem", SubsystemH2(suffix, native), Of("tb_subsystem", suffix)),
             Job("tb_top", TopH2(suffix), Of("tb_top", suffix)),
             Job("manifest", Manifest("core_hamsa_h2", Of("wrapper", suffix)),
                 Of("manifest", suffix))>>

(* Fault: the H2 core is taken as it was left by an earlier run.           *)
gen_sparv_core_alone ==
  <<Job("ex_stage", SparvExStage, "sparv_ex_stage"),
    Job("core_hamsa_h2", SparvCore, "core_sparv"),
    Job("manifest", ManifestSparv, "manifest_sparv")>>

gen_sparv_core ==
  gen_hamsa_core_h2
    \o <<Job("ex_stage", SparvExStage, "sparv_ex_stage"),
         Job("core_hamsa_h2", SparvCore, "core_sparv"),
         Job("manifest", ManifestSparv, "manifest_sparv")>>

gen_sparv_sim(native) ==
  LET from == IF native = "1" THEN "h2_128" ELSE "h2_32"
      to   == IF native = "1" THEN "sparv_128" ELSE "sparv_32"
  IN  gen_hamsa_sim_h2(native) \o gen_sparv_core
        \o <<Job(Of("wrapper", from), WrapperSparv(from, to), Of("wrapper", to)),
             Job(Of("tb_subsystem", from), SubsystemSparv(from, to), Of("tb_subsystem", to)),
             Job(Of("tb_top", from), TopSparv(from, to), Of("tb_top", to)),
             Job(Of("manifest", from), ManifestSparvSim(from, to), Of("manifest", to))>>

=============================================================================
