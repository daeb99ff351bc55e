# TLA+ models of the SPARV / HAMSA extensions of CV32E40P

This directory verifies what the repository adds to the CV32E40P core, in two halves.

* **The circuit**: the 128-bit instruction supply (HAMSA), the next-line prefetcher (SPARV), the
  pair assembly and the asymmetric dual issue, from the SystemVerilog in `src/`.
* **The programs around it**: the generators in `src/util/` that derive every core and testbench
  by editing the preserved baseline, the runners and parsers in `src/evaluation/` that produce
  the published numbers, and `src/util/vendor.py`, which imports third-party code.

TLC checks the models on small instances; TLAPS proves the results of section 6 for every value
of the constants.

Files: `*.tla` are the modules, `MC*.tla` with `*.cfg` the instances TLC checks, and
`PROJECT.json` the list of runs, of the source lines each definition stands for, of the
hazards and of the disagreements found.

## 1. Inventory

### The circuit

It is synchronous: every clocked process of every part steps on one clock, and
the combinational signals tie the steps together. "Concurrency" here means which events fall
into the same cycle, and how long the memory takes.

| component (under `src/cv32e40p_*.sv`) | state | operations | talks to | what must hold |
|---|---|---|---|---|
| four-beat refill engine, `hamsa_refill_32to128` | FSM, line address, beat, words collected, refill pulse | accept a miss, grant, answer, flush | L0, instruction bus | the line delivered is the one asked for, whole |
| native refill engine, `hamsa_refill_native128` | FSM, line address, pulse | the same in one access | L0, line port | the same |
| L0 front end, `hamsa_frontend`, `dual_decode_128` | direct-mapped lines, pair register | look up, refill, invalidate, load / take / drop a pair | engine, decode | decode sees the program in order |
| prefetcher, `sparv_prefetch_ctrl`, `sparv_prefetch_directory`, `sparv_refill_arbiter` | candidate line, shadow tags, source of the line in flight | train, retarget, probe, arbitrate, classify | front end, engine | a prefetch never disturbs the demand stream |
| SPARV fetch stage, `sparv_if_stage` | fetch counter | redirect, advance by one or two | all of the above, controller | the stream of instructions, progress, FENCE.I |
| HAMSA fetch stage, `hamsa_if_stage` | the same without prefetcher | | | |
| pair buffer, `dual_fetch_pair_buffer` | one waiting instruction, up to two outputs; the IF/ID register before it | accept, pair, serialize, replay, flush | baseline fetch stage, decode | nothing lost, doubled or reordered |
| dual issue, `dual_issue_idu`, `dual_issue_forwarding`, `issue2_*`, `hamsa_issue_cluster` | result in the lane, mirrored registers | decide, forward, execute, commit, kill | decode, EX, WB, register file | program order of the registers |
| MAC engine, `sparv_mult`, `sparv_mac_dotp_engine`, `sparv_accel_lane` | FSM, accumulators, held result | start, step, hold, retire | EX | one result per operation, no lost ready |
| counters and monitors, `*_counters`, `hamsa_eval_monitor` | counters | count | none | |
| baseline prefetch unit, `prefetch_controller`, `prefetch_buffer`, `fifo`, `obi_interface` | outstanding and flush counters, FIFO, OBI FSM | request, answer, branch, hardware loop | instruction bus, aligner | no stale word, no overflow |
| aligner, compressed decoder, `aligner`, `compressed_decoder` | alignment FSM, counter | align, branch, loop | fetch stage | instruction boundaries |
| load/store unit, `load_store_unit` | outstanding counter, misaligned phase | request, answer, second half | data bus, EX, WB | one answer per access |
| controller and decode, `controller`, `id_stage`, `int_controller`, `hwloop_regs` | FSM, pending interrupts, loop counters | redirect, halt, flush, trap, debug | everything | precise traps, no lost redirect |
| execute, `ex_stage`, `alu`, `alu_div`, `mult`, `apu_disp` | EX/WB register, multicycle FSMs, APU slots | | | |
| sleep unit, `sleep_unit` | FSM | sleep, wake | controller | never asleep with work pending |
| CSRs, register files, vendored IP | | | | |

Interactions that are hard to get right, and that the models are built around:

* **Redirects against the memory.** A jump, trap or FENCE.I abandons a line, but the memory
  cannot take back an access it granted. No engine counts what it abandoned.
* **Several events in one cycle.** A refill pulse and an invalidation; a redirect, a pair being
  taken and a lookup that hits; a completion and the next acceptance; a taken branch and the
  commit of the instruction behind it.
* **Two copies of one fact.** The fetch counter and the counter of the pair; the L0 tags and the
  shadow directory; the register file and the mirrored registers; the refill address and the
  data it labels.
* **Partial takes.** Decode takes one instruction of a pair, and the other must come again,
  once, as the next first one.
* **Hand-overs told differently to both sides.** The pair buffer accepts on its own ready signal,
  and the register it takes from is cleared on decode's.
* **Back-pressure and progress.** The engine is shared by demand and prefetch; the write port is
  shared by the ALU and the lane.

### The programs

They are sequential scripts whose state is the tree they share: what a run finds there was left
by another program, by a run that failed or was killed, or by a user. That is where they can go
wrong, and no test of the repository runs two of them in a row.

| component | state | operations | talks to | what must hold |
|---|---|---|---|---|
| vendor tool, `util/vendor.py` | description, lock file, patch files, imported tree, git index; the checkout while it runs | load and check, override, refresh patches, clone, replace the tree, copy and patch item by item, write the lock file, commit | git, upstream repositories, user | the tree is the locked revision plus the patches, and the commit says so |
| core and simulation generators, `util/gen_*.py` | generated files | checked and unchecked text edits of the preserved sources and of each other's output | preserved sources, HDL compiler | a run that ends well wrote the design that was asked for |
| runners, `evaluation/run_*.py` | generated files, compiled images, logs, signatures, result files | generate, build, simulate, synthesize, collect rows | generators, make, simulator | a row belongs to the benchmark and the configuration it names |
| parsers and metrics, `evaluation/parse_*.py`, `compute_metrics.py`, `plot_results.py` | their output files | read metric lines, merge, derive ratios, plot | logs and result files | the same log gives the same numbers, ratios compare like with like |
| `evaluation/gen_microbench.py`, `ci/*-to-junit.py`, `util/git-diff.py`, `docs/source/conf.py` | none | one text into another | | |

`PROJECT.json` has each hazard at its source line with the property that would catch it.

## 2. Plan

The parts are modelled in the order instructions flow, and among them those first that no
baseline verification covers.

1. Four-beat refill engine: **done, proved**.
2. L0 front end, native engine, prefetcher, composed as the SPARV fetch stage: **done, proved**.
3. Pair buffer of the 32-bit frontend: **done, proved**.
4. Issue cluster beside the primary pipeline (mirrored registers): **done, proved**.
5. Vendor tool: **done, proved**.
6. Generators of cores, testbenches and manifests: **done, proved**.
7. Evaluation runners, parsers and derived metrics: **done, proved**.
8. Not reached: MAC engine in the multiplier (handshake with EX, and the ready path
   `sparv_mult.sv:156`, which depends on the engine's result even when the multiplier is idle);
   baseline prefetch unit and aligner; load/store unit; HAMSA fetch stage and the four-beat SPARV
   stage as further compositions; issue cluster with a third write port (`NATIVE_5R3W = 1`);
   halts of decode; interrupt controller, hardware loops, sleep unit, APU dispatcher, controller.

Abstract specifications: `LineFetch` (what a refill engine owes the L0), `InstrStream` (what
fetch owes decode), `InstrQueue` (what a buffer owes its reader).

Theorems, in order: the four-beat engine is type correct, delivers only right lines and implements
`LineFetch`, as does the native one (**done**); a run of the vendor tool leaves what its lock file
names, commits what it produced and writes nothing outside its target (**done**); result files are
whole command lines, survive failures, and their rows, derived numbers and verdicts belong to what
they name (**done**); what the generators write depends on the sources alone, and a changed layout
stops them or changes nothing (**done**); what first runs show of a design holds after any runs
(**done**); the pair buffer implements `InstrQueue`, and so does the way to it while hand-overs go
well (**done**); the fetch stage keeps pair and counter together, has a sound shadow directory,
keeps after a FENCE.I at most one old line, lets no prefetch overtake a demand and implements
`InstrStream` (**done**); program order of the registers in `DualIssueCore` (**done**). Left:
liveness, which section 6 leaves to TLC.

## 3. Modules and the code

### The circuit

One action is one clock edge. A register keeps the code's name without `_q`. A valid bit with
its payload is one optional value, `{}` or `{payload}` (module `Signals`). Inputs of a cycle are
quantified in the next-state relation, and combinational outputs are operators. Definitions
whose comment calls them a fault are variants no specification uses; each is what
the property named in `PROJECT.json` must detect.

| module | code | remarks |
|---|---|---|
| `HamsaRefill32to128` | `hamsa_refill_32to128.sv` | every branch of the clocked process |
| `InstrMemory` | external: the memory behind either port | in-order answers, at most `MaxLatency` cycles after the grant |
| `Refill32System` | engine and memory | the front end asks and flushes at will; the ghost `disturbed` records that an access was granted while another was unanswered |
| `LineFetch` | abstract | request, then deliver once or drop |
| `FetchLines` | address slicing in front end and prefetcher | counters in halfwords, instruction lengths |
| `HamsaFrontend` | `hamsa_frontend.sv`, `dual_decode_128.sv` | L0, dual decode, pair register |
| `HamsaRefillNative128` | `hamsa_refill_native128.sv` | |
| `SparvPrefetchCtrl`, `SparvPrefetchDirectory`, `SparvRefillArbiter` | the files of those names | event outputs left out |
| `SparvFetch` | `sparv_if_stage.sv` | composition; ghosts for store versions, overlapped accesses, lines a FENCE.I spared and what decode took |
| `InstrStream` | abstract | window of one or two instructions of the program |
| `DualFetchPairBuffer` | `dual_fetch_pair_buffer.sv` | every branch of the clocked process |
| `PairFetch` | IF/ID register of `if_stage.sv`, clearing of `id_stage.sv:550`, wiring of `gen_hamsa_core.py` | fetch delivers in order, hardware loops jump without a flush; the register is loaded on the buffer's ready and cleared on decode's |
| `InstrQueue` | abstract | bounded queue, one or two leave at the head |
| `HamsaIssueCluster` | `hamsa_issue_cluster.sv`, `dual_issue_idu.sv`, `dual_issue_forwarding.sv`, `issue2_*.sv` | results have no value |
| `DualIssueCore` | wiring of `gen_hamsa_core_h2.py`, ID/EX, EX and WB, load stall and forwarding of the baseline | keeps of every register where its newest value is; the ghosts `exposed` and `crossed` name the registers a missing interlock has put at risk |

**Data.** A line read from memory is named by `[line, version]`, where it was read and how often
it had been written: two lines differ exactly if they were read from different places or at
different times. What the code stores as the tag is the address the refill pulse claims, kept
apart from that name, so that a wrong line under a right tag is a state the model can reach. An
instruction is its program counter; its length is given by the constant `Wide` (instructions of
32 bits) and its legality by `IllegalC`. In the issue cluster an instruction is its class and
its registers.

**Redirects.** In `SparvFetch` all sources of a redirect (branch, jump, trap, return, debug,
hardware loop) are one action with any target; FENCE.I has an action of its own, because it also
empties the L0, and its target is the counter behind the FENCE.I itself (`pc_id_o + 4`).

### The programs

One action is one call that changes the disk or the course of the process; between any two of
them the process may fail or be killed.

| module | code | remarks |
|---|---|---|
| `VendorDesc` | `vendor.py`, description file: `Desc`, `Upstream`, `PatchRepo`, `Mapping`, overrides | values are model values, of the right type or `Mistyped`; paths are sequences of parts, normalised |
| `Vendor` | `vendor.py`, `main` and what it calls; a user's edits, `git commit`, `git stash`; upstream branches that move | a tree is the sequence of entries copied, each with the revision it came from, the target and the patches applied; `Scrap` is what no import left there whole, and `kept` that files a removal left may lie beside it |
| `TextEdits` | the substitution helpers of `gen_*.py` | a text is the sequence of its marks, the lines some edit looks for or that matter in the result |
| `Generators` | each generator's `main` | a generator is the list of its jobs, a job the edits of one file |
| `Variants` | `run_example_vsim.py`, `run_ppa_matrix.py:prepare`; the HDL compiler (external) | which generator, manifest, top and parameters a configuration means; what a design must be to elaborate |
| `GenerateRun` | generators called in turn, killed, over a source layout that changes | a file torn by a kill is not what its generator writes |
| `MetricLogs` | `parse_*.py`, `parse_metrics`, `compute_metrics.py`, `plot_results.py` | a log is a sequence of tagged lines of tokens; a value names the firmware, image and counter it was taken from |
| `Evaluation` | `run_full_matrix.py`, `run_benchmark_matrix.py`, `run_arch_regression.py`, `run_ppa_matrix.py` over `run_example_vsim.py`; make and the simulator (external) | one runner at a time; "cut" is a simulation stopped at the cycle limit, whose exit status may be 0 or 1 |

A line of source in another layout is a `Moved` mark: it means the same to the compiler and is
found by no edit. In `Evaluation` sources change while nothing runs, before a generator runs and
before a synthesis; elsewhere a change commutes with the step. Failing tests are told apart only
by the regression, which alone looks at verdicts. B0's synthesis reads the preserved sources.

The preserved RTL lies at the top of the repository at this commit, while all generators but
`gen_baseline_eval_tb.py` read `rtl/`: as committed they fail at their first file. The models
assume the layout the generators name.

## 4. Runs

| run | instance | result |
|---|---|---|
| `refill32` | 4 lines, answers up to 4 cycles late, flush whenever it likes | 9,764 states: types, right lines, completion, `LineFetch` |
| `sparv_fetch` | 4 lines of 4 halfwords, an L0 of 2, mixed 16/32-bit program with an illegal encoding, stores to one line, redirects, FENCE.I at any time | 119,956 states: types, counter and pair agree, shadow directory sound, demand first, FENCE.I spares one line at most, stream refined, progress |
| `pair_buffer` | 8 halfwords, plain, compressed and compressed illegal instructions | 23,955 states: queue refined by the buffer, and by the whole way from fetch to decode until a hand-over goes wrong; held instructions leave |
| `dual_issue` | 1 register, all classes of instructions in any order | 1,097 states: program order of registers, operands, mirrored copy |
| `vendor` | 2 upstreams, 2 commits, 6 descriptions (2 of them rejected), 8 command lines, 1 change of the world | about 1,037,000 states: tree, lock file and commit agree after runs that end well; pins, patch series and the outside of the target are kept |
| `generators` | all 7 configurations simulated and all 8 synthesized, 2 generator runs, 1 changed line in any preserved source | about 356,000 states: whatever ran or was killed before, a run that ends well wrote the design asked for, or a changed layout stops it |
| `evaluation` | 8 command lines of the four runners, 2 firmware files, 2 runs, 1 edit of the sources, 1 use of the parsers | about 2.3 million states: rows, verdicts, speedups, plots and synthesis results belong to what they name; failures leave the results alone |

Runs in which TLC finds what the text says violated:

| run | what happens |
|---|---|
| `sparv_crossing` | a 32-bit instruction across the end of a line is neither a pair nor a miss: fetch stops for ever |
| `sparv_core_wiring` | `clear_instr_valid_i`, high whenever decode is ready in the generated core, is treated as a redirect: no lookup while decode is ready |
| `pair_lossless` | the IF/ID register is cleared in a cycle in which the pair buffer is not ready for its instruction, which is lost; or it is not cleared in one in which the buffer takes it, and it comes again |
| `dual_issue_branch` | the result behind a taken branch is written in the cycle of the redirect |
| `dual_issue_order` | the lane's result waits for the ALU port and is written over that of a younger ALU instruction with the same register |

The texts contradicted are quoted in `PROJECT.json`. What also deviates, without a run.
In the circuit:

* an answer that arrives after a redirect, when the next line's access is granted already, is
  stored and executed as that line, in either engine (`hamsa_refill_native128.sv:49`,
  `hamsa_refill_32to128.sv:75`), against `README.md:24` of the repository. It takes an access
  granted while another is unanswered, which three cycles of latency are the first to make
  possible. `LineDelivered`, `FetchSpec` and `StreamSpec` promise nothing of such a line
  (`disturbed`), and the stream nothing from there on, because the wrong line stays in the L0;
* a refill pulse in the cycle of a FENCE.I survives it with data read before the store
  (`hamsa_frontend.sv:142-148`), against `cv32e40p_controller.sv:1084-1085`, by
  which the jump behind a FENCE.I "forces the instruction cache to refetch". `FenceSpares` says
  that this line is all that survives;
* a redirect in a cycle in which the IF/ID register is not cleared (a jump while decode is not
  ready, `cv32e40p_controller.sv:549`) empties the pair buffer and leaves an instruction of the
  wrong path in the register, which the buffer accepts afterwards. `FrontSpec` promises the
  queue from fetch to decode up to the first such hand-over, or one of `pair_lossless`;
* `can_pair` ignores `in_fetch_failed_i`, against `dual_fetch_pair_buffer.sv:115`; the fetch stage
  ties that flag to 0 (`cv32e40p_if_stage.sv:175`), so it never matters;
* a pending result of the lane is killed by a jump that is younger than it, and a branch before it
  kills it or not depending on the cycle;
* a redirect takes an ungranted request back (`hamsa_refill_32to128.sv:41` with `:54`), while
  `docs/source/instruction_fetch.rst:50` keeps a request high until it is granted;
* the directory's probe does not see the line completing in this cycle, so that line can be
  prefetched once more; it costs an access and nothing else;
* the arbiter forgets the source of a request accepted in the cycle of a completion
  (`sparv_refill_arbiter.sv:65`): that prefetch trains and counts as a demand refill;
* a reserved OP encoding is consumed as second instruction and dropped without a trap;
* a stream of ALU instructions keeps a pending result in the lane without bound, and a primary
  instruction that reads its register meanwhile gets the old value; a secondary instruction gets
  the old value of a register a load has yet to deliver. `OperandsNewest` names these two reads and
  says that every other one is right;
* of a load and the lane writing one register in one cycle, the register file takes the lane's
  value and its mirrored copy the load's; `MirrorAgrees` names the registers this can happen to;
* decode may be halted in the cycle in which `pair_fire_i` hands the second instruction over.

In the vendor tool:

* the override `upstream.ref` (`vendor.py:48`) is accepted and has no effect: the description
  calls that field `rev`;
* a lock file torn by a kill is rejected by every later run, also with `--update`, until someone
  removes it; a kill between the removal of the tree and the lock file leaves half a tree under
  the old lock file, which the next run repairs;
* `rmtree` is told to ignore its errors (`vendor.py:455`), so files of an earlier tree may lie beside
  the new one in a run that ends well. `SuccessPinned` is about every file the run places; `kept`
  records that old ones may be there, which is excluded only where an entry is the whole target
  directory, because copying it then fails;
* the check for a clean directory ignores untracked files, so patches that a failed refresh left
  untracked are applied (`vendor.py:56`); `CommitRecords` therefore allows the committed tree to
  have more patches than the commit.

In the generators: some edits are plain `str.replace` calls that do nothing when their text is
not there (`gen_hamsa_sim_h2.py:116-121`, `:177`, `:189`, `:209`); the properties about changed
layouts leave out those marks. The testbench's `$dumpvars(0, tb_top)` names a module that was
renamed, and `gen_hamsa_core_h2_5r3w.py` drops `core.sv` from the manifest and keeps the wrapper
that instantiates it, so that design is only ever synthesized from its core. Further:

* no parameter reaches the core in the synthesis of H0 (`run_ppa_matrix.py:23-26`): the wrapper, which
  switches the second slot off, is not part of it, and what is synthesized is H1, against
  `PPA_SETUP.md:10`. `Configured` and `PpaOfOwnDesign` say so of H0 (`Meant`, `Elaborated`);
* `tb_subsystem.sv:120-127` connects the APU ports of a wrapper that has none (14-68), and 159-165
  drive nets it does not declare, in every generated copy as in the source. `DrivenOnce` says that
  the generators add no flaw to these (`Inherited`);
* two ends of the testbench print no metrics: the abort at the cycle limit (`tb_top.sv:121`) and the
  end without a firmware (78-81). `MetricsPrinted` is about the ends a firmware's run comes to;
* the wildcards of the simulation's Makefile (53-54, 86-88), and ports and parameters beyond those
  that carry a mark, are outside `Elaborates` and `DrivenOnce`.

In the evaluation:

* the regression accepts a signature file left by an earlier run, and compares nothing when B0 is
  not among the configurations (`run_arch_regression.py:63`, `:69`);
* `parse_hamsa_log.py` raises on a log of H2, whose line has `l0_refills`, after it has emptied its
  output file;
* the log contract allows several metric lines (`HAMSA_DI_EVALUATION.md:137-146`), and all readers but
  one merge them: `run_full_matrix.py:70` reads the last only, and puts "0" for what it lacks, the
  cycles included. `ParsersAgree` asks it to agree where there is one line, as the testbenches it
  simulates print;
* `run_full_matrix.py` names its rows by `--name`, "firmware" unless given: two programs become one
  benchmark, and a speedup may divide the cycles of the one by those of the other;
* `parse_sparv_log.py` gives 0 retired instructions for a log without a SPARV line, where
  `run_benchmark_matrix.py` adds the two slots; `plot_results.py` leaves SPARV out;
* a synthesis that writes no `ppa.json` reports its configuration's previous one, and one that fails
  after writing it leaves it for the next;
* a `ppa.json` with a field `configuration` would overwrite that of its row (`run_ppa_matrix.py:73-75`);
  the model has the fields the script documents (6-7), and firmware that prints no metric tags;
* a result file is emptied when it is opened, so a kill while it is being written cuts it short:
  `OneCommandLine` allows the first rows, `ResultsKept` a change in the last step only;
* the revision in a row is read when the run starts, and a dirty tree is not seen;
* `run_full_matrix.py` records rows of failing tests, if they print metrics.

**Why the bounds are enough.**
Lines: an L0 of two entries over four lines has two lines per index, so conflict, replacement
and wrap of the next-line prefetch all occur; four halfwords per line give every alignment of a
16- and a 32-bit instruction, first or second, at the end of a line. Reset starts at 0, the program
runs on through all lines and around, and one target inside a line suffices to redirect out of
every phase to a hit, to a miss and to the line in flight; FENCE.I returns behind any instruction.
`MaxVersion = 1`: one store separates an old from a new line.
Latency: a redirect needs one cycle to restart an engine and one to be granted, so 3 is the first
latency at which an access can be granted over an unanswered one; `refill32` has 4. `sparv_fetch`
has 2, where that never happens: its safety properties are proved for any latency, promising no
data once it has happened. Its progress is checked for 2 only.
Pair buffer: eight halfwords exceed the six that the three instructions on the way can span.
Issue cluster: every property is about one register at a time, and a hazard needs "the same
register" or none, so one register, written or not by each instruction, gives every case; the proof
covers any number. At most one instruction is in EX, in WB and in the lane.

Vendor: two commits separate the locked from another revision, two upstreams an override from
the description; one change of the world before, between or during runs, and any number of runs,
commits and stashes, let every file be older or newer than every other. The descriptions have an
entry with its own patches, one that lands in the directory of another, a sub-directory, a patch
repository, targets that overlap and targets that leave the directory.
Generators: two runs let any configuration find the files of any other, whole or torn; one changed
line shows what each edit does without its anchor. Any two of these events follow each other; of
three, two runs and a changed line, the last run is SPARV-32's simulation, which has the most jobs
(constraint `LongestLast`). Every configuration is among the tasks, from a tree with nothing
generated and with any line changed; section 6 says why this is enough for any number of runs, of
layout changes and of kills.
Evaluation: two runs of any of the runners with one edit let every intermediate file be stale
once; the requests include two configurations with shared files, a repeated baseline, two
benchmarks, two programs under one name, H2's short name, a missing firmware and a configuration
that a runner refuses; metrics are on one line, or (in the logs of
`run_benchmark_matrix.py`, whose command may be any) on two. Signatures
concern the regression alone: once there are some, neither parsers nor other runners are used
(constraint `SignedByRegression`).

Deadlock is checked in every run of the circuit, which never stops, and of the vendor tool, which
can always be started again. `generators` and `evaluation` stop at their bounds.

## 5. Fairness

Fairness is assumed only of the clock, of the memory and, where a property needs it, of decode.

* `Refill32System!FairSpec`: the clock runs (weak fairness of a cycle without a miss or flush)
  and the memory does not withhold a grant for ever (weak fairness of a granting cycle while the
  request is high). The bound on answers is part of `InstrMemory`. OBI gives no other promise.
* `SparvFetch!FairSpec`: the same two, for cycles with lookups on and decode ready.
  `FetchProgress` has the premise that from some time on all cycles are calm (`<>[]calm`): a core
  that redirects or stalls for ever makes no progress and should not.
* `PairFetch!FairSpec`: the back end is ready again and again, in cycles where fetch is
  silent or in cycles where it delivers. Which of the two is not assumed: fetch may stop behind
  an instruction whose fetch failed.

`DualIssueCore` has no liveness property: with a stream of ALU instructions the lane may wait for
ever, and nothing in the code promises otherwise.

The programs have no liveness property: they are finite lists of calls, each of which may fail.

**What a missing interlock puts at risk.** The cluster has none between a pending secondary result
and a younger primary instruction that reads or writes its register, none for a secondary
instruction that reads a register a load has yet to deliver, and its commit is not gated by a
redirect. `DualIssueCore` restricts no program: all of this happens, and the ghost `exposed` holds the
registers whose order it has put at risk (overtaken, killed, dropped, behind a taken branch), from
that cycle until they are next written in order; `crossed` those given to the lane while a load of
them was outstanding. The properties say that every other register, read and copy is right, so
that there is no further way to go wrong; `dual_issue_branch` and `dual_issue_order` show the
ways there are.

## 6. Proofs

`Refill32Proof` proves of `Refill32System`, for any set of lines and words and any latency bound:

* `TypeCorrect`: `Spec => []TypeOK`;
* `DeliveredCorrect`: `Spec => []LineDelivered`;
* `EngineFetches`: `Spec => FetchSpec`, the engine implements `LineFetch`.

Nothing is assumed of redirects or of the memory but that it answers in order. `disturbed` turns
true when an access of the line being filled is granted while another is unanswered, and false
with the next line; the last two theorems promise nothing of the data of a disturbed line, and all
the same of when it is delivered.

`LineDelivered` is not inductive: it speaks only of the cycle of the pulse. The invariant `Inv`
adds what leads there:

* `AgesDistinct`: no two accesses were granted in the same cycle, so "the oldest" is one;
* `Collected`: while the engine is busy and undisturbed, the words of the beats before the current
  one are the right ones of the line being filled;
* `OwnAccess`: while the engine waits undisturbed for an answer, the only access in flight is its own;
* `TypeOK` and `LineDelivered` themselves.

`MemoryStep` says what a cycle does to the accesses in flight; `CycleInv` takes the branches of
the clocked process one by one; `CycleRefines` maps each branch to a step of `LineFetch` (accept
to `Request`, last answer to `Deliver`, flush to `Drop`, everything else to `Wait`).

`VendorProof` proves of `Vendor`, for any upstream repositories, descriptions, patch series,
command lines and number of edits:

* `RunsArePinned`: `Spec => []SuccessPinned`;
* `RunsKeepPins`: `Spec => PinKept`;
* `RunsPinLast`: `Spec => PinFollowsTree`;
* `CommitsAreRecorded`: `Spec => []CommitRecords`;
* `SeriesAreKept`: `Spec => CommitKeepsSeries`;
* `TypeCorrect`: `Spec => []TypeOK`;
* `WritesStayInside`: `Spec => []WritesInside`.

The assumptions are those of `VendorDesc` and `Vendor`: patch numbers are naturals and a series is
finite, clones are of known commits, a mapping is a sequence or of the wrong type, flags are
Booleans, a missing lock file is not a torn one, a path is a sequence of components of which only
the first may be the root, and no file that git records has `..` or the root in its path. A path
in a description may be absolute and have any number of `..`. `SuccessPinned` speaks of the moment a run
ends; the invariant follows the run: `Loading` (what the process has loaded is still what the
disk says, because it alone writes while it runs), `CheckedOut` (the checkout is the locked
commit unless the run updates: this is the comparison at `vendor.py:682`), `Importing` (every
entry before the current one is whole, and the current one lacks exactly the patches still to
do), `Done` (afterwards the whole tree is imported, and only an update gets as far as the lock
file). `CommitsAreRecorded` adds what is staged (`Committing`), and `SeriesAreKept` that from the
export of a refresh to the commit the patches outside the mapping's directories are the series
exported (`Refreshed`).

For `WritesStayInside`, `NormPathNormal` shows what `normpath` makes of any path: components that
lead out of it come first. A path that `get_path` lets through therefore has none
(`AcceptedInside`), nor has what the checkout offers or a place in the directory of an earlier
entry, and the tree grows by such entries only (`TreeInside`, `Placing`).

`EvaluationProof` proves of `Evaluation`, for any command lines and firmware and any number of
runs, edits and parses:

* `FilesOfOneRun`: `Spec => []OneCommandLine`;
* `ResultsStay`: `Spec => ResultsKept`;
* `RowsWereAskedFor`: `Spec => []RowsAsRequested`;
* `PassesAreEarned`: `Spec => []PassIsEarned`;
* `ReadersAgree`: `Spec => []ParsersAgree`;
* `SpeedupsOverBaseline`: `Spec => []SpeedupOverBaseline`;
* `PlotsShowDerived`: `Spec => []PlotsAgree`;
* `AreasOfOwnDesign`: `Spec => []PpaOfOwnDesign`.

They rest on `RequestsAssumption` (a command line names one of the four runners, and its firmware
and configurations are lists) and `BoundsAssumption` (the bound on edits is a natural number). The
invariants, each resting on those before it:

* `RunInv` and `FilesInv`: where a runner is in its plan (`Placed`), that it has collected a row of
  every entry before that one (`Collected`), and that a result file is a prefix of some plan;
* `ImagesInv`: between the step that makes it and the one that uses it, what is generated and
  compiled is an image of the entry's own configuration, no older than the run's commit. At other
  times the files that configurations share are stale;
* `LogsInv`: a log is what some simulation of its firmware printed: nothing, chatter, or chatter, a
  verdict and one or two lines of metrics (`OutputIs`). `TextRead` says what each reader makes of
  such a text, a line of which it looks up by its key;
* `RowsInv`: the rows of a runner and of a result file were measured as they say (`Measured`);
* `PpaInv`: the report in a configuration's directory is of the design it elaborates to;
* `PassInv`: of the entries that are through, the regression counts a failure, or their logs and
  signatures are its own and say that they passed (`Settled`); the log of another entry is another
  file (`LogsApart`).

`GenerateRunProof` proves of `GenerateRun`, for any configurations, any number of generator runs and
layout changes, and kills at any point:

* `OutputsAreFresh`: `Spec => []FreshOutputs`;
* `LoudOrWholeAlways`: `Spec => []LoudOrWhole`;
* `ElaboratesAlways`, `DrivenOnceAlways`, `ConfiguredAlways`, `MetricsPrintedAlways`: if
  `FoundOnce`, `WellDriven`, `Configuration` or `Printing` holds of what each first run leaves, then
  `Elaborates`, `DrivenOnce`, `Configured` or `MetricsPrinted` always holds.

`OutputsAreFresh` needs `TasksAssumption` only (what is asked for is a configuration of
`run_example_vsim.py` or `run_ppa_matrix.py`). The argument is the order of the generators' jobs:
`Chains` shows, generator by generator, that every job reads a preserved source or what an earlier
job of the same run wrote, and that none writes over a source. So while a run works, the sources
and what it has written so far are the files of the same run begun on a tree with nothing else in
it (`Agree`), whatever torn or outdated file lies where it has yet to write. Nothing is assumed of
what an edit does.

`LoudOrWholeAlways` is about the edits. Two texts are `Alike` if they differ only in the layout of
marks that no unchecked substitution looks for. `EditAlike` shows, substitution by substitution,
that an edit that does not raise on the text with the other layout leaves alike texts: an anchor
that is found in the one is in the other, and there is no second. So every run that ends well
leaves texts alike to those of the committed layout (`LikeInv`). What it needs to know of the given
texts are assumptions of `GenerateRun` about the outcome of a computation on fixed data. TLC
evaluates them in each run of that module, in `generators` for every configuration:

* `SourcesAssumption`, `NoTextAssumption`: the sources are texts of marks, and what stands for a
  missing or failed text is none;
* `AnchorsAssumption`: while a generator works, over the committed sources or with a mark moved
  that only unchecked substitutions look for, each anchor it insists on is in exactly one place,
  the anchors of unchecked substitutions are of the kinds in `Silent`, and `Unless` inserts;
* `NamesAssumption`: what a generator writes defines no module but the one the file is named for;
* `ClosedAssumption`: if a first run gets through, the files its design is made of are sources or
  its own.

The last two serve the other four theorems. There, files left by any runs stand beside those of a
first run (`Twins`): what the run has read or written is alike, and whatever else lies around, of
other configurations or torn, defines no module but its own and is not reached from the top. So both
have the same hierarchy (`TwinReached`), the same core, the same modules found as often, the same
nets, parameters and prints. The hypotheses of these theorems are among what `generators` checks: it
has, for every task, the run from a tree with nothing generated, over the committed sources and with
any one mark moved, and looks at every state where it has ended well. They are hypotheses rather
than assumptions of the module so that the run can refute them. `WellDriven` says that a design has
no flaw the preserved sources do not have, and `TwinFlaws` that alike texts have the same.

`Plan`, `normpath` and `Stages` are recursive functions, and the library's induction theorems take an
operator as a parameter. `Induction` therefore states induction about a set (`SetInduction`), and
`PlanUnfolds`, `NormPathUnfolds` and `StagesUnfold` use it to show that these functions exist and
satisfy their equations.

`PairBufferProof` proves of `PairFetch`, for any size of the address space, any flags and any
delivered instructions:

* `BufferIsQueue`: `Spec => BufferSpec`, the buffer implements `InstrQueue` with room for two, of
  what it accepts;
* `FrontIsQueue`: `Spec => FrontSpec`, with the IF/ID register before it the buffer implements
  `InstrQueue` with room for three, of what fetch delivers, until `mishandled`.

They rest on `BufferAssumption` (flags are the three the code looks at, and only a compressed
instruction is an illegal one). The invariant: nothing, one instruction or a pair is offered, at
most one waits, and a pair leaves nothing waiting; so the second instruction of a pair, when it
alone must come again, has a place to wait, and returns with the flags it had.

`SparvFetchProof` proves of `SparvFetch`, for any number and size of lines, any L0, program,
redirect targets and stores:

* `TypeCorrect`: `Spec => []TypeOK`;
* `PairStaysAtCounter`: `Spec => []PairAtCounter`;
* `DirectoryIsSound`: `Spec => []DirectorySound`;
* `DemandComesFirst`: `Spec => []DemandFirst`;
* `FenceSparesOne`: `Spec => []FenceSpares`;
* `NativeFetches`: `Spec => Engine!FetchSpec`, the native engine implements `LineFetch`, as the
  four-beat engine does; a line's content is told by the line it was read from, for the program
  may write it meanwhile;
* `FetchIsStream`: `Spec => StreamSpec`, the stage implements `InstrStream`.

No theorem bounds the latency. The last three promise the data of a line, the fence and the stream
until `disturbed`, the first grant over an unanswered access. What they need beyond types, until then:

* `LineInv`: the access the engine waits for is that of `line_addr`, so the data of a refill pulse and
  of every L0 entry are those of the address they are labelled with;
* `FreshInv`: the access the engine waits for, the refill pulse and the L0 have nothing read
  before a store that the last FENCE.I has to make visible, but for the entry it spared;
* `PairCut`: the pair is cut, whole, from the line its counter lies in. With `PairAtCounter` this
  makes each step of the stage a step of `InstrStream` or a stutter.

`DemandComesFirst` does not depend on the data. `FlightInv` says what the fetch stage may be
about while a line is in flight: if the line is demanded, the counter still misses on it; if it is
prefetched, the candidate is gone, or is the line after one in which the counter hits, or the very
line the counter is in (`BoundForCandidate`). The counter leaves a line only for the next one
(`StepsInLine`, `CounterNear`), so whatever line it misses on when the engine is free again, no
candidate for another one is left to overtake it.

`DualIssueProof` proves of `DualIssueCore`, for any set of registers:

* `OrderOfRegisters`: `Spec => []RegistersInOrder`;
* `OperandsAreNewest`: `Spec => []OperandsNewest`;
* `MirrorIsCurrent`: `Spec => []MirrorAgrees`.

Nothing is assumed of the program (section 5). `RegistersInOrder` says that some stage still has
the newest value, not which one; the invariant says where it is, exactly, and that a register
which the lane writes beside a younger writer is exposed (`Placed`), that lane and load write a
register at once only if the lane was given it across the load (`Met`), and that a lane whose elder
is a branch has that branch still in EX. `CycleInv` proves it kept by a cycle, one conjunct at a
time; the three actions are such cycles.

Model-checked only:

* all liveness (`LineCompletes`, `FetchProgress`, `HeldLeaves`), out of this prover's
  reach;
* what each generator, run once, makes of the marks of the seven preserved sources: a computation
  on given texts, which TLC does in `generators` and the provers cannot. All that follows from it
  for further runs, kills and layouts is proved.

## 7. Not modelled

* The MAC engine, the baseline prefetch unit and aligner, the load/store unit, the dispatcher,
  the sleep unit, hardware loops and the interrupt controller: not reached (section 2, 8).
* `sparv_refill_manager`, `sparv_l0_prefetch_meta`, `l0_icache_128`, `dual_issue_pair_unit`,
  `dual_issue_integration_bridge`, `hamsa_dual_issue_top`: no generated core instantiates them.
* Counters and evaluation monitors: nothing reads them back into the core.
* Decoders and the combinational ALU: tables and arithmetic, without control of their own.
* `gen_microbench.py`, the report converters under `ci/`, `git-diff.py` and `conf.py`: one pass
  over one text, or settings; nothing they do depends on an order of events.
* Of the evaluation: two runners at once (they share generated files, images and logs without a
  lock, and nothing says they may), the ratios other than speedup, the plots other than that of
  speedup, and files torn while a runner writes its results.
* Of the vendor tool: what files contain, what patches do to them, messages, and which files
  a removal leaves behind.
* Within the modelled parts of the circuit: instruction words, operand values, performance events,
  the choice among redirect targets, cycles with decode halted in the issue cluster, and the APU.
