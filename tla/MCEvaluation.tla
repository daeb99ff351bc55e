--------------------------- MODULE MCEvaluation ---------------------------
(* Requests for every runner: two configurations that share generated      *)
(* files, a repeated baseline, two benchmarks, two programs under one      *)
(* name, both kinds of metric lines, signatures, H2's short name, and a    *)
(* firmware and configurations that are not there.                         *)
EXTENDS Evaluation

Request(script, firmware, configs, signatures) ==
  [script |-> script, name |-> "firmware", firmware |-> firmware, configs |-> configs,
   signatures |-> signatures]
MCRequests ==
  {Request("full", <<"fw">>, <<"H0", "H1">>, FALSE),
   Request("full", <<"fw2">>, <<"B0", "H1", "B0">>, FALSE),
   Request("full", <<"fw">>, <<"B0", "H2">>, FALSE),
   Request("matrix", <<"fw", "fw2">>, <<"B0">>, FALSE),
   Request("matrix", <<"fw">>, <<"H2", "SPARV-32">>, FALSE),
   Request("regression", <<"fw">>, <<"B0", "H2-32">>, TRUE),
   Request("regression", <<"fw", "missing">>, <<"H1", "H9">>, FALSE),
   Request("ppa", <<"ppa">>, <<"B0", "H0", "SPARV-32">>, FALSE)}
MCSplits == {{}, {"cycles", "l0_refills"}}

(* Signatures are the regression's alone: once there are some, no parser   *)
(* and no other runner is used.                                            *)
SignedByRegression ==
  sigs = <<>> \/ (parses = 0 /\ (run.step = "idle" \/ run.req.script = "regression"))

===========================================================================
