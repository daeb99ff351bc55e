--------------------------- MODULE MCGenerators ---------------------------
(* Every configuration that is simulated or synthesized.                   *)
EXTENDS GenerateRun

AllTasks == ({"sim"} \X Evaluated) \cup ({"ppa"} \X Synthesized)

(* Any two events in a row; of three, two runs and a layout change, the    *)
(* last run is for the configuration with the most jobs.                   *)
LongestLast == runs + layouts = 3 => task \in {NoTask, <<"sim", "SPARV-32">>}

=============================================================================
