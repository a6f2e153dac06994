------------------------------- MODULE MCCampaign -------------------------------
(***************************************************************************)
(* Two GPUs, and lists with a short line, a line beyond the threshold and  *)
(* an odd number of usable lines; the benchmark of the first line runs     *)
(* three iterations, those of the other lines one.                         *)
(***************************************************************************)
EXTENDS Campaign

MCRuns == {<<l, i>> : l \in 1..2, i \in 1..3}
MCIterations == [r \in MCRuns |-> IF r = <<1, 1>> THEN 3 ELSE 1]
MCErrorCounts == 0..2

MCCampaigns ==
    {[where |-> "standalone", lists |-> <<<<"usable">>>>],
     [where |-> "standalone", lists |-> <<<<"short", "usable">>, <<"usable", "short", "usable">>>>],
     [where |-> "multigpu", lists |-> <<<<"short", "usable">>, <<"usable", "usable">>>>]}
=============================================================================
