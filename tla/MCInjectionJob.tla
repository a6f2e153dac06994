---------------------------- MODULE MCInjectionJob ----------------------------
(***************************************************************************)
(* Two jobs in parallel. The run of the first does anything that the       *)
(* classification tells apart; the run of the second is one of a few that  *)
(* can disturb it: it hangs, causes an Xid, or has nothing to show. When   *)
(* both cause an Xid, the kernel log drops the first.                      *)
(***************************************************************************)
EXTENDS InjectionJob, TLC

CONSTANTS j1, j2

MCJobs == {j1, j2}

Plain == [ends |-> TRUE, code |-> 0, line |-> "injecting", message |-> FALSE,
          kernelError |-> FALSE, diff |-> {}, compared |-> TRUE,
          special |-> "absent", xid |-> FALSE]

\* Runs that the outputs decide, and runs decided before them.
Compared ==
    {[Plain EXCEPT !.kernelError = e, !.diff = d, !.xid = x] :
        e \in BOOLEAN, d \in SUBSET Logs, x \in BOOLEAN} \cup
    {[Plain EXCEPT !.kernelError = e, !.diff = {"stdout"}, !.special = s, !.xid = x] :
        e \in BOOLEAN, s \in {"empty", "full"}, x \in BOOLEAN}
Early ==
    {[Plain EXCEPT !.code = c, !.line = l, !.diff = {"output"}] :
        c \in {0, 1}, l \in {"written", "notread", "skipped", "injecting", "none"}} \cup
    {[Plain EXCEPT !.line = "written", !.kernelError = TRUE, !.xid = TRUE],
     [Plain EXCEPT !.message = TRUE], [Plain EXCEPT !.compared = FALSE]}
Hanging == {[Plain EXCEPT !.ends = FALSE, !.xid = x] : x \in BOOLEAN}

MCOutcomes == Compared \cup Early \cup Hanging
Neighbours == {Plain, [Plain EXCEPT !.xid = TRUE, !.diff = {"output"}]} \cup Hanging

MCOutcomesOf == j1 :> MCOutcomes @@ j2 :> Neighbours
=============================================================================
