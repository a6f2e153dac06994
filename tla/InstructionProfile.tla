-------------------------- MODULE InstructionProfile --------------------------
(***************************************************************************)
(* What err_injector/profiler.cu leaves of the application in the profile. *)
(***************************************************************************)
EXTENDS InjectorHost, InjectionSites

\* sassi_init opens (truncates) the file again at the first launch after a device
\* reset, so the rows are the launches after the last reset that a launch follows; a
\* reset at the end only closes the file.
LastLaunch ==
    CHOOSE e \in 0..Len(app) : /\ e = 0 \/ app[e].op = "launch"
                               /\ \A j \in (e + 1)..Len(app) : app[j].op = "reset"
ResetBefore ==
    CHOOSE s \in 0..LastLaunch : /\ s = 0 \/ app[s].op = "reset"
                                 /\ \A j \in (s + 1)..LastLaunch : app[j].op = "launch"
Profiled == [n \in 1..(LastLaunch - ResetBefore) |-> ResetBefore + n]

\* One row per launch, written when it ends; the launch count goes on across
\* device resets.
ProfileRows == [n \in DOMAIN Profiled |->
    LET i == Profiled[n] IN
    [kname |-> app[i].kname, kcount |-> Cardinality(LaunchesBefore(i, app[i].kname))]]
=============================================================================
