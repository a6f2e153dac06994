-------------------------- MODULE InstAddressCampaign --------------------------
(***************************************************************************)
(* One address injection from the profile to the run: the application is   *)
(* run under the profiler, a site is drawn from the file that it leaves,   *)
(* and the application is run again under the injector.                    *)
(***************************************************************************)
EXTENDS InstAddressInjector, InstructionProfile

VARIABLES stage, phpc, pphase, pvalidData, ppc, todo, counters, pknameCount, file

profVars == <<phpc, pphase, pvalidData, ppc, todo, counters, pknameCount, file>>
campaignVars == <<vars, stage, profVars>>

Prof == INSTANCE Profiler
        WITH hpc <- phpc, phase <- pphase, validData <- pvalidData, pc <- ppc,
             knameCount <- pknameCount

\* The seeds and the model are drawn apart from the instruction; until that is
\* drawn, one site stands for all that differ in it.
Undrawn == site = CHOOSE s \in Sites : \A f \in {"opSeed", "bidSeed", "igid", "bfm"} : s[f] = site[f]

CampaignInit == Init /\ Undrawn /\ stage = "profile" /\ Prof!Init

\* What get_total_counts and get_injection_site_info read of the file.
CountsInFile == [n \in DOMAIN file |-> file[n].counts[site.igid]]
Lines == Submitted(file, CountsInFile)

Profile == stage = "profile" /\ Prof!Step /\ UNCHANGED <<vars, stage>>

\* The list is written, and run_injections.py submits one of its lines.
Draw ==
    /\ stage = "profile" /\ pphase = "exited"
    /\ \E s \in Lines :
          site' = [site EXCEPT !.kname = s.kname, !.kcount = s.kcount, !.iid = s.iid]
    /\ stage' = "inject"
    /\ UNCHANGED <<app, hpc, phase, validData, knameCount, areParamsReady, machineVars,
                   infoVars, injections, profVars>>

Inject == stage = "inject" /\ Step /\ UNCHANGED <<stage, profVars>>

CampaignStep == Profile \/ Draw \/ Inject

\* The run is over, or there is nothing to inject into.
Over ==
    /\ phase = "exited" \/ (pphase = "exited" /\ stage = "profile" /\ Lines = {})
    /\ UNCHANGED campaignVars

CampaignSpec == CampaignInit /\ [][CampaignStep \/ Over]_campaignVars

\* The device schedules the threads of a running grid and the host returns from
\* its calls, as long as the program holds no error.
FairCampaign == CampaignSpec /\ WF_campaignVars(CampaignStep /\ injections = {})

-----------------------------------------------------------------------------
(* Properties.                                                             *)

\* The executions of launch i that belong to a column.
Executions(i, column) ==
    {e \in UNION {{t} \X DOMAIN app[i].grid[t] : t \in Threads} :
        \E n \in DOMAIN Prof!CountedAs(app[i].grid[e[1]][e[2]]) :
            Prof!CountedAs(app[i].grid[e[1]][e[2]])[n] = column}

\* Whatever the order of the threads, the file holds one row for every launch since
\* the last device reset, under the launch count that the injector will reach it
\* with, and the exact number of executions of each kind.
ProfileIsTheRows ==
    pphase = "exited" =>
        file = [n \in DOMAIN Profiled |->
                  [kname |-> ProfileRows[n].kname, kcount |-> ProfileRows[n].kcount,
                   counts |-> [c \in Prof!Columns |-> Cardinality(Executions(Profiled[n], c))]]]

\* Every line of the list whose index is not 0 leads to an error, under every
\* interleaving of the run. (Index 0 never does, as in register-file mode.)
DrawnSiteIsStruck == (stage = "inject" /\ site.iid > 0) ~> (injections # {})
=============================================================================
