---------------------------- MODULE InjectorHost ----------------------------
(***************************************************************************)
(* The host side that the three injectors of err_injector/injector.cu      *)
(* share: the application's sequence of CUDA runtime calls, the CUPTI      *)
(* callback of sassi::lazy_allocator around them, and the bookkeeping by   *)
(* which onKernelEntry decides whether the launch about to run is the one  *)
(* the injection parameters name.                                          *)
(*                                                                         *)
(* cupti_cb synchronises the device on both sides of a launch, so at most  *)
(* one kernel runs at a time: a launch is one EnterLaunch step, the steps  *)
(* of the kernel's threads, and one LeaveLaunch step.                      *)
(***************************************************************************)
EXTENDS Integers, Sequences, FiniteSets

CONSTANTS KNames,  \* the kernel names of the application
          Grids,   \* what a launch may run: one instruction stream per thread
          Apps,    \* the applications considered
          Sites    \* the injection parameters considered

\* A runtime call the callback is enabled for: a kernel launch or a device reset.
Launches == [op : {"launch"}, kname : KNames, grid : Grids]
Resets   == [op : {"reset"}]

ASSUME AppsAssumption == Apps \subseteq Seq(Launches \cup Resets)
ASSUME SitesAssumption ==
    \A s \in Sites : s.kname \in KNames /\ s.kcount \in Nat /\ s.iid \in Nat

VARIABLES app,             \* the application that runs
          site,            \* the parameters it is given
          hpc,             \* its next (or current) runtime call
          phase,           \* where the process is
          validData,       \* lazy_allocator::valid_data
          knameCount,      \* launches seen per kernel name, less one; -1 when absent
          areParamsReady   \* inj_info.areParamsReady

hostVars == <<app, site, hpc, phase, validData, knameCount, areParamsReady>>

HostTypeOK ==
    /\ app \in Apps
    /\ site \in Sites
    /\ hpc \in 1..(Len(app) + 1)
    /\ phase \in {"host", "kernel", "exited"}
    /\ phase = "kernel" => hpc <= Len(app) /\ app[hpc].op = "launch"
    /\ validData \in BOOLEAN
    /\ knameCount \in [KNames -> Int]
    /\ areParamsReady \in BOOLEAN

HostInit ==
    /\ app \in Apps
    /\ site \in Sites
    /\ hpc = 1
    /\ phase = "host"
    /\ validData = FALSE
    /\ knameCount = [k \in KNames |-> -1]
    /\ areParamsReady = FALSE

NextCallIs(op) == phase = "host" /\ hpc <= Len(app) /\ app[hpc].op = op

\* The init callback (sassi_init, hence parse_params) is due at the first
\* launch of the process and at the first one after each device reset.
InitDue == ~validData

\* Mutant: the init callback after a device reset also clears the map.
CountLaunchForgetting(counts, k) ==
    IF InitDue THEN [n \in KNames |-> IF n = k THEN 0 ELSE -1] ELSE [counts EXCEPT ![k] = @ + 1]

\* onKernelEntry's update of knameCount: a name seen for the first time gets 0.
CountLaunch(counts, k) == [counts EXCEPT ![k] = @ + 1]

\* is_inj_kernel_name && is_inj_kernel_count.
IsTarget(counts, k) == k = site.kname /\ counts[k] = site.kcount

\* Mutant: the callback sites ENTER and EXIT of a launch are not told apart.
EnterLaunchAdvancing ==
    LET k == app[hpc].kname IN
    /\ NextCallIs("launch")
    /\ phase' = "kernel"
    /\ hpc' = hpc + 1
    /\ validData' = TRUE
    /\ knameCount' = CountLaunch(knameCount, k)
    /\ areParamsReady' = IsTarget(knameCount', k)
    /\ UNCHANGED <<app, site>>

\* The ENTER side of a launch: cupti_cb, then onKernelEntry.
EnterLaunch ==
    LET k == app[hpc].kname IN
    /\ NextCallIs("launch")
    /\ phase' = "kernel"
    /\ validData' = TRUE
    /\ knameCount' = CountLaunch(knameCount, k)
    /\ areParamsReady' = IsTarget(knameCount', k)
    /\ UNCHANGED <<app, site, hpc>>

\* The EXIT side of a launch, once the device is idle: onKernelExit either
\* lets the application go on or calls exit(0).
LeaveLaunch(exits) ==
    /\ phase = "kernel"
    /\ phase' = IF exits THEN "exited" ELSE "host"
    /\ hpc' = IF exits THEN hpc ELSE hpc + 1
    /\ UNCHANGED <<app, site, validData, knameCount, areParamsReady>>

\* cudaDeviceReset or cudaThreadExit: the data of the device is gone, the
\* host's map of launch counts is not.
ResetDevice ==
    /\ NextCallIs("reset")
    /\ validData' = FALSE
    /\ hpc' = hpc + 1
    /\ UNCHANGED <<app, site, phase, knameCount, areParamsReady>>

\* The application returns from main; ~lazy_allocator only prints.
ReturnFromMain ==
    /\ phase = "host" /\ hpc = Len(app) + 1
    /\ phase' = "exited"
    /\ UNCHANGED <<app, site, hpc, validData, knameCount, areParamsReady>>

\* A step of the host, as the injectors built on this module take them.
HostStep ==
    \/ EnterLaunch \/ ResetDevice \/ ReturnFromMain
    \/ \E exits \in BOOLEAN : LeaveLaunch(exits)

(***************************************************************************)
(* What the callbacks are for.                                             *)
(***************************************************************************)
LaunchesBefore(i, k) == {j \in 1..(i - 1) : app[j].op = "launch" /\ app[j].kname = k}

\* Launch i is the one the site names: kcount launches of its name precede it.
IsNamedLaunch(i) ==
    /\ app[i].op = "launch" /\ app[i].kname = site.kname
    /\ Cardinality(LaunchesBefore(i, site.kname)) = site.kcount

\* The device handlers are armed in exactly the launch that the injection list
\* names, however the application mixes its kernels and resets the device:
\* knameCount outlives the reinitialisation that a reset causes.
ArmedOnlyInNamedLaunch == phase = "kernel" => (areParamsReady <=> IsNamedLaunch(hpc))
=============================================================================
