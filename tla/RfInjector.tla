------------------------------ MODULE RfInjector ------------------------------
(***************************************************************************)
(* The register-file injector: err_injector/injector.cu compiled with      *)
(* INJ_MODE == RF_INJECTIONS. Every instruction of every thread calls      *)
(* sassi_before_handler. The call that brings the shared counter to        *)
(* injInstID selects its thread; from then on that thread's handler looks  *)
(* for the first access to the chosen register. A read gets the error, a   *)
(* write traps the kernel, and a kernel that ends with neither is masked.  *)
(*                                                                         *)
(* The handlers of different threads interleave between any two accesses   *)
(* to the shared inj_info and counter: a call is the steps                 *)
(*   enter (atomicAdd) -> select -> arm -> check -> [trap] -> next         *)
(***************************************************************************)
EXTENDS InjectorHost

CONSTANTS Threads,  \* the threads of a grid
          Regs,     \* the general purpose registers
          NoThread  \* injThreadID == -1

\* An instruction, as its SASSIRegisterParams and GetInstrWillExecute show it.
Instructions == [src : SUBSET Regs, dst : SUBSET Regs, exec : BOOLEAN]

ASSUME GridsAssumption == Grids \subseteq [Threads -> Seq(Instructions)]
ASSUME RegsAssumption == \A s \in Sites : s.reg \in Regs
ASSUME NoThreadAssumption == NoThread \notin Threads

VARIABLES readyToInject, injThreadID, errorInjected, writeBeforeRead, \* inj_info
          injCounterAllInsts,
          pc,          \* per thread: the instruction it is at
          at,          \* per thread: where in the handler it is
          curr,        \* per thread: currInstCounter
          aborted,     \* the running kernel was killed
          selections,  \* lines "Injection point reached"
          injections,  \* lines ":::Injecting"
          verdict      \* the "Masked: ..." line, if any

injInfo == <<readyToInject, injThreadID, errorInjected, writeBeforeRead>>
threadVars == <<pc, at, curr>>
output == <<selections, injections, verdict>>
vars == <<hostVars, injInfo, injCounterAllInsts, threadVars, aborted, output>>

\* A dynamic instruction: one instruction of one thread of one launch.
Points == [launch : Nat, tid : Threads, pc : Nat]

Steps == {"enter", "select", "arm", "check", "trap"}

TypeOK ==
    /\ HostTypeOK
    /\ readyToInject \in BOOLEAN /\ errorInjected \in BOOLEAN /\ writeBeforeRead \in BOOLEAN
    /\ injThreadID \in Threads \cup {NoThread}
    /\ injCounterAllInsts \in Nat
    /\ pc \in [Threads -> Nat \ {0}]
    /\ at \in [Threads -> Steps]
    /\ curr \in [Threads -> Nat]
    /\ aborted \in BOOLEAN
    /\ selections \subseteq Points /\ injections \subseteq Points
    /\ verdict \in {"none", "written", "notread"}

\* inj_info is zero in the loaded image, so injThreadID is some thread's id.
Init ==
    /\ HostInit
    /\ readyToInject = FALSE /\ errorInjected = FALSE /\ writeBeforeRead = FALSE
    /\ injThreadID \in Threads
    /\ injCounterAllInsts = 0
    /\ pc = [t \in Threads |-> 1]
    /\ at = [t \in Threads |-> "enter"]
    /\ curr = [t \in Threads |-> 0]
    /\ aborted = FALSE
    /\ selections = {} /\ injections = {} /\ verdict = "none"

-----------------------------------------------------------------------------
(* The host.                                                               *)

ResetInjInfo ==
    /\ readyToInject' = FALSE /\ errorInjected' = FALSE /\ writeBeforeRead' = FALSE
    /\ injThreadID' = NoThread

\* ENTER of a launch: sassi_init if it is due, then onKernelEntry, which resets
\* the counters; the threads of the grid start.
LaunchKernel ==
    /\ EnterLaunch
    /\ IF InitDue THEN ResetInjInfo ELSE UNCHANGED injInfo
    /\ injCounterAllInsts' = 0
    /\ pc' = [t \in Threads |-> 1]
    /\ at' = [t \in Threads |-> "enter"]
    /\ curr' = [t \in Threads |-> 0]
    /\ aborted' = FALSE
    /\ UNCHANGED output

Code(t) == app[hpc].grid[t]
Finished(t) == pc[t] > Len(Code(t))

\* Mutant: a kernel that ends without an access to the register reports nothing.
VerdictOverwrittenOnly ==
    IF areParamsReady /\ readyToInject /\ writeBeforeRead THEN "written" ELSE "none"

\* onKernelExit's report.
Verdict ==
    IF areParamsReady /\ readyToInject
    THEN IF writeBeforeRead THEN "written" ELSE IF ~errorInjected THEN "notread" ELSE "none"
    ELSE "none"

ExitKernel ==
    /\ phase = "kernel" /\ (aborted \/ \A t \in Threads : Finished(t))
    /\ verdict' = Verdict
    /\ LeaveLaunch(verdict' # "none")
    /\ UNCHANGED <<injInfo, injCounterAllInsts, threadVars, aborted, selections, injections>>

Reset == ResetDevice /\ UNCHANGED <<injInfo, injCounterAllInsts, threadVars, aborted, output>>

Exit == ReturnFromMain /\ UNCHANGED <<injInfo, injCounterAllInsts, threadVars, aborted, output>>

-----------------------------------------------------------------------------
(* The handler, in thread t.                                               *)

Running(t, step) == phase = "kernel" /\ ~aborted /\ ~Finished(t) /\ at[t] = step
Here(t) == [launch |-> hpc, tid |-> t, pc |-> pc[t]]
GoTo(t, step) == at' = [at EXCEPT ![t] = step] /\ UNCHANGED pc
NextInstruction(t) == at' = [at EXCEPT ![t] = "enter"] /\ pc' = [pc EXCEPT ![t] = @ + 1]

\* Not the kernel of interest: the handler returns at once.
SkipHandler(t) ==
    /\ Running(t, "enter") /\ ~areParamsReady
    /\ NextInstruction(t)
    /\ UNCHANGED <<hostVars, injInfo, injCounterAllInsts, curr, aborted, output>>

\* Mutant: the counter is tested with >= where the code compares for equality.
CountCallAtLeast(t) ==
    /\ Running(t, "enter") /\ areParamsReady
    /\ injCounterAllInsts' = injCounterAllInsts + 1
    /\ curr' = [curr EXCEPT ![t] = injCounterAllInsts + 1]
    /\ GoTo(t, IF curr'[t] >= site.iid THEN "select" ELSE "check")
    /\ UNCHANGED <<hostVars, injInfo, aborted, output>>

\* atomicAdd(&injCounterAllInsts, 1) + 1, compared with injInstID.
CountCall(t) ==
    /\ Running(t, "enter") /\ areParamsReady
    /\ injCounterAllInsts' = injCounterAllInsts + 1
    /\ curr' = [curr EXCEPT ![t] = injCounterAllInsts + 1]
    /\ GoTo(t, IF curr'[t] = site.iid THEN "select" ELSE "check")
    /\ UNCHANGED <<hostVars, injInfo, aborted, output>>

\* inj_info.injThreadID = get_flat_tid()
SelectThread(t) ==
    /\ Running(t, "select")
    /\ injThreadID' = t
    /\ GoTo(t, "arm")
    /\ UNCHANGED <<hostVars, readyToInject, errorInjected, writeBeforeRead, injCounterAllInsts,
                   curr, aborted, output>>

\* inj_info.readyToInject = true
Arm(t) ==
    /\ Running(t, "arm")
    /\ readyToInject' = TRUE
    /\ selections' = selections \cup {Here(t)}
    /\ GoTo(t, "check")
    /\ UNCHANGED <<hostVars, injThreadID, errorInjected, writeBeforeRead, injCounterAllInsts,
                   curr, aborted, injections, verdict>>

Instruction(t) == Code(t)[pc[t]]

\* Mutant: the error is injected at every read.
MayInjectAgain(t) == Instruction(t).exec /\ readyToInject /\ injThreadID = t

\* The condition under which the selected register is looked for.
MayInject(t) == Instruction(t).exec /\ readyToInject /\ injThreadID = t /\ ~errorInjected

\* Mutant: the register is looked for among the destinations first.
ReadsRegUnlessWritten(t) == site.reg \in Instruction(t).src \ Instruction(t).dst

\* is_src_reg(rp, injOpSeed) != -1
ReadsReg(t) == site.reg \in Instruction(t).src

\* else is_dest_reg(rp, injOpSeed) != -1
OnlyWritesReg(t) == ~ReadsReg(t) /\ site.reg \in Instruction(t).dst

\* Neither side of the test: the instruction executes.
PassCheck(t) ==
    /\ Running(t, "check") /\ ~(MayInject(t) /\ (ReadsReg(t) \/ OnlyWritesReg(t)))
    /\ NextInstruction(t)
    /\ UNCHANGED <<hostVars, injInfo, injCounterAllInsts, curr, aborted, output>>

\* The register is about to be read: inject_GPR_error.
InjectRead(t) ==
    /\ Running(t, "check") /\ MayInject(t) /\ ReadsReg(t)
    /\ errorInjected' = TRUE
    /\ injections' = injections \cup {Here(t)}
    /\ NextInstruction(t)
    /\ UNCHANGED <<hostVars, readyToInject, injThreadID, writeBeforeRead, injCounterAllInsts,
                   curr, aborted, selections, verdict>>

\* The register is about to be overwritten: record it and trap.
MarkWritten(t) ==
    /\ Running(t, "check") /\ MayInject(t) /\ OnlyWritesReg(t)
    /\ writeBeforeRead' = TRUE
    /\ GoTo(t, "trap")
    /\ UNCHANGED <<hostVars, readyToInject, injThreadID, errorInjected, injCounterAllInsts,
                   curr, aborted, output>>

\* asm("trap;") kills the whole grid.
Trap(t) ==
    /\ Running(t, "trap")
    /\ aborted' = TRUE
    /\ UNCHANGED <<hostVars, injInfo, injCounterAllInsts, threadVars, output>>

\* The device kills a kernel that runs with the injected error.
DeviceFault ==
    /\ phase = "kernel" /\ ~aborted /\ errorInjected /\ areParamsReady
    /\ aborted' = TRUE
    /\ UNCHANGED <<hostVars, injInfo, injCounterAllInsts, threadVars, output>>

Handler(t) ==
    \/ SkipHandler(t) \/ CountCall(t) \/ SelectThread(t) \/ Arm(t)
    \/ PassCheck(t) \/ InjectRead(t) \/ MarkWritten(t) \/ Trap(t)

Terminated == phase = "exited" /\ UNCHANGED vars

Next ==
    \/ LaunchKernel \/ ExitKernel \/ Reset \/ Exit \/ DeviceFault \/ Terminated
    \/ \E t \in Threads : Handler(t)

Spec == Init /\ [][Next]_vars

\* The device schedules every thread of a running grid and the host thread
\* returns from its calls. Nothing is promised of a program once it holds an
\* error: it may loop for ever.
FairSpec == Spec /\ WF_vars(Next /\ ~errorInjected)
-----------------------------------------------------------------------------
(* Properties.                                                             *)

InstructionAt(d) == app[d.launch].grid[d.tid][d.pc]

\* The executed instructions that access the chosen register in the thread of
\* dynamic instruction d, from d on.
AccessesFrom(d) ==
    {p \in d.pc..Len(app[d.launch].grid[d.tid]) :
        LET ins == app[d.launch].grid[d.tid][p]
        IN  ins.exec /\ site.reg \in ins.src \cup ins.dst}

\* One dynamic instruction of one thread is selected, whichever way the handlers
\* of the threads interleave around the counter and across all launches.
AtMostOneSelection == \A d, e \in selections : d = e

\* A run has one outcome: at most one error is injected, and it is never also
\* reported as masked by a write or by the absence of a read.
OneOutcome ==
    /\ \A d, e \in injections : d = e
    /\ injections # {} => verdict = "none"
    /\ ~(errorInjected /\ writeBeforeRead)

\* The outcome is the truth about the program: the error enters at the first
\* access to the register from the selected instruction on, if that access
\* reads it; "written before read" means that this first access only writes it;
\* "never read" means that there is no access at all.
OutcomeIsFirstAccess ==
    /\ verdict # "none" \/ injections # {} => selections # {}
    /\ \A d \in selections :
        /\ verdict = "notread" => AccessesFrom(d) = {}
        /\ verdict = "written" =>
              \E p \in AccessesFrom(d) :
                 /\ \A q \in AccessesFrom(d) : p <= q
                 /\ site.reg \notin app[d.launch].grid[d.tid][p].src
        /\ \A e \in injections :
              /\ e.launch = d.launch /\ e.tid = d.tid
              /\ e.pc \in AccessesFrom(d) /\ \A q \in AccessesFrom(d) : e.pc <= q
              /\ site.reg \in InstructionAt(e).src

\* The calls of the handler in launch i: one per thread and instruction.
CallsIn(i) == UNION {{t} \X DOMAIN app[i].grid[t] : t \in Threads}

\* The site lies inside the launch it names, counting calls from one as
\* CountCall does.
SiteInRange ==
    \E i \in 1..Len(app) : IsNamedLaunch(i) /\ site.iid \in 1..Cardinality(CallsIn(i))

\* A site in range is selected and decided: the error is injected or the run
\* exits with one of the two masked verdicts.
SiteInRangeIsDecided == SiteInRange => <>(injections # {} \/ verdict # "none")
=============================================================================
