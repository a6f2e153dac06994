----------------------------- MODULE InjectionJob -----------------------------
(***************************************************************************)
(* scripts/run_one_injection.py: a job creates the parameter file, starts  *)
(* the injection run in a process group of its own, polls it until it ends *)
(* or the threshold has passed, classifies what it left behind and appends *)
(* a row to the results. Jobs run in parallel, one per GPU; they share the *)
(* kernel log that dmesg prints.                                           *)
(*                                                                         *)
(* The time left, to_th, is a float in the code; here it is a number of    *)
(* PollUnits-ths of a poll, so that it need not be a whole number of polls. *)
(* The jobs that run at a time are of one application: one threshold.      *)
(***************************************************************************)
EXTENDS Integers, FiniteSets, Sequences

CONSTANTS Jobs,
          Outcomes,    \* per job: what its injection run may do
          Thresholds,  \* tt / factor, in units of 1 / PollUnits
          PollUnits,
          LogLines     \* the Xids that the kernel log holds before it drops the oldest

\* Where the run's output is the same as the golden one and where it differs.
Logs == {"output", "stdout", "stderr"}

\* What a run does: whether it ends by itself, its exit code, what it prints, the
\* logs in which sdc_check.sh finds a difference (if it has written them),
\* special_check.log, and whether the GPU driver logs an Xid.
RunKinds == [ends : BOOLEAN, code : {0, 1}, line : {"written", "notread", "skipped", "injecting", "none"},
             message : BOOLEAN, kernelError : BOOLEAN, diff : SUBSET Logs,
             compared : BOOLEAN,
             special : {"absent", "empty", "full"}, xid : BOOLEAN]

ASSUME OutcomesAssumption == \A j \in Jobs : Outcomes[j] \subseteq RunKinds
ASSUME LogLinesAssumption == LogLines \in Nat \ {0}
ASSUME ThresholdsAssumption == PollUnits \in Nat \ {0} /\ Thresholds \subseteq Nat \ {0}

VARIABLES outcome,  \* per job: what its run will do
          job,      \* per job: where it is
          left,     \* per job: to_th
          before,   \* per job: length of dmesg when the run was started
          heard,    \* per job: "Xid" in dmesg_delta
          retcode,  \* per job
          proc,     \* per job: the process of the run
          logged,   \* per job: whether its run has caused an Xid, and if so whether
                    \* that was before the job read dmesg the second time
          dmesg,    \* the kernel log: which job's run each Xid is of
          results   \* the rows: <<job, category>>

vars == <<outcome, job, left, before, heard, retcode, proc, logged, dmesg, results>>

NoCode == -1  \* None
Codes == {NoCode, 0, 1}

Categories == {"MASKED_NOT_READ", "MASKED_WRITTEN", "MASKED_OTHER", "TIMEOUT", "NON_ZERO_EC",
    "SDC_KERNEL_ERROR", "STDOUT_ERROR_MESSAGE", "STDERR_ONLY_DIFF", "DMESG_STDERR_ONLY_DIFF",
    "DMESG_STDOUT_ONLY_DIFF", "DMESG_OUT_DIFF", "DMESG_APP_SPECIFIC_CHECK_FAIL",
    "STDOUT_ONLY_DIFF", "OUT_DIFF", "APP_SPECIFIC_CHECK_FAIL", "OTHERS"}

TypeOK ==
    /\ outcome \in [Jobs -> RunKinds]
    /\ job \in [Jobs -> {"start", "poll", "dmesg", "timeout", "classify", "clean", "done", "crashed"}]
    /\ left \in [Jobs -> Int]
    /\ \A j \in Jobs : job[j] # "poll" \/ left[j] > -PollUnits
    /\ before \in [Jobs -> Nat]
    /\ heard \in [Jobs -> BOOLEAN]
    /\ retcode \in [Jobs -> Codes]
    /\ proc \in [Jobs -> {"none", "running", "ended", "killed"}]
    /\ logged \in [Jobs -> {"no", "intime", "late"}]
    /\ dmesg \in Seq(Jobs) /\ Len(dmesg) <= LogLines
    /\ results \subseteq Jobs \X Categories

RunsConsidered == UNION {Outcomes[j] : j \in Jobs}

Init ==
    /\ outcome \in {o \in [Jobs -> RunsConsidered] : \A j \in Jobs : o[j] \in Outcomes[j]}
    /\ job = [j \in Jobs |-> "start"]
    /\ left \in {[j \in Jobs |-> n] : n \in Thresholds}
    /\ before = [j \in Jobs |-> 0]
    /\ heard = [j \in Jobs |-> FALSE]
    /\ retcode = [j \in Jobs |-> NoCode]
    /\ proc = [j \in Jobs |-> "none"]
    /\ logged = [j \in Jobs |-> "no"]
    /\ dmesg = <<>>
    /\ results = {}

GoTo(j, where) == job' = [job EXCEPT ![j] = where]
Record(j, cat) == results' = results \cup {<<j, cat>>}

-----------------------------------------------------------------------------
(* classify_injection. The category KERNEL_ERROR that two branches return  *)
(* is not in common_params.py: reading it raises an AttributeError.        *)

Undefined == "KERNEL_ERROR"

\* A run that printed ":::Injecting", exited with 0 and logged no message.
\* diff.log decides before stdout_diff.log and stderr_diff.log.
ByDifference(r, xid) ==
    LET Kind(dmesgCat, plain) ==
            IF xid THEN dmesgCat ELSE IF r.kernelError THEN "SDC_KERNEL_ERROR" ELSE plain
    IN  CASE ~r.compared -> "OTHERS"
          [] r.compared /\ r.diff = {} ->
                 IF r.kernelError THEN Undefined ELSE "MASKED_OTHER"
          [] r.compared /\ r.diff # {} /\ r.special = "full" ->
                 IF xid THEN "DMESG_APP_SPECIFIC_CHECK_FAIL"
                 ELSE IF r.kernelError THEN Undefined ELSE "APP_SPECIFIC_CHECK_FAIL"
          [] r.compared /\ r.special # "full" /\ "output" \in r.diff -> Kind("DMESG_OUT_DIFF", "OUT_DIFF")
          [] r.compared /\ r.special # "full" /\ r.diff = {"stdout"} ->
                 Kind("DMESG_STDOUT_ONLY_DIFF", "STDOUT_ONLY_DIFF")
          [] r.compared /\ r.special # "full" /\ r.diff = {"stderr"} ->
                 Kind("DMESG_STDERR_ONLY_DIFF", "STDERR_ONLY_DIFF")
          [] OTHER -> "OTHERS"

\* Mutant: the outputs are compared before the messages are looked for.
ClassifyOutputsFirst(r, code, xid) ==
    CASE code # 0 -> "NON_ZERO_EC"
      [] code = 0 /\ r.line = "written" -> "MASKED_WRITTEN"
      [] code = 0 /\ r.line = "notread" -> "MASKED_NOT_READ"
      [] code = 0 /\ r.line \in {"skipped", "none"} -> "OTHERS"
      [] code = 0 /\ r.line = "injecting" /\ r.message /\ ~r.compared -> "STDOUT_ERROR_MESSAGE"
      [] OTHER -> ByDifference(r, xid)

Classify(r, code, xid) ==
    CASE code # 0 -> "NON_ZERO_EC"
      [] code = 0 /\ r.line = "written" -> "MASKED_WRITTEN"
      [] code = 0 /\ r.line = "notread" -> "MASKED_NOT_READ"
      [] code = 0 /\ r.line \in {"skipped", "none"} -> "OTHERS"
      [] code = 0 /\ r.line = "injecting" /\ r.message -> "STDOUT_ERROR_MESSAGE"
      [] OTHER -> ByDifference(r, xid)

-----------------------------------------------------------------------------
(* The job.                                                                *)

\* Read dmesg, then start the run.
Start(j) ==
    /\ job[j] = "start"
    /\ before' = [before EXCEPT ![j] = Len(dmesg)]
    /\ proc' = [proc EXCEPT ![j] = "running"]
    /\ GoTo(j, "poll")
    /\ UNCHANGED <<outcome, left, heard, retcode, logged, dmesg, results>>

\* An iteration of is_timeout's loop that finds the run ended.
SeeEnd(j) ==
    /\ job[j] = "poll" /\ left[j] > 0 /\ proc[j] = "ended"
    /\ retcode' = [retcode EXCEPT ![j] = outcome[j].code]
    /\ GoTo(j, "dmesg")
    /\ UNCHANGED <<outcome, left, before, heard, proc, logged, dmesg, results>>

\* Mutant: a sleep counts as two.
SleepTwice(j) ==
    /\ job[j] = "poll" /\ left[j] > 0 /\ proc[j] = "running"
    /\ left' = [left EXCEPT ![j] = @ - 2 * PollUnits]
    /\ UNCHANGED <<outcome, job, before, heard, retcode, proc, logged, dmesg, results>>

\* An iteration that does not.
Sleep(j) ==
    /\ job[j] = "poll" /\ left[j] > 0 /\ proc[j] = "running"
    /\ left' = [left EXCEPT ![j] = @ - PollUnits]
    /\ UNCHANGED <<outcome, job, before, heard, retcode, proc, logged, dmesg, results>>

\* Mutant: the job gives the run up without killing it.
GiveUpWithoutKill(j) ==
    /\ job[j] = "poll" /\ left[j] <= 0
    /\ GoTo(j, IF left[j] = 0 THEN "timeout" ELSE "dmesg")
    /\ UNCHANGED <<outcome, left, before, heard, retcode, proc, logged, dmesg, results>>

\* Mutant: a run that is left alone is not classified.
GiveUpUnrecorded(j) ==
    /\ job[j] = "poll" /\ left[j] <= 0
    /\ IF left[j] = 0
       THEN proc' = [proc EXCEPT ![j] = "killed"] /\ GoTo(j, "timeout")
       ELSE GoTo(j, "clean") /\ UNCHANGED proc
    /\ UNCHANGED <<outcome, left, before, heard, retcode, logged, dmesg, results>>

\* The loop is over: the process group is killed if to_th is exactly 0, else the
\* run goes on and its return code is None.
GiveUp(j) ==
    /\ job[j] = "poll" /\ left[j] <= 0
    /\ IF left[j] = 0
       THEN proc' = [proc EXCEPT ![j] = "killed"] /\ GoTo(j, "timeout")
       ELSE GoTo(j, "dmesg") /\ UNCHANGED proc
    /\ UNCHANGED <<outcome, left, before, heard, retcode, logged, dmesg, results>>

\* Mutant: the new part of the kernel log is taken from one line too far on.
ReadDmesgLate(j) ==
    /\ job[j] = "dmesg"
    /\ heard' = [heard EXCEPT ![j] = Len(dmesg) > before[j] + 1]
    /\ GoTo(j, "classify")
    /\ UNCHANGED <<outcome, left, before, retcode, proc, logged, dmesg, results>>

\* Mutant: the whole kernel log is searched, not its new part.
ReadWholeDmesg(j) ==
    /\ job[j] = "dmesg"
    /\ heard' = [heard EXCEPT ![j] = dmesg # <<>>]
    /\ GoTo(j, "classify")
    /\ UNCHANGED <<outcome, left, before, retcode, proc, logged, dmesg, results>>

\* dmesg_delta: what dmesg prints beyond the length it had at Start, whoever's it
\* is. When the log has dropped lines, its length says nothing of what is new.
ReadDmesg(j) ==
    /\ job[j] = "dmesg"
    /\ heard' = [heard EXCEPT ![j] = Len(dmesg) > before[j]]
    /\ GoTo(j, "classify")
    /\ UNCHANGED <<outcome, left, before, retcode, proc, logged, dmesg, results>>

\* record_result of a run that was killed.
RecordTimeout(j) ==
    /\ job[j] = "timeout"
    /\ Record(j, "TIMEOUT")
    /\ GoTo(j, "clean")
    /\ UNCHANGED <<outcome, left, before, heard, retcode, proc, logged, dmesg>>

\* classify_injection and record_result. The row is one write at the close of the file,
\* under a file lock where the module lockfile is installed (lines 83-97); rows of
\* different jobs stay whole either way.
ClassifyAndRecord(j) ==
    LET cat == Classify(outcome[j], retcode[j], heard[j]) IN
    /\ job[j] = "classify"
    /\ IF cat = Undefined
       THEN GoTo(j, "crashed") /\ UNCHANGED results
       ELSE GoTo(j, "clean") /\ Record(j, cat)
    /\ UNCHANGED <<outcome, left, before, heard, retcode, proc, logged, dmesg>>

\* Remove new_directory and exit.
CleanUp(j) ==
    /\ job[j] = "clean"
    /\ GoTo(j, "done")
    /\ UNCHANGED <<outcome, left, before, heard, retcode, proc, logged, dmesg, results>>

-----------------------------------------------------------------------------
(* The run.                                                                *)

\* The driver logs an Xid of the run while it runs or, since nothing makes the job
\* wait for the driver, when it has ended or been killed.
CauseXid(j) ==
    /\ proc[j] # "none" /\ outcome[j].xid /\ logged[j] = "no"
    /\ logged' = [logged EXCEPT ![j] = IF job[j] \in {"poll", "dmesg"} THEN "intime" ELSE "late"]
    /\ dmesg' = IF Len(dmesg) < LogLines THEN Append(dmesg, j) ELSE Append(Tail(dmesg), j)
    /\ UNCHANGED <<outcome, job, left, before, heard, retcode, proc, results>>

End(j) ==
    /\ proc[j] = "running" /\ outcome[j].ends
    /\ proc' = [proc EXCEPT ![j] = "ended"]
    /\ UNCHANGED <<outcome, job, left, before, heard, retcode, logged, dmesg, results>>

JobStep(j) ==
    \/ Start(j) \/ SeeEnd(j) \/ Sleep(j) \/ GiveUp(j) \/ ReadDmesg(j)
    \/ RecordTimeout(j) \/ ClassifyAndRecord(j) \/ CleanUp(j)

Over(j) == job[j] \in {"done", "crashed"}

Terminated == (\A j \in Jobs : Over(j)) /\ UNCHANGED vars

Next == Terminated \/ \E j \in Jobs : JobStep(j) \/ CauseXid(j) \/ End(j)

Spec == Init /\ [][Next]_vars

\* The operating system schedules the jobs. A run with an error in it may hang,
\* so nothing is assumed of the runs.
FairSpec == Spec /\ \A j \in Jobs : WF_vars(JobStep(j))
-----------------------------------------------------------------------------
(* Properties.                                                             *)

Masked == {"MASKED_NOT_READ", "MASKED_WRITTEN", "MASKED_OTHER"}
SDC == {"STDOUT_ONLY_DIFF", "OUT_DIFF", "APP_SPECIFIC_CHECK_FAIL"}
DmesgErrors == {"DMESG_STDERR_ONLY_DIFF", "DMESG_STDOUT_ONLY_DIFF", "DMESG_OUT_DIFF",
                "DMESG_APP_SPECIFIC_CHECK_FAIL"}

\* More Xids than the kernel log holds.
Dropped == Cardinality({j \in Jobs : logged[j] # "no"}) > LogLines

\* A silent data corruption is recorded only for a run that showed no symptom:
\* it ended by itself with code 0, no kernel of it failed, it printed no error message,
\* some output of it differs (docs/tex/outcomes.tex), and the kernel log had no Xid of
\* it when the job read it, unless the log has dropped lines. A difference in stderr is
\* a symptom for the code only if no output file differs (line 200).
SdcIsSilent ==
    \A row \in results : row[2] \in SDC =>
        LET r == outcome[row[1]] IN
        /\ proc[row[1]] = "ended" /\ r.code = 0 /\ ~r.kernelError /\ ~r.message
        /\ r.diff # {}
        /\ logged[row[1]] = "intime" => Dropped

\* A masked error is recorded only for a run that ended by itself with code 0. If the
\* error had been injected, the run printed no error message, none of its kernels
\* failed and none of its outputs differs from the golden one: "Application output is
\* same as the error free output. No error symptom is observed" (outcomes.tex:18).
\* Where the register was overwritten or never read, the injector itself says so and
\* ends the program (injector.cu:849-855), in the first case by a trap: the job looks
\* at neither messages nor outputs (lines 166-169), and there is nothing to state of
\* them. Of Xids nothing is stated either: see MaskedShowsNoXid.
MaskedIsClean ==
    \A row \in results : row[2] \in Masked =>
        LET r == outcome[row[1]] IN
        /\ proc[row[1]] = "ended" /\ r.code = 0
        /\ row[2] = "MASKED_WRITTEN" => r.line = "written"
        /\ row[2] = "MASKED_NOT_READ" => r.line = "notread"
        /\ row[2] = "MASKED_OTHER" =>
              r.line = "injecting" /\ ~r.message /\ ~r.kernelError /\ r.diff = {}

\* "No error symptom is observed" (outcomes.tex:18): for an error that was injected and
\* recorded as masked, the kernel log had no Xid of the run when the job read it.
MaskedShowsNoXid == \A row \in results : row[2] = "MASKED_OTHER" => logged[row[1]] # "intime"

\* A row with a dmesg error is about an Xid that is new since its job's start. It is
\* that of the job's own run or, as nothing attributes the lines of the kernel log that
\* parallel jobs share, one of another's: then there are more of those than the log
\* had lines at the start (before is less only if it was full, and then it cannot grow).
DmesgRowHasANewXid ==
    \A row \in results : row[2] \in DmesgErrors =>
        \/ logged[row[1]] = "intime"
        \/ before[row[1]] < Cardinality({j \in Jobs \ {row[1]} : logged[j] # "no"})

\* The comment above is_timeout: "Check for timeout and kill the job if it has
\* passed the threshold". No run outlives its job.
NoRunOutlivesItsJob == \A j \in Jobs : Over(j) => proc[j] # "running"

\* It does not where the threshold is a whole number of polls.
WholePolls(j) == left[j] % PollUnits = 0
WholeThresholdKills == \A j \in Jobs : WholePolls(j) /\ Over(j) => proc[j] # "running"

\* The runs for which classify_injection reads the undefined category: a kernel failed
\* and the outputs agree ("Kernel error, but masked", outcomes.tex:39), or the
\* application's own check speaks.
HasNoCategory(r) ==
    r.line = "injecting" /\ r.kernelError /\ ~r.message /\ (r.diff = {} \/ r.special = "full")

\* An injection is counted once and is not lost: every job that is over has exactly one
\* row, whether its run ended, was killed or was left alone, but for those whose run
\* ended with 0 and has no category.
Recorded(j) ==
    \/ \E row \in results : \A other \in results : other[1] = j <=> other = row
    \/ retcode[j] = 0 /\ HasNoCategory(outcome[j])
EveryJobIsRecorded == \A j \in Jobs : Over(j) => Recorded(j)

\* Every job comes to an end, whatever the runs do: it does not wait for ever for one,
\* and when it ends it has recorded its run. A job whose run has no category has come to
\* its end when it dies in the classification.
JobsEnd == \A j \in Jobs : <>(Over(j) /\ Recorded(j))
=============================================================================
