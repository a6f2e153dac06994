------------------------------- MODULE LogHelper -------------------------------
(***************************************************************************)
(* suites/example/include/log_helper.c, linked into the benchmarks: each   *)
(* run appends its iterations and errors to a log file of its own in a     *)
(* directory that all runs share. The name of the file is the second in    *)
(* which the log was started (host, benchmark and ECC mode are the same).  *)
(* The benchmarks call start_log_file (and ignore what it returns), then   *)
(* start_iteration, end_iteration and log_error_count for each iteration,  *)
(* then end_log_file.                                                      *)
(***************************************************************************)
EXTENDS Integers, Sequences, FiniteSets

CONSTANTS Runs,
          Iterations,        \* per run: of the benchmark it executes
          MaxErrorsPerIter,  \* max_errors_per_iter
          ErrorCounts,       \* the counts considered for an iteration
          MaxClock           \* bound of the clock

NoRun == <<>>           \* whose lines are in the log of a run without errors

ASSUME CountsAssumption ==
    /\ ErrorCounts \subseteq Nat /\ MaxErrorsPerIter \in Nat /\ Iterations \in [Runs -> Nat]
    /\ MaxClock \in Nat \ {0} /\ NoRun \notin Runs

VARIABLES clock,     \* seconds
          at,        \* per run: where it is
          name,      \* per run: full_log_file_name
          own,       \* per run: it created the file of that name (history)
          logs,      \* per name: the kinds of lines in it, each with its run
          newest,    \* the log modified last
          iteration_number, last_iter_errors, last_iter_with_errors,  \* per run
          errs       \* per run: the error count of each iteration (history)

counterVars == <<iteration_number, last_iter_errors, last_iter_with_errors, errs>>
logVars == <<clock, at, name, own, logs, newest, counterVars>>

Names == 0..MaxClock
NoName == -1
Earlier == 0            \* the log of a run without errors (golden, profiling)
Words == {"HEADER", "IT", "SDC", "ABORT", "END"}

LogTypeOK ==
    /\ clock \in Names
    /\ at \in [Runs -> {"idle", "stat", "create", "iterate", "count", "end", "over"}]
    /\ name \in [Runs -> Names \cup {NoName}]
    /\ own \in [Runs -> BOOLEAN]
    /\ logs \in [Names -> SUBSET (Words \X (Runs \cup {NoRun}))]
    /\ newest \in Names \cup {NoName}
    /\ iteration_number \in [Runs -> Nat] /\ last_iter_with_errors \in [Runs -> Nat]
    /\ \A r \in Runs : iteration_number[r] <= Iterations[r] /\ last_iter_with_errors[r] <= Iterations[r]
    /\ last_iter_errors \in [Runs -> Nat]
    /\ errs \in [Runs -> Seq(ErrorCounts)]

LogInit ==
    /\ clock = 1
    /\ at = [r \in Runs |-> "idle"]
    /\ name = [r \in Runs |-> NoName]
    /\ own = [r \in Runs |-> FALSE]
    /\ newest \in {NoName, Earlier}
    /\ logs = [n \in Names |-> IF n = newest THEN {"HEADER", "IT", "END"} \X {NoRun} ELSE {}]
    /\ iteration_number = [r \in Runs |-> 0]
    /\ last_iter_errors = [r \in Runs |-> 0]
    /\ last_iter_with_errors = [r \in Runs |-> 0]
    /\ errs = [r \in Runs |-> <<>>]

GoTo(r, where) == at' = [at EXCEPT ![r] = where]
Alive(r) == at[r] \notin {"idle", "over"}

\* fopen(full_log_file_name, "a")
Write(r, words) ==
    /\ logs' = [logs EXCEPT ![name[r]] = @ \cup (words \X {r})]
    /\ newest' = name[r]

Tick == clock < MaxClock /\ clock' = clock + 1 /\ UNCHANGED <<at, name, own, logs, newest, counterVars>>

\* start_log_file up to stat. When the file exists it returns 1, but the name is
\* set, and the run appends to the file of another run.
StatLog(r) ==
    /\ at[r] = "stat"
    /\ name' = [name EXCEPT ![r] = clock]
    /\ GoTo(r, IF logs[clock] = {} THEN "create" ELSE "iterate")
    /\ UNCHANGED <<clock, own, logs, newest, counterVars>>

\* The rest of it; another run may have created the file in between.
CreateLog(r) ==
    /\ at[r] = "create"
    /\ own' = [own EXCEPT ![r] = logs[name[r]] = {}]
    /\ Write(r, {"HEADER"})
    /\ iteration_number' = [iteration_number EXCEPT ![r] = 0]
    /\ GoTo(r, "iterate")
    /\ UNCHANGED <<clock, name, last_iter_errors, last_iter_with_errors, errs>>

\* start_iteration, the kernel, and end_iteration.
EndIteration(r) ==
    /\ at[r] = "iterate" /\ iteration_number[r] < Iterations[r]
    /\ iteration_number' = [iteration_number EXCEPT ![r] = @ + 1]
    /\ Write(r, {"IT"})
    /\ GoTo(r, "count")
    /\ UNCHANGED <<clock, name, own, last_iter_errors, last_iter_with_errors, errs>>

\* Mutant: it is not asked when the last error was.
RepeatsEver(r, n) == n = last_iter_errors[r]

Repeats(r, n) == n = last_iter_errors[r] /\ last_iter_with_errors[r] + 1 = iteration_number[r]

\* log_error_count, as far as exit(1) when there are too many errors, or as many as
\* in the iteration before: in the build without ERR_INJ, which no makefile of the
\* repository defines (with it, line 503 logs that there are too many and goes on).
CountErrors(r) ==
    /\ at[r] = "count"
    /\ \E n \in ErrorCounts :
          LET aborts == n > 0 /\ (n > MaxErrorsPerIter \/ Repeats(r, n)) IN
          /\ errs' = [errs EXCEPT ![r] = Append(@, n)]
          /\ IF n = 0 THEN UNCHANGED <<logs, newest>>
             ELSE Write(r, IF aborts THEN {"SDC", "ABORT"} ELSE {"SDC"})
          /\ IF n = 0 \/ aborts THEN UNCHANGED <<last_iter_errors, last_iter_with_errors>>
             ELSE /\ last_iter_errors' = [last_iter_errors EXCEPT ![r] = n]
                  /\ last_iter_with_errors' = [last_iter_with_errors EXCEPT ![r] = iteration_number[r]]
          /\ GoTo(r, IF aborts THEN "end" ELSE "iterate")
    /\ UNCHANGED <<clock, name, own, iteration_number>>

\* end_log_file, called by the benchmark or before exit(1).
EndLog(r) ==
    /\ at[r] = "end" \/ (at[r] = "iterate" /\ iteration_number[r] = Iterations[r])
    /\ Write(r, {"END"})
    /\ iteration_number' = [iteration_number EXCEPT ![r] = 0]
    /\ GoTo(r, "over")
    /\ UNCHANGED <<clock, name, own, last_iter_errors, last_iter_with_errors, errs>>

\* The injected error ends the run.
Crash(r) ==
    /\ Alive(r)
    /\ GoTo(r, "over")
    /\ UNCHANGED <<clock, name, own, logs, newest, counterVars>>

LogStep(r) == StatLog(r) \/ CreateLog(r) \/ EndIteration(r) \/ CountErrors(r) \/ EndLog(r) \/ Crash(r)

\* What run r has written, in whichever file.
Logged(r, word) == \E n \in Names : <<word, r>> \in logs[n]

\* A run is aborted exactly when an iteration had too many errors or two
\* iterations in a row had the same number of them, not if iterations without an
\* error, or none at all, lie between them.
AbortMeansRepeat ==
    \A r \in Runs :
        Logged(r, "ABORT") <=>
            \E i \in DOMAIN errs[r] :
                errs[r][i] > MaxErrorsPerIter \/ (i > 1 /\ errs[r][i] > 0 /\ errs[r][i] = errs[r][i - 1])
=============================================================================
