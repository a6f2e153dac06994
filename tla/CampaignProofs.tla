----------------------------- MODULE CampaignProofs -----------------------------
(***************************************************************************)
(* Proofs about the injection campaign and the logs of its runs, for any   *)
(* lists, any number of GPUs and any benchmarks: a run is aborted exactly  *)
(* when it repeats an error count or has too many errors, no GPU is given  *)
(* two jobs at a time, on one GPU a row is about its run, every usable     *)
(* line has its row, and only the last incomplete batch is not launched.   *)
(***************************************************************************)
EXTENDS Campaign, TLAPS

-----------------------------------------------------------------------------
(* The inductive invariant.                                                *)

\* The line submitted last, as a run.
Current == <<list, total_jobs>>

Counting == {"iterate", "count"}
Starting == {"idle", "stat", "create"}

\* A run that writes has the name of a log, and so has one that created it.
NameInv ==
    /\ \A r \in Runs : at[r] \in {"create", "end"} \cup Counting => name[r] \in Names
    /\ \A r \in Runs : own[r] => at[r] \notin Starting /\ name[r] \in Names

\* Where main is: a line has been submitted before it waits, lists and reads; jobs
\* run only while it waits, and a full batch is launched at once.
PlaceInv ==
    /\ stage \in {"wait", "list", "read"} =>
           list \in DOMAIN campaign.lists /\ total_jobs \in DOMAIN campaign.lists[list]
    /\ stage # "wait" => batch = {}
    /\ stage = "read" => out \in Names
    /\ Len(jobs_list) < NUM_GPUS

\* No run of a line that has not been taken has begun or been collected.
AheadInv ==
    \A l \in DOMAIN campaign.lists : \A i \in DOMAIN campaign.lists[l] :
        list < l \/ (list = l /\ total_jobs < i) =>
            at[<<l, i>>] = "idle" /\ <<l, i>> \notin ToSet(jobs_list)

\* The collected runs are distinct and have not begun; those of a batch have.
JobsInv ==
    /\ \A r \in batch : at[r] # "idle"
    /\ \A d \in DOMAIN jobs_list : at[jobs_list[d]] = "idle"
    /\ \A c, d \in DOMAIN jobs_list : jobs_list[c] = jobs_list[d] => c = d

\* A run's lines are in the file it names.
LinesInv ==
    \A r \in Runs, n \in Names, w \in Words :
        <<w, r>> \in logs[n] => at[r] \notin Starting /\ n = name[r]

\* The counts for which a run is aborted.
Offends(e) ==
    \E i \in DOMAIN e : e[i] > MaxErrorsPerIter \/ (i > 1 /\ e[i] > 0 /\ e[i] = e[i - 1])

\* last_iter_with_errors is the last iteration with errors, last_iter_errors their
\* number.
LastErrors(r) ==
    /\ last_iter_with_errors[r] \in 0..Len(errs[r])
    /\ IF last_iter_with_errors[r] = 0 THEN last_iter_errors[r] = 0
       ELSE last_iter_errors[r] = errs[r][last_iter_with_errors[r]]
    /\ \A i \in DOMAIN errs[r] : i > last_iter_with_errors[r] => errs[r][i] = 0

\* The counts of a run go with where it is in its iterations, and it is ended
\* early only by an abort.
CountInv(r) ==
    /\ at[r] \in Starting => errs[r] = <<>> /\ iteration_number[r] = 0
    /\ at[r] \in Starting \cup Counting =>
           LastErrors(r) /\ ~Offends(errs[r]) /\ ~Logged(r, "ABORT")
    /\ at[r] = "iterate" => iteration_number[r] = Len(errs[r])
    /\ at[r] = "count" => iteration_number[r] = Len(errs[r]) + 1
    /\ at[r] = "end" => Offends(errs[r]) /\ Logged(r, "ABORT")
    /\ Offends(errs[r]) <=> Logged(r, "ABORT")

\* On one GPU, as long as no run has been left alone: only the run submitted last is
\* alive, and only while main waits; a log that it created is the newest and all of
\* it is its own; the runs of the rows are over.
AloneInv ==
    campaign.where = "standalone" /\ abandoned = {} =>
        /\ \A r \in Runs : Alive(r) => stage = "wait" /\ r = Current /\ r \in batch
        /\ batch \subseteq {Current}
        /\ stage \in {"wait", "list", "read"} /\ own[Current] =>
               newest = name[Current] /\ \A line \in logs[newest] : line[2] = Current
        /\ stage \in {"wait", "list", "read"} => at[Current] # "idle"
        /\ stage = "read" => out = newest
        /\ \A i \in DOMAIN rows : at[rows[i].run] = "over"

IInv ==
    /\ TypeOK /\ NameInv /\ PlaceInv
    /\ AheadInv /\ JobsInv /\ OneJobPerDevice
    /\ LinesInv /\ \A r \in Runs : CountInv(r)
    /\ AloneInv /\ RowIsOfItsRun

-----------------------------------------------------------------------------
(* Runs, lines and names.                                                  *)

LEMMA CampaignLists ==
    ASSUME campaign \in Campaigns
    PROVE  /\ campaign.where \in {"standalone", "multigpu"}
           /\ campaign.lists \in Seq(Seq({"usable", "short"}))
           /\ Len(campaign.lists) \in Nat /\ DOMAIN campaign.lists = 1..Len(campaign.lists)
           /\ \A l \in DOMAIN campaign.lists :
                  /\ campaign.lists[l] \in Seq({"usable", "short"})
                  /\ Len(campaign.lists[l]) \in Nat
                  /\ DOMAIN campaign.lists[l] = 1..Len(campaign.lists[l])
                  /\ \A i \in DOMAIN campaign.lists[l] : <<l, i>> \in Runs
<1>1. campaign \in Kinds
  BY CampaignsAssumption
<1>2. campaign.where \in {"standalone", "multigpu"} /\ campaign.lists \in Seq(Seq({"usable", "short"}))
  BY <1>1 DEF Kinds
<1>3. \A l \in DOMAIN campaign.lists : campaign.lists[l] \in Seq({"usable", "short"})
  BY <1>2
<1>4. QED
  BY <1>2, <1>3, CampaignsAssumption

\* The line that main takes next is a run of its list.
LEMMA LineIsRun ==
    ASSUME TypeOK, HasLine
    PROVE  /\ list \in DOMAIN campaign.lists /\ total_jobs + 1 \in DOMAIN campaign.lists[list]
           /\ Line \in Runs /\ total_jobs + 1 \in 0..THRESHOLD_JOBS
<1>1. /\ campaign \in Campaigns /\ list \in 1..(Len(campaign.lists) + 1)
      /\ total_jobs \in 0..THRESHOLD_JOBS
  BY DEF TypeOK
<1>2. /\ list <= Len(campaign.lists) /\ total_jobs < Len(campaign.lists[list])
      /\ total_jobs < THRESHOLD_JOBS
  BY DEF HasLine, Lines
<1>3. list \in DOMAIN campaign.lists
  BY <1>1, <1>2, CampaignLists
<1>4. total_jobs + 1 \in DOMAIN campaign.lists[list]
  BY <1>1, <1>2, <1>3, CampaignLists
<1>5. QED
  BY <1>1, <1>2, <1>3, <1>4, CampaignLists, CampaignsAssumption DEF Line

LEMMA CurrentIsRun ==
    ASSUME TypeOK, PlaceInv, stage \in {"wait", "list", "read"}
    PROVE  Current \in Runs
  BY CampaignLists DEF TypeOK, PlaceInv, Current

\* What appending a line to a log does.
LEMMA WriteLines ==
    ASSUME LogTypeOK, NEW r \in Runs, NEW words \in SUBSET Words, name[r] \in Names, Write(r, words)
    PROVE  /\ logs' \in [Names -> SUBSET (Words \X (Runs \cup {NoRun}))]
           /\ newest' \in Names /\ newest' = name[r]
           /\ \A n \in Names : n # name[r] => logs'[n] = logs[n]
           /\ logs'[name[r]] = logs[name[r]] \cup (words \X {r})
<1>1. logs \in [Names -> SUBSET (Words \X (Runs \cup {NoRun}))]
  BY DEF LogTypeOK
<1>2. logs' = [logs EXCEPT ![name[r]] = @ \cup (words \X {r})] /\ newest' = name[r]
  BY DEF Write
<1>3. words \X {r} \in SUBSET (Words \X (Runs \cup {NoRun}))
  OBVIOUS
<1>4. QED
  BY <1>1, <1>2, <1>3

-----------------------------------------------------------------------------
(* Types.                                                                  *)

LEMMA InitTypes ==
    Init => TypeOK /\ NameInv /\ PlaceInv
<1> SUFFICES ASSUME Init PROVE TypeOK /\ NameInv /\ PlaceInv
  OBVIOUS
<1>1. LogTypeOK
  <2>1. 0 \in Names /\ 1 \in Names
    BY CountsAssumption DEF Names
  <2>2. logs \in [Names -> SUBSET (Words \X (Runs \cup {NoRun}))]
    BY DEF Init, LogInit, Words
  <2>3. QED
    BY <2>1, <2>2, CountsAssumption DEF Init, LogInit, LogTypeOK, Earlier
<1>2. campaign \in Campaigns /\ list \in 1..(Len(campaign.lists) + 1)
  BY CampaignLists DEF Init
<1>3. Len(jobs_list) < NUM_GPUS /\ jobs_list \in Seq(Runs)
  BY CampaignsAssumption DEF Init
<1>4. TypeOK
  BY <1>1, <1>2, <1>3, CampaignsAssumption DEF Init, TypeOK, NoDevice
<1>5. QED
  BY <1>3, <1>4 DEF Init, LogInit, NameInv, PlaceInv, Counting

LEMMA IterationTypes ==
    ASSUME LogTypeOK, NEW r \in Runs, NEW k \in Nat, k <= Iterations[r],
           iteration_number' = [iteration_number EXCEPT ![r] = k],
           last_iter_with_errors' = last_iter_with_errors
    PROVE  /\ iteration_number' \in [Runs -> Nat] /\ last_iter_with_errors' \in [Runs -> Nat]
           /\ \A q \in Runs : iteration_number'[q] <= Iterations[q] /\ last_iter_with_errors'[q] <= Iterations[q]
<1>1. iteration_number \in [Runs -> Nat] /\ last_iter_with_errors \in [Runs -> Nat]
  BY DEF LogTypeOK
<1>2. \A q \in Runs : iteration_number[q] <= Iterations[q] /\ last_iter_with_errors[q] <= Iterations[q]
  BY DEF LogTypeOK
<1>3. iteration_number' \in [Runs -> Nat]
  BY <1>1
<1>4. \A q \in Runs : iteration_number'[q] = IF q = r THEN k ELSE iteration_number[q]
  BY <1>1
<1>5. QED
  BY <1>1, <1>2, <1>3, <1>4

\* The steps of the runs keep the types of the logs.
LEMMA LogStepTypes ==
    ASSUME LogTypeOK, NameInv, NEW r \in Runs, LogStep(r)
    PROVE  LogTypeOK' /\ NameInv'
<1> USE DEF Counting, Starting
<1>1. CASE StatLog(r)
  <2>1. at' \in [Runs -> {"idle", "stat", "create", "iterate", "count", "end", "over"}]
    BY <1>1 DEF StatLog, GoTo, LogTypeOK
  <2>2. name' \in [Runs -> Names \cup {NoName}]
    BY <1>1 DEF StatLog, LogTypeOK
  <2>3. LogTypeOK'
    BY <1>1, <2>1, <2>2 DEF StatLog, LogTypeOK, counterVars
  <2>4. QED
    BY <1>1, <2>3 DEF StatLog, GoTo, LogTypeOK, NameInv
<1>2. CASE CreateLog(r)
  <2>1. name[r] \in Names
    BY <1>2 DEF CreateLog, NameInv
  <2>2. logs' \in [Names -> SUBSET (Words \X (Runs \cup {NoRun}))] /\ newest' \in Names
    BY <1>2, <2>1, WriteLines DEF CreateLog, Words
  <2>3. at' = [at EXCEPT ![r] = "iterate"] /\ own' = [own EXCEPT ![r] = logs[name[r]] = {}]
    BY <1>2 DEF CreateLog, GoTo
  <2>4. /\ iteration_number' \in [Runs -> Nat] /\ last_iter_with_errors' \in [Runs -> Nat]
         /\ \A q \in Runs : iteration_number'[q] <= Iterations[q] /\ last_iter_with_errors'[q] <= Iterations[q]
    <3>1. 0 \in Nat /\ 0 <= Iterations[r]
      BY CountsAssumption
    <3>2. /\ iteration_number' = [iteration_number EXCEPT ![r] = 0]
          /\ last_iter_with_errors' = last_iter_with_errors
      BY <1>2 DEF CreateLog
    <3>3. QED
      BY <3>1, <3>2, IterationTypes
  <2>5. own' \in [Runs -> BOOLEAN]
    BY <2>3 DEF LogTypeOK
  <2>6. at' \in [Runs -> {"idle", "stat", "create", "iterate", "count", "end", "over"}]
    BY <2>3 DEF LogTypeOK
  <2>7. LogTypeOK'
    BY <1>2, <2>2, <2>4, <2>5, <2>6 DEF CreateLog, LogTypeOK
  <2>8. QED
    BY <1>2, <2>1, <2>3, <2>7 DEF CreateLog, LogTypeOK, NameInv
<1>3. CASE EndIteration(r)
  <2>1. name[r] \in Names
    BY <1>3 DEF EndIteration, NameInv
  <2>2. logs' \in [Names -> SUBSET (Words \X (Runs \cup {NoRun}))] /\ newest' \in Names
    BY <1>3, <2>1, WriteLines DEF EndIteration, Words
  <2>3. at' = [at EXCEPT ![r] = "count"]
    BY <1>3 DEF EndIteration, GoTo
  <2>4. /\ iteration_number' \in [Runs -> Nat] /\ last_iter_with_errors' \in [Runs -> Nat]
         /\ \A q \in Runs : iteration_number'[q] <= Iterations[q] /\ last_iter_with_errors'[q] <= Iterations[q]
    <3>1. iteration_number[r] \in Nat /\ Iterations[r] \in Nat
      BY CountsAssumption DEF LogTypeOK
    <3>2. iteration_number[r] + 1 \in Nat /\ iteration_number[r] + 1 <= Iterations[r]
      BY <1>3, <3>1 DEF EndIteration
    <3>3. QED
      BY <1>3, <3>2, IterationTypes DEF EndIteration
  <2>5. LogTypeOK'
    BY <1>3, <2>2, <2>3, <2>4 DEF EndIteration, LogTypeOK
  <2>6. QED
    BY <1>3, <2>1, <2>3, <2>5 DEF EndIteration, LogTypeOK, NameInv
<1>4. CASE CountErrors(r)
  <2>1. name[r] \in Names /\ at[r] = "count"
    BY <1>4 DEF CountErrors, NameInv
  <2>2. PICK n \in ErrorCounts :
          LET aborts == n > 0 /\ (n > MaxErrorsPerIter \/ Repeats(r, n)) IN
          /\ errs' = [errs EXCEPT ![r] = Append(@, n)]
          /\ IF n = 0 THEN UNCHANGED <<logs, newest>>
             ELSE Write(r, IF aborts THEN {"SDC", "ABORT"} ELSE {"SDC"})
          /\ IF n = 0 \/ aborts THEN UNCHANGED <<last_iter_errors, last_iter_with_errors>>
             ELSE /\ last_iter_errors' = [last_iter_errors EXCEPT ![r] = n]
                  /\ last_iter_with_errors' = [last_iter_with_errors EXCEPT ![r] = iteration_number[r]]
          /\ GoTo(r, IF aborts THEN "end" ELSE "iterate")
    BY <1>4 DEF CountErrors
  <2>3. UNCHANGED <<clock, name, own, iteration_number>>
    BY <1>4 DEF CountErrors
  <2>4. logs' \in [Names -> SUBSET (Words \X (Runs \cup {NoRun}))] /\ newest' \in Names \cup {NoName}
    <3>1. CASE n = 0
      BY <2>2, <3>1 DEF LogTypeOK
    <3>2. CASE n # 0
      <4>1. PICK words \in SUBSET Words : Write(r, words)
        BY <2>2, <3>2 DEF Words
      <4>2. QED
        BY <2>1, <4>1, WriteLines
    <3>3. QED
      BY <3>1, <3>2
  <2>5. at' = [at EXCEPT ![r] = "end"] \/ at' = [at EXCEPT ![r] = "iterate"]
    BY <2>2 DEF GoTo
  <2>6. /\ iteration_number' \in [Runs -> Nat] /\ last_iter_with_errors' \in [Runs -> Nat]
         /\ \A q \in Runs : iteration_number'[q] <= Iterations[q] /\ last_iter_with_errors'[q] <= Iterations[q]
    BY <2>2, <2>3, CountsAssumption DEF LogTypeOK
  <2>7. last_iter_errors' \in [Runs -> Nat]
    BY <2>2, <2>3, CountsAssumption DEF LogTypeOK
  <2>8. errs' \in [Runs -> Seq(ErrorCounts)]
    <3>1. errs[r] \in Seq(ErrorCounts)
      BY DEF LogTypeOK
    <3>2. Append(errs[r], n) \in Seq(ErrorCounts)
      BY <3>1
    <3>3. QED
      BY <2>2, <3>2 DEF LogTypeOK
  <2>9. at' \in [Runs -> {"idle", "stat", "create", "iterate", "count", "end", "over"}]
    BY <2>5 DEF LogTypeOK
  <2>10. LogTypeOK'
    BY <2>3, <2>4, <2>6, <2>7, <2>8, <2>9 DEF LogTypeOK
  <2>11. QED
    BY <2>1, <2>3, <2>5, <2>10 DEF LogTypeOK, NameInv
<1>5. CASE EndLog(r)
  <2>1. name[r] \in Names
    BY <1>5 DEF EndLog, NameInv
  <2>2. logs' \in [Names -> SUBSET (Words \X (Runs \cup {NoRun}))] /\ newest' \in Names
    BY <1>5, <2>1, WriteLines DEF EndLog, Words
  <2>3. at' = [at EXCEPT ![r] = "over"]
    BY <1>5 DEF EndLog, GoTo
  <2>4. /\ iteration_number' \in [Runs -> Nat] /\ last_iter_with_errors' \in [Runs -> Nat]
         /\ \A q \in Runs : iteration_number'[q] <= Iterations[q] /\ last_iter_with_errors'[q] <= Iterations[q]
    <3>1. 0 \in Nat /\ 0 <= Iterations[r]
      BY CountsAssumption
    <3>2. /\ iteration_number' = [iteration_number EXCEPT ![r] = 0]
          /\ last_iter_with_errors' = last_iter_with_errors
      BY <1>5 DEF EndLog
    <3>3. QED
      BY <3>1, <3>2, IterationTypes
  <2>5. LogTypeOK'
    BY <1>5, <2>2, <2>3, <2>4 DEF EndLog, LogTypeOK
  <2>6. QED
    BY <1>5, <2>1, <2>3, <2>5 DEF EndLog, LogTypeOK, NameInv
<1>6. CASE Crash(r)
  <2>1. LogTypeOK'
    BY <1>6 DEF Crash, GoTo, LogTypeOK, counterVars
  <2>2. QED
    BY <1>6, <2>1 DEF Crash, GoTo, LogTypeOK, NameInv
<1>7. QED
  BY <1>1, <1>2, <1>3, <1>4, <1>5, <1>6 DEF LogStep

-----------------------------------------------------------------------------
(* The steps of main.                                                      *)

\* What main and the jobs do to the runs: they start one that is idle, or it is over.
Calls ==
    /\ UNCHANGED <<clock, name, own, logs, newest, counterVars>>
    /\ at' \in [Runs -> {"idle", "stat", "create", "iterate", "count", "end", "over"}]
    /\ \A r \in Runs : at'[r] = at[r] \/ (at[r] = "idle" /\ at'[r] = "stat") \/ at'[r] = "over"

LEMMA CallsTypes ==
    ASSUME LogTypeOK, NameInv, Calls
    PROVE  LogTypeOK' /\ NameInv'
<1>1. LogTypeOK'
  BY DEF LogTypeOK, Calls, counterVars
<1>2. QED
  BY <1>1 DEF LogTypeOK, NameInv, Calls, Counting, Starting

\* Runs that are launched were idle.
LEMMA LaunchCalls ==
    ASSUME LogTypeOK, NEW runs \in SUBSET Runs, \A r \in runs : at[r] = "idle",
           at' = [r \in Runs |-> IF r \in runs THEN "stat" ELSE at[r]],
           UNCHANGED <<clock, name, own, logs, newest, counterVars>>
    PROVE  Calls
<1>1. at \in [Runs -> {"idle", "stat", "create", "iterate", "count", "end", "over"}]
  BY DEF LogTypeOK
<1>2. \A r \in Runs : at'[r] = IF r \in runs THEN "stat" ELSE at[r]
  OBVIOUS
<1>3. at' \in [Runs -> {"idle", "stat", "create", "iterate", "count", "end", "over"}]
  BY <1>1
<1>4. QED
  BY <1>2, <1>3 DEF Calls

\* The next line is idle and not collected yet.
LEMMA LineIsIdle ==
    ASSUME TypeOK, AheadInv, HasLine
    PROVE  at[Line] = "idle" /\ Line \notin ToSet(jobs_list)
<1>1. list \in DOMAIN campaign.lists /\ total_jobs + 1 \in DOMAIN campaign.lists[list]
  BY LineIsRun
<1>2. total_jobs < total_jobs + 1
  BY DEF TypeOK
<1>3. QED
  BY <1>1, <1>2 DEF AheadInv, Line

\* With the next line, the collected runs are still distinct, idle and no more than
\* the GPUs.
LEMMA Collected ==
    ASSUME TypeOK, PlaceInv, AheadInv, JobsInv, HasLine,
           NEW jobs, jobs = Append(jobs_list, Line)
    PROVE  /\ jobs \in Seq(Runs) /\ Len(jobs) <= NUM_GPUS /\ Len(jobs) \in Nat
           /\ DOMAIN jobs = 1..Len(jobs)
           /\ \A d \in DOMAIN jobs : jobs[d] \in Runs /\ at[jobs[d]] = "idle"
           /\ \A c, d \in DOMAIN jobs : jobs[c] = jobs[d] => c = d
           /\ \A d \in DOMAIN jobs : jobs[d] = Line \/ jobs[d] \in ToSet(jobs_list)
<1>1. Line \in Runs /\ at[Line] = "idle" /\ Line \notin ToSet(jobs_list)
  BY LineIsRun, LineIsIdle
<1>2. jobs_list \in Seq(Runs) /\ Len(jobs_list) \in Nat /\ DOMAIN jobs_list = 1..Len(jobs_list)
  BY DEF TypeOK
<1>3. \A d \in DOMAIN jobs_list : jobs_list[d] # Line
  BY <1>1 DEF ToSet
<1>4. Len(jobs_list) < NUM_GPUS /\ NUM_GPUS \in Nat
  BY CampaignsAssumption DEF PlaceInv
<1>5. jobs \in Seq(Runs) /\ Len(jobs) = Len(jobs_list) + 1 /\ DOMAIN jobs = 1..(Len(jobs_list) + 1)
  BY <1>1, <1>2
<1>6. \A d \in 1..Len(jobs_list) : jobs[d] = jobs_list[d]
  BY <1>1, <1>2
<1>7. jobs[Len(jobs_list) + 1] = Line
  BY <1>1, <1>2
<1>8. \A d \in DOMAIN jobs : d \in DOMAIN jobs_list \/ d = Len(jobs_list) + 1
  BY <1>2, <1>5
<1>9. \A d \in DOMAIN jobs : jobs[d] \in Runs /\ at[jobs[d]] = "idle"
  BY <1>1, <1>2, <1>6, <1>7, <1>8 DEF JobsInv
<1>10. \A c, d \in DOMAIN jobs : jobs[c] = jobs[d] => c = d
  BY <1>2, <1>3, <1>6, <1>7, <1>8 DEF JobsInv
<1>11. \A d \in DOMAIN jobs : jobs[d] = Line \/ jobs[d] \in ToSet(jobs_list)
  BY <1>2, <1>6, <1>7, <1>8 DEF ToSet
<1>12. QED
  BY <1>2, <1>4, <1>5, <1>9, <1>10, <1>11

\* A step of main calls the runs.
LEMMA MainCalls ==
    ASSUME TypeOK, PlaceInv, AheadInv, JobsInv, MainStep
    PROVE  Calls
<1>0. LogTypeOK
  BY DEF TypeOK
<1>1. CASE UNCHANGED logVars
  BY <1>0, <1>1 DEF logVars, Calls, LogTypeOK
<1>2. CASE Submit
  <2>1. HasLine /\ Line \in Runs /\ at[Line] = "idle"
    BY <1>2, LineIsRun, LineIsIdle DEF Submit, Takes
  <2> DEFINE runs == {Line}
  <2>2. at' = [r \in Runs |-> IF r \in runs THEN "stat" ELSE at[r]]
    BY <1>2 DEF Submit, Launch
  <2>3. UNCHANGED <<clock, name, own, logs, newest, counterVars>>
    BY <1>2 DEF Submit
  <2>4. runs \subseteq Runs /\ \A r \in runs : at[r] = "idle"
    BY <2>1
  <2> HIDE DEF runs
  <2>5. QED
    BY <1>0, <2>2, <2>3, <2>4, LaunchCalls
<1>3. CASE Collect
  <2> DEFINE jobs == Append(jobs_list, Line)
  <2>1. HasLine
    BY <1>3 DEF Collect, Takes
  <2>2. \A d \in DOMAIN jobs : jobs[d] \in Runs /\ at[jobs[d]] = "idle"
    BY <2>1, Collected
  <2>3. UNCHANGED <<clock, name, own, logs, newest, counterVars>>
    BY <1>3 DEF Collect
  <2>4. CASE Len(jobs) = NUM_GPUS
    <3>1. at' = [r \in Runs |-> IF r \in ToSet(jobs) THEN "stat" ELSE at[r]]
      BY <1>3, <2>4 DEF Collect, Launch
    <3>2. ToSet(jobs) \subseteq Runs /\ \A r \in ToSet(jobs) : at[r] = "idle"
      BY <2>2 DEF ToSet
    <3>3. QED
      BY <1>0, <2>3, <3>1, <3>2, LaunchCalls
  <2>5. CASE Len(jobs) # NUM_GPUS
    BY <1>0, <1>3, <2>3, <2>5 DEF Collect, Calls, LogTypeOK
  <2>6. QED
    BY <2>4, <2>5
<1>4. QED
  BY <1>1, <1>2, <1>3
     DEF MainStep, NextList, SkipLine, Waited, ListLogs, ReadLog, Finish

LEMMA JobReturnsCalls ==
    ASSUME TypeOK, NEW r \in Runs, JobReturns(r)
    PROVE  Calls
  BY DEF TypeOK, LogTypeOK, JobReturns, GoTo, Calls

\* Main keeps the types of its own state, and knows the line it submitted.
LEMMA MainTypes ==
    ASSUME TypeOK, PlaceInv, AheadInv, JobsInv, MainStep, LogTypeOK'
    PROVE  TypeOK' /\ PlaceInv'
<1>0. /\ campaign \in Campaigns
      /\ list \in 1..(Len(campaign.lists) + 1) /\ total_jobs \in 0..THRESHOLD_JOBS
      /\ jobs_list \in Seq(Runs) /\ Len(jobs_list) < NUM_GPUS /\ NUM_GPUS \in Nat
      /\ Len(campaign.lists) \in Nat /\ THRESHOLD_JOBS \in Nat
  BY CampaignLists, CampaignsAssumption DEF TypeOK, PlaceInv
<1>1. CASE NextList
  <2>1. list' \in 1..(Len(campaign.lists) + 1) /\ total_jobs' \in 0..THRESHOLD_JOBS
    BY <1>0, <1>1 DEF NextList
  <2>2. QED
    BY <1>1, <2>1 DEF NextList, TypeOK, PlaceInv
<1>2. CASE SkipLine
  <2>1. total_jobs' \in 0..THRESHOLD_JOBS
    BY <1>2, LineIsRun DEF SkipLine, Takes
  <2>2. QED
    BY <1>2, <2>1 DEF SkipLine, Takes, TypeOK, PlaceInv
<1>3. CASE Submit
  <2>1. /\ list \in DOMAIN campaign.lists /\ total_jobs + 1 \in DOMAIN campaign.lists[list]
        /\ Line \in Runs /\ total_jobs' \in 0..THRESHOLD_JOBS /\ total_jobs' = total_jobs + 1
    BY <1>3, LineIsRun DEF Submit, Takes
  <2>2. /\ batch' = {Line} /\ stage' = "wait"
        /\ devices' = [r \in Runs |-> IF r \in {Line} THEN [q \in {Line} |-> 0][r] ELSE devices[r]]
    BY <1>3 DEF Submit, Launch
  <2>3. devices' \in [Runs -> 0..(NUM_GPUS - 1) \cup {NoDevice}]
    <3>1. \A r \in Runs : devices'[r] = 0 \/ devices'[r] = devices[r]
      BY <2>2
    <3>2. 0 \in 0..(NUM_GPUS - 1)
      BY CampaignsAssumption
    <3>3. QED
      BY <2>2, <3>1, <3>2 DEF TypeOK
  <2>4. QED
    BY <1>0, <1>3, <2>1, <2>2, <2>3 DEF Submit, TypeOK, PlaceInv
<1>4. CASE Collect
  <2> DEFINE jobs == Append(jobs_list, Line)
             dev == [r \in ToSet(jobs) |-> (CHOOSE d \in DOMAIN jobs : jobs[d] = r) - 1]
  <2>1. /\ list \in DOMAIN campaign.lists /\ total_jobs + 1 \in DOMAIN campaign.lists[list]
        /\ Line \in Runs /\ total_jobs' \in 0..THRESHOLD_JOBS /\ total_jobs' = total_jobs + 1
        /\ HasLine
    BY <1>4, LineIsRun DEF Collect, Takes
  <2>2. /\ jobs \in Seq(Runs) /\ Len(jobs) <= NUM_GPUS /\ Len(jobs) \in Nat
        /\ DOMAIN jobs = 1..Len(jobs)
        /\ \A d \in DOMAIN jobs : jobs[d] \in Runs
    BY <2>1, Collected
  <2>3. CASE Len(jobs) = NUM_GPUS
    <3>1. /\ batch' = ToSet(jobs) /\ stage' = "wait" /\ jobs_list' = <<>>
          /\ devices' = [r \in Runs |-> IF r \in ToSet(jobs) THEN dev[r] ELSE devices[r]]
      BY <1>4, <2>3 DEF Collect, Launch
    <3>2. ToSet(jobs) \subseteq Runs
      BY <2>2 DEF ToSet
    <3>3. \A r \in ToSet(jobs) : dev[r] \in 0..(NUM_GPUS - 1)
      <4> TAKE r \in ToSet(jobs)
      <4>1. \E d \in DOMAIN jobs : jobs[d] = r
        BY DEF ToSet
      <4> DEFINE c == CHOOSE d \in DOMAIN jobs : jobs[d] = r
      <4>2. c \in DOMAIN jobs
        BY <4>1
      <4>3. dev[r] = c - 1
        OBVIOUS
      <4> HIDE DEF c, dev, jobs
      <4>4. QED
        BY <2>2, <2>3, <4>2, <4>3
    <3>4. devices' \in [Runs -> 0..(NUM_GPUS - 1) \cup {NoDevice}]
      <4>1. devices \in [Runs -> 0..(NUM_GPUS - 1) \cup {NoDevice}]
        BY DEF TypeOK
      <4> HIDE DEF dev, jobs
      <4>2. QED
        BY <3>1, <3>3, <4>1
    <3>5. <<>> \in Seq(Runs) /\ Len(<<>>) = 0 /\ 0 < NUM_GPUS /\ 0 <= NUM_GPUS
      BY CampaignsAssumption
    <3> HIDE DEF dev, jobs
    <3>6. TypeOK'
      BY <1>4, <2>1, <3>1, <3>2, <3>4, <3>5 DEF Collect, TypeOK
    <3>7. QED
      BY <1>4, <2>1, <3>1, <3>5, <3>6 DEF Collect, PlaceInv
  <2>4. CASE Len(jobs) # NUM_GPUS
    <3>1. jobs_list' = jobs /\ stage' = "list" /\ UNCHANGED <<at, batch, devices>>
      BY <1>4, <2>4 DEF Collect
    <3>2. Len(jobs) < NUM_GPUS
      BY <2>2, <2>4, <1>0
    <3> HIDE DEF dev, jobs
    <3>3. TypeOK'
      BY <1>4, <2>1, <2>2, <3>1, <3>2 DEF Collect, TypeOK
    <3>4. stage = "next"
      BY <1>4 DEF Collect, Takes
    <3>5. QED
      BY <1>4, <2>1, <3>1, <3>2, <3>3, <3>4 DEF Collect, PlaceInv
  <2>5. QED
    BY <2>3, <2>4
<1>5. CASE Waited
  BY <1>5 DEF Waited, TypeOK, PlaceInv
<1>6. CASE ListLogs
  BY <1>6 DEF ListLogs, TypeOK, PlaceInv, LogTypeOK
<1>7. CASE ReadLog
  <2>1. <<list, total_jobs>> \in Runs
    BY <1>7, CurrentIsRun DEF ReadLog, Current
  <2>2. out \in Names
    BY <1>7 DEF ReadLog, PlaceInv
  <2>3. [run |-> <<list, total_jobs>>, log |-> out,
         has_sdc |-> InLog(out, "SDC"), has_end |-> InLog(out, "END")] \in Rows
    BY <2>1, <2>2 DEF Rows, InLog
  <2>4. rows' \in Seq(Rows)
    BY <1>7, <2>3 DEF ReadLog, TypeOK
  <2>5. QED
    BY <1>7, <2>4 DEF ReadLog, TypeOK, PlaceInv
<1>8. CASE Finish
  BY <1>8 DEF Finish, TypeOK, PlaceInv
<1>9. QED
  BY <1>1, <1>2, <1>3, <1>4, <1>5, <1>6, <1>7, <1>8 DEF MainStep

LEMMA JobReturnsTypes ==
    ASSUME TypeOK, PlaceInv, NEW r \in Runs, JobReturns(r), LogTypeOK'
    PROVE  TypeOK' /\ PlaceInv'
  BY DEF TypeOK, PlaceInv, JobReturns

-----------------------------------------------------------------------------
(* Every line is launched once, and the jobs of a batch on their own GPUs. *)

\* A step of a run is of one that has begun, and it stays so.
LEMMA LogStepBegun ==
    ASSUME LogTypeOK, NEW r \in Runs, LogStep(r)
    PROVE  /\ at[r] # "idle" /\ at'[r] # "idle"
           /\ \A q \in Runs : q # r => at'[q] = at[q]
<1>1. PICK where \in {"create", "iterate", "count", "end", "over"} : at' = [at EXCEPT ![r] = where]
  <2>1. CASE StatLog(r)
    BY <2>1 DEF StatLog, GoTo
  <2>2. CASE CreateLog(r)
    BY <2>2 DEF CreateLog, GoTo
  <2>3. CASE EndIteration(r)
    BY <2>3 DEF EndIteration, GoTo
  <2>4. CASE CountErrors(r)
    BY <2>4 DEF CountErrors, GoTo
  <2>5. CASE EndLog(r)
    BY <2>5 DEF EndLog, GoTo
  <2>6. CASE Crash(r)
    BY <2>6 DEF Crash, GoTo
  <2>7. QED
    BY <2>1, <2>2, <2>3, <2>4, <2>5, <2>6 DEF LogStep
<1>2. at[r] # "idle"
  BY DEF LogStep, StatLog, CreateLog, EndIteration, CountErrors, EndLog, Crash, Alive
<1>3. at \in [Runs -> {"idle", "stat", "create", "iterate", "count", "end", "over"}]
  BY DEF LogTypeOK
<1>4. QED
  BY <1>1, <1>2, <1>3

LEMMA LogStepJobs ==
    ASSUME TypeOK, AheadInv, JobsInv, OneJobPerDevice,
           NEW r \in Runs, LogStep(r), UNCHANGED mainVars
    PROVE  AheadInv' /\ JobsInv' /\ OneJobPerDevice'
<1>1. /\ at[r] # "idle" /\ at'[r] # "idle"
      /\ \A q \in Runs : q # r => at'[q] = at[q]
  BY LogStepBegun DEF TypeOK
<1>2. /\ batch' = batch /\ jobs_list' = jobs_list /\ devices' = devices
      /\ campaign' = campaign /\ list' = list /\ total_jobs' = total_jobs
  BY DEF mainVars
<1>3. AheadInv'
  BY <1>1, <1>2, CampaignLists, ZenonT(30) DEF AheadInv, TypeOK
<1>4. JobsInv'
  BY <1>1, <1>2 DEF JobsInv, TypeOK
<1>5. QED
  BY <1>2, <1>3, <1>4 DEF OneJobPerDevice

LEMMA JobReturnsJobs ==
    ASSUME TypeOK, AheadInv, JobsInv, OneJobPerDevice, NEW r \in Runs, JobReturns(r)
    PROVE  AheadInv' /\ JobsInv' /\ OneJobPerDevice'
<1>1. /\ r \in batch /\ batch' = batch \ {r}
      /\ at' = [at EXCEPT ![r] = "over"] \/ at' = at
      /\ UNCHANGED <<devices, jobs_list, campaign, list, total_jobs>>
  BY DEF JobReturns, GoTo
<1>2. at[r] # "idle"
  BY <1>1 DEF JobsInv
<1>3. \A q \in Runs : q # r => at'[q] = at[q]
  BY <1>1 DEF TypeOK, LogTypeOK
<1>4. AheadInv'
  BY <1>1, <1>2, <1>3, CampaignLists, ZenonT(30) DEF AheadInv, TypeOK
<1>5. JobsInv'
  BY <1>1, <1>2, <1>3 DEF JobsInv, TypeOK
<1>6. QED
  BY <1>1, <1>4, <1>5 DEF OneJobPerDevice

LEMMA MainJobs ==
    ASSUME TypeOK, PlaceInv, AheadInv, JobsInv, OneJobPerDevice, MainStep
    PROVE  AheadInv' /\ JobsInv' /\ OneJobPerDevice'
<1>0. /\ campaign \in Campaigns /\ campaign' = campaign
      /\ list \in Nat /\ total_jobs \in Nat
  BY CampaignLists DEF TypeOK, MainStep, NextList, SkipLine, Submit, Collect, Waited, ListLogs, ReadLog, Finish
<1>1. CASE NextList
  <2>1. /\ list' = list + 1 /\ total_jobs' = 0
        /\ UNCHANGED <<at, jobs_list, batch, devices>>
    BY <1>1 DEF NextList, logVars
  <2>2. AheadInv'
    <3>1. \A l, i \in Nat : list' < l \/ (list' = l /\ total_jobs' < i) => list < l
      BY <1>0, <2>1
    <3>2. \A l \in DOMAIN campaign.lists : l \in Nat /\ \A i \in DOMAIN campaign.lists[l] : i \in Nat
      BY <1>0, CampaignLists
    <3>3. QED
      BY <1>0, <2>1, <3>1, <3>2 DEF AheadInv
  <2>3. QED
    BY <2>1, <2>2 DEF JobsInv, OneJobPerDevice
<1>2. CASE SkipLine
  <2>1. /\ list' = list /\ total_jobs' = total_jobs + 1
        /\ UNCHANGED <<at, jobs_list, batch, devices>>
    BY <1>2 DEF SkipLine, logVars
  <2>2. AheadInv'
    <3>1. \A i \in Nat : total_jobs' < i => total_jobs < i
      BY <1>0, <2>1
    <3>2. \A l \in DOMAIN campaign.lists : \A i \in DOMAIN campaign.lists[l] : i \in Nat
      BY <1>0, CampaignLists
    <3>3. QED
      BY <1>0, <2>1, <3>1, <3>2 DEF AheadInv
  <2>3. QED
    BY <2>1, <2>2 DEF JobsInv, OneJobPerDevice
<1>3. CASE Submit
  <2>1. /\ Line \in Runs /\ at[Line] = "idle" /\ Line \notin ToSet(jobs_list)
    BY <1>3, LineIsRun, LineIsIdle DEF Submit, Takes
  <2>2. /\ batch' = {Line}
        /\ at' = [r \in Runs |-> IF r \in {Line} THEN "stat" ELSE at[r]]
        /\ list' = list /\ total_jobs' = total_jobs + 1 /\ jobs_list' = jobs_list
    BY <1>3 DEF Submit, Launch
  <2>3. \A r \in Runs : r # Line => at'[r] = at[r]
    BY <2>2
  <2>4. AheadInv'
    <3>1. \A l, i \in Nat : list' < l \/ (list' = l /\ total_jobs' < i) =>
              /\ list < l \/ (list = l /\ total_jobs < i)
              /\ <<l, i>> # Line
      BY <1>0, <2>2 DEF Line
    <3>2. \A l \in DOMAIN campaign.lists : l \in Nat /\ \A i \in DOMAIN campaign.lists[l] :
              i \in Nat /\ <<l, i>> \in Runs
      BY <1>0, CampaignLists
    <3>3. QED
      BY <1>0, <2>2, <2>3, <3>1, <3>2 DEF AheadInv
  <2>5. JobsInv'
    <3>1. \A d \in DOMAIN jobs_list : jobs_list[d] # Line /\ jobs_list[d] \in Runs
      BY <2>1 DEF ToSet, TypeOK
    <3>2. at'[Line] = "stat"
      BY <2>1, <2>2
    <3>3. QED
      BY <2>2, <2>3, <3>1, <3>2 DEF JobsInv
  <2>6. QED
    BY <2>2, <2>4, <2>5 DEF OneJobPerDevice
<1>4. CASE Collect
  <2> DEFINE jobs == Append(jobs_list, Line)
             dev == [r \in ToSet(jobs) |-> (CHOOSE d \in DOMAIN jobs : jobs[d] = r) - 1]
  <2>1. HasLine /\ list' = list /\ total_jobs' = total_jobs + 1 /\ Line \in Runs
    BY <1>4, LineIsRun DEF Collect, Takes
  <2>2. /\ jobs \in Seq(Runs) /\ Len(jobs) \in Nat
        /\ DOMAIN jobs = 1..Len(jobs)
        /\ \A d \in DOMAIN jobs : jobs[d] \in Runs /\ at[jobs[d]] = "idle"
        /\ \A c, d \in DOMAIN jobs : jobs[c] = jobs[d] => c = d
        /\ \A d \in DOMAIN jobs : jobs[d] = Line \/ jobs[d] \in ToSet(jobs_list)
    BY <2>1, Collected
  <2>3. \A l, i \in Nat : list' < l \/ (list' = l /\ total_jobs' < i) =>
              /\ list < l \/ (list = l /\ total_jobs < i)
              /\ <<l, i>> # Line
    BY <1>0, <2>1 DEF Line
  <2>4. \A l \in DOMAIN campaign.lists : l \in Nat /\ \A i \in DOMAIN campaign.lists[l] :
              i \in Nat /\ <<l, i>> \in Runs
    BY <1>0, CampaignLists
  <2>5. \A r \in ToSet(jobs) : r = Line \/ r \in ToSet(jobs_list)
    BY <2>2 DEF ToSet
  <2>6. \A l \in DOMAIN campaign.lists : \A i \in DOMAIN campaign.lists[l] :
            list' < l \/ (list' = l /\ total_jobs' < i) =>
                at[<<l, i>>] = "idle" /\ <<l, i>> \notin ToSet(jobs_list) /\ <<l, i>> \notin ToSet(jobs)
    BY <2>3, <2>4, <2>5 DEF AheadInv
  <2>7. CASE Len(jobs) = NUM_GPUS
    <3>1. /\ batch' = ToSet(jobs) /\ jobs_list' = <<>>
          /\ at' = [r \in Runs |-> IF r \in ToSet(jobs) THEN "stat" ELSE at[r]]
          /\ devices' = [r \in Runs |-> IF r \in ToSet(jobs) THEN dev[r] ELSE devices[r]]
      BY <1>4, <2>7 DEF Collect, Launch
    <3>2. ToSet(jobs) \subseteq Runs
      BY <2>2 DEF ToSet
    <3>3. \A r \in Runs : r \notin ToSet(jobs) => at'[r] = at[r]
      BY <3>1
    <3>4. AheadInv'
      <4>1. ToSet(<<>>) = {}
        BY DEF ToSet
      <4> HIDE DEF jobs, dev
      <4>2. QED
        BY <1>0, <2>4, <2>6, <3>1, <3>3, <4>1 DEF AheadInv
    <3>5. JobsInv'
      <4> HIDE DEF jobs, dev
      <4>1. \A r \in batch' : at'[r] # "idle"
        BY <3>1, <3>2
      <4>2. DOMAIN jobs_list' = {}
        BY <3>1
      <4>3. QED
        BY <4>1, <4>2 DEF JobsInv
    <3>6. ASSUME NEW q \in batch', NEW r \in batch', q # r
          PROVE  devices'[q] # devices'[r]
      <4> DEFINE place(s) == CHOOSE d \in DOMAIN jobs : jobs[d] = s
      <4>1. \A s \in ToSet(jobs) : place(s) \in DOMAIN jobs /\ jobs[place(s)] = s
        BY DEF ToSet
      <4>2. \A s \in ToSet(jobs) : devices'[s] = place(s) - 1
        BY <3>1, <3>2
      <4>3. q \in ToSet(jobs) /\ r \in ToSet(jobs)
        BY <3>1, <3>6
      <4> HIDE DEF place, jobs, dev
      <4>4. place(q) # place(r) /\ place(q) \in Nat /\ place(r) \in Nat
        BY <2>2, <3>6, <4>1, <4>3
      <4>5. QED
        BY <4>2, <4>3, <4>4
    <3>7. OneJobPerDevice'
      BY <3>6 DEF OneJobPerDevice
    <3>8. QED
      BY <3>4, <3>5, <3>7
  <2>8. CASE Len(jobs) # NUM_GPUS
    <3>1. jobs_list' = jobs /\ UNCHANGED <<at, batch, devices>>
      BY <1>4, <2>8 DEF Collect
    <3> HIDE DEF jobs, dev
    <3>2. AheadInv'
      BY <1>0, <2>6, <3>1 DEF AheadInv
    <3>3. JobsInv'
      BY <2>2, <3>1 DEF JobsInv
    <3>4. QED
      BY <3>1, <3>2, <3>3 DEF OneJobPerDevice
  <2>9. QED
    BY <2>7, <2>8
<1>5. CASE UNCHANGED <<at, campaign, list, total_jobs, jobs_list, batch, devices>>
  BY <1>5 DEF AheadInv, JobsInv, OneJobPerDevice
<1>6. QED
  BY <1>1, <1>2, <1>3, <1>4, <1>5 DEF MainStep, Waited, ListLogs, ReadLog, Finish, logVars

-----------------------------------------------------------------------------
(* The lines and the counts of a run.                                      *)

\* Run r appends lines of these kinds to its log, and nothing else is written.
Appends(r, words) ==
    \A n \in Names, q \in Runs, w \in Words :
        <<w, q>> \in logs'[n] <=> <<w, q>> \in logs[n] \/ (q = r /\ n = name[r] /\ w \in words)

LEMMA WriteAppends ==
    ASSUME LogTypeOK, NEW r \in Runs, NEW words \in SUBSET Words, name[r] \in Names, Write(r, words)
    PROVE  Appends(r, words)
<1>1. /\ \A n \in Names : n # name[r] => logs'[n] = logs[n]
      /\ logs'[name[r]] = logs[name[r]] \cup (words \X {r})
  BY WriteLines
<1>2. \A q, w : <<w, q>> \in words \X {r} <=> w \in words /\ q = r
  OBVIOUS
<1>3. QED
  BY <1>1, <1>2 DEF Appends

LEMMA NoAppends ==
    ASSUME NEW r \in Runs, UNCHANGED logs
    PROVE  Appends(r, {})
  BY DEF Appends

LEMMA AppendsLogged ==
    ASSUME NEW r \in Runs, NEW words \in SUBSET Words, Appends(r, words),
           words # {} => name[r] \in Names
    PROVE  \A q \in Runs, w \in Words :
               (\E n \in Names : <<w, q>> \in logs'[n]) <=> Logged(q, w) \/ (q = r /\ w \in words)
  BY DEF Appends, Logged

\* What a step of a run leaves alone, and that it appends to its own log.
LogFrame(r, words) ==
    /\ Appends(r, words) /\ (words # {} => name[r] \in Names /\ name'[r] = name[r])
    /\ Write(r, words) \/ (words = {} /\ UNCHANGED <<logs, newest>>)
    /\ own'[r] => own[r] \/ (words # {} /\ logs[name[r]] = {})
    /\ at[r] \notin {"idle", "stat"} => name'[r] = name[r]
    /\ words # {} \/ at[r] \notin Starting => at'[r] \notin Starting
    /\ \A q \in Runs : q # r =>
           /\ at'[q] = at[q] /\ name'[q] = name[q] /\ own'[q] = own[q]
           /\ iteration_number'[q] = iteration_number[q] /\ errs'[q] = errs[q]
           /\ last_iter_errors'[q] = last_iter_errors[q]
           /\ last_iter_with_errors'[q] = last_iter_with_errors[q]

LEMMA StatLogFrame ==
    ASSUME LogTypeOK, NEW r \in Runs, StatLog(r)
    PROVE  LogFrame(r, {})
  BY NoAppends DEF StatLog, LogFrame, GoTo, LogTypeOK, Starting, counterVars

LEMMA CreateLogFrame ==
    ASSUME LogTypeOK, NameInv, NEW r \in Runs, CreateLog(r)
    PROVE  LogFrame(r, {"HEADER"})
<1>1. name[r] \in Names
  BY DEF CreateLog, NameInv
<1>2. Appends(r, {"HEADER"})
  BY <1>1, WriteAppends DEF CreateLog, Words
<1>3. QED
  BY <1>1, <1>2 DEF CreateLog, LogFrame, GoTo, LogTypeOK, Starting

LEMMA EndIterationFrame ==
    ASSUME LogTypeOK, NameInv, NEW r \in Runs, EndIteration(r)
    PROVE  LogFrame(r, {"IT"})
<1>1. name[r] \in Names
  BY DEF EndIteration, NameInv, Counting
<1>2. Appends(r, {"IT"})
  BY <1>1, WriteAppends DEF EndIteration, Words
<1>3. QED
  BY <1>1, <1>2 DEF EndIteration, LogFrame, GoTo, LogTypeOK, Starting

LEMMA EndLogFrame ==
    ASSUME LogTypeOK, NameInv, NEW r \in Runs, EndLog(r)
    PROVE  LogFrame(r, {"END"})
<1>1. name[r] \in Names
  BY DEF EndLog, NameInv, Counting
<1>2. Appends(r, {"END"})
  BY <1>1, WriteAppends DEF EndLog, Words
<1>3. QED
  BY <1>1, <1>2 DEF EndLog, LogFrame, GoTo, LogTypeOK, Starting

LEMMA CrashFrame ==
    ASSUME LogTypeOK, NEW r \in Runs, Crash(r)
    PROVE  LogFrame(r, {})
  BY NoAppends DEF Crash, LogFrame, GoTo, LogTypeOK, Starting, counterVars

\* The counts of an iteration with errors, without, or with too many.
LEMMA CountErrorsFrame ==
    ASSUME LogTypeOK, NameInv, NEW r \in Runs, CountErrors(r)
    PROVE  \E n \in ErrorCounts, words \in SUBSET Words :
               /\ LogFrame(r, words)
               /\ errs'[r] = Append(errs[r], n) /\ at[r] = "count"
               /\ \/ /\ n = 0 /\ "ABORT" \notin words /\ at'[r] = "iterate"
                     /\ UNCHANGED <<last_iter_errors, last_iter_with_errors>>
                  \/ /\ n > 0 /\ (n > MaxErrorsPerIter \/ Repeats(r, n))
                     /\ "ABORT" \in words /\ at'[r] = "end"
                     /\ UNCHANGED <<last_iter_errors, last_iter_with_errors>>
                  \/ /\ n > 0 /\ ~(n > MaxErrorsPerIter) /\ ~Repeats(r, n)
                     /\ "ABORT" \notin words /\ at'[r] = "iterate"
                     /\ last_iter_errors'[r] = n /\ last_iter_with_errors'[r] = iteration_number[r]
<1>1. name[r] \in Names /\ at[r] = "count" /\ UNCHANGED <<clock, name, own, iteration_number>>
  BY DEF CountErrors, NameInv, Counting
<1>2. PICK n \in ErrorCounts :
          LET aborts == n > 0 /\ (n > MaxErrorsPerIter \/ Repeats(r, n)) IN
          /\ errs' = [errs EXCEPT ![r] = Append(@, n)]
          /\ IF n = 0 THEN UNCHANGED <<logs, newest>>
             ELSE Write(r, IF aborts THEN {"SDC", "ABORT"} ELSE {"SDC"})
          /\ IF n = 0 \/ aborts THEN UNCHANGED <<last_iter_errors, last_iter_with_errors>>
             ELSE /\ last_iter_errors' = [last_iter_errors EXCEPT ![r] = n]
                  /\ last_iter_with_errors' = [last_iter_with_errors EXCEPT ![r] = iteration_number[r]]
          /\ GoTo(r, IF aborts THEN "end" ELSE "iterate")
  BY DEF CountErrors
<1>3. errs' = [errs EXCEPT ![r] = Append(@, n)] /\ errs'[r] = Append(errs[r], n)
  BY <1>2 DEF LogTypeOK
<1>4. n \in Nat
  BY CountsAssumption
<1>5. ASSUME NEW words \in SUBSET Words, Appends(r, words),
             Write(r, words) \/ (words = {} /\ UNCHANGED <<logs, newest>>),
             at' = [at EXCEPT ![r] = "end"] \/ at' = [at EXCEPT ![r] = "iterate"],
             \/ UNCHANGED <<last_iter_errors, last_iter_with_errors>>
             \/ /\ last_iter_errors' = [last_iter_errors EXCEPT ![r] = n]
                /\ last_iter_with_errors' = [last_iter_with_errors EXCEPT ![r] = iteration_number[r]]
      PROVE  LogFrame(r, words)
  BY <1>1, <1>3, <1>5 DEF LogFrame, LogTypeOK, Starting
<1>6. CASE n = 0
  <2>1. Appends(r, {}) /\ UNCHANGED <<logs, newest, last_iter_errors, last_iter_with_errors>>
    BY <1>2, <1>6, NoAppends
  <2>2. at' = [at EXCEPT ![r] = "iterate"]
    BY <1>2, <1>6 DEF GoTo
  <2>3. LogFrame(r, {})
    BY <1>5, <2>1, <2>2
  <2>4. at'[r] = "iterate"
    BY <2>2 DEF LogTypeOK
  <2>5. QED
    BY <1>1, <1>3, <1>6, <2>1, <2>3, <2>4
<1>7. CASE n > 0 /\ (n > MaxErrorsPerIter \/ Repeats(r, n))
  <2>1. Write(r, {"SDC", "ABORT"}) /\ UNCHANGED <<last_iter_errors, last_iter_with_errors>>
    BY <1>2, <1>4, <1>7
  <2>2. at' = [at EXCEPT ![r] = "end"]
    BY <1>2, <1>7 DEF GoTo
  <2>3. Appends(r, {"SDC", "ABORT"})
    BY <1>1, <2>1, WriteAppends DEF Words
  <2>4. LogFrame(r, {"SDC", "ABORT"})
    BY <1>5, <2>1, <2>2, <2>3 DEF Words
  <2>5. at'[r] = "end"
    BY <2>2 DEF LogTypeOK
  <2>6. QED
    BY <1>1, <1>3, <1>7, <2>1, <2>4, <2>5 DEF Words
<1>8. CASE n > 0 /\ ~(n > MaxErrorsPerIter) /\ ~Repeats(r, n)
  <2>1. /\ Write(r, {"SDC"})
        /\ last_iter_errors' = [last_iter_errors EXCEPT ![r] = n]
        /\ last_iter_with_errors' = [last_iter_with_errors EXCEPT ![r] = iteration_number[r]]
    BY <1>2, <1>4, <1>8
  <2>2. at' = [at EXCEPT ![r] = "iterate"]
    BY <1>2, <1>8 DEF GoTo
  <2>3. Appends(r, {"SDC"})
    BY <1>1, <2>1, WriteAppends DEF Words
  <2>4. LogFrame(r, {"SDC"})
    BY <1>5, <2>1, <2>2, <2>3 DEF Words
  <2>5. /\ at'[r] = "iterate" /\ last_iter_errors'[r] = n
        /\ last_iter_with_errors'[r] = iteration_number[r]
    BY <2>1, <2>2 DEF LogTypeOK
  <2>6. "ABORT" \notin {"SDC"} /\ {"SDC"} \in SUBSET Words
    BY DEF Words
  <2>7. QED
    BY <1>1, <1>3, <1>8, <2>4, <2>5, <2>6
<1>9. QED
  BY <1>4, <1>6, <1>7, <1>8

LEMMA LogStepFrame ==
    ASSUME LogTypeOK, NameInv, NEW r \in Runs, LogStep(r)
    PROVE  \E words \in SUBSET Words : LogFrame(r, words)
<1>1. {} \in SUBSET Words /\ {"HEADER"} \in SUBSET Words /\ {"IT"} \in SUBSET Words
      /\ {"END"} \in SUBSET Words
  BY DEF Words
<1>2. QED
  BY <1>1, StatLogFrame, CreateLogFrame, EndIterationFrame, CountErrorsFrame, EndLogFrame, CrashFrame
     DEF LogStep

LEMMA LinesStep ==
    ASSUME LinesInv, NEW r \in Runs, NEW words \in SUBSET Words, LogFrame(r, words)
    PROVE  LinesInv'
<1> SUFFICES ASSUME NEW q \in Runs, NEW n \in Names, NEW w \in Words, <<w, q>> \in logs'[n]
             PROVE  at'[q] \notin Starting /\ n = name'[q]
  BY DEF LinesInv
<1>1. <<w, q>> \in logs[n] \/ (q = r /\ n = name[r] /\ w \in words)
  BY DEF LogFrame, Appends
<1>2. CASE q # r
  BY <1>1, <1>2 DEF LogFrame, LinesInv
<1>3. CASE q = r /\ <<w, q>> \in logs[n]
  BY <1>3 DEF LogFrame, LinesInv, Starting
<1>4. CASE q = r /\ w \in words
  BY <1>1, <1>3, <1>4 DEF LogFrame
<1>5. QED
  BY <1>1, <1>2, <1>3, <1>4

\* One more count offends when the others do, when it is too high, or when it is that
\* of the iteration before.
LEMMA OffendsAppend ==
    ASSUME NEW e \in Seq(ErrorCounts), NEW n \in ErrorCounts
    PROVE  /\ Append(e, n) \in Seq(ErrorCounts) /\ Len(Append(e, n)) = Len(e) + 1
           /\ \A i \in DOMAIN e : Append(e, n)[i] = e[i]
           /\ Append(e, n)[Len(e) + 1] = n
           /\ DOMAIN e = 1..Len(e) /\ DOMAIN Append(e, n) = 1..(Len(e) + 1) /\ Len(e) \in Nat
           /\ Offends(Append(e, n)) <=>
                  \/ Offends(e) \/ n > MaxErrorsPerIter
                  \/ Len(e) \in DOMAIN e /\ n > 0 /\ n = e[Len(e)]
<1> DEFINE f == Append(e, n)
           Bad(s, i) == s[i] > MaxErrorsPerIter \/ (i > 1 /\ s[i] > 0 /\ s[i] = s[i - 1])
<1>1. /\ f \in Seq(ErrorCounts) /\ Len(f) = Len(e) + 1 /\ DOMAIN e = 1..Len(e) /\ Len(e) \in Nat
      /\ DOMAIN f = 1..(Len(e) + 1)
  OBVIOUS
<1>2. \A i \in DOMAIN e : f[i] = e[i]
  OBVIOUS
<1>3. f[Len(e) + 1] = n
  OBVIOUS
<1> HIDE DEF f
<1>4. \A i \in DOMAIN e : Bad(f, i) <=> Bad(e, i)
  <2> TAKE i \in DOMAIN e
  <2>1. i > 1 => i - 1 \in DOMAIN e
    BY <1>1
  <2>2. QED
    BY <1>2, <2>1
<1>5. Bad(f, Len(e) + 1) <=>
          n > MaxErrorsPerIter \/ (Len(e) \in DOMAIN e /\ n > 0 /\ n = e[Len(e)])
  <2>1. Len(e) + 1 > 1 <=> Len(e) \in DOMAIN e
    BY <1>1
  <2>2. (Len(e) + 1) - 1 = Len(e)
    BY <1>1
  <2>3. QED
    BY <1>2, <1>3, <2>1, <2>2
<1>6. Offends(e) <=> \E i \in DOMAIN e : Bad(e, i)
  BY DEF Offends
<1>7. Offends(f) <=> \E i \in DOMAIN f : Bad(f, i)
  BY DEF Offends
<1> HIDE DEF Bad
<1>8. \A i : i \in DOMAIN f <=> i \in DOMAIN e \/ i = Len(e) + 1
  BY <1>1
<1>9. Offends(f) <=> Offends(e) \/ Bad(f, Len(e) + 1)
  BY <1>4, <1>6, <1>7, <1>8
<1>10. QED
  BY <1>1, <1>2, <1>3, <1>5, <1>9 DEF f

LEMMA OffendsNothing ==
    ~Offends(<<>>)
  BY DEF Offends

\* Counting the errors of an iteration: it aborts the run exactly when the count
\* offends.
LEMMA CountErrorsCounts ==
    ASSUME LogTypeOK, NameInv, NEW r \in Runs, CountInv(r), CountErrors(r)
    PROVE  CountInv(r)'
<1>1. PICK n \in ErrorCounts, words \in SUBSET Words :
               /\ LogFrame(r, words)
               /\ errs'[r] = Append(errs[r], n) /\ at[r] = "count"
               /\ \/ /\ n = 0 /\ "ABORT" \notin words /\ at'[r] = "iterate"
                     /\ UNCHANGED <<last_iter_errors, last_iter_with_errors>>
                  \/ /\ n > 0 /\ (n > MaxErrorsPerIter \/ Repeats(r, n))
                     /\ "ABORT" \in words /\ at'[r] = "end"
                     /\ UNCHANGED <<last_iter_errors, last_iter_with_errors>>
                  \/ /\ n > 0 /\ ~(n > MaxErrorsPerIter) /\ ~Repeats(r, n)
                     /\ "ABORT" \notin words /\ at'[r] = "iterate"
                     /\ last_iter_errors'[r] = n /\ last_iter_with_errors'[r] = iteration_number[r]
  BY CountErrorsFrame
<1> DEFINE e == errs[r]
           L == last_iter_with_errors[r]
           N == last_iter_errors[r]
<1>2. e \in Seq(ErrorCounts) /\ ErrorCounts \subseteq Nat /\ n \in Nat /\ MaxErrorsPerIter \in Nat
  BY CountsAssumption DEF LogTypeOK
<1>3. Len(e) \in Nat /\ DOMAIN e = 1..Len(e) /\ \A i \in DOMAIN e : e[i] \in Nat
  <2> HIDE DEF e
  <2>1. Len(e) \in Nat /\ DOMAIN e = 1..Len(e)
    BY <1>2
  <2>2. \A i \in DOMAIN e : e[i] \in ErrorCounts
    BY <1>2, <2>1
  <2>3. QED
    BY <1>2, <2>1, <2>2
<1>4. /\ L \in 0..Len(e)
      /\ L = 0 => N = 0
      /\ L # 0 => N = e[L]
      /\ \A i \in DOMAIN e : i > L => e[i] = 0
      /\ ~Offends(e) /\ ~Logged(r, "ABORT") /\ iteration_number[r] = Len(e) + 1
  BY <1>1 DEF CountInv, LastErrors, Counting, Starting
<1>5. Repeats(r, n) <=> n = N /\ L + 1 = Len(e) + 1
  BY <1>4 DEF Repeats
<1>6. n > 0 => (Repeats(r, n) <=> Len(e) \in DOMAIN e /\ n = e[Len(e)])
  <2>1. L \in Nat
    BY <1>3, <1>4
  <2>2. ASSUME n > 0, Repeats(r, n) PROVE Len(e) \in DOMAIN e /\ n = e[Len(e)]
    <3>1. n = N /\ L = Len(e)
      BY <1>3, <1>5, <2>1, <2>2
    <3>2. L # 0
      BY <1>2, <1>4, <2>2, <3>1
    <3>3. QED
      BY <1>3, <1>4, <3>1, <3>2
  <2>3. ASSUME n > 0, Len(e) \in DOMAIN e, n = e[Len(e)] PROVE Repeats(r, n)
    <3>1. ~(Len(e) > L)
      BY <1>2, <1>4, <2>3
    <3>2. L = Len(e) /\ L # 0
      BY <1>3, <1>4, <2>1, <2>3, <3>1
    <3>3. QED
      BY <1>4, <1>5, <2>3, <3>2
  <2>4. QED
    BY <2>2, <2>3
<1>7. Logged(r, "ABORT")' <=> "ABORT" \in words
  <2>1. Appends(r, words) /\ (words # {} => name[r] \in Names)
    BY <1>1 DEF LogFrame
  <2>2. "ABORT" \in Words
    BY DEF Words
  <2>3. (\E m \in Names : <<"ABORT", r>> \in logs'[m]) <=> Logged(r, "ABORT") \/ "ABORT" \in words
    BY <2>1, <2>2, AppendsLogged
  <2>4. Logged(r, "ABORT")' <=> \E m \in Names : <<"ABORT", r>> \in logs'[m]
    BY Zenon DEF Logged
  <2>5. QED
    BY <1>4, <2>3, <2>4
<1>8. iteration_number'[r] = Len(e) + 1
  BY <1>4 DEF CountErrors
<1>9. /\ errs'[r] \in Seq(ErrorCounts) /\ Len(errs'[r]) = Len(e) + 1
      /\ \A i \in DOMAIN e : errs'[r][i] = e[i]
      /\ errs'[r][Len(e) + 1] = n /\ DOMAIN errs'[r] = 1..(Len(e) + 1)
      /\ Offends(errs'[r]) <=>
             n > MaxErrorsPerIter \/ (Len(e) \in DOMAIN e /\ n > 0 /\ n = e[Len(e)])
  BY <1>1, <1>2, <1>4, OffendsAppend
<1>10. CountInv(r)' <=>
          /\ at'[r] \in Starting => errs'[r] = <<>> /\ iteration_number'[r] = 0
          /\ at'[r] \in Starting \cup Counting =>
                 LastErrors(r)' /\ ~Offends(errs'[r]) /\ ~Logged(r, "ABORT")'
          /\ at'[r] = "iterate" => iteration_number'[r] = Len(errs'[r])
          /\ at'[r] = "count" => iteration_number'[r] = Len(errs'[r]) + 1
          /\ at'[r] = "end" => Offends(errs'[r]) /\ Logged(r, "ABORT")'
          /\ Offends(errs'[r]) <=> Logged(r, "ABORT")'
  BY Zenon DEF CountInv, Offends, Starting, Counting
<1>11. LastErrors(r)' <=>
          /\ last_iter_with_errors'[r] \in 0..Len(errs'[r])
          /\ IF last_iter_with_errors'[r] = 0 THEN last_iter_errors'[r] = 0
             ELSE last_iter_errors'[r] = errs'[r][last_iter_with_errors'[r]]
          /\ \A i \in DOMAIN errs'[r] : i > last_iter_with_errors'[r] => errs'[r][i] = 0
  BY Zenon DEF LastErrors
<1> HIDE DEF e, L, N
<1>12. CASE /\ n = 0 /\ "ABORT" \notin words /\ at'[r] = "iterate"
            /\ UNCHANGED <<last_iter_errors, last_iter_with_errors>>
  <2>1. ~Offends(errs'[r])
    BY <1>2, <1>9, <1>12
  <2>2. LastErrors(r)'
    <3>1. last_iter_with_errors'[r] = L /\ last_iter_errors'[r] = N
      BY <1>12 DEF L, N
    <3>2. L \in 0..Len(errs'[r]) /\ (L # 0 => L \in DOMAIN e)
      BY <1>3, <1>4, <1>9
    <3>3. \A i \in DOMAIN errs'[r] : i > L => errs'[r][i] = 0
      BY <1>3, <1>4, <1>9, <1>12
    <3>4. QED
      BY <1>4, <1>9, <1>11, <3>1, <3>2, <3>3
  <2>3. QED
    BY <1>7, <1>8, <1>9, <1>10, <1>12, <2>1, <2>2 DEF Starting
<1>13. CASE /\ n > 0 /\ (n > MaxErrorsPerIter \/ Repeats(r, n))
            /\ "ABORT" \in words /\ at'[r] = "end"
  <2>1. Offends(errs'[r])
    BY <1>6, <1>9, <1>13
  <2>2. QED
    BY <1>7, <1>10, <1>13, <2>1 DEF Starting, Counting
<1>14. CASE /\ n > 0 /\ ~(n > MaxErrorsPerIter) /\ ~Repeats(r, n)
            /\ "ABORT" \notin words /\ at'[r] = "iterate"
            /\ last_iter_errors'[r] = n /\ last_iter_with_errors'[r] = iteration_number[r]
  <2>1. ~Offends(errs'[r])
    BY <1>6, <1>9, <1>14
  <2>2. LastErrors(r)'
    <3>1. last_iter_with_errors'[r] = Len(e) + 1 /\ last_iter_errors'[r] = n
      BY <1>4, <1>14
    <3>2. \A i \in DOMAIN errs'[r] : ~(i > Len(e) + 1)
      BY <1>3, <1>9
    <3>3. Len(e) + 1 \in 0..Len(errs'[r]) /\ Len(e) + 1 # 0
      BY <1>3, <1>9
    <3>4. QED
      BY <1>9, <1>11, <3>1, <3>2, <3>3
  <2>3. QED
    BY <1>7, <1>8, <1>9, <1>10, <1>14, <2>1, <2>2 DEF Starting
<1>15. QED
  BY <1>1, <1>12, <1>13, <1>14

\* Steps other than counting errors leave the counts of a run and its aborts alone.
LEMMA CountsKept ==
    ASSUME NEW q \in Runs, CountInv(q),
           errs'[q] = errs[q], last_iter_errors'[q] = last_iter_errors[q],
           last_iter_with_errors'[q] = last_iter_with_errors[q],
           Logged(q, "ABORT")' <=> Logged(q, "ABORT"),
           at'[q] \in Starting => at[q] \in Starting /\ iteration_number'[q] = 0,
           at'[q] \in Counting => at[q] \in Starting \cup Counting,
           at'[q] = "iterate" => iteration_number'[q] = Len(errs[q]),
           at'[q] = "count" => iteration_number'[q] = Len(errs[q]) + 1,
           at'[q] = "end" => at[q] = "end"
    PROVE  CountInv(q)'
<1>1. CountInv(q)' <=>
          /\ at'[q] \in Starting => errs'[q] = <<>> /\ iteration_number'[q] = 0
          /\ at'[q] \in Starting \cup Counting =>
                 LastErrors(q)' /\ ~Offends(errs'[q]) /\ ~Logged(q, "ABORT")'
          /\ at'[q] = "iterate" => iteration_number'[q] = Len(errs'[q])
          /\ at'[q] = "count" => iteration_number'[q] = Len(errs'[q]) + 1
          /\ at'[q] = "end" => Offends(errs'[q]) /\ Logged(q, "ABORT")'
          /\ Offends(errs'[q]) <=> Logged(q, "ABORT")'
  BY Zenon DEF CountInv, Offends, Starting, Counting
<1>2. LastErrors(q) => LastErrors(q)'
  BY DEF LastErrors
<1>3. Offends(errs'[q]) <=> Offends(errs[q])
  BY Zenon DEF Offends
<1>4. at'[q] \in Starting \cup Counting => at[q] \in Starting \cup Counting
  BY DEF Starting, Counting
<1>5. at[q] \in Starting \cup Counting => LastErrors(q) /\ ~Offends(errs[q]) /\ ~Logged(q, "ABORT")
  BY DEF CountInv
<1>6. at[q] \in Starting => errs[q] = <<>>
  BY DEF CountInv
<1>7. (at[q] = "end" => Offends(errs[q]) /\ Logged(q, "ABORT")) /\ (Offends(errs[q]) <=> Logged(q, "ABORT"))
  BY DEF CountInv
<1>8. QED
  BY <1>1, <1>2, <1>3, <1>4, <1>5, <1>6, <1>7

LEMMA FrameLogged ==
    ASSUME NEW r \in Runs, NEW words \in SUBSET Words, LogFrame(r, words), NEW q \in Runs, NEW w \in Words
    PROVE  Logged(q, w)' <=> Logged(q, w) \/ (q = r /\ w \in words)
<1>1. Appends(r, words) /\ (words # {} => name[r] \in Names)
  BY DEF LogFrame
<1>2. (\E m \in Names : <<w, q>> \in logs'[m]) <=> Logged(q, w) \/ (q = r /\ w \in words)
  BY <1>1, AppendsLogged
<1>3. Logged(q, w)' <=> \E m \in Names : <<w, q>> \in logs'[m]
  BY Zenon DEF Logged
<1>4. QED
  BY <1>2, <1>3

LEMMA OthersCounts ==
    ASSUME NEW r \in Runs, NEW words \in SUBSET Words, LogFrame(r, words),
           NEW q \in Runs, q # r, CountInv(q)
    PROVE  CountInv(q)'
<1>1. Logged(q, "ABORT")' <=> Logged(q, "ABORT")
  BY FrameLogged DEF Words
<1>2. /\ at'[q] = at[q] /\ iteration_number'[q] = iteration_number[q] /\ errs'[q] = errs[q]
      /\ last_iter_errors'[q] = last_iter_errors[q]
      /\ last_iter_with_errors'[q] = last_iter_with_errors[q]
  BY DEF LogFrame
<1>3. /\ at[q] \in Starting => iteration_number[q] = 0
      /\ at[q] = "iterate" => iteration_number[q] = Len(errs[q])
      /\ at[q] = "count" => iteration_number[q] = Len(errs[q]) + 1
  BY DEF CountInv
<1>4. /\ at'[q] \in Starting => at[q] \in Starting /\ iteration_number'[q] = 0
      /\ at'[q] \in Counting => at[q] \in Starting \cup Counting
      /\ at'[q] = "iterate" => iteration_number'[q] = Len(errs[q])
      /\ at'[q] = "count" => iteration_number'[q] = Len(errs[q]) + 1
      /\ at'[q] = "end" => at[q] = "end"
  BY <1>2, <1>3
<1>5. QED
  BY <1>1, <1>2, <1>4, CountsKept

\* A step of run r keeps the agreement of its counts.
LEMMA OwnCounts ==
    ASSUME LogTypeOK, NameInv, NEW r \in Runs, LogStep(r), CountInv(r)
    PROVE  CountInv(r)'
<1> USE DEF Starting, Counting
<1>0. /\ at[r] \in Starting => errs[r] = <<>> /\ iteration_number[r] = 0
      /\ at[r] = "iterate" => iteration_number[r] = Len(errs[r])
      /\ Len(<<>>) = 0
  BY DEF CountInv
<1>1. CASE StatLog(r)
  <2>1. Logged(r, "ABORT")' <=> Logged(r, "ABORT")
    BY <1>1, StatLogFrame, FrameLogged DEF Words
  <2>2. /\ at[r] = "stat" /\ at'[r] \in {"create", "iterate"}
        /\ UNCHANGED <<errs, last_iter_errors, last_iter_with_errors, iteration_number>>
    BY <1>1 DEF StatLog, GoTo, LogTypeOK, counterVars
  <2>3. iteration_number'[r] = 0 /\ errs[r] = <<>>
    BY <1>0, <2>2
  <2>4. QED
    BY <1>0, <2>1, <2>2, <2>3, CountsKept
<1>2. CASE CreateLog(r)
  <2>1. Logged(r, "ABORT")' <=> Logged(r, "ABORT")
    BY <1>2, CreateLogFrame, FrameLogged DEF Words
  <2>2. /\ at[r] = "create" /\ at'[r] = "iterate" /\ iteration_number'[r] = 0
        /\ UNCHANGED <<errs, last_iter_errors, last_iter_with_errors>>
    BY <1>2 DEF CreateLog, GoTo, LogTypeOK
  <2>3. QED
    BY <1>0, <2>1, <2>2, CountsKept
<1>3. CASE EndIteration(r)
  <2>1. Logged(r, "ABORT")' <=> Logged(r, "ABORT")
    BY <1>3, EndIterationFrame, FrameLogged DEF Words
  <2>2. /\ at[r] = "iterate" /\ at'[r] = "count" /\ iteration_number'[r] = iteration_number[r] + 1
        /\ UNCHANGED <<errs, last_iter_errors, last_iter_with_errors>>
    BY <1>3 DEF EndIteration, GoTo, LogTypeOK
  <2>3. QED
    BY <1>0, <2>1, <2>2, CountsKept
<1>4. CASE CountErrors(r)
  BY <1>4, CountErrorsCounts
<1>5. CASE EndLog(r)
  <2>1. Logged(r, "ABORT")' <=> Logged(r, "ABORT")
    BY <1>5, EndLogFrame, FrameLogged DEF Words
  <2>2. /\ at'[r] = "over"
        /\ UNCHANGED <<errs, last_iter_errors, last_iter_with_errors>>
    BY <1>5 DEF EndLog, GoTo, LogTypeOK
  <2>3. QED
    BY <2>1, <2>2, CountsKept
<1>6. CASE Crash(r)
  <2>1. Logged(r, "ABORT")' <=> Logged(r, "ABORT")
    BY <1>6, CrashFrame, FrameLogged DEF Words
  <2>2. /\ at'[r] = "over"
        /\ UNCHANGED <<errs, last_iter_errors, last_iter_with_errors>>
    BY <1>6 DEF Crash, GoTo, LogTypeOK, counterVars
  <2>3. QED
    BY <2>1, <2>2, CountsKept
<1>7. QED
  BY <1>1, <1>2, <1>3, <1>4, <1>5, <1>6 DEF LogStep

\* What main does to the runs leaves their lines and counts alone.
LEMMA CallsLogged ==
    ASSUME Calls, NEW q \in Runs, NEW w \in Words
    PROVE  Logged(q, w)' <=> Logged(q, w)
<1>1. logs' = logs
  BY DEF Calls
<1>2. Logged(q, w)' <=> \E m \in Names : <<w, q>> \in logs'[m]
  BY Zenon DEF Logged
<1>3. QED
  BY <1>1, <1>2 DEF Logged

LEMMA CallsCounts ==
    ASSUME Calls, LinesInv, \A r \in Runs : CountInv(r)
    PROVE  LinesInv' /\ (\A r \in Runs : CountInv(r))'
<1>1. LinesInv'
  BY DEF LinesInv, Calls, Starting
<1>2. ASSUME NEW q \in Runs PROVE CountInv(q)'
  <2>1. Logged(q, "ABORT")' <=> Logged(q, "ABORT")
    BY CallsLogged DEF Words
  <2>2. UNCHANGED <<errs, last_iter_errors, last_iter_with_errors, iteration_number>>
    BY DEF Calls, counterVars
  <2>3. at'[q] = at[q] \/ (at[q] = "idle" /\ at'[q] = "stat") \/ at'[q] = "over"
    BY DEF Calls
  <2>4. /\ at[q] \in Starting => iteration_number[q] = 0
        /\ at[q] = "iterate" => iteration_number[q] = Len(errs[q])
        /\ at[q] = "count" => iteration_number[q] = Len(errs[q]) + 1
    BY DEF CountInv
  <2>5. /\ at'[q] \in Starting => at[q] \in Starting /\ iteration_number'[q] = 0
        /\ at'[q] \in Counting => at[q] \in Starting \cup Counting
        /\ at'[q] = "iterate" => iteration_number'[q] = Len(errs[q])
        /\ at'[q] = "count" => iteration_number'[q] = Len(errs[q]) + 1
        /\ at'[q] = "end" => at[q] = "end"
    BY <2>2, <2>3, <2>4 DEF Starting, Counting
  <2>6. QED
    BY <2>1, <2>2, <2>5, CountsKept
<1>3. (\A q \in Runs : CountInv(q))'
  BY <1>2
<1>4. QED
  BY <1>1, <1>3

-----------------------------------------------------------------------------
(* On one GPU, the row of a run is about it.                               *)

\* A row stays about its run as long as the run does not write.
LEMMA RowsKept ==
    ASSUME TypeOK, RowIsOfItsRun, UNCHANGED <<campaign, rows>>, abandoned' = {} => abandoned = {},
           campaign.where = "standalone" /\ abandoned' = {} =>
               \A i \in DOMAIN rows : LET q == rows[i].run IN
                   /\ own'[q] = own[q] /\ name'[q] = name[q]
                   /\ Logged(q, "SDC")' <=> Logged(q, "SDC")
                   /\ Logged(q, "END")' <=> Logged(q, "END")
    PROVE  RowIsOfItsRun'
<1> SUFFICES ASSUME campaign.where = "standalone", abandoned' = {},
                    NEW i \in DOMAIN rows, own'[rows[i].run]
             PROVE  /\ rows[i].log = name'[rows[i].run]
                    /\ rows[i].has_sdc = Logged(rows[i].run, "SDC")'
                    /\ rows[i].has_end = Logged(rows[i].run, "END")'
  BY Zenon DEF RowIsOfItsRun, Logged
<1> DEFINE q == rows[i].run
<1>1. /\ own'[q] = own[q] /\ name'[q] = name[q]
      /\ Logged(q, "SDC")' <=> Logged(q, "SDC")
      /\ Logged(q, "END")' <=> Logged(q, "END")
  OBVIOUS
<1>2. /\ rows[i].log = name[q]
      /\ rows[i].has_sdc = Logged(q, "SDC")
      /\ rows[i].has_end = Logged(q, "END")
  BY <1>1 DEF RowIsOfItsRun
<1>3. (Logged(q, "SDC")' = Logged(q, "SDC")) /\ (Logged(q, "END")' = Logged(q, "END"))
  BY <1>1, Zenon DEF Logged
<1>4. QED
  BY <1>1, <1>2, <1>3, Zenon

LEMMA RowRuns ==
    ASSUME TypeOK
    PROVE  \A i \in DOMAIN rows : rows[i] \in Rows /\ rows[i].run \in Runs
<1>1. \A i \in DOMAIN rows : rows[i] \in Rows
  BY DEF TypeOK
<1>2. \A row \in Rows : row.run \in Runs
  BY DEF Rows
<1>3. QED
  BY <1>1, <1>2

LEMMA LogStepAlone ==
    ASSUME TypeOK, NameInv, AloneInv, RowIsOfItsRun,
           NEW r \in Runs, LogStep(r), NEW words \in SUBSET Words, LogFrame(r, words),
           UNCHANGED mainVars
    PROVE  AloneInv' /\ RowIsOfItsRun'
<1>1. UNCHANGED <<campaign, abandoned, stage, list, total_jobs, batch, rows, out>>
  BY DEF mainVars
<1>2. Alive(r)
  BY DEF LogStep, StatLog, CreateLog, EndIteration, CountErrors, EndLog, Crash, Alive
<1>3. ASSUME campaign.where = "standalone", abandoned = {}
      PROVE  /\ stage = "wait" /\ r = Current /\ r \in batch
             /\ \A i \in DOMAIN rows : rows[i].run \in Runs /\ rows[i].run # r
  <2>1. stage = "wait" /\ r = Current /\ r \in batch
    BY <1>2, <1>3 DEF AloneInv
  <2>2. \A i \in DOMAIN rows : at[rows[i].run] = "over"
    BY <1>3 DEF AloneInv
  <2>3. QED
    BY <1>2, <2>1, <2>2, RowRuns DEF Alive
<1>4. RowIsOfItsRun'
  <2>1. ASSUME campaign.where = "standalone", abandoned = {}, NEW i \in DOMAIN rows
        PROVE LET q == rows[i].run IN
                   /\ own'[q] = own[q] /\ name'[q] = name[q]
                   /\ Logged(q, "SDC")' <=> Logged(q, "SDC")
                   /\ Logged(q, "END")' <=> Logged(q, "END")
    <3>1. rows[i].run \in Runs /\ rows[i].run # r
      BY <1>3, <2>1
    <3>2. "SDC" \in Words /\ "END" \in Words
      BY DEF Words
    <3>3. own'[rows[i].run] = own[rows[i].run] /\ name'[rows[i].run] = name[rows[i].run]
      BY <3>1 DEF LogFrame
    <3>4. /\ Logged(rows[i].run, "SDC")' <=> Logged(rows[i].run, "SDC")
          /\ Logged(rows[i].run, "END")' <=> Logged(rows[i].run, "END")
      <4>1. \A q \in Runs : \A w \in Words : q # r => (Logged(q, w)' <=> Logged(q, w))
        BY FrameLogged
      <4>2. QED
        BY <1>1, <3>1, <3>2, <4>1
    <3>5. QED
      BY <3>3, <3>4
  <2>2. QED
    BY <1>1, <2>1, RowsKept
<1>5. ASSUME campaign.where = "standalone", abandoned = {} PROVE
        /\ \A q \in Runs : at'[q] \notin {"idle", "over"} => stage = "wait" /\ q = Current /\ q \in batch
        /\ batch \subseteq {Current}
        /\ own'[Current] => newest' = name'[Current] /\ \A line \in logs'[newest'] : line[2] = Current
        /\ at'[Current] # "idle" /\ stage # "read"
        /\ \A i \in DOMAIN rows : at'[rows[i].run] = "over"
  <2>1. /\ stage = "wait" /\ r = Current /\ r \in batch /\ batch \subseteq {Current}
        /\ \A i \in DOMAIN rows : rows[i].run \in Runs /\ rows[i].run # r /\ at[rows[i].run] = "over"
        /\ \A q \in Runs : Alive(q) => q = Current
        /\ own[r] => newest = name[r] /\ \A line \in logs[newest] : line[2] = r
    BY <1>3, <1>5 DEF AloneInv
  <2>2. at'[r] # "idle" /\ \A q \in Runs : q # r => at'[q] = at[q]
    BY LogStepBegun DEF TypeOK
  <2>3. \A q \in Runs : at'[q] \notin {"idle", "over"} => q = r
    BY <2>1, <2>2 DEF Alive
  <2>4. ASSUME own'[r] PROVE newest' = name'[r] /\ \A line \in logs'[newest'] : line[2] = r
    <3>1. own[r] \/ (words # {} /\ logs[name[r]] = {})
      BY <2>4 DEF LogFrame
    <3>2. CASE words # {}
      <4>1. Write(r, words) /\ name[r] \in Names /\ name'[r] = name[r]
        BY <3>2 DEF LogFrame
      <4>2. newest' = name[r] /\ logs'[name[r]] = logs[name[r]] \cup (words \X {r})
        BY <4>1, WriteLines DEF TypeOK
      <4>3. \A line \in logs[name[r]] : line[2] = r
        BY <2>1, <3>1
      <4>4. \A line \in words \X {r} : line[2] = r
        OBVIOUS
      <4>5. QED
        BY <4>1, <4>2, <4>3, <4>4
    <3>3. CASE words = {}
      <4>1. own[r] /\ at[r] \notin Starting
        BY <3>1, <3>3 DEF NameInv
      <4>2. name'[r] = name[r]
        BY <4>1 DEF LogFrame, Starting
      <4>3. UNCHANGED <<logs, newest>>
        <5>1. CASE Write(r, words)
          <6>1. name[r] \in Names
            BY <4>1 DEF NameInv
          <6>2. newest = name[r] /\ newest' = name[r]
            BY <2>1, <4>1, <5>1 DEF Write
          <6>3. logs' = [logs EXCEPT ![name[r]] = @ \cup (words \X {r})]
            BY <5>1 DEF Write
          <6>4. logs' = logs
            BY <3>3, <6>1, <6>3 DEF TypeOK, LogTypeOK
          <6>5. QED
            BY <6>2, <6>4
        <5>2. CASE ~Write(r, words)
          BY <5>2 DEF LogFrame
        <5>3. QED
          BY <5>1, <5>2
      <4>4. QED
        BY <2>1, <4>1, <4>2, <4>3
    <3>4. QED
      BY <3>2, <3>3
  <2>5. QED
    BY <2>1, <2>2, <2>3, <2>4
<1>6. AloneInv'
  <2>1. Current' = Current
    BY <1>1 DEF Current
  <2>2. \A q \in Runs : Alive(q)' <=> at'[q] \notin {"idle", "over"}
    BY Zenon DEF Alive
  <2> HIDE DEF LogFrame
  <2>3. QED
    BY <1>1, <1>5, <2>1, <2>2 DEF AloneInv
<1>7. QED
  BY <1>4, <1>6

\* A run that is killed is over; one that is left alone ends the claim.
LEMMA JobReturnsAlone ==
    ASSUME TypeOK, AloneInv, RowIsOfItsRun, NEW r \in Runs, JobReturns(r)
    PROVE  AloneInv' /\ RowIsOfItsRun'
<1>1. /\ r \in batch /\ batch' = batch \ {r}
      /\ UNCHANGED <<name, own, logs, newest, campaign, stage, list, total_jobs, rows, out>>
      /\ (at' = [at EXCEPT ![r] = "over"] /\ abandoned' = abandoned) \/ abandoned' # {}
  BY DEF JobReturns, GoTo
<1>2. abandoned' = {} => abandoned = {}
  BY <1>1
<1>3. RowIsOfItsRun'
  <2>1. \A q \in Runs : \A w \in Words : Logged(q, w)' <=> Logged(q, w)
    BY JobReturnsCalls, CallsLogged
  <2>2. "SDC" \in Words /\ "END" \in Words
    BY DEF Words
  <2>3. \A i \in DOMAIN rows : LET q == rows[i].run IN
                   /\ own'[q] = own[q] /\ name'[q] = name[q]
                   /\ Logged(q, "SDC")' <=> Logged(q, "SDC")
                   /\ Logged(q, "END")' <=> Logged(q, "END")
    BY <1>1, <2>1, <2>2, RowRuns
  <2>4. QED
    BY <1>1, <1>2, <2>3, RowsKept
<1>4. AloneInv'
  <2> SUFFICES ASSUME campaign.where = "standalone", abandoned' = {}
               PROVE  AloneInv'
    BY <1>1 DEF AloneInv
  <2>1. abandoned = {} /\ at' = [at EXCEPT ![r] = "over"]
    BY <1>1, <1>2
  <2>2. \A q \in Runs : at'[q] = IF q = r THEN "over" ELSE at[q]
    BY <2>1 DEF TypeOK, LogTypeOK
  <2>3. /\ \A q \in Runs : Alive(q) => q = Current
        /\ batch \subseteq {Current} /\ r = Current
        /\ stage \in {"wait", "list", "read"} /\ own[Current] =>
               newest = name[Current] /\ \A line \in logs[newest] : line[2] = Current
        /\ stage = "read" => out = newest
        /\ \A i \in DOMAIN rows : at[rows[i].run] = "over"
    BY <1>1, <2>1 DEF AloneInv
  <2>4. \A q \in Runs : Alive(q)' <=> at'[q] \notin {"idle", "over"}
    BY Zenon DEF Alive
  <2>5. \A q \in Runs : ~Alive(q)'
    BY <2>2, <2>3, <2>4 DEF Alive
  <2>6. \A i \in DOMAIN rows : at'[rows[i].run] = "over"
    BY <2>2, <2>3, RowRuns
  <2>7. Current' = Current /\ at'[Current] = "over"
    BY <1>1, <2>2, <2>3 DEF Current
  <2>8. QED
    BY <1>1, <2>3, <2>5, <2>6, <2>7 DEF AloneInv
<1>5. QED
  BY <1>3, <1>4

\* Without a job to wait for, no run is alive.
LEMMA NoneAlive ==
    ASSUME AloneInv, campaign.where = "standalone", abandoned = {}, batch = {}
    PROVE  \A r \in Runs : ~Alive(r)
  BY DEF AloneInv

\* Reading the newest log after the run is over.
LEMMA ReadLogRow ==
    ASSUME TypeOK, NameInv, PlaceInv, LinesInv, AloneInv,
           campaign.where = "standalone", abandoned = {}, stage = "read", own[Current]
    PROVE  /\ out = name[Current]
           /\ InLog(out, "SDC") <=> Logged(Current, "SDC")
           /\ InLog(out, "END") <=> Logged(Current, "END")
<1>1. Current \in Runs /\ out \in Names
  BY CurrentIsRun DEF PlaceInv
<1>2. out = name[Current] /\ \A line \in logs[out] : line[2] = Current
  BY DEF AloneInv
<1>3. \A line \in logs[out] : line \in Words \X (Runs \cup {NoRun})
  BY <1>1 DEF TypeOK, LogTypeOK
<1>4. ASSUME NEW w \in Words PROVE InLog(out, w) <=> Logged(Current, w)
  <2>1. ASSUME InLog(out, w) PROVE Logged(Current, w)
    <3>1. PICK line \in logs[out] : line[1] = w
      BY <2>1 DEF InLog
    <3>2. line = <<line[1], line[2]>>
      BY <1>3
    <3>3. <<w, Current>> \in logs[out]
      BY <1>2, <3>1, <3>2
    <3>4. QED
      BY <1>1, <3>3 DEF Logged
  <2>2. ASSUME Logged(Current, w) PROVE InLog(out, w)
    <3>1. PICK n \in Names : <<w, Current>> \in logs[n]
      BY <2>2 DEF Logged
    <3>2. n = out
      BY <1>1, <1>2, <3>1 DEF LinesInv
    <3>3. QED
      BY <3>1, <3>2 DEF InLog
  <2>3. QED
    BY <2>1, <2>2
<1>5. "SDC" \in Words /\ "END" \in Words
  BY DEF Words
<1>6. QED
  BY <1>2, <1>4, <1>5

LEMMA ReadLogAlone ==
    ASSUME TypeOK, NameInv, PlaceInv, LinesInv, AloneInv, RowIsOfItsRun, ReadLog
    PROVE  AloneInv' /\ RowIsOfItsRun'
<1> DEFINE row == [run |-> <<list, total_jobs>>, log |-> out,
                   has_sdc |-> InLog(out, "SDC"), has_end |-> InLog(out, "END")]
<1>1. /\ stage = "read" /\ stage' = "next" /\ rows' = Append(rows, row)
      /\ UNCHANGED <<at, name, own, logs, newest, campaign, list, total_jobs, batch, out, abandoned>>
  BY DEF ReadLog, logVars
<1>2. batch = {} /\ Current \in Runs
  BY <1>1, CurrentIsRun DEF PlaceInv
<1>3. /\ row.run = Current /\ row.log = out
      /\ row.has_sdc = InLog(out, "SDC") /\ row.has_end = InLog(out, "END")
  BY DEF Current
<1>4. row \in Rows
  BY <1>1, <1>2 DEF Rows, PlaceInv, InLog, Current
<1> HIDE DEF row
<1>5. /\ rows \in Seq(Rows) /\ DOMAIN rows = 1..Len(rows) /\ Len(rows) \in Nat
      /\ DOMAIN rows' = 1..(Len(rows) + 1)
      /\ \A i \in DOMAIN rows : rows'[i] = rows[i]
      /\ rows'[Len(rows) + 1] = row
  BY <1>1, <1>4 DEF TypeOK
<1>6. \A i \in DOMAIN rows' : i \in DOMAIN rows \/ i = Len(rows) + 1
  BY <1>5
<1> SUFFICES ASSUME campaign.where = "standalone", abandoned = {}
             PROVE  AloneInv' /\ RowIsOfItsRun'
  BY <1>1 DEF AloneInv, RowIsOfItsRun
<1>7. \A r \in Runs : ~Alive(r)
  BY <1>2, NoneAlive
<1>8. at[Current] = "over"
  BY <1>1, <1>2, <1>7 DEF AloneInv, Alive
<1>9. AloneInv'
  <2>1. \A r \in Runs : ~Alive(r)'
    BY <1>1, <1>7 DEF Alive
  <2>2. \A i \in DOMAIN rows' : at[rows'[i].run] = "over"
    BY <1>3, <1>5, <1>6, <1>8 DEF AloneInv
  <2>3. batch' \subseteq {Current}
    BY <1>1, <1>2
  <2>4. Current' = Current
    BY <1>1 DEF Current
  <2>5. QED
    BY <1>1, <2>1, <2>2, <2>3, <2>4 DEF AloneInv
<1>10. RowIsOfItsRun'
  <2> SUFFICES ASSUME NEW i \in DOMAIN rows', own[rows'[i].run]
               PROVE  /\ rows'[i].log = name[rows'[i].run]
                      /\ rows'[i].has_sdc = Logged(rows'[i].run, "SDC")
                      /\ rows'[i].has_end = Logged(rows'[i].run, "END")
    BY <1>1 DEF RowIsOfItsRun, Logged
  <2>1. CASE i \in DOMAIN rows
    BY <1>5, <2>1 DEF RowIsOfItsRun
  <2>2. CASE i = Len(rows) + 1
    <3>1. rows'[i] = row /\ own[Current]
      BY <1>3, <1>5, <2>2
    <3>2. /\ out = name[Current]
          /\ InLog(out, "SDC") <=> Logged(Current, "SDC")
          /\ InLog(out, "END") <=> Logged(Current, "END")
      BY <1>1, <3>1, ReadLogRow
    <3>3. InLog(out, "SDC") = Logged(Current, "SDC") /\ InLog(out, "END") = Logged(Current, "END")
      BY <3>2, Zenon DEF InLog, Logged
    <3>4. QED
      BY <1>3, <3>1, <3>2, <3>3, Zenon
  <2>3. QED
    BY <1>6, <2>1, <2>2
<1>11. QED
  BY <1>9, <1>10

LEMMA SubmitAlone ==
    ASSUME TypeOK, NameInv, PlaceInv, AheadInv, AloneInv, Submit
    PROVE  AloneInv'
<1>1. Line \in Runs /\ at[Line] = "idle" /\ ~own[Line]
  BY LineIsRun, LineIsIdle DEF Submit, Takes, NameInv, Starting
<1>2. /\ stage = "next" /\ stage' = "wait" /\ batch' = {Line}
      /\ at' = [r \in Runs |-> IF r \in {Line} THEN "stat" ELSE at[r]]
      /\ UNCHANGED <<own, campaign, abandoned, rows>>
  BY DEF Submit, Takes, Launch
<1>3. Current' = Line
  BY DEF Submit, Current, Line
<1>4. batch = {}
  BY <1>2 DEF PlaceInv
<1> SUFFICES ASSUME campaign.where = "standalone", abandoned = {}
             PROVE  AloneInv'
  BY <1>2 DEF AloneInv
<1>5. \A r \in Runs : ~Alive(r)
  BY <1>4, NoneAlive
<1>6. at'[Line] = "stat" /\ \A r \in Runs : r # Line => at'[r] = at[r]
  BY <1>1, <1>2
<1>7. \A r \in Runs : Alive(r)' <=> at'[r] \notin {"idle", "over"}
  BY Zenon DEF Alive
<1>8. \A r \in Runs : Alive(r)' => r = Line
  BY <1>5, <1>6, <1>7 DEF Alive
<1>9. \A i \in DOMAIN rows : at'[rows[i].run] = "over"
  <2>1. \A i \in DOMAIN rows : rows[i].run \in Runs /\ at[rows[i].run] = "over"
    BY RowRuns DEF AloneInv
  <2>2. QED
    BY <1>1, <1>6, <2>1
<1>10. QED
  BY <1>1, <1>2, <1>3, <1>6, <1>8, <1>9 DEF AloneInv

\* The other steps of main leave the runs and the rows alone.
LEMMA QuietAlone ==
    ASSUME AloneInv, batch = {}, stage' # "wait",
           UNCHANGED <<at, name, own, logs, newest, campaign, batch, abandoned, rows>>,
           \/ stage' \in {"next", "done", "died"}
           \/ UNCHANGED <<list, total_jobs>> /\ stage \in {"wait", "list"}
              /\ (stage' = "read" => out' = newest)
    PROVE  AloneInv'
<1> SUFFICES ASSUME campaign.where = "standalone", abandoned = {}
             PROVE  AloneInv'
  BY DEF AloneInv
<1>1. \A i \in DOMAIN rows : at[rows[i].run] = "over"
  BY DEF AloneInv
<1>2. \A r \in Runs : ~Alive(r)'
  BY NoneAlive DEF Alive
<1>3. CASE stage' \in {"next", "done", "died"}
  BY <1>1, <1>2, <1>3 DEF AloneInv
<1>4. CASE UNCHANGED <<list, total_jobs>> /\ stage \in {"wait", "list"} /\ (stage' = "read" => out' = newest)
  <2>1. Current' = Current
    BY <1>4 DEF Current
  <2>2. /\ own[Current] => newest = name[Current] /\ \A line \in logs[newest] : line[2] = Current
        /\ at[Current] # "idle"
    BY <1>4 DEF AloneInv
  <2>3. QED
    BY <1>1, <1>2, <1>4, <2>1, <2>2 DEF AloneInv
<1>5. QED
  BY <1>3, <1>4

LEMMA MainAlone ==
    ASSUME TypeOK, NameInv, PlaceInv, AheadInv, JobsInv, LinesInv, AloneInv, RowIsOfItsRun, MainStep
    PROVE  AloneInv' /\ RowIsOfItsRun'
<1>1. CASE ReadLog
  BY <1>1, ReadLogAlone
<1>2. CASE ~ReadLog
  <2>1. UNCHANGED <<campaign, rows, abandoned, name, own, logs, newest>>
    BY <1>2 DEF MainStep, NextList, SkipLine, Submit, Collect, Waited, ListLogs, Finish, logVars
  <2>2. RowIsOfItsRun'
    <3>1. \A q \in Runs : \A w \in Words : Logged(q, w)' <=> Logged(q, w)
      BY MainCalls, CallsLogged
    <3>2. "SDC" \in Words /\ "END" \in Words
      BY DEF Words
    <3>3. \A i \in DOMAIN rows : LET q == rows[i].run IN
                   /\ own'[q] = own[q] /\ name'[q] = name[q]
                   /\ Logged(q, "SDC")' <=> Logged(q, "SDC")
                   /\ Logged(q, "END")' <=> Logged(q, "END")
      BY <2>1, <3>1, <3>2, RowRuns
    <3>4. QED
      BY <2>1, <3>3, RowsKept
  <2>3. AloneInv'
    <3>1. CASE Submit
      BY <3>1, SubmitAlone
    <3>2. CASE Collect
      BY <2>1, <3>2 DEF Collect, Takes, AloneInv
    <3>3. CASE NextList \/ SkipLine \/ Finish
      <4>1. /\ UNCHANGED <<at, batch>> /\ stage' \in {"next", "done", "died"}
        BY <3>3 DEF NextList, SkipLine, Takes, Finish, logVars
      <4>2. batch = {}
        BY <3>3 DEF NextList, SkipLine, Takes, Finish, PlaceInv
      <4>3. QED
        BY <2>1, <4>1, <4>2, QuietAlone
    <3>4. CASE Waited
      <4>1. /\ UNCHANGED <<at, batch, list, total_jobs>> /\ stage = "wait" /\ batch = {} /\ stage' = "list"
        BY <3>4 DEF Waited, logVars
      <4>2. QED
        BY <2>1, <4>1, QuietAlone
    <3>5. CASE ListLogs
      <4>1. /\ UNCHANGED <<at, batch, list, total_jobs>> /\ stage = "list" /\ out' = newest
            /\ stage' \in {"died", "read"}
        BY <3>5 DEF ListLogs, logVars
      <4>2. batch = {}
        BY <4>1 DEF PlaceInv
      <4>3. QED
        BY <2>1, <4>1, <4>2, QuietAlone
    <3>6. QED
      BY <1>2, <3>1, <3>2, <3>3, <3>4, <3>5 DEF MainStep
  <2>4. QED
    BY <2>2, <2>3
<1>3. QED
  BY <1>1, <1>2

-----------------------------------------------------------------------------
(* The theorems.                                                           *)

LEMMA CampaignInit ==
    Init => IInv
<1> SUFFICES ASSUME Init PROVE IInv
  OBVIOUS
<1>1. TypeOK /\ NameInv /\ PlaceInv
  BY InitTypes
<1>2. \A r \in Runs : /\ at[r] = "idle" /\ errs[r] = <<>> /\ iteration_number[r] = 0
                      /\ last_iter_errors[r] = 0 /\ last_iter_with_errors[r] = 0 /\ ~own[r]
  BY DEF Init, LogInit
<1>3. batch = {} /\ jobs_list = <<>> /\ rows = <<>> /\ stage = "next"
  BY DEF Init
<1>4. AheadInv
  <2>1. ToSet(jobs_list) = {}
    BY <1>3 DEF ToSet
  <2>2. \A l \in DOMAIN campaign.lists : \A i \in DOMAIN campaign.lists[l] : <<l, i>> \in Runs
    BY CampaignLists DEF Init
  <2>3. QED
    BY <1>2, <2>1, <2>2 DEF AheadInv
<1>5. JobsInv /\ OneJobPerDevice
  BY <1>3 DEF JobsInv, OneJobPerDevice
<1>6. \A n \in Names, w \in Words : \A r : <<w, r>> \in logs[n] => w # "ABORT" /\ r = NoRun
  BY DEF Init, LogInit
<1>7. \A n \in Names, w \in Words, r \in Runs : <<w, r>> \in logs[n] => FALSE
  <2> SUFFICES ASSUME NEW n \in Names, NEW w \in Words, NEW r \in Runs, <<w, r>> \in logs[n]
               PROVE FALSE
    OBVIOUS
  <2>1. r = NoRun
    BY <1>6
  <2>2. QED
    BY <2>1, CountsAssumption
<1>8. LinesInv
  BY <1>7 DEF LinesInv
<1>9. \A r \in Runs : CountInv(r)
  <2> TAKE r \in Runs
  <2>1. ~Logged(r, "ABORT")
    BY <1>7 DEF Logged, Words
  <2>2. ~Offends(errs[r]) /\ LastErrors(r)
    BY <1>2, OffendsNothing DEF LastErrors
  <2>3. QED
    BY <1>2, <2>1, <2>2 DEF CountInv
<1>10. AloneInv
  BY <1>2, <1>3 DEF AloneInv, Alive
<1>11. RowIsOfItsRun
  BY <1>3 DEF RowIsOfItsRun
<1>12. QED
  BY <1>1, <1>4, <1>5, <1>8, <1>9, <1>10, <1>11 DEF IInv

\* Steps that move no run and not main.
Unmoved == UNCHANGED <<mainVars, at, name, own, logs, newest, iteration_number, last_iter_errors,
                       last_iter_with_errors, errs>>

LEMMA UnmovedKeeps ==
    ASSUME NameInv, PlaceInv, AheadInv, JobsInv, OneJobPerDevice,
           LinesInv, \A r \in Runs : CountInv(r), AloneInv, RowIsOfItsRun, Unmoved
    PROVE  /\ NameInv' /\ PlaceInv' /\ AheadInv' /\ JobsInv' /\ OneJobPerDevice'
           /\ LinesInv' /\ (\A r \in Runs : CountInv(r))' /\ AloneInv' /\ RowIsOfItsRun'
<1> USE DEF Unmoved, mainVars
<1>1. NameInv' /\ PlaceInv' /\ LinesInv'
  BY DEF NameInv, PlaceInv, LinesInv
<1>2. AheadInv' /\ JobsInv' /\ OneJobPerDevice'
  BY DEF AheadInv, JobsInv, OneJobPerDevice
<1>3. (\A r \in Runs : CountInv(r))'
  BY DEF CountInv, LastErrors, Offends, Logged
<1>4. AloneInv'
  BY DEF AloneInv, Alive, Current
<1>5. RowIsOfItsRun'
  BY DEF RowIsOfItsRun, Logged
<1>6. QED
  BY <1>1, <1>2, <1>3, <1>4, <1>5

LEMMA CampaignStep ==
    IInv /\ [Next]_vars => IInv'
<1> SUFFICES ASSUME IInv, [Next]_vars PROVE IInv'
  OBVIOUS
<1>0. /\ TypeOK /\ LogTypeOK /\ NameInv /\ PlaceInv
      /\ AheadInv /\ JobsInv /\ OneJobPerDevice
      /\ LinesInv /\ \A r \in Runs : CountInv(r)
      /\ AloneInv /\ RowIsOfItsRun
  BY DEF IInv, TypeOK
<1>1. CASE MainStep
  <2>1. Calls
    BY <1>0, <1>1, MainCalls
  <2>2. LogTypeOK' /\ NameInv'
    BY <1>0, <2>1, CallsTypes
  <2>3. TypeOK' /\ PlaceInv'
    BY <1>0, <1>1, <2>2, MainTypes
  <2>4. AheadInv' /\ JobsInv' /\ OneJobPerDevice'
    BY <1>0, <1>1, MainJobs
  <2>5. LinesInv' /\ (\A r \in Runs : CountInv(r))'
    BY <1>0, <2>1, CallsCounts
  <2>6. AloneInv' /\ RowIsOfItsRun'
    BY <1>0, <1>1, MainAlone
  <2>7. QED
    BY <2>2, <2>3, <2>4, <2>5, <2>6 DEF IInv
<1>2. ASSUME NEW r \in Runs, JobReturns(r) PROVE IInv'
  <2>1. Calls
    BY <1>0, <1>2, JobReturnsCalls
  <2>2. LogTypeOK' /\ NameInv'
    BY <1>0, <2>1, CallsTypes
  <2>3. TypeOK' /\ PlaceInv'
    BY <1>0, <1>2, <2>2, JobReturnsTypes
  <2>4. AheadInv' /\ JobsInv' /\ OneJobPerDevice'
    BY <1>0, <1>2, JobReturnsJobs
  <2>5. LinesInv' /\ (\A q \in Runs : CountInv(q))'
    BY <1>0, <2>1, CallsCounts
  <2>6. AloneInv' /\ RowIsOfItsRun'
    BY <1>0, <1>2, JobReturnsAlone
  <2>7. QED
    BY <2>2, <2>3, <2>4, <2>5, <2>6 DEF IInv
<1>3. ASSUME NEW r \in Runs, LogStep(r), UNCHANGED mainVars PROVE IInv'
  <2>1. PICK words \in SUBSET Words : LogFrame(r, words)
    BY <1>0, <1>3, LogStepFrame
  <2>2. LogTypeOK' /\ NameInv'
    BY <1>0, <1>3, LogStepTypes
  <2>3. TypeOK' /\ PlaceInv'
    BY <1>0, <1>3, <2>2 DEF mainVars, TypeOK, PlaceInv
  <2>4. AheadInv' /\ JobsInv' /\ OneJobPerDevice'
    BY <1>0, <1>3, LogStepJobs
  <2>5. LinesInv'
    BY <1>0, <2>1, LinesStep
  <2>6. ASSUME NEW q \in Runs PROVE CountInv(q)'
    <3>1. CASE q = r
      BY <1>0, <1>3, <3>1, OwnCounts
    <3>2. CASE q # r
      BY <1>0, <2>1, <3>2, OthersCounts
    <3>3. QED
      BY <3>1, <3>2
  <2>7. (\A q \in Runs : CountInv(q))'
    BY <2>6
  <2>8. AloneInv' /\ RowIsOfItsRun'
    BY <1>0, <1>3, <2>1, LogStepAlone
  <2>9. QED
    BY <2>2, <2>3, <2>4, <2>5, <2>7, <2>8 DEF IInv
<1>4. CASE Tick /\ UNCHANGED mainVars
  <2>1. clock' \in Names /\ UNCHANGED <<at, name, own, logs, newest, counterVars>>
    BY <1>0, <1>4, CountsAssumption DEF Tick, LogTypeOK, Names
  <2>2. UNCHANGED <<mainVars, at, name, own, logs, newest, iteration_number, last_iter_errors,
                    last_iter_with_errors, errs>>
    BY <1>4, <2>1 DEF counterVars
  <2>3. TypeOK'
    BY <1>0, <2>1, <2>2 DEF TypeOK, LogTypeOK, mainVars
  <2>4. Unmoved
    BY <2>2 DEF Unmoved
  <2>5. QED
    BY <1>0, <2>3, <2>4, UnmovedKeeps DEF IInv
<1>5. CASE UNCHANGED vars
  <2>1. UNCHANGED <<mainVars, at, name, own, logs, newest, iteration_number, last_iter_errors,
                    last_iter_with_errors, errs>> /\ clock' = clock
    BY <1>5 DEF vars, logVars, counterVars
  <2>2. TypeOK'
    BY <1>0, <2>1 DEF TypeOK, LogTypeOK, mainVars
  <2>3. Unmoved
    BY <2>1 DEF Unmoved
  <2>4. QED
    BY <1>0, <2>2, <2>3, UnmovedKeeps DEF IInv
<1>6. QED
  BY <1>1, <1>2, <1>3, <1>4, <1>5 DEF Next

\* The inductive invariant of the campaign and of the logs of its runs.
THEOREM CampaignInvariance == Spec => []IInv
<1>1. Init => IInv
  BY CampaignInit
<1>2. IInv /\ [Next]_vars => IInv'
  BY CampaignStep
<1>3. QED
  BY <1>1, <1>2, PTL DEF Spec

\* The state of main and of the runs keeps its types.
THEOREM CampaignTypeCorrect == Spec => []TypeOK
<1>1. IInv => TypeOK
  BY DEF IInv
<1>2. QED
  BY <1>1, CampaignInvariance, PTL

\* check_and_submit_multigpu never gives a GPU two jobs of a batch.
THEOREM DevicesAreNotShared == Spec => []OneJobPerDevice
<1>1. IInv => OneJobPerDevice
  BY DEF IInv
<1>2. QED
  BY <1>1, CampaignInvariance, PTL

\* log_error_count aborts a run exactly when an iteration has too many errors or as
\* many as the one before, for any benchmark, limit and counts.
THEOREM AbortsAreRepeats == Spec => []AbortMeansRepeat
<1>1. IInv => AbortMeansRepeat
  <2> SUFFICES ASSUME IInv, NEW r \in Runs
               PROVE  Logged(r, "ABORT") <=> Offends(errs[r])
    BY DEF AbortMeansRepeat, Offends
  <2>1. QED
    BY DEF IInv, CountInv
<1>2. QED
  BY <1>1, CampaignInvariance, PTL

\* On one GPU check_sdc_fernando reads the log of the run that was submitted, as long
\* as no run was left alone and the run created its log.
THEOREM RowsAreOfTheirRuns == Spec => []RowIsOfItsRun
<1>1. IInv => RowIsOfItsRun
  BY DEF IInv
<1>2. QED
  BY <1>1, CampaignInvariance, PTL

-----------------------------------------------------------------------------
(* The rows follow the lists, and the jobs go out in whole batches.        *)

\* A line has been submitted and its row has not been written.
Submitted == stage \in {"wait", "list", "read", "died"}

\* The usable lines taken so far: those of the rows and the current one.
TakenLen == IF Submitted THEN Len(rows) + 1 ELSE Len(rows)
TakenAt(i) == IF i <= Len(rows) THEN rows[i].run ELSE Current

\* The usable lines up to the one taken last.
TakenLines ==
    {r \in UsableLines : r[1] < list \/ (r[1] = list /\ r[2] <= total_jobs)}

\* They are taken in order, each once.
OrderInv ==
    /\ {TakenAt(i) : i \in 1..TakenLen} = TakenLines
    /\ \A i, j \in 1..TakenLen : i < j => Precedes(TakenAt(i), TakenAt(j))

\* The collected jobs are the lines taken last; those before have been launched, in
\* whole batches.
BatchInv ==
    /\ Len(jobs_list) <= TakenLen /\ Len(jobs_list) < BatchSize
    /\ \A d \in DOMAIN jobs_list : jobs_list[d] = TakenAt(TakenLen - Len(jobs_list) + d)
    /\ Launched = {TakenAt(i) : i \in 1..(TakenLen - Len(jobs_list))}
    /\ \E m \in Nat : TakenLen - Len(jobs_list) = m * BatchSize

\* When main is done no list is left.
DoneInv == stage = "done" => list > Len(campaign.lists)

RowsInv == OrderInv /\ BatchInv /\ DoneInv

\* What is left of whole batches.
LEMMA WholeBatches ==
    ASSUME NEW m \in Nat, NEW b \in Nat \ {0}, NEW l \in 0..(b - 1)
    PROVE  (m * b + l) % b = l
  BY SMTT(30)

LEMMA UsableLine ==
    ASSUME campaign \in Campaigns, NEW r \in UsableLines
    PROVE  /\ r \in Runs /\ r = <<r[1], r[2]>>
           /\ r[1] \in DOMAIN campaign.lists /\ r[2] \in DOMAIN campaign.lists[r[1]]
           /\ r[1] \in Nat /\ r[2] \in Nat \ {0}
           /\ r[2] <= Len(campaign.lists[r[1]]) /\ r[2] <= THRESHOLD_JOBS
           /\ campaign.lists[r[1]][r[2]] = "usable"
<1>1. PICK l \in DOMAIN campaign.lists :
        \E i \in DOMAIN campaign.lists[l] :
            r = <<l, i>> /\ i <= THRESHOLD_JOBS /\ campaign.lists[l][i] = "usable"
  BY DEF UsableLines
<1>2. PICK i \in DOMAIN campaign.lists[l] :
        r = <<l, i>> /\ i <= THRESHOLD_JOBS /\ campaign.lists[l][i] = "usable"
  BY <1>1
<1>3. r[1] = l /\ r[2] = i
  BY <1>2
<1>4. r \in Runs
  BY DEF UsableLines
<1>5. l \in 1..Len(campaign.lists) /\ i \in 1..Len(campaign.lists[l]) /\ Len(campaign.lists[l]) \in Nat
  BY CampaignLists
<1>6. QED
  BY <1>2, <1>3, <1>4, <1>5

LEMMA TakenFacts ==
    ASSUME TypeOK
    PROVE  /\ campaign \in Campaigns /\ list \in Nat /\ total_jobs \in Nat
           /\ Len(rows) \in Nat /\ DOMAIN rows = 1..Len(rows)
           /\ TakenLen \in Nat /\ Len(jobs_list) \in Nat
           /\ DOMAIN jobs_list = 1..Len(jobs_list)
           /\ BatchSize \in Nat \ {0}
<1>1. /\ campaign \in Campaigns /\ rows \in Seq(Rows) /\ jobs_list \in Seq(Runs)
      /\ list \in 1..(Len(campaign.lists) + 1) /\ total_jobs \in 0..THRESHOLD_JOBS
  BY DEF TypeOK
<1>2. list \in Nat /\ total_jobs \in Nat
  BY <1>1, CampaignLists, CampaignsAssumption
<1>3. Len(rows) \in Nat /\ DOMAIN rows = 1..Len(rows) /\ Len(jobs_list) \in Nat
      /\ DOMAIN jobs_list = 1..Len(jobs_list)
  BY <1>1
<1>4. QED
  BY <1>1, <1>2, <1>3, CampaignsAssumption DEF TakenLen, BatchSize

\* A step that takes no line, collects none and launches none.
LEMMA RowsFrame ==
    ASSUME TypeOK, RowsInv, campaign' = campaign, jobs_list' = jobs_list, devices' = devices,
           TakenLen' = TakenLen, TakenLines' = TakenLines, DoneInv',
           \A i \in 1..TakenLen : TakenAt(i)' = TakenAt(i)
    PROVE  RowsInv'
<1>1. TakenLen \in Nat /\ Len(jobs_list) \in Nat /\ DOMAIN jobs_list = 1..Len(jobs_list)
  BY TakenFacts
<1>2. BatchSize' = BatchSize /\ Launched' = Launched
  BY DEF BatchSize, Launched
<1>3. Len(jobs_list) <= TakenLen /\ Len(jobs_list) < BatchSize
  BY DEF RowsInv, BatchInv
<1>4. OrderInv'
  <2>1. {TakenAt(i) : i \in 1..TakenLen}' = {TakenAt(i) : i \in 1..TakenLen}
    OBVIOUS
  <2>2. \A i, j \in 1..TakenLen : Precedes(TakenAt(i), TakenAt(j))' <=> Precedes(TakenAt(i), TakenAt(j))
    BY DEF Precedes
  <2>3. QED
    BY <2>1, <2>2 DEF RowsInv, OrderInv
<1>5. BatchInv'
  <2>1. \A d \in DOMAIN jobs_list : TakenLen - Len(jobs_list) + d \in 1..TakenLen
    BY <1>1, <1>3
  <2>2. 1..(TakenLen - Len(jobs_list)) \subseteq 1..TakenLen
    BY <1>1
  <2>3. \A d \in DOMAIN jobs_list : jobs_list'[d] = TakenAt(TakenLen - Len(jobs_list) + d)'
    BY <2>1 DEF RowsInv, BatchInv
  <2>4. Launched' = {TakenAt(i) : i \in 1..(TakenLen - Len(jobs_list))}'
    BY <1>2, <2>2 DEF RowsInv, BatchInv
  <2>5. QED
    BY <1>2, <1>3, <2>3, <2>4 DEF RowsInv, BatchInv
<1>6. QED
  BY <1>4, <1>5 DEF RowsInv

\* Main goes from a list to the next when all its usable lines have been taken.
LEMMA NextListRows ==
    ASSUME TypeOK, RowsInv, NextList
    PROVE  RowsInv'
<1>1. /\ stage = "next" /\ ~HasLine /\ list <= Len(campaign.lists)
      /\ list' = list + 1 /\ total_jobs' = 0
      /\ UNCHANGED <<campaign, jobs_list, stage, rows, devices>>
  BY DEF NextList
<1>2. campaign \in Campaigns /\ list \in Nat /\ total_jobs \in Nat
  BY TakenFacts
<1>3. TakenLen' = TakenLen /\ \A i \in 1..TakenLen : TakenAt(i)' = TakenAt(i)
  BY <1>1, TakenFacts DEF TakenLen, TakenAt, Submitted
<1>4. UsableLines' = UsableLines
  BY <1>1 DEF UsableLines
<1>5. ASSUME NEW r \in UsableLines
      PROVE  (r[1] < list \/ (r[1] = list /\ r[2] <= total_jobs))
               <=> (r[1] < list' \/ (r[1] = list' /\ r[2] <= total_jobs'))
  <2>1. /\ r[1] \in Nat /\ r[2] \in Nat \ {0}
        /\ r[2] <= Len(campaign.lists[r[1]]) /\ r[2] <= THRESHOLD_JOBS
        /\ r[1] \in DOMAIN campaign.lists
    BY <1>2, UsableLine
  <2>2. total_jobs >= Len(campaign.lists[list]) \/ total_jobs >= THRESHOLD_JOBS
    <3>1. list \in DOMAIN campaign.lists
      BY <1>1, <1>2, CampaignLists DEF TypeOK
    <3>2. Len(campaign.lists[list]) \in Nat /\ THRESHOLD_JOBS \in Nat
      BY <1>2, <3>1, CampaignLists, CampaignsAssumption
    <3>3. QED
      BY <1>1, <1>2, <3>2 DEF HasLine, Lines
  <2>3. Len(campaign.lists[r[1]]) \in Nat /\ THRESHOLD_JOBS \in Nat
    BY <1>2, <2>1, CampaignLists, CampaignsAssumption
  <2>4. CASE r[1] = list
    <3>1. r[2] <= total_jobs
      BY <1>2, <2>1, <2>2, <2>3, <2>4
    <3>2. QED
      BY <1>1, <1>2, <2>4, <3>1
  <2>5. CASE r[1] # list
    BY <1>1, <1>2, <2>1, <2>5
  <2>6. QED
    BY <2>4, <2>5
<1>6. TakenLines' = TakenLines
  BY <1>4, <1>5 DEF TakenLines
<1>7. DoneInv'
  BY <1>1 DEF DoneInv
<1>8. QED
  BY <1>1, <1>3, <1>6, <1>7, RowsFrame

\* A short line is taken without a row.
LEMMA SkipLineRows ==
    ASSUME TypeOK, RowsInv, SkipLine
    PROVE  RowsInv'
<1>1. /\ stage = "next" /\ HasLine /\ campaign.lists[list][total_jobs + 1] = "short"
      /\ list' = list /\ total_jobs' = total_jobs + 1
      /\ UNCHANGED <<campaign, jobs_list, stage, rows, devices>>
  BY DEF SkipLine, Takes, Lines
<1>2. campaign \in Campaigns /\ list \in Nat /\ total_jobs \in Nat
  BY TakenFacts
<1>3. TakenLen' = TakenLen /\ \A i \in 1..TakenLen : TakenAt(i)' = TakenAt(i)
  BY <1>1, TakenFacts DEF TakenLen, TakenAt, Submitted
<1>4. UsableLines' = UsableLines
  BY <1>1 DEF UsableLines
<1>5. ASSUME NEW r \in UsableLines
      PROVE  (r[1] = list /\ r[2] <= total_jobs) <=> (r[1] = list' /\ r[2] <= total_jobs')
  <2>1. r[1] \in Nat /\ r[2] \in Nat /\ campaign.lists[r[1]][r[2]] = "usable"
    BY <1>2, UsableLine
  <2>2. ~(r[1] = list /\ r[2] = total_jobs + 1)
    BY <1>1, <2>1
  <2>3. QED
    BY <1>1, <1>2, <2>1, <2>2
<1>6. TakenLines' = TakenLines
  BY <1>1, <1>4, <1>5 DEF TakenLines
<1>7. DoneInv'
  BY <1>1 DEF DoneInv
<1>8. QED
  BY <1>1, <1>3, <1>6, <1>7, RowsFrame

\* What main does when the line has been submitted: the current line becomes a row.
LEMMA ReadLogRows ==
    ASSUME TypeOK, RowsInv, ReadLog
    PROVE  RowsInv'
<1>1. /\ stage = "read" /\ stage' = "next" /\ rows' = Append(rows, rows'[Len(rows) + 1])
      /\ rows'[Len(rows) + 1].run = Current
      /\ UNCHANGED <<campaign, list, total_jobs, jobs_list, devices>>
  BY DEF ReadLog, Current, TypeOK
<1>2. rows \in Seq(Rows) /\ Len(rows) \in Nat
  BY DEF TypeOK
<1>3. Len(rows') = Len(rows) + 1 /\ \A i \in 1..Len(rows) : rows'[i] = rows[i]
  BY <1>2 DEF ReadLog
<1>4. TakenLen' = TakenLen
  BY <1>1, <1>3 DEF TakenLen, Submitted
<1>5. \A i \in 1..TakenLen : TakenAt(i)' = TakenAt(i)
  <2> TAKE i \in 1..TakenLen
  <2>1. TakenLen = Len(rows) + 1
    BY <1>1 DEF TakenLen, Submitted
  <2>2. CASE i <= Len(rows)
    BY <1>2, <1>3, <2>1, <2>2 DEF TakenAt
  <2>3. CASE i = Len(rows) + 1
    BY <1>1, <1>2, <1>3, <2>3 DEF TakenAt
  <2>4. QED
    BY <1>2, <2>1, <2>2, <2>3
<1>6. TakenLines' = TakenLines
  BY <1>1 DEF TakenLines, UsableLines
<1>7. DoneInv'
  BY <1>1 DEF DoneInv
<1>8. QED
  BY <1>1, <1>4, <1>5, <1>6, <1>7, RowsFrame

\* The other steps move neither the lines nor the rows.
LEMMA QuietRows ==
    ASSUME TypeOK, RowsInv, UNCHANGED <<campaign, list, total_jobs, jobs_list, devices, rows>>,
           Submitted' = Submitted, stage' = "done" => stage = "done" \/ list > Len(campaign.lists)
    PROVE  RowsInv'
<1>1. TakenLen' = TakenLen /\ \A i \in 1..TakenLen : TakenAt(i)' = TakenAt(i)
  BY DEF TakenLen, TakenAt, Current
<1>2. TakenLines' = TakenLines
  BY DEF TakenLines, UsableLines
<1>3. DoneInv'
  BY DEF DoneInv, RowsInv
<1>4. QED
  BY <1>1, <1>2, <1>3, RowsFrame

\* Taking a usable line: it comes after those taken before.
LEMMA TakeLineRows ==
    ASSUME TypeOK, RowsInv, Takes("usable"), Submitted',
           total_jobs' = total_jobs + 1, UNCHANGED <<campaign, list, rows>>
    PROVE  /\ TakenLen' = TakenLen + 1 /\ \A n : n = TakenLen + 1 => TakenAt(n)' = Line
           /\ \A i \in 1..TakenLen : TakenAt(i)' = TakenAt(i)
           /\ OrderInv'
<1>1. /\ stage = "next" /\ HasLine /\ campaign.lists[list][total_jobs + 1] = "usable"
      /\ ~Submitted
  BY DEF Takes, Lines, Submitted
<1>2. /\ campaign \in Campaigns /\ list \in Nat /\ total_jobs \in Nat /\ Len(rows) \in Nat
      /\ TakenLen = Len(rows)
  BY <1>1, TakenFacts DEF TakenLen
<1>3. TakenLen' = TakenLen + 1
  BY <1>1, <1>2 DEF TakenLen
<1>4. \A i \in 1..TakenLen : TakenAt(i)' = TakenAt(i)
  BY <1>2 DEF TakenAt
<1>5. \A n : n = TakenLen + 1 => TakenAt(n)' = Line
  BY <1>2 DEF TakenAt, Current, Line
<1>6. TakenLines' = TakenLines \cup {Line}
  <2>1. UsableLines' = UsableLines
    BY DEF UsableLines
  <2>2. Line \in UsableLines
    <3>1. /\ list \in DOMAIN campaign.lists /\ total_jobs + 1 \in DOMAIN campaign.lists[list]
          /\ Line \in Runs /\ total_jobs + 1 \in 0..THRESHOLD_JOBS
      BY <1>1, LineIsRun
    <3>2. total_jobs + 1 <= THRESHOLD_JOBS
      BY <3>1, CampaignsAssumption
    <3>3. QED
      BY <1>1, <3>1, <3>2 DEF UsableLines, Line
  <2>3. ASSUME NEW r \in UsableLines
        PROVE  r[1] = list /\ r[2] <= total_jobs + 1
                 <=> (r[1] = list /\ r[2] <= total_jobs) \/ r = Line
    <3>1. r[1] \in Nat /\ r[2] \in Nat /\ r = <<r[1], r[2]>>
      BY <1>2, UsableLine
    <3>2. r = Line <=> r[1] = list /\ r[2] = total_jobs + 1
      BY <3>1 DEF Line
    <3>3. QED
      BY <1>2, <3>1, <3>2
  <2>4. QED
    BY <2>1, <2>2, <2>3 DEF TakenLines
<1>7. \A i \in 1..TakenLen : Precedes(TakenAt(i), Line)
  <2> TAKE i \in 1..TakenLen
  <2>1. TakenAt(i) \in TakenLines
    BY DEF RowsInv, OrderInv
  <2>2. /\ TakenAt(i)[1] < list \/ (TakenAt(i)[1] = list /\ TakenAt(i)[2] <= total_jobs)
        /\ TakenAt(i)[2] \in Nat
    BY <1>2, <2>1, UsableLine DEF TakenLines
  <2>3. Line[1] = list /\ Line[2] = total_jobs + 1
    BY DEF Line
  <2>4. QED
    BY <1>2, <2>2, <2>3 DEF Precedes
<1>8. \A i \in 1..(TakenLen + 1) : i \in 1..TakenLen \/ i = TakenLen + 1
  BY <1>2
<1>9. OrderInv'
  <2>1. {TakenAt(i) : i \in 1..TakenLen}' = {TakenAt(i) : i \in 1..TakenLen} \cup {Line}
    <3>1. \A r : r \in {TakenAt(i) : i \in 1..TakenLen}'
                   <=> \E i \in 1..(TakenLen + 1) : r = TakenAt(i)'
      BY <1>3
    <3>2. 1..TakenLen \subseteq 1..(TakenLen + 1) /\ TakenLen + 1 \in 1..(TakenLen + 1)
      BY <1>2
    <3>3. PICK n : n = TakenLen + 1
      OBVIOUS
    <3>4. TakenAt(n)' = Line /\ n \in 1..(TakenLen + 1)
      BY <1>5, <3>2, <3>3
    <3>5. \A i \in 1..(TakenLen + 1) : i \in 1..TakenLen \/ i = n
      BY <1>8, <3>3
    <3>6. ASSUME NEW r
          PROVE  (\E i \in 1..(TakenLen + 1) : r = TakenAt(i)')
                   <=> r = Line \/ \E i \in 1..TakenLen : r = TakenAt(i)
      BY <1>4, <3>2, <3>4, <3>5
    <3>7. QED
      BY <3>1, <3>6
  <2>2. ASSUME NEW i \in 1..(TakenLen + 1), NEW j \in 1..(TakenLen + 1), i < j
        PROVE  Precedes(TakenAt(i), TakenAt(j))'
    <3>1. i \in 1..TakenLen
      BY <1>2, <2>2
    <3>2. CASE j \in 1..TakenLen
      <4>1. Precedes(TakenAt(i), TakenAt(j))
        BY <2>2, <3>1, <3>2 DEF RowsInv, OrderInv
      <4>2. QED
        BY <1>4, <3>1, <3>2, <4>1 DEF Precedes
    <3>3. CASE j = TakenLen + 1
      <4>1. Precedes(TakenAt(i), Line)
        BY <1>7, <3>1
      <4>2. TakenAt(j)' = Line
        BY <1>5, <3>3
      <4>3. QED
        BY <1>4, <3>1, <4>1, <4>2 DEF Precedes
    <3>4. QED
      BY <1>8, <3>2, <3>3
  <2>3. QED
    BY <1>3, <1>6, <2>1, <2>2 DEF RowsInv, OrderInv
<1>10. QED
  BY <1>3, <1>4, <1>5, <1>9

\* Standalone, a batch is one job.
LEMMA SubmitRows ==
    ASSUME TypeOK, RowsInv, Submit
    PROVE  RowsInv'
<1>1. /\ Takes("usable") /\ campaign.where = "standalone" /\ total_jobs' = total_jobs + 1
      /\ devices' = [r \in Runs |-> IF r \in {Line} THEN [q \in {Line} |-> 0][r] ELSE devices[r]]
      /\ stage' = "wait" /\ UNCHANGED <<campaign, list, jobs_list, rows>>
  BY DEF Submit, Launch
<1>2. /\ TakenLen' = TakenLen + 1 /\ \A n : n = TakenLen + 1 => TakenAt(n)' = Line
      /\ \A i \in 1..TakenLen : TakenAt(i)' = TakenAt(i)
      /\ OrderInv'
  BY <1>1, TakeLineRows DEF Submitted
<1>3. BatchSize = 1 /\ BatchSize' = 1
  BY <1>1 DEF BatchSize
<1>4. TakenLen \in Nat /\ Len(jobs_list) = 0 /\ DOMAIN jobs_list = 1..0
  BY <1>3, TakenFacts DEF RowsInv, BatchInv
<1>5. Line \in Runs
  BY <1>1, LineIsRun DEF Takes
<1>6. Launched' = Launched \cup {Line}
  <2>1. \A r \in Runs : devices'[r] = IF r = Line THEN 0 ELSE devices[r]
    BY <1>1
  <2>2. QED
    BY <1>5, <2>1 DEF Launched, NoDevice
<1>7. Launched' = {TakenAt(i) : i \in 1..TakenLen}'
  <2>1. Launched = {TakenAt(i) : i \in 1..TakenLen}
    BY <1>4 DEF RowsInv, BatchInv
  <2>2. /\ \A i \in 1..(TakenLen + 1) : i \in 1..TakenLen \/ i = TakenLen + 1
        /\ 1..TakenLen \subseteq 1..(TakenLen + 1) /\ TakenLen + 1 \in 1..(TakenLen + 1)
    BY <1>4
  <2>3. \A r : r \in {TakenAt(i) : i \in 1..TakenLen}'
                 <=> \E i \in 1..(TakenLen + 1) : r = TakenAt(i)'
    BY <1>2
  <2>4. PICK n : n = TakenLen + 1
    OBVIOUS
  <2>5. TakenAt(n)' = Line /\ n \in 1..(TakenLen + 1)
    BY <1>2, <2>2, <2>4
  <2>6. \A i \in 1..(TakenLen + 1) : i \in 1..TakenLen \/ i = n
    BY <2>2, <2>4
  <2>7. ASSUME NEW r
        PROVE  (\E i \in 1..(TakenLen + 1) : r = TakenAt(i)')
                 <=> r = Line \/ \E i \in 1..TakenLen : r = TakenAt(i)
    BY <1>2, <2>2, <2>5, <2>6
  <2>8. QED
    BY <1>6, <2>1, <2>3, <2>7
<1>8. BatchInv'
  <2>1. TakenLen' - Len(jobs_list') = TakenLen' /\ TakenLen' \in Nat
    BY <1>1, <1>2, <1>4
  <2>2. PICK m \in Nat : m = TakenLen'
    BY <2>1
  <2>3. \A d \in DOMAIN jobs_list' : FALSE
    BY <1>1, <1>4
  <2>4. Launched' = {TakenAt(i) : i \in 1..(TakenLen - Len(jobs_list))}'
    BY <1>7, <2>1
  <2>5. Len(jobs_list') <= TakenLen' /\ Len(jobs_list') < 1
    BY <1>1, <1>4, <2>1
  <2>6. \E k \in Nat : TakenLen' - Len(jobs_list') = k * 1
    <3>1. m = m * 1
      OBVIOUS
    <3>2. QED
      BY <2>1, <2>2, <3>1
  <2>7. QED
    BY <1>3, <2>3, <2>4, <2>5, <2>6 DEF BatchInv
<1>9. DoneInv'
  BY <1>1 DEF DoneInv
<1>10. QED
  BY <1>2, <1>8, <1>9 DEF RowsInv

\* On several GPUs the line is collected, and all are launched when there is one per
\* GPU.
LEMMA CollectRows ==
    ASSUME TypeOK, PlaceInv, AheadInv, JobsInv, RowsInv, Collect
    PROVE  RowsInv'
<1> DEFINE jobs == Append(jobs_list, Line)
           dev == [r \in ToSet(jobs) |-> (CHOOSE d \in DOMAIN jobs : jobs[d] = r) - 1]
<1>1. /\ Takes("usable") /\ HasLine /\ campaign.where = "multigpu"
      /\ total_jobs' = total_jobs + 1
      /\ stage' \in {"wait", "list"} /\ UNCHANGED <<campaign, list, rows>>
  BY DEF Collect, Takes
<1>2. /\ TakenLen' = TakenLen + 1 /\ \A n : n = TakenLen + 1 => TakenAt(n)' = Line
      /\ \A i \in 1..TakenLen : TakenAt(i)' = TakenAt(i)
      /\ OrderInv'
  BY <1>1, TakeLineRows DEF Submitted
<1>3. BatchSize = NUM_GPUS /\ BatchSize' = NUM_GPUS /\ NUM_GPUS \in Nat \ {0}
  BY <1>1, CampaignsAssumption DEF BatchSize
<1>4. /\ TakenLen \in Nat /\ Len(jobs_list) \in Nat /\ DOMAIN jobs_list = 1..Len(jobs_list)
      /\ Len(jobs_list) <= TakenLen /\ Len(jobs_list) < NUM_GPUS
      /\ TakenLen - Len(jobs_list) \in Nat
  BY <1>3, TakenFacts DEF RowsInv, BatchInv
<1>0. PICK first \in Nat : first = TakenLen - Len(jobs_list)
  BY <1>4
<1>5. /\ jobs \in Seq(Runs) /\ Len(jobs) = Len(jobs_list) + 1 /\ DOMAIN jobs = 1..(Len(jobs_list) + 1)
      /\ \A d \in 1..Len(jobs_list) : jobs[d] = jobs_list[d]
      /\ jobs[Len(jobs_list) + 1] = Line
  <2>1. Line \in Runs /\ jobs_list \in Seq(Runs)
    BY <1>1, LineIsRun DEF TypeOK
  <2>2. QED
    BY <2>1
<1>6. /\ \A d \in DOMAIN jobs_list : jobs_list[d] = TakenAt(first + d)
      /\ Launched = {TakenAt(i) : i \in 1..first}
  BY <1>0 DEF RowsInv, BatchInv
<1>7. PICK m \in Nat : first = m * NUM_GPUS
  BY <1>0, <1>3 DEF RowsInv, BatchInv
<1>8. DoneInv'
  BY <1>1 DEF DoneInv
<1> HIDE DEF jobs
<1>9. \A d \in DOMAIN jobs : first + d \in 1..(TakenLen + 1) /\ jobs[d] = TakenAt(first + d)'
  <2> TAKE d \in DOMAIN jobs
  <2>1. CASE d = Len(jobs_list) + 1
    BY <1>0, <1>2, <1>4, <1>5, <2>1
  <2>2. CASE d \in 1..Len(jobs_list)
    <3>1. first + d \in 1..TakenLen
      BY <1>0, <1>4, <2>2
    <3>2. QED
      BY <1>0, <1>2, <1>4, <1>5, <1>6, <2>2, <3>1
  <2>3. QED
    BY <1>0, <1>4, <1>5, <2>1, <2>2
<1>10. CASE Len(jobs) = NUM_GPUS
  <2>1. /\ jobs_list' = <<>>
        /\ devices' = [r \in Runs |-> IF r \in ToSet(jobs) THEN dev[r] ELSE devices[r]]
    BY <1>10 DEF Collect, Launch, jobs
  <2>2. \A r \in ToSet(jobs) : r \in Runs /\ dev[r] # NoDevice
    <3> TAKE r \in ToSet(jobs)
    <3>1. \E d \in DOMAIN jobs : jobs[d] = r
      BY DEF ToSet
    <3> DEFINE c == CHOOSE d \in DOMAIN jobs : jobs[d] = r
    <3>2. c \in 1..(Len(jobs_list) + 1)
      BY <1>5, <3>1
    <3>3. dev[r] = c - 1
      OBVIOUS
    <3> HIDE DEF c, dev
    <3>4. QED
      BY <1>0, <1>4, <1>5, <3>1, <3>2, <3>3 DEF NoDevice
  <2> HIDE DEF dev
  <2>3. Launched' = Launched \cup ToSet(jobs)
    BY <2>1, <2>2 DEF Launched
  <2>4. Launched' = {TakenAt(i) : i \in 1..TakenLen}'
    <3>1. \A r : r \in {TakenAt(i) : i \in 1..TakenLen}'
                   <=> \E i \in 1..(TakenLen + 1) : r = TakenAt(i)'
      BY <1>2
    <3>2. \A i \in 1..(TakenLen + 1) : i \in 1..first \/ \E d \in DOMAIN jobs : i = first + d
      <4> TAKE i \in 1..(TakenLen + 1)
      <4>1. CASE i > first
        <5>1. i - first \in DOMAIN jobs /\ i = first + (i - first)
          BY <1>0, <1>4, <1>5, <4>1
        <5>2. QED
          BY <5>1
      <4>2. QED
        BY <1>0, <1>4, <4>1
    <3>3. 1..first \subseteq 1..TakenLen /\ 1..first \subseteq 1..(TakenLen + 1)
      BY <1>0, <1>4
    <3>4. \A r : r \in Launched <=> \E i \in 1..first : r = TakenAt(i)'
      BY <1>2, <1>6, <3>3
    <3>5. \A r : r \in ToSet(jobs) <=> \E d \in DOMAIN jobs : r = TakenAt(first + d)'
      BY <1>9 DEF ToSet
    <3>6. ASSUME NEW r
          PROVE  r \in Launched' <=> \E i \in 1..(TakenLen + 1) : r = TakenAt(i)'
      <4>1. ASSUME r \in Launched' PROVE \E i \in 1..(TakenLen + 1) : r = TakenAt(i)'
        BY <1>9, <2>3, <3>3, <3>4, <3>5, <4>1
      <4>2. ASSUME NEW i \in 1..(TakenLen + 1), r = TakenAt(i)' PROVE r \in Launched'
        BY <2>3, <3>2, <3>4, <3>5, <4>2
      <4>3. QED
        BY <4>1, <4>2
    <3>7. QED
      BY <3>1, <3>6
  <2>5. TakenLen' - Len(jobs_list') = (m + 1) * NUM_GPUS
    <3>1. Len(jobs_list') = 0 /\ TakenLen' = first + NUM_GPUS
      BY <1>0, <1>2, <1>4, <1>5, <1>10, <2>1
    <3>2. m * NUM_GPUS \in Nat /\ (m + 1) * NUM_GPUS = m * NUM_GPUS + NUM_GPUS
      BY <1>3
    <3>3. QED
      BY <1>0, <1>2, <1>3, <1>4, <1>7, <3>1, <3>2
  <2>6. BatchInv'
    <3>1. Len(jobs_list') = 0 /\ TakenLen' - Len(jobs_list') = TakenLen' /\ TakenLen' \in Nat
      BY <1>2, <1>4, <2>1
    <3>2. \A d \in DOMAIN jobs_list' : FALSE
      BY <2>1
    <3>3. \E k \in Nat : TakenLen' - Len(jobs_list') = k * NUM_GPUS
      BY <1>7, <2>5
    <3>4. Launched' = {TakenAt(i) : i \in 1..(TakenLen - Len(jobs_list))}'
      BY <2>4, <3>1
    <3>5. Len(jobs_list') <= TakenLen' /\ Len(jobs_list') < NUM_GPUS
      BY <1>3, <3>1
    <3>6. QED
      BY <1>3, <3>2, <3>3, <3>4, <3>5 DEF BatchInv
  <2>7. QED
    BY <1>2, <1>8, <2>6 DEF RowsInv
<1>11. CASE Len(jobs) # NUM_GPUS
  <2>1. jobs_list' = jobs /\ devices' = devices
    BY <1>11 DEF Collect, jobs
  <2>2. Len(jobs) <= TakenLen' /\ Len(jobs) < NUM_GPUS /\ TakenLen' - Len(jobs) = first
    BY <1>0, <1>2, <1>3, <1>4, <1>5, <1>11
  <2>3. 1..first \subseteq 1..TakenLen
    BY <1>0, <1>4
  <2>4. Launched' = {TakenAt(i) : i \in 1..first}'
    <3>1. Launched' = Launched
      BY <2>1 DEF Launched
    <3>2. \A i \in 1..first : TakenAt(i)' = TakenAt(i)
      BY <1>2, <2>3
    <3>3. QED
      BY <1>6, <3>1, <3>2
  <2>5. BatchInv'
    <3>1. Launched' = {TakenAt(i) : i \in 1..(TakenLen - Len(jobs_list))}'
      BY <2>1, <2>2, <2>4
    <3>2. \A d \in DOMAIN jobs_list' : jobs_list'[d] = TakenAt(TakenLen - Len(jobs_list) + d)'
      <4> TAKE d \in DOMAIN jobs_list'
      <4>1. PICK k : k = first + d
        OBVIOUS
      <4>2. jobs[d] = TakenAt(k)'
        BY <1>9, <2>1, <4>1
      <4>3. k = (TakenLen - Len(jobs_list) + d)'
        BY <2>1, <2>2, <4>1
      <4>4. QED
        BY <2>1, <4>2, <4>3
    <3>3. \E k \in Nat : TakenLen' - Len(jobs_list') = k * NUM_GPUS
      BY <1>7, <2>1, <2>2
    <3>4. Len(jobs_list') <= TakenLen' /\ Len(jobs_list') < NUM_GPUS
      BY <2>1, <2>2
    <3>5. QED
      BY <1>3, <3>1, <3>2, <3>3, <3>4 DEF BatchInv
  <2>6. QED
    BY <1>2, <1>8, <2>5 DEF RowsInv
<1>12. QED
  BY <1>10, <1>11

LEMMA FinishRows ==
    ASSUME TypeOK, RowsInv, Finish
    PROVE  RowsInv'
  BY QuietRows DEF Finish, Submitted

LEMMA RowsInit ==
    Init => RowsInv
<1> SUFFICES ASSUME Init PROVE RowsInv
  OBVIOUS
<1>1. /\ stage = "next" /\ rows = <<>> /\ jobs_list = <<>> /\ campaign \in Campaigns
      /\ list = 1 /\ total_jobs = 0 /\ \A r \in Runs : devices[r] = NoDevice
  BY DEF Init
<1>2. TakenLen = 0 /\ Len(jobs_list) = 0 /\ \A i \in 1..TakenLen : FALSE
  BY <1>1 DEF TakenLen, Submitted
<1>3. TakenLines = {}
  <2>1. ASSUME NEW r \in TakenLines PROVE FALSE
    <3>1. r \in UsableLines /\ (r[1] < list \/ (r[1] = list /\ r[2] <= total_jobs))
      BY DEF TakenLines
    <3>2. r[1] \in Nat /\ r[2] \in Nat \ {0} /\ r[1] \in 1..Len(campaign.lists)
      BY <1>1, <3>1, UsableLine, CampaignLists
    <3>3. QED
      BY <1>1, <3>1, <3>2, CampaignLists
  <2>2. QED
    BY <2>1
<1>4. OrderInv
  BY <1>2, <1>3 DEF OrderInv
<1>5. Launched = {}
  BY <1>1 DEF Launched
<1>6. BatchSize \in Nat \ {0}
  BY CampaignsAssumption DEF BatchSize
<1>7. BatchInv
  <2>1. 0 \in Nat /\ TakenLen - Len(jobs_list) = 0 /\ 0 = 0 * BatchSize
    BY <1>2, <1>6
  <2>2. \A d \in DOMAIN jobs_list : FALSE
    BY <1>1
  <2>3. Len(jobs_list) <= TakenLen /\ Len(jobs_list) < BatchSize
    BY <1>2, <1>6
  <2>4. Launched = {TakenAt(i) : i \in 1..(TakenLen - Len(jobs_list))}
    BY <1>2, <1>5, <2>1
  <2>5. QED
    BY <2>1, <2>2, <2>3, <2>4 DEF BatchInv
<1>8. QED
  BY <1>1, <1>4, <1>7 DEF RowsInv, DoneInv

LEMMA RowsStep ==
    ASSUME IInv, RowsInv, [Next]_vars
    PROVE  RowsInv'
<1>0. TypeOK /\ PlaceInv /\ AheadInv /\ JobsInv
  BY DEF IInv
<1>1. CASE UNCHANGED mainVars
  BY <1>0, <1>1, QuietRows DEF mainVars, Submitted
<1>2. CASE MainStep
  <2>1. CASE Waited \/ ListLogs
    BY <1>0, <2>1, QuietRows DEF Waited, ListLogs, Submitted
  <2>2. QED
    BY <1>0, <1>2, <2>1, NextListRows, SkipLineRows, SubmitRows, CollectRows, ReadLogRows, FinishRows
       DEF MainStep
<1>3. ASSUME NEW r \in Runs, JobReturns(r) PROVE RowsInv'
  BY <1>0, <1>3, QuietRows DEF JobReturns, Submitted
<1>4. QED
  BY <1>1, <1>2, <1>3 DEF Next, vars

\* When main is done all usable lines have been taken, and the last incomplete batch
\* is what is left in jobs_list.
LEMMA RowsAtTheEnd ==
    ASSUME TypeOK, RowsInv
    PROVE  OnlyLastBatchIsLost
<1> SUFFICES ASSUME stage = "done"
             PROVE  /\ {rows[i].run : i \in DOMAIN rows} = UsableLines
                    /\ \A i, j \in DOMAIN rows : i < j => Precedes(rows[i].run, rows[j].run)
                    /\ Launched = {rows[i].run : i \in 1..(Len(rows) - (Len(rows) % BatchSize))}
  BY DEF OnlyLastBatchIsLost
<1>1. /\ campaign \in Campaigns /\ list \in Nat /\ list > Len(campaign.lists)
      /\ Len(rows) \in Nat /\ DOMAIN rows = 1..Len(rows) /\ Len(jobs_list) \in Nat
      /\ BatchSize \in Nat \ {0}
  BY TakenFacts DEF RowsInv, DoneInv
<1>2. TakenLen = Len(rows) /\ \A i \in 1..Len(rows) : TakenAt(i) = rows[i].run
  BY <1>1 DEF TakenLen, TakenAt, Submitted
<1>3. TakenLines = UsableLines
  <2>1. ASSUME NEW r \in UsableLines PROVE r[1] < list
    <3>1. r[1] \in 1..Len(campaign.lists) /\ Len(campaign.lists) \in Nat
      BY <1>1, UsableLine, CampaignLists
    <3>2. QED
      BY <1>1, <3>1
  <2>2. QED
    BY <2>1 DEF TakenLines
<1>4. {rows[i].run : i \in DOMAIN rows} = UsableLines
  BY <1>1, <1>2, <1>3 DEF RowsInv, OrderInv
<1>5. \A i, j \in DOMAIN rows : i < j => Precedes(rows[i].run, rows[j].run)
  <2> SUFFICES ASSUME NEW i \in DOMAIN rows, NEW j \in DOMAIN rows, i < j
               PROVE  Precedes(rows[i].run, rows[j].run)
    OBVIOUS
  <2>1. Precedes(TakenAt(i), TakenAt(j))
    BY <1>1, <1>2 DEF RowsInv, OrderInv
  <2>2. QED
    BY <1>1, <1>2, <2>1
<1>6. Len(rows) - (Len(rows) % BatchSize) = TakenLen - Len(jobs_list)
  <2>1. PICK m \in Nat : TakenLen - Len(jobs_list) = m * BatchSize
    BY DEF RowsInv, BatchInv
  <2>2. Len(jobs_list) \in 0..(BatchSize - 1)
    BY <1>1 DEF RowsInv, BatchInv
  <2>3. Len(rows) = m * BatchSize + Len(jobs_list)
    <3>1. PICK k \in Int : k = m * BatchSize
      BY <1>1
    <3>2. TakenLen - Len(jobs_list) = k
      BY <2>1, <3>1
    <3>3. TakenLen = Len(rows) /\ Len(rows) \in Nat /\ Len(jobs_list) \in Nat
      BY <1>1, <1>2
    <3>4. \A a, b, c \in Int : a - b = c => a = c + b
      OBVIOUS
    <3>5. Len(rows) = k + Len(jobs_list)
      BY <3>2, <3>3, <3>4
    <3>6. QED
      BY <3>1, <3>5
  <2>4. Len(rows) % BatchSize = Len(jobs_list)
    BY <1>1, <2>2, <2>3, WholeBatches
  <2>5. QED
    BY <1>2, <2>4
<1>7. Launched = {rows[i].run : i \in 1..(Len(rows) - (Len(rows) % BatchSize))}
  <2>1. 1..(TakenLen - Len(jobs_list)) \subseteq 1..Len(rows)
    BY <1>1, <1>2
  <2>2. QED
    BY <1>2, <1>6, <2>1 DEF RowsInv, BatchInv
<1>8. QED
  BY <1>4, <1>5, <1>7

\* Every usable line within the threshold gets a row, in order, and
\* check_and_submit_multigpu launches all jobs but those of the last incomplete batch,
\* for any lists and any number of GPUs.
THEOREM LastBatchIsLost == Spec => []OnlyLastBatchIsLost
<1>1. Spec => []RowsInv
  <2>1. Init => RowsInv
    BY RowsInit
  <2>2. IInv /\ RowsInv /\ [Next]_vars => RowsInv'
    BY RowsStep
  <2>3. QED
    BY <2>1, <2>2, CampaignInvariance, PTL DEF Spec
<1>2. TypeOK /\ RowsInv => OnlyLastBatchIsLost
  BY RowsAtTheEnd
<1>3. QED
  BY <1>1, <1>2, CampaignTypeCorrect, PTL
=============================================================================
