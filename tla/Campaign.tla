-------------------------------- MODULE Campaign --------------------------------
(***************************************************************************)
(* scripts/run_injections.py: the lines of the injection lists are         *)
(* submitted one after another, each as a job that runs the benchmark with *)
(* an error; standalone, a job at a time, or on several GPUs, in batches.  *)
(* After each submission the newest log is read and a row written.         *)
(*                                                                         *)
(* Of a job (InjectionJob) it matters that it returns: when its run is     *)
(* over, after killing it, or leaving it alone when the threshold is not a *)
(* whole number of polls.                                                  *)
(***************************************************************************)
EXTENDS LogHelper, SequencesExt

CONSTANTS NUM_GPUS,
          THRESHOLD_JOBS,  \* the most lines taken of a list
          Campaigns        \* where the jobs run, and the lists of usable and short lines

Kinds == [where : {"standalone", "multigpu"}, lists : Seq(Seq({"usable", "short"}))]

ASSUME CampaignsAssumption ==
    /\ NUM_GPUS \in Nat \ {0} /\ THRESHOLD_JOBS \in Nat /\ Campaigns \subseteq Kinds
    /\ \A c \in Campaigns : \A l \in DOMAIN c.lists : \A i \in DOMAIN c.lists[l] : <<l, i>> \in Runs

VARIABLES campaign,
          list, total_jobs,  \* the list and the number of lines taken of it
          jobs_list,         \* runs collected for the next batch
          batch,             \* the jobs that pool.map or os.system waits for
          stage,             \* where main is
          out,               \* what ls has printed
          rows,
          devices,           \* per run: the GPU it was launched on
          abandoned          \* runs left alone by their jobs (history)

mainVars == <<campaign, list, total_jobs, jobs_list, batch, stage, out, rows, devices, abandoned>>
vars == <<logVars, mainVars>>

NoDevice == -1
Rows == [run : Runs, log : Names, has_sdc : BOOLEAN, has_end : BOOLEAN]

TypeOK ==
    /\ LogTypeOK
    /\ campaign \in Campaigns
    /\ list \in 1..(Len(campaign.lists) + 1) /\ total_jobs \in 0..THRESHOLD_JOBS
    /\ jobs_list \in Seq(Runs) /\ Len(jobs_list) <= NUM_GPUS
    /\ batch \subseteq Runs
    /\ stage \in {"next", "wait", "list", "read", "done", "died"}
    /\ out \in Names \cup {NoName}
    /\ rows \in Seq(Rows)
    /\ devices \in [Runs -> 0..(NUM_GPUS - 1) \cup {NoDevice}]
    /\ abandoned \subseteq Runs

Init ==
    /\ LogInit
    /\ campaign \in Campaigns
    /\ list = 1 /\ total_jobs = 0
    /\ jobs_list = <<>> /\ batch = {}
    /\ stage = "next"
    /\ out = NoName
    /\ rows = <<>>
    /\ devices = [r \in Runs |-> NoDevice]
    /\ abandoned = {}

-----------------------------------------------------------------------------
(* main, run_multiple_injections_igid.                                     *)

Lines == campaign.lists[list]
Line == <<list, total_jobs + 1>>

\* A list ends with its lines or at the threshold.
HasLine == list <= Len(campaign.lists) /\ total_jobs < Len(Lines) /\ total_jobs < THRESHOLD_JOBS
Takes(kind) == stage = "next" /\ HasLine /\ Lines[total_jobs + 1] = kind

\* Mutant: the jobs collected so far are dropped with the list.
NextListClearing ==
    /\ stage = "next" /\ ~HasLine /\ list <= Len(campaign.lists)
    /\ list' = list + 1 /\ total_jobs' = 0 /\ jobs_list' = <<>>
    /\ UNCHANGED <<logVars, campaign, batch, stage, out, rows, devices, abandoned>>

NextList ==
    /\ stage = "next" /\ ~HasLine /\ list <= Len(campaign.lists)
    /\ list' = list + 1 /\ total_jobs' = 0
    /\ UNCHANGED <<logVars, campaign, jobs_list, batch, stage, out, rows, devices, abandoned>>

\* A line with less than five fields.
SkipLine ==
    /\ Takes("short")
    /\ total_jobs' = total_jobs + 1
    /\ UNCHANGED <<logVars, campaign, list, jobs_list, batch, stage, out, rows, devices, abandoned>>

Launch(runs, device) ==
    /\ batch' = runs
    /\ at' = [r \in Runs |-> IF r \in runs THEN "stat" ELSE at[r]]
    /\ devices' = [r \in Runs |-> IF r \in runs THEN device[r] ELSE devices[r]]

\* Mutant: the command is started, not waited for.
SubmitWithoutWaiting ==
    /\ Takes("usable") /\ campaign.where = "standalone"
    /\ total_jobs' = total_jobs + 1
    /\ Launch({Line}, [r \in {Line} |-> 0])
    /\ stage' = "list"
    /\ UNCHANGED <<clock, name, own, logs, newest, counterVars, campaign, list, jobs_list,
                   out, rows, abandoned>>

\* os.system(cmd) starts the job and waits for it.
Submit ==
    /\ Takes("usable") /\ campaign.where = "standalone"
    /\ total_jobs' = total_jobs + 1
    /\ Launch({Line}, [r \in {Line} |-> 0])
    /\ stage' = "wait"
    /\ UNCHANGED <<clock, name, own, logs, newest, counterVars, campaign, list, jobs_list,
                   out, rows, abandoned>>

\* Mutant: the list is not cleared.
CollectKeeping ==
    LET jobs == Append(jobs_list, Line) IN
    /\ Takes("usable") /\ campaign.where = "multigpu"
    /\ total_jobs' = total_jobs + 1
    /\ jobs_list' = jobs
    /\ IF Len(jobs) = NUM_GPUS
       THEN Launch(ToSet(jobs), [r \in ToSet(jobs) |-> Len(jobs_list)]) /\ stage' = "wait"
       ELSE stage' = "list" /\ UNCHANGED <<at, batch, devices>>
    /\ UNCHANGED <<clock, name, own, logs, newest, counterVars, campaign, list,
                   out, rows, abandoned>>

\* check_and_submit_multigpu: collect a job for the next device; launch all when
\* there is one for each, and wait for them.
Collect ==
    LET jobs == Append(jobs_list, Line) IN
    /\ Takes("usable") /\ campaign.where = "multigpu"
    /\ total_jobs' = total_jobs + 1
    /\ IF Len(jobs) = NUM_GPUS
       THEN /\ Launch(ToSet(jobs), [r \in ToSet(jobs) |-> (CHOOSE d \in DOMAIN jobs : jobs[d] = r) - 1])
            /\ jobs_list' = <<>> /\ stage' = "wait"
       ELSE /\ jobs_list' = jobs /\ stage' = "list"
            /\ UNCHANGED <<at, batch, devices>>
    /\ UNCHANGED <<clock, name, own, logs, newest, counterVars, campaign, list,
                   out, rows, abandoned>>

\* Mutant: the job does not watch the time.
JobReturnsWhenOver(r) ==
    /\ r \in batch /\ at[r] = "over"
    /\ batch' = batch \ {r}
    /\ UNCHANGED <<logVars, campaign, list, total_jobs, jobs_list, stage, out, rows, devices, abandoned>>

\* A job returns: when its run is over, having killed it, or without.
JobReturns(r) ==
    /\ r \in batch
    /\ batch' = batch \ {r}
    /\ \/ GoTo(r, "over") /\ UNCHANGED abandoned
       \/ Alive(r) /\ abandoned' = abandoned \cup {r} /\ UNCHANGED at
    /\ UNCHANGED <<clock, name, own, logs, newest, counterVars, campaign, list, total_jobs,
                   jobs_list, stage, out, rows, devices>>

Waited ==
    /\ stage = "wait" /\ batch = {}
    /\ stage' = "list"
    /\ UNCHANGED <<logVars, campaign, list, total_jobs, jobs_list, batch, out, rows, devices, abandoned>>

\* check_sdc_fernando: ls -Art | tail -n 1. Without any log, the directory itself
\* is opened, and main dies of the exception.
ListLogs ==
    /\ stage = "list"
    /\ out' = newest
    /\ stage' = IF newest = NoName THEN "died" ELSE "read"
    /\ UNCHANGED <<logVars, campaign, list, total_jobs, jobs_list, batch, rows, devices, abandoned>>

InLog(n, word) == \E line \in logs[n] : line[1] = word

\* Read that log and write the row, for the line submitted last.
ReadLog ==
    /\ stage = "read"
    /\ rows' = Append(rows, [run |-> <<list, total_jobs>>, log |-> out,
                             has_sdc |-> InLog(out, "SDC"), has_end |-> InLog(out, "END")])
    /\ stage' = "next"
    /\ UNCHANGED <<logVars, campaign, list, total_jobs, jobs_list, batch, out, devices, abandoned>>

Finish ==
    /\ stage = "next" /\ list > Len(campaign.lists)
    /\ stage' = "done"
    /\ UNCHANGED <<logVars, campaign, list, total_jobs, jobs_list, batch, out, rows, devices, abandoned>>

MainStep == NextList \/ SkipLine \/ Submit \/ Collect \/ Waited \/ ListLogs \/ ReadLog \/ Finish

Ended == stage \in {"done", "died"}

Next ==
    \/ MainStep
    \/ Tick /\ UNCHANGED mainVars
    \/ \E r \in Runs : JobReturns(r) \/ (LogStep(r) /\ UNCHANGED mainVars)
    \/ Ended /\ UNCHANGED vars

Spec == Init /\ [][Next]_vars

\* The operating system schedules main, and every job returns (InjectionJob).
FairSpec == Spec /\ WF_vars(MainStep) /\ \A r \in Runs : WF_vars(JobReturns(r))

-----------------------------------------------------------------------------
(* Properties.                                                             *)

Launched == {r \in Runs : devices[r] # NoDevice}

\* On one GPU, when no run has been left alone and the run got a log of its own,
\* its row is about it: it names its log and says whether it counted errors, and
\* whether it came to the end of its log or crashed.
RowIsOfItsRun ==
    campaign.where = "standalone" /\ abandoned = {} =>
        \A i \in DOMAIN rows : LET row == rows[i] IN own[row.run] =>
            /\ row.log = name[row.run]
            /\ row.has_sdc = Logged(row.run, "SDC")
            /\ row.has_end = Logged(row.run, "END")

\* No GPU runs two jobs at a time.
OneJobPerDevice == \A q, r \in batch : q # r => devices[q] # devices[r]

\* When the lists are at their end every usable line within the threshold has
\* a row, in order, and only the last incomplete batch has not been launched.
UsableLines ==
    {r \in Runs : \E l \in DOMAIN campaign.lists : \E i \in DOMAIN campaign.lists[l] :
        r = <<l, i>> /\ i <= THRESHOLD_JOBS /\ campaign.lists[l][i] = "usable"}
Precedes(q, r) == q[1] < r[1] \/ (q[1] = r[1] /\ q[2] < r[2])
BatchSize == IF campaign.where = "standalone" THEN 1 ELSE NUM_GPUS
OnlyLastBatchIsLost ==
    stage = "done" =>
        /\ {rows[i].run : i \in DOMAIN rows} = UsableLines
        /\ \A i, j \in DOMAIN rows : i < j => Precedes(rows[i].run, rows[j].run)
        /\ Launched = {rows[i].run : i \in 1..(Len(rows) - (Len(rows) % BatchSize))}

\* Whatever the runs do, the campaign comes to its end, or dies because there is no
\* log at all.
CampaignEnds == <>Ended
=============================================================================
