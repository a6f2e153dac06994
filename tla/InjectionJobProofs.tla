--------------------------- MODULE InjectionJobProofs ---------------------------
(***************************************************************************)
(* What an injection job records, for any jobs, any runs, any threshold    *)
(* and any kernel log: a recorded silent corruption is silent, a recorded  *)
(* masked error is masked, and a threshold of whole polls kills the run.   *)
(***************************************************************************)
EXTENDS InjectionJob, FiniteSetTheorems, SequenceTheorems, TLAPS

\* The jobs whose runs have caused an Xid.
Noisy == {j \in Jobs : logged[j] # "no"}

\* Where the polling of a run is over without a kill.
AfterPoll == {"dmesg", "classify", "clean", "done", "crashed"}

\* The time left is above zero until the first poll, and a run that a job has
\* left alone outlasted a threshold that is not a whole number of polls.
TimeInv ==
    \A j \in Jobs :
        /\ job[j] = "start" => left[j] > 0
        /\ job[j] = "poll" => left[j] > -PollUnits
        /\ job[j] \in AfterPoll /\ proc[j] = "running" => left[j] < 0 /\ left[j] > -PollUnits
        /\ job[j] = "timeout" => proc[j] = "killed"

\* A job that has a return code has it from a run that ended by itself. Until it has
\* read dmesg the second time, an Xid of its run is in time.
CodeInv ==
    \A j \in Jobs :
        /\ retcode[j] # NoCode => job[j] \in AfterPoll /\ proc[j] = "ended" /\ outcome[j].code = retcode[j]
        /\ job[j] = "start" <=> proc[j] = "none"
        /\ logged[j] # "no" => proc[j] # "none"
        /\ logged[j] = "late" => job[j] \notin {"start", "poll", "dmesg"}

\* The kernel log holds no more Xids than there were, its length never shrinks, and
\* an Xid of a job's run shows in the length unless lines have been dropped.
LogInv ==
    /\ IsFiniteSet(Noisy)
    /\ Len(dmesg) <= Cardinality(Noisy)
    /\ \A j \in Jobs :
        /\ before[j] <= Len(dmesg)
        /\ logged[j] = "intime" /\ job[j] \in {"poll", "dmesg"} => Len(dmesg) > before[j] \/ Dropped
        /\ job[j] = "classify" /\ ~heard[j] /\ logged[j] = "intime" => Dropped

\* Only a job that has come to its end has a row.
RowInv == \A row \in results : job[row[1]] \in {"clean", "done"}

\* A job records one row: no two categories for one injection.
OneRowPerJob == \A r1, r2 \in results : r1[1] = r2[1] => r1 = r2

IInv == TypeOK /\ TimeInv /\ CodeInv /\ LogInv /\ RowInv /\ SdcIsSilent /\ MaskedIsClean /\ OneRowPerJob

-----------------------------------------------------------------------------
(* The classification.                                                     *)

\* A category is always recorded or undefined, and one that means a silent
\* corruption or a masked error is given only for return code 0 and for the
\* outputs it stands for, one with a dmesg error only where an Xid was heard of.
LEMMA ClassifyRange ==
    ASSUME NEW r \in RunKinds, NEW code \in Codes, NEW xid \in BOOLEAN
    PROVE  /\ Classify(r, code, xid) # Undefined => Classify(r, code, xid) \in Categories
           /\ Classify(r, code, xid) \in SDC =>
                code = 0 /\ ~xid /\ ~r.kernelError /\ ~r.message /\ r.diff # {}
           /\ Classify(r, code, xid) \in Masked =>
                /\ code = 0
                /\ Classify(r, code, xid) = "MASKED_WRITTEN" => r.line = "written"
                /\ Classify(r, code, xid) = "MASKED_NOT_READ" => r.line = "notread"
                /\ Classify(r, code, xid) = "MASKED_OTHER" =>
                      r.line = "injecting" /\ ~r.message /\ ~r.kernelError /\ r.diff = {}
           /\ Classify(r, code, xid) \in DmesgErrors => xid
           /\ Classify(r, code, xid) = Undefined => code = 0 /\ HasNoCategory(r)
<1> DEFINE b == ByDifference(r, xid)
           Kind(onXid, onFailure, plain) ==
               IF xid THEN onXid ELSE IF r.kernelError THEN onFailure ELSE plain
<1>1. /\ r.compared \in BOOLEAN /\ r.kernelError \in BOOLEAN /\ r.message \in BOOLEAN
      /\ r.diff \subseteq Logs
      /\ r.line \in {"written", "notread", "skipped", "injecting", "none"}
      /\ r.special \in {"absent", "empty", "full"}
  BY DEF RunKinds
<1>2. /\ b # Undefined => b \in Categories
      /\ b \in SDC => ~xid /\ ~r.kernelError /\ r.diff # {}
      /\ b \notin {"MASKED_NOT_READ", "MASKED_WRITTEN"}
      /\ b = "MASKED_OTHER" => r.diff = {} /\ ~r.kernelError
      /\ b \in DmesgErrors => xid
      /\ b = Undefined => r.kernelError /\ (r.diff = {} \/ r.special = "full")
  <2>1. CASE ~r.compared
    <3>1. b = "OTHERS"
      BY Zenon, <2>1 DEF ByDifference
    <3>2. QED  BY <3>1 DEF Categories, SDC, DmesgErrors, Undefined
  <2>2. CASE r.compared /\ r.diff = {}
    <3>1. b = IF r.kernelError THEN Undefined ELSE "MASKED_OTHER"
      BY Zenon, <2>2 DEF ByDifference
    <3>2. QED  BY <3>1, <2>2, <1>1 DEF Categories, SDC, DmesgErrors, Undefined
  <2>3. CASE r.compared /\ r.diff # {} /\ r.special = "full"
    <3>1. b = Kind("DMESG_APP_SPECIFIC_CHECK_FAIL", Undefined, "APP_SPECIFIC_CHECK_FAIL")
      BY Zenon, <2>3 DEF ByDifference
    <3>2. QED  BY <3>1, <2>3, <1>1 DEF Categories, SDC, DmesgErrors, Undefined
  <2>4. CASE r.compared /\ r.diff # {} /\ r.special # "full" /\ "output" \in r.diff
    <3>1. r.diff # {"stdout"} /\ r.diff # {"stderr"}
      BY <2>4
    <3>2. b = Kind("DMESG_OUT_DIFF", "SDC_KERNEL_ERROR", "OUT_DIFF")
      BY Zenon, <2>4, <3>1 DEF ByDifference
    <3>3. QED  BY <3>2, <2>4, <1>1 DEF Categories, SDC, DmesgErrors, Undefined
  <2>5. CASE r.compared /\ r.special # "full" /\ r.diff = {"stdout"}
    <3>1. "output" \notin r.diff /\ r.diff # {} /\ r.diff # {"stderr"}
      BY <2>5
    <3>2. b = Kind("DMESG_STDOUT_ONLY_DIFF", "SDC_KERNEL_ERROR", "STDOUT_ONLY_DIFF")
      BY Zenon, <2>5, <3>1 DEF ByDifference
    <3>3. QED  BY <3>1, <3>2, <1>1 DEF Categories, SDC, DmesgErrors, Undefined
  <2>6. CASE r.compared /\ r.special # "full" /\ r.diff = {"stderr"}
    <3>1. "output" \notin r.diff /\ r.diff # {} /\ r.diff # {"stdout"}
      BY <2>6
    <3>2. b = Kind("DMESG_STDERR_ONLY_DIFF", "SDC_KERNEL_ERROR", "STDERR_ONLY_DIFF")
      BY Zenon, <2>6, <3>1 DEF ByDifference
    <3>3. QED  BY <3>1, <3>2, <1>1 DEF Categories, SDC, DmesgErrors, Undefined
  <2>7. CASE /\ r.compared /\ r.special # "full" /\ r.diff # {}
             /\ "output" \notin r.diff /\ r.diff # {"stdout"} /\ r.diff # {"stderr"}
    <3>1. b = "OTHERS"
      BY Zenon, <2>7 DEF ByDifference
    <3>2. QED  BY <3>1 DEF Categories, SDC, DmesgErrors, Undefined
  <2>8. QED  BY <1>1, <2>1, <2>2, <2>3, <2>4, <2>5, <2>6, <2>7
<1>3. CASE code # 0
  <2>1. Classify(r, code, xid) = "NON_ZERO_EC"
    BY Zenon, <1>3 DEF Classify
  <2>2. QED  BY <2>1 DEF Categories, SDC, Masked, DmesgErrors, Undefined
<1>4. CASE code = 0 /\ r.line = "written"
  <2>1. Classify(r, code, xid) = "MASKED_WRITTEN"
    BY Zenon, <1>4 DEF Classify
  <2>2. QED  BY <2>1, <1>4 DEF Categories, SDC, Masked, DmesgErrors, Undefined
<1>5. CASE code = 0 /\ r.line = "notread"
  <2>1. Classify(r, code, xid) = "MASKED_NOT_READ"
    BY Zenon, <1>5 DEF Classify
  <2>2. QED  BY <2>1, <1>5 DEF Categories, SDC, Masked, DmesgErrors, Undefined
<1>6. CASE code = 0 /\ r.line \in {"skipped", "none"}
  <2>1. r.line \notin {"written", "notread", "injecting"}
    BY <1>6
  <2>2. Classify(r, code, xid) = "OTHERS"
    BY Zenon, <1>6, <2>1 DEF Classify
  <2>3. QED  BY <2>2 DEF Categories, SDC, Masked, DmesgErrors, Undefined
<1>7. CASE code = 0 /\ r.line = "injecting" /\ r.message
  <2>1. Classify(r, code, xid) = "STDOUT_ERROR_MESSAGE"
    BY Zenon, <1>7 DEF Classify
  <2>2. QED  BY <2>1 DEF Categories, SDC, Masked, DmesgErrors, Undefined
<1>8. CASE code = 0 /\ r.line = "injecting" /\ ~r.message
  <2>1. Classify(r, code, xid) = b
    BY Zenon, <1>8 DEF Classify
  <2>2. QED  BY <2>1, <1>2, <1>8 DEF Masked, SDC, HasNoCategory
<1>9. QED  BY <1>1, <1>3, <1>4, <1>5, <1>6, <1>7, <1>8
-----------------------------------------------------------------------------
(* The steps.                                                              *)

\* Every step of a job or of its run keeps the types.
LEMMA TypeStep ==
    ASSUME TypeOK, TimeInv, NEW j \in Jobs, JobStep(j) \/ CauseXid(j) \/ End(j)
    PROVE  TypeOK'
<1> USE DEF TypeOK, GoTo, Codes, NoCode
<1>a. PollUnits \in Nat /\ PollUnits > 0 /\ LogLines \in Nat /\ LogLines > 0
  BY ThresholdsAssumption, LogLinesAssumption
<1>1. CASE Start(j)
  BY <1>1, <1>a DEF Start, TimeInv
<1>2. CASE SeeEnd(j)
  <2>1. outcome[j].code \in Codes
    BY DEF RunKinds
  <2>2. QED  BY <1>2, <2>1 DEF SeeEnd
<1>3. CASE Sleep(j)
  <2>1. left' \in [Jobs -> Int]
    BY <1>3, <1>a DEF Sleep
  <2>2. \A k \in Jobs : job'[k] # "poll" \/ left'[k] > -PollUnits
    BY <1>3, <1>a DEF Sleep
  <2>3. QED  BY <1>3, <2>1, <2>2 DEF Sleep
<1>4. CASE GiveUp(j)
  BY <1>4, <1>a DEF GiveUp
<1>5. CASE ReadDmesg(j)
  BY <1>5, <1>a DEF ReadDmesg
<1>6. CASE RecordTimeout(j)
  BY <1>6 DEF RecordTimeout, Record, Categories
<1>7. CASE ClassifyAndRecord(j)
  <2>1. outcome[j] \in RunKinds /\ retcode[j] \in Codes /\ heard[j] \in BOOLEAN
    OBVIOUS
  <2>2. results' \subseteq Jobs \X Categories
    BY <1>7, <2>1, ClassifyRange DEF ClassifyAndRecord, Record
  <2>3. job' \in [Jobs -> {"start", "poll", "dmesg", "timeout", "classify", "clean", "done", "crashed"}]
    BY <1>7, ZenonT(30) DEF ClassifyAndRecord
  <2>4. \A k \in Jobs : job'[k] # "poll" \/ left'[k] > -PollUnits
    BY <1>7 DEF ClassifyAndRecord
  <2>5. QED  BY <1>7, <2>2, <2>3, <2>4 DEF ClassifyAndRecord
<1>8. CASE CleanUp(j)
  BY <1>8, <1>a DEF CleanUp
<1>9. CASE CauseXid(j)
  <2>1. dmesg' \in Seq(Jobs) /\ Len(dmesg') <= LogLines
    <3>1. CASE Len(dmesg) < LogLines
      BY <1>9, <1>a, <3>1, AppendProperties DEF CauseXid
    <3>2. CASE Len(dmesg) = LogLines
      <4>1. dmesg # <<>>
        BY <1>a, <3>2
      <4>2. Tail(dmesg) \in Seq(Jobs) /\ Len(Tail(dmesg)) = Len(dmesg) - 1
        BY <4>1, HeadTailProperties
      <4>3. QED  BY <1>9, <1>a, <3>2, <4>2, AppendProperties DEF CauseXid
    <3>3. QED  BY <1>a, <3>1, <3>2, LenProperties
  <2>2. QED  BY <1>9, <2>1 DEF CauseXid
<1>10. CASE End(j)
  BY <1>10, <1>a DEF End
<1>q. QED  BY <1>1, <1>2, <1>3, <1>4, <1>5, <1>6, <1>7, <1>8, <1>9, <1>10 DEF JobStep

\* Every step keeps what is known of the time left: a sleep is taken only while it
\* is above zero, and a run is left alone only when it is below.
LEMMA TimeStep ==
    ASSUME TypeOK, TimeInv, CodeInv, NEW j \in Jobs, JobStep(j) \/ CauseXid(j) \/ End(j)
    PROVE  TimeInv'
<1> USE DEF TypeOK, TimeInv, AfterPoll, GoTo
<1>a. PollUnits \in Nat /\ PollUnits > 0
  BY ThresholdsAssumption
<1>1. CASE Start(j)
  BY <1>1, <1>a DEF Start
<1>2. CASE SeeEnd(j)
  BY <1>2, <1>a DEF SeeEnd
<1>3. CASE Sleep(j)
  BY <1>3, <1>a DEF Sleep
<1>4. CASE GiveUp(j)
  <2>1. CASE left[j] = 0
    BY <1>4, <1>a, <2>1 DEF GiveUp
  <2>2. CASE left[j] # 0
    BY <1>4, <1>a, <2>2 DEF GiveUp
  <2>3. QED  BY <2>1, <2>2
<1>5. CASE ReadDmesg(j)
  BY <1>5, <1>a DEF ReadDmesg
<1>6. CASE RecordTimeout(j)
  BY <1>6, <1>a DEF RecordTimeout
<1>7. CASE ClassifyAndRecord(j)
  BY <1>7, <1>a DEF ClassifyAndRecord
<1>8. CASE CleanUp(j)
  BY <1>8, <1>a DEF CleanUp
<1>9. CASE CauseXid(j)
  BY <1>9, <1>a DEF CauseXid
<1>10. CASE End(j)
  BY <1>10, <1>a DEF End, CodeInv
<1>q. QED  BY <1>1, <1>2, <1>3, <1>4, <1>5, <1>6, <1>7, <1>8, <1>9, <1>10 DEF JobStep

\* Every step keeps what a return code tells of the run.
LEMMA CodeStep ==
    ASSUME TypeOK, CodeInv, NEW j \in Jobs, JobStep(j) \/ CauseXid(j) \/ End(j)
    PROVE  CodeInv'
<1> USE DEF TypeOK, CodeInv, AfterPoll, GoTo, NoCode
<1>1. CASE Start(j)
  BY <1>1 DEF Start
<1>2. CASE SeeEnd(j)
  BY <1>2 DEF SeeEnd
<1>3. CASE Sleep(j)
  BY <1>3 DEF Sleep
<1>4. CASE GiveUp(j)
  <2>1. CASE left[j] = 0
    BY <1>4, <2>1 DEF GiveUp
  <2>2. CASE left[j] # 0
    BY <1>4, <2>2 DEF GiveUp
  <2>3. QED  BY <2>1, <2>2
<1>5. CASE ReadDmesg(j)
  BY <1>5 DEF ReadDmesg
<1>6. CASE RecordTimeout(j)
  BY <1>6 DEF RecordTimeout
<1>7. CASE ClassifyAndRecord(j)
  BY <1>7 DEF ClassifyAndRecord
<1>8. CASE CleanUp(j)
  BY <1>8 DEF CleanUp
<1>9. CASE CauseXid(j)
  BY <1>9 DEF CauseXid
<1>10. CASE End(j)
  BY <1>10 DEF End
<1>q. QED  BY <1>1, <1>2, <1>3, <1>4, <1>5, <1>6, <1>7, <1>8, <1>9, <1>10 DEF JobStep

\* Every step keeps what the length of the kernel log tells of a job's run.
LEMMA LogStep ==
    ASSUME TypeOK, CodeInv, LogInv, NEW j \in Jobs, JobStep(j) \/ CauseXid(j) \/ End(j)
    PROVE  LogInv'
<1> USE DEF TypeOK, GoTo
<1>a. Dropped <=> (Cardinality(Noisy) > LogLines)
  BY DEF Dropped, Noisy
<1>b. LogLines \in Nat /\ LogLines > 0
  BY LogLinesAssumption
<1>c. Cardinality(Noisy) \in Nat /\ Len(dmesg) \in Nat
  BY FS_CardinalityType, LenProperties DEF LogInv
<1>d. ASSUME logged' = logged
      PROVE  Noisy' = Noisy /\ (Dropped' <=> Dropped)
  BY <1>d DEF Dropped, Noisy
<1>e. ASSUME logged' = logged, dmesg' = dmesg, job' = job, before' = before,
             heard' = heard, retcode' = retcode, outcome' = outcome
      PROVE  LogInv'
  BY <1>d, <1>e DEF LogInv
<1>1. CASE Start(j)
  <2>1. Noisy' = Noisy /\ (Dropped' <=> Dropped)
    BY <1>1, <1>d DEF Start
  <2>2. QED  BY <1>1, <2>1 DEF Start, LogInv, CodeInv, NoCode
<1>2. CASE SeeEnd(j)
  <2>1. Noisy' = Noisy /\ (Dropped' <=> Dropped)
    BY <1>2, <1>d DEF SeeEnd
  <2>2. QED  BY <1>2, <2>1 DEF SeeEnd, LogInv, CodeInv, NoCode
<1>3. CASE Sleep(j)
  BY <1>3, <1>e DEF Sleep
<1>4. CASE GiveUp(j)
  <2>1. Noisy' = Noisy /\ (Dropped' <=> Dropped)
    BY <1>4, <1>d DEF GiveUp
  <2>2. /\ dmesg' = dmesg /\ before' = before /\ heard' = heard /\ retcode' = retcode
        /\ outcome' = outcome /\ logged' = logged /\ job[j] = "poll"
        /\ \A k \in Jobs : job'[k] = job[k] \/ (k = j /\ job'[k] \in {"dmesg", "timeout"})
    BY <1>4 DEF GiveUp
  <2>3. QED  BY <2>1, <2>2 DEF LogInv
<1>5. CASE ReadDmesg(j)
  <2>1. Noisy' = Noisy /\ (Dropped' <=> Dropped)
    BY <1>5, <1>d DEF ReadDmesg
  <2>2. QED  BY <1>5, <2>1 DEF ReadDmesg, LogInv
<1>6. CASE RecordTimeout(j)
  <2>1. Noisy' = Noisy /\ (Dropped' <=> Dropped)
    BY <1>6, <1>d DEF RecordTimeout
  <2>2. QED  BY <1>6, <2>1 DEF RecordTimeout, LogInv
<1>7. CASE ClassifyAndRecord(j)
  <2>1. Noisy' = Noisy /\ (Dropped' <=> Dropped)
    BY <1>7, <1>d DEF ClassifyAndRecord
  <2>2. /\ dmesg' = dmesg /\ before' = before /\ heard' = heard /\ retcode' = retcode
        /\ outcome' = outcome /\ logged' = logged
        /\ \A k \in Jobs : job'[k] = job[k] \/ job'[k] \in {"crashed", "clean"}
    BY <1>7 DEF ClassifyAndRecord
  <2>3. QED  BY <2>1, <2>2 DEF LogInv
<1>8. CASE CleanUp(j)
  <2>1. Noisy' = Noisy /\ (Dropped' <=> Dropped)
    BY <1>8, <1>d DEF CleanUp
  <2>2. QED  BY <1>8, <2>1 DEF CleanUp, LogInv
<1>9. CASE CauseXid(j)
  <2>1. Noisy' = Noisy \cup {j} /\ j \notin Noisy
    BY <1>9 DEF CauseXid, Noisy
  <2>2. IsFiniteSet(Noisy') /\ Cardinality(Noisy') = Cardinality(Noisy) + 1
    BY <2>1, FS_AddElement DEF LogInv
  <2>3. Dropped' <=> (Cardinality(Noisy') > LogLines)
    BY DEF Dropped, Noisy
  <2>4. Len(dmesg') = IF Len(dmesg) < LogLines THEN Len(dmesg) + 1 ELSE Len(dmesg)
    <3>1. CASE Len(dmesg) < LogLines
      BY <1>9, <3>1, AppendProperties DEF CauseXid
    <3>2. CASE Len(dmesg) = LogLines
      <4>1. dmesg # <<>>
        BY <1>b, <3>2
      <4>2. Tail(dmesg) \in Seq(Jobs) /\ Len(Tail(dmesg)) = Len(dmesg) - 1
        BY <4>1, HeadTailProperties
      <4>3. QED  BY <1>9, <1>b, <1>c, <3>2, <4>2, AppendProperties DEF CauseXid
    <3>3. QED  BY <1>b, <1>c, <3>1, <3>2
  <2>5. Dropped => Dropped'
    BY <1>a, <1>b, <1>c, <2>2, <2>3
  <2>6. Len(dmesg') <= Cardinality(Noisy')
    BY <1>b, <1>c, <2>2, <2>4 DEF LogInv
  <2>7. Len(dmesg') > Len(dmesg) \/ Dropped'
    BY <1>b, <1>c, <2>2, <2>3, <2>4 DEF LogInv
  <2>8. ASSUME NEW k \in Jobs
        PROVE  /\ before'[k] <= Len(dmesg')
               /\ logged'[k] = "intime" /\ job'[k] \in {"poll", "dmesg"} =>
                     Len(dmesg') > before'[k] \/ Dropped'
               /\ job'[k] = "classify" /\ ~heard'[k] /\ logged'[k] = "intime" => Dropped'
    <3>1. /\ before[k] \in Nat /\ before[k] <= Len(dmesg)
          /\ before' = before /\ job' = job /\ heard' = heard
          /\ k # j \/ job[k] = "classify" => logged'[k] = logged[k] \/ logged'[k] = "late"
      BY <1>9 DEF CauseXid, LogInv
    <3>2. Len(dmesg') >= Len(dmesg) /\ Len(dmesg') \in Nat
      BY <1>c, <2>4
    <3>3. before'[k] <= Len(dmesg')
      BY <1>c, <3>1, <3>2
    <3>4. ASSUME logged'[k] = "intime", job'[k] \in {"poll", "dmesg"}
          PROVE  Len(dmesg') > before'[k] \/ Dropped'
      <4>1. CASE k = j
        BY <1>c, <2>7, <3>1, <3>2, <4>1
      <4>2. CASE k # j
        <5>1. logged[k] = "intime" /\ job[k] \in {"poll", "dmesg"} /\ before'[k] = before[k]
          BY <3>1, <3>4, <4>2
        <5>2. Len(dmesg) > before[k] \/ Dropped
          BY <5>1 DEF LogInv
        <5>3. QED  BY <1>c, <2>5, <3>1, <3>2, <5>1, <5>2
      <4>3. QED  BY <4>1, <4>2
    <3>5. QED  BY <2>5, <3>1, <3>3, <3>4 DEF LogInv
  <2>9. QED  BY <2>2, <2>6, <2>8 DEF LogInv
<1>10. CASE End(j)
  BY <1>10, <1>e DEF End
<1>q. QED  BY <1>1, <1>2, <1>3, <1>4, <1>5, <1>6, <1>7, <1>8, <1>9, <1>10 DEF JobStep

\* What the rows of the results say of their runs is true when they are recorded
\* and nothing that they speak of changes afterwards.
LEMMA RowStep ==
    ASSUME TypeOK, CodeInv, LogInv, RowInv, SdcIsSilent, MaskedIsClean, LogInv',
           NEW j \in Jobs, JobStep(j) \/ CauseXid(j) \/ End(j)
    PROVE  RowInv' /\ SdcIsSilent' /\ MaskedIsClean'
<1> USE DEF GoTo
<1>a. Dropped => Dropped'
  <2>1. IsFiniteSet(Noisy) /\ IsFiniteSet(Noisy')
    BY DEF LogInv
  <2>2. Noisy \subseteq Noisy'
    BY DEF Noisy, TypeOK, JobStep, Start, SeeEnd, Sleep, GiveUp, ReadDmesg, RecordTimeout,
           ClassifyAndRecord, CleanUp, CauseXid, End
  <2>3. Cardinality(Noisy) <= Cardinality(Noisy') /\ Cardinality(Noisy) \in Nat /\ Cardinality(Noisy') \in Nat
    BY <2>1, <2>2, FS_Subset, FS_CardinalityType
  <2>4. LogLines \in Nat
    BY LogLinesAssumption
  <2>5. (Dropped <=> Cardinality(Noisy) > LogLines) /\ (Dropped' <=> Cardinality(Noisy') > LogLines)
    BY DEF Dropped, Noisy
  <2>6. QED  BY <2>3, <2>4, <2>5
<1>b. ASSUME NEW row \in results
      PROVE  row[1] \in Jobs /\ row[2] \in Categories
  BY DEF TypeOK
<1>c. outcome' = outcome
  BY DEF JobStep, Start, SeeEnd, Sleep, GiveUp, ReadDmesg, RecordTimeout,
         ClassifyAndRecord, CleanUp, CauseXid, End
\* A row stays true: its job is over and its run, if it ended, has ended.
<1>d. ASSUME NEW row \in results
      PROVE  /\ job'[row[1]] \in {"clean", "done"}
             /\ proc[row[1]] = "ended" => proc'[row[1]] = "ended"
             /\ logged'[row[1]] = "intime" => logged[row[1]] = "intime"
  <2> DEFINE k == row[1]
  <2>1. k \in Jobs /\ job[k] \in {"clean", "done"}
    BY <1>b DEF RowInv
  <2> HIDE DEF k
  <2>2. job'[k] \in {"clean", "done"}
    BY <2>1 DEF TypeOK, JobStep, Start, SeeEnd, Sleep, GiveUp, ReadDmesg, RecordTimeout,
             ClassifyAndRecord, CleanUp, CauseXid, End
  <2>3. proc[k] = "ended" => proc'[k] = "ended"
    BY <2>1 DEF TypeOK, JobStep, Start, SeeEnd, Sleep, GiveUp, ReadDmesg, RecordTimeout,
             ClassifyAndRecord, CleanUp, CauseXid, End
  <2>4. logged'[k] = "intime" => logged[k] = "intime"
    BY <2>1 DEF TypeOK, JobStep, Start, SeeEnd, Sleep, GiveUp, ReadDmesg, RecordTimeout,
             ClassifyAndRecord, CleanUp, CauseXid, End
  <2>5. QED  BY <2>2, <2>3, <2>4 DEF k
\* What the row of a step says is true of the run that it classifies.
<1>e. ASSUME NEW row \in results', row \notin results
      PROVE  /\ row[1] = j /\ job'[j] = "clean"
             /\ row[2] \in SDC =>
                  /\ proc'[j] = "ended" /\ outcome'[j].code = 0 /\ ~outcome'[j].kernelError
                  /\ ~outcome'[j].message /\ outcome'[j].diff # {}
                  /\ logged'[j] = "intime" => Dropped'
             /\ row[2] \in Masked =>
                  /\ proc'[j] = "ended" /\ outcome'[j].code = 0
                  /\ row[2] = "MASKED_WRITTEN" => outcome'[j].line = "written"
                  /\ row[2] = "MASKED_NOT_READ" => outcome'[j].line = "notread"
                  /\ row[2] = "MASKED_OTHER" =>
                        /\ outcome'[j].line = "injecting" /\ ~outcome'[j].message
                        /\ ~outcome'[j].kernelError /\ outcome'[j].diff = {}
  <2>1. CASE RecordTimeout(j)
    <3>1. row = <<j, "TIMEOUT">> /\ job'[j] = "clean"
      BY <1>e, <2>1 DEF RecordTimeout, Record, TypeOK
    <3>2. QED  BY <3>1 DEF SDC, Masked
  <2>2. CASE ClassifyAndRecord(j)
    <3> DEFINE cat == Classify(outcome[j], retcode[j], heard[j])
    <3>1. row = <<j, cat>> /\ job'[j] = "clean" /\ job[j] = "classify"
          /\ proc' = proc /\ logged' = logged
      <4>1. CASE cat = Undefined
        BY <1>e, <2>2, <4>1 DEF ClassifyAndRecord
      <4>2. CASE cat # Undefined
        BY <1>e, <2>2, <4>2 DEF ClassifyAndRecord, Record, TypeOK
      <4>3. QED  BY <4>1, <4>2
    <3>2. outcome[j] \in RunKinds /\ retcode[j] \in Codes /\ heard[j] \in BOOLEAN
      BY DEF TypeOK
    <3> HIDE DEF cat
    <3>3. /\ cat \in SDC => /\ retcode[j] = 0 /\ ~heard[j] /\ ~outcome[j].kernelError
                            /\ ~outcome[j].message /\ outcome[j].diff # {}
          /\ cat \in Masked =>
               /\ retcode[j] = 0
               /\ cat = "MASKED_WRITTEN" => outcome[j].line = "written"
               /\ cat = "MASKED_NOT_READ" => outcome[j].line = "notread"
               /\ cat = "MASKED_OTHER" =>
                     /\ outcome[j].line = "injecting" /\ ~outcome[j].message
                     /\ ~outcome[j].kernelError /\ outcome[j].diff = {}
      BY <3>2, ClassifyRange DEF cat
    <3>4. retcode[j] = 0 =>
            /\ proc[j] = "ended" /\ outcome[j].code = 0
            /\ ~heard[j] /\ logged[j] = "intime" => Dropped
      BY <3>1 DEF CodeInv, LogInv, NoCode
    <3>5. row[1] = j /\ row[2] = cat
      BY <3>1
    <3>6. QED  BY <1>a, <1>c, <3>1, <3>3, <3>4, <3>5
  <2>3. CASE ~RecordTimeout(j) /\ ~ClassifyAndRecord(j)
    <3>1. results' = results
      BY <2>3 DEF JobStep, Start, SeeEnd, Sleep, GiveUp, ReadDmesg, CleanUp, CauseXid, End
    <3>2. QED  BY <1>e, <3>1
  <2>4. QED  BY <2>1, <2>2, <2>3
<1>f. RowInv'
  BY <1>d, <1>e DEF RowInv
<1>g. SdcIsSilent'
  <2> SUFFICES ASSUME NEW row \in results', row[2] \in SDC
               PROVE  /\ proc'[row[1]] = "ended" /\ outcome'[row[1]].code = 0
                      /\ ~outcome'[row[1]].kernelError /\ ~outcome'[row[1]].message
                      /\ outcome'[row[1]].diff # {}
                      /\ logged'[row[1]] = "intime" => Dropped'
    BY DEF SdcIsSilent
  <2>1. CASE row \in results
    BY <1>a, <1>c, <1>d, <2>1 DEF SdcIsSilent
  <2>2. CASE row \notin results
    BY <1>e, <2>2
  <2>3. QED  BY <2>1, <2>2
<1>h. MaskedIsClean'
  <2> SUFFICES ASSUME NEW row \in results', row[2] \in Masked
               PROVE  /\ proc'[row[1]] = "ended" /\ outcome'[row[1]].code = 0
                      /\ row[2] = "MASKED_WRITTEN" => outcome'[row[1]].line = "written"
                      /\ row[2] = "MASKED_NOT_READ" => outcome'[row[1]].line = "notread"
                      /\ row[2] = "MASKED_OTHER" =>
                            /\ outcome'[row[1]].line = "injecting" /\ ~outcome'[row[1]].message
                            /\ ~outcome'[row[1]].kernelError /\ outcome'[row[1]].diff = {}
    BY DEF MaskedIsClean
  <2>1. CASE row \in results
    BY <1>c, <1>d, <2>1 DEF MaskedIsClean
  <2>2. CASE row \notin results
    BY <1>e, <2>2
  <2>3. QED  BY <2>1, <2>2
<1>q. QED  BY <1>f, <1>g, <1>h

\* One category per injection: a row is added for a job that has none.
LEMMA OneRowStep ==
    ASSUME TypeOK, RowInv, OneRowPerJob, NEW j \in Jobs, JobStep(j) \/ CauseXid(j) \/ End(j)
    PROVE  OneRowPerJob'
<1>1. \E cat \in Categories : results' \subseteq results \cup {<<j, cat>>} /\ (results' = results \/ job[j] \notin {"clean", "done"})
  <2>1. CASE ClassifyAndRecord(j)
    <3> DEFINE cat == Classify(outcome[j], retcode[j], heard[j])
    <3>1. cat # Undefined => cat \in Categories
      BY ClassifyRange DEF TypeOK
    <3> HIDE DEF cat
    <3>2. CASE cat = Undefined
      BY <2>1, <3>2 DEF ClassifyAndRecord, cat, Categories
    <3>3. CASE cat # Undefined
      <4>1. results' = results \cup {<<j, cat>>} /\ job[j] = "classify"
        BY <2>1, <3>3 DEF ClassifyAndRecord, Record, cat
      <4>2. QED  BY <3>1, <3>3, <4>1
    <3>4. QED  BY <3>2, <3>3
  <2>2. CASE RecordTimeout(j)
    BY <2>2 DEF RecordTimeout, Record, Categories
  <2>3. CASE ~RecordTimeout(j) /\ ~ClassifyAndRecord(j)
    <3>1. results' = results
      BY <2>3 DEF JobStep, Start, SeeEnd, Sleep, GiveUp, ReadDmesg, CleanUp, CauseXid, End
    <3>2. QED  BY <3>1 DEF Categories
  <2>4. QED  BY <2>1, <2>2, <2>3
<1>2. PICK cat \in Categories :
        results' \subseteq results \cup {<<j, cat>>} /\ (results' = results \/ job[j] \notin {"clean", "done"})
  BY <1>1
<1>3. \A row \in results : results' # results => row[1] # j
  BY <1>2 DEF RowInv
<1>4. QED  BY <1>2, <1>3 DEF OneRowPerJob

-----------------------------------------------------------------------------
(* The theorems.                                                           *)

\* The inductive invariant holds throughout.
THEOREM Invariance == FairSpec => []IInv
<1>1. Init => IInv
  <2> SUFFICES ASSUME Init PROVE IInv
    OBVIOUS
  <2> USE DEF Init
  <2>1. TypeOK
    <3>1. outcome \in [Jobs -> RunKinds]
      BY OutcomesAssumption DEF RunsConsidered
    <3>2. left \in [Jobs -> Nat \ {0}]
      BY ThresholdsAssumption
    <3>3. dmesg \in Seq(Jobs) /\ Len(dmesg) = 0
      OBVIOUS
    <3>4. QED  BY <3>1, <3>2, <3>3, LogLinesAssumption DEF TypeOK, Codes, NoCode
  <2>2. TimeInv
    BY ThresholdsAssumption DEF TimeInv, AfterPoll
  <2>3. CodeInv
    BY DEF CodeInv, NoCode
  <2>4. LogInv
    <3>1. Noisy = {}
      BY DEF Noisy
    <3>2. IsFiniteSet(Noisy) /\ Cardinality(Noisy) = 0
      BY <3>1, FS_EmptySet
    <3>3. Len(dmesg) = 0
      OBVIOUS
    <3>4. QED  BY <3>2, <3>3 DEF LogInv
  <2>5. RowInv /\ SdcIsSilent /\ MaskedIsClean /\ OneRowPerJob
    BY DEF RowInv, SdcIsSilent, MaskedIsClean, OneRowPerJob
  <2>6. QED  BY <2>1, <2>2, <2>3, <2>4, <2>5 DEF IInv
<1>2. IInv /\ [Next]_vars => IInv'
  <2> SUFFICES ASSUME IInv, [Next]_vars PROVE IInv'
    OBVIOUS
  <2>1. ASSUME NEW j \in Jobs, JobStep(j) \/ CauseXid(j) \/ End(j)
        PROVE  IInv'
    <3>1. LogInv'
      BY <2>1, LogStep DEF IInv
    <3>2. QED
      BY <2>1, <3>1, TypeStep, TimeStep, CodeStep, RowStep, OneRowStep DEF IInv
  <2>2. CASE UNCHANGED vars
    <3>1. TypeOK' /\ TimeInv' /\ CodeInv' /\ RowInv' /\ OneRowPerJob'
      BY <2>2 DEF vars, IInv, TypeOK, TimeInv, CodeInv, RowInv, OneRowPerJob
    <3>2. LogInv'
      BY <2>2 DEF vars, IInv, LogInv, Noisy, Dropped
    <3>3. SdcIsSilent'
      BY <2>2 DEF vars, IInv, SdcIsSilent, Dropped
    <3>4. MaskedIsClean'
      BY <2>2 DEF vars, IInv, MaskedIsClean
    <3>5. QED  BY <3>1, <3>2, <3>3, <3>4 DEF IInv
  <2>3. QED  BY <2>1, <2>2 DEF Next, Terminated
<1>3. QED  BY <1>1, <1>2, PTL DEF Spec, FairSpec

\* The variables keep their types: in particular a job never polls again once its
\* time is up by a whole poll.
THEOREM TypeCorrect == FairSpec => []TypeOK
<1>1. IInv => TypeOK
  BY DEF IInv
<1>2. QED  BY <1>1, Invariance, PTL

\* A row that says silent data corruption is of a run that showed no symptom before
\* the job read the kernel log, unless the log has dropped an Xid.
THEOREM SdcRowsAreSilent == FairSpec => []SdcIsSilent
<1>1. IInv => SdcIsSilent
  BY DEF IInv
<1>2. QED  BY <1>1, Invariance, PTL

\* A row that says masked is of a run that ended by itself with code 0, of the kind that
\* the row says; if the error had been injected, the run had the golden output, no error
\* message and no failed kernel. Nothing is proved of its Xids.
THEOREM MaskedRowsAreClean == FairSpec => []MaskedIsClean
<1>1. IInv => MaskedIsClean
  BY DEF IInv
<1>2. QED  BY <1>1, Invariance, PTL

\* No injection is counted in two categories.
THEOREM RowsAreUnique == FairSpec => []OneRowPerJob
<1>1. IInv => OneRowPerJob
  BY DEF IInv
<1>2. QED  BY <1>1, Invariance, PTL

-----------------------------------------------------------------------------
(* What is recorded, and for whom.                                         *)

\* A job that has heard of an Xid has heard of a new one: of its run's, or of one of
\* those of the other runs, which are more than the log showed when it started.
HeardInv ==
    \A j \in Jobs : heard[j] =>
        /\ job[j] \in AfterPoll \ {"dmesg"}
        /\ logged[j] = "intime" \/ before[j] < Cardinality(Noisy \ {j})

\* A dmesg row has heard of one, and who has come to the end has a row or no category.
RecordInv ==
    /\ \A row \in results : row[2] \in DmesgErrors => heard[row[1]]
    /\ \A j \in Jobs :
        /\ job[j] \in {"clean", "done"} => \E row \in results : row[1] = j
        /\ job[j] = "crashed" => retcode[j] = 0 /\ HasNoCategory(outcome[j])

\* Of the steps, only ReadDmesg makes a job hear, and what it hears stays true.
LEMMA HeardStep ==
    ASSUME IInv, IInv', HeardInv, NEW j \in Jobs, JobStep(j) \/ CauseXid(j) \/ End(j)
    PROVE  HeardInv'
<1> USE DEF GoTo
<1>1. /\ TypeOK /\ IsFiniteSet(Noisy) /\ IsFiniteSet(Noisy') /\ Noisy \subseteq Jobs
  BY DEF IInv, LogInv, Noisy
<1>2. Noisy \subseteq Noisy'
  BY <1>1 DEF Noisy, TypeOK, JobStep, Start, SeeEnd, Sleep, GiveUp, ReadDmesg, RecordTimeout,
         ClassifyAndRecord, CleanUp, CauseXid, End
<1>3. ASSUME NEW k \in Jobs
      PROVE  /\ Cardinality(Noisy \ {k}) <= Cardinality(Noisy' \ {k})
             /\ Cardinality(Noisy \ {k}) \in Nat /\ Cardinality(Noisy' \ {k}) \in Nat
  <2>1. IsFiniteSet(Noisy' \ {k}) /\ Noisy \ {k} \subseteq Noisy' \ {k}
    BY <1>1, <1>2, FS_Subset
  <2>2. QED  BY <2>1, FS_Subset, FS_CardinalityType
<1>4. SUFFICES ASSUME NEW k \in Jobs, heard'[k]
               PROVE  /\ job'[k] \in AfterPoll \ {"dmesg"}
                      /\ logged'[k] = "intime" \/ before'[k] < Cardinality(Noisy' \ {k})
  BY DEF HeardInv
<1>5. CASE k = j /\ ReadDmesg(j)
  <2>1. /\ job[k] = "dmesg" /\ job'[k] = "classify" /\ Len(dmesg) > before[k]
        /\ logged' = logged /\ before' = before
    BY <1>1, <1>4, <1>5 DEF ReadDmesg, TypeOK
  <2>2. Len(dmesg) <= Cardinality(Noisy) /\ Len(dmesg) \in Nat /\ before[k] \in Nat
    BY <1>1 DEF IInv, LogInv, TypeOK
  <2>3. CASE k \in Noisy
    <3>1. logged[k] # "late"
      BY <2>1 DEF IInv, CodeInv
    <3>2. logged[k] = "intime"
      BY <1>1, <2>3, <3>1 DEF Noisy, TypeOK
    <3>3. QED  BY <2>1, <3>2 DEF AfterPoll
  <2>4. CASE k \notin Noisy
    <3>1. Noisy \ {k} = Noisy /\ Noisy' = Noisy
      BY <2>1, <2>4 DEF Noisy
    <3>2. Cardinality(Noisy) \in Nat
      BY <1>1, FS_CardinalityType
    <3>3. Noisy' \ {k} = Noisy
      BY <3>1
    <3>4. before[k] < Cardinality(Noisy)
      BY <2>1, <2>2, <3>2
    <3>5. before'[k] < Cardinality(Noisy' \ {k})
      BY <2>1, <3>3, <3>4
    <3>6. QED  BY <2>1, <3>5 DEF AfterPoll
  <2>5. QED  BY <2>3, <2>4
<1>6. CASE ~(k = j /\ ReadDmesg(j))
  <2>1. heard[k]
    BY <1>1, <1>4, <1>6 DEF TypeOK, JobStep, Start, SeeEnd, Sleep, GiveUp, ReadDmesg, RecordTimeout,
         ClassifyAndRecord, CleanUp, CauseXid, End
  <2>2. /\ job[k] \in AfterPoll \ {"dmesg"}
        /\ logged[k] = "intime" \/ before[k] < Cardinality(Noisy \ {k})
    BY <2>1 DEF HeardInv
  <2>3. /\ job'[k] \in AfterPoll \ {"dmesg"} /\ before'[k] = before[k]
        /\ logged[k] = "intime" => logged'[k] = "intime"
    BY <1>1, <1>6, <2>2 DEF TypeOK, AfterPoll, JobStep, Start, SeeEnd, Sleep, GiveUp, ReadDmesg,
         RecordTimeout, ClassifyAndRecord, CleanUp, CauseXid, End
  <2>4. before[k] \in Nat
    BY <1>1 DEF TypeOK
  <2>5. QED  BY <1>3, <2>2, <2>3, <2>4
<1>7. QED  BY <1>5, <1>6

\* A job that writes its row comes to its end.
LEMMA AddedRow ==
    ASSUME TypeOK, RecordInv, NEW j \in Jobs, NEW c, c \in DmesgErrors => heard[j],
           results' = results \cup {<<j, c>>}, job' = [job EXCEPT ![j] = "clean"],
           heard' = heard, retcode' = retcode, outcome' = outcome
    PROVE  RecordInv'
<1>1. ASSUME NEW row \in results', row[2] \in DmesgErrors
      PROVE  heard'[row[1]]
  <2>1. CASE row \in results
    BY <1>1, <2>1 DEF RecordInv
  <2>2. CASE row = <<j, c>>
    BY <1>1, <2>2
  <2>3. QED  BY <2>1, <2>2
<1>2. ASSUME NEW k \in Jobs, job'[k] \in {"clean", "done"}
      PROVE  \E row \in results' : row[1] = k
  <2>1. CASE k = j
    <3>1. <<j, c>> \in results' /\ <<j, c>>[1] = j
      OBVIOUS
    <3>2. QED  BY <2>1, <3>1
  <2>2. CASE k # j
    <3>1. job[k] \in {"clean", "done"}
      BY <1>2, <2>2 DEF TypeOK
    <3>2. QED  BY <3>1 DEF RecordInv
  <2>3. QED  BY <2>1, <2>2
<1>3. ASSUME NEW k \in Jobs, job'[k] = "crashed"
      PROVE  retcode'[k] = 0 /\ HasNoCategory(outcome'[k])
  <2>1. job[k] = "crashed"
    BY <1>3 DEF TypeOK
  <2>2. QED  BY <2>1 DEF RecordInv
<1>4. QED  BY <1>1, <1>2, <1>3 DEF RecordInv, HasNoCategory

\* A row is written where a job comes to its end, and no row goes away.
LEMMA RecordStep ==
    ASSUME IInv, RecordInv, NEW j \in Jobs, JobStep(j) \/ CauseXid(j) \/ End(j)
    PROVE  RecordInv'
<1> USE DEF GoTo
<1> DEFINE cat == Classify(outcome[j], retcode[j], heard[j])
<1>1. TypeOK /\ RowInv /\ outcome[j] \in RunKinds /\ retcode[j] \in Codes /\ heard[j] \in BOOLEAN
  BY DEF IInv, TypeOK
<1>2. (cat \in DmesgErrors => heard[j]) /\ (cat = Undefined => retcode[j] = 0 /\ HasNoCategory(outcome[j]))
  BY <1>1, ClassifyRange DEF cat
<1> HIDE DEF cat
<1>3. CASE RecordTimeout(j)
  <2>1. /\ results' = results \cup {<<j, "TIMEOUT">>} /\ job' = [job EXCEPT ![j] = "clean"]
        /\ heard' = heard /\ retcode' = retcode /\ outcome' = outcome
    BY <1>3 DEF RecordTimeout, Record
  <2>2. "TIMEOUT" \notin DmesgErrors
    BY DEF DmesgErrors
  <2>3. QED  BY <1>1, <2>1, <2>2, AddedRow
<1>4. CASE ClassifyAndRecord(j)
  <2>1. heard' = heard /\ retcode' = retcode /\ outcome' = outcome
    BY <1>4 DEF ClassifyAndRecord
  <2>2. CASE cat = Undefined
    <3>1. results' = results /\ job' = [job EXCEPT ![j] = "crashed"]
      BY <1>4, <2>2 DEF ClassifyAndRecord, cat
    <3>2. QED  BY <1>1, <1>2, <2>1, <2>2, <3>1 DEF RecordInv, TypeOK
  <2>3. CASE cat # Undefined
    <3>1. results' = results \cup {<<j, cat>>} /\ job' = [job EXCEPT ![j] = "clean"]
      BY <1>4, <2>3 DEF ClassifyAndRecord, Record, cat
    <3>2. QED  BY <1>1, <1>2, <2>1, <3>1, AddedRow
  <2>4. QED  BY <2>2, <2>3
<1>5. CASE ~RecordTimeout(j) /\ ~ClassifyAndRecord(j)
  <2>1. results' = results /\ outcome' = outcome
    BY <1>5 DEF JobStep, Start, SeeEnd, Sleep, GiveUp, ReadDmesg, CleanUp, CauseXid, End
  <2>2. ASSUME NEW k \in Jobs
        PROVE  /\ job'[k] \in {"clean", "done"} <=> job[k] \in {"clean", "done"}
               /\ job'[k] = "crashed" <=> job[k] = "crashed"
               /\ job[k] \in {"clean", "done", "crashed"} => heard'[k] = heard[k] /\ retcode'[k] = retcode[k]
    BY <1>1, <1>5 DEF TypeOK, JobStep, Start, SeeEnd, Sleep, GiveUp, ReadDmesg, CleanUp, CauseXid, End
  <2>3. ASSUME NEW row \in results
        PROVE  heard'[row[1]] = heard[row[1]]
    <3>1. row[1] \in Jobs /\ job[row[1]] \in {"clean", "done"}
      BY <1>1 DEF TypeOK, RowInv
    <3>2. QED  BY <2>2, <3>1
  <2>4. QED  BY <2>1, <2>2, <2>3 DEF RecordInv
<1>6. QED  BY <1>3, <1>4, <1>5

LEMMA RecordInvariance == FairSpec => [](HeardInv /\ RecordInv)
<1>1. Init => HeardInv /\ RecordInv
  BY DEF Init, HeardInv, RecordInv
<1>2. IInv /\ IInv' /\ HeardInv /\ RecordInv /\ [Next]_vars => HeardInv' /\ RecordInv'
  <2> SUFFICES ASSUME IInv, IInv', HeardInv, RecordInv, [Next]_vars PROVE HeardInv' /\ RecordInv'
    OBVIOUS
  <2>1. ASSUME NEW j \in Jobs, JobStep(j) \/ CauseXid(j) \/ End(j)
        PROVE  HeardInv' /\ RecordInv'
    BY <2>1, HeardStep, RecordStep
  <2>2. CASE UNCHANGED vars
    BY <2>2 DEF vars, HeardInv, RecordInv, Noisy
  <2>3. QED  BY <2>1, <2>2 DEF Next, Terminated
<1>3. QED  BY <1>1, <1>2, Invariance, PTL DEF Spec, FairSpec

\* A dmesg error is recorded only for an Xid that came after the job's start: of its own
\* run, or of the run of a job beside it.
THEOREM DmesgRowsAreNew == FairSpec => []DmesgRowHasANewXid
<1>1. IInv /\ HeardInv /\ RecordInv => DmesgRowHasANewXid
  <2> SUFFICES ASSUME IInv, HeardInv, RecordInv, NEW row \in results, row[2] \in DmesgErrors
               PROVE  \/ logged[row[1]] = "intime"
                      \/ before[row[1]] < Cardinality({j \in Jobs \ {row[1]} : logged[j] # "no"})
    BY DEF DmesgRowHasANewXid
  <2>1. row[1] \in Jobs /\ heard[row[1]]
    BY DEF IInv, TypeOK, RecordInv
  <2>2. Noisy \ {row[1]} = {j \in Jobs \ {row[1]} : logged[j] # "no"}
    BY DEF Noisy
  <2>3. QED  BY <2>1, <2>2 DEF HeardInv
<1>2. QED  BY <1>1, Invariance, RecordInvariance, PTL

\* Whatever its run does, a job that is over has one row, unless its run has no category.
THEOREM JobsAreRecorded == FairSpec => []EveryJobIsRecorded
<1>1. IInv /\ RecordInv => EveryJobIsRecorded
  <2> SUFFICES ASSUME IInv, RecordInv, NEW j \in Jobs, Over(j)
               PROVE  Recorded(j)
    BY DEF EveryJobIsRecorded
  <2>1. CASE job[j] = "crashed"
    BY <2>1 DEF RecordInv, Recorded
  <2>2. CASE job[j] = "done"
    <3>1. PICK row \in results : row[1] = j
      BY <2>2 DEF RecordInv
    <3>2. QED  BY <3>1 DEF IInv, OneRowPerJob, Recorded
  <2>3. QED  BY <2>1, <2>2 DEF Over
<1>2. QED  BY <1>1, Invariance, RecordInvariance, PTL

\* A number between -p and 0, both excluded, is no multiple of p.
LEMMA NotWhole ==
    ASSUME NEW p \in Nat, p > 0, NEW n \in Int, n < 0, n > -p
    PROVE  n % p # 0
  BY SMTT(30)

\* Where the threshold is a whole number of polls, no run outlives its job.
THEOREM WholeThresholdsKill == FairSpec => []WholeThresholdKills
<1>1. IInv => WholeThresholdKills
  <2> SUFFICES ASSUME IInv, NEW j \in Jobs, WholePolls(j), Over(j), proc[j] = "running"
               PROVE  FALSE
    BY DEF WholeThresholdKills
  <2>1. left[j] \in Int /\ left[j] < 0 /\ left[j] > -PollUnits
    BY DEF IInv, TypeOK, TimeInv, Over, AfterPoll
  <2>2. PollUnits \in Nat /\ PollUnits > 0
    BY ThresholdsAssumption
  <2>3. QED  BY <2>1, <2>2, NotWhole DEF WholePolls
<1>2. QED  BY <1>1, Invariance, PTL
=============================================================================
