--------------------------- MODULE RfInjectorProofs ---------------------------
(***************************************************************************)
(* Proofs of the safety properties of RfInjector, for every application,   *)
(* grid, thread count and site. IInv is the inductive invariant.           *)
(***************************************************************************)
EXTENDS RfInjector, InjectorHostProofs

\* The kernel that runs is the one the site names.
InTarget == phase = "kernel" /\ areParamsReady

\* The calls in progress: each holds its own value of the counter, so at most
\* one of them is the call number iid.
CallsInv ==
    /\ \A t \in Threads : at[t] # "enter" => areParamsReady
    /\ \A t \in Threads : at[t] \in {"select", "arm"} => curr[t] = site.iid /\ curr[t] > 0
    /\ \A t \in Threads : at[t] = "arm" => injThreadID = t
    /\ \A t \in Threads : curr[t] <= injCounterAllInsts
    /\ \A t, u \in Threads : t # u => curr[t] = 0 \/ curr[t] # curr[u]

\* What a selection says of the shared state. The target launch is entered with
\* no selection made, since knameCount passes site.kcount only once.
SelectionInv ==
    /\ selections # {} => knameCount[site.kname] >= site.kcount
    /\ readyToInject \/ errorInjected \/ writeBeforeRead \/ injections # {} => selections # {}
    /\ AtMostOneSelection
    /\ InTarget => \A d \in selections :
          /\ d.launch = hpc /\ d.tid = injThreadID /\ d.pc <= pc[d.tid]
          /\ readyToInject
          /\ injCounterAllInsts >= site.iid
          /\ \A t \in Threads : at[t] \notin {"select", "arm"}

\* Between selection and outcome, no access to the register has gone by; a
\* thread that is about to trap stands at the first access.
SearchInv ==
    /\ \A t \in Threads : at[t] = "trap" => writeBeforeRead
    /\ InTarget =>
          /\ injections # {} => errorInjected
          /\ aborted => errorInjected \/ writeBeforeRead
          /\ \A d \in selections :
                /\ ~errorInjected /\ ~writeBeforeRead =>
                      \A p \in AccessesFrom(d) : pc[d.tid] <= p
                /\ writeBeforeRead =>
                      /\ at[d.tid] = "trap"
                      /\ pc[d.tid] \in AccessesFrom(d)
                      /\ \A p \in AccessesFrom(d) : pc[d.tid] <= p
                      /\ site.reg \notin app[d.launch].grid[d.tid][pc[d.tid]].src

OutcomeInv ==
    /\ verdict # "none" => phase = "exited"
    /\ OneOutcome
    /\ OutcomeIsFirstAccess

IInv == TypeOK /\ HostInv /\ CallsInv /\ SelectionInv /\ SearchInv /\ OutcomeInv

-----------------------------------------------------------------------------
(* The program is fixed, so what a step leaves of the output says the same.  *)

LEMMA InstructionType ==
    ASSUME TypeOK, NEW t \in Threads, phase = "kernel"
    PROVE  /\ app[hpc].grid \in [Threads -> Seq(Instructions)]
           /\ Code(t) \in Seq(Instructions)
           /\ Len(Code(t)) \in Nat
           /\ ~Finished(t) => pc[t] \in 1..Len(Code(t)) /\ Instruction(t) \in Instructions
  <1>1. hpc \in 1..Len(app) /\ app[hpc].op = "launch"
    BY CallType DEF TypeOK, HostTypeOK
  <1>2. app[hpc].grid \in Grids
    BY <1>1, CallType DEF TypeOK
  <1>3. app[hpc].grid \in [Threads -> Seq(Instructions)]
    BY <1>2, GridsAssumption
  <1>4. Code(t) \in Seq(Instructions) /\ Len(Code(t)) \in Nat
    BY <1>3 DEF Code
  <1>5. pc[t] \in Nat \ {0}
    BY DEF TypeOK
  <1>6. QED  BY <1>3, <1>4, <1>5 DEF Finished, Instruction

LEMMA ProgramFrame ==
    ASSUME app' = app, site' = site
    PROVE  \A d : AccessesFrom(d)' = AccessesFrom(d) /\ InstructionAt(d)' = InstructionAt(d)
  BY DEF AccessesFrom, InstructionAt

\* What a step leaves of the search: the chosen accesses are ahead of the thread,
\* and a thread at the trap stays there.
LEMMA SearchFrame ==
    ASSUME SearchInv, app' = app, site' = site, InTarget' = InTarget,
           UNCHANGED <<writeBeforeRead, errorInjected, selections, injections>>,
           InTarget /\ aborted' => errorInjected \/ writeBeforeRead,
           \A t \in Threads : at'[t] = "trap" => writeBeforeRead,
           \A d \in selections :
              /\ ~errorInjected /\ ~writeBeforeRead =>
                    \A p \in AccessesFrom(d) : pc[d.tid] <= p => pc'[d.tid] <= p
              /\ writeBeforeRead /\ at[d.tid] = "trap" =>
                    pc'[d.tid] = pc[d.tid] /\ at'[d.tid] = "trap"
    PROVE  SearchInv'
  <1>1. \A d : AccessesFrom(d)' = AccessesFrom(d)
    BY ProgramFrame
  <1>2. ASSUME InTarget, NEW d \in selections, ~errorInjected, ~writeBeforeRead
        PROVE  \A p \in AccessesFrom(d) : pc'[d.tid] <= p
    BY <1>2 DEF SearchInv
  <1>3. ASSUME InTarget, NEW d \in selections, writeBeforeRead
        PROVE  /\ at'[d.tid] = "trap" /\ pc'[d.tid] = pc[d.tid]
               /\ pc'[d.tid] \in AccessesFrom(d)
               /\ \A p \in AccessesFrom(d) : pc'[d.tid] <= p
               /\ site.reg \notin app[d.launch].grid[d.tid][pc'[d.tid]].src
    <2>1. /\ at[d.tid] = "trap"
          /\ pc[d.tid] \in AccessesFrom(d)
          /\ \A p \in AccessesFrom(d) : pc[d.tid] <= p
          /\ site.reg \notin app[d.launch].grid[d.tid][pc[d.tid]].src
      BY <1>3 DEF SearchInv
    <2>2. pc'[d.tid] = pc[d.tid] /\ at'[d.tid] = "trap"
      BY <1>3, <2>1
    <2>3. QED  BY <2>1, <2>2
  <1>4. InTarget /\ injections # {} => errorInjected
    BY DEF SearchInv
  <1>5. QED  BY <1>1, <1>2, <1>3, <1>4 DEF SearchInv

LEMMA OutputFrame ==
    ASSUME app' = app, site' = site, UNCHANGED output
    PROVE  /\ AtMostOneSelection => AtMostOneSelection'
           /\ OutcomeIsFirstAccess => OutcomeIsFirstAccess'
  <1>1. selections' = selections /\ injections' = injections /\ verdict' = verdict
    BY DEF output
  <1>2. AtMostOneSelection => AtMostOneSelection'
    BY <1>1 DEF AtMostOneSelection
  <1>3. OutcomeIsFirstAccess => OutcomeIsFirstAccess'
    BY <1>1, ProgramFrame DEF OutcomeIsFirstAccess
  <1>4. QED  BY <1>2, <1>3

\* A step of the device leaves the host's variables as they are.
LEMMA HostFrame ==
    ASSUME IInv, UNCHANGED hostVars
    PROVE  /\ HostInv' /\ HostTypeOK'
           /\ app' = app /\ site' = site /\ hpc' = hpc /\ phase' = phase
           /\ knameCount' = knameCount /\ areParamsReady' = areParamsReady
           /\ InTarget' = InTarget
  <1>1. HostInv'
    BY HostStepInv DEF IInv
  <1>2. HostTypeOK'
    BY <1>1 DEF HostInv
  <1>3. UNCHANGED <<app, site, hpc, phase, knameCount, areParamsReady>>
    BY DEF hostVars
  <1>4. QED  BY <1>1, <1>2, <1>3 DEF InTarget

-----------------------------------------------------------------------------
(* The steps of the handler.                                               *)

LEMMA SkipHandlerInv == ASSUME IInv, NEW t \in Threads, SkipHandler(t) PROVE IInv'
  <1> USE DEF SkipHandler, Running, NextInstruction, injInfo
  <1>1. HostInv' /\ HostTypeOK'
    BY HostFrame
  <1>2. app' = app /\ site' = site /\ ~InTarget' /\ areParamsReady' = areParamsReady
    BY HostFrame DEF InTarget
  <1>3. TypeOK'
    BY <1>1 DEF IInv, TypeOK, output, Steps
  <1>4. CallsInv'
    BY <1>2 DEF IInv, TypeOK, CallsInv
  <1>5. SelectionInv'
    BY <1>2, HostFrame, OutputFrame DEF IInv, SelectionInv, output
  <1>6. SearchInv'
    BY <1>2 DEF IInv, TypeOK, SearchInv
  <1>7. OutcomeInv'
    BY <1>2, HostFrame, OutputFrame DEF IInv, OutcomeInv, OneOutcome, output
  <1>8. QED  BY <1>1, <1>3, <1>4, <1>5, <1>6, <1>7 DEF IInv

LEMMA CountCallInv == ASSUME IInv, NEW t \in Threads, CountCall(t) PROVE IInv'
  <1> USE DEF CountCall, Running, GoTo, injInfo
  <1>1. HostInv' /\ HostTypeOK' /\ app' = app /\ site' = site /\ InTarget /\ InTarget'
    BY HostFrame DEF InTarget
  <1>2. TypeOK'
    BY <1>1 DEF IInv, TypeOK, output, Steps
  <1>4. site.iid \in Nat
    BY SitesAssumption DEF IInv, TypeOK, HostTypeOK
  <1>9. /\ curr'[t] = injCounterAllInsts + 1 /\ at'[t] \in {"select", "check"}
        /\ at'[t] = "select" => injCounterAllInsts + 1 = site.iid
        /\ \A u \in Threads \ {t} : at'[u] = at[u] /\ curr'[u] = curr[u]
    BY DEF IInv, TypeOK
  <1>10. injCounterAllInsts \in Nat /\ curr \in [Threads -> Nat]
    BY DEF IInv, TypeOK
  <1>3. CallsInv'
    <2>1. /\ areParamsReady' /\ injThreadID' = injThreadID
          /\ injCounterAllInsts' = injCounterAllInsts + 1
      BY <1>1 DEF InTarget
    <2>2. \A u \in Threads : at'[u] = "arm" => injThreadID' = u
      BY <1>9, <2>1 DEF IInv, CallsInv
    <2>3. \A u \in Threads : at'[u] \in {"select", "arm"} => curr'[u] = site.iid /\ curr'[u] > 0
      BY <1>9, <1>10 DEF IInv, CallsInv
    <2>4. \A u \in Threads : curr'[u] <= injCounterAllInsts + 1
      BY <1>9, <1>10 DEF IInv, CallsInv
    <2>5. \A u \in Threads \ {t} : curr'[u] # curr'[t]
      BY <1>9, <1>10 DEF IInv, CallsInv
    <2>6. \A u, v \in Threads : u # v => curr'[u] = 0 \/ curr'[u] # curr'[v]
      BY <1>9, <2>5 DEF IInv, CallsInv
    <2>7. QED  BY <1>1, <2>1, <2>2, <2>3, <2>4, <2>6 DEF CallsInv
  <1>5. SelectionInv'
    <2>1. UNCHANGED <<selections, injections, injInfo>> /\ pc' = pc
      BY DEF output
    <2>2. ASSUME selections # {}
          PROVE  /\ injCounterAllInsts >= site.iid
                 /\ \A u \in Threads : at'[u] \notin {"select", "arm"}
      <3>1. injCounterAllInsts >= site.iid
        BY <1>1, <2>2 DEF IInv, SelectionInv
      <3>2. injCounterAllInsts + 1 # site.iid
        BY <1>4, <1>10, <3>1
      <3>4. at'[t] \notin {"select", "arm"}
        BY <1>9, <3>2
      <3>3. QED  BY <1>1, <1>9, <2>2, <3>1, <3>4 DEF IInv, SelectionInv
    <2>3. injCounterAllInsts' >= site.iid \/ selections = {}
      BY <1>4, <1>10, <2>2
    <2>4. AtMostOneSelection'
      BY <1>1, OutputFrame DEF IInv, SelectionInv
    <2>5. hpc' = hpc /\ knameCount' = knameCount
      BY HostFrame
    <2>6. \A d \in selections' :
            /\ d.launch = hpc' /\ d.tid = injThreadID' /\ d.pc <= pc'[d.tid]
            /\ readyToInject'
            /\ injCounterAllInsts' >= site'.iid
            /\ \A u \in Threads : at'[u] \notin {"select", "arm"}
      BY <1>1, <2>1, <2>2, <2>3, <2>5 DEF IInv, SelectionInv
    <2>7. QED  BY <1>1, <2>1, <2>4, <2>5, <2>6 DEF IInv, SelectionInv
  <1>6. SearchInv'
    <2>1. UNCHANGED <<writeBeforeRead, errorInjected, selections, injections, aborted, pc>>
      BY DEF output
    <2>2. InTarget /\ aborted => errorInjected \/ writeBeforeRead
      BY DEF IInv, SearchInv
    <2>3. \A u \in Threads : at'[u] = "trap" => writeBeforeRead
      BY <1>9 DEF IInv, SearchInv
    <2>4. \A d \in selections : at[d.tid] = "trap" => at'[d.tid] = "trap"
      BY <1>9 DEF IInv, TypeOK, Points
    <2>5. QED  BY <1>1, <2>1, <2>2, <2>3, <2>4, SearchFrame DEF IInv
  <1>7. OutcomeInv'
    BY <1>1, HostFrame, OutputFrame DEF IInv, OutcomeInv, OneOutcome, output
  <1>8. QED  BY <1>1, <1>2, <1>3, <1>5, <1>6, <1>7 DEF IInv

LEMMA SelectThreadInv == ASSUME IInv, NEW t \in Threads, SelectThread(t) PROVE IInv'
  <1> USE DEF SelectThread, Running, GoTo
  <1>1. HostInv' /\ HostTypeOK' /\ app' = app /\ site' = site /\ InTarget /\ InTarget'
    BY HostFrame DEF InTarget, IInv, CallsInv
  <1>2. selections = {}
    BY <1>1 DEF IInv, SelectionInv
  <1>3. TypeOK'
    BY <1>1 DEF IInv, TypeOK, output, Steps
  <1>4. CallsInv'
    BY <1>1, HostFrame DEF IInv, TypeOK, CallsInv
  <1>5. SelectionInv'
    BY <1>1, <1>2, HostFrame, OutputFrame DEF IInv, SelectionInv, output
  <1>6. SearchInv'
    BY <1>1, <1>2 DEF IInv, TypeOK, SearchInv, output
  <1>7. OutcomeInv'
    BY <1>1, HostFrame, OutputFrame DEF IInv, OutcomeInv, OneOutcome, output
  <1>8. QED  BY <1>1, <1>3, <1>4, <1>5, <1>6, <1>7 DEF IInv

LEMMA ArmInv == ASSUME IInv, NEW t \in Threads, Arm(t) PROVE IInv'
  <1> USE DEF Arm, Running, GoTo
  <1>1. HostInv' /\ HostTypeOK' /\ app' = app /\ site' = site /\ InTarget /\ InTarget'
    BY HostFrame DEF InTarget, IInv, CallsInv
  <1>2. /\ selections = {} /\ selections' = {Here(t)}
        /\ injections = {} /\ ~errorInjected /\ ~writeBeforeRead
    BY <1>1 DEF IInv, SelectionInv
  <1>3. Here(t) \in Points
    BY <1>1 DEF IInv, TypeOK, HostTypeOK, Here, Points, InTarget
  <1>4. TypeOK'
    BY <1>1, <1>2, <1>3 DEF IInv, TypeOK, Steps
  <1>5. CallsInv'
    BY <1>1, HostFrame DEF IInv, TypeOK, CallsInv
  <1>6. SelectionInv'
    <2>1. knameCount[site.kname] = site.kcount /\ site.kcount \in Nat
      BY <1>1, SitesAssumption DEF IInv, HostInv, HostTypeOK, ReadyAgrees, InTarget
    <2>2. AtMostOneSelection'
      BY <1>2 DEF AtMostOneSelection
    <2>3. injThreadID = t /\ curr[t] = site.iid /\ curr[t] > 0
      BY DEF IInv, CallsInv
    <2>4. \A u \in Threads : at'[u] \notin {"select", "arm"}
      BY <2>3 DEF IInv, TypeOK, CallsInv
    <2>5. injCounterAllInsts >= site.iid
      BY <2>3 DEF IInv, CallsInv
    <2>6. pc[t] \in Nat
      BY DEF IInv, TypeOK
    <2>7. \A d \in selections' :
             d.launch = hpc /\ d.tid = injThreadID /\ d.pc <= pc[d.tid]
      BY <1>2, <2>3, <2>6 DEF Here
    <2>8. QED  BY <1>1, <1>2, <2>1, <2>2, <2>4, <2>5, <2>7, HostFrame DEF SelectionInv
  <1>7. SearchInv'
    <2>1. \A p \in AccessesFrom(Here(t)) : pc[t] <= p
      BY DEF AccessesFrom, Here
    <2>2. QED  BY <1>1, <1>2, <2>1, HostFrame, ProgramFrame DEF IInv, TypeOK, SearchInv, Here
  <1>8. OutcomeInv'
    BY <1>1, <1>2, HostFrame
       DEF IInv, OutcomeInv, OneOutcome, OutcomeIsFirstAccess, InTarget
  <1>9. QED  BY <1>1, <1>4, <1>5, <1>6, <1>7, <1>8 DEF IInv

\* In the target launch, the thread and the pc of the one selection.
LEMMA MayInjectSelected ==
    ASSUME IInv, InTarget, NEW t \in Threads, MayInject(t)
    PROVE  /\ selections # {} /\ readyToInject /\ injThreadID = t /\ ~errorInjected
           /\ injections = {}
           /\ \A d \in selections : d.launch = hpc /\ d.tid = t /\ d.pc <= pc[t]
  BY DEF IInv, MayInject, SelectionInv, SearchInv

\* The instruction at which the selected thread stands is an access or is not.
LEMMA AccessHere ==
    ASSUME NEW d \in Points, NEW t, d.launch = hpc, d.tid = t,
           pc[t] \in Nat, Len(Code(t)) \in Nat, d.pc <= pc[t], pc[t] <= Len(Code(t))
    PROVE  pc[t] \in AccessesFrom(d) <=>
              Instruction(t).exec /\ site.reg \in Instruction(t).src \cup Instruction(t).dst
  <1>1. d.pc \in Nat
    BY DEF Points
  <1>2. Code(t) = app[d.launch].grid[d.tid] /\ Instruction(t) = Code(t)[pc[t]]
    BY DEF Code, Instruction
  <1>3. pc[t] \in d.pc..Len(app[d.launch].grid[d.tid])
    BY <1>1, <1>2
  <1>4. QED  BY <1>2, <1>3 DEF AccessesFrom

LEMMA PassCheckInv == ASSUME IInv, NEW t \in Threads, PassCheck(t) PROVE IInv'
  <1> USE DEF PassCheck, Running, NextInstruction, injInfo
  <1>1. HostInv' /\ HostTypeOK' /\ app' = app /\ site' = site /\ InTarget /\ InTarget'
    BY HostFrame DEF InTarget, IInv, CallsInv
  <1>2. pc[t] \in Nat \ {0} /\ pc'[t] = pc[t] + 1 /\ \A u \in Threads \ {t} : pc'[u] = pc[u]
    BY DEF IInv, TypeOK
  <1>3. at'[t] = "enter" /\ \A u \in Threads \ {t} : at'[u] = at[u]
    BY DEF IInv, TypeOK
  <1>4. TypeOK'
    BY <1>1 DEF IInv, TypeOK, output, Steps
  <1>5. CallsInv'
    BY <1>1, <1>3, HostFrame DEF IInv, CallsInv
  <1>6. SelectionInv'
    <2>1. UNCHANGED <<selections, injections, injInfo>>
      BY DEF output
    <2>2. AtMostOneSelection'
      BY <1>1, OutputFrame DEF IInv, SelectionInv
    <2>3. hpc' = hpc /\ knameCount' = knameCount
      BY HostFrame
    <2>4. \A d \in selections' : d.launch = hpc' /\ d.tid = injThreadID' /\ d.pc <= pc'[d.tid]
      <3> TAKE d \in selections'
      <3>1. d.launch = hpc /\ d.tid = injThreadID /\ d.pc <= pc[d.tid] /\ d \in Points
        BY <1>1, <2>1 DEF IInv, SelectionInv, TypeOK
      <3>2. d.tid \in Threads /\ d.pc \in Nat
        BY <3>1 DEF Points
      <3>3. d.pc <= pc'[d.tid]
        BY <1>2, <3>1, <3>2
      <3>4. QED  BY <2>1, <2>3, <3>1, <3>3
    <2>5. QED  BY <1>1, <1>3, <2>1, <2>2, <2>3, <2>4 DEF IInv, SelectionInv
  <1>7. SearchInv'
    <2>1. UNCHANGED <<selections, injections, injInfo, aborted>>
      BY DEF output
    <2>2. \A u \in Threads : at'[u] = "trap" => writeBeforeRead'
      BY <1>3, <2>1 DEF IInv, SearchInv
    <2>3. ASSUME NEW d \in selections, ~errorInjected, ~writeBeforeRead
          PROVE  \A p \in AccessesFrom(d) : pc'[d.tid] <= p
      <3>1. /\ \A p \in AccessesFrom(d) : pc[d.tid] <= p
            /\ d.launch = hpc /\ d.tid = injThreadID /\ readyToInject
        BY <1>1, <2>3 DEF IInv, SearchInv, SelectionInv
      <3>2. d \in Points /\ d.tid \in Threads /\ d.pc \in Nat
        BY DEF IInv, TypeOK, Points
      <3>3. CASE d.tid # t
        BY <1>2, <3>1, <3>2, <3>3
      <3>4. CASE d.tid = t
        <4>1. ~(Instruction(t).exec /\ (ReadsReg(t) \/ OnlyWritesReg(t)))
          BY <2>3, <3>1, <3>4 DEF MayInject
        <4>2. pc[t] \notin AccessesFrom(d)
          BY <3>1, <3>4, <4>1
             DEF AccessesFrom, ReadsReg, OnlyWritesReg, Instruction, Code
        <4>3. \A p \in AccessesFrom(d) : p \in Int
          BY DEF AccessesFrom
        <4>4. QED  BY <1>2, <3>1, <3>4, <4>2, <4>3
      <3>5. QED  BY <3>3, <3>4
    <2>4. ASSUME NEW d \in selections, writeBeforeRead
          PROVE  pc'[d.tid] = pc[d.tid] /\ at'[d.tid] = at[d.tid]
      <3>1. at[d.tid] = "trap" /\ d.tid \in Threads
        BY <1>1, <2>4 DEF IInv, SearchInv, TypeOK, Points
      <3>2. QED  BY <1>2, <1>3, <3>1
    <2>5. InTarget /\ aborted => errorInjected \/ writeBeforeRead
      BY DEF IInv, SearchInv
    <2>6. QED  BY <1>1, <2>1, <2>2, <2>3, <2>4, <2>5, SearchFrame DEF IInv
  <1>8. OutcomeInv'
    BY <1>1, HostFrame, OutputFrame DEF IInv, OutcomeInv, OneOutcome, output
  <1>9. QED  BY <1>1, <1>4, <1>5, <1>6, <1>7, <1>8 DEF IInv

LEMMA InjectReadInv == ASSUME IInv, NEW t \in Threads, InjectRead(t) PROVE IInv'
  <1> USE DEF InjectRead, Running, NextInstruction
  <1>1. HostInv' /\ HostTypeOK' /\ app' = app /\ site' = site /\ InTarget /\ InTarget'
    BY HostFrame DEF InTarget, IInv, CallsInv
  <1>2. pc[t] \in Nat \ {0} /\ pc'[t] = pc[t] + 1 /\ \A u \in Threads \ {t} : pc'[u] = pc[u]
    BY DEF IInv, TypeOK
  <1>3. at'[t] = "enter" /\ \A u \in Threads \ {t} : at'[u] = at[u]
    BY DEF IInv, TypeOK
  <1>4. /\ selections # {} /\ readyToInject /\ injThreadID = t /\ ~errorInjected
        /\ injections = {} /\ injections' = {Here(t)}
        /\ \A d \in selections : d.launch = hpc /\ d.tid = t /\ d.pc <= pc[t]
    BY <1>1, MayInjectSelected
  <1>5. ~writeBeforeRead
    BY <1>1, <1>4 DEF IInv, SearchInv
  <1>6. TypeOK'
    <2>1. Here(t) \in Points
      BY <1>1, <1>2 DEF IInv, TypeOK, HostTypeOK, Here, Points, InTarget
    <2>2. QED  BY <1>1, <1>4, <2>1 DEF IInv, TypeOK, Steps
  <1>7. CallsInv'
    BY <1>1, <1>3, HostFrame DEF IInv, CallsInv
  <1>8. SelectionInv'
    <2>1. hpc' = hpc /\ knameCount' = knameCount
      BY HostFrame
    <2>2. AtMostOneSelection'
      BY DEF IInv, SelectionInv, AtMostOneSelection
    <2>3. \A d \in selections : d.pc <= pc'[t]
      <3> TAKE d \in selections
      <3>1. d.pc \in Nat /\ d.pc <= pc[t]
        BY <1>4 DEF IInv, TypeOK, Points
      <3>2. QED  BY <1>2, <3>1
    <2>4. QED  BY <1>1, <1>3, <1>4, <2>1, <2>2, <2>3 DEF IInv, SelectionInv
  <1>9. SearchInv'
    BY <1>1, <1>3, <1>5 DEF IInv, SearchInv
  <1>10. OutcomeInv'
    <2>1. verdict' = "none" /\ verdict = "none"
      BY <1>1 DEF IInv, OutcomeInv, InTarget
    <2>2. OneOutcome'
      BY <1>4, <1>5, <2>1 DEF OneOutcome
    <2>3. ASSUME NEW d \in selections
          PROVE  pc[t] \in AccessesFrom(d) /\ \A p \in AccessesFrom(d) : pc[t] <= p
      <3>1. \A p \in AccessesFrom(d) : pc[t] <= p
        BY <1>1, <1>4, <1>5 DEF IInv, SearchInv
      <3>2. pc[t] \in 1..Len(Code(t)) /\ d.pc \in Nat /\ d.pc <= pc[t] /\ Len(Code(t)) \in Nat
        BY <1>1, <1>4, InstructionType DEF IInv, TypeOK, Points, InTarget
      <3>3. Instruction(t).exec /\ site.reg \in Instruction(t).src
        BY DEF MayInject, ReadsReg
      <3>4. d \in Points
        BY DEF IInv, TypeOK
      <3>5. QED  BY <1>4, <3>1, <3>2, <3>3, <3>4, AccessHere
    <2>4. OutcomeIsFirstAccess'
      BY <1>1, <1>4, <2>1, <2>3, ProgramFrame
         DEF OutcomeIsFirstAccess, InstructionAt, Here, ReadsReg, Instruction, Code
    <2>5. QED  BY <2>1, <2>2, <2>4 DEF OutcomeInv
  <1>11. QED  BY <1>1, <1>6, <1>7, <1>8, <1>9, <1>10 DEF IInv

LEMMA MarkWrittenInv == ASSUME IInv, NEW t \in Threads, MarkWritten(t) PROVE IInv'
  <1> USE DEF MarkWritten, Running, GoTo
  <1>1. HostInv' /\ HostTypeOK' /\ app' = app /\ site' = site /\ InTarget /\ InTarget'
    BY HostFrame DEF InTarget, IInv, CallsInv
  <1>2. at'[t] = "trap" /\ \A u \in Threads \ {t} : at'[u] = at[u]
    BY DEF IInv, TypeOK
  <1>3. /\ selections # {} /\ readyToInject /\ injThreadID = t /\ ~errorInjected
        /\ injections = {}
        /\ \A d \in selections : d.launch = hpc /\ d.tid = t /\ d.pc <= pc[t]
    BY <1>1, MayInjectSelected
  <1>4. ~writeBeforeRead
    BY <1>1, <1>3 DEF IInv, SearchInv
  <1>5. TypeOK'
    BY <1>1 DEF IInv, TypeOK, output, Steps
  <1>6. CallsInv'
    BY <1>1, <1>2, HostFrame DEF IInv, CallsInv
  <1>7. SelectionInv'
    BY <1>1, <1>2, <1>3, HostFrame, OutputFrame DEF IInv, SelectionInv, output
  <1>8. SearchInv'
    <2>1. ASSUME NEW d \in selections
          PROVE  /\ d.tid = t /\ d.launch = hpc
                 /\ pc[t] \in AccessesFrom(d) /\ \A p \in AccessesFrom(d) : pc[t] <= p
                 /\ site.reg \notin app[d.launch].grid[d.tid][pc[d.tid]].src
      <3>1. \A p \in AccessesFrom(d) : pc[t] <= p
        BY <1>1, <1>3, <1>4 DEF IInv, SearchInv
      <3>2. pc[t] \in 1..Len(Code(t)) /\ d.pc \in Nat /\ d.pc <= pc[t] /\ Len(Code(t)) \in Nat
        BY <1>1, <1>3, InstructionType DEF IInv, TypeOK, Points, InTarget
      <3>3. /\ Instruction(t).exec /\ site.reg \in Instruction(t).dst
            /\ site.reg \notin Instruction(t).src
        BY DEF MayInject, OnlyWritesReg, ReadsReg
      <3>4. d \in Points
        BY DEF IInv, TypeOK
      <3>5. pc[t] \in AccessesFrom(d)
        BY <1>3, <3>2, <3>3, <3>4, AccessHere
      <3>6. QED  BY <1>3, <3>1, <3>3, <3>5 DEF Instruction, Code
    <2>2. UNCHANGED <<selections, injections, aborted, pc>> /\ writeBeforeRead' /\ hpc' = hpc
      BY HostFrame DEF output
    <2>3. QED  BY <1>1, <1>2, <1>3, <2>1, <2>2, ProgramFrame DEF SearchInv
  <1>9. OutcomeInv'
    BY <1>1, <1>3, HostFrame, OutputFrame DEF IInv, OutcomeInv, OneOutcome, output
  <1>10. QED  BY <1>1, <1>5, <1>6, <1>7, <1>8, <1>9 DEF IInv

\* The grid is killed by the trap or by the error: nothing else moves.
LEMMA AbortInv ==
    ASSUME IInv, aborted' = TRUE, InTarget => errorInjected \/ writeBeforeRead,
           UNCHANGED <<hostVars, injInfo, injCounterAllInsts, threadVars, output>>
    PROVE  IInv'
  <1> USE DEF injInfo, threadVars
  <1>1. HostInv' /\ HostTypeOK' /\ app' = app /\ site' = site
    BY HostFrame
  <1>2. TypeOK'
    BY <1>1 DEF IInv, TypeOK, output
  <1>3. CallsInv'
    BY <1>1, HostFrame DEF IInv, CallsInv
  <1>4. SelectionInv'
    BY <1>1, HostFrame, OutputFrame DEF IInv, SelectionInv, output
  <1>5. SearchInv'
    <2>1. UNCHANGED <<writeBeforeRead, errorInjected, selections, injections, pc, at>>
      BY DEF output
    <2>2. InTarget' = InTarget
      BY HostFrame
    <2>3. QED  BY <1>1, <2>1, <2>2, SearchFrame DEF IInv, SearchInv
  <1>6. OutcomeInv'
    BY <1>1, HostFrame, OutputFrame DEF IInv, OutcomeInv, OneOutcome, output
  <1>7. QED  BY <1>1, <1>2, <1>3, <1>4, <1>5, <1>6 DEF IInv

LEMMA TrapInv == ASSUME IInv, NEW t \in Threads, Trap(t) PROVE IInv'
  <1>1. writeBeforeRead
    BY DEF Trap, Running, IInv, SearchInv
  <1>2. QED  BY <1>1, AbortInv DEF Trap

LEMMA DeviceFaultInv == ASSUME IInv, DeviceFault PROVE IInv'
  BY AbortInv DEF DeviceFault

-----------------------------------------------------------------------------
(* The steps of the host.                                                  *)

\* knameCount never falls, and the launch that is armed brings it to
\* site.kcount: nothing can have been selected before.
LEMMA LaunchKernelInv == ASSUME IInv, LaunchKernel PROVE IInv'
  <1> USE DEF LaunchKernel
  <1>1. HostInv' /\ HostTypeOK'
    BY HostStepInv DEF IInv, HostStep, HostInv
  <1>2. app' = app /\ site' = site /\ phase = "host"
    BY DEF EnterLaunch, NextCallIs
  <1>3. selections' = selections /\ injections' = injections /\ verdict' = verdict
    BY DEF output
  <1>4. \/ /\ readyToInject' = readyToInject /\ errorInjected' = errorInjected
           /\ writeBeforeRead' = writeBeforeRead /\ injThreadID' = injThreadID
        \/ /\ readyToInject' = FALSE /\ errorInjected' = FALSE
           /\ writeBeforeRead' = FALSE /\ injThreadID' = NoThread
    BY DEF ResetInjInfo, injInfo
  <1>5. TypeOK'
    <2>1. /\ pc' \in [Threads -> Nat \ {0}] /\ at' \in [Threads -> Steps]
          /\ curr' \in [Threads -> Nat]
      BY DEF Steps
    <2>2. /\ readyToInject' \in BOOLEAN /\ errorInjected' \in BOOLEAN
          /\ writeBeforeRead' \in BOOLEAN /\ injThreadID' \in Threads \cup {NoThread}
      BY <1>4 DEF IInv, TypeOK, injInfo
    <2>3. QED  BY <1>1, <1>3, <2>1, <2>2 DEF IInv, TypeOK
  <1>6. CallsInv'
    BY DEF CallsInv
  <1>7. /\ selections # {} => knameCount'[site.kname] >= site.kcount
        /\ areParamsReady' => selections = {}
    <2> DEFINE k == app[hpc].kname
    <2>1. k \in KNames /\ site.kname \in KNames /\ site.kcount \in Nat
      BY CallType, SitesAssumption DEF IInv, TypeOK, HostTypeOK, EnterLaunch, NextCallIs
    <2>2. /\ knameCount \in [KNames -> Int]
          /\ knameCount' = [knameCount EXCEPT ![k] = @ + 1]
          /\ areParamsReady' = (k = site.kname /\ knameCount'[k] = site.kcount)
      BY DEF IInv, TypeOK, HostTypeOK, EnterLaunch, CountLaunch, IsTarget
    <2>3. selections # {} => knameCount[site.kname] >= site.kcount
      BY DEF IInv, SelectionInv
    <2>4. knameCount'[site.kname] = knameCount[site.kname] + (IF k = site.kname THEN 1 ELSE 0)
      BY <2>1, <2>2
    <2>5. knameCount[site.kname] \in Int /\ (areParamsReady' => k = site.kname)
      BY <2>1, <2>2
    <2>6. areParamsReady' => knameCount'[site.kname] = site.kcount
      BY <2>2
    <2>7. QED  BY <2>1, <2>3, <2>4, <2>5, <2>6
  <1>8. SelectionInv'
    <2>1. AtMostOneSelection'
      BY <1>2, OutputFrame DEF IInv, SelectionInv
    <2>2. readyToInject' \/ errorInjected' \/ writeBeforeRead' \/ injections' # {} =>
            selections # {}
      BY <1>3, <1>4 DEF IInv, SelectionInv, injInfo
    <2>3. QED  BY <1>2, <1>3, <1>7, <2>1, <2>2 DEF SelectionInv, InTarget
  <1>9. SearchInv'
    BY <1>3, <1>7, <1>8 DEF SearchInv, SelectionInv, InTarget
  <1>10. OutcomeInv'
    <2>1. verdict' = "none"
      BY <1>2, <1>3 DEF IInv, OutcomeInv
    <2>2. OneOutcome'
      BY <1>3, <1>4, <2>1 DEF IInv, OutcomeInv, OneOutcome, injInfo
    <2>3. QED  BY <1>2, <2>1, <2>2, OutputFrame DEF IInv, OutcomeInv
  <1>11. QED  BY <1>1, <1>5, <1>6, <1>8, <1>9, <1>10 DEF IInv

LEMMA ExitKernelInv == ASSUME IInv, ExitKernel PROVE IInv'
  <1> USE DEF ExitKernel, injInfo, threadVars
  <1>1. LeaveLaunch(verdict' # "none")
    OBVIOUS
  <1>2. HostInv' /\ HostTypeOK'
    BY <1>1, LeaveLaunchInv DEF IInv, HostInv
  <1>3. /\ app' = app /\ site' = site /\ phase = "kernel" /\ ~InTarget'
        /\ knameCount' = knameCount /\ areParamsReady' = areParamsReady
        /\ phase' = IF verdict' # "none" THEN "exited" ELSE "host"
    BY <1>1 DEF LeaveLaunch, InTarget
  <1>4. /\ selections' = selections /\ injections' = injections
        /\ verdict' \in {"none", "written", "notread"}
        /\ verdict' # "none" => InTarget /\ readyToInject
        /\ verdict' = "written" => writeBeforeRead
        /\ verdict' = "notread" => ~writeBeforeRead /\ ~errorInjected
    BY <1>3 DEF Verdict, InTarget
  <1>5. TypeOK'
    BY <1>2, <1>4 DEF IInv, TypeOK
  <1>6. CallsInv'
    BY <1>3 DEF IInv, CallsInv
  <1>7. SelectionInv'
    BY <1>3, <1>4 DEF IInv, SelectionInv, AtMostOneSelection
  <1>8. SearchInv'
    BY <1>3 DEF IInv, SearchInv
  <1>9. OutcomeInv'
    <2>1. OneOutcome'
      BY <1>4 DEF IInv, OutcomeInv, OneOutcome, SearchInv
    <2>2. verdict' # "none" => selections # {}
      BY <1>4 DEF IInv, SelectionInv
    <2>3. ASSUME NEW d \in selections, verdict' = "notread"
          PROVE  AccessesFrom(d) = {}
      <3>1. /\ \A p \in AccessesFrom(d) : pc[d.tid] <= p
            /\ ~aborted /\ d.launch = hpc /\ d.tid \in Threads /\ d \in Points
        BY <1>4, <2>3 DEF IInv, SearchInv, SelectionInv, TypeOK, Points
      <3>2. /\ pc[d.tid] \in Nat /\ Len(Code(d.tid)) \in Nat /\ pc[d.tid] > Len(Code(d.tid))
        BY <1>3, <3>1, InstructionType DEF IInv, TypeOK, Finished
      <3>3. \A p \in AccessesFrom(d) : p \in Int /\ p <= Len(Code(d.tid))
        BY <3>1, <3>2 DEF AccessesFrom, Code, Points
      <3>4. QED  BY <3>1, <3>2, <3>3
    <2>4. ASSUME NEW d \in selections, verdict' = "written"
          PROVE  \E p \in AccessesFrom(d) :
                    /\ \A q \in AccessesFrom(d) : p <= q
                    /\ site.reg \notin app[d.launch].grid[d.tid][p].src
      BY <1>4, <2>4 DEF IInv, SearchInv
    <2>5. OutcomeIsFirstAccess'
      BY <1>3, <1>4, <2>2, <2>3, <2>4, ProgramFrame DEF IInv, OutcomeInv, OutcomeIsFirstAccess
    <2>6. QED  BY <1>3, <2>1, <2>5 DEF OutcomeInv
  <1>10. QED  BY <1>2, <1>5, <1>6, <1>7, <1>8, <1>9 DEF IInv

\* Outside a kernel the host changes nothing that the handlers use.
LEMMA IdleHostInv ==
    ASSUME IInv, ResetDevice \/ ReturnFromMain,
           UNCHANGED <<injInfo, injCounterAllInsts, threadVars, aborted, output>>
    PROVE  IInv'
  <1> USE DEF injInfo, threadVars
  <1>1. HostInv' /\ HostTypeOK'
    BY HostStepInv DEF IInv, HostStep, HostInv
  <1>2. /\ app' = app /\ site' = site /\ phase = "host" /\ ~InTarget'
        /\ knameCount' = knameCount /\ areParamsReady' = areParamsReady
    BY DEF ResetDevice, ReturnFromMain, NextCallIs, InTarget
  <1>3. TypeOK'
    BY <1>1 DEF IInv, TypeOK, output
  <1>4. CallsInv'
    BY <1>2 DEF IInv, CallsInv
  <1>5. SelectionInv'
    BY <1>2, OutputFrame DEF IInv, SelectionInv, output
  <1>6. SearchInv'
    BY <1>2 DEF IInv, SearchInv
  <1>7. OutcomeInv'
    BY <1>2, OutputFrame DEF IInv, OutcomeInv, OneOutcome, output
  <1>8. QED  BY <1>1, <1>3, <1>4, <1>5, <1>6, <1>7 DEF IInv

-----------------------------------------------------------------------------
(* The invariant and what follows from it.                                 *)

LEMMA InitInv == Init => IInv
  <1> SUFFICES ASSUME Init PROVE IInv
    OBVIOUS
  <1> USE DEF Init
  <1>1. HostInv /\ HostTypeOK
    BY HostInitInv DEF HostInv
  <1>2. TypeOK
    <2>1. /\ pc \in [Threads -> Nat \ {0}] /\ at \in [Threads -> Steps]
          /\ curr \in [Threads -> Nat]
      BY DEF Steps
    <2>2. QED  BY <1>1, <2>1 DEF TypeOK
  <1>3. CallsInv
    BY DEF CallsInv
  <1>4. SelectionInv /\ SearchInv
    BY DEF SelectionInv, SearchInv, AtMostOneSelection
  <1>5. OutcomeInv
    BY DEF OutcomeInv, OneOutcome, OutcomeIsFirstAccess
  <1>6. QED  BY <1>1, <1>2, <1>3, <1>4, <1>5 DEF IInv

LEMMA NextInv == IInv /\ [Next]_vars => IInv'
  <1> SUFFICES ASSUME IInv, [Next]_vars PROVE IInv'
    OBVIOUS
  <1>1. CASE LaunchKernel
    BY <1>1, LaunchKernelInv
  <1>2. CASE ExitKernel
    BY <1>2, ExitKernelInv
  <1>3. CASE Reset
    BY <1>3, IdleHostInv DEF Reset
  <1>4. CASE Exit
    BY <1>4, IdleHostInv DEF Exit
  <1>5. CASE DeviceFault
    BY <1>5, DeviceFaultInv
  <1>6. ASSUME NEW t \in Threads, Handler(t) PROVE IInv'
    BY <1>6, SkipHandlerInv, CountCallInv, SelectThreadInv, ArmInv, PassCheckInv,
       InjectReadInv, MarkWrittenInv, TrapInv DEF Handler
  <1>7. CASE UNCHANGED vars
    <2>1. HostInv' /\ HostTypeOK' /\ app' = app /\ site' = site
      BY <1>7, HostFrame DEF vars
    <2>2. TypeOK'
      BY <1>7, <2>1 DEF vars, injInfo, threadVars, output, IInv, TypeOK
    <2>3. CallsInv' /\ SelectionInv'
      BY <1>7, <2>1, HostFrame, OutputFrame
         DEF vars, injInfo, threadVars, output, IInv, CallsInv, SelectionInv
    <2>4. OutcomeInv'
      BY <1>7, <2>1, HostFrame, OutputFrame
         DEF vars, injInfo, output, IInv, OutcomeInv, OneOutcome
    <2>5. SearchInv'
      <3>1. UNCHANGED <<writeBeforeRead, errorInjected, selections, injections, aborted, pc, at>>
        BY <1>7 DEF vars, injInfo, threadVars, output
      <3>2. InTarget' = InTarget
        BY <1>7, HostFrame DEF vars
      <3>3. QED  BY <2>1, <3>1, <3>2, SearchFrame DEF IInv, SearchInv
    <2>6. QED  BY <2>1, <2>2, <2>3, <2>4, <2>5 DEF IInv
  <1>8. QED  BY <1>1, <1>2, <1>3, <1>4, <1>5, <1>6, <1>7 DEF Next, Terminated

\* Every reachable state satisfies the inductive invariant.
THEOREM Invariance == Spec => []IInv
  BY InitInv, NextInv, PTL DEF Spec

\* The variables of the host, of inj_info and of the threads keep their types.
THEOREM TypeCorrect == Spec => []TypeOK
  <1>1. IInv => TypeOK
    BY DEF IInv
  <1>2. QED  BY <1>1, Invariance, PTL

\* The handlers are armed in exactly the launch that the site names, for every
\* sequence of launches and device resets.
THEOREM ArmedInNamedLaunch == Spec => []ArmedOnlyInNamedLaunch
  <1>1. IInv => ArmedOnlyInNamedLaunch
    BY HostInvImpliesArmed DEF IInv
  <1>2. QED  BY <1>1, Invariance, PTL

\* One dynamic instruction is selected, for any number of threads that
\* interleave around the counter.
THEOREM SelectedOnce == Spec => []AtMostOneSelection
  <1>1. IInv => AtMostOneSelection
    BY DEF IInv, SelectionInv
  <1>2. QED  BY <1>1, Invariance, PTL

\* A run has one outcome.
THEOREM OutcomeIsUnique == Spec => []OneOutcome
  <1>1. IInv => OneOutcome
    BY DEF IInv, OutcomeInv
  <1>2. QED  BY <1>1, Invariance, PTL

\* The outcome is decided by the first access to the register.
THEOREM OutcomeIsTrue == Spec => []OutcomeIsFirstAccess
  <1>1. IInv => OutcomeIsFirstAccess
    BY DEF IInv, OutcomeInv
  <1>2. QED  BY <1>1, Invariance, PTL
=============================================================================
