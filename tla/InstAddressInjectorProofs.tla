----------------------- MODULE InstAddressInjectorProofs -----------------------
(***************************************************************************)
(* Proofs about InstAddressInjector, for every application, grid, number   *)
(* of threads, width of registers and addresses and site: the instruction  *)
(* struck is the site's, the bits flipped are the model's, and the         *)
(* handlers together make one misdirected write; and about                 *)
(* InstAddressCampaign: the profile that sites are drawn from is exact.    *)
(***************************************************************************)
EXTENDS InstAddressCampaign, InjectorHostProofs, SequenceTheorems

\* The kernel that runs is the one the site names.
InTarget == phase = "kernel" /\ ~aborted /\ areParamsReady

\* Nothing has been selected yet.
Clean ==
    /\ injThreadID = NoThread /\ ~readyToInject /\ ~errorInjected /\ ~errorInjectedAfter
    /\ injections = {}

\* The thread whose result is to be struck, or is being so.
Aims(t) == injThreadID = t /\ readyToInject /\ ~errorInjectedAfter

Targeted(t) == ~Finished(t) /\ Instruction(t).runs /\ InGroup(Instruction(t), site.igid)

\* Registers and memory are those of the machine, and the streams those of the
\* running kernel; without one the threads are at rest.
MachineInv ==
    /\ regs = [t \in Threads |-> [r \in Regs |-> regs[t][r]]]
    /\ mem = [a \in Addrs |-> mem[a]]
    /\ phase = "kernel" /\ ~aborted => code = app[hpc].grid
    /\ phase # "kernel" \/ aborted =>
          /\ code = NoCode /\ regs = InitRegs
          /\ pc = [t \in Threads |-> 1] /\ at = [t \in Threads |-> "before"]

\* The target launch is entered clean, since knameCount passes site.kcount once.
CleanInv == knameCount[site.kname] < site.kcount => Clean

\* The handlers get beyond their first test in the target launch only.
StepsInv == ~InTarget => \A t \in Threads : at[t] \in {"before", "execute", "after"}

\* The life of a selection: the counter passes iid once, so one thread only gets to
\* "select"; it arms, saves, executes and has its result struck before it goes on.
FlagsInv ==
    InTarget =>
        /\ injThreadID # NoThread => injCounter >= site.iid
        /\ errorInjected => errorInjectedAfter
        /\ errorInjectedAfter => readyToInject
        /\ readyToInject => injThreadID # NoThread
        /\ ~readyToInject /\ injThreadID # NoThread => at[injThreadID] = "arm"
        /\ readyToInject /\ ~errorInjectedAfter =>
              at[injThreadID] \in {"save", "execute", "after", "write", "restore"}
        /\ injections # {} =>
              /\ readyToInject
              /\ errorInjectedAfter \/ at[injThreadID] \in {"write", "restore"}

PickedInv ==
    InTarget =>
        /\ \A t \in Threads :
              /\ at[t] = "select" => Clean /\ injCounter >= site.iid
              /\ at[t] = "arm" => injThreadID = t /\ ~readyToInject
              /\ at[t] \in {"save", "write", "restore"} => Aims(t)
              /\ at[t] \in {"write", "restore"} => site.igid = "STORE_OP"
              /\ at[t] \in {"select", "arm"} \/ Aims(t) => Targeted(t)
        /\ \A t, u \in Threads : at[t] = "select" /\ at[u] = "select" => t = u

\* What is known of an injection that was made.
Described(e) ==
    /\ IsNamedLaunch(e.launch)
    /\ InstructionOf(e).runs /\ InGroup(InstructionOf(e), site.igid)
    /\ e.mask \in Flips(site.igid)

InjectionsInv == \A e \in injections : Described(e)

\* The types, but for what TypeOK says of how many threads are where.
TypeInv ==
    /\ code \in Grids \cup {NoCode}
    /\ pc \in [Threads -> Nat \ {0}] /\ \A t \in Threads : pc[t] <= Len(code[t]) + 1
    /\ at \in [Threads -> Steps]
    /\ injCounter \in Nat
    /\ injThreadID \in Threads \cup {NoThread}
    /\ readyToInject \in BOOLEAN /\ errorInjected \in BOOLEAN
    /\ errorInjectedAfter \in BOOLEAN /\ aborted \in BOOLEAN
    /\ DOMAIN saved \subseteq Regs \/ DOMAIN saved \subseteq Addrs
    /\ resolved \in Nat
    /\ \A e, f \in injections : e = f

IInv ==
    /\ TypeInv /\ HostInv /\ MachineInv /\ CleanInv /\ StepsInv /\ FlagsInv /\ PickedInv
    /\ InjectionsInv

\* What the store of thread t has computed; the memory does not matter to it.
Result(t) == Value(t, pc[t], 0, Instruction(t), regs[t], mem)

\* A result that is to be struck: what it overwrites has been saved, and the result
\* of a store can be read back from the right address until it is taken aside.
SavedInv ==
    InTarget => \A t \in Threads : Aims(t) =>
        /\ at[t] = "execute" => saved = Saved(Instruction(t), regs[t], mem)
        /\ site.igid = "STORE_OP" =>
              /\ at[t] \in {"after", "write", "restore"} => DOMAIN saved = {Instruction(t).addr}
              /\ at[t] = "after" => mem[Instruction(t).addr] = Result(t)
              /\ at[t] = "write" => tmp.place \in Addrs /\ tmp.value = Result(t)
              /\ at[t] \in {"write", "restore"} => injections # {}

\* A register result that was taken aside: until the thread has accessed the wrong
\* register no instruction that it executes does, and the one that does first finds
\* the result there if it reads.
PlaceInv ==
    InTarget /\ site.igid = "GPR" /\ errorInjectedAfter =>
        LET t == injThreadID IN
        /\ ~errorInjected /\ at[t] = "execute" /\ ~Finished(t) /\ Instruction(t).runs =>
              ~Reads(t) /\ ~Writes(t)
        /\ errorInjected => resolved <= pc[t]
        /\ errorInjected /\ at[t] = "before" => resolved < pc[t]
        /\ errorInjected /\ at[t] = "execute" /\ resolved = pc[t] =>
              /\ Instruction(t).runs
              /\ Reads(t) \/ Writes(t)
              /\ Reads(t) => regs[t][tmp.place] = tmp.value

RInv == IInv /\ SavedInv /\ PlaceInv
-----------------------------------------------------------------------------
(* What the handlers make of a site and of an instruction.                 *)

\* What the injection lists say of a site.
LEMMA SiteType ==
    ASSUME site \in Sites
    PROVE  /\ site.kname \in KNames /\ site.kcount \in Nat /\ site.iid \in Nat
           /\ site.opSeed \in Nat /\ site.opSeed < SeedMax
           /\ site.bidSeed \in Nat /\ site.bidSeed < SeedMax
           /\ SeedMax \in Nat /\ SeedMax > 0
           /\ site.igid \in {"GPR", "STORE_OP"}
           /\ site.bfm \in {"FLIP_SINGLE_BIT", "FLIP_TWO_BITS"}
<1>1. site.kname \in KNames /\ site.kcount \in Nat /\ site.iid \in Nat
  BY SitesAssumption
<1>2. SeedMax \in Nat /\ SeedMax > 0 /\ {site.opSeed, site.bidSeed} \subseteq 0..(SeedMax - 1)
  BY SeedsAssumption
<1>3. /\ site.igid \in {"GPR", "STORE_OP"}
      /\ site.bfm \in {"FLIP_SINGLE_BIT", "FLIP_TWO_BITS"}
  BY SeedsAssumption
<1>4. QED  BY <1>1, <1>2, <1>3

\* get_int_inj_id maps a seed below 1 to a number below n.
LEMMA IntInjIdRange ==
    ASSUME NEW n \in Nat, n > 0, NEW seed \in Nat, SeedMax \in Nat, seed < SeedMax
    PROVE  IntInjId(n, seed) \in Nat /\ IntInjId(n, seed) < n
<1> DEFINE m == SeedMax
           q == (n * seed) \div m
<1>1. m \in Nat /\ m > 0
  OBVIOUS
<1>2. n * seed \in Nat /\ n * seed < n * m
  BY <1>1, SMTT(30)
<1>3. q \in Nat /\ m * q <= n * seed
  BY <1>1, <1>2, SMTT(30)
<1>4. q < n
  BY <1>1, <1>2, <1>3, SMTT(30)
<1>5. QED  BY <1>3, <1>4 DEF IntInjId

\* The masks are bit numbers of the register number, or of the address; in a
\* register number at least one bit is flipped, and in both, where the shifted int
\* stays positive, as many adjacent ones as the model says.
LEMMA FlippedMask ==
    ASSUME site \in Sites, NEW mask \in Flips(site.igid)
    PROVE  /\ site.igid = "GPR" => /\ mask \subseteq 0..RegBits /\ mask # {}
                                   /\ Flips("GPR") = {mask}
           /\ site.igid = "STORE_OP" => mask \subseteq 0..(AddrBits - 1)
           /\ site.igid = "GPR" \/ IntInjId(AddrBits, site.bidSeed) + FlippedBits < IntBits =>
                 \E b \in mask : mask = b..(b + FlippedBits - 1)
<1>1. /\ site.bidSeed \in Nat /\ site.bidSeed < SeedMax /\ SeedMax \in Nat
      /\ site.igid \in {"GPR", "STORE_OP"}
  BY SiteType
<1>2. /\ RegBits \in Nat /\ RegBits > 0 /\ AddrBits \in Nat /\ IntBits \in 2..AddrBits
  BY WidthsAssumption, SeedsAssumption
<1>3. \/ FlipMask(site.bfm) = {0} /\ FlippedBits = 1
      \/ FlipMask(site.bfm) = {0, 1} /\ FlippedBits = 2
  BY SiteType DEF FlipMask, FlippedBits
<1> DEFINE fm == FlipMask(site.bfm)
<1>4. \A n \in Nat : {b + n : b \in {0}} = {n} /\ {b + n : b \in {0, 1}} = {n, n + 1}
  OBVIOUS
<1> HIDE DEF fm
<1>5. ASSUME NEW n \in Nat, NEW width \in Nat, n + FlippedBits <= width
      PROVE  /\ Shift(fm, n, width) = n..(n + FlippedBits - 1)
             /\ n \in Shift(fm, n, width)
  <2>1. CASE fm = {0} /\ FlippedBits = 1
    <3>1. Shift(fm, n, width) = {n}
      BY <1>4, <1>5, <2>1 DEF Shift
    <3>2. QED  BY <2>1, <3>1
  <2>2. CASE fm = {0, 1} /\ FlippedBits = 2
    <3>1. Shift(fm, n, width) = {n, n + 1} \cap 0..(width - 1)
      BY <1>4, <2>2 DEF Shift
    <3>2. n \in 0..(width - 1) /\ n + 1 \in 0..(width - 1)
      BY <1>5, <2>2
    <3>3. Shift(fm, n, width) = {n, n + 1}
      BY <3>1, <3>2
    <3>4. n + FlippedBits - 1 = n + 1 /\ n..(n + 1) = {n, n + 1}
      BY <2>2
    <3>5. QED  BY <3>3, <3>4
  <2>3. QED  BY <1>3, <2>1, <2>2 DEF fm
<1>6. CASE site.igid = "GPR"
  <2> DEFINE n == IntInjId(RegBits, site.bidSeed)
  <2>1. n \in Nat /\ n < RegBits
    BY <1>1, <1>2, IntInjIdRange
  <2>2. Flips("GPR") = {Shift(fm, n, RegBits + 1)}
    BY DEF Flips, fm
  <2> HIDE DEF n
  <2>3. mask = Shift(fm, n, RegBits + 1) /\ Flips("GPR") = {mask}
    BY <1>6, <2>2
  <2>4. FlippedBits \in {1, 2}
    BY <1>3
  <2>5. mask = n..(n + FlippedBits - 1) /\ n \in mask
    BY <1>2, <1>5, <2>1, <2>3, <2>4
  <2>6. mask \subseteq 0..RegBits
    BY <1>2, <2>1, <2>4, <2>5
  <2>7. QED  BY <1>6, <2>3, <2>5, <2>6
<1>7. CASE site.igid = "STORE_OP"
  <2> DEFINE n == IntInjId(AddrBits, site.bidSeed)
             Low(k) == Shift(fm, k, IntBits)
             Extended(k) == IF IntBits - 1 \in Low(k) THEN Low(k) \cup IntBits..(AddrBits - 1)
                            ELSE Low(k)
  <2>1. n \in Nat /\ n < AddrBits
    BY <1>1, <1>2, IntInjIdRange
  <2>2. mask \in IF n < IntBits THEN {Extended(n)} ELSE {{}, Extended(n % IntBits)}
    BY <1>7 DEF Flips, IntShift, fm
  <2>3. \A k : Low(k) \subseteq 0..(IntBits - 1)
    BY DEF Shift
  <2>4. \A k : Extended(k) \subseteq 0..(AddrBits - 1)
    BY <1>2, <2>3
  <2>5. mask \subseteq 0..(AddrBits - 1)
    BY <2>2, <2>4
  <2>6. ASSUME n + FlippedBits < IntBits
        PROVE  \E b \in mask : mask = b..(b + FlippedBits - 1)
    <3>1. FlippedBits \in {1, 2}
      BY <1>3
    <3> HIDE DEF n
    <3>2. Low(n) = n..(n + FlippedBits - 1) /\ n \in Low(n)
      BY <1>2, <1>5, <2>1, <2>6, <3>1
    <3>3. IntBits - 1 \notin Low(n)
      BY <1>2, <2>1, <2>6, <3>1, <3>2
    <3>4. mask = Low(n)
      BY <1>2, <2>1, <2>2, <2>6, <3>1, <3>3
    <3>5. QED  BY <3>2, <3>4
  <2>7. QED  BY <1>7, <2>5, <2>6
<1>8. QED  BY <1>1, <1>6, <1>7

\* The instruction a thread is at is one of its stream.
LEMMA InstructionType ==
    ASSUME TypeInv, HostInv, MachineInv, phase = "kernel", ~aborted, NEW t \in Threads
    PROVE  /\ code = app[hpc].grid /\ code \in Grids
           /\ code[t] \in Seq(Instructions) /\ Len(code[t]) \in Nat
           /\ ~Finished(t) => pc[t] \in DOMAIN code[t] /\ Instruction(t) \in Instructions
<1>1. hpc \in 1..Len(app) /\ app[hpc].op = "launch" /\ code = app[hpc].grid
  BY CallType DEF HostInv, HostTypeOK, MachineInv
<1>2. code \in Grids
  BY <1>1, CallType DEF HostInv
<1>3. code[t] \in Seq(Instructions) /\ Len(code[t]) \in Nat /\ DOMAIN code[t] = 1..Len(code[t])
  BY <1>2, GridsAssumption
<1>4. ASSUME ~Finished(t)
      PROVE  pc[t] \in DOMAIN code[t] /\ Instruction(t) \in Instructions
  <2>1. pc[t] \in 1..Len(code[t])
    BY <1>3, <1>4 DEF TypeInv, Finished
  <2>2. QED  BY <1>3, <2>1 DEF Instruction
<1>5. QED  BY <1>1, <1>2, <1>3, <1>4

\* In any state the streams have lengths.
LEMMA CodeType ==
    ASSUME TypeInv, NEW t \in Threads
    PROVE  Len(code[t]) \in Nat
<1>1. CASE code \in Grids
  BY <1>1, GridsAssumption
<1>2. CASE code = NoCode
  BY <1>2 DEF NoCode
<1>3. QED  BY <1>1, <1>2 DEF TypeInv

-----------------------------------------------------------------------------
(* The steps.                                                              *)

\* What a step of the device that kills no kernel leaves of the invariant.
LEMMA DeviceFrame ==
    ASSUME IInv, UNCHANGED <<hostVars, code, aborted>>
    PROVE  /\ HostInv'
           /\ InTarget' <=> InTarget
           /\ app' = app /\ hpc' = hpc /\ phase' = phase /\ site' = site
           /\ knameCount' = knameCount /\ areParamsReady' = areParamsReady
           /\ \A e : Described(e)' <=> Described(e)
<1>1. HostInv'
  BY HostStepInv DEF IInv
<1>2. /\ app' = app /\ hpc' = hpc /\ phase' = phase /\ site' = site
      /\ knameCount' = knameCount /\ areParamsReady' = areParamsReady
  BY DEF hostVars
<1>3. InTarget' <=> InTarget
  BY <1>2 DEF InTarget
<1>4. \A g : Flips(g)' = Flips(g)
  BY Zenon, <1>2 DEF Flips
<1>5. \A e : InstructionOf(e)' = InstructionOf(e)
  BY <1>2 DEF InstructionOf
<1>6. \A i : IsNamedLaunch(i)' <=> IsNamedLaunch(i)
  BY <1>2 DEF IsNamedLaunch, LaunchesBefore
<1>7. \A e : Described(e)' <=> Described(e)
  BY <1>2, <1>4, <1>5, <1>6 DEF Described
<1>8. QED  BY <1>1, <1>2, <1>3, <1>7

\* A thread comes to its instruction, or has executed it, and no flag of the
\* selection changes but errorInjected, after the error.
LEMMA MoveStep ==
    ASSUME IInv, NEW t \in Threads, phase = "kernel", ~aborted, ~Finished(t),
           \/ at[t] = "before" /\ at' = [at EXCEPT ![t] = "execute"]
           \/ at[t] = "execute" /\ at' = [at EXCEPT ![t] = "after"],
           UNCHANGED <<hostVars, code, pc, aborted, injThreadID, readyToInject,
                       errorInjectedAfter, saved, injections>>,
           injCounter' \in Nat, injCounter' >= injCounter, resolved' \in Nat,
           errorInjected' \in BOOLEAN,
           errorInjected' => errorInjected \/ (InTarget /\ errorInjectedAfter),
           regs' = [u \in Threads |-> [r \in Regs |-> regs'[u][r]]],
           mem' = [a \in Addrs |-> mem'[a]]
    PROVE  IInv'
<1>1. /\ HostInv' /\ (InTarget' <=> InTarget)
      /\ app' = app /\ hpc' = hpc /\ phase' = phase /\ site' = site
      /\ knameCount' = knameCount /\ \A e : Described(e)' <=> Described(e)
  BY DeviceFrame
<1>2. /\ \A u \in Threads : u # t => at'[u] = at[u]
      /\ at[t] \in {"before", "execute"} /\ at'[t] \in {"execute", "after"}
      /\ at[t] = "execute" => at'[t] = "after"
      /\ at' \in [Threads -> Steps]
  BY DEF IInv, TypeInv, Steps
<1>3. \A u : Targeted(u)' <=> Targeted(u)
  BY <1>1 DEF Targeted, Finished, Instruction
<1>4. \A u : Aims(u)' <=> Aims(u)
  BY DEF Aims
<1>5. TypeInv' /\ MachineInv'
  BY <1>1, <1>2 DEF IInv, TypeInv, MachineInv
<1>6. CleanInv' /\ StepsInv' /\ InjectionsInv'
  BY <1>1, <1>2 DEF IInv, CleanInv, Clean, StepsInv, InjectionsInv
<1>7. FlagsInv'
  <2>1. injThreadID # NoThread => injThreadID \in Threads
    BY DEF IInv, TypeInv
  <2>2. injCounter \in Nat /\ site.iid \in Nat
    BY SiteType DEF IInv, TypeInv, HostInv, HostTypeOK
  <2>3. QED  BY <1>1, <1>2, <2>1, <2>2 DEF IInv, FlagsInv
<1>8. PickedInv'
  <2>1. injCounter \in Nat /\ site.iid \in Nat
    BY SiteType DEF IInv, TypeInv, HostInv, HostTypeOK
  <2>2. Clean /\ InTarget => Clean'
    BY DEF Clean
  <2>3. QED  BY <1>1, <1>2, <1>3, <1>4, <2>1, <2>2 DEF IInv, PickedInv
<1>9. QED  BY <1>1, <1>5, <1>6, <1>7, <1>8 DEF IInv

\* The thread that counts to iid finds nothing selected.
LEMMA SelectedStep ==
    ASSUME IInv, NEW t \in Threads, Is(t, "before"), Handled(t), ~Waits,
           InGroup(Instruction(t), site.igid), injCounter + 1 = site.iid,
           injCounter' = injCounter + 1, at' = [at EXCEPT ![t] = "select"],
           UNCHANGED <<hostVars, code, pc, regs, mem, aborted, injThreadID, readyToInject,
                       errorInjected, errorInjectedAfter, saved, tmp, resolved, injections>>
    PROVE  IInv'
<1>1. /\ HostInv' /\ (InTarget' <=> InTarget)
      /\ app' = app /\ hpc' = hpc /\ phase' = phase /\ site' = site
      /\ knameCount' = knameCount /\ \A e : Described(e)' <=> Described(e)
  BY DeviceFrame
<1>2. InTarget /\ Targeted(t) /\ ~Finished(t)
  BY DEF Is, Handled, InTarget, Targeted
<1>3. /\ \A u \in Threads : u # t => at'[u] = at[u]
      /\ at'[t] = "select" /\ at[t] = "before"
      /\ at' \in [Threads -> Steps]
  BY DEF IInv, TypeInv, Steps, Is
<1>4. injCounter \in Nat /\ site.iid \in Nat /\ NoThread \notin Threads
  BY SiteType, ThreadsAssumption DEF IInv, TypeInv, HostInv, HostTypeOK, NoThread
<1>5. Clean
  <2>1. ~(injCounter >= site.iid)
    BY <1>4
  <2>2. QED  BY <1>2, <2>1 DEF IInv, FlagsInv, Clean
<1>6. \A u \in Threads : at[u] \notin {"select", "arm", "save", "write", "restore"}
  <2>1. ~(injCounter >= site.iid)
    BY <1>4
  <2>2. QED  BY <1>2, <1>4, <1>5, <2>1 DEF IInv, PickedInv, Clean, Aims
<1>7. \A u : Targeted(u)' <=> Targeted(u)
  BY <1>1 DEF Targeted, Finished, Instruction
<1>8. Clean' /\ \A u : ~Aims(u)'
  BY <1>5 DEF Clean, Aims
<1>9. TypeInv' /\ MachineInv'
  BY <1>1, <1>2, <1>3, <1>4 DEF IInv, TypeInv, MachineInv, InTarget
<1>10. CleanInv' /\ StepsInv' /\ InjectionsInv'
  BY <1>1, <1>2, <1>8 DEF IInv, CleanInv, StepsInv, InjectionsInv
<1>11. FlagsInv'
  BY <1>8 DEF FlagsInv, Clean
<1>12. PickedInv'
  BY <1>1, <1>2, <1>3, <1>4, <1>6, <1>7, <1>8 DEF PickedInv
<1>13. QED  BY <1>1, <1>9, <1>10, <1>11, <1>12 DEF IInv

\* The selected thread sets its number, then the flag, then saves what its
\* instruction will overwrite.
LEMMA ArmingStep ==
    ASSUME IInv, NEW t \in Threads, Select(t) \/ Arm(t) \/ Save(t)
    PROVE  IInv'
<1>1. /\ HostInv' /\ (InTarget' <=> InTarget)
      /\ app' = app /\ hpc' = hpc /\ phase' = phase /\ site' = site
      /\ knameCount' = knameCount /\ \A e : Described(e)' <=> Described(e)
      /\ pc' = pc /\ code' = code
  BY DeviceFrame DEF Select, Arm, Save
<1>2. InTarget
  BY DEF Select, Arm, Save, Is, IInv, StepsInv
<1>3. injCounter \in Nat /\ site.iid \in Nat /\ NoThread \notin Threads
  BY SiteType, ThreadsAssumption DEF IInv, TypeInv, HostInv, HostTypeOK, NoThread
<1>4. \A u : Targeted(u)' <=> Targeted(u)
  BY <1>1 DEF Targeted, Finished, Instruction
<1>5. ~(knameCount[site.kname] < site.kcount)
  BY <1>2, SiteType DEF IInv, HostInv, HostTypeOK, ReadyAgrees, InTarget
<1>6. MachineInv' /\ CleanInv' /\ StepsInv' /\ InjectionsInv'
  <2>1. MachineInv'
    BY <1>1, <1>2 DEF IInv, MachineInv, InTarget, Select, Arm, Save
  <2>2. CleanInv' /\ StepsInv'
    BY <1>1, <1>2, <1>5 DEF CleanInv, StepsInv
  <2>3. InjectionsInv'
    BY <1>1 DEF IInv, InjectionsInv, Select, Arm, Save
  <2>4. QED  BY <2>1, <2>2, <2>3
<1>7. CASE Select(t)
  <2>1. /\ at[t] = "select" /\ at' = [at EXCEPT ![t] = "arm"] /\ injThreadID' = t
        /\ UNCHANGED <<injCounter, readyToInject, errorInjected, errorInjectedAfter, saved,
                       resolved, injections, aborted>>
    BY <1>7 DEF Select, Is, GoTo
  <2>2. Clean /\ injCounter >= site.iid /\ Targeted(t)
    BY <1>2, <2>1 DEF IInv, PickedInv
  <2>3. at' \in [Threads -> Steps] /\ at'[t] = "arm" /\ \A u \in Threads : u # t => at'[u] = at[u]
    BY <2>1 DEF IInv, TypeInv, Steps
  <2>4. \A u \in Threads : u # t => at[u] \notin {"select", "arm", "save", "write", "restore"}
    BY <1>2, <1>3, <2>1, <2>2 DEF IInv, PickedInv, Clean, Aims
  <2>5. TypeInv'
    BY <1>1, <2>1, <2>3 DEF IInv, TypeInv
  <2>6. FlagsInv'
    BY <1>1, <2>1, <2>2, <2>3 DEF FlagsInv, Clean
  <2>7. PickedInv'
    BY <1>1, <1>4, <2>1, <2>2, <2>3, <2>4 DEF PickedInv, Clean, Aims
  <2>8. QED  BY <1>1, <1>6, <2>5, <2>6, <2>7 DEF IInv
<1>8. CASE Arm(t)
  <2>1. /\ at[t] = "arm" /\ at' = [at EXCEPT ![t] = "save"] /\ readyToInject' = TRUE
        /\ UNCHANGED <<injCounter, injThreadID, errorInjected, errorInjectedAfter, saved,
                       resolved, injections, aborted>>
    BY <1>8 DEF Arm, Is, GoTo
  <2>2. injThreadID = t /\ ~readyToInject /\ Targeted(t)
    BY <1>2, <2>1 DEF IInv, PickedInv
  <2>3. at' \in [Threads -> Steps] /\ at'[t] = "save" /\ \A u \in Threads : u # t => at'[u] = at[u]
    BY <2>1 DEF IInv, TypeInv, Steps
  <2>4. ~errorInjected /\ ~errorInjectedAfter /\ injections = {} /\ injCounter >= site.iid
    BY <1>2, <1>3, <2>2 DEF IInv, FlagsInv
  <2>5. \A u \in Threads : u # t => at[u] \notin {"select", "arm", "save", "write", "restore"}
    BY <1>2, <1>3, <2>2 DEF IInv, PickedInv, Clean, Aims
  <2>6. TypeInv'
    BY <1>1, <2>1, <2>3 DEF IInv, TypeInv
  <2>7. FlagsInv'
    BY <1>1, <1>3, <2>1, <2>2, <2>3, <2>4 DEF FlagsInv
  <2>8. PickedInv'
    BY <1>1, <1>4, <2>1, <2>2, <2>3, <2>4, <2>5 DEF PickedInv, Aims
  <2>9. QED  BY <1>1, <1>6, <2>6, <2>7, <2>8 DEF IInv
<1>9. CASE Save(t)
  <2>1. /\ at[t] = "save" /\ at' = [at EXCEPT ![t] = "execute"]
        /\ saved' = Saved(Instruction(t), regs[t], mem)
        /\ UNCHANGED <<injCounter, injThreadID, readyToInject, errorInjected, errorInjectedAfter,
                       resolved, injections, aborted>>
    BY <1>9 DEF Save, Is, GoTo
  <2>2. Aims(t) /\ Targeted(t)
    BY <1>2, <2>1 DEF IInv, PickedInv
  <2>3. at' \in [Threads -> Steps] /\ at'[t] = "execute" /\ \A u \in Threads : u # t => at'[u] = at[u]
    BY <2>1 DEF IInv, TypeInv, Steps
  <2>4. \A u : Aims(u)' <=> Aims(u)
    BY <2>1 DEF Aims
  <2>5. DOMAIN saved' \subseteq Regs \/ DOMAIN saved' \subseteq Addrs
    <3>1. Instruction(t) \in Instructions
      BY <1>2, <2>2, InstructionType DEF IInv, InTarget, Targeted
    <3>2. /\ Instruction(t).addr \in Addrs
          /\ \A i \in DOMAIN Instruction(t).dsts : Instruction(t).dsts[i] \in Regs
      BY <3>1 DEF Instructions
    <3>3. QED  BY <2>1, <3>2 DEF Saved
  <2>6. TypeInv'
    BY <1>1, <2>1, <2>3, <2>5 DEF IInv, TypeInv
  <2>7. FlagsInv'
    BY <1>1, <1>2, <2>1, <2>2, <2>3 DEF IInv, FlagsInv, Aims
  <2>8. PickedInv'
    BY <1>1, <1>2, <1>4, <2>1, <2>2, <2>3, <2>4 DEF IInv, PickedInv, Clean
  <2>9. QED  BY <1>1, <1>6, <2>6, <2>7, <2>8 DEF IInv
<1>10. QED  BY <1>7, <1>8, <1>9

\* The result of the thread that was selected is struck: at once, or a store's in
\* three steps.
LEMMA StrikingStep ==
    ASSUME IInv, NEW t \in Threads,
           Misdirect(t) \/ ReadBack(t) \/ WriteWrong(t) \/ RestoreRight(t)
    PROVE  IInv'
<1> DEFINE Err(mask) == [launch |-> hpc, tid |-> t, pc |-> pc[t], mask |-> mask]
<1>1. /\ HostInv' /\ (InTarget' <=> InTarget)
      /\ app' = app /\ hpc' = hpc /\ phase' = phase /\ site' = site
      /\ knameCount' = knameCount /\ \A e : Described(e)' <=> Described(e)
      /\ code' = code
  BY DeviceFrame DEF Misdirect, ReadBack, WriteWrong, RestoreRight
<1>2. InTarget /\ ~Finished(t)
  BY DEF Misdirect, ReadBack, WriteWrong, RestoreRight, Struck, Is, IInv, StepsInv, InTarget
<1>3. injCounter \in Nat /\ site.iid \in Nat /\ NoThread \notin Threads
  BY SiteType, ThreadsAssumption DEF IInv, TypeInv, HostInv, HostTypeOK, NoThread
<1>4. Aims(t) /\ Targeted(t) /\ injCounter >= site.iid
  <2>1. Aims(t)
    BY <1>2 DEF IInv, PickedInv, Misdirect, ReadBack, WriteWrong, RestoreRight, Struck, Is, Aims
  <2>2. QED  BY <1>2, <1>3, <2>1 DEF IInv, PickedInv, FlagsInv, Aims
<1>5. ~(knameCount[site.kname] < site.kcount)
  BY <1>2, SiteType DEF IInv, HostInv, HostTypeOK, ReadyAgrees, InTarget
<1>6. CleanInv' /\ StepsInv'
  BY <1>1, <1>2, <1>5 DEF CleanInv, StepsInv
<1>7. \A u \in Threads : u # t => at[u] \notin {"select", "arm", "save", "write", "restore"}
  BY <1>2, <1>3, <1>4 DEF IInv, PickedInv, Clean, Aims
<1>8. MachineInv'
  BY <1>1, <1>2 DEF IInv, MachineInv, InTarget, Misdirect, ReadBack, WriteWrong, RestoreRight
<1>9. ASSUME NEW mask \in Flips(site.igid)
      PROVE  Described(Err(mask))
  <2>1. code = app[hpc].grid
    BY <1>2 DEF IInv, MachineInv, InTarget
  <2>2. InstructionOf(Err(mask)) = Instruction(t)
    BY <2>1 DEF InstructionOf, Instruction
  <2>3. IsNamedLaunch(hpc)
    BY <1>2, HostInvImpliesArmed DEF IInv, ArmedOnlyInNamedLaunch, InTarget
  <2>4. QED  BY <1>4, <1>9, <2>2, <2>3 DEF Described, Targeted
\* A strike that is over leaves all threads between their instructions.
<1>10. ASSUME errorInjectedAfter' = TRUE, Proceed(t),
              UNCHANGED <<injCounter, injThreadID, readyToInject, errorInjected, saved, resolved, aborted>>,
              \A e, f \in injections' : e = f, \A e \in injections' : Described(e)
       PROVE  IInv'
  <2>1. /\ at' = [at EXCEPT ![t] = "before"] /\ pc' = [pc EXCEPT ![t] = @ + 1]
        /\ at' \in [Threads -> Steps]
        /\ at'[t] = "before" /\ \A u \in Threads : u # t => at'[u] = at[u]
    BY <1>10 DEF Proceed, GoTo, IInv, TypeInv, Steps
  <2>2. /\ pc' \in [Threads -> Nat \ {0}]
        /\ \A u \in Threads : pc'[u] <= Len(code[u]) + 1
    <3>1. pc[t] \in Nat /\ Len(code[t]) \in Nat /\ pc[t] <= Len(code[t])
      BY <1>2, CodeType DEF IInv, TypeInv, Finished
    <3>2. QED  BY <2>1, <3>1 DEF IInv, TypeInv
  <2>3. TypeInv'
    BY <1>1, <1>10, <2>1, <2>2 DEF IInv, TypeInv
  <2>4. FlagsInv'
    BY <1>1, <1>3, <1>4, <1>10 DEF FlagsInv, Aims
  <2>5. PickedInv'
    BY <1>7, <1>10, <2>1 DEF PickedInv, Aims
  <2>6. InjectionsInv'
    BY <1>1, <1>10 DEF InjectionsInv
  <2>7. QED  BY <1>1, <1>6, <1>8, <2>3, <2>4, <2>5, <2>6 DEF IInv
<1>11. CASE Misdirect(t)
  <2>1. injections = {}
    BY <1>2, <1>4, <1>11 DEF IInv, FlagsInv, Aims, Misdirect, Is
  <2>2. \E mask \in Flips(site.igid) : injections' = injections \cup {Err(mask)}
    BY <1>11 DEF Misdirect, Report
  <2>3. /\ errorInjectedAfter' = TRUE /\ Proceed(t)
        /\ UNCHANGED <<injCounter, injThreadID, readyToInject, errorInjected, saved, resolved, aborted>>
    BY <1>11 DEF Misdirect
  <2>4. QED  BY <1>9, <1>10, <2>1, <2>2, <2>3
<1>12. CASE RestoreRight(t)
  <2>1. /\ errorInjectedAfter' = TRUE /\ Proceed(t) /\ injections' = injections
        /\ UNCHANGED <<injCounter, injThreadID, readyToInject, errorInjected, saved, resolved, aborted>>
    BY <1>12 DEF RestoreRight
  <2>2. QED  BY <1>10, <2>1 DEF IInv, TypeInv, InjectionsInv
<1>13. CASE ReadBack(t) \/ WriteWrong(t)
  <2>1. /\ at'[t] \in {"write", "restore"} /\ site.igid = "STORE_OP"
        /\ at' \in [Threads -> Steps] /\ \A u \in Threads : u # t => at'[u] = at[u]
    BY <1>2, <1>13 DEF ReadBack, WriteWrong, Is, GoTo, IInv, TypeInv, Steps, PickedInv
  <2>2. /\ pc' = pc
        /\ UNCHANGED <<injCounter, injThreadID, readyToInject, errorInjected, errorInjectedAfter,
                       saved, resolved, aborted>>
    BY <1>13 DEF ReadBack, WriteWrong, infoVars
  <2>3. (\A e, f \in injections' : e = f) /\ \A e \in injections' : Described(e)
    <3>1. CASE ReadBack(t)
      <4>1. injections = {}
        BY <1>2, <1>4, <3>1 DEF IInv, FlagsInv, Aims, ReadBack, Is
      <4>2. \E mask \in Flips(site.igid) : injections' = injections \cup {Err(mask)}
        BY <3>1 DEF ReadBack, Report
      <4>3. QED  BY <1>9, <4>1, <4>2
    <3>2. CASE WriteWrong(t)
      BY <3>2 DEF WriteWrong, IInv, TypeInv, InjectionsInv
    <3>3. QED  BY <1>13, <3>1, <3>2
  <2>4. TypeInv'
    BY <1>1, <2>1, <2>2, <2>3 DEF IInv, TypeInv
  <2>5. \A u : (Aims(u)' <=> Aims(u)) /\ (Targeted(u)' <=> Targeted(u))
    BY <1>1, <2>2 DEF Aims, Targeted, Finished, Instruction
  <2>6. FlagsInv'
    BY <1>1, <1>2, <1>3, <1>4, <2>1, <2>2 DEF IInv, FlagsInv, Aims
  <2>7. PickedInv'
    BY <1>1, <1>4, <1>7, <2>1, <2>5 DEF IInv, PickedInv, Aims
  <2>8. InjectionsInv'
    BY <1>1, <2>3 DEF InjectionsInv
  <2>9. QED  BY <1>1, <1>6, <1>8, <2>4, <2>6, <2>7, <2>8 DEF IInv
<1>14. QED  BY <1>11, <1>12, <1>13

\* The other steps of a thread.
LEMMA ThreadStep ==
    ASSUME IInv, NEW t \in Threads,
           Pass(t) \/ Count(t) \/ Ignore(t) \/ Execute(t) \/ NoError(t)
    PROVE  IInv'
<1>1. phase = "kernel" /\ ~aborted /\ ~Finished(t)
  BY DEF Pass, Count, Ignore, Execute, NoError, Is
<1>2. /\ injCounter \in Nat /\ resolved \in Nat /\ pc[t] \in Nat
      /\ readyToInject \in BOOLEAN /\ errorInjected \in BOOLEAN /\ errorInjectedAfter \in BOOLEAN
      /\ pc[t] <= Len(code[t]) /\ Len(code[t]) \in Nat
  BY <1>1, CodeType DEF IInv, TypeInv, Finished
<1>3. /\ regs = [u \in Threads |-> [r \in Regs |-> regs[u][r]]]
      /\ mem = [a \in Addrs |-> mem[a]]
  BY DEF IInv, MachineInv
<1>4. CASE Pass(t)
  <2> DEFINE now == injThreadID = t /\ ~errorInjected /\ (Reads(t) \/ Writes(t))
  <2>1. /\ at[t] = "before" /\ at' = [at EXCEPT ![t] = "execute"] /\ InTarget /\ Waits
        /\ errorInjected' = (errorInjected \/ now)
        /\ resolved' = IF now THEN pc[t] ELSE resolved
        /\ regs' = IF now /\ Reads(t) THEN [regs EXCEPT ![t][tmp.place] = tmp.value] ELSE regs
        /\ UNCHANGED <<hostVars, code, pc, aborted, injThreadID, readyToInject,
                       errorInjectedAfter, saved, injections, injCounter, mem>>
    BY <1>4 DEF Pass, Is, GoTo, Handled, InTarget
  <2>2. now => errorInjectedAfter
    BY <2>1 DEF IInv, FlagsInv, Waits
  <2>3. regs' = [u \in Threads |-> [r \in Regs |-> regs'[u][r]]]
    BY <1>3, <2>1
  <2> HIDE DEF now
  <2>4. errorInjected' \in BOOLEAN /\ resolved' \in Nat
    BY <1>2, <2>1
  <2>5. injCounter' \in Nat /\ injCounter' >= injCounter /\ mem' = [a \in Addrs |-> mem'[a]]
    BY <1>2, <1>3, <2>1
  <2>6. errorInjected' => errorInjected \/ (InTarget /\ errorInjectedAfter)
    BY <2>1, <2>2
  <2>7. QED  BY <1>1, <2>1, <2>3, <2>4, <2>5, <2>6, MoveStep
<1>5. CASE Count(t)
  <2>1. CASE injCounter + 1 = site.iid
    BY <1>5, <2>1, SelectedStep DEF Count, GoTo
  <2>2. CASE injCounter + 1 # site.iid
    <3>1. /\ at[t] = "before" /\ at' = [at EXCEPT ![t] = "execute"] /\ injCounter' = injCounter + 1
          /\ UNCHANGED <<hostVars, code, pc, aborted, injThreadID, readyToInject, errorInjected,
                         errorInjectedAfter, saved, injections, resolved, regs, mem>>
      BY <1>5, <2>2 DEF Count, Is, GoTo
    <3>2. injCounter' \in Nat /\ injCounter' >= injCounter
      BY <1>2, <3>1
    <3>3. QED  BY <1>1, <1>2, <1>3, <3>1, <3>2, MoveStep
  <2>3. QED  BY <2>1, <2>2
<1>6. CASE Ignore(t)
  <2>1. /\ at[t] = "before" /\ at' = [at EXCEPT ![t] = "execute"]
        /\ UNCHANGED <<hostVars, code, pc, aborted, injThreadID, readyToInject, errorInjected,
                       errorInjectedAfter, saved, injections, resolved, regs, mem, injCounter>>
    BY <1>6 DEF Ignore, Is, GoTo, infoVars
  <2>2. /\ injCounter' \in Nat /\ injCounter' >= injCounter /\ resolved' \in Nat
        /\ errorInjected' \in BOOLEAN /\ (errorInjected' => errorInjected)
        /\ regs' = [u \in Threads |-> [r \in Regs |-> regs'[u][r]]]
        /\ mem' = [a \in Addrs |-> mem'[a]]
    BY <1>2, <1>3, <2>1
  <2>3. QED  BY <1>1, <2>1, <2>2, MoveStep
<1>7. CASE Execute(t)
  <2>1. /\ at[t] = "execute" /\ at' = [at EXCEPT ![t] = "after"]
        /\ UNCHANGED <<hostVars, code, pc, aborted, injThreadID, readyToInject, errorInjected,
                       errorInjectedAfter, saved, injections, resolved, injCounter>>
    BY <1>7 DEF Execute, Is, GoTo, infoVars
  <2>2. /\ regs' = [u \in Threads |-> [r \in Regs |-> regs'[u][r]]]
        /\ mem' = [a \in Addrs |-> mem'[a]]
    <3>1. CASE Instruction(t).runs
      <4>1. /\ regs' = [regs EXCEPT ![t] = RegsAfter(t, pc[t], Instruction(t), regs[t], mem)]
            /\ mem' = MemAfter(t, pc[t], Instruction(t), regs[t], mem)
        BY <1>7, <3>1 DEF Execute
      <4>2. QED  BY <1>3, <4>1 DEF RegsAfter, MemAfter
    <3>2. CASE ~Instruction(t).runs
      BY <1>3, <1>7, <3>2 DEF Execute
    <3>3. QED  BY <3>1, <3>2
  <2>3. /\ injCounter' \in Nat /\ injCounter' >= injCounter /\ resolved' \in Nat
        /\ errorInjected' \in BOOLEAN /\ (errorInjected' => errorInjected)
    BY <1>2, <2>1
  <2>4. QED  BY <1>1, <2>1, <2>2, <2>3, MoveStep
<1>8. CASE NoError(t)
  <2>1. /\ at[t] = "after" /\ at' = [at EXCEPT ![t] = "before"] /\ ~Struck(t)
        /\ pc' = [pc EXCEPT ![t] = @ + 1]
        /\ UNCHANGED <<hostVars, code, aborted, injThreadID, readyToInject, errorInjected, regs, mem,
                       errorInjectedAfter, saved, injections, resolved, injCounter>>
    BY <1>8 DEF NoError, Is, GoTo, Proceed, infoVars
  <2>2. /\ HostInv' /\ (InTarget' <=> InTarget)
        /\ app' = app /\ hpc' = hpc /\ phase' = phase /\ site' = site
        /\ knameCount' = knameCount /\ \A e : Described(e)' <=> Described(e)
    BY <2>1, DeviceFrame
  <2>3. /\ at' \in [Threads -> Steps] /\ at'[t] = "before"
        /\ \A u \in Threads : u # t => at'[u] = at[u]
    BY <2>1 DEF IInv, TypeInv, Steps
  <2>4. InTarget => ~Aims(t)
    BY <2>1 DEF Struck, Aims, InTarget
  <2>5. /\ pc' \in [Threads -> Nat \ {0}]
        /\ \A u \in Threads : pc'[u] <= Len(code[u]) + 1
        /\ \A u \in Threads : u # t => pc'[u] = pc[u]
    BY <1>2, <2>1 DEF IInv, TypeInv
  <2>6. \A u \in Threads : /\ Aims(u)' <=> Aims(u)
                           /\ u # t => (Targeted(u)' <=> Targeted(u))
    BY <2>1, <2>2, <2>5 DEF Aims, Targeted, Finished, Instruction
  <2>7. TypeInv' /\ MachineInv' /\ CleanInv' /\ StepsInv' /\ InjectionsInv'
    <3>1. TypeInv'
      BY <2>1, <2>3, <2>5 DEF IInv, TypeInv
    <3>2. MachineInv'
      BY <1>1, <2>1, <2>2 DEF IInv, MachineInv
    <3>3. CleanInv' /\ StepsInv' /\ InjectionsInv'
      BY <2>1, <2>2, <2>3 DEF IInv, CleanInv, Clean, StepsInv, InjectionsInv
    <3>4. QED  BY <3>1, <3>2, <3>3
  <2>8. FlagsInv'
    <3>1. injThreadID # NoThread => injThreadID \in Threads
      BY DEF IInv, TypeInv
    <3>2. QED  BY <2>1, <2>2, <2>3, <2>4, <3>1 DEF IInv, FlagsInv, Aims
  <2>9. PickedInv'
    BY <2>1, <2>2, <2>3, <2>4, <2>6 DEF IInv, PickedInv, Clean
  <2>10. QED  BY <2>2, <2>7, <2>8, <2>9 DEF IInv
<1>9. QED  BY <1>4, <1>5, <1>6, <1>7, <1>8

\* The target launch is entered before anything has been selected; any other step of
\* the host, and the end of a kernel by the device, leaves no target running.
LEMMA HostStepKeeps ==
    ASSUME IInv, LaunchKernel \/ ExitKernel \/ Reset \/ Exit \/ DeviceFault
    PROVE  IInv'
<1>1. /\ app' = app /\ site' = site /\ injections' = injections
      /\ HostStep \/ UNCHANGED hostVars
  <2>1. CASE LaunchKernel
    BY <2>1 DEF LaunchKernel, EnterLaunch, HostStep
  <2>2. CASE ExitKernel
    BY <2>2 DEF ExitKernel, LeaveLaunch, HostStep
  <2>3. CASE Reset
    BY <2>3 DEF Reset, ResetDevice, HostStep
  <2>4. CASE Exit
    BY <2>4 DEF Exit, ReturnFromMain, HostStep
  <2>5. CASE DeviceFault
    BY <2>5 DEF DeviceFault, hostVars
  <2>6. QED  BY <2>1, <2>2, <2>3, <2>4, <2>5
<1>2. HostInv'
  BY <1>1, HostStepInv DEF IInv
<1>3. InjectionsInv'
  <2>1. \A g : Flips(g)' = Flips(g)
    BY Zenon, <1>1 DEF Flips
  <2>2. \A e : InstructionOf(e)' = InstructionOf(e)
    BY <1>1 DEF InstructionOf
  <2>3. \A i : IsNamedLaunch(i)' <=> IsNamedLaunch(i)
    BY <1>1 DEF IsNamedLaunch, LaunchesBefore
  <2>4. QED  BY <1>1, <2>1, <2>2, <2>3 DEF IInv, InjectionsInv, Described
<1>4. site.kname \in KNames /\ site.kcount \in Nat /\ knameCount \in [KNames -> Int]
  BY SiteType DEF IInv, HostInv, HostTypeOK
<1>5. /\ [t \in Threads |-> 1] \in [Threads -> Nat \ {0}]
      /\ \A t \in Threads : Len(NoCode[t]) = 0
      /\ InitRegs = [t \in Threads |-> [r \in Regs |-> InitRegs[t][r]]]
      /\ InitMem = [a \in Addrs |-> InitMem[a]] /\ Lost = [a \in Addrs |-> Lost[a]]
  BY DEF NoCode, InitRegs, InitMem, Lost
\* What the steps have in common that leave the threads at rest.
<1>6. ASSUME pc' = [t \in Threads |-> 1], at' = [t \in Threads |-> "before"], regs' = InitRegs,
             code' = NoCode, phase' # "kernel" \/ aborted', mem' = [a \in Addrs |-> mem'[a]],
             DOMAIN saved' \subseteq Regs \/ DOMAIN saved' \subseteq Addrs,
             injCounter' \in Nat, aborted' \in BOOLEAN,
             \/ UNCHANGED <<injThreadID, readyToInject, errorInjected, errorInjectedAfter, resolved>>
             \/ ResetInjInfo,
             knameCount'[site.kname] >= knameCount[site.kname], knameCount'[site.kname] \in Int
      PROVE  IInv'
  <2>1. ~InTarget'
    BY <1>6 DEF InTarget
  <2>2. TypeInv'
    <3>1. \A t \in Threads : pc'[t] <= Len(code'[t]) + 1
      BY <1>5, <1>6
    <3>2. at' \in [Threads -> Steps]
      BY <1>6 DEF Steps
    <3>3. /\ injThreadID' \in Threads \cup {NoThread} /\ resolved' \in Nat
          /\ readyToInject' \in BOOLEAN /\ errorInjected' \in BOOLEAN
          /\ errorInjectedAfter' \in BOOLEAN
      <4>1. CASE ResetInjInfo
        BY <4>1 DEF ResetInjInfo
      <4>2. CASE UNCHANGED <<injThreadID, readyToInject, errorInjected, errorInjectedAfter, resolved>>
        BY <4>2 DEF IInv, TypeInv
      <4>3. QED  BY <1>6, <4>1, <4>2
    <3>4. \A e, f \in injections' : e = f
      BY <1>1 DEF IInv, TypeInv
    <3>5. code' \in Grids' \cup {NoCode}' /\ pc' \in [Threads -> Nat \ {0}]
      BY <1>5, <1>6
    <3>6. QED  BY <1>6, <3>1, <3>2, <3>3, <3>4, <3>5 DEF TypeInv
  <2>3. MachineInv'
    BY <1>5, <1>6 DEF MachineInv
  <2>4. CleanInv'
    <3>1. knameCount[site.kname] \in Int
      BY <1>4
    <3>2. QED  BY <1>1, <1>4, <1>6, <3>1 DEF IInv, CleanInv, Clean, ResetInjInfo
  <2>5. StepsInv' /\ FlagsInv' /\ PickedInv'
    BY <1>6, <2>1 DEF StepsInv, FlagsInv, PickedInv
  <2>6. QED  BY <1>2, <1>3, <2>2, <2>3, <2>4, <2>5 DEF IInv
<1>7. CASE LaunchKernel
  <2> DEFINE k == app[hpc].kname
  <2>1. /\ phase' = "kernel" /\ knameCount' = [knameCount EXCEPT ![k] = @ + 1] /\ hpc' = hpc
        /\ areParamsReady' <=> k = site.kname /\ knameCount'[k] = site.kcount
        /\ injCounter' = 0 /\ aborted' = aborted /\ mem' = mem /\ saved' = saved
        /\ \/ UNCHANGED <<injThreadID, readyToInject, errorInjected, errorInjectedAfter, resolved>>
           \/ ResetInjInfo
        /\ pc' = [t \in Threads |-> 1] /\ at' = [t \in Threads |-> "before"] /\ regs' = InitRegs
        /\ code' = IF aborted THEN NoCode ELSE app[hpc].grid
    BY <1>7 DEF LaunchKernel, EnterLaunch, CountLaunch, IsTarget, NoKernel, StartThreads
  <2>2. knameCount'[site.kname] >= knameCount[site.kname] /\ knameCount'[site.kname] \in Int
    BY <1>4, <2>1
  <2>3. CASE aborted
    BY <1>6, <2>1, <2>2, <2>3 DEF IInv, TypeInv, MachineInv
  <2>4. CASE ~aborted
    <3>1. code' \in Grids
      <4>1. hpc \in 1..Len(app) /\ app[hpc].op = "launch"
        BY <1>7, CallType DEF LaunchKernel, EnterLaunch, NextCallIs, IInv, HostInv, HostTypeOK
      <4>2. QED  BY <2>1, <2>4, <4>1, CallType DEF IInv, HostInv
    <3>2. TypeInv'
      <4>1. \A t \in Threads : Len(code'[t]) \in Nat
        BY <3>1, GridsAssumption
      <4>2. at' \in [Threads -> Steps] /\ pc' \in [Threads -> Nat \ {0}]
        BY <1>5, <2>1 DEF Steps
      <4>3. \A t \in Threads : pc'[t] <= Len(code'[t]) + 1
        BY <2>1, <4>1
      <4>4. /\ injThreadID' \in Threads \cup {NoThread} /\ resolved' \in Nat
            /\ readyToInject' \in BOOLEAN /\ errorInjected' \in BOOLEAN
            /\ errorInjectedAfter' \in BOOLEAN
        <5>1. CASE ResetInjInfo
          BY <5>1 DEF ResetInjInfo
        <5>2. CASE UNCHANGED <<injThreadID, readyToInject, errorInjected, errorInjectedAfter, resolved>>
          BY <5>2 DEF IInv, TypeInv
        <5>3. QED  BY <2>1, <5>1, <5>2
      <4>5. QED  BY <1>1, <2>1, <3>1, <4>2, <4>3, <4>4 DEF IInv, TypeInv
    <3>3. MachineInv'
      <4>1. code' = app'[hpc'].grid /\ phase' = "kernel" /\ ~aborted'
        BY <1>1, <2>1, <2>4
      <4>2. QED  BY <1>5, <2>1, <4>1 DEF IInv, MachineInv
    <3>4. knameCount[site.kname] < site.kcount => Clean'
      BY <1>1, <2>1 DEF IInv, CleanInv, Clean, ResetInjInfo
    <3>5. CleanInv'
      <4>1. knameCount[site.kname] \in Int
        BY <1>4
      <4>2. QED  BY <1>1, <1>4, <2>2, <3>4, <4>1 DEF CleanInv
    <3>6. InTarget' => Clean'
      <4>1. InTarget' => knameCount'[site.kname] = site.kcount /\ k = site.kname
        BY <2>1 DEF InTarget
      <4>2. InTarget' => knameCount[site.kname] < site.kcount
        BY <1>4, <2>1, <4>1
      <4>3. QED  BY <3>4, <4>2
    <3>7. StepsInv' /\ FlagsInv' /\ PickedInv'
      <4>1. \A t \in Threads : at'[t] = "before"
        BY <2>1
      <4>2. StepsInv'
        BY <4>1 DEF StepsInv
      <4>3. FlagsInv'
        BY <3>6 DEF FlagsInv, Clean
      <4>4. PickedInv'
        BY <3>6, <4>1 DEF PickedInv, Clean, Aims
      <4>5. QED  BY <4>2, <4>3, <4>4
    <3>8. QED  BY <1>2, <1>3, <3>2, <3>3, <3>5, <3>7 DEF IInv
  <2>5. QED  BY <2>3, <2>4
<1>8. CASE ExitKernel \/ Reset \/ Exit \/ DeviceFault
  <2>1. /\ phase' # "kernel" \/ aborted'
        /\ knameCount' = knameCount /\ aborted' \in BOOLEAN
        /\ UNCHANGED <<injThreadID, readyToInject, errorInjected, errorInjectedAfter, resolved,
                       injCounter>>
    BY <1>8 DEF ExitKernel, LeaveLaunch, Reset, ResetDevice, NextCallIs, Exit, ReturnFromMain,
                DeviceFault, infoVars, machineVars, hostVars, IInv, TypeInv
  <2>2. /\ pc' = [t \in Threads |-> 1] /\ at' = [t \in Threads |-> "before"]
        /\ regs' = InitRegs /\ code' = NoCode
    <3>1. CASE ExitKernel \/ DeviceFault
      BY <3>1 DEF ExitKernel, DeviceFault, NoKernel, StartThreads
    <3>2. CASE Reset \/ Exit
      BY <3>2 DEF Reset, ResetDevice, NextCallIs, Exit, ReturnFromMain, machineVars, IInv, MachineInv
    <3>3. QED  BY <1>8, <3>1, <3>2
  <2>3. /\ mem' = [a \in Addrs |-> mem'[a]]
        /\ DOMAIN saved' \subseteq Regs \/ DOMAIN saved' \subseteq Addrs
    <3>1. CASE Reset
      BY <1>5, <3>1 DEF Reset, Nothing
    <3>2. CASE ExitKernel \/ Exit
      BY <3>2 DEF ExitKernel, Exit, machineVars, infoVars, IInv, MachineInv, TypeInv
    <3>3. CASE DeviceFault
      BY <1>5, <3>3 DEF DeviceFault, infoVars, IInv, TypeInv
    <3>4. QED  BY <1>8, <3>1, <3>2, <3>3
  <2>4. /\ knameCount'[site.kname] >= knameCount[site.kname] /\ knameCount'[site.kname] \in Int
        /\ injCounter' \in Nat
    BY <1>4, <2>1 DEF IInv, TypeInv
  <2>5. QED  BY <1>6, <2>1, <2>2, <2>3, <2>4
<1>9. QED  BY <1>7, <1>8

-----------------------------------------------------------------------------
(* The theorems on what is struck.                                         *)

\* The inductive invariant holds throughout.
THEOREM AddressInvariance == Spec => []IInv
<1>1. Init => IInv
  <2> SUFFICES ASSUME Init PROVE IInv
    OBVIOUS
  <2>1. HostInv /\ phase = "host"
    BY HostInitInv DEF Init, HostInit
  <2>2. TypeInv
    <3>1. /\ at \in [Threads -> Steps] /\ pc \in [Threads -> Nat \ {0}]
          /\ \A t \in Threads : pc[t] <= Len(code[t]) + 1
      BY DEF Init, Steps, NoCode
    <3>2. QED  BY <3>1 DEF Init, TypeInv, Nothing
  <2>3. MachineInv
    BY <2>1 DEF Init, MachineInv, InitRegs, InitMem
  <2>4. CleanInv /\ StepsInv /\ FlagsInv /\ PickedInv /\ InjectionsInv
    BY <2>1 DEF Init, CleanInv, Clean, StepsInv, FlagsInv, PickedInv, InjectionsInv, InTarget
  <2>5. QED  BY <2>1, <2>2, <2>3, <2>4 DEF IInv
<1>2. IInv /\ [Next]_vars => IInv'
  <2> SUFFICES ASSUME IInv, [Next]_vars PROVE IInv'
    OBVIOUS
  <2>1. CASE LaunchKernel \/ ExitKernel \/ Reset \/ Exit \/ DeviceFault
    BY <2>1, HostStepKeeps
  <2>2. ASSUME NEW t \in Threads, Before(t) \/ Execute(t) \/ After(t) PROVE IInv'
    BY <2>2, ThreadStep, ArmingStep, StrikingStep DEF Before, After
  <2>3. CASE UNCHANGED vars
    <3>1. UNCHANGED <<hostVars, machineVars, infoVars, injections>>
      BY <2>3 DEF vars
    <3>2. /\ HostInv' /\ (InTarget' <=> InTarget)
          /\ app' = app /\ hpc' = hpc /\ phase' = phase /\ site' = site
          /\ knameCount' = knameCount /\ \A e : Described(e)' <=> Described(e)
      BY <3>1, DeviceFrame DEF machineVars
    <3>3. \A u : (Targeted(u)' <=> Targeted(u)) /\ (Aims(u)' <=> Aims(u))
      BY <3>1, <3>2 DEF machineVars, infoVars, Targeted, Finished, Instruction, Aims
    <3>4. Clean' <=> Clean
      BY <3>1 DEF infoVars, Clean
    <3>5. TypeInv' /\ MachineInv'
      BY <3>1, <3>2 DEF IInv, TypeInv, MachineInv, machineVars, infoVars
    <3>6. CleanInv' /\ StepsInv' /\ FlagsInv' /\ PickedInv' /\ InjectionsInv'
      BY <3>1, <3>2, <3>3, <3>4
         DEF IInv, CleanInv, StepsInv, FlagsInv, PickedInv, InjectionsInv, machineVars, infoVars
    <3>7. QED  BY <3>2, <3>5, <3>6 DEF IInv
  <2>4. QED  BY <2>1, <2>2, <2>3 DEF Next, Step, Terminated
<1>3. QED  BY <1>1, <1>2, PTL DEF Spec

\* The variables keep their types; in particular at most one thread is ever being
\* selected or having its result struck, and at most one injection is made.
THEOREM AddressTypeCorrect == Spec => []TypeOK
<1>1. IInv => TypeOK
  <2> SUFFICES ASSUME IInv PROVE TypeOK
    OBVIOUS
  <2> DEFINE Busy == {t \in Threads : at[t] \in {"select", "arm", "save", "write", "restore"}}
  <2>1. \A S : (\A x, y \in S : x = y) => Cardinality(S) <= 1
    <3>1. ASSUME NEW S, \A x, y \in S : x = y
          PROVE  Cardinality(S) <= 1
      <4>1. CASE S = {}
        BY <4>1, FS_EmptySet
      <4>2. ASSUME NEW x \in S
            PROVE  Cardinality(S) <= 1
        <5>1. S = {x}
          BY <3>1
        <5>2. Cardinality({x}) = 1
          BY FS_Singleton
        <5>3. QED  BY <5>1, <5>2
      <4>3. QED  BY <4>1, <4>2
    <3>2. QED  BY <3>1
  <2>2. \A t, u \in Busy : t = u
    <3>1. NoThread \notin Threads
      BY ThreadsAssumption DEF NoThread
    <3>2. QED  BY <3>1 DEF IInv, StepsInv, PickedInv, Clean, Aims
  <2>3. /\ \A t \in Threads : DOMAIN regs[t] = Regs
        /\ DOMAIN mem = Addrs
    BY DEF IInv, MachineInv
  <2>4. Cardinality(Busy) <= 1 /\ Cardinality(injections) <= 1
    BY <2>1, <2>2 DEF IInv, TypeInv
  <2>5. QED  BY <2>3, <2>4 DEF IInv, TypeInv, HostInv, TypeOK
<1>2. QED  BY <1>1, AddressInvariance, PTL

\* The instruction struck is one of the site's group that was executed in the launch
\* the site names, for every interleaving of the threads.
THEOREM TheSiteIsStruck == Spec => []SiteIsStruck
<1>1. IInv => SiteIsStruck
  BY DEF IInv, InjectionsInv, Described, SiteIsStruck
<1>2. QED  BY <1>1, AddressInvariance, PTL

\* The bits flipped in the register number or in the address are those of the model,
\* for every width, as long as the shifted int stays positive.
THEOREM TheModelIsFlipped == Spec => []FlipIsTheModel
<1>1. IInv => FlipIsTheModel
  <2> SUFFICES ASSUME IInv, NEW e \in injections,
                      site.igid = "GPR" \/ IntInjId(AddrBits, site.bidSeed) + FlippedBits < IntBits
               PROVE  \E b \in e.mask : e.mask = b..(b + FlippedBits - 1)
    BY DEF FlipIsTheModel
  <2>1. site \in Sites /\ e.mask \in Flips(site.igid)
    BY DEF IInv, HostInv, HostTypeOK, InjectionsInv, Described
  <2>2. QED  BY <2>1, FlippedMask
<1>2. QED  BY <1>1, AddressInvariance, PTL


-----------------------------------------------------------------------------
(* What is seen of registers and memory while the write is faked.          *)

\* A thread whose result is being struck has not finished its instruction, which is
\* the site's; no other thread accesses the address that it stores at.
LEMMA AimedAt ==
    ASSUME IInv, InTarget, NEW t \in Threads, Aims(t)
    PROVE  /\ t = injThreadID /\ site \in Sites
           /\ ~Finished(t) /\ Instruction(t) \in Instructions /\ Instruction(t).runs
           /\ at[t] \in {"save", "execute", "after", "write", "restore"}
           /\ site.igid = "GPR" => Instruction(t).dsts # <<>>
           /\ site.igid = "STORE_OP" =>
                /\ Instruction(t).op = "store" /\ Instruction(t).dsts = <<>>
                /\ \A u \in Threads : u # t /\ ~Finished(u) /\ Instruction(u).op # "alu" =>
                      Instruction(u).addr # Instruction(t).addr
<1>1. /\ t = injThreadID /\ site \in Sites /\ NoThread \notin Threads
      /\ phase = "kernel" /\ ~aborted
  BY ThreadsAssumption DEF Aims, IInv, HostInv, HostTypeOK, InTarget, NoThread
<1>2. Targeted(t) /\ at[t] \in {"save", "execute", "after", "write", "restore"}
  BY <1>1 DEF IInv, PickedInv, FlagsInv, Aims
<1>3. Instruction(t) \in Instructions /\ code \in Grids
  BY <1>1, <1>2, InstructionType DEF IInv, Targeted
<1>4. site.igid = "GPR" => Instruction(t).dsts # <<>>
  <2>1. site.igid = "GPR" => (InGroup(Instruction(t), site.igid) <=> Instruction(t).dsts # <<>>)
    BY Zenon DEF InGroup
  <2>2. QED  BY <1>2, <2>1 DEF Targeted
<1>5. ASSUME site.igid = "STORE_OP"
      PROVE  /\ Instruction(t).op = "store" /\ Instruction(t).dsts = <<>>
             /\ \A u \in Threads : u # t /\ ~Finished(u) /\ Instruction(u).op # "alu" =>
                   Instruction(u).addr # Instruction(t).addr
  <2>1. Instruction(t).op = "store"
    <3>1. "GPR" # "STORE_OP"
      OBVIOUS
    <3>2. site.igid # "GPR"
      BY <1>5, <3>1
    <3>3. InGroup(Instruction(t), site.igid) <=> Instruction(t).op = "store"
      BY Zenon, <1>5, <3>2 DEF InGroup
    <3>4. QED  BY <1>2, <3>3 DEF Targeted
  <2>2. ASSUME NEW u \in Threads, u # t, ~Finished(u), Instruction(u).op # "alu"
        PROVE  Instruction(u).addr # Instruction(t).addr
    <3>1. pc[t] \in DOMAIN code[t] /\ pc[u] \in DOMAIN code[u]
      BY <1>1, <1>2, <2>2, InstructionType DEF IInv, Targeted
    <3>2. QED  BY <1>3, <2>1, <2>2, <3>1, RaceFreeAssumption DEF Instruction
  <2>3. QED  BY <1>3, <2>1, <2>2 DEF Instructions
<1>6. QED  BY <1>1, <1>2, <1>3, <1>4, <1>5 DEF Targeted

\* The result of a store does not depend on the memory...
LEMMA StoreResult ==
    ASSUME NEW t, NEW p, NEW ins, ins.op = "store", NEW rf, NEW m, NEW n
    PROVE  Value(t, p, 0, ins, rf, m) = Value(t, p, 0, ins, rf, n)
<1>1. ins.op # "load"
  OBVIOUS
<1>2. \A k : {<<a, k[a]>> : a \in IF ins.op = "load" THEN {ins.addr} ELSE {}} = {}
  BY <1>1
<1>3. QED  BY <1>2 DEF Value

\* ... and a store leaves the registers as they are.
LEMMA StoreEffect ==
    ASSUME NEW t, NEW p, NEW ins, ins.dsts = <<>>, NEW rf, NEW m
    PROVE  RegsAfter(t, p, ins, rf, m) = [r \in Regs |-> rf[r]]
<1>1. DOMAIN ins.dsts = {}
  OBVIOUS
<1>2. QED  BY <1>1 DEF RegsAfter

\* Nothing is struck in a launch when it starts.
LEMMA LaunchIsClean ==
    ASSUME IInv, LaunchKernel, InTarget'
    PROVE  ~readyToInject' /\ ~errorInjectedAfter' /\ injections' = {}
<1> DEFINE k == app[hpc].kname
<1>1. /\ k = site.kname /\ knameCount'[k] = site.kcount
      /\ knameCount' = [knameCount EXCEPT ![k] = @ + 1]
  BY DEF LaunchKernel, EnterLaunch, CountLaunch, IsTarget, InTarget
<1>2. site.kname \in KNames /\ site.kcount \in Nat /\ knameCount \in [KNames -> Int]
  BY SiteType DEF IInv, HostInv, HostTypeOK
<1>3. Clean
  BY <1>1, <1>2 DEF IInv, CleanInv
<1>4. QED  BY <1>3 DEF Clean, LaunchKernel, ResetInjInfo

\* What a step of a thread leaves of the selection of another thread.
LEMMA OthersStep ==
    ASSUME IInv, NEW t \in Threads, Before(t) \/ Execute(t) \/ After(t),
           InTarget, NEW u \in Threads, u # t, Aims(u) \/ Aims(u)'
    PROVE  /\ Aims(u) /\ Aims(u)'
           /\ UNCHANGED <<injThreadID, readyToInject, errorInjectedAfter, saved, tmp, injections>>
           /\ at'[u] = at[u] /\ pc'[u] = pc[u] /\ regs'[u] = regs[u]
           /\ site.igid = "STORE_OP" =>
                mem'[Instruction(u).addr] = mem[Instruction(u).addr]
<1>1. Aims(u)
  <2>1. CASE Select(t)
    BY <2>1 DEF Select, Is, IInv, PickedInv, Clean, Aims
  <2>2. CASE Arm(t)
    BY <2>2 DEF Arm, Is, IInv, PickedInv, Aims
  <2>3. CASE Pass(t) \/ Count(t) \/ Ignore(t) \/ Save(t) \/ Execute(t)
    BY <2>3 DEF Pass, Count, Ignore, Save, Execute, infoVars, Aims
  <2>4. CASE After(t)
    BY <2>4 DEF After, Misdirect, ReadBack, WriteWrong, RestoreRight, NoError, infoVars, Aims
  <2>5. QED  BY <2>1, <2>2, <2>3, <2>4 DEF Before
<1>2. ~Aims(t) /\ injThreadID = u /\ readyToInject
  BY <1>1 DEF Aims
<1>3. Pass(t) \/ Count(t) \/ Ignore(t) \/ Execute(t) \/ NoError(t)
  <2>1. ~Select(t) /\ ~Arm(t)
    BY <1>1, <1>2 DEF Select, Arm, Is, IInv, PickedInv, Clean, Aims
  <2>2. ~Save(t) /\ ~WriteWrong(t) /\ ~RestoreRight(t)
    BY <1>2 DEF Save, WriteWrong, RestoreRight, Is, IInv, PickedInv
  <2>3. ~Misdirect(t) /\ ~ReadBack(t)
    BY <1>2 DEF Misdirect, ReadBack, Struck, Aims
  <2>4. QED  BY <2>1, <2>2, <2>3 DEF Before, After
<1>4. /\ UNCHANGED <<injThreadID, readyToInject, errorInjectedAfter, saved, tmp, injections>>
      /\ at'[u] = at[u] /\ pc'[u] = pc[u]
  BY <1>3 DEF Pass, Count, Ignore, Execute, NoError, GoTo, Proceed, infoVars, IInv, TypeInv
<1>5. Aims(u)'
  BY <1>1, <1>4 DEF Aims
<1>6. regs = [v \in Threads |-> [r \in Regs |-> regs[v][r]]]
  BY DEF IInv, MachineInv
<1>7. regs'[u] = regs[u]
  <2>1. CASE Pass(t)
    BY <1>6, <2>1 DEF Pass
  <2>2. CASE Count(t) \/ Ignore(t) \/ NoError(t)
    BY <2>2 DEF Count, Ignore, NoError
  <2>3. CASE Execute(t)
    BY <1>6, <2>3 DEF Execute
  <2>4. QED  BY <1>3, <2>1, <2>2, <2>3
<1>8. ASSUME site.igid = "STORE_OP"
      PROVE  mem'[Instruction(u).addr] = mem[Instruction(u).addr]
  <2>1. CASE Pass(t) \/ Count(t) \/ Ignore(t) \/ NoError(t)
    BY <2>1 DEF Pass, Count, Ignore, NoError
  <2>2. CASE Execute(t)
    <3>1. ~Finished(t)
      BY <2>2 DEF Execute, Is
    <3>2. Instruction(t).op # "alu" => Instruction(t).addr # Instruction(u).addr
      BY <1>1, <1>8, <3>1, AimedAt
    <3>3. \/ mem' = mem
          \/ mem' = MemAfter(t, pc[t], Instruction(t), regs[t], mem)
      BY <2>2 DEF Execute
    <3>4. mem = [a \in Addrs |-> mem[a]]
      BY DEF IInv, MachineInv
    <3>5. Instruction(t).op = "store" => Instruction(t).op # "alu"
      OBVIOUS
    <3>6. MemAfter(t, pc[t], Instruction(t), regs[t], mem)[Instruction(u).addr]
            = mem[Instruction(u).addr]
      BY <3>2, <3>4, <3>5 DEF MemAfter
    <3>7. QED  BY <3>3, <3>6
  <2>3. QED  BY <1>3, <2>1, <2>2
<1>9. QED  BY <1>1, <1>4, <1>5, <1>7, <1>8

\* What is to be struck has been saved.
LEMMA SavedStep ==
    ASSUME IInv, SavedInv, NEW t \in Threads, Before(t) \/ Execute(t) \/ After(t)
    PROVE  SavedInv'
<1>1. /\ UNCHANGED <<hostVars, code, aborted>> /\ app' = app /\ site' = site
      /\ InTarget' <=> InTarget
  <2>1. UNCHANGED <<hostVars, code, aborted>>
    BY DEF Before, After, Pass, Count, Ignore, Select, Arm, Save, Execute, Misdirect, ReadBack,
           WriteWrong, RestoreRight, NoError, Proceed
  <2>2. QED  BY <2>1, DeviceFrame
<1>2. SUFFICES ASSUME InTarget, NEW u \in Threads, Aims(u)'
               PROVE  /\ at'[u] = "execute" => saved' = Saved(Instruction(u), regs[u], mem)'
                      /\ site.igid = "STORE_OP" =>
                           /\ at'[u] \in {"after", "write", "restore"} =>
                                DOMAIN saved' = {Instruction(u)'.addr}
                           /\ at'[u] = "after" => mem'[Instruction(u)'.addr] = Result(u)'
                           /\ at'[u] = "write" => tmp'.place \in Addrs /\ tmp'.value = Result(u)'
                           /\ at'[u] \in {"write", "restore"} => injections' # {}
  BY <1>1 DEF SavedInv
<1>3. ASSUME pc'[u] = pc[u]
      PROVE  /\ Instruction(u)' = Instruction(u)
             /\ Saved(Instruction(u), regs[u], mem)' = Saved(Instruction(u), regs'[u], mem')
             /\ Result(u)' = Value(u, pc[u], 0, Instruction(u), regs'[u], mem')
  BY <1>1, <1>3 DEF Instruction, Saved, Result
<1>4. CASE u # t
  <2>1. /\ Aims(u)
        /\ UNCHANGED <<injThreadID, readyToInject, errorInjectedAfter, saved, tmp, injections>>
        /\ at'[u] = at[u] /\ pc'[u] = pc[u] /\ regs'[u] = regs[u]
        /\ site.igid = "STORE_OP" => mem'[Instruction(u).addr] = mem[Instruction(u).addr]
    BY <1>2, <1>4, OthersStep
  <2>2. site.igid \in {"GPR", "STORE_OP"}
    BY <1>2, <2>1, AimedAt, SeedsAssumption
  <2>3. Saved(Instruction(u), regs[u], mem') = Saved(Instruction(u), regs[u], mem)
    <3>1. CASE site.igid = "GPR"
      BY <3>1 DEF Saved
    <3>2. CASE site.igid = "STORE_OP"
      BY <2>1, <3>2 DEF Saved
    <3>3. QED  BY <2>2, <3>1, <3>2
  <2>4. site.igid = "STORE_OP" => Result(u)' = Result(u)
    BY <1>2, <1>3, <2>1, AimedAt, StoreResult DEF Result
  <2>5. QED  BY <1>2, <1>3, <2>1, <2>3, <2>4 DEF SavedInv
<1>5. CASE u = t
  <2>1. at[t] = "before" => ~Aims(t)
    BY <1>2, AimedAt DEF IInv, TypeInv
  <2>2. CASE Pass(t) \/ Count(t) \/ Ignore(t)
    BY <1>2, <1>5, <2>1, <2>2 DEF Pass, Count, Ignore, Is, infoVars, Aims
  <2>3. CASE Select(t)
    BY <1>2, <1>5, <2>3 DEF Select, Is, IInv, PickedInv, Clean, Aims
  <2>4. CASE Arm(t)
    <3>1. at'[t] = "save"
      BY <2>1, <2>4 DEF Arm, GoTo, IInv, TypeInv
    <3>2. QED  BY <1>5, <3>1
  <2>5. CASE Save(t)
    <3>1. at'[t] = "execute" /\ pc'[t] = pc[t] /\ regs'[t] = regs[t] /\ mem' = mem
      BY <2>5 DEF Save, GoTo, IInv, TypeInv
    <3>2. saved' = Saved(Instruction(t), regs[t], mem)
      BY <2>5 DEF Save
    <3>3. QED  BY <1>3, <1>5, <3>1, <3>2
  <2>6. CASE Execute(t)
    <3>1. /\ at'[t] = "after" /\ at[t] = "execute" /\ pc'[t] = pc[t] /\ ~Finished(t)
          /\ saved' = saved /\ Aims(t)
      BY <1>2, <1>5, <2>6 DEF Execute, GoTo, Is, IInv, TypeInv, infoVars, Aims
    <3>2. SUFFICES ASSUME site.igid = "STORE_OP"
                   PROVE  /\ DOMAIN saved = {Instruction(t).addr}
                          /\ mem'[Instruction(t).addr] = Result(t)'
      BY <1>3, <1>5, <3>1
    <3>3. saved = [a \in {Instruction(t).addr} |-> mem[a]]
      <4>1. "STORE_OP" # "GPR"
        OBVIOUS
      <4>2. saved = Saved(Instruction(t), regs[t], mem)
        BY <1>2, <3>1 DEF SavedInv
      <4>3. QED  BY <3>2, <4>1, <4>2 DEF Saved
    <3>4. /\ Instruction(t).op = "store" /\ Instruction(t).dsts = <<>> /\ Instruction(t).runs
          /\ Instruction(t) \in Instructions
      BY <1>2, <3>1, <3>2, AimedAt
    <3>5. regs = [v \in Threads |-> [r \in Regs |-> regs[v][r]]] /\ mem = [a \in Addrs |-> mem[a]]
      BY DEF IInv, MachineInv
    <3>6. /\ RegsAfter(t, pc[t], Instruction(t), regs[t], mem) = regs[t]
          /\ mem' = [mem EXCEPT ![Instruction(t).addr] =
                                  Value(t, pc[t], 0, Instruction(t), regs[t], mem)]
          /\ regs' = [regs EXCEPT ![t] = RegsAfter(t, pc[t], Instruction(t), regs[t], mem)]
      <4>1. regs[t] = [r \in Regs |-> regs[t][r]]
        BY <3>5
      <4>2. /\ RegsAfter(t, pc[t], Instruction(t), regs[t], mem) = regs[t]
            /\ MemAfter(t, pc[t], Instruction(t), regs[t], mem) =
                 [mem EXCEPT ![Instruction(t).addr] =
                                  Value(t, pc[t], 0, Instruction(t), regs[t], mem)]
        <5>1. RegsAfter(t, pc[t], Instruction(t), regs[t], mem) = [r \in Regs |-> regs[t][r]]
          BY <3>4, StoreEffect
        <5>2. QED  BY <3>4, <4>1, <5>1 DEF MemAfter
      <4>3. QED  BY <2>6, <3>4, <4>2 DEF Execute
    <3>7. regs'[t] = regs[t]
      BY <3>5, <3>6
    <3>8. Result(t)' = Value(t, pc[t], 0, Instruction(t), regs[t], mem)
      BY <1>3, <1>5, <3>1, <3>4, <3>7, StoreResult
    <3>9. Instruction(t).addr \in Addrs
      BY <3>4 DEF Instructions
    <3>10. QED  BY <3>3, <3>5, <3>6, <3>8, <3>9
  <2>7. CASE Misdirect(t) \/ RestoreRight(t)
    BY <1>2, <1>5, <2>7 DEF Misdirect, RestoreRight, Aims
  <2>8. CASE ReadBack(t)
    <3>1. /\ at[t] = "after" /\ at'[t] = "write" /\ pc'[t] = pc[t] /\ Aims(t)
          /\ saved' = saved /\ regs' = regs /\ mem' = mem /\ injections' # {}
          /\ site.igid = "STORE_OP" /\ tmp'.value = mem[Instruction(t).addr]
      <4>1. /\ at[t] = "after" /\ pc' = pc /\ saved' = saved /\ regs' = regs /\ mem' = mem
            /\ site.igid = "STORE_OP" /\ at' = [at EXCEPT ![t] = "write"]
        BY <2>8 DEF ReadBack, GoTo, Is
      <4>2. injections' # {} /\ tmp'.value = mem[Instruction(t).addr]
        <5>1. PICK mask \in Flips("STORE_OP") :
                /\ tmp' = [place |-> Xor(Instruction(t).addr, mask),
                           value |-> mem[Instruction(t).addr]]
                /\ Report(t, mask)
          BY <2>8 DEF ReadBack
        <5>2. QED  BY <5>1 DEF Report
      <4>3. Aims(t)
        BY <1>2, <1>5, <2>8 DEF ReadBack, Aims
      <4>4. QED  BY <4>1, <4>2, <4>3 DEF IInv, TypeInv
    <3>2. Instruction(t).addr \in Addrs /\ site \in Sites
      BY <1>2, <3>1, AimedAt DEF Instructions
    <3>3. tmp'.place \in Addrs
      <4>1. PICK mask \in Flips("STORE_OP") : tmp'.place = Xor(Instruction(t).addr, mask)
        BY <2>8 DEF ReadBack
      <4>2. mask \subseteq 0..(AddrBits - 1)
        BY <3>1, <3>2, FlippedMask
      <4>3. QED  BY <3>2, <4>1, <4>2 DEF Xor, Addrs
    <3>4. QED  BY <1>2, <1>3, <1>5, <3>1, <3>3 DEF SavedInv, Result
  <2>9. CASE WriteWrong(t)
    <3>1. /\ at[t] = "write" /\ at'[t] = "restore" /\ pc'[t] = pc[t] /\ Aims(t)
          /\ saved' = saved /\ injections' = injections
      BY <1>2, <1>5, <2>9 DEF WriteWrong, GoTo, Is, IInv, TypeInv, Aims, infoVars
    <3>2. QED  BY <1>2, <1>3, <1>5, <3>1 DEF SavedInv
  <2>10. CASE NoError(t)
    BY <1>2, <1>5, <2>10 DEF NoError, Struck, Aims, infoVars, InTarget
  <2>11. QED  BY <2>2, <2>3, <2>4, <2>5, <2>6, <2>7, <2>8, <2>9, <2>10 DEF Before, After
<1>6. QED  BY <1>4, <1>5

\* A result taken aside is there when the wrong register is accessed, not before.
LEMMA PlaceStep ==
    ASSUME IInv, PlaceInv, NEW t \in Threads, Before(t) \/ Execute(t) \/ After(t)
    PROVE  PlaceInv'
<1>1. /\ UNCHANGED <<hostVars, code, aborted>> /\ app' = app /\ site' = site
      /\ InTarget' <=> InTarget
  <2>1. UNCHANGED <<hostVars, code, aborted>>
    BY DEF Before, After, Pass, Count, Ignore, Select, Arm, Save, Execute, Misdirect, ReadBack,
           WriteWrong, RestoreRight, NoError, Proceed
  <2>2. QED  BY <2>1, DeviceFrame
<1>2. SUFFICES ASSUME InTarget, site.igid = "GPR", errorInjectedAfter' PROVE PlaceInv'
  BY <1>1 DEF PlaceInv
<1>3. /\ at \in [Threads -> Steps] /\ pc \in [Threads -> Nat \ {0}] /\ resolved \in Nat
      /\ injThreadID \in Threads \cup {NoThread}
  BY DEF IInv, TypeInv
<1>4. CASE ~errorInjectedAfter
  <2>1. ~RestoreRight(t)
    BY <1>2 DEF RestoreRight, Is, IInv, PickedInv
  <2>2. Misdirect(t)
    BY <1>2, <1>4, <2>1 DEF Before, After, Pass, Count, Ignore, Select, Arm, Save, Execute,
                            ReadBack, WriteWrong, NoError, infoVars
  <2>3. injThreadID' = t /\ at'[t] = "before" /\ ~errorInjected'
    BY <1>2, <1>3, <1>4, <2>2 DEF Misdirect, Struck, Proceed, GoTo, IInv, FlagsInv
  <2>4. QED  BY <2>3 DEF PlaceInv
<1>5. CASE errorInjectedAfter
  <2> DEFINE w == injThreadID
  <2>1. /\ readyToInject /\ w \in Threads /\ Waits
        /\ \A u : ~Aims(u) /\ ~Struck(u) /\ ~Clean
    BY <1>2, <1>3, <1>5 DEF IInv, FlagsInv, Aims, Struck, Clean, Waits
  <2>2. Pass(t) \/ Ignore(t) \/ Execute(t) \/ NoError(t)
    <3>1. ~Select(t) /\ ~Arm(t) /\ ~Save(t) /\ ~WriteWrong(t) /\ ~RestoreRight(t)
      BY <1>2, <2>1 DEF Select, Arm, Save, WriteWrong, RestoreRight, Is, IInv, PickedInv
    <3>2. ~Count(t) /\ ~Misdirect(t) /\ ~ReadBack(t)
      BY <2>1 DEF Count, Misdirect, ReadBack
    <3>3. QED  BY <3>1, <3>2 DEF Before, After
  <2>3. w' = w /\ tmp' = tmp
    BY <2>2 DEF Pass, Ignore, Execute, NoError, infoVars
  <2>4. /\ ~errorInjected /\ at[w] = "execute" /\ ~Finished(w) /\ Instruction(w).runs =>
              ~Reads(w) /\ ~Writes(w)
        /\ errorInjected => resolved <= pc[w]
        /\ errorInjected /\ at[w] = "before" => resolved < pc[w]
        /\ errorInjected /\ at[w] = "execute" /\ resolved = pc[w] =>
              Instruction(w).runs /\ (Reads(w) \/ Writes(w)) /\ (Reads(w) => regs[w][tmp.place] = tmp.value)
    BY <1>2, <1>5 DEF PlaceInv
  \* What is to be shown, of an instruction that stays the same.
  <2>5. ASSUME pc'[w] = pc[w],
               ~errorInjected' /\ at'[w] = "execute" /\ ~Finished(w) /\ Instruction(w).runs =>
                  ~Reads(w) /\ ~Writes(w),
               errorInjected' => resolved' <= pc[w],
               errorInjected' /\ at'[w] = "before" => resolved' < pc[w],
               errorInjected' /\ at'[w] = "execute" /\ resolved' = pc[w] =>
                  /\ Instruction(w).runs /\ (Reads(w) \/ Writes(w))
                  /\ Reads(w) => regs'[w][tmp.place] = tmp.value
        PROVE  PlaceInv'
    <3>1. /\ Instruction(w)' = Instruction(w) /\ (Finished(w)' <=> Finished(w))
      BY <1>1, <2>3, <2>5 DEF Instruction, Finished
    <3>2. (Reads(w)' <=> Reads(w)) /\ (Writes(w)' <=> Writes(w))
      BY <2>3, <3>1 DEF Reads, Writes
    <3>3. QED  BY <2>3, <2>5, <3>1, <3>2 DEF PlaceInv
  <2>6. CASE t # w
    <3>1. pc'[w] = pc[w] /\ at'[w] = at[w] /\ errorInjected' = errorInjected /\ resolved' = resolved
      <4>1. CASE Pass(t)
        BY <1>3, <2>6, <4>1 DEF Pass, GoTo, IInv, TypeInv
      <4>2. CASE Ignore(t) \/ Execute(t)
        <5>1. /\ at' = [at EXCEPT ![t] = "execute"] \/ at' = [at EXCEPT ![t] = "after"]
              /\ pc' = pc /\ errorInjected' = errorInjected /\ resolved' = resolved
          BY <4>2 DEF Ignore, Execute, GoTo, infoVars
        <5>2. QED  BY <1>3, <2>1, <2>6, <5>1
      <4>3. CASE NoError(t)
        BY <1>3, <2>6, <4>3 DEF NoError, GoTo, Proceed, infoVars
      <4>4. QED  BY <2>2, <4>1, <4>2, <4>3
    <3>2. regs'[w] = regs[w]
      <4>1. regs = [v \in Threads |-> [r \in Regs |-> regs[v][r]]]
        BY DEF IInv, MachineInv
      <4>2. CASE Pass(t)
        BY <2>1, <2>6, <4>1, <4>2 DEF Pass
      <4>3. CASE Execute(t)
        BY <2>1, <2>6, <4>1, <4>3 DEF Execute
      <4>4. CASE Ignore(t) \/ NoError(t)
        BY <4>4 DEF Ignore, NoError
      <4>5. QED  BY <2>2, <4>2, <4>3, <4>4
    <3>3. QED  BY <2>4, <2>5, <3>1, <3>2
  <2>7. CASE t = w
    <3>1. CASE Pass(t)
      <4>1. /\ at[t] = "before" /\ at'[t] = "execute" /\ pc' = pc /\ Instruction(t).runs
            /\ ~Finished(t)
        BY <1>3, <3>1 DEF Pass, Is, Handled, GoTo
      <4>2. CASE ~errorInjected /\ (Reads(t) \/ Writes(t))
        <5>1. errorInjected' /\ resolved' = pc[t]
          BY <2>7, <3>1, <4>2 DEF Pass
        <5>2. ASSUME Reads(t) PROVE regs'[t][tmp.place] = tmp.value
          <6>1. Instruction(t) \in Instructions
            BY <1>2, <4>1, InstructionType DEF IInv, InTarget
          <6>2. tmp.place \in Regs
            BY <5>2, <6>1 DEF Reads, Instructions
          <6>3. regs' = [regs EXCEPT ![t][tmp.place] = tmp.value]
            BY <2>7, <3>1, <4>2, <5>2 DEF Pass
          <6>4. regs = [v \in Threads |-> [r \in Regs |-> regs[v][r]]]
            BY DEF IInv, MachineInv
          <6>5. QED  BY <6>2, <6>3, <6>4
        <5>3. QED  BY <1>3, <2>5, <2>7, <4>1, <4>2, <5>1, <5>2
      <4>3. CASE ~(~errorInjected /\ (Reads(t) \/ Writes(t)))
        <5>1. (errorInjected' <=> errorInjected) /\ resolved' = resolved
          BY <3>1, <4>3 DEF Pass
        <5>2. QED  BY <1>3, <2>4, <2>5, <2>7, <4>1, <4>3, <5>1
      <4>4. QED  BY <4>2, <4>3
    <3>2. CASE Ignore(t)
      <4>1. /\ at[t] = "before" /\ at'[t] = "execute" /\ pc' = pc /\ ~Instruction(t).runs
            /\ errorInjected' = errorInjected /\ resolved' = resolved
        BY <1>2, <1>3, <2>1, <3>2 DEF Ignore, Is, Handled, GoTo, infoVars, InTarget
      <4>2. QED  BY <1>3, <2>4, <2>5, <2>7, <4>1
    <3>3. CASE Execute(t)
      <4>1. /\ at'[t] = "after" /\ pc' = pc /\ errorInjected' = errorInjected
            /\ resolved' = resolved
        BY <1>3, <3>3 DEF Execute, GoTo, infoVars
      <4>2. QED  BY <1>3, <2>4, <2>5, <2>7, <4>1
    <3>4. CASE NoError(t)
      <4>1. /\ at'[t] = "before" /\ pc'[t] = pc[t] + 1 /\ errorInjected' = errorInjected
            /\ resolved' = resolved /\ pc[t] \in Nat
        BY <1>3, <3>4 DEF NoError, Proceed, GoTo, infoVars
      <4>2. errorInjected' => resolved' < pc'[t]
        BY <1>3, <2>4, <2>7, <4>1
      <4>3. QED  BY <1>3, <2>3, <2>7, <4>1, <4>2 DEF PlaceInv
    <3>5. QED  BY <2>2, <3>1, <3>2, <3>3, <3>4
  <2>8. QED  BY <2>6, <2>7
<1>6. QED  BY <1>4, <1>5

\* No step of the host has an error under way.
LEMMA HostStepAims ==
    ASSUME IInv, LaunchKernel \/ ExitKernel \/ Reset \/ Exit \/ DeviceFault
    PROVE  InTarget' => ~errorInjectedAfter' /\ ~readyToInject' /\ injections' = {}
<1>1. CASE LaunchKernel
  BY <1>1, LaunchIsClean
<1>2. CASE ExitKernel \/ Reset \/ Exit \/ DeviceFault
  BY <1>2 DEF ExitKernel, LeaveLaunch, Reset, ResetDevice, NextCallIs, Exit, ReturnFromMain,
              DeviceFault, InTarget
<1>3. QED  BY <1>1, <1>2

\* The invariant of the faked write holds throughout.
THEOREM AddressFakingInvariance == Spec => []RInv
<1>1. Init => SavedInv /\ PlaceInv
  BY DEF Init, HostInit, SavedInv, PlaceInv, InTarget
<1>2. IInv /\ SavedInv /\ PlaceInv /\ [Next]_vars => SavedInv' /\ PlaceInv'
  <2> SUFFICES ASSUME IInv, SavedInv, PlaceInv, [Next]_vars PROVE SavedInv' /\ PlaceInv'
    OBVIOUS
  <2>1. CASE LaunchKernel \/ ExitKernel \/ Reset \/ Exit \/ DeviceFault
    BY <2>1, HostStepAims DEF SavedInv, PlaceInv, Aims
  <2>2. ASSUME NEW t \in Threads, Before(t) \/ Execute(t) \/ After(t)
        PROVE  SavedInv' /\ PlaceInv'
    BY <2>2, SavedStep, PlaceStep
  <2>3. CASE UNCHANGED vars
    <3>1. UNCHANGED <<hostVars, machineVars, infoVars, injections>>
      BY <2>3 DEF vars
    <3>2. (InTarget' <=> InTarget) /\ site' = site
      BY <3>1 DEF hostVars, machineVars, InTarget
    <3>3. \A u : /\ Instruction(u)' = Instruction(u) /\ (Finished(u)' <=> Finished(u))
                 /\ (Aims(u)' <=> Aims(u)) /\ Result(u)' = Result(u)
                 /\ Saved(Instruction(u), regs[u], mem)' = Saved(Instruction(u), regs[u], mem)
                 /\ (Reads(u)' <=> Reads(u)) /\ (Writes(u)' <=> Writes(u))
      <4>1. \A u : Instruction(u)' = Instruction(u)
        BY <3>1 DEF machineVars, Instruction
      <4>2. QED  BY <3>1, <3>2, <4>1
                 DEF machineVars, infoVars, Finished, Aims, Result, Saved, Reads, Writes
    <3>4. SavedInv'
      BY <3>1, <3>2, <3>3 DEF machineVars, infoVars, SavedInv
    <3>5. PlaceInv'
      BY <3>1, <3>2, <3>3 DEF machineVars, infoVars, PlaceInv
    <3>6. QED  BY <3>4, <3>5
  <2>4. QED  BY <2>1, <2>2, <2>3 DEF Next, Step, Terminated
<1>3. QED  BY <1>1, <1>2, AddressInvariance, PTL DEF Spec, RInv

-----------------------------------------------------------------------------
(* What is seen, in terms of the thread whose result is being struck.      *)

Parted(t) == InTarget /\ site.igid = "GPR" /\ Aims(t) /\ at[t] = "after"
Holds(t) == InTarget /\ site.igid = "STORE_OP" /\ Aims(t) /\ at[t] \in {"after", "write", "restore"}

SeenBy(t) ==
    /\ SeenRegs[t] = [r \in Regs |->
          IF Parted(t) /\ r = Wrong(t) THEN regs[t][Right(t)]
          ELSE IF Parted(t) /\ r = Right(t) THEN saved[r]
          ELSE IF TakenAside(t) /\ r = tmp.place THEN tmp.value
          ELSE regs[t][r]]
    /\ ~Parted(t) /\ ~TakenAside(t) => SeenRegs[t] = regs[t]
    /\ Holds(t) => /\ SeenPc[t] = IF at[t] = "restore" THEN pc[t] + 1 ELSE pc[t]
                   /\ SeenMem = [a \in Addrs |->
                         IF a = Instruction(t).addr THEN saved[a] ELSE mem[a]]
    /\ ~Holds(t) => SeenPc[t] = IF Is(t, "after") THEN pc[t] + 1 ELSE pc[t]

View ==
    /\ SeenRegs = [t \in Threads |-> SeenRegs[t]] /\ SeenPc = [t \in Threads |-> SeenPc[t]]
    /\ \A t \in Threads : SeenBy(t)
    /\ (\A t \in Threads : ~Holds(t)) => SeenMem = mem
    /\ HasStruck <=> \/ \E t \in Threads : Parted(t)
                     \/ injections # {} /\ \A t \in Threads : ~(Holds(t) /\ at[t] = "write")

LEMMA Viewed == RInv => View
<1> SUFFICES ASSUME RInv PROVE View
  OBVIOUS
<1>1. IInv /\ SavedInv
  BY DEF RInv
<1>2. \A t \in Threads : /\ Written(t) <=> Parted(t)
                         /\ Stored(t) \/ Is(t, "restore") <=> Holds(t)
                         /\ Is(t, "write") <=> Holds(t) /\ at[t] = "write"
                         /\ Is(t, "restore") <=> Holds(t) /\ at[t] = "restore"
                         /\ Stored(t) <=> Holds(t) /\ at[t] # "restore"
                         /\ Holds(t) => ~Parted(t) /\ ~Finished(t)
  <2> SUFFICES ASSUME NEW t \in Threads
               PROVE  /\ Written(t) <=> Parted(t)
                      /\ Stored(t) \/ Is(t, "restore") <=> Holds(t)
                      /\ Is(t, "write") <=> Holds(t) /\ at[t] = "write"
                      /\ Is(t, "restore") <=> Holds(t) /\ at[t] = "restore"
                      /\ Stored(t) <=> Holds(t) /\ at[t] # "restore"
                      /\ Holds(t) => ~Parted(t) /\ ~Finished(t)
    OBVIOUS
  <2>1. InTarget /\ Aims(t) => ~Finished(t)
    BY <1>1, AimedAt
  <2>2. at[t] \in {"write", "restore"} => InTarget /\ Aims(t) /\ site.igid = "STORE_OP"
    BY <1>1 DEF IInv, StepsInv, PickedInv
  <2>3. Written(t) <=> Parted(t)
    BY <2>1 DEF Written, Parted, Is, Struck, InTarget, Aims
  <2>4. /\ Is(t, "write") <=> Holds(t) /\ at[t] = "write"
        /\ Is(t, "restore") <=> Holds(t) /\ at[t] = "restore"
    BY <2>1, <2>2 DEF Is, Holds, InTarget
  <2>5. Stored(t) <=> Holds(t) /\ at[t] # "restore"
    BY <2>1, <2>2, <2>4 DEF Stored, Is, Struck, Holds, InTarget, Aims
  <2>6. Holds(t) => ~Parted(t) /\ ~Finished(t)
    BY <2>1 DEF Holds, Parted
  <2>7. QED  BY <2>3, <2>4, <2>5, <2>6 DEF Holds
<1>3. \A t, u \in Threads : Holds(t) /\ Holds(u) => t = u
  BY DEF Holds, Aims
<1>4. SeenRegs = [t \in Threads |-> SeenRegs[t]] /\ SeenPc = [t \in Threads |-> SeenPc[t]]
  BY DEF SeenRegs, SeenPc
<1>5. regs = [v \in Threads |-> [r \in Regs |-> regs[v][r]]] /\ mem = [a \in Addrs |-> mem[a]]
  BY <1>1 DEF IInv, MachineInv
<1>6. ASSUME NEW t \in Threads PROVE SeenBy(t)
  <2>1. SeenRegs[t] = [r \in Regs |->
          IF Parted(t) /\ r = Wrong(t) THEN regs[t][Right(t)]
          ELSE IF Parted(t) /\ r = Right(t) THEN saved[r]
          ELSE IF TakenAside(t) /\ r = tmp.place THEN tmp.value
          ELSE regs[t][r]]
    BY <1>2 DEF SeenRegs
  <2>2. ASSUME ~Parted(t), ~TakenAside(t) PROVE SeenRegs[t] = regs[t]
    <3>1. SeenRegs[t] = [r \in Regs |-> regs[t][r]]
      BY <2>1, <2>2
    <3>2. QED  BY <1>5, <3>1
  <2>3. SeenPc[t] = IF Is(t, "restore") \/ (Is(t, "after") /\ ~Stored(t)) THEN pc[t] + 1 ELSE pc[t]
    BY DEF SeenPc
  <2>4. Holds(t) => SeenPc[t] = IF at[t] = "restore" THEN pc[t] + 1 ELSE pc[t]
    BY <1>2, <2>3 DEF Is
  <2>5. ~Holds(t) => SeenPc[t] = IF Is(t, "after") THEN pc[t] + 1 ELSE pc[t]
    BY <1>2, <2>3
  <2>6. ASSUME Holds(t)
        PROVE  SeenMem = [a \in Addrs |-> IF a = Instruction(t).addr THEN saved[a] ELSE mem[a]]
    <3>1. DOMAIN saved = {Instruction(t).addr}
      BY <1>1, <2>6 DEF Holds, SavedInv
    <3>2. \E u \in Threads : Stored(u) \/ Is(u, "restore")
      BY <1>2, <2>6
    <3>3. QED  BY <3>1, <3>2 DEF SeenMem
  <2>7. QED  BY <2>1, <2>2, <2>4, <2>5, <2>6 DEF SeenBy
<1>7. ASSUME \A t \in Threads : ~Holds(t) PROVE SeenMem = mem
  <2>1. ~(\E t \in Threads : Stored(t) \/ Is(t, "restore"))
    BY <1>2, <1>7
  <2>2. SeenMem = [a \in Addrs |-> mem[a]]
    BY <2>1 DEF SeenMem
  <2>3. QED  BY <1>5, <2>2
<1>8. HasStruck <=> \/ \E t \in Threads : Parted(t)
                    \/ injections # {} /\ \A t \in Threads : ~(Holds(t) /\ at[t] = "write")
  BY <1>2 DEF HasStruck
<1>9. QED  BY <1>4, <1>6, <1>7, <1>8 DEF View

\* What the flags say of the thread whose result is struck stays the same in a step
\* of another thread, and so does what is seen of that thread.
LEMMA SeenElsewhere ==
    ASSUME RInv, RInv', NEW t \in Threads, Before(t) \/ Execute(t) \/ After(t),
           NEW u \in Threads, u # t
    PROVE  /\ SeenRegs'[u] = SeenRegs[u] /\ SeenPc'[u] = SeenPc[u]
           /\ (Holds(u)' <=> Holds(u)) /\ (Parted(u)' <=> Parted(u)) /\ at'[u] = at[u]
           /\ pc'[u] = pc[u] /\ (Holds(u) => saved' = saved)
<1>1. IInv /\ SavedInv /\ IInv'
  BY DEF RInv
<1>2. View /\ View'
  <2>1. (RInv => View)'
    BY Viewed, PTL
  <2>2. QED  BY <2>1, Viewed
<1>3. /\ UNCHANGED <<hostVars, code, aborted>> /\ app' = app /\ site' = site /\ phase' = phase
      /\ InTarget' <=> InTarget
  <2>1. UNCHANGED <<hostVars, code, aborted>>
    BY DEF Before, After, Pass, Count, Ignore, Select, Arm, Save, Execute, Misdirect, ReadBack,
           WriteWrong, RestoreRight, NoError, Proceed
  <2>2. QED  BY <1>1, <2>1, DeviceFrame
<1>4. /\ at \in [Threads -> Steps] /\ pc \in [Threads -> Nat \ {0}]
      /\ regs = [v \in Threads |-> [r \in Regs |-> regs[v][r]]]
  BY <1>1 DEF IInv, TypeInv, MachineInv
<1>5. at'[u] = at[u]
  <2>1. \E step : at' = [at EXCEPT ![t] = step]
    BY DEF Before, After, Pass, Count, Ignore, Select, Arm, Save, Execute, Misdirect, ReadBack,
           WriteWrong, RestoreRight, NoError, Proceed, GoTo
  <2>2. QED  BY <1>4, <2>1
<1>6. pc'[u] = pc[u]
  <2>1. pc' = pc \/ pc' = [pc EXCEPT ![t] = @ + 1]
    BY DEF Before, After, Pass, Count, Ignore, Select, Arm, Save, Execute, Misdirect, ReadBack,
           WriteWrong, RestoreRight, NoError, Proceed
  <2>2. QED  BY <1>4, <2>1
<1>7. regs'[u] = regs[u]
  <2>1. CASE Pass(t)
    BY <1>4, <2>1 DEF Pass
  <2>2. CASE Execute(t)
    BY <1>4, <2>2 DEF Execute
  <2>3. CASE Misdirect(t)
    BY <1>4, <2>3 DEF Misdirect
  <2>4. CASE Count(t) \/ Ignore(t) \/ Select(t) \/ Arm(t) \/ Save(t)
    BY <2>4 DEF Count, Ignore, Select, Arm, Save
  <2>5. CASE ReadBack(t) \/ WriteWrong(t) \/ RestoreRight(t) \/ NoError(t)
    BY <2>5 DEF ReadBack, WriteWrong, RestoreRight, NoError
  <2>6. QED  BY <2>1, <2>2, <2>3, <2>4, <2>5 DEF Before, After
<1>8. /\ Is(u, "after")' <=> Is(u, "after")
      /\ Instruction(u)' = Instruction(u)
  BY <1>3, <1>5, <1>6 DEF Is, Finished, Instruction
<1>9. (Holds(u)' <=> Holds(u)) /\ (Parted(u)' <=> Parted(u)) /\ (Holds(u) \/ Parted(u) => saved' = saved)
  <2>1. InTarget => (Aims(u)' <=> Aims(u)) /\ (Aims(u) => saved' = saved)
    BY <1>1, OthersStep
  <2>2. QED  BY <1>3, <1>5, <2>1 DEF Holds, Parted
<1>10. /\ TakenAside(u)' <=> TakenAside(u)
       /\ TakenAside(u) => tmp' = tmp
  <2>1. CASE ~InTarget
    BY <1>3, <2>1 DEF TakenAside, InTarget
  <2>2. CASE injThreadID # u
    <3>1. injThreadID' # u
      BY <2>2 DEF Before, After, Pass, Count, Ignore, Select, Arm, Save, Execute, Misdirect,
                  ReadBack, WriteWrong, RestoreRight, NoError, infoVars
    <3>2. QED  BY <2>2, <3>1 DEF TakenAside
  <2>3. CASE injThreadID = u /\ ~errorInjectedAfter
    <3>1. ~errorInjectedAfter'
      <4>1. ~Misdirect(t)
        BY <2>3 DEF Misdirect, Struck
      <4>2. ~RestoreRight(t)
        BY <1>1, <2>3 DEF RestoreRight, Is, IInv, StepsInv, PickedInv, Aims
      <4>3. QED  BY <2>3, <4>1, <4>2 DEF Before, After, Pass, Count, Ignore, Select, Arm, Save,
                    Execute, ReadBack, WriteWrong, NoError, infoVars
    <3>2. QED  BY <2>3, <3>1 DEF TakenAside
  <2>4. CASE InTarget /\ injThreadID = u /\ errorInjectedAfter /\ site.igid = "GPR"
    <3>1. readyToInject /\ ~Aims(t) /\ ~Clean
      BY <1>1, <2>4 DEF IInv, FlagsInv, Aims, Clean
    <3>2. Pass(t) \/ Ignore(t) \/ Execute(t) \/ NoError(t)
      <4>1. ~Select(t) /\ ~Arm(t) /\ ~Save(t) /\ ~WriteWrong(t) /\ ~RestoreRight(t)
        BY <1>1, <2>4, <3>1 DEF Select, Arm, Save, WriteWrong, RestoreRight, Is, IInv, PickedInv
      <4>2. ~Count(t) /\ ~Misdirect(t) /\ ~ReadBack(t)
        BY <2>4, <3>1 DEF Count, Misdirect, ReadBack, Waits, Struck
      <4>3. QED  BY <4>1, <4>2 DEF Before, After
    <3>3. /\ UNCHANGED <<injThreadID, errorInjectedAfter, resolved, tmp>>
          /\ errorInjected' <=> errorInjected
      <4>1. CASE Pass(t)
        BY <2>4, <4>1 DEF Pass
      <4>2. CASE Ignore(t) \/ Execute(t) \/ NoError(t)
        BY <4>2 DEF Ignore, Execute, NoError, infoVars
      <4>3. QED  BY <3>2, <4>1, <4>2
    <3>4. QED  BY <1>3, <1>5, <1>6, <3>3 DEF TakenAside, InTarget, hostVars
  <2>5. CASE site.igid # "GPR"
    BY <1>3, <2>5 DEF TakenAside
  <2>6. QED  BY <2>1, <2>2, <2>3, <2>4, <2>5
<1>11. SeenRegs'[u] = SeenRegs[u]
  <2>1. Wrong(u)' = Wrong(u) /\ Right(u)' = Right(u)
    <3>1. Right(u)' = Right(u)
      BY <1>3, <1>8 DEF Right, IntInjId
    <3>2. Flips("GPR")' = Flips("GPR")
      BY Zenon, <1>3 DEF Flips
    <3>3. QED  BY Zenon, <3>1, <3>2 DEF Wrong
  <2>2. SeenBy(u) /\ SeenBy(u)'
    BY <1>2 DEF View
  <2>3. QED  BY <1>7, <1>9, <1>10, <2>1, <2>2 DEF SeenBy
<1>12. SeenPc'[u] = SeenPc[u]
  <2>1. SeenBy(u) /\ SeenBy(u)'
    BY <1>2 DEF View
  <2>2. QED  BY <1>5, <1>6, <1>8, <1>9, <2>1 DEF SeenBy
<1>13. QED  BY <1>5, <1>6, <1>9, <1>11, <1>12

-----------------------------------------------------------------------------
(* Each step of the handlers is a step of the misdirected write, or none.  *)

\* A step of thread t that changes nothing that is seen of it.
LEMMA Unseen ==
    ASSUME RInv, RInv', NEW t \in Threads, Before(t) \/ Execute(t) \/ After(t),
           SeenRegs'[t] = SeenRegs[t], SeenPc'[t] = SeenPc[t], SeenMem' = SeenMem,
           HasStruck' <=> HasStruck
    PROVE  UNCHANGED <<code, SeenPc, SeenRegs, SeenMem, HasStruck>>
<1>1. View /\ View'
  <2>1. (RInv => View)'
    BY Viewed, PTL
  <2>2. QED  BY <2>1, Viewed
<1>2. code' = code
  BY DEF Before, After, Pass, Count, Ignore, Select, Arm, Save, Execute, Misdirect, ReadBack,
         WriteWrong, RestoreRight, NoError, Proceed
<1>3. \A u \in Threads : SeenRegs'[u] = SeenRegs[u] /\ SeenPc'[u] = SeenPc[u]
  BY SeenElsewhere
<1>4. SeenRegs' = SeenRegs /\ SeenPc' = SeenPc
  BY <1>1, <1>3 DEF View
<1>5. HasStruck' = HasStruck
  BY DEF HasStruck
<1>6. QED  BY <1>2, <1>4, <1>5

\* A step of thread t before or after its result is struck: what is seen of the
\* memory changes as the memory does, and nothing is struck by it.
LEMMA Aloof ==
    ASSUME RInv, RInv', NEW t \in Threads, Before(t) \/ Execute(t) \/ After(t),
           injections' = injections,
           ~Holds(t), ~Holds(t)', ~Parted(t), ~Parted(t)'
    PROVE  /\ HasStruck' <=> HasStruck
           /\ mem' = mem => SeenMem' = SeenMem
           /\ \/ SeenMem = mem /\ SeenMem' = mem'
              \/ \E u \in Threads \ {t} :
                    /\ InTarget /\ site.igid = "STORE_OP" /\ Aims(u) /\ site' = site
                    /\ SeenMem = [a \in Addrs |->
                          IF a = Instruction(u).addr THEN saved[a] ELSE mem[a]]
                    /\ SeenMem' = [a \in Addrs |->
                          IF a = Instruction(u).addr THEN saved[a] ELSE mem'[a]]
<1>1. View /\ View'
  <2>1. (RInv => View)'
    BY Viewed, PTL
  <2>2. QED  BY <2>1, Viewed
<1>2. \A u \in Threads \ {t} :
        /\ (Holds(u)' <=> Holds(u)) /\ (Parted(u)' <=> Parted(u)) /\ at'[u] = at[u]
        /\ pc'[u] = pc[u] /\ (Holds(u) => saved' = saved)
  BY SeenElsewhere
<1>3. HasStruck' <=> HasStruck
  BY <1>1, <1>2 DEF View
<1>4. CASE \A u \in Threads : ~Holds(u)
  <2>1. \A u \in Threads : ~Holds(u)'
    BY <1>2, <1>4
  <2>2. SeenMem = mem /\ SeenMem' = mem'
    BY <1>1, <1>4, <2>1 DEF View
  <2>3. QED  BY <1>3, <2>2
<1>5. ASSUME NEW u \in Threads, Holds(u)
      PROVE  /\ InTarget /\ site.igid = "STORE_OP" /\ Aims(u) /\ site' = site /\ u # t
             /\ SeenMem = [a \in Addrs |-> IF a = Instruction(u).addr THEN saved[a] ELSE mem[a]]
             /\ SeenMem' = [a \in Addrs |-> IF a = Instruction(u).addr THEN saved[a] ELSE mem'[a]]
  <2>1. u # t /\ Holds(u)' /\ saved' = saved /\ pc'[u] = pc[u]
    BY <1>2, <1>5
  <2>2. code' = code /\ site' = site
    BY DEF Before, After, Pass, Count, Ignore, Select, Arm, Save, Execute, Misdirect, ReadBack,
           WriteWrong, RestoreRight, NoError, Proceed, hostVars
  <2>3. Instruction(u)' = Instruction(u)
    BY <2>1, <2>2 DEF Instruction
  <2>4. SeenBy(u) /\ SeenBy(u)'
    BY <1>1 DEF View
  <2>5. SeenMem' = [a \in Addrs |-> IF a = Instruction(u).addr THEN saved[a] ELSE mem'[a]]
    BY <2>1, <2>3, <2>4 DEF SeenBy
  <2>6. QED  BY <1>5, <2>1, <2>2, <2>4, <2>5 DEF SeenBy, Holds
<1>6. QED  BY <1>3, <1>4, <1>5

\* The handlers, up to the strike and around every other instruction, are not seen.
LEMMA QuietStep ==
    ASSUME RInv, RInv', NEW t \in Threads, Before(t) \/ NoError(t)
    PROVE  UNCHANGED <<code, SeenPc, SeenRegs, SeenMem, HasStruck>>
<1>1. IInv /\ SavedInv /\ IInv' /\ PlaceInv
  BY DEF RInv
<1>2. SeenBy(t) /\ SeenBy(t)'
  <2>1. (RInv => View)'
    BY Viewed, PTL
  <2>2. QED  BY <2>1, Viewed DEF View
<1>3. /\ at \in [Threads -> Steps] /\ pc \in [Threads -> Nat \ {0}] /\ resolved \in Nat
      /\ regs = [v \in Threads |-> [r \in Regs |-> regs[v][r]]]
  BY <1>1 DEF IInv, TypeInv, MachineInv
<1>4. /\ injections' = injections /\ mem' = mem /\ code' = code
      /\ UNCHANGED hostVars /\ aborted' = aborted
      /\ tmp' = tmp /\ errorInjectedAfter' = errorInjectedAfter
  BY DEF Before, Pass, Count, Ignore, Select, Arm, Save, NoError, Proceed, infoVars
<1>5. (InTarget' <=> InTarget) /\ site' = site
  BY <1>4 DEF InTarget, hostVars
<1>6. Before(t) \/ Execute(t) \/ After(t)
  BY DEF After
<1>7. /\ ~Holds(t) /\ ~Parted(t) /\ ~Holds(t)' /\ ~Parted(t)'
      /\ SeenPc'[t] = SeenPc[t]
  <2>1. CASE Before(t)
    <3>1. /\ at[t] \in {"before", "select", "arm", "save"}
          /\ at'[t] \in {"select", "arm", "save", "execute"}
          /\ pc' = pc
      BY <1>3, <2>1 DEF Before, Pass, Count, Ignore, Select, Arm, Save, Is, GoTo
    <3>2. ~Holds(t) /\ ~Parted(t) /\ ~Holds(t)' /\ ~Parted(t)'
      BY <3>1 DEF Holds, Parted
    <3>3. ~Is(t, "after") /\ ~Is(t, "after")'
      BY <3>1 DEF Is
    <3>4. QED  BY <1>2, <3>1, <3>2, <3>3 DEF SeenBy
  <2>2. CASE NoError(t)
    <3>1. at[t] = "after" /\ at'[t] = "before" /\ pc'[t] = pc[t] + 1 /\ Is(t, "after")
      BY <1>3, <2>2 DEF NoError, Is, Proceed, GoTo
    <3>2. InTarget => ~Aims(t)
      BY <2>2 DEF NoError, Struck, Aims, InTarget
    <3>3. ~Holds(t) /\ ~Parted(t) /\ ~Holds(t)' /\ ~Parted(t)'
      BY <3>1, <3>2 DEF Holds, Parted
    <3>4. ~Is(t, "after")'
      BY <3>1 DEF Is
    <3>5. QED  BY <1>2, <3>1, <3>3, <3>4 DEF SeenBy
  <2>3. QED  BY <2>1, <2>2
<1>8. (HasStruck' <=> HasStruck) /\ SeenMem' = SeenMem
  BY <1>4, <1>6, <1>7, Aloof
<1>9. SeenRegs'[t] = SeenRegs[t]
  <2>1. SeenRegs[t] = [r \in Regs |-> IF TakenAside(t) /\ r = tmp.place THEN tmp.value ELSE regs[t][r]]
    BY <1>2, <1>7 DEF SeenBy
  <2>2. SeenRegs'[t] = [r \in Regs |-> IF TakenAside(t)' /\ r = tmp.place THEN tmp.value
                                       ELSE regs'[t][r]]
    BY <1>2, <1>4, <1>7 DEF SeenBy
  <2>3. CASE Pass(t)
    <3>1. /\ at[t] = "before" /\ at'[t] = "execute" /\ pc' = pc /\ injThreadID' = injThreadID
          /\ InTarget /\ site.igid = "GPR" /\ ~Finished(t)
      BY <1>3, <2>3 DEF Pass, Is, Handled, GoTo, Waits, InTarget
    <3>2. CASE ~(injThreadID = t /\ ~errorInjected /\ (Reads(t) \/ Writes(t)))
      <4>1. regs' = regs /\ (errorInjected' <=> errorInjected) /\ resolved' = resolved
        BY <2>3, <3>2 DEF Pass
      <4>2. TakenAside(t)' <=> TakenAside(t)
        <5>1. errorInjected /\ errorInjectedAfter /\ injThreadID = t => resolved < pc[t]
          BY <1>1, <3>1 DEF PlaceInv
        <5>2. QED  BY <1>3, <1>4, <3>1, <4>1, <5>1 DEF TakenAside, hostVars
      <4>3. QED  BY <2>1, <2>2, <4>1, <4>2
    <3>3. CASE injThreadID = t /\ ~errorInjected /\ (Reads(t) \/ Writes(t))
      <4>1. errorInjectedAfter
        <5>1. ~Aims(t)
          BY <1>1, <3>1, AimedAt
        <5>2. QED  BY <2>3, <3>3, <5>1 DEF Pass, Waits, Aims
      <4>2. errorInjected' /\ resolved' = pc[t]
        BY <2>3, <3>3 DEF Pass
      <4>3. TakenAside(t) /\ TakenAside(t)'
        BY <1>4, <3>1, <3>3, <4>1, <4>2 DEF TakenAside, InTarget, hostVars
      <4>4. \A r \in Regs : r # tmp.place => regs'[t][r] = regs[t][r]
        BY <1>3, <2>3, <3>3 DEF Pass
      <4>5. QED  BY <2>1, <2>2, <4>3, <4>4
    <3>4. QED  BY <3>2, <3>3
  <2>4. CASE Count(t) \/ Ignore(t) \/ Select(t) \/ Arm(t) \/ Save(t) \/ NoError(t)
    <3>1. regs' = regs /\ errorInjected' = errorInjected /\ resolved' = resolved
      BY <2>4 DEF Count, Ignore, Select, Arm, Save, NoError, infoVars
    <3>2. TakenAside(t)' <=> TakenAside(t)
      <4>1. CASE ~InTarget \/ site.igid # "GPR"
        BY <1>4, <1>5, <4>1 DEF TakenAside, InTarget
      <4>2. CASE ~errorInjectedAfter
        BY <1>4, <4>2 DEF TakenAside
      <4>3. CASE InTarget /\ site.igid = "GPR" /\ errorInjectedAfter
        <5>1. readyToInject /\ ~Aims(t) /\ ~Clean
          BY <1>1, <4>3 DEF IInv, FlagsInv, Aims, Clean
        <5>2. ~Count(t) /\ ~Select(t) /\ ~Arm(t) /\ ~Save(t)
          BY <1>1, <4>3, <5>1 DEF Count, Waits, Select, Arm, Save, Is, IInv, PickedInv
        <5>3. injThreadID' = injThreadID /\ at[t] \in {"before", "after"} /\ at'[t] \in {"execute", "before"}
              /\ (at'[t] = "execute" => at[t] = "before" /\ pc' = pc)
          BY <1>3, <2>4, <5>2 DEF Ignore, NoError, Is, GoTo, Proceed, infoVars
        <5>4. errorInjected /\ injThreadID = t /\ at[t] = "before" => resolved < pc[t]
          BY <1>1, <4>3 DEF PlaceInv
        <5>5. QED  BY <1>3, <1>4, <1>5, <3>1, <4>3, <5>3, <5>4 DEF TakenAside, InTarget, hostVars
      <4>4. QED  BY <4>1, <4>2, <4>3
    <3>3. QED  BY <2>1, <2>2, <3>1, <3>2
  <2>5. QED  BY <2>3, <2>4 DEF Before
<1>10. QED  BY <1>6, <1>7, <1>8, <1>9, Unseen

\* The only mask of a register number that the site allows, and the register that it
\* leads to, which is another one.
LEMMA WrongRegister ==
    ASSUME site \in Sites, site.igid = "GPR", NEW t
    PROVE  /\ \A mask \in Flips("GPR") : Wrong(t) = Xor(Right(t), mask)
           /\ Wrong(t) # Right(t)
<1>1. \E mask : Flips("GPR") = {mask}
  BY DEF Flips
<1>2. PICK mask : Flips("GPR") = {mask}
  BY <1>1
<1>3. mask # {} /\ mask \in Flips(site.igid)
  BY <1>2, FlippedMask
<1>4. Wrong(t) = Xor(Right(t), mask)
  <2>1. {Xor(Right(t), m) : m \in {mask}} = {Xor(Right(t), mask)}
    OBVIOUS
  <2>2. \A x : (CHOOSE r \in {x} : TRUE) = x
    OBVIOUS
  <2>3. QED  BY Zenon, <1>2, <2>1, <2>2 DEF Wrong
<1>5. QED  BY <1>2, <1>3, <1>4 DEF Xor

\* The register result that is struck is one of the instruction's destinations.
LEMMA RightRegister ==
    ASSUME IInv, InTarget, NEW t \in Threads, Aims(t), site.igid = "GPR"
    PROVE  /\ \E i \in DOMAIN Instruction(t).dsts : Instruction(t).dsts[i] = Right(t)
           /\ Right(t) \in Regs
<1> DEFINE n == Len(Instruction(t).dsts)
           i == 1 + IntInjId(n, site.opSeed)
<1>1. /\ Instruction(t).dsts \in Seq(Regs) /\ Instruction(t).dsts # <<>> /\ site \in Sites
  BY AimedAt DEF Instructions
<1>2. n \in Nat /\ n > 0 /\ DOMAIN Instruction(t).dsts = 1..n
  BY <1>1
<1>3. site.opSeed \in Nat /\ site.opSeed < SeedMax /\ SeedMax \in Nat
  BY <1>1, SiteType
<1>4. i \in 1..n
  <2>1. IntInjId(n, site.opSeed) \in Nat /\ IntInjId(n, site.opSeed) < n
    BY <1>2, <1>3, IntInjIdRange
  <2>2. QED  BY <1>2, <2>1
<1>5. Right(t) = Instruction(t).dsts[i]
  BY DEF Right
<1>6. QED  BY <1>1, <1>2, <1>4, <1>5

\* Taking a register result aside leaves it where it was last seen.
LEMMA MisdirectUnseen ==
    ASSUME RInv, RInv', NEW t \in Threads, Misdirect(t)
    PROVE  UNCHANGED <<code, SeenPc, SeenRegs, SeenMem, HasStruck>>
<1>1. IInv /\ SavedInv /\ IInv'
  BY DEF RInv
<1>2. View /\ View'
  <2>1. (RInv => View)'
    BY Viewed, PTL
  <2>2. QED  BY <2>1, Viewed
<1>3. /\ at[t] = "after" /\ at'[t] = "before" /\ pc'[t] = pc[t] + 1
      /\ InTarget /\ InTarget' /\ site' = site /\ site.igid = "GPR" /\ site \in Sites
      /\ Aims(t) /\ Is(t, "after")
      /\ injThreadID' = t /\ errorInjectedAfter' /\ mem' = mem
  BY <1>1 DEF Misdirect, Is, Struck, Proceed, GoTo, IInv, TypeInv, HostInv, HostTypeOK, InTarget,
              Aims, hostVars
<1>4. ~errorInjected'
  BY <1>1, <1>3 DEF Misdirect, IInv, FlagsInv, Aims
<1>5. Parted(t) /\ ~Parted(t)' /\ TakenAside(t)'
  BY <1>3, <1>4 DEF Parted, TakenAside, Aims, InTarget
<1>6. \A u \in Threads : ~Holds(u) /\ ~Holds(u)'
  BY <1>3 DEF Holds
<1>7. SeenMem' = SeenMem
  BY <1>2, <1>3, <1>6 DEF View
<1>8. PICK mask \in Flips("GPR") :
        /\ tmp' = [place |-> Xor(Right(t), mask), value |-> regs[t][Right(t)]]
        /\ Report(t, mask)
  BY DEF Misdirect
<1>9. HasStruck /\ HasStruck'
  <2>1. injections' # {}
    BY <1>8 DEF Report
  <2>2. QED  BY <1>2, <1>5, <1>6, <2>1 DEF View
<1>10. SeenPc'[t] = SeenPc[t]
  <2>1. ~Is(t, "after")'
    BY <1>3 DEF Is
  <2>2. SeenBy(t) /\ SeenBy(t)'
    BY <1>2 DEF View
  <2>3. QED  BY <1>3, <1>6, <2>1, <2>2 DEF SeenBy
<1>11. SeenRegs'[t] = SeenRegs[t]
  <2>1. SeenBy(t) /\ SeenBy(t)'
    BY <1>2 DEF View
  <2>2. tmp'.place = Wrong(t) /\ tmp'.value = regs[t][Right(t)] /\ Wrong(t) # Right(t)
    BY <1>3, <1>8, WrongRegister
  <2>3. regs = [v \in Threads |-> [r \in Regs |-> regs[v][r]]]
    BY <1>1 DEF IInv, MachineInv
  <2>4. \A r \in Regs : regs'[t][r] = IF r = Right(t) THEN saved[r] ELSE regs[t][r]
    BY <2>3 DEF Misdirect
  <2>5. ~TakenAside(t)
    BY <1>3 DEF TakenAside, Aims
  <2>6. SeenRegs[t] = [r \in Regs |-> IF r = Wrong(t) THEN regs[t][Right(t)]
                                      ELSE IF r = Right(t) THEN saved[r] ELSE regs[t][r]]
    BY <1>5, <2>1, <2>5 DEF SeenBy
  <2>7. SeenRegs'[t] = [r \in Regs |-> IF r = tmp'.place THEN tmp'.value ELSE regs'[t][r]]
    BY <1>5, <2>1 DEF SeenBy
  <2>8. QED  BY <2>2, <2>4, <2>6, <2>7
<1>12. QED  BY <1>7, <1>9, <1>10, <1>11, Unseen DEF After

\* Nor is it seen that a store's result is read back, or that the right address gets
\* back the value that it is seen to have.
LEMMA StoreStepsUnseen ==
    ASSUME RInv, RInv', NEW t \in Threads, ReadBack(t) \/ RestoreRight(t)
    PROVE  UNCHANGED <<code, SeenPc, SeenRegs, SeenMem, HasStruck>>
<1>1. IInv /\ SavedInv /\ IInv' /\ SavedInv'
  BY DEF RInv
<1>2. View /\ View'
  <2>1. (RInv => View)'
    BY Viewed, PTL
  <2>2. QED  BY <2>1, Viewed
<1>3. /\ InTarget /\ InTarget' /\ site' = site /\ site.igid = "STORE_OP" /\ Aims(t)
      /\ regs' = regs /\ code' = code /\ saved' = saved
      /\ at[t] \in {"after", "restore"}
  <2>1. CASE ReadBack(t)
    BY <2>1 DEF ReadBack, Is, Struck, InTarget, Aims, hostVars
  <2>2. CASE RestoreRight(t)
    BY <1>1, <2>2 DEF RestoreRight, Is, IInv, StepsInv, PickedInv, InTarget, hostVars
  <2>3. QED  BY <2>1, <2>2
<1>4. "STORE_OP" # "GPR"
  OBVIOUS
<1>5. Holds(t) /\ \A u \in Threads : ~Parted(u) /\ ~Parted(u)'
  BY <1>3, <1>4 DEF Holds, Parted
<1>6. \A u \in Threads : ~TakenAside(u) /\ ~TakenAside(u)'
  BY <1>3, <1>4 DEF TakenAside
<1>7. SeenRegs'[t] = SeenRegs[t]
  BY <1>2, <1>3, <1>5, <1>6 DEF View, SeenBy
<1>8. /\ at \in [Threads -> Steps] /\ pc \in [Threads -> Nat \ {0}]
      /\ mem = [a \in Addrs |-> mem[a]] /\ mem' = [a \in Addrs |-> mem'[a]]
  BY <1>1 DEF IInv, TypeInv, MachineInv
<1>9. SeenBy(t) /\ SeenBy(t)'
  BY <1>2 DEF View
<1>10. ASSUME NEW u \in Threads, u # t PROVE ~Holds(u) /\ ~Holds(u)'
  <2>1. ~Holds(u)
    BY <1>3, <1>10 DEF Holds, Aims
  <2>2. QED  BY <1>10, <2>1, SeenElsewhere DEF After
<1>11. CASE ReadBack(t)
  <2>1. at[t] = "after" /\ at'[t] = "write" /\ pc'[t] = pc[t] /\ mem' = mem
    BY <1>8, <1>11 DEF ReadBack, Is, GoTo
  <2>2. Aims(t)'
    BY <1>3, <1>11 DEF ReadBack, Aims
  <2>3. Holds(t)' /\ Instruction(t)' = Instruction(t)
    BY <1>3, <2>1, <2>2 DEF Holds, Instruction
  <2>4. SeenPc'[t] = SeenPc[t] /\ SeenMem' = SeenMem
    BY <1>3, <1>5, <1>9, <2>1, <2>3 DEF SeenBy
  <2>5. injections = {}
    BY <1>1, <1>3, <2>1 DEF IInv, FlagsInv, Aims
  <2>6. ~HasStruck /\ ~HasStruck'
    BY <1>2, <1>5, <2>1, <2>3, <2>5 DEF View
  <2>7. QED  BY <1>7, <2>4, <2>6, Unseen, <1>11 DEF After
<1>12. CASE RestoreRight(t)
  <2>1. /\ at[t] = "restore" /\ at'[t] = "before" /\ pc'[t] = pc[t] + 1
        /\ mem' = [mem EXCEPT ![Instruction(t).addr] = saved[Instruction(t).addr]]
        /\ injections' = injections
    BY <1>8, <1>12 DEF RestoreRight, Is, GoTo, Proceed
  <2>2. ~Holds(t)' /\ ~Is(t, "after")'
    BY <2>1 DEF Holds, Is
  <2>3. SeenPc'[t] = SeenPc[t]
    BY <1>5, <1>9, <2>1, <2>2 DEF SeenBy
  <2>4. SeenMem = [a \in Addrs |-> IF a = Instruction(t).addr THEN saved[a] ELSE mem[a]]
    BY <1>5, <1>9 DEF SeenBy
  <2>5. SeenMem' = mem'
    BY <1>2, <1>10, <2>2 DEF View
  <2>6. SeenMem' = SeenMem
    BY <1>8, <2>1, <2>4, <2>5
  <2>7. injections # {}
    BY <1>1, <1>3, <2>1 DEF SavedInv
  <2>8. HasStruck /\ HasStruck'
    <3>1. \A u \in Threads : ~(Holds(u) /\ at[u] = "write") /\ ~Holds(u)'
      BY <1>10, <2>1, <2>2
    <3>2. QED  BY <1>2, <2>1, <2>7, <3>1 DEF View
  <2>9. QED  BY <1>7, <2>3, <2>6, <2>8, Unseen, <1>12 DEF After
<1>13. QED  BY <1>11, <1>12

\* The specification of the misdirected write computes as the machine does.
LEMMA SameMachine ==
    /\ \A t, p, i, ins, rf, m : Ideal!Value(t, p, i, ins, rf, m) = Value(t, p, i, ins, rf, m)
    /\ \A t, p, ins, rf, m : Ideal!RegsAfter(t, p, ins, rf, m) = RegsAfter(t, p, ins, rf, m)
    /\ \A t, p, ins, rf, m : Ideal!MemAfter(t, p, ins, rf, m) = MemAfter(t, p, ins, rf, m)
    /\ Ideal!Regs = Regs /\ Ideal!Addrs = Addrs
    /\ Ideal!InitRegs = InitRegs /\ Ideal!InitMem = InitMem
    /\ Ideal!NoCode = NoCode /\ Ideal!Lost = Lost
<1>1. Ideal!Regs = Regs /\ Ideal!Addrs = Addrs
  BY DEF Ideal!Regs, Regs, Ideal!Addrs, Addrs
<1>2. ASSUME NEW t, NEW p, NEW i, NEW ins, NEW rf, NEW m
      PROVE  Ideal!Value(t, p, i, ins, rf, m) = Value(t, p, i, ins, rf, m)
  BY DEF Ideal!Value, Value
<1>3. ASSUME NEW t, NEW p, NEW ins, NEW rf, NEW m
      PROVE  Ideal!RegsAfter(t, p, ins, rf, m) = RegsAfter(t, p, ins, rf, m)
  BY <1>1, <1>2 DEF Ideal!RegsAfter, RegsAfter
<1>4. ASSUME NEW t, NEW p, NEW ins, NEW rf, NEW m
      PROVE  Ideal!MemAfter(t, p, ins, rf, m) = MemAfter(t, p, ins, rf, m)
  BY <1>2 DEF Ideal!MemAfter, MemAfter
<1>5. Ideal!InitRegs = InitRegs
  BY <1>1 DEF Ideal!InitRegs, InitRegs
<1>6. Ideal!InitMem = InitMem
  BY <1>1 DEF Ideal!InitMem, InitMem, Ideal!Memory, Memory
<1>7. Ideal!NoCode = NoCode /\ Ideal!Lost = Lost
  BY <1>1 DEF Ideal!NoCode, NoCode, Ideal!Lost, Lost
<1>8. QED  BY <1>1, <1>2, <1>3, <1>4, <1>5, <1>6, <1>7

\* The store happens, seen from the program, when the result is written to the wrong
\* address. (Where no bit was flipped, the right address is still restored to the old
\* value: the store is lost, as one to an address that is not mapped.)
LEMMA WriteIsStrike ==
    ASSUME RInv, RInv', NEW t \in Threads, WriteWrong(t)
    PROVE  Ideal!StrikeStore(t)
<1>1. IInv /\ SavedInv /\ IInv' /\ SavedInv'
  BY DEF RInv
<1>2. View /\ View'
  <2>1. (RInv => View)'
    BY Viewed, PTL
  <2>2. QED  BY <2>1, Viewed
<1>3. /\ InTarget /\ InTarget' /\ site' = site /\ site.igid = "STORE_OP" /\ Aims(t) /\ Aims(t)'
      /\ regs' = regs /\ code' = code /\ saved' = saved /\ pc' = pc
      /\ at[t] = "write" /\ at'[t] = "restore" /\ injections' = injections
      /\ mem' = [mem EXCEPT ![tmp.place] = tmp.value]
  BY <1>1 DEF WriteWrong, Is, IInv, StepsInv, PickedInv, TypeInv, GoTo, InTarget, Aims, hostVars,
              infoVars
<1>4. "STORE_OP" # "GPR"
  OBVIOUS
<1>5. /\ Holds(t) /\ Holds(t)' /\ \A u \in Threads : ~Parted(u) /\ ~Parted(u)'
      /\ \A u \in Threads : ~TakenAside(u) /\ ~TakenAside(u)'
  BY <1>3, <1>4 DEF Holds, Parted, TakenAside
<1>6. /\ pc \in [Threads -> Nat \ {0}] /\ mem = [a \in Addrs |-> mem[a]]
      /\ regs = [v \in Threads |-> [r \in Regs |-> regs[v][r]]]
  BY <1>1 DEF IInv, TypeInv, MachineInv
<1>7. SeenBy(t) /\ SeenBy(t)'
  BY <1>2 DEF View
<1>8. \A u \in Threads : u # t => /\ SeenRegs'[u] = SeenRegs[u] /\ SeenPc'[u] = SeenPc[u]
                                  /\ ~Holds(u) /\ ~Holds(u)'
  <2>1. ASSUME NEW u \in Threads, u # t
        PROVE  /\ SeenRegs'[u] = SeenRegs[u] /\ SeenPc'[u] = SeenPc[u]
               /\ ~Holds(u) /\ ~Holds(u)'
    <3>1. ~Holds(u)
      BY <1>3, <2>1 DEF Holds, Aims
    <3>2. QED  BY <2>1, <3>1, SeenElsewhere DEF After
  <2>2. QED  BY <2>1
<1>9. /\ Instruction(t) \in Instructions /\ Instruction(t).op = "store" /\ Instruction(t).runs
      /\ Instruction(t).dsts = <<>> /\ pc[t] \in 1..Len(code[t])
  <2>1. ~Finished(t) /\ phase = "kernel" /\ ~aborted
    BY <1>1, <1>3, AimedAt DEF InTarget
  <2>2. pc[t] \in DOMAIN code[t] /\ code[t] \in Seq(Instructions)
    BY <1>1, <2>1, InstructionType DEF IInv
  <2>3. QED  BY <1>1, <1>3, <2>2, AimedAt
<1>10. /\ SeenPc[t] = pc[t] /\ SeenPc'[t] = pc[t] + 1 /\ Ideal!At(t) = Instruction(t)
  BY <1>3, <1>5, <1>7 DEF SeenBy, Ideal!At, Instruction
<1>11. Ideal!Proceed(t)
  <2>1. SeenPc' = [SeenPc EXCEPT ![t] = @ + 1]
    BY <1>2, <1>8, <1>10 DEF View
  <2>2. QED  BY <1>3, <1>9, <1>10, <2>1 DEF Ideal!Proceed
<1>12. ~HasStruck /\ HasStruck'
  <2>1. ~HasStruck
    BY <1>2, <1>3, <1>5 DEF View
  <2>2. injections' # {}
    BY <1>1, <1>3 DEF SavedInv
  <2>3. \A u \in Threads : ~(Holds(u) /\ at[u] = "write")'
    BY <1>3, <1>8
  <2>4. QED  BY <1>2, <2>1, <2>2, <2>3 DEF View
<1>13. SeenRegs[t] = regs[t] /\ SeenRegs' = SeenRegs
  BY <1>2, <1>3, <1>5, <1>7, <1>8 DEF View, SeenBy
<1>14. SeenRegs' = [SeenRegs EXCEPT ![t] =
                      Ideal!RegsAfter(t, SeenPc[t], Ideal!At(t), SeenRegs[t], SeenMem)]
  <2>1. Ideal!RegsAfter(t, SeenPc[t], Ideal!At(t), SeenRegs[t], SeenMem)
          = [r \in Regs |-> regs[t][r]]
    BY <1>9, <1>10, <1>13, SameMachine, StoreEffect, SMTT(30)
  <2>2. QED  BY <1>2, <1>6, <1>13, <2>1 DEF View
<1> DEFINE value == Ideal!Value(t, SeenPc[t], 0, Ideal!At(t), SeenRegs[t], SeenMem)
<1>15. tmp.place \in Addrs /\ tmp.value = value
  <2>1. value = Value(t, pc[t], 0, Instruction(t), regs[t], SeenMem)
    BY <1>10, <1>13, SameMachine
  <2>2. value = Result(t)
    BY <1>9, <2>1, StoreResult DEF Result
  <2>3. QED  BY <1>1, <1>3, <2>2 DEF SavedInv
<1>16. /\ SeenMem = [a \in Addrs |-> IF a = Instruction(t).addr THEN saved[a] ELSE mem[a]]
       /\ SeenMem' = [a \in Addrs |-> IF a = Instruction(t).addr THEN saved[a] ELSE mem'[a]]
  <2>1. Instruction(t)' = Instruction(t)
    BY <1>3 DEF Instruction
  <2>2. QED  BY <1>3, <1>5, <1>7, <2>1 DEF SeenBy
<1> HIDE DEF value
<1>17. \E wrong \in Addrs \ {Instruction(t).addr} :
         SeenMem' \in {SeenMem, [SeenMem EXCEPT ![wrong] = value]}
  <2>1. CASE tmp.place # Instruction(t).addr
    <3>1. SeenMem' = [SeenMem EXCEPT ![tmp.place] = value]
      BY <1>3, <1>6, <1>15, <1>16, <2>1
    <3>2. QED  BY <1>15, <2>1, <3>1
  <2>2. CASE tmp.place = Instruction(t).addr
    <3>1. SeenMem' = SeenMem
      BY <1>3, <1>6, <1>15, <1>16, <2>2
    <3>2. {} \in Addrs /\ {0} \in Addrs /\ {} # {0}
      BY SeedsAssumption, WidthsAssumption DEF Addrs
    <3>3. QED  BY <3>1, <3>2
  <2>3. QED  BY <2>1, <2>2
<1>18. QED
  BY <1>9, <1>10, <1>11, <1>12, <1>14, <1>17, SameMachine DEF Ideal!StrikeStore, value

\* What an execution leaves alone, whoever executes.
LEMMA ExecuteFrame ==
    ASSUME RInv, RInv', NEW t \in Threads, Execute(t)
    PROVE  /\ View /\ View' /\ code' = code /\ pc' = pc /\ site' = site /\ saved' = saved
           /\ injections' = injections /\ tmp' = tmp
           /\ (InTarget' <=> InTarget) /\ (\A u : Aims(u)' <=> Aims(u))
           /\ at[t] = "execute" /\ at'[t] = "after" /\ Is(t, "after")'
           /\ ~Holds(t) /\ ~Parted(t)
           /\ Instruction(t) \in Instructions /\ Instruction(t)' = Instruction(t)
           /\ pc[t] \in 1..Len(code[t])
           /\ SeenPc[t] = pc[t] /\ Ideal!At(t) = Instruction(t)
           /\ regs[t] = [r \in Regs |-> regs[t][r]]
<1>1. IInv /\ SavedInv /\ IInv' /\ SavedInv'
  BY DEF RInv
<1>2. View /\ View'
  <2>1. (RInv => View)'
    BY Viewed, PTL
  <2>2. QED  BY <2>1, Viewed
<1>3. /\ code' = code /\ pc' = pc /\ site' = site /\ saved' = saved /\ injections' = injections
      /\ tmp' = tmp
      /\ (InTarget' <=> InTarget) /\ \A u : Aims(u)' <=> Aims(u)
  BY DEF Execute, hostVars, infoVars, InTarget, Aims
<1>4. at[t] = "execute" /\ at'[t] = "after" /\ ~Finished(t) /\ Is(t, "after")'
  BY <1>1, <1>3 DEF Execute, Is, GoTo, IInv, TypeInv, hostVars, Finished
<1>5. ~Holds(t) /\ ~Parted(t) /\ ~Is(t, "after")
  BY <1>4 DEF Holds, Parted, Is
<1>6. /\ Instruction(t) \in Instructions /\ Instruction(t)' = Instruction(t)
      /\ pc[t] \in 1..Len(code[t])
  <2>1. phase = "kernel" /\ ~aborted
    BY DEF Execute, Is
  <2>2. /\ code[t] \in Seq(Instructions) /\ pc[t] \in DOMAIN code[t]
        /\ Instruction(t) \in Instructions
    BY <1>1, <1>4, <2>1, InstructionType DEF IInv
  <2>3. QED  BY <1>3, <2>2 DEF Instruction
<1>7. SeenPc[t] = pc[t]
  BY <1>2, <1>5 DEF View, SeenBy
<1>8. Ideal!At(t) = Instruction(t)
  BY <1>7 DEF Ideal!At, Instruction
<1>9. regs[t] = [r \in Regs |-> regs[t][r]]
  <2>1. regs = [v \in Threads |-> [r \in Regs |-> regs[v][r]]]
    BY <1>1 DEF IInv, MachineInv
  <2>2. QED  BY <2>1
<1>10. QED  BY <1>2, <1>3, <1>4, <1>5, <1>6, <1>7, <1>8, <1>9

\* A store that is to be struck is not seen when it is executed...
LEMMA StoreUnseen ==
    ASSUME RInv, RInv', NEW t \in Threads, Execute(t), InTarget, Aims(t), site.igid = "STORE_OP"
    PROVE  UNCHANGED <<code, SeenPc, SeenRegs, SeenMem, HasStruck>>
<1>1. IInv /\ SavedInv /\ IInv' /\ SavedInv'
  BY DEF RInv
<1>2. /\ View /\ View' /\ code' = code /\ pc' = pc /\ site' = site /\ saved' = saved
      /\ injections' = injections /\ InTarget' /\ \A u : Aims(u)' <=> Aims(u)
      /\ at[t] = "execute" /\ at'[t] = "after"
      /\ Instruction(t) \in Instructions /\ Instruction(t)' = Instruction(t)
      /\ SeenPc[t] = pc[t] /\ regs[t] = [r \in Regs |-> regs[t][r]]
  BY ExecuteFrame
<1>3. /\ Instruction(t).op = "store" /\ Instruction(t).dsts = <<>> /\ Instruction(t).runs
      /\ Instruction(t).addr \in Addrs
  BY <1>1, <1>2, AimedAt DEF Instructions
<1>4. "STORE_OP" # "GPR"
  OBVIOUS
<1>5. /\ Holds(t)' /\ \A u \in Threads : ~Holds(u) /\ ~Parted(u) /\ ~Parted(u)'
      /\ \A u \in Threads : ~TakenAside(u) /\ ~TakenAside(u)'
  BY <1>2, <1>4 DEF Holds, Parted, TakenAside, Aims
<1>6. SeenBy(t) /\ SeenBy(t)'
  BY <1>2 DEF View
<1>7. regs'[t] = regs[t]
  <2>1. RegsAfter(t, pc[t], Instruction(t), regs[t], mem) = [r \in Regs |-> regs[t][r]]
    BY <1>3, StoreEffect
  <2>2. regs = [v \in Threads |-> regs[v]]
    BY <1>1 DEF IInv, MachineInv
  <2>3. QED  BY <1>2, <1>3, <2>1, <2>2 DEF Execute
<1>8. SeenRegs'[t] = SeenRegs[t]
  BY <1>5, <1>6, <1>7 DEF SeenBy
<1>9. SeenPc'[t] = SeenPc[t]
  BY <1>2, <1>5, <1>6 DEF SeenBy
<1>10. SeenMem' = SeenMem
  <2>1. SeenMem = mem
    BY <1>2, <1>5 DEF View
  <2>2. SeenMem' = [a \in Addrs |-> IF a = Instruction(t).addr THEN saved[a] ELSE mem'[a]]
    BY <1>2, <1>5, <1>6 DEF SeenBy
  <2>3. saved = [a \in {Instruction(t).addr} |-> mem[a]]
    <3>1. saved = Saved(Instruction(t), regs[t], mem)
      BY <1>1, <1>2 DEF SavedInv
    <3>2. QED  BY <1>4, <3>1 DEF Saved
  <2>4. mem = [a \in Addrs |-> mem[a]]
    BY <1>1 DEF IInv, MachineInv
  <2>5. mem' = MemAfter(t, pc[t], Instruction(t), regs[t], mem)
    BY <1>3 DEF Execute
  <2>6. \A a \in Addrs : a # Instruction(t).addr => mem'[a] = mem[a]
    BY <1>3, <2>4, <2>5 DEF MemAfter
  <2>7. SeenMem' = [a \in Addrs |-> mem[a]]
    BY <2>2, <2>3, <2>6
  <2>8. QED  BY <2>1, <2>4, <2>7
<1>11. ~HasStruck /\ ~HasStruck'
  <2>1. injections = {}
    BY <1>1, <1>2 DEF IInv, FlagsInv, Aims
  <2>2. QED  BY <1>2, <1>5, <2>1 DEF View
<1>12. QED  BY <1>8, <1>9, <1>10, <1>11, Unseen

\* ... while a register result that is to be struck is seen at once where it will be.
LEMMA ExecuteIsStrike ==
    ASSUME RInv, RInv', NEW t \in Threads, Execute(t), InTarget, Aims(t), site.igid = "GPR"
    PROVE  Ideal!StrikeRegister(t)
<1>1. IInv /\ SavedInv /\ IInv' /\ SavedInv'
  BY DEF RInv
<1>2. /\ View /\ View' /\ code' = code /\ pc' = pc /\ site' = site /\ saved' = saved
      /\ injections' = injections /\ InTarget' /\ \A u : Aims(u)' <=> Aims(u)
      /\ at[t] = "execute" /\ at'[t] = "after" /\ Is(t, "after")'
      /\ Instruction(t) \in Instructions /\ Instruction(t)' = Instruction(t)
      /\ pc[t] \in 1..Len(code[t]) /\ Ideal!At(t) = Instruction(t)
      /\ SeenPc[t] = pc[t] /\ regs[t] = [r \in Regs |-> regs[t][r]]
  BY ExecuteFrame
<1>3. Instruction(t).runs /\ site \in Sites
  BY <1>1, AimedAt
<1>4. "STORE_OP" # "GPR"
  OBVIOUS
<1>5. /\ \A u \in Threads : ~Holds(u) /\ ~Holds(u)' /\ ~Parted(u)
      /\ Parted(t)' /\ ~TakenAside(t) /\ ~TakenAside(t)'
  BY <1>2, <1>4 DEF Holds, Parted, TakenAside, Aims
<1>6. SeenBy(t) /\ SeenBy(t)'
  BY <1>2 DEF View
<1>7. PICK i \in DOMAIN Instruction(t).dsts : Instruction(t).dsts[i] = Right(t)
  BY <1>1, RightRegister
<1>8. Right(t) \in Regs /\ Wrong(t) # Right(t)
  BY <1>1, <1>3, RightRegister, WrongRegister
<1>9. \A u \in Threads : u # t => SeenRegs'[u] = SeenRegs[u] /\ SeenPc'[u] = SeenPc[u]
  BY SeenElsewhere
<1>10. Right(t)' = Right(t) /\ Wrong(t)' = Wrong(t)
  <2>1. Right(t)' = Right(t)
    BY <1>2 DEF Right, IntInjId
  <2>2. Flips("GPR")' = Flips("GPR")
    BY Zenon, <1>2 DEF Flips
  <2>3. QED  BY Zenon, <2>1, <2>2 DEF Wrong
<1> DEFINE result == RegsAfter(t, pc[t], Instruction(t), regs[t], mem)
<1>11. SeenRegs[t] = regs[t] /\ SeenMem = mem /\ SeenMem' = mem'
  BY <1>2, <1>5, <1>6 DEF View, SeenBy
<1>12. /\ regs'[t] = result /\ mem' = MemAfter(t, pc[t], Instruction(t), regs[t], mem)
  <2>1. regs = [v \in Threads |-> regs[v]]
    BY <1>1 DEF IInv, MachineInv
  <2>2. QED  BY <1>3, <2>1 DEF Execute
<1>13. saved[Right(t)] = regs[t][Right(t)]
  <2>1. saved = Saved(Instruction(t), regs[t], mem)
    BY <1>1, <1>2 DEF SavedInv
  <2>2. QED  BY <1>7, <2>1 DEF Saved
<1> HIDE DEF result
<1>14. SeenRegs'[t] = [r \in Regs |-> IF r = Wrong(t) THEN result[Right(t)]
                                      ELSE IF r = Right(t) THEN regs[t][r] ELSE result[r]]
  BY <1>2, <1>5, <1>6, <1>8, <1>10, <1>12, <1>13 DEF SeenBy
<1>15. PICK wrong \in (Regs \ {Right(t)}) \cup {Ideal!Nowhere} :
         \A r \in Regs : r = wrong <=> r = Wrong(t)
  <2>1. CASE Wrong(t) \in Regs
    BY <1>8, <2>1
  <2>2. CASE Wrong(t) \notin Regs
    <3>1. Ideal!Nowhere \notin Regs
      BY WidthsAssumption DEF Ideal!Nowhere, Regs
    <3>2. QED  BY <2>2, <3>1
  <2>3. QED  BY <2>1, <2>2
<1>16. SeenRegs' = [SeenRegs EXCEPT ![t] = [r \in Regs |->
                      IF r = wrong THEN result[Right(t)]
                      ELSE IF r = Right(t) THEN SeenRegs[t][r] ELSE result[r]]]
  <2>1. SeenRegs'[t] = [r \in Regs |-> IF r = wrong THEN result[Right(t)]
                                       ELSE IF r = Right(t) THEN SeenRegs[t][r] ELSE result[r]]
    BY <1>11, <1>14, <1>15
  <2>2. QED  BY <1>2, <1>9, <2>1 DEF View
<1>17. Ideal!RegsAfter(t, SeenPc[t], Ideal!At(t), SeenRegs[t], SeenMem) = result
  BY <1>2, <1>11, SameMachine DEF result
<1>18. SeenMem' = Ideal!MemAfter(t, SeenPc[t], Ideal!At(t), SeenRegs[t], SeenMem)
  BY <1>2, <1>11, <1>12, SameMachine
<1>19. Ideal!Proceed(t)
  <2>1. SeenPc'[t] = SeenPc[t] + 1
    BY <1>2, <1>5, <1>6 DEF SeenBy
  <2>2. SeenPc' = [SeenPc EXCEPT ![t] = @ + 1]
    BY <1>2, <1>9, <2>1 DEF View
  <2>3. QED  BY <1>2, <2>2 DEF Ideal!Proceed
<1>20. ~HasStruck /\ HasStruck'
  <2>1. injections = {}
    BY <1>1, <1>2 DEF IInv, FlagsInv, Aims
  <2>2. QED  BY <1>2, <1>5, <2>1 DEF View
<1>21. Ideal!Regs = Regs
  BY SameMachine
<1> DEFINE right == Ideal!At(t).dsts[i]
           computed == Ideal!RegsAfter(t, SeenPc[t], Ideal!At(t), SeenRegs[t], SeenMem)
<1>22. /\ i \in DOMAIN Ideal!At(t).dsts
       /\ wrong \in (Ideal!Regs \ {right}) \cup {Ideal!Nowhere}
       /\ SeenRegs' = [SeenRegs EXCEPT ![t] = [r \in Ideal!Regs |->
                         IF r = wrong THEN computed[right]
                         ELSE IF r = right THEN SeenRegs[t][r] ELSE computed[r]]]
  <2>1. right = Right(t) /\ i \in DOMAIN Ideal!At(t).dsts
    BY <1>2, <1>7
  <2>2. computed = result
    BY <1>17
  <2> HIDE DEF right, computed
  <2>3. QED  BY <1>15, <1>16, <1>21, <2>1, <2>2
<1>23. ~HasStruck /\ Ideal!Proceed(t) /\ Ideal!At(t).runs /\ HasStruck' = TRUE
  BY <1>2, <1>3, <1>19, <1>20
<1>24. QED  BY Zenon, <1>18, <1>22, <1>23 DEF Ideal!StrikeRegister

\* What an instruction computes depends on what it reads only.
LEMMA ValueOfReads ==
    ASSUME NEW t, NEW p, NEW i, NEW ins, NEW rf, NEW rg, NEW m, NEW n,
           \A r \in ins.srcs : rf[r] = rg[r], ins.op = "load" => m[ins.addr] = n[ins.addr]
    PROVE  Value(t, p, i, ins, rf, m) = Value(t, p, i, ins, rg, n)
<1>1. {<<r, rf[r]>> : r \in ins.srcs} = {<<r, rg[r]>> : r \in ins.srcs}
  OBVIOUS
<1> DEFINE read == IF ins.op = "load" THEN {ins.addr} ELSE {}
<1>2. \A a \in read : m[a] = n[a]
  OBVIOUS
<1> HIDE DEF read
<1>3. {<<a, m[a]>> : a \in read} = {<<a, n[a]>> : a \in read}
  BY <1>2
<1>4. QED  BY <1>1, <1>3 DEF Value, read

\* Every other execution computes from what is seen of registers and memory, and is
\* seen to write what it computes; a result taken aside is read by no instruction
\* before it is where it belongs.
LEMMA ExecuteIsExecute ==
    ASSUME RInv, RInv', NEW t \in Threads, Execute(t), ~(InTarget /\ Aims(t))
    PROVE  Ideal!Execute(t)
<1>1. IInv /\ SavedInv /\ IInv' /\ SavedInv' /\ PlaceInv
  BY DEF RInv
<1>2. /\ View /\ View' /\ code' = code /\ pc' = pc /\ site' = site /\ saved' = saved
      /\ injections' = injections /\ (InTarget' <=> InTarget) /\ (\A u : Aims(u)' <=> Aims(u))
      /\ at[t] = "execute" /\ at'[t] = "after" /\ Is(t, "after")' /\ ~Holds(t) /\ ~Parted(t)
      /\ Instruction(t) \in Instructions /\ Instruction(t)' = Instruction(t)
      /\ pc[t] \in 1..Len(code[t]) /\ Ideal!At(t) = Instruction(t)
      /\ SeenPc[t] = pc[t] /\ regs[t] = [r \in Regs |-> regs[t][r]] /\ tmp' = tmp
  BY ExecuteFrame
<1>3. ~Holds(t)' /\ ~Parted(t)'
  BY <1>2 DEF Holds, Parted
<1>4. SeenBy(t) /\ SeenBy(t)'
  BY <1>2 DEF View
<1>5. \A u \in Threads : u # t => SeenRegs'[u] = SeenRegs[u] /\ SeenPc'[u] = SeenPc[u]
  BY SeenElsewhere
<1> DEFINE ins == Instruction(t)
           p == pc[t]
<1>6. /\ HasStruck' <=> HasStruck
      /\ mem' = mem => SeenMem' = SeenMem
      /\ \/ SeenMem = mem /\ SeenMem' = mem'
         \/ \E u \in Threads \ {t} :
               /\ InTarget /\ site.igid = "STORE_OP" /\ Aims(u) /\ site' = site
               /\ SeenMem = [a \in Addrs |-> IF a = Instruction(u).addr THEN saved[a] ELSE mem[a]]
               /\ SeenMem' = [a \in Addrs |-> IF a = Instruction(u).addr THEN saved[a] ELSE mem'[a]]
  BY <1>2, <1>3, Aloof
<1>7. ~Finished(t)
  BY DEF Execute, Is
<1>8. /\ SeenRegs[t] = [r \in Regs |-> IF TakenAside(t) /\ r = tmp.place THEN tmp.value ELSE regs[t][r]]
      /\ SeenRegs'[t] = [r \in Regs |->
           IF TakenAside(t)' /\ r = tmp.place THEN tmp.value ELSE regs'[t][r]]
  BY <1>2, <1>3, <1>4 DEF SeenBy
<1>9. TakenAside(t)' <=> TakenAside(t) /\ ~errorInjected
  BY <1>2 DEF TakenAside, Execute, hostVars, infoVars
<1>10. ASSUME TakenAside(t)
       PROVE  /\ ~errorInjected /\ ins.runs => ~Reads(t) /\ ~Writes(t)
              /\ errorInjected => /\ ins.runs /\ (Reads(t) \/ Writes(t))
                                  /\ (Reads(t) => regs[t][tmp.place] = tmp.value)
  BY <1>1, <1>2, <1>7, <1>10 DEF TakenAside, PlaceInv, InTarget
<1>11. ins.srcs \subseteq Regs /\ ins.addr \in Addrs /\ ins.op \in {"alu", "load", "store"}
  BY <1>2 DEF Instructions
\* What it reads.
<1>12. ASSUME ins.runs, NEW r \in ins.srcs PROVE SeenRegs[t][r] = regs[t][r]
  BY <1>8, <1>10, <1>11, <1>12 DEF Reads
<1>13. ASSUME ins.op # "alu"
       PROVE  /\ SeenMem[ins.addr] = mem[ins.addr]
              /\ mem' = [mem EXCEPT ![ins.addr] = mem'[ins.addr]] =>
                   SeenMem' = [SeenMem EXCEPT ![ins.addr] = mem'[ins.addr]]
  <2>1. CASE SeenMem = mem /\ SeenMem' = mem'
    BY <2>1
  <2>2. ASSUME NEW u \in Threads \ {t}, InTarget, site.igid = "STORE_OP", Aims(u),
               SeenMem = [a \in Addrs |-> IF a = Instruction(u).addr THEN saved[a] ELSE mem[a]],
               SeenMem' = [a \in Addrs |-> IF a = Instruction(u).addr THEN saved[a] ELSE mem'[a]]
        PROVE  /\ SeenMem[ins.addr] = mem[ins.addr]
               /\ mem' = [mem EXCEPT ![ins.addr] = mem'[ins.addr]] =>
                    SeenMem' = [SeenMem EXCEPT ![ins.addr] = mem'[ins.addr]]
    <3>1. ins.addr # Instruction(u).addr
      BY <1>1, <1>7, <1>13, <2>2, AimedAt
    <3>2. mem = [a \in Addrs |-> mem[a]]
      BY <1>1 DEF IInv, MachineInv
    <3> HIDE DEF ins
    <3>3. QED  BY <1>11, <2>2, <3>1, <3>2
  <2>3. QED  BY <1>6, <2>1, <2>2
<1>14. SeenRegs' = [SeenRegs EXCEPT ![t] = SeenRegs'[t]]
  BY <1>2, <1>5 DEF View
<1>15. Ideal!Proceed(t)
  <2>1. SeenPc'[t] = SeenPc[t] + 1
    BY <1>2, <1>3, <1>4 DEF SeenBy
  <2>2. SeenPc' = [SeenPc EXCEPT ![t] = @ + 1]
    BY <1>2, <1>5, <2>1 DEF View
  <2>3. QED  BY <1>2, <2>2 DEF Ideal!Proceed
<1>16. HasStruck' = HasStruck
  BY <1>6 DEF HasStruck
<1>17. CASE ins.runs
  <2>1. \A i : Value(t, p, i, ins, regs[t], mem) = Value(t, p, i, ins, SeenRegs[t], SeenMem)
    <3>1. ins.op = "load" => mem[ins.addr] = SeenMem[ins.addr]
      <4>1. ins.op = "load" => ins.op # "alu"
        OBVIOUS
      <4>2. QED  BY <1>13, <4>1
    <3>2. \A r \in ins.srcs : regs[t][r] = SeenRegs[t][r]
      BY <1>12, <1>17
    <3> HIDE DEF ins, p
    <3>3. QED  BY <3>1, <3>2, ValueOfReads
  <2>2. regs'[t] = RegsAfter(t, p, ins, regs[t], mem) /\ mem' = MemAfter(t, p, ins, regs[t], mem)
    <3>1. regs = [v \in Threads |-> regs[v]]
      BY <1>1 DEF IInv, MachineInv
    <3>2. QED  BY <1>17, <3>1 DEF Execute
  <2> DEFINE Hit(r) == \E i \in DOMAIN ins.dsts : ins.dsts[i] = r
             First(r) == CHOOSE i \in DOMAIN ins.dsts : ins.dsts[i] = r
  <2>3. \A rf, m : RegsAfter(t, p, ins, rf, m) =
          [r \in Regs |-> IF Hit(r) THEN Value(t, p, First(r), ins, rf, m) ELSE rf[r]]
    BY DEF RegsAfter
  <2>4. (Writes(t) <=> Hit(tmp.place)) /\ (Reads(t) <=> tmp.place \in ins.srcs)
    BY DEF Writes, Reads
  <2> HIDE DEF Hit, First, ins, p
  <2>5. \A r \in Regs : SeenRegs'[t][r] =
          IF Hit(r) THEN Value(t, p, First(r), ins, SeenRegs[t], SeenMem) ELSE SeenRegs[t][r]
    <3> SUFFICES ASSUME NEW r \in Regs
                 PROVE  SeenRegs'[t][r] =
                          IF Hit(r) THEN Value(t, p, First(r), ins, SeenRegs[t], SeenMem)
                          ELSE SeenRegs[t][r]
      OBVIOUS
    <3>1. regs'[t][r] = IF Hit(r) THEN Value(t, p, First(r), ins, SeenRegs[t], SeenMem)
                        ELSE regs[t][r]
      BY <2>1, <2>2, <2>3
    <3>2. CASE TakenAside(t) /\ r = tmp.place
      BY <1>8, <1>9, <1>10, <1>17, <2>4, <3>1, <3>2
    <3>3. CASE ~(TakenAside(t) /\ r = tmp.place)
      BY <1>8, <1>9, <3>1, <3>3
    <3>4. QED  BY <3>2, <3>3
  <2>6. SeenRegs'[t] = RegsAfter(t, p, ins, SeenRegs[t], SeenMem)
    <3>1. SeenRegs'[t] = [r \in Regs |-> SeenRegs'[t][r]]
      BY <1>8
    <3>2. QED  BY <2>3, <2>5, <3>1
  <2>7. SeenMem' = MemAfter(t, p, ins, SeenRegs[t], SeenMem)
    <3>1. CASE ins.op = "store"
      <4>1. mem' = [mem EXCEPT ![ins.addr] = Value(t, p, 0, ins, SeenRegs[t], SeenMem)]
        BY <2>1, <2>2, <3>1 DEF MemAfter
      <4>2. mem = [a \in Addrs |-> mem[a]]
        BY <1>1 DEF IInv, MachineInv
      <4>3. /\ mem'[ins.addr] = Value(t, p, 0, ins, SeenRegs[t], SeenMem)
            /\ mem' = [mem EXCEPT ![ins.addr] = mem'[ins.addr]]
        BY <1>11, <4>1, <4>2
      <4>4. ins.op # "alu"
        BY <3>1
      <4>5. SeenMem' = [SeenMem EXCEPT ![ins.addr] = mem'[ins.addr]]
        BY <1>13, <4>3, <4>4
      <4>6. QED  BY <3>1, <4>3, <4>5 DEF MemAfter
    <3>2. CASE ins.op # "store"
      BY <1>6, <2>2, <3>2 DEF MemAfter
    <3>3. QED  BY <3>1, <3>2
  <2>8. /\ SeenRegs' = [SeenRegs EXCEPT ![t] =
                          Ideal!RegsAfter(t, SeenPc[t], Ideal!At(t), SeenRegs[t], SeenMem)]
        /\ SeenMem' = Ideal!MemAfter(t, SeenPc[t], Ideal!At(t), SeenRegs[t], SeenMem)
    BY <1>2, <1>14, <2>6, <2>7, SameMachine DEF ins, p
  <2>9. QED  BY <1>2, <1>15, <1>16, <1>17, <2>8 DEF Ideal!Execute, ins
<1>18. CASE ~ins.runs
  <2>1. regs' = regs /\ mem' = mem
    BY <1>18 DEF Execute
  <2>2. SeenRegs'[t] = SeenRegs[t]
    BY <1>8, <1>9, <1>10, <1>18, <2>1
  <2>3. SeenRegs' = SeenRegs
    BY <1>2, <1>5, <2>2 DEF View
  <2>4. SeenMem' = SeenMem
    BY <1>6, <2>1
  <2>5. QED  BY <1>2, <1>15, <1>16, <1>18, <2>3, <2>4 DEF Ideal!Execute
<1>19. QED  BY <1>17, <1>18

\* A launch starts the ideal machine, its end or the death of a kernel stops it, and a
\* device reset clears its memory; nothing is under way on either side of these steps.
LEMMA HostStepIdeal ==
    ASSUME RInv, RInv', LaunchKernel \/ ExitKernel \/ Reset \/ Exit \/ DeviceFault
    PROVE  \/ Ideal!Launch \/ Ideal!End \/ Ideal!Kill \/ Ideal!Wipe
           \/ UNCHANGED <<code, SeenPc, SeenRegs, SeenMem, HasStruck>>
<1>1. IInv /\ IInv'
  BY DEF RInv
<1>2. View /\ View'
  <2>1. (RInv => View)'
    BY Viewed, PTL
  <2>2. QED  BY <2>1, Viewed
<1>3. /\ pc' = [t \in Threads |-> 1] /\ at' = [t \in Threads |-> "before"] /\ regs' = InitRegs
      /\ injections' = injections
  <2>1. CASE LaunchKernel \/ ExitKernel \/ DeviceFault
    BY <2>1 DEF LaunchKernel, ExitKernel, DeviceFault, NoKernel, StartThreads
  <2>2. CASE Reset \/ Exit
    BY <1>1, <2>2 DEF Reset, ResetDevice, NextCallIs, Exit, ReturnFromMain, machineVars, IInv,
                      MachineInv
  <2>3. QED  BY <2>1, <2>2
<1>4. \A t \in Threads : ~Holds(t)' /\ ~Parted(t)' /\ ~TakenAside(t)' /\ ~Is(t, "after")'
  BY <1>1, <1>3, HostStepAims DEF Holds, Parted, TakenAside, Aims, InTarget, Is
<1>5. /\ SeenPc' = [t \in Threads |-> 1] /\ SeenRegs' = InitRegs /\ SeenMem' = mem'
      /\ HasStruck' <=> injections' # {}
  <2>1. \A t \in Threads : SeenBy(t)'
    BY <1>2 DEF View
  <2>2. \A t \in Threads : SeenPc'[t] = 1 /\ SeenRegs'[t] = InitRegs[t]
    BY <1>3, <1>4, <2>1 DEF SeenBy
  <2>3. InitRegs = [t \in Threads |-> InitRegs[t]]
    BY DEF InitRegs
  <2>4. QED  BY <1>2, <1>4, <2>2, <2>3 DEF View
\* Before the step, unless it kills a kernel.
<1>6. ASSUME \A t \in Threads : phase # "kernel" \/ aborted \/ Finished(t)
      PROVE  /\ SeenMem = mem /\ SeenPc = pc /\ (HasStruck <=> injections # {})
             /\ HasStruck' = HasStruck
             /\ phase # "kernel" \/ aborted => SeenRegs = regs
  <2>1. \A t \in Threads : ~Holds(t) /\ ~Parted(t) /\ ~Is(t, "after")
    BY <1>1, <1>6, AimedAt DEF Holds, Parted, Is, InTarget
  <2>2. \A t \in Threads : SeenBy(t)
    BY <1>2 DEF View
  <2>3. pc = [t \in Threads |-> pc[t]] /\ regs = [t \in Threads |-> regs[t]]
    BY <1>1 DEF IInv, TypeInv, MachineInv
  <2>4. SeenPc = pc
    BY <1>2, <2>1, <2>2, <2>3 DEF View, SeenBy
  <2>5. phase # "kernel" \/ aborted => SeenRegs = regs
    <3>1. phase # "kernel" \/ aborted => \A t \in Threads : ~TakenAside(t)
      BY DEF TakenAside
    <3>2. QED  BY <1>2, <2>1, <2>2, <2>3, <3>1 DEF View, SeenBy
  <2>6. HasStruck <=> injections # {}
    BY <1>2, <2>1 DEF View
  <2>7. HasStruck' = HasStruck
    BY <1>3, <1>5, <2>6 DEF HasStruck
  <2>8. QED  BY <1>2, <2>1, <2>4, <2>5, <2>6, <2>7 DEF View
<1>7. Ideal!Fresh
  BY <1>5, SameMachine DEF Ideal!Fresh
\* The machine is idle outside kernels.
<1>8. phase # "kernel" \/ aborted =>
        /\ code = NoCode /\ SeenRegs = InitRegs /\ SeenPc = [t \in Threads |-> 1]
        /\ SeenMem = mem /\ HasStruck' = HasStruck
  BY <1>1, <1>6 DEF IInv, MachineInv
<1>9. CASE LaunchKernel
  <2>1. phase = "host" /\ mem' = mem
    BY <1>9 DEF LaunchKernel, EnterLaunch, NextCallIs
  <2>2. CASE aborted
    <3>1. code' = NoCode
      BY <1>9, <2>2 DEF LaunchKernel, NoKernel
    <3>2. QED  BY <1>5, <1>8, <2>1, <3>1
  <2>3. CASE ~aborted
    <3>1. code' \in Grids
      <4>1. phase' = "kernel" /\ ~aborted'
        BY <1>9, <2>3 DEF LaunchKernel, EnterLaunch
      <4>2. code' = app[hpc].grid
        BY <1>9, <2>3 DEF LaunchKernel
      <4>3. hpc \in 1..Len(app) /\ app[hpc].op = "launch"
        BY <1>1, <1>9, CallType DEF LaunchKernel, EnterLaunch, NextCallIs, IInv, HostInv, HostTypeOK
      <4>4. QED  BY <1>1, <4>2, <4>3, CallType DEF IInv, HostInv
    <3>2. QED  BY <1>5, <1>7, <1>8, <2>1, <3>1, SameMachine DEF Ideal!Launch
  <2>4. QED  BY <2>2, <2>3
<1>10. CASE ExitKernel
  <2>1. /\ \A t \in Threads : Finished(t)
        /\ code' = NoCode /\ mem' = mem
    BY <1>10 DEF ExitKernel, NoKernel
  <2>2. \A t \in Threads : SeenPc[t] > Len(code[t])
    BY <1>6, <2>1 DEF Finished
  <2>3. SeenMem' = SeenMem /\ HasStruck' = HasStruck
    BY <1>5, <1>6, <2>1
  <2>4. QED  BY <1>7, <2>1, <2>2, <2>3, SameMachine DEF Ideal!End
<1>11. CASE Reset
  <2>1. phase = "host" /\ mem' = InitMem /\ code' = code
    BY <1>11 DEF Reset, ResetDevice, NextCallIs
  <2>2. QED  BY <1>5, <1>8, <2>1, SameMachine DEF Ideal!Wipe
<1>12. CASE Exit
  <2>1. phase = "host" /\ mem' = mem /\ code' = code
    BY <1>12 DEF Exit, ReturnFromMain, machineVars
  <2>2. QED  BY <1>5, <1>8, <2>1
<1>13. CASE DeviceFault
  <2>1. code' = NoCode /\ mem' = Lost /\ injections # {}
    BY <1>13 DEF DeviceFault, NoKernel
  <2>2. HasStruck' = TRUE
    BY <1>3, <1>5, <2>1
  <2>3. QED  BY <1>5, <1>7, <2>1, <2>2, SameMachine DEF Ideal!Kill
<1>14. QED  BY <1>9, <1>10, <1>11, <1>12, <1>13

\* A program run under the handlers computes, in every register and memory word and
\* under every interleaving, what it would compute if one instruction wrote its result
\* to a wrong place: the several steps of the handlers are seen as one write.
THEOREM HandlersMisdirect == Spec => ImplementsMisdirection
<1>1. Init => Ideal!Init
  <2> SUFFICES ASSUME Init PROVE Ideal!Init
    OBVIOUS
  <2>1. phase = "host" /\ \A t \in Threads : \A step : ~Is(t, step)
    BY DEF Init, HostInit, Is
  <2>2. \A t \in Threads : ~Written(t) /\ ~Stored(t) /\ ~TakenAside(t)
    BY <2>1 DEF Written, Stored, TakenAside
  <2>3. SeenRegs = InitRegs
    <3>1. SeenRegs = [t \in Threads |-> [r \in Regs |-> regs[t][r]]]
      BY <2>2 DEF SeenRegs
    <3>2. QED  BY <3>1 DEF Init, InitRegs
  <2>4. SeenMem = InitMem
    <3>1. SeenMem = [a \in Addrs |-> mem[a]]
      BY <2>1, <2>2 DEF SeenMem
    <3>2. QED  BY <3>1 DEF Init, InitMem
  <2>5. SeenPc = [t \in Threads |-> 1]
    BY <2>1 DEF SeenPc, Init
  <2>6. HasStruck = FALSE
    BY <2>2 DEF HasStruck, Init
  <2>7. QED  BY <2>3, <2>4, <2>5, <2>6, SameMachine DEF Init, Ideal!Init
<1>2. RInv /\ RInv' /\ [Next]_vars => [Ideal!Next]_<<code, SeenPc, SeenRegs, SeenMem, HasStruck>>
  <2> SUFFICES ASSUME RInv, RInv', [Next]_vars
               PROVE  [Ideal!Next]_<<code, SeenPc, SeenRegs, SeenMem, HasStruck>>
    OBVIOUS
  <2>1. CASE LaunchKernel \/ ExitKernel \/ Reset \/ Exit \/ DeviceFault
    BY <2>1, HostStepIdeal DEF Ideal!Next
  <2>2. ASSUME NEW t \in Threads, Before(t)
        PROVE  UNCHANGED <<code, SeenPc, SeenRegs, SeenMem, HasStruck>>
    BY <2>2, QuietStep
  <2>3. ASSUME NEW t \in Threads, Execute(t)
        PROVE  \/ Ideal!Execute(t) \/ Ideal!StrikeRegister(t)
               \/ UNCHANGED <<code, SeenPc, SeenRegs, SeenMem, HasStruck>>
    <3>1. CASE ~(InTarget /\ Aims(t))
      BY <2>3, <3>1, ExecuteIsExecute
    <3>2. CASE InTarget /\ Aims(t) /\ site.igid = "GPR"
      BY <2>3, <3>2, ExecuteIsStrike
    <3>3. CASE InTarget /\ Aims(t) /\ site.igid = "STORE_OP"
      BY <2>3, <3>3, StoreUnseen
    <3>4. site.igid \in {"GPR", "STORE_OP"}
      BY SeedsAssumption DEF RInv, IInv, HostInv, HostTypeOK
    <3>5. QED  BY <3>1, <3>2, <3>3, <3>4
  <2>4. ASSUME NEW t \in Threads, After(t)
        PROVE  Ideal!StrikeStore(t) \/ UNCHANGED <<code, SeenPc, SeenRegs, SeenMem, HasStruck>>
    BY <2>4, MisdirectUnseen, StoreStepsUnseen, WriteIsStrike, QuietStep DEF After
  <2>5. CASE UNCHANGED vars
    <3>1. UNCHANGED <<hostVars, machineVars, infoVars, injections>>
      BY <2>5 DEF vars
    <3>2. \A t : /\ Written(t)' <=> Written(t)
                 /\ Stored(t)' <=> Stored(t)
                 /\ TakenAside(t)' <=> TakenAside(t)
                 /\ \A step : Is(t, step)' <=> Is(t, step)
      BY <3>1 DEF hostVars, machineVars, infoVars, Written, Stored, TakenAside, Is, Struck, Finished
    <3>3. \A t : Right(t)' = Right(t) /\ Wrong(t)' = Wrong(t)
      <4>1. site' = site /\ \A t : Instruction(t)' = Instruction(t)
        BY <3>1 DEF hostVars, machineVars, Instruction
      <4>2. \A t : Right(t)' = Right(t)
        BY <4>1 DEF Right, IntInjId
      <4>3. Flips("GPR")' = Flips("GPR")
        BY Zenon, <4>1 DEF Flips
      <4>4. QED  BY Zenon, <4>2, <4>3 DEF Wrong
    <3>4. SeenRegs' = SeenRegs
      BY <3>1, <3>2, <3>3 DEF machineVars, infoVars, SeenRegs
    <3>5. SeenMem' = SeenMem
      BY <3>1, <3>2 DEF machineVars, infoVars, SeenMem
    <3>6. SeenPc' = SeenPc
      BY <3>1, <3>2 DEF machineVars, SeenPc
    <3>7. HasStruck' = HasStruck
      <4>1. HasStruck' <=> HasStruck
        BY <3>1, <3>2 DEF HasStruck
      <4>2. QED  BY <4>1 DEF HasStruck
    <3>8. QED  BY <3>1, <3>4, <3>5, <3>6, <3>7 DEF machineVars
  <2>6. QED  BY <2>1, <2>2, <2>3, <2>4, <2>5 DEF Next, Step, Terminated, Ideal!Next
<1>3. QED
  BY <1>1, <1>2, AddressFakingInvariance, PTL DEF Spec, ImplementsMisdirection, Ideal!Spec, Ideal!vars

-----------------------------------------------------------------------------
(* The run under the profiler.                                             *)

\* The row of a launch.
RowOf(i) ==
    [kname |-> app[i].kname, kcount |-> Cardinality(LaunchesBefore(i, app[i].kname)),
     counts |-> [c \in Prof!Columns |-> Cardinality(Executions(i, c))]]

ProfTypeOK ==
    /\ app \in Apps
    /\ phpc \in 1..(Len(app) + 1)
    /\ pphase \in {"host", "kernel", "exited"} /\ pvalidData \in BOOLEAN
    /\ pphase = "kernel" => phpc <= Len(app) /\ app[phpc].op = "launch"
    /\ pphase = "exited" => phpc = Len(app) + 1
    /\ ppc \in [Threads -> Nat \ {0}]
    /\ todo \in [Threads -> Seq(Prof!Columns)]
    /\ counters \in [Prof!Columns -> Nat]
    /\ pknameCount \in [KNames -> Int]

\* knameCount is one less than the number of launches that have ended.
EndedInv ==
    pphase # "exited" => \A k \in KNames : pknameCount[k] = Cardinality(LaunchesBefore(phpc, k)) - 1

\* No element occurs twice.
Once(s) == \A m, n \in DOMAIN s : s[m] = s[n] => m = n

ProfStream(t) == app[phpc].grid[t]
Owed(t, c) == \E n \in DOMAIN todo[t] : todo[t][n] = c

\* What a handler has still to add is for the instruction before the thread's next.
TodoInv ==
    /\ pphase # "kernel" => \A t \in Threads : todo[t] = <<>>
    /\ pphase = "kernel" => \A t \in Threads :
          /\ ppc[t] <= Len(ProfStream(t)) + 1
          /\ todo[t] # <<>> => ppc[t] > 1
          /\ \A c \in Prof!Columns : Owed(t, c) => <<t, ppc[t] - 1>> \in Executions(phpc, c)
          /\ Once(todo[t])

\* The executions that have been added to a counter.
Added(c) ==
    {e \in Executions(phpc, c) :
        e[2] < ppc[e[1]] /\ ~(e[2] = ppc[e[1]] - 1 /\ Owed(e[1], c))}
AddedInv ==
    pphase = "kernel" =>
        \A c \in Prof!Columns : IsFiniteSet(Added(c)) /\ counters[c] = Cardinality(Added(c))

\* The file holds the rows of the launches after call s, the last reset that a launch
\* follows, up to e, the last launch that has ended.
FileIs(s, e) ==
    /\ s <= e /\ (s = 0 \/ app[s].op = "reset")
    /\ \A j \in (s + 1)..e : app[j].op = "launch"
    /\ \A j \in (e + 1)..(phpc - 1) : app[j].op = "reset"
    /\ e > s \/ e = 0 \/ pphase = "kernel"
    /\ pphase = "kernel" \/ pvalidData => e = phpc - 1
    /\ ~pvalidData => pphase # "kernel" /\ (phpc = 1 \/ app[phpc - 1].op = "reset")
    /\ file = [n \in 1..(e - s) |-> RowOf(s + n)]
FileInv == \E s, e \in 0..(phpc - 1) : FileIs(s, e)

ProfInv == ProfTypeOK /\ EndedInv /\ TodoInv /\ AddedInv /\ FileInv

LEMMA ProfCalls ==
    ASSUME app \in Apps
    PROVE  /\ app \in Seq(Launches \cup Resets) /\ Len(app) \in Nat
           /\ DOMAIN app = 1..Len(app)
           /\ \A i \in 1..Len(app) : /\ app[i].op \in {"launch", "reset"}
                                     /\ app[i].op = "launch" =>
                                           /\ app[i].kname \in KNames
                                           /\ app[i].grid \in [Threads -> Seq(Instructions)]
<1>1. app \in Seq(Launches \cup Resets)
  BY AppsAssumption
<1>2. \A i \in 1..Len(app) : app[i] \in Launches \cup Resets
  BY <1>1
<1>3. ASSUME NEW i \in 1..Len(app)
      PROVE  /\ app[i].op \in {"launch", "reset"}
             /\ app[i].op = "launch" => app[i].kname \in KNames /\ app[i].grid \in Grids
  BY <1>2 DEF Launches, Resets
<1>4. QED
  BY <1>1, <1>3, GridsAssumption

LEMMA ConcatOnce ==
    ASSUME NEW S, NEW s \in Seq(S), NEW t \in Seq(S), Once(s), Once(t),
           \A m \in DOMAIN s, n \in DOMAIN t : s[m] # t[n]
    PROVE  /\ s \o t \in Seq(S) /\ Len(s \o t) = Len(s) + Len(t) /\ Once(s \o t)
           /\ \A k \in DOMAIN (s \o t) : \/ \E m \in DOMAIN s : (s \o t)[k] = s[m]
                                         \/ \E n \in DOMAIN t : (s \o t)[k] = t[n]
<1> DEFINE q == s \o t
<1>1. /\ q \in Seq(S) /\ Len(q) = Len(s) + Len(t)
      /\ \A i \in 1..(Len(s) + Len(t)) : q[i] = IF i <= Len(s) THEN s[i] ELSE t[i - Len(s)]
  BY ConcatProperties
<1>2. /\ Len(s) \in Nat /\ DOMAIN s = 1..Len(s)
      /\ Len(t) \in Nat /\ DOMAIN t = 1..Len(t)
  OBVIOUS
<1> HIDE DEF q
<1>3. DOMAIN q = 1..(Len(s) + Len(t))
  BY <1>1
<1>4. ASSUME NEW i \in DOMAIN q
      PROVE  \/ i \in DOMAIN s /\ q[i] = s[i]
             \/ i - Len(s) \in DOMAIN t /\ q[i] = t[i - Len(s)]
  BY <1>1, <1>2, <1>3
<1>5. Once(q)
  <2> SUFFICES ASSUME NEW i \in DOMAIN q, NEW j \in DOMAIN q, q[i] = q[j] PROVE i = j
    BY DEF Once
  <2>1. CASE i \in DOMAIN s /\ q[i] = s[i] /\ j \in DOMAIN s /\ q[j] = s[j]
    BY <2>1 DEF Once
  <2>2. CASE /\ i - Len(s) \in DOMAIN t /\ q[i] = t[i - Len(s)]
             /\ j - Len(s) \in DOMAIN t /\ q[j] = t[j - Len(s)]
    <3>1. i - Len(s) = j - Len(s)
      BY <2>2 DEF Once
    <3>2. QED
      BY <1>2, <1>3, <3>1
  <2>3. QED
    BY <1>4, <2>1, <2>2
<1>6. QED
  BY <1>1, <1>4, <1>5 DEF q

\* The handler adds to each counter at most once.
LEMMA CountedOnce ==
    ASSUME NEW ins \in Instructions
    PROVE  /\ Prof!CountedAs(ins) \in Seq(Prof!Columns) /\ Prof!CountedAs(ins) # <<>>
           /\ Once(Prof!CountedAs(ins))
<1> DEFINE last == IF ins.op = "load" THEN "LD_OP" ELSE "MISC_OP"
<1>1. last \in {"LD_OP", "MISC_OP"}
  OBVIOUS
<1>2. CASE ~ins.runs
  BY <1>2 DEF Prof!CountedAs, Prof!Columns, Once
<1>3. CASE ins.runs
  <2> DEFINE g == IF Prof!InGroup(ins, "GPR") THEN <<"GPR">> ELSE <<>>
             s == IF Prof!InGroup(ins, "STORE_OP") THEN <<"STORE_OP">> ELSE <<>>
             l == <<last>>
  <2>1. Prof!CountedAs(ins) = g \o s \o l
    BY <1>3 DEF Prof!CountedAs
  <2>2. /\ g \in Seq(Prof!Columns) /\ Once(g) /\ \A m \in DOMAIN g : g[m] = "GPR"
        /\ s \in Seq(Prof!Columns) /\ Once(s) /\ \A m \in DOMAIN s : s[m] = "STORE_OP"
        /\ l \in Seq(Prof!Columns) /\ Once(l) /\ Len(l) = 1
        /\ \A m \in DOMAIN l : l[m] \in {"LD_OP", "MISC_OP"}
    <3>1. ASSUME NEW x \in Prof!Columns
          PROVE  /\ <<x>> \in Seq(Prof!Columns) /\ Once(<<x>>) /\ Len(<<x>>) = 1
                 /\ \A m \in DOMAIN <<x>> : <<x>>[m] = x
      BY DEF Once
    <3>2. <<>> \in Seq(Prof!Columns) /\ Once(<<>>) /\ \A m \in DOMAIN <<>> : FALSE
      BY DEF Once
    <3>3. "GPR" \in Prof!Columns /\ "STORE_OP" \in Prof!Columns /\ last \in Prof!Columns
      BY DEF Prof!Columns
    <3> HIDE DEF last
    <3>4. /\ g \in Seq(Prof!Columns) /\ Once(g) /\ \A m \in DOMAIN g : g[m] = "GPR"
      BY <3>1, <3>2, <3>3
    <3>5. /\ s \in Seq(Prof!Columns) /\ Once(s) /\ \A m \in DOMAIN s : s[m] = "STORE_OP"
      BY <3>1, <3>2, <3>3
    <3>6. /\ l \in Seq(Prof!Columns) /\ Once(l) /\ Len(l) = 1
          /\ \A m \in DOMAIN l : l[m] \in {"LD_OP", "MISC_OP"}
      BY <1>1, <3>1, <3>3
    <3>7. QED
      BY <3>4, <3>5, <3>6
  <2> HIDE DEF g, s, l
  <2>3. /\ g \o s \in Seq(Prof!Columns) /\ Once(g \o s)
        /\ \A k \in DOMAIN (g \o s) : (g \o s)[k] \in {"GPR", "STORE_OP"}
    BY <2>2, ConcatOnce
  <2>4. /\ (g \o s) \o l \in Seq(Prof!Columns) /\ Once((g \o s) \o l)
        /\ Len((g \o s) \o l) = Len(g \o s) + Len(l)
    <3>1. PICK q : q = g \o s
      OBVIOUS
    <3>2. q \in Seq(Prof!Columns) /\ Once(q) /\ \A k \in DOMAIN q : q[k] \in {"GPR", "STORE_OP"}
      BY <2>3, <3>1
    <3>3. \A m \in DOMAIN q, n \in DOMAIN l : q[m] # l[n]
      BY <2>2, <3>2
    <3>4. q \o l \in Seq(Prof!Columns) /\ Once(q \o l) /\ Len(q \o l) = Len(q) + Len(l)
      <4>1. l \in Seq(Prof!Columns) /\ Once(l)
        BY <2>2
      <4>2. q \in Seq(Prof!Columns) /\ Once(q)
        BY <3>2
      <4>3. QED
        BY <3>3, <4>1, <4>2, ConcatOnce
    <3>5. QED
      BY <3>1, <3>4
  <2>5. Len(g \o s) \in Nat
    BY <2>3
  <2>6. Len((g \o s) \o l) # 0
    BY <2>2, <2>4, <2>5
  <2>7. QED
    BY <2>1, <2>4, <2>6
<1>4. QED
  BY <1>2, <1>3

LEMMA ExecutionsAre ==
    ASSUME NEW i, NEW c
    PROVE  \A e : e \in Executions(i, c) <=>
                    /\ e = <<e[1], e[2]>> /\ e[1] \in Threads /\ e[2] \in DOMAIN app[i].grid[e[1]]
                    /\ \E n \in DOMAIN Prof!CountedAs(app[i].grid[e[1]][e[2]]) :
                          Prof!CountedAs(app[i].grid[e[1]][e[2]])[n] = c
<1> DEFINE All == UNION {{t} \X DOMAIN app[i].grid[t] : t \in Threads}
<1>1. ASSUME NEW e
      PROVE  e \in All <=> /\ e = <<e[1], e[2]>> /\ e[1] \in Threads
                           /\ e[2] \in DOMAIN app[i].grid[e[1]]
  <2>1. ASSUME e \in All
        PROVE  e = <<e[1], e[2]>> /\ e[1] \in Threads /\ e[2] \in DOMAIN app[i].grid[e[1]]
    <3>1. PICK t \in Threads : e \in {t} \X DOMAIN app[i].grid[t]
      BY <2>1
    <3>2. e = <<e[1], e[2]>> /\ e[1] = t /\ e[2] \in DOMAIN app[i].grid[t]
      BY <3>1
    <3>3. QED
      BY <3>2
  <2>2. ASSUME e = <<e[1], e[2]>>, e[1] \in Threads, e[2] \in DOMAIN app[i].grid[e[1]]
        PROVE  e \in All
    <3>1. e \in {e[1]} \X DOMAIN app[i].grid[e[1]]
      BY <2>2
    <3>2. QED
      BY <2>2, <3>1
  <2>3. QED
    BY <2>1, <2>2
<1> HIDE DEF All
<1>2. Executions(i, c) = {e \in All :
        \E n \in DOMAIN Prof!CountedAs(app[i].grid[e[1]][e[2]]) :
            Prof!CountedAs(app[i].grid[e[1]][e[2]])[n] = c}
  BY DEF Executions, All
<1>3. QED
  BY <1>1, <1>2

LEMMA ExecutionIs ==
    ASSUME NEW i, NEW c, NEW t \in Threads, NEW n
    PROVE  <<t, n>> \in Executions(i, c) <=>
              /\ n \in DOMAIN app[i].grid[t]
              /\ \E m \in DOMAIN Prof!CountedAs(app[i].grid[t][n]) :
                    Prof!CountedAs(app[i].grid[t][n])[m] = c
<1>1. PICK e : e = <<t, n>>
  OBVIOUS
<1>2. e[1] = t /\ e[2] = n /\ e = <<e[1], e[2]>>
  BY <1>1
<1>3. e \in Executions(i, c) <=>
              /\ e = <<e[1], e[2]>> /\ e[1] \in Threads /\ e[2] \in DOMAIN app[i].grid[e[1]]
              /\ \E m \in DOMAIN Prof!CountedAs(app[i].grid[e[1]][e[2]]) :
                    Prof!CountedAs(app[i].grid[e[1]][e[2]])[m] = c
  BY ExecutionsAre, SMTT(30)
<1>4. QED
  BY <1>1, <1>2, <1>3

\* The rows of a program do not change.
LEMMA RowsOfApp ==
    ASSUME app' = app
    PROVE  /\ \A i, c : Executions(i, c)' = Executions(i, c)
           /\ \A i, k : LaunchesBefore(i, k)' = LaunchesBefore(i, k)
           /\ \A i : RowOf(i)' = RowOf(i)
<1>1. \A i, c : Executions(i, c)' = Executions(i, c)
  BY DEF Executions
<1>2. \A i, k : LaunchesBefore(i, k)' = LaunchesBefore(i, k)
  BY DEF LaunchesBefore
<1>3. QED
  BY <1>1, <1>2 DEF RowOf


\* Nor does what is said of the file, until it is written or the host goes on.
LEMMA FileSame ==
    ASSUME FileInv, UNCHANGED <<app, phpc, pphase, pvalidData, file>>
    PROVE  FileInv'
<1>1. PICK s \in 0..(phpc - 1), e \in 0..(phpc - 1) : FileIs(s, e)
  BY DEF FileInv
<1>2. \A i : RowOf(i)' = RowOf(i)
  BY RowsOfApp
<1>3. file' = [n \in 1..(e - s) |-> RowOf(s + n)']
  BY <1>1, <1>2 DEF FileIs
<1>4. FileIs(s, e)'
  BY <1>1, <1>3 DEF FileIs
<1>5. QED
  BY <1>4 DEF FileInv
-----------------------------------------------------------------------------
(* The steps of the profiled run.                                          *)

LEMMA ProfInit ==
    CampaignInit => ProfInv
<1> SUFFICES ASSUME CampaignInit PROVE ProfInv
  OBVIOUS
<1>1. /\ app \in Apps /\ phpc = 1 /\ pphase = "host" /\ pvalidData = FALSE
      /\ ppc = [t \in Threads |-> 1] /\ todo = [t \in Threads |-> <<>>]
      /\ counters = Prof!Zero /\ pknameCount = [k \in KNames |-> -1] /\ file = <<>>
  BY DEF CampaignInit, Init, HostInit, Prof!Init
<1>2. ProfTypeOK
  <2>1. <<>> \in Seq(Prof!Columns)
    OBVIOUS
  <2>2. phpc \in 1..(Len(app) + 1)
    BY <1>1, ProfCalls
  <2>3. counters \in [Prof!Columns -> Nat]
    BY <1>1 DEF Prof!Zero
  <2>4. ppc \in [Threads -> Nat \ {0}]
    BY <1>1
  <2>5. todo \in [Threads -> Seq(Prof!Columns)]
    BY <1>1, <2>1
  <2>6. pknameCount \in [KNames -> Int]
    BY <1>1
  <2>7. QED
    BY <1>1, <2>2, <2>3, <2>4, <2>5, <2>6 DEF ProfTypeOK
<1>3. EndedInv
  <2>1. \A k : LaunchesBefore(1, k) = {}
    BY DEF LaunchesBefore
  <2>2. Cardinality({}) = 0
    BY FS_EmptySet
  <2>3. ASSUME NEW k \in KNames
        PROVE  pknameCount[k] = Cardinality(LaunchesBefore(phpc, k)) - 1
    <3>1. pknameCount[k] = -1 /\ LaunchesBefore(phpc, k) = {}
      BY <1>1, <2>1
    <3>2. QED
      BY <2>2, <3>1
  <2>4. QED
    BY <2>3 DEF EndedInv
<1>4. TodoInv /\ AddedInv
  BY <1>1 DEF TodoInv, AddedInv
<1>5. FileInv
  <2>1. \A j \in (0 + 1)..0 : app[j].op = "launch"
    OBVIOUS
  <2>2. \A j \in (0 + 1)..(1 - 1) : app[j].op = "reset"
    OBVIOUS
  <2>3. file = [n \in 1..(0 - 0) |-> RowOf(0 + n)]
    <3>1. 1..(0 - 0) = {}
      OBVIOUS
    <3>2. QED
      BY <1>1, <3>1
  <2>4. FileIs(0, 0)
    BY <1>1, <2>1, <2>2, <2>3 DEF FileIs
  <2>5. QED
    BY <1>1, <2>4 DEF FileInv
<1>6. QED
  BY <1>2, <1>3, <1>4, <1>5 DEF ProfInv

\* The file is opened again when none is open.
LEMMA ProfLaunch ==
    ASSUME ProfInv, Prof!LaunchKernel
    PROVE  ProfInv'
<1>1. /\ pphase = "host" /\ phpc <= Len(app) /\ app[phpc].op = "launch"
      /\ pphase' = "kernel" /\ pvalidData' = TRUE
      /\ file' = (IF pvalidData THEN file ELSE <<>>)
      /\ counters' = Prof!Zero /\ ppc' = [t \in Threads |-> 1]
      /\ UNCHANGED <<app, phpc, todo, pknameCount>>
  BY DEF Prof!LaunchKernel, Prof!NextCallIs
<1>2. /\ ProfTypeOK /\ phpc \in Nat \ {0} /\ phpc \in 1..Len(app)
      /\ app[phpc].grid \in [Threads -> Seq(Instructions)]
  BY <1>1, ProfCalls DEF ProfInv, ProfTypeOK
<1>3. ProfTypeOK'
  <2>1. counters' \in [Prof!Columns -> Nat] /\ ppc' \in [Threads -> Nat \ {0}]
    BY <1>1 DEF Prof!Zero
  <2>2. QED
    BY <1>1, <1>2, <2>1 DEF ProfTypeOK
<1>4. EndedInv'
  BY <1>1, RowsOfApp DEF ProfInv, EndedInv
<1>5. \A t \in Threads : todo[t] = <<>> /\ ppc'[t] = 1
  BY <1>1 DEF ProfInv, TodoInv
<1>6. TodoInv'
  <2> SUFFICES ASSUME NEW t \in Threads
               PROVE  /\ ppc'[t] <= Len(ProfStream(t)') + 1
                      /\ todo'[t] # <<>> => ppc'[t] > 1
                      /\ \A c \in Prof!Columns : Owed(t, c)' => <<t, ppc'[t] - 1>> \in Executions(phpc, c)'
                      /\ Once(todo'[t])
    BY <1>1, RowsOfApp DEF TodoInv, Once
  <2>1. ProfStream(t)' \in Seq(Instructions)
    BY <1>1, <1>2 DEF ProfStream
  <2>2. todo'[t] = <<>> /\ ppc'[t] = 1
    BY <1>1, <1>5
  <2>3. \A c : ~Owed(t, c)'
    BY <2>2 DEF Owed
  <2>4. Len(ProfStream(t)') \in Nat
    BY <2>1
  <2>5. QED
    BY <2>2, <2>3, <2>4 DEF Once
<1>7. AddedInv'
  <2> SUFFICES ASSUME NEW c \in Prof!Columns PROVE Added(c)' = {} /\ counters'[c] = 0
    BY FS_EmptySet DEF AddedInv
  <2>1. ASSUME NEW e \in Executions(phpc, c) PROVE ~(e[2] < ppc'[e[1]])
    <3>1. e[1] \in Threads /\ e[2] \in DOMAIN app[phpc].grid[e[1]]
      BY ExecutionsAre
    <3>2. e[2] \in Nat \ {0} /\ ppc'[e[1]] = 1
      BY <1>2, <1>5, <3>1
    <3>3. QED
      BY <3>2
  <2>2. Executions(phpc, c)' = Executions(phpc, c)
    BY <1>1, RowsOfApp DEF Executions
  <2>3. Added(c)' = {}
    BY <2>1, <2>2 DEF Added
  <2>4. QED
    BY <1>1, <2>3 DEF Prof!Zero
<1>8. PICK s \in 0..(phpc - 1), e \in 0..(phpc - 1) : FileIs(s, e)
  BY DEF ProfInv, FileInv
<1>9. FileInv'
  <2>1. CASE pvalidData
    <3>1. FileIs(s, e)'
      BY <1>1, <1>8, <2>1, RowsOfApp DEF FileIs
    <3>2. QED
      BY <1>1, <3>1 DEF FileInv
  <2>2. CASE ~pvalidData
    <3> DEFINE o == phpc - 1
    <3>1. o \in 0..(phpc - 1) /\ (o = 0 \/ app[o].op = "reset")
      BY <1>1, <1>2, <1>8, <2>2 DEF FileIs
    <3>2. /\ \A j \in (o + 1)..o : app[j].op = "launch"
          /\ \A j \in (o + 1)..(phpc - 1) : app[j].op = "reset"
          /\ 1..(o - o) = {}
      BY <1>2
    <3>3. PICK k : k = o
      OBVIOUS
    <3> HIDE DEF o
    <3>4. file' = [n \in 1..(k - k) |-> RowOf(k + n)']
      BY <1>1, <2>2, <3>2, <3>3
    <3>5. k <= k /\ k = phpc - 1
      BY <1>2, <3>3 DEF o
    <3>6. FileIs(k, k)'
      BY <1>1, <3>1, <3>2, <3>3, <3>4, <3>5 DEF FileIs
    <3>7. QED
      BY <1>1, <3>1, <3>3, <3>6 DEF FileInv
  <2>3. QED
    BY <1>2, <2>1, <2>2 DEF ProfTypeOK
<1>10. QED
  BY <1>3, <1>4, <1>6, <1>7, <1>9 DEF ProfInv


\* A thread that comes to an instruction owes what its handler will add, no more.
LEMMA ProfEnterHandler ==
    ASSUME ProfInv, NEW t \in Threads, Prof!EnterHandler(t)
    PROVE  ProfInv'
<1>a. PICK p : p = ppc[t]
  OBVIOUS
<1>b. PICK ins : ins = app[phpc].grid[t][p]
  OBVIOUS
<1>1. /\ pphase = "kernel" /\ todo[t] = <<>> /\ ~(p > Len(app[phpc].grid[t]))
      /\ todo' = [todo EXCEPT ![t] = Prof!CountedAs(ins)]
      /\ ppc' = [ppc EXCEPT ![t] = p + 1]
      /\ UNCHANGED <<app, phpc, pphase, pvalidData, counters, pknameCount, file>>
  BY <1>a, <1>b DEF Prof!EnterHandler, Prof!Finished
<1>2. /\ ProfTypeOK /\ phpc \in 1..Len(app) /\ p \in Nat \ {0}
      /\ app[phpc].grid \in [Threads -> Seq(Instructions)]
  BY <1>1, <1>a, ProfCalls DEF ProfInv, ProfTypeOK
<1>3. ins \in Instructions /\ p \in DOMAIN app[phpc].grid[t]
  BY <1>1, <1>2, <1>b
<1>4. /\ Prof!CountedAs(ins) \in Seq(Prof!Columns)
      /\ Once(Prof!CountedAs(ins))
  BY <1>3, CountedOnce
<1>5. ProfTypeOK'
  <2>1. todo' \in [Threads -> Seq(Prof!Columns)]
    BY <1>1, <1>2, <1>4 DEF ProfTypeOK
  <2>2. ppc' \in [Threads -> Nat \ {0}]
    BY <1>1, <1>2 DEF ProfTypeOK
  <2>3. QED
    BY <1>1, <1>2, <2>1, <2>2 DEF ProfTypeOK
<1>6. EndedInv'
  BY <1>1, RowsOfApp DEF ProfInv, EndedInv
<1>7. /\ todo'[t] = Prof!CountedAs(ins) /\ ppc'[t] = p + 1
      /\ \A u \in Threads \ {t} : todo'[u] = todo[u] /\ ppc'[u] = ppc[u]
  BY <1>1, <1>2 DEF ProfTypeOK
<1>8. \A c : /\ <<t, p>> \in Executions(phpc, c) <=> Owed(t, c)'
             /\ ~Owed(t, c)
             /\ \A u \in Threads \ {t} : Owed(u, c)' <=> Owed(u, c)
  <2> SUFFICES ASSUME NEW c
               PROVE  /\ <<t, p>> \in Executions(phpc, c) <=> Owed(t, c)'
                      /\ ~Owed(t, c)
                      /\ \A u \in Threads \ {t} : Owed(u, c)' <=> Owed(u, c)
    OBVIOUS
  <2>2. <<t, p>> \in Executions(phpc, c) <=>
            \E n \in DOMAIN Prof!CountedAs(ins) : Prof!CountedAs(ins)[n] = c
    BY <1>3, <1>b, ExecutionIs
  <2>3. Owed(t, c)' <=> \E n \in DOMAIN Prof!CountedAs(ins) : Prof!CountedAs(ins)[n] = c
    BY <1>7 DEF Owed
  <2>4. ~Owed(t, c) /\ \A u \in Threads \ {t} : Owed(u, c)' <=> Owed(u, c)
    BY <1>1, <1>7 DEF Owed
  <2>5. QED
    BY <2>2, <2>3, <2>4
<1>9. TodoInv'
  <2> SUFFICES ASSUME NEW u \in Threads
               PROVE  /\ ppc'[u] <= Len(ProfStream(u)') + 1
                      /\ todo'[u] # <<>> => ppc'[u] > 1
                      /\ \A c \in Prof!Columns : Owed(u, c)' => <<u, ppc'[u] - 1>> \in Executions(phpc, c)'
                      /\ Once(todo'[u])
    BY <1>1, RowsOfApp DEF TodoInv, Once
  <2>1. /\ ProfStream(u)' = ProfStream(u) /\ ProfStream(t) = app[phpc].grid[t]
        /\ \A c : Executions(phpc, c)' = Executions(phpc, c)
    BY <1>1 DEF ProfStream, Executions
  <2>2. CASE u = t
    <3>1. p + 1 - 1 = p /\ p + 1 > 1 /\ p <= Len(ProfStream(t))
      BY <1>1, <1>2, <2>1
    <3>2. p + 1 <= Len(ProfStream(t)) + 1
      BY <1>2, <2>1, <3>1
    <3>3. /\ ppc'[u] <= Len(ProfStream(u)') + 1
          /\ todo'[u] # <<>> => ppc'[u] > 1
      BY <1>7, <2>1, <2>2, <3>1, <3>2
    <3>4. \A c \in Prof!Columns : Owed(u, c)' => <<u, ppc'[u] - 1>> \in Executions(phpc, c)'
      <4>1. \A c \in Prof!Columns : Owed(t, c)' => <<t, ppc'[t] - 1>> \in Executions(phpc, c)'
        <5>1. ppc'[t] - 1 = p
          BY <1>2, <1>7
        <5>2. QED
          BY <1>8, <2>1, <5>1
      <4>2. QED
        BY <2>2, <4>1
    <3>5. Once(todo'[u])
      BY <1>4, <1>7, <2>2
    <3>6. QED
      BY <3>3, <3>4, <3>5
  <2>3. CASE u # t
    BY <1>1, <1>7, <1>8, <2>1, <2>3 DEF ProfInv, TodoInv, Once
  <2>4. QED
    BY <2>2, <2>3
<1>10. AddedInv'
  <2> SUFFICES ASSUME NEW c \in Prof!Columns PROVE Added(c)' = Added(c)
    BY <1>1 DEF ProfInv, AddedInv
  <2>1. Executions(phpc, c)' = Executions(phpc, c)
    BY <1>1 DEF Executions
  <2>2. ASSUME NEW e \in Executions(phpc, c)
        PROVE  /\ e[2] < ppc'[e[1]] /\ ~(e[2] = ppc'[e[1]] - 1 /\ Owed(e[1], c)')
               <=> /\ e[2] < ppc[e[1]] /\ ~(e[2] = ppc[e[1]] - 1 /\ Owed(e[1], c))
    <3>1. e = <<e[1], e[2]>> /\ e[1] \in Threads /\ e[2] \in DOMAIN app[phpc].grid[e[1]]
      BY ExecutionsAre
    <3>2. e[2] \in Nat
      BY <1>2, <3>1
    <3>3. PICK u, i : u = e[1] /\ i = e[2]
      OBVIOUS
    <3>4. u \in Threads /\ i \in Nat /\ (u = t /\ i = p => Owed(t, c)')
      BY <1>8, <3>1, <3>2, <3>3
    <3>5. CASE u = t
      <4>1. p = ppc[t]
        BY <1>a
      <4>2. ASSUME Owed(t, c)'
            PROVE  (i < ppc'[t] /\ ~(i = ppc'[t] - 1 /\ Owed(t, c)')) <=> i < p
        <5>1. (i < p + 1 /\ ~(i = p + 1 - 1)) <=> i < p
          BY <1>2, <3>4
        <5>2. QED
          BY <1>2, <1>7, <3>4, <4>2, <5>1
      <4>3. ASSUME ~Owed(t, c)'
            PROVE  (i < ppc'[t] /\ ~(i = ppc'[t] - 1 /\ Owed(t, c)')) <=> i < p
        <5>1. i < p + 1 <=> i < p
          BY <1>2, <3>4, <3>5, <4>3
        <5>2. QED
          BY <1>2, <1>7, <3>4, <4>3, <5>1
      <4>4. (i < ppc'[t] /\ ~(i = ppc'[t] - 1 /\ Owed(t, c)')) <=> i < p
        BY <4>2, <4>3
      <4>5. (i < ppc[t] /\ ~(i = ppc[t] - 1 /\ Owed(t, c))) <=> i < p
        BY <1>8, <4>1
      <4>6. e[1] = t /\ e[2] = i
        BY <3>3, <3>5
      <4>7. QED
        BY <4>4, <4>5, <4>6
    <3>6. CASE u # t
      BY <1>7, <1>8, <3>3, <3>4, <3>6
    <3>7. QED
      BY <3>5, <3>6
  <2>3. QED
    BY <2>1, <2>2 DEF Added
<1>11. FileInv'
  BY <1>1, FileSame DEF ProfInv
<1>12. QED
  BY <1>5, <1>6, <1>9, <1>10, <1>11 DEF ProfInv

\* An addition is that of one execution to one counter.
LEMMA ProfAdd ==
    ASSUME ProfInv, NEW t \in Threads, Prof!Add(t)
    PROVE  ProfInv'
<1>a. PICK h : h = Head(todo[t])
  OBVIOUS
<1>b. PICK x : x = <<t, ppc[t] - 1>>
  OBVIOUS
<1>1. /\ todo[t] # <<>>
      /\ counters' = [counters EXCEPT ![h] = counters[h] + 1]
      /\ todo' = [todo EXCEPT ![t] = Tail(todo[t])]
      /\ UNCHANGED <<app, phpc, pphase, pvalidData, ppc, pknameCount, file>>
  BY <1>a DEF Prof!Add
<1>2. /\ ProfTypeOK /\ pphase = "kernel" /\ phpc \in 1..Len(app) /\ ppc[t] \in Nat \ {0}
      /\ app[phpc].grid \in [Threads -> Seq(Instructions)]
      /\ todo[t] \in Seq(Prof!Columns)
  BY <1>1, ProfCalls DEF ProfInv, ProfTypeOK, TodoInv
<1>3. /\ Len(todo[t]) \in Nat \ {0} /\ DOMAIN todo[t] = 1..Len(todo[t])
      /\ h = todo[t][1] /\ h \in Prof!Columns
      /\ Tail(todo[t]) \in Seq(Prof!Columns) /\ DOMAIN Tail(todo[t]) = 1..(Len(todo[t]) - 1)
      /\ \A n \in 1..(Len(todo[t]) - 1) : Tail(todo[t])[n] = todo[t][n + 1]
  BY <1>1, <1>2, <1>a
<1>4. /\ todo'[t] = Tail(todo[t])
      /\ \A u \in Threads \ {t} : todo'[u] = todo[u]
  BY <1>1, <1>2 DEF ProfTypeOK
<1>5. Once(todo[t])
  BY <1>2 DEF ProfInv, TodoInv
<1>6. /\ Once(todo'[t])
      /\ \A c : Owed(t, c)' <=> Owed(t, c) /\ c # h
      /\ Owed(t, h)
  <2>1. PICK s : s = todo[t]
    OBVIOUS
  <2>2. PICK r : r = Tail(todo[t])
    OBVIOUS
  <2>3. /\ Len(s) \in Nat \ {0} /\ DOMAIN s = 1..Len(s) /\ h = s[1]
        /\ DOMAIN r = 1..(Len(s) - 1) /\ \A n \in 1..(Len(s) - 1) : r[n] = s[n + 1]
        /\ \A m, n \in DOMAIN s : s[m] = s[n] => m = n
    BY <1>3, <1>5, <2>1, <2>2 DEF Once
  <2>4. \A m, n \in DOMAIN r : r[m] = r[n] => m = n
    <3> SUFFICES ASSUME NEW m \in DOMAIN r, NEW n \in DOMAIN r, r[m] = r[n] PROVE m = n
      OBVIOUS
    <3>1. m + 1 \in DOMAIN s /\ n + 1 \in DOMAIN s /\ s[m + 1] = s[n + 1]
      BY <2>3
    <3>2. m + 1 = n + 1
      BY <2>3, <3>1
    <3>3. QED
      BY <2>3, <3>2
  <2>5. ASSUME NEW c
        PROVE  (\E n \in DOMAIN r : r[n] = c) <=> (\E n \in DOMAIN s : s[n] = c) /\ c # h
    <3>1. ASSUME NEW n \in DOMAIN r, r[n] = c
          PROVE  n + 1 \in DOMAIN s /\ s[n + 1] = c /\ c # h
      <4>1. n + 1 \in DOMAIN s /\ s[n + 1] = c /\ 1 \in DOMAIN s /\ n + 1 # 1
        BY <2>3, <3>1
      <4>2. QED
        BY <2>3, <4>1
    <3>2. ASSUME NEW n \in DOMAIN s, s[n] = c, c # h
          PROVE  n - 1 \in DOMAIN r /\ r[n - 1] = c
      BY <2>3, <3>2
    <3>3. QED
      BY <3>1, <3>2
  <2>6. 1 \in DOMAIN s
    BY <2>3
  <2>7. \A c : (\E n \in DOMAIN r : r[n] = c) <=> (\E n \in DOMAIN s : s[n] = c) /\ c # h
    BY <2>5
  <2>8. todo'[t] = r /\ todo[t] = s
    BY <1>4, <2>1, <2>2
  <2>9. Once(todo'[t])
    BY <2>4, <2>8 DEF Once
  <2>10. \A c : Owed(t, c)' <=> Owed(t, c) /\ c # h
    BY <2>7, <2>8 DEF Owed
  <2>11. Owed(t, h)
    BY <2>3, <2>6, <2>8 DEF Owed
  <2>12. QED
    BY <2>9, <2>10, <2>11
<1>7. /\ ppc[t] > 1
      /\ \A c \in Prof!Columns : Owed(t, c) => x \in Executions(phpc, c)
  BY <1>1, <1>2, <1>b DEF ProfInv, TodoInv
<1>8. ProfTypeOK'
  <2>1. todo' \in [Threads -> Seq(Prof!Columns)]
    BY <1>1, <1>2, <1>3 DEF ProfTypeOK
  <2>2. counters' \in [Prof!Columns -> Nat]
    BY <1>1, <1>2, <1>3 DEF ProfTypeOK
  <2>3. QED
    BY <1>1, <1>2, <2>1, <2>2 DEF ProfTypeOK
<1>9. EndedInv'
  BY <1>1, RowsOfApp DEF ProfInv, EndedInv
<1>10. \A c : \A u \in Threads \ {t} : Owed(u, c)' <=> Owed(u, c)
  BY <1>4 DEF Owed
<1>11. \A c : Executions(phpc, c)' = Executions(phpc, c)
  BY <1>1 DEF Executions
<1>12. TodoInv'
  <2> SUFFICES ASSUME NEW u \in Threads
               PROVE  /\ ppc'[u] <= Len(ProfStream(u)') + 1
                      /\ todo'[u] # <<>> => ppc'[u] > 1
                      /\ \A c \in Prof!Columns : Owed(u, c)' => <<u, ppc'[u] - 1>> \in Executions(phpc, c)'
                      /\ Once(todo'[u])
    BY <1>1, <1>2, RowsOfApp DEF TodoInv, Once
  <2>1. ProfStream(u)' = ProfStream(u) /\ ppc'[u] = ppc[u]
    BY <1>1 DEF ProfStream
  <2>2. ppc[u] <= Len(ProfStream(u)) + 1
    BY <1>2 DEF ProfInv, TodoInv
  <2>3. CASE u = t
    <3>1. ASSUME NEW c \in Prof!Columns, Owed(t, c)'
          PROVE  <<t, ppc[t] - 1>> \in Executions(phpc, c)
      BY <1>6, <1>7, <1>b, <3>1
    <3>2. \A c \in Prof!Columns : Owed(t, c)' => <<t, ppc'[t] - 1>> \in Executions(phpc, c)'
      BY <1>11, <2>1, <2>3, <3>1
    <3>3. QED
      BY <1>6, <1>7, <2>1, <2>2, <2>3, <3>2
  <2>4. CASE u # t
    <3>1. /\ todo[u] # <<>> => ppc[u] > 1
          /\ \A c \in Prof!Columns : Owed(u, c) => <<u, ppc[u] - 1>> \in Executions(phpc, c)
          /\ Once(todo[u])
      BY <1>2 DEF ProfInv, TodoInv
    <3>2. todo'[u] = todo[u] /\ \A c : Owed(u, c)' <=> Owed(u, c)
      BY <1>4, <1>10, <2>4
    <3>3. \A c \in Prof!Columns : Owed(u, c)' => <<u, ppc'[u] - 1>> \in Executions(phpc, c)'
      BY <1>11, <2>1, <3>1, <3>2
    <3>4. QED
      BY <2>1, <2>2, <3>1, <3>2, <3>3 DEF Once
  <2>5. QED
    BY <2>3, <2>4
<1>13. AddedInv'
  <2>1. ASSUME NEW c \in Prof!Columns, c # h
        PROVE  IsFiniteSet(Added(c)') /\ counters'[c] = Cardinality(Added(c)')
    <3>1. \A u \in Threads : Owed(u, c)' <=> Owed(u, c)
      BY <1>6, <1>10, <2>1
    <3>2. \A e \in Executions(phpc, c) : e[1] \in Threads
      BY ExecutionsAre
    <3>3. Added(c)' = Added(c)
      BY <1>1, <1>11, <3>1, <3>2 DEF Added
    <3>4. counters'[c] = counters[c]
      BY <1>1, <1>2, <2>1 DEF ProfTypeOK
    <3>5. QED
      BY <1>2, <3>3, <3>4 DEF ProfInv, AddedInv
  <2>2. IsFiniteSet(Added(h)') /\ counters'[h] = Cardinality(Added(h)')
    <3>1. x \in Executions(phpc, h) /\ x[1] = t /\ x[2] = ppc[t] - 1
      BY <1>3, <1>6, <1>7, <1>b
    <3>2. ASSUME NEW e \in Executions(phpc, h)
          PROVE  e \in Added(h)' <=> e \in Added(h) \/ e = x
      <4>1. e = <<e[1], e[2]>> /\ e[1] \in Threads /\ e[2] \in DOMAIN app[phpc].grid[e[1]]
        BY ExecutionsAre
      <4>2. e[2] \in Nat
        BY <1>2, <4>1
      <4>3. /\ e \in Added(h) <=> e[2] < ppc[e[1]] /\ ~(e[2] = ppc[e[1]] - 1 /\ Owed(e[1], h))
            /\ e \in Added(h)' <=> e[2] < ppc[e[1]] /\ ~(e[2] = ppc[e[1]] - 1 /\ Owed(e[1], h)')
        BY <1>1, <1>11 DEF Added
      <4>4. CASE e[1] = t
        <5>1. e = x <=> e[2] = ppc[t] - 1
          BY <1>b, <4>1, <4>4
        <5>2. Owed(t, h) /\ ~Owed(t, h)'
          BY <1>6
        <5>3. ppc[t] - 1 < ppc[t]
          BY <1>2
        <5>4. QED
          BY <4>3, <4>4, <5>1, <5>2, <5>3
      <4>5. CASE e[1] # t
        <5>1. e # x /\ (Owed(e[1], h)' <=> Owed(e[1], h))
          BY <1>10, <3>1, <4>1, <4>5
        <5>2. QED
          BY <4>3, <5>1
      <4>6. QED
        BY <4>4, <4>5
    <3>3. Added(h)' = Added(h) \cup {x}
      <4>1. Added(h) \subseteq Executions(phpc, h) /\ Added(h)' \subseteq Executions(phpc, h)
        BY <1>1, <1>11 DEF Added
      <4>2. QED
        BY <3>1, <3>2, <4>1
    <3>4. x \notin Added(h)
      BY <1>6, <3>1 DEF Added
    <3>5. IsFiniteSet(Added(h)) /\ counters[h] = Cardinality(Added(h))
      BY <1>2, <1>3 DEF ProfInv, AddedInv
    <3>6. counters'[h] = counters[h] + 1
      BY <1>1, <1>2, <1>3 DEF ProfTypeOK
    <3>7. QED
      BY <3>3, <3>4, <3>5, <3>6, FS_AddElement
  <2>3. QED
    BY <2>1, <2>2 DEF AddedInv
<1>14. FileInv'
  BY <1>1, FileSame DEF ProfInv
<1>15. QED
  BY <1>8, <1>9, <1>12, <1>13, <1>14 DEF ProfInv

LEMMA AppendTo ==
    ASSUME NEW m \in Nat, NEW F, NEW x, F = [n \in 1..m |-> F[n]]
    PROVE  Append(F, x) = [n \in 1..(m + 1) |-> IF n <= m THEN F[n] ELSE x]
<1>1. PICK S : S = {F[n] : n \in 1..m} \cup {x}
  OBVIOUS
<1>2. F \in [1..m -> S] /\ x \in S
  BY <1>1
<1>3. F \in Seq(S) /\ Len(F) = m
  BY <1>2
<1>4. PICK q : q = Append(F, x)
  OBVIOUS
<1>5. /\ q \in Seq(S) /\ Len(q) = m + 1 /\ q[m + 1] = x
      /\ \A n \in 1..m : q[n] = F[n]
  BY <1>2, <1>3, <1>4, AppendProperties
<1>6. q = [n \in 1..(m + 1) |-> q[n]]
  BY <1>5
<1>7. \A n \in 1..(m + 1) : q[n] = IF n <= m THEN F[n] ELSE x
  BY <1>5
<1>8. QED
  BY <1>4, <1>6, <1>7

\* When the kernel has ended every execution has been added.
LEMMA ProfExitKernel ==
    ASSUME ProfInv, Prof!ExitKernel
    PROVE  ProfInv'
<1>a. PICK k : k = app[phpc].kname
  OBVIOUS
<1>b. PICK h : h = phpc
  OBVIOUS
<1>1. /\ pphase = "kernel" /\ \A t \in Threads : ppc[t] > Len(app[h].grid[t]) /\ todo[t] = <<>>
      /\ pphase' = "host" /\ phpc' = h + 1
      /\ pknameCount' = [pknameCount EXCEPT ![k] = pknameCount[k] + 1]
      /\ file' = Append(file, [kname |-> k, kcount |-> pknameCount'[k], counts |-> counters])
      /\ UNCHANGED <<app, pvalidData, ppc, todo, counters>>
  BY <1>a, <1>b DEF Prof!ExitKernel, Prof!Finished
<1>2. /\ ProfTypeOK /\ h \in 1..Len(app) /\ Len(app) \in Nat /\ app[h].op = "launch" /\ k \in KNames
      /\ app[h].grid \in [Threads -> Seq(Instructions)]
  BY <1>1, <1>a, <1>b, ProfCalls DEF ProfInv, ProfTypeOK
<1>3. counters = [c \in Prof!Columns |-> Cardinality(Executions(h, c))]
  <2>1. ASSUME NEW c \in Prof!Columns
        PROVE  counters[c] = Cardinality(Executions(h, c))
    <3>1. ASSUME NEW e \in Executions(h, c)
          PROVE  e[2] < ppc[e[1]] /\ ~Owed(e[1], c)
      <4>1. e[1] \in Threads /\ e[2] \in DOMAIN app[h].grid[e[1]]
        BY ExecutionsAre
      <4>2. PICK t \in Threads : t = e[1]
        BY <4>1
      <4>3. e[2] \in Nat /\ e[2] <= Len(app[h].grid[t]) /\ Len(app[h].grid[t]) \in Nat
        BY <1>2, <4>1, <4>2
      <4>4. ppc[t] \in Nat
        BY <1>2 DEF ProfTypeOK
      <4>5. e[2] < ppc[t]
        BY <1>1, <4>3, <4>4
      <4>6. ~Owed(t, c)
        BY <1>1 DEF Owed
      <4>7. QED
        BY <4>2, <4>5, <4>6
    <3>2. Added(c) = Executions(h, c)
      BY <1>b, <3>1 DEF Added
    <3>3. QED
      BY <1>1, <3>2 DEF ProfInv, AddedInv
  <2>2. QED
    BY <1>2, <2>1 DEF ProfTypeOK
<1>4. \A n \in KNames : pknameCount[n] = Cardinality(LaunchesBefore(h, n)) - 1
  BY <1>1, <1>b DEF ProfInv, EndedInv
<1>5. \A n \in KNames : /\ Cardinality(LaunchesBefore(h, n)) \in Nat
                        /\ Cardinality(LaunchesBefore(h + 1, n)) =
                             Cardinality(LaunchesBefore(h, n)) + (IF k = n THEN 1 ELSE 0)
  <2> SUFFICES ASSUME NEW n \in KNames
               PROVE  /\ Cardinality(LaunchesBefore(h, n)) \in Nat
                      /\ Cardinality(LaunchesBefore(h + 1, n)) =
                           Cardinality(LaunchesBefore(h, n)) + (IF k = n THEN 1 ELSE 0)
    OBVIOUS
  <2>1. h \in Nat \ {0}
    BY <1>2
  <2>2. QED
    BY <1>2, <1>a, <1>b, <2>1, LaunchesBeforeNext
<1>6. /\ pknameCount' \in [KNames -> Int]
      /\ pknameCount'[k] = pknameCount[k] + 1
      /\ \A n \in KNames \ {k} : pknameCount'[n] = pknameCount[n]
  BY <1>1, <1>2 DEF ProfTypeOK
<1>7. ProfTypeOK'
  <2>1. phpc' \in 1..(Len(app') + 1)
    BY <1>1, <1>2
  <2>2. QED
    BY <1>1, <1>2, <1>6, <2>1 DEF ProfTypeOK
<1>8. EndedInv'
  <2>1. ASSUME NEW n \in KNames
        PROVE  pknameCount'[n] = Cardinality(LaunchesBefore(h + 1, n)) - 1
    <3>1. CASE n = k
      BY <1>2, <1>4, <1>5, <1>6, <3>1
    <3>2. CASE n # k
      BY <1>2, <1>4, <1>5, <1>6, <3>2
    <3>3. QED
      BY <3>1, <3>2
  <2>2. \A n : LaunchesBefore(phpc, n)' = LaunchesBefore(h + 1, n)
    BY <1>1 DEF LaunchesBefore
  <2>3. QED
    BY <2>1, <2>2 DEF EndedInv
<1>9. TodoInv' /\ AddedInv'
  BY <1>1 DEF TodoInv, AddedInv
<1>10. PICK s \in 0..(h - 1), e \in 0..(h - 1) : FileIs(s, e)
  BY <1>b DEF ProfInv, FileInv
<1>11. /\ e = h - 1 /\ s <= e /\ (s = 0 \/ app[s].op = "reset") /\ pvalidData
       /\ \A j \in (s + 1)..e : app[j].op = "launch"
       /\ file = [n \in 1..(e - s) |-> RowOf(s + n)]
  BY <1>1, <1>2, <1>b, <1>10 DEF FileIs, ProfTypeOK
<1>12. file' = [n \in 1..(h - s) |-> RowOf(s + n)]
  <2>1. PICK row : row = RowOf(h)
    OBVIOUS
  <2>2. file' = Append(file, row)
    <3>1. pknameCount'[k] = Cardinality(LaunchesBefore(h, k))
      BY <1>2, <1>4, <1>5, <1>6
    <3>2. row = [kname |-> k, kcount |-> pknameCount'[k], counts |-> counters]
      BY <1>3, <1>a, <1>b, <2>1, <3>1 DEF RowOf
    <3>3. QED
      BY <1>1, <3>2
  <2>3. PICK m \in Nat : m = h - 1 - s
    BY <1>2, <1>10
  <2>4. PICK F : F = [n \in 1..m |-> RowOf(s + n)]
    OBVIOUS
  <2>5. file = F
    BY <1>11, <2>3, <2>4
  <2>6. F = [n \in 1..m |-> F[n]]
    BY <2>4
  <2>7. Append(F, row) = [n \in 1..(m + 1) |-> IF n <= m THEN F[n] ELSE row]
    BY <2>6, AppendTo
  <2>8. ASSUME NEW n \in 1..(m + 1)
        PROVE  (IF n <= m THEN F[n] ELSE row) = RowOf(s + n)
    <3>1. CASE n <= m
      BY <2>3, <2>4, <3>1
    <3>2. CASE ~(n <= m)
      <4>1. s + n = h
        BY <1>2, <1>10, <2>3, <3>2
      <4>2. QED
        BY <2>1, <3>2, <4>1
    <3>3. QED
      BY <3>1, <3>2
  <2>9. h - s = m + 1
    BY <1>2, <1>10, <2>3
  <2>10. QED
    BY <2>2, <2>5, <2>7, <2>8, <2>9
<1>13. FileIs(s, h)'
  <2>1. \A j \in (s + 1)..h : app[j].op = "launch"
    BY <1>2, <1>10, <1>11
  <2>2. /\ s <= h /\ h > s /\ h = h + 1 - 1
        /\ (h + 1)..(h + 1 - 1) = {}
    BY <1>2, <1>10
  <2>3. file' = [n \in 1..(h - s) |-> RowOf(s + n)']
    BY <1>1, <1>12, RowsOfApp
  <2>4. \A j \in (h + 1)..(phpc' - 1) : FALSE
    BY <1>1, <2>2
  <2>5. h = phpc' - 1 /\ pphase' # "kernel" /\ pvalidData' /\ app' = app
    <3>1. h = phpc' - 1 /\ pphase' # "kernel" /\ app' = app
      BY <1>1, <1>2
    <3>2. pvalidData'
      BY <1>1, <1>11
    <3>3. QED
      BY <3>1, <3>2
  <2>6. QED
    BY <1>11, <2>1, <2>2, <2>3, <2>4, <2>5 DEF FileIs
<1>14. FileInv'
  <2>1. s \in 0..(phpc' - 1) /\ h \in 0..(phpc' - 1)
    BY <1>1, <1>2, <1>10
  <2>2. QED
    BY <1>13, <2>1 DEF FileInv
<1>15. QED
  BY <1>7, <1>8, <1>9, <1>14 DEF ProfInv

\* A reset leaves the rows where they are.
LEMMA ProfReset ==
    ASSUME ProfInv, Prof!Reset
    PROVE  ProfInv'
<1>a. PICK h : h = phpc
  OBVIOUS
<1>1. /\ pphase = "host" /\ h <= Len(app) /\ app[h].op = "reset"
      /\ pvalidData' = FALSE /\ phpc' = h + 1
      /\ UNCHANGED <<app, pphase, ppc, todo, counters, pknameCount, file>>
  BY <1>a DEF Prof!Reset, Prof!NextCallIs
<1>2. ProfTypeOK /\ h \in 1..Len(app) /\ Len(app) \in Nat
  BY <1>1, <1>a, ProfCalls DEF ProfInv, ProfTypeOK
<1>3. ProfTypeOK'
  <2>1. phpc' \in 1..(Len(app') + 1)
    BY <1>1, <1>2
  <2>2. QED
    BY <1>1, <1>2, <2>1 DEF ProfTypeOK
<1>4. EndedInv'
  <2>1. ASSUME NEW n \in KNames
        PROVE  pknameCount'[n] = Cardinality(LaunchesBefore(h + 1, n)) - 1
    <3>1. h \in Nat \ {0}
      BY <1>2
    <3>2. /\ Cardinality(LaunchesBefore(h, n)) \in Nat
          /\ Cardinality(LaunchesBefore(h + 1, n)) = Cardinality(LaunchesBefore(h, n)) + 0
      BY <1>1, <3>1, LaunchesBeforeNext
    <3>3. pknameCount[n] = Cardinality(LaunchesBefore(h, n)) - 1
      BY <1>1, <1>a DEF ProfInv, EndedInv
    <3>4. QED
      BY <1>1, <3>2, <3>3
  <2>2. \A n : LaunchesBefore(phpc, n)' = LaunchesBefore(h + 1, n)
    BY <1>1 DEF LaunchesBefore
  <2>3. QED
    BY <2>1, <2>2 DEF EndedInv
<1>5. TodoInv' /\ AddedInv'
  BY <1>1 DEF ProfInv, TodoInv, AddedInv
<1>6. PICK s \in 0..(h - 1), e \in 0..(h - 1) : FileIs(s, e)
  BY <1>a DEF ProfInv, FileInv
<1>7. FileIs(s, e)'
  <2>1. /\ s <= e /\ (s = 0 \/ app[s].op = "reset") /\ (e > s \/ e = 0)
        /\ \A j \in (s + 1)..e : app[j].op = "launch"
        /\ \A j \in (e + 1)..(h - 1) : app[j].op = "reset"
        /\ file = [n \in 1..(e - s) |-> RowOf(s + n)]
    BY <1>1, <1>6, <1>a DEF FileIs
  <2>2. \A j \in (e + 1)..(h + 1 - 1) : app[j].op = "reset"
    BY <1>1, <1>2, <1>6, <2>1
  <2>3. h + 1 - 1 = h
    BY <1>2
  <2>4. file' = [n \in 1..(e - s) |-> RowOf(s + n)']
    BY <1>1, <2>1, RowsOfApp
  <2>5. /\ \A j \in (e + 1)..(phpc' - 1) : app'[j].op = "reset"
        /\ app'[phpc' - 1].op = "reset"
    <3>1. phpc' - 1 = h
      BY <1>1, <1>2
    <3>2. QED
      BY <1>1, <2>2, <2>3, <3>1
  <2>6. QED
    BY <1>1, <2>1, <2>4, <2>5 DEF FileIs
<1>8. FileInv'
  <2>1. s \in 0..(phpc' - 1) /\ e \in 0..(phpc' - 1)
    BY <1>1, <1>2, <1>6
  <2>2. QED
    BY <1>7, <2>1 DEF FileInv
<1>9. QED
  BY <1>3, <1>4, <1>5, <1>8 DEF ProfInv

LEMMA ProfExit ==
    ASSUME ProfInv, Prof!Exit
    PROVE  ProfInv'
<1>1. /\ pphase = "host" /\ phpc = Len(app) + 1 /\ pphase' = "exited"
      /\ UNCHANGED <<app, phpc, pvalidData, ppc, todo, counters, pknameCount, file>>
  BY DEF Prof!Exit
<1>2. ProfTypeOK' /\ EndedInv'
  BY <1>1 DEF ProfInv, ProfTypeOK, EndedInv
<1>3. TodoInv' /\ AddedInv'
  BY <1>1 DEF ProfInv, TodoInv, AddedInv
<1>4. PICK s \in 0..(phpc - 1), e \in 0..(phpc - 1) : FileIs(s, e)
  BY DEF ProfInv, FileInv
<1>5. FileIs(s, e)'
  <2>1. file' = [n \in 1..(e - s) |-> RowOf(s + n)']
    BY <1>1, <1>4, RowsOfApp DEF FileIs
  <2>2. QED
    BY <1>1, <1>4, <2>1 DEF FileIs
<1>6. QED
  BY <1>1, <1>2, <1>3, <1>5 DEF ProfInv, FileInv

\* The run under the injector leaves the profile alone.
LEMMA ProfSame ==
    ASSUME ProfInv, UNCHANGED <<app, profVars>>
    PROVE  ProfInv'
<1>1. UNCHANGED <<app, phpc, pphase, pvalidData, ppc, todo, counters, pknameCount, file>>
  BY DEF profVars
<1>2. ProfTypeOK' /\ EndedInv'
  BY <1>1, RowsOfApp DEF ProfInv, ProfTypeOK, EndedInv
<1>3. TodoInv'
  BY <1>1, RowsOfApp DEF ProfInv, TodoInv, ProfStream, Owed, Once
<1>4. AddedInv'
  <2>1. \A c : Added(c)' = Added(c)
    BY <1>1 DEF Added, Executions, Owed
  <2>2. QED
    BY <1>1, <2>1 DEF ProfInv, AddedInv
<1>5. QED
  BY <1>1, <1>2, <1>3, <1>4, FileSame DEF ProfInv

-----------------------------------------------------------------------------
(* The campaign.                                                           *)

LEMMA InjectorKeepsApp == Step => app' = app
<1> SUFFICES ASSUME Step PROVE app' = app
  OBVIOUS
<1>1. CASE LaunchKernel \/ ExitKernel \/ Reset \/ Exit
  BY <1>1 DEF LaunchKernel, ExitKernel, Reset, Exit, EnterLaunch, LeaveLaunch, ResetDevice, ReturnFromMain
<1>2. CASE DeviceFault
  BY <1>2 DEF DeviceFault, hostVars
<1>3. CASE \E t \in Threads : Before(t) \/ Execute(t) \/ After(t)
  <2>1. PICK t \in Threads : Before(t) \/ Execute(t) \/ After(t)
    BY <1>3
  <2>2. CASE Before(t)
    BY <2>2 DEF Before, Pass, Count, Ignore, Select, Arm, Save, hostVars
  <2>3. CASE Execute(t)
    BY <2>3 DEF Execute, hostVars
  <2>4. CASE After(t)
    BY <2>4 DEF After, Misdirect, ReadBack, WriteWrong, RestoreRight, NoError, hostVars
  <2>5. QED
    BY <2>1, <2>2, <2>3, <2>4
<1>4. QED
  BY <1>1, <1>2, <1>3 DEF Step

LEMMA ProfStep ==
    ASSUME ProfInv, [CampaignStep \/ Over]_campaignVars
    PROVE  ProfInv'
<1>1. CASE Profile
  <2>1. Prof!Step
    BY <1>1 DEF Profile
  <2>2. QED
    BY <2>1, ProfLaunch, ProfExitKernel, ProfReset, ProfExit, ProfEnterHandler, ProfAdd DEF Prof!Step
<1>2. CASE Draw
  <2>1. UNCHANGED <<app, profVars>>
    BY <1>2 DEF Draw
  <2>2. QED
    BY <2>1, ProfSame
<1>3. CASE Inject
  <2>1. UNCHANGED <<app, profVars>>
    BY <1>3, InjectorKeepsApp DEF Inject
  <2>2. QED
    BY <2>1, ProfSame
<1>4. CASE Over \/ UNCHANGED campaignVars
  <2>1. UNCHANGED <<app, profVars>>
    BY <1>4 DEF Over, campaignVars, vars, hostVars
  <2>2. QED
    BY <2>1, ProfSame
<1>5. QED
  BY <1>1, <1>2, <1>3, <1>4 DEF CampaignStep

\* At the exit the two calls that bound the file are those of Profiled.
LEMMA FileIsTheProfile == ProfInv => ProfileIsTheRows
<1> SUFFICES ASSUME ProfInv, pphase = "exited"
             PROVE  file = [n \in DOMAIN Profiled |->
                  [kname |-> ProfileRows[n].kname, kcount |-> ProfileRows[n].kcount,
                   counts |-> [c \in Prof!Columns |-> Cardinality(Executions(Profiled[n], c))]]]
  BY DEF ProfileIsTheRows
<1>1. PICK L \in Nat : L = Len(app)
  BY ProfCalls DEF ProfInv, ProfTypeOK
<1>2. phpc = L + 1
  BY <1>1 DEF ProfInv, ProfTypeOK
<1>3. PICK s \in 0..L, e \in 0..L : FileIs(s, e)
  BY <1>1, <1>2 DEF ProfInv, FileInv
<1>4. /\ s <= e /\ (s = 0 \/ app[s].op = "reset") /\ (e > s \/ e = 0)
      /\ \A j \in (s + 1)..e : app[j].op = "launch"
      /\ \A j \in (e + 1)..L : app[j].op = "reset"
      /\ file = [n \in 1..(e - s) |-> RowOf(s + n)]
  BY <1>1, <1>2, <1>3 DEF FileIs
<1>5. LastLaunch = e
  <2> DEFINE IsLast(i) == /\ i = 0 \/ app[i].op = "launch"
                        /\ \A j \in (i + 1)..Len(app) : app[j].op = "reset"
  <2>1. IsLast(e)
    <3>1. e = 0 \/ app[e].op = "launch"
      BY <1>3, <1>4
    <3>2. QED
      BY <1>1, <1>4, <3>1
  <2>2. ASSUME NEW i \in 0..L, NEW j \in 0..L, IsLast(i), IsLast(j) PROVE ~(i < j)
    <3>1. SUFFICES ASSUME i < j PROVE FALSE
      OBVIOUS
    <3>2. j # 0 /\ j \in (i + 1)..L
      BY <2>2, <3>1
    <3>3. QED
      BY <1>1, <2>2, <3>2
  <2>3. LastLaunch = CHOOSE i \in 0..L : IsLast(i)
    BY <1>1 DEF LastLaunch
  <2> HIDE DEF IsLast
  <2>4. LastLaunch \in 0..L /\ IsLast(LastLaunch)
    BY <1>3, <2>1, <2>3
  <2>5. ~(LastLaunch < e) /\ ~(e < LastLaunch)
    BY <1>3, <2>1, <2>2, <2>4
  <2>6. QED
    BY <1>3, <2>4, <2>5
<1>6. ResetBefore = s
  <2> DEFINE IsReset(i) == /\ i = 0 \/ app[i].op = "reset"
                         /\ \A j \in (i + 1)..LastLaunch : app[j].op = "launch"
  <2>1. IsReset(s) /\ s \in 0..e
    BY <1>3, <1>4, <1>5
  <2>2. ASSUME NEW i \in 0..e, NEW j \in 0..e, IsReset(i), IsReset(j) PROVE ~(i < j)
    <3>1. SUFFICES ASSUME i < j PROVE FALSE
      OBVIOUS
    <3>2. j # 0 /\ j \in (i + 1)..e
      BY <1>3, <2>2, <3>1
    <3>3. QED
      BY <1>5, <2>2, <3>2
  <2>3. ResetBefore = CHOOSE i \in 0..e : IsReset(i)
    BY <1>5 DEF ResetBefore
  <2> HIDE DEF IsReset
  <2>4. ResetBefore \in 0..e /\ IsReset(ResetBefore)
    BY <2>1, <2>3
  <2>5. ~(ResetBefore < s) /\ ~(s < ResetBefore)
    BY <2>1, <2>2, <2>4
  <2>6. QED
    BY <1>3, <2>1, <2>4, <2>5
<1>7. Profiled = [n \in 1..(e - s) |-> s + n]
  BY <1>5, <1>6 DEF Profiled
<1>8. ASSUME NEW n \in 1..(e - s)
      PROVE  [kname |-> ProfileRows[n].kname, kcount |-> ProfileRows[n].kcount,
              counts |-> [c \in Prof!Columns |-> Cardinality(Executions(Profiled[n], c))]]
             = RowOf(s + n)
  <2>1. Profiled[n] = s + n /\ n \in DOMAIN Profiled
    BY <1>7
  <2>2. ProfileRows[n] = [kname |-> app[s + n].kname,
                          kcount |-> Cardinality(LaunchesBefore(s + n, app[s + n].kname))]
    BY <2>1 DEF ProfileRows
  <2>3. QED
    BY <2>1, <2>2 DEF RowOf
<1>9. DOMAIN Profiled = 1..(e - s)
  BY <1>7
<1>10. QED
  BY <1>4, <1>8, <1>9

\* Whatever the order of the threads' additions, wherever the application resets the
\* device, the profile that sites are drawn from is the application's.
THEOREM ProfileIsExact == CampaignSpec => []ProfileIsTheRows
<1>1. CampaignInit => ProfInv
  BY ProfInit
<1>2. ProfInv /\ [CampaignStep \/ Over]_campaignVars => ProfInv'
  BY ProfStep
<1>3. ProfInv => ProfileIsTheRows
  BY FileIsTheProfile
<1>4. QED
  BY <1>1, <1>2, <1>3, PTL DEF CampaignSpec
=============================================================================
