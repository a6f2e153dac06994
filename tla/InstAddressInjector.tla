-------------------------- MODULE InstAddressInjector --------------------------
(***************************************************************************)
(* The instruction-output address injector: err_injector/injector.cu with  *)
(* INJ_MODE == INST_ADDRESS_INJECTIONS. The handlers make an instruction   *)
(* that has already written its result look as if it had written it        *)
(* elsewhere: the before handler saves what the instruction will           *)
(* overwrite, the after handler puts that back and takes the result aside. *)
(* A store's result is written to the wrong address at once, a register's  *)
(* when the thread next reads the wrong register.                          *)
(*                                                                         *)
(* Both handlers are called around every instruction (the flag that names  *)
(* these instructions for the before handler is undefined in the build).   *)
(***************************************************************************)
EXTENDS InjectorHost, ThreadMachine

CONSTANTS IntBits,  \* width of an int
          SeedMax   \* a seed s stands for the fraction s / SeedMax of [0, 1)

ASSUME GridsAssumption == Grids \subseteq [Threads -> Seq(Instructions)]
\* No data races: other threads do not access what a thread stores in a kernel.
\* (A load that races with the selected store may see its value at the right
\* address, and the restoration there undoes a racing store.)
ASSUME RaceFreeAssumption ==
    \A g \in Grids, t, u \in Threads : t # u =>
        \A i \in DOMAIN g[t], j \in DOMAIN g[u] :
            g[t][i].op = "store" /\ g[u][j].op # "alu" => g[t][i].addr # g[u][j].addr
ASSUME SeedsAssumption ==
    /\ IntBits \in 2..AddrBits /\ SeedMax \in Nat \ {0}
    /\ \A s \in Sites : /\ s.igid \in {"GPR", "STORE_OP"}
                        /\ s.bfm \in {"FLIP_SINGLE_BIT", "FLIP_TWO_BITS"}
                        /\ {s.opSeed, s.bidSeed} \subseteq 0..(SeedMax - 1)

VARIABLES code, pc, regs, mem,   \* the machine: streams, positions, registers, memory
          at,             \* per thread: where around its instruction it is
          injCounter,     \* injCountersInstType[injIGID]
          injThreadID, readyToInject, errorInjected, errorInjectedAfter,  \* inj_info
          saved,          \* reg_info_d or mem_info_d: places and values
          tmp,            \* tmp_store_reg_info_d, or injected_address and current_mem_val
          resolved,       \* where errorInjected was set (history)
          aborted,        \* the device killed a kernel
          injections      \* lines ":::Injecting"

infoVars == <<injCounter, injThreadID, readyToInject, errorInjected, errorInjectedAfter,
              saved, tmp, resolved>>
machineVars == <<code, pc, regs, mem, at, aborted>>
vars == <<hostVars, machineVars, infoVars, injections>>

NoThread == -1
NoCode == [t \in Threads |-> <<>>]
Lost == [a \in Addrs |-> <<>>]
Steps == {"before", "select", "arm", "save", "execute", "after", "write", "restore"}

TypeOK ==
    /\ HostTypeOK
    /\ code \in Grids \cup {NoCode}
    /\ pc \in [Threads -> Nat \ {0}] /\ \A t \in Threads : pc[t] <= Len(code[t]) + 1
    /\ \A t \in Threads : DOMAIN regs[t] = Regs
    /\ DOMAIN mem = Addrs
    /\ at \in [Threads -> Steps]
    /\ Cardinality({t \in Threads : at[t] \in {"select", "arm", "save", "write", "restore"}}) <= 1
    /\ injCounter \in Nat
    /\ injThreadID \in Threads \cup {NoThread}
    /\ {readyToInject, errorInjected, errorInjectedAfter, aborted} \subseteq BOOLEAN
    /\ DOMAIN saved \subseteq Regs \/ DOMAIN saved \subseteq Addrs
    /\ resolved \in Nat
    /\ Cardinality(injections) <= 1

NoPlace == [place |-> {}, value |-> <<>>]
Nothing == [r \in {} |-> <<>>]

Init ==
    /\ HostInit
    /\ code = NoCode
    /\ pc = [t \in Threads |-> 1]
    /\ regs = InitRegs
    /\ mem = InitMem
    /\ at = [t \in Threads |-> "before"]
    /\ injCounter = 0
    /\ injThreadID = NoThread /\ resolved = 0
    /\ readyToInject = FALSE /\ errorInjected = FALSE /\ errorInjectedAfter = FALSE
    /\ saved = Nothing /\ tmp = NoPlace
    /\ aborted = FALSE
    /\ injections = {}

-----------------------------------------------------------------------------
(* The host. After a fault launches fail until the device is reset, but    *)
(* the callbacks run.                                                      *)

StartThreads ==
    /\ pc' = [t \in Threads |-> 1]
    /\ at' = [t \in Threads |-> "before"]
    /\ regs' = InitRegs
NoKernel == code' = NoCode /\ StartThreads

\* reset_inj_info
ResetInjInfo ==
    /\ injThreadID' = NoThread /\ resolved' = 0
    /\ readyToInject' = FALSE /\ errorInjected' = FALSE /\ errorInjectedAfter' = FALSE

LaunchKernel ==
    /\ EnterLaunch
    /\ injCounter' = 0
    /\ IF InitDue THEN ResetInjInfo
       ELSE UNCHANGED <<injThreadID, readyToInject, errorInjected, errorInjectedAfter, resolved>>
    /\ IF aborted THEN NoKernel ELSE code' = app[hpc].grid /\ StartThreads
    /\ UNCHANGED <<mem, aborted, injections, saved, tmp>>

Finished(t) == pc[t] > Len(code[t])

\* Also of a kernel that was killed.
ExitKernel ==
    /\ \A t \in Threads : Finished(t)
    /\ LeaveLaunch(FALSE)
    /\ NoKernel
    /\ UNCHANGED <<mem, aborted, infoVars, injections>>

Reset ==
    /\ ResetDevice
    /\ mem' = InitMem
    /\ saved' = Nothing /\ tmp' = NoPlace
    /\ aborted' = FALSE
    /\ UNCHANGED <<code, pc, regs, at, injCounter, injThreadID, readyToInject, errorInjected,
                   errorInjectedAfter, resolved, injections>>

Exit == ReturnFromMain /\ UNCHANGED <<machineVars, infoVars, injections>>

-----------------------------------------------------------------------------
(* The before handler.                                                     *)

Instruction(t) == code[t][pc[t]]
IntInjId(n, seed) == (n * seed) \div SeedMax

\* The thread is at step; beyond the first one, in the launch of the site.
Is(t, step) == phase = "kernel" /\ ~aborted /\ ~Finished(t) /\ at[t] = step
GoTo(t, step) == at' = [at EXCEPT ![t] = step]

\* Mutant: GetInstrWillExecute is not asked.
HandledAlways(t) == areParamsReady

Handled(t) == areParamsReady /\ Instruction(t).runs

\* A register error waits to be seen by the thread that has it.
Waits == readyToInject /\ site.igid = "GPR"

\* is_src_reg, is_dest_reg
Reads(t) == tmp.place \in Instruction(t).srcs
Writes(t) == \E i \in DOMAIN Instruction(t).dsts : Instruction(t).dsts[i] = tmp.place

\* The first access of the thread to the wrong register: the value is put there
\* for an instruction that reads it, and dropped for one that only writes it.
Pass(t) ==
    /\ Is(t, "before") /\ Handled(t) /\ Waits
    /\ LET now == injThreadID = t /\ ~errorInjected /\ (Reads(t) \/ Writes(t)) IN
       /\ errorInjected' = (errorInjected \/ now)
       /\ resolved' = IF now THEN pc[t] ELSE resolved
       /\ regs' = IF now /\ Reads(t) THEN [regs EXCEPT ![t][tmp.place] = tmp.value] ELSE regs
    /\ GoTo(t, "execute")
    /\ UNCHANGED <<hostVars, code, pc, mem, aborted, injCounter, injThreadID, readyToInject,
                   errorInjectedAfter, saved, tmp, injections>>

\* Mutant: the old value of the counter is compared, as in the value mode.
CountFromZero(t) ==
    /\ Is(t, "before") /\ Handled(t) /\ ~Waits /\ InGroup(Instruction(t), site.igid)
    /\ injCounter' = injCounter + 1
    /\ GoTo(t, IF injCounter = site.iid + 1 THEN "select" ELSE "execute")
    /\ UNCHANGED <<hostVars, code, pc, regs, mem, aborted, injThreadID, readyToInject,
                   errorInjected, errorInjectedAfter, saved, tmp, resolved, injections>>

\* atomicAdd(&injCountersInstType[group], 1) + 1
Count(t) ==
    /\ Is(t, "before") /\ Handled(t) /\ ~Waits /\ InGroup(Instruction(t), site.igid)
    /\ injCounter' = injCounter + 1
    /\ GoTo(t, IF injCounter + 1 = site.iid THEN "select" ELSE "execute")
    /\ UNCHANGED <<hostVars, code, pc, regs, mem, aborted, injThreadID, readyToInject,
                   errorInjected, errorInjectedAfter, saved, tmp, resolved, injections>>

\* An instruction that the handler has nothing to do with.
Ignore(t) ==
    /\ Is(t, "before")
    /\ ~Handled(t) \/ (~Waits /\ ~InGroup(Instruction(t), site.igid))
    /\ GoTo(t, "execute")
    /\ UNCHANGED <<hostVars, code, pc, regs, mem, aborted, infoVars, injections>>

Select(t) ==
    /\ Is(t, "select")
    /\ injThreadID' = t
    /\ GoTo(t, "arm")
    /\ UNCHANGED <<hostVars, code, pc, regs, mem, aborted, injCounter, readyToInject,
                   errorInjected, errorInjectedAfter, saved, tmp, resolved, injections>>

Arm(t) ==
    /\ Is(t, "arm")
    /\ readyToInject' = TRUE
    /\ GoTo(t, "save")
    /\ UNCHANGED <<hostVars, code, pc, regs, mem, aborted, injCounter, injThreadID,
                   errorInjected, errorInjectedAfter, saved, tmp, resolved, injections>>

\* Mutant: only the first destination is recorded.
SavedFirst(ins, rf, m) ==
    IF site.igid = "GPR" THEN [r \in Regs |-> IF r = ins.dsts[1] THEN rf[r] ELSE <<>>]
    ELSE [a \in {ins.addr} |-> m[a]]

\* All destination registers, or the word the store will overwrite.
Saved(ins, rf, m) ==
    IF site.igid = "GPR" THEN [r \in {ins.dsts[i] : i \in DOMAIN ins.dsts} |-> rf[r]]
    ELSE [a \in {ins.addr} |-> m[a]]

Save(t) ==
    /\ Is(t, "save")
    /\ saved' = Saved(Instruction(t), regs[t], mem)
    /\ GoTo(t, "execute")
    /\ UNCHANGED <<hostVars, code, pc, regs, mem, aborted, injCounter, injThreadID,
                   readyToInject, errorInjected, errorInjectedAfter, tmp, resolved, injections>>

Execute(t) ==
    /\ Is(t, "execute")
    /\ IF Instruction(t).runs
       THEN /\ regs' = [regs EXCEPT ![t] = RegsAfter(t, pc[t], Instruction(t), regs[t], mem)]
            /\ mem' = MemAfter(t, pc[t], Instruction(t), regs[t], mem)
       ELSE UNCHANGED <<regs, mem>>
    /\ GoTo(t, "after")
    /\ UNCHANGED <<hostVars, code, pc, aborted, infoVars, injections>>

-----------------------------------------------------------------------------
(* The after handler.                                                      *)

Struck(t) == areParamsReady /\ readyToInject /\ ~errorInjectedAfter /\ injThreadID = t

Proceed(t) == pc' = [pc EXCEPT ![t] = @ + 1] /\ GoTo(t, "before")

\* The bits of the register number or of the address that may be flipped: an int
\* shifted by a bit index of the register number or of the whole address.
Flips(group) ==
    IF group = "GPR"
    THEN {Shift(FlipMask(site.bfm), IntInjId(RegBits, site.bidSeed), RegBits + 1)}
    ELSE IntShift(FlipMask(site.bfm), IntInjId(AddrBits, site.bidSeed), IntBits, AddrBits)

Report(t, mask) ==
    injections' = injections \cup {[launch |-> hpc, tid |-> t, pc |-> pc[t], mask |-> mask]}

\* The destination that the operand seed chooses.
Right(t) == Instruction(t).dsts[1 + IntInjId(Len(Instruction(t).dsts), site.opSeed)]

\* Take the result of the chosen destination aside and put its old value back.
Misdirect(t) ==
    LET right == Right(t) IN
    /\ Is(t, "after") /\ Struck(t) /\ site.igid = "GPR"
    /\ \E mask \in Flips("GPR") :
          /\ tmp' = [place |-> Xor(right, mask), value |-> regs[t][right]]
          /\ Report(t, mask)
    /\ regs' = [regs EXCEPT ![t][right] = saved[right]]
    /\ errorInjectedAfter' = TRUE
    /\ Proceed(t)
    /\ UNCHANGED <<hostVars, code, mem, aborted, injCounter, injThreadID, readyToInject,
                   errorInjected, saved, resolved>>

\* Read back what the store wrote.
ReadBack(t) ==
    LET right == Instruction(t).addr IN
    /\ Is(t, "after") /\ Struck(t) /\ site.igid = "STORE_OP"
    /\ \E mask \in Flips("STORE_OP") :
          /\ tmp' = [place |-> Xor(right, mask), value |-> mem[right]]
          /\ Report(t, mask)
    /\ GoTo(t, "write")
    /\ UNCHANGED <<hostVars, code, pc, regs, mem, aborted, injCounter, injThreadID,
                   readyToInject, errorInjected, errorInjectedAfter, saved, resolved>>

WriteWrong(t) ==
    /\ Is(t, "write")
    /\ mem' = [mem EXCEPT ![tmp.place] = tmp.value]
    /\ GoTo(t, "restore")
    /\ UNCHANGED <<hostVars, code, pc, regs, aborted, infoVars, injections>>

RestoreRight(t) ==
    LET right == Instruction(t).addr IN
    /\ Is(t, "restore")
    /\ mem' = [mem EXCEPT ![right] = saved[right]]
    /\ errorInjectedAfter' = TRUE
    /\ Proceed(t)
    /\ UNCHANGED <<hostVars, code, regs, aborted, injCounter, injThreadID, readyToInject,
                   errorInjected, saved, tmp, resolved, injections>>

NoError(t) ==
    /\ Is(t, "after") /\ ~Struck(t)
    /\ Proceed(t)
    /\ UNCHANGED <<hostVars, code, regs, mem, aborted, infoVars, injections>>

\* The device kills a kernel that holds the error: at once, when the wrong address
\* is not mapped, or later.
DeviceFault ==
    /\ phase = "kernel" /\ ~aborted /\ areParamsReady /\ injections # {}
    /\ NoKernel
    /\ mem' = Lost
    /\ aborted' = TRUE
    /\ UNCHANGED <<hostVars, infoVars, injections>>

Terminated == phase = "exited" /\ UNCHANGED vars

Before(t) == Pass(t) \/ Count(t) \/ Ignore(t) \/ Select(t) \/ Arm(t) \/ Save(t)
After(t) == Misdirect(t) \/ ReadBack(t) \/ WriteWrong(t) \/ RestoreRight(t) \/ NoError(t)

Step ==
    \/ LaunchKernel \/ ExitKernel \/ Reset \/ Exit \/ DeviceFault
    \/ \E t \in Threads : Before(t) \/ Execute(t) \/ After(t)

Next == Step \/ Terminated

Spec == Init /\ [][Next]_vars

-----------------------------------------------------------------------------
(* Properties.                                                             *)

InstructionOf(e) == app[e.launch].grid[e.tid][e.pc]

\* The wrong register is known when the instruction has executed.
Wrong(t) == CHOOSE r \in {Xor(Right(t), mask) : mask \in Flips("GPR")} : TRUE

\* A register result: struck when it is written, it counts as written to the wrong
\* register, to the end of the instruction that first accesses that register.
Written(t) == site.igid = "GPR" /\ Is(t, "after") /\ Struck(t)
TakenAside(t) ==
    /\ phase = "kernel" /\ ~aborted /\ areParamsReady
    /\ site.igid = "GPR" /\ errorInjectedAfter /\ injThreadID = t
    /\ ~errorInjected \/ (at[t] = "execute" /\ pc[t] = resolved)
SeenRegs == [t \in Threads |-> [r \in Regs |->
    IF Written(t) /\ r = Wrong(t) THEN regs[t][Right(t)]
    ELSE IF Written(t) /\ r = Right(t) THEN saved[r]
    ELSE IF TakenAside(t) /\ r = tmp.place THEN tmp.value
    ELSE regs[t][r]]]

\* A stored result: struck when it is written to the wrong address; until then, and
\* to its restoration, the right address is seen as it was before.
Stored(t) == site.igid = "STORE_OP" /\ ((Is(t, "after") /\ Struck(t)) \/ Is(t, "write"))
SeenMem == [a \in Addrs |->
    IF (\E t \in Threads : Stored(t) \/ Is(t, "restore")) /\ a \in DOMAIN saved
    THEN saved[a] ELSE mem[a]]

SeenPc == [t \in Threads |-> IF Is(t, "restore") \/ (Is(t, "after") /\ ~Stored(t))
                             THEN pc[t] + 1 ELSE pc[t]]
HasStruck == \/ \E t \in Threads : Written(t)
             \/ (injections # {} /\ \A t \in Threads : ~Is(t, "write"))

Ideal == INSTANCE MisdirectedWrite
         WITH Codes <- Grids, regs <- SeenRegs, mem <- SeenMem, pc <- SeenPc, struck <- HasStruck

\* What the handlers fake step by step is one misdirected write: a program run
\* under them computes, in every register and memory word, what it would compute
\* if one instruction wrote its result to a wrong place.
ImplementsMisdirection == Ideal!Spec

\* The instruction struck is of the site's group, it was executed, and it is in
\* the launch that the site names.
SiteIsStruck ==
    \A e \in injections :
        IsNamedLaunch(e.launch) /\ InstructionOf(e).runs /\ InGroup(InstructionOf(e), site.igid)

\* One bit of the register number or of the address, or two adjacent ones, are
\* flipped. Of an address this holds only where the shifted int stays positive.
FlippedBits == IF site.bfm = "FLIP_TWO_BITS" THEN 2 ELSE 1
FlipIsTheModel ==
    site.igid = "GPR" \/ IntInjId(AddrBits, site.bidSeed) + FlippedBits < IntBits =>
        \A e \in injections : \E b \in e.mask : e.mask = b..(b + FlippedBits - 1)
=============================================================================
