-------------------------- MODULE InstValueInjector ---------------------------
(***************************************************************************)
(* The instruction-output value injector: err_injector/injector.cu         *)
(* compiled with INJ_MODE == INST_VALUE_INJECTIONS. sassi_after_handler    *)
(* runs in the active threads of a warp after every instruction that       *)
(* writes registers or memory. Each thread whose instruction belongs to    *)
(* the group injIGID takes the old value of the group's counter; the one   *)
(* that takes injInstID gets the error, and with a warp-wide bit-flip      *)
(* model the active threads vote (__any) and all get it.                   *)
(*                                                                         *)
(* The threads of a warp execute an instruction together; their atomicAdds *)
(* interleave with each other's and with those of the other warps.         *)
(***************************************************************************)
EXTENDS InjectorHost, BitFlip

CONSTANTS Warps,    \* the warps of a grid
          Threads,
          WarpOf,   \* the warp of a thread
          MaxDsts,  \* the most GPR destinations of an instruction
          SeedMax,  \* a seed s stands for the fraction s / SeedMax of [0, 1)
          GprBits,  \* width of a GPR
          LongBits  \* of the widest word; a store of twice as many bits is a pair

ASSUME WarpsAssumption == WarpOf \in [Threads -> Warps]
ASSUME SeedsAssumption ==
    SeedMax \in Nat \ {0} /\ \A s \in Sites : {s.opSeed, s.bidSeed} \subseteq 0..(SeedMax - 1)
ASSUME WidthsAssumption == GprBits \in Nat \ {0, 1} /\ LongBits \in Nat \ {0} /\ MaxDsts \in Nat

\* get_op_category
Categories == {"IADD_IMUL_OP", "FADD_FMUL_OP", "DADD_DMUL_OP", "MAD_OP", "FFMA_OP",
               "DFMA_OP", "SETP_OP", "LDS_OP", "LD_OP", "MISC_OP"}
Groups == {"GPR", "CC", "PR", "STORE_OP"} \cup Categories

ThreadModels == {"FLIP_SINGLE_BIT", "FLIP_TWO_BITS", "RANDOM_VALUE", "ZERO_VALUE"}
WarpModels == {"WARP_FLIP_SINGLE_BIT", "WARP_FLIP_TWO_BITS", "WARP_RANDOM_VALUE",
               "WARP_ZERO_VALUE"}

\* The supported models of a group: the injection lists hold no others.
Supported(igid) ==
    IF igid \in {"CC", "PR"} THEN {"FLIP_SINGLE_BIT"}
    ELSE IF igid = "SETP_OP" THEN {"FLIP_SINGLE_BIT", "WARP_FLIP_SINGLE_BIT"}
    ELSE ThreadModels \cup WarpModels

\* A warp instruction: its category, how many GPRs it writes, whether it writes
\* CC, which predicates, how many bits of memory, and the threads that execute it.
Instructions == [cat : Categories, gprs : 0..MaxDsts, cc : BOOLEAN, pr : SUBSET (0..6),
                 store : 0..(2 * LongBits), active : SUBSET Threads]

ASSUME GridsAssumption ==
    /\ Grids \subseteq [Warps -> Seq(Instructions)]
    /\ \A g \in Grids : \A w \in Warps : \A p \in DOMAIN g[w] :
           \A t \in g[w][p].active : WarpOf[t] = w
ASSUME ModelsAssumption == \A s \in Sites : s.igid \in Groups /\ s.bfm \in Supported(s.igid)

VARIABLES injCounter,  \* injCountersInstType[injIGID]
          wpc,         \* per warp: the instruction it is at
          at,          \* per thread: where in the handler it is
          old,         \* per thread: currInstCounter
          aborted,     \* the running kernel was killed
          errors       \* lines ":::Injecting", with what the error did

deviceVars == <<injCounter, wpc, at, old, aborted, errors>>
vars == <<hostVars, deviceVars>>

Steps == {"count", "vote", "inject", "done"}
Operands == [kind : {"GPR"}, num : 0..MaxDsts] \cup [kind : {"CC", "PR", "MEM"}, num : {0}]
Effects == {"flip1", "flip2", "random", "zero"}
Errors == [launch : Nat, tid : Threads, pc : Nat, operand : Operands, effect : Effects,
           bits : SUBSET Nat]  \* the bits it inverts; {} where it overwrites

TypeOK ==
    /\ HostTypeOK
    /\ injCounter \in Nat
    /\ wpc \in [Warps -> Nat \ {0}]
    /\ at \in [Threads -> Steps]
    /\ old \in [Threads -> Nat]
    /\ aborted \in BOOLEAN
    /\ errors \subseteq Errors

Init ==
    /\ HostInit
    /\ injCounter = 0
    /\ wpc = [w \in Warps |-> 1]
    /\ at = [t \in Threads |-> "count"]
    /\ old = [t \in Threads |-> 0]
    /\ aborted = FALSE
    /\ errors = {}

-----------------------------------------------------------------------------
(* What the handler asks of an instruction.                                *)

Code(w) == app[hpc].grid[w]
Finished(w) == wpc[w] > Len(Code(w))
Instruction(w) == Code(w)[wpc[w]]
Running(w) == phase = "kernel" /\ ~aborted /\ ~Finished(w)

\* has_dest_GPR, has_dest_CC, has_dest_PR, is_store_inst or the category.
InGroup(ins, group) ==
    CASE group = "GPR"      -> ins.gprs > 0
      [] group = "CC"       -> ins.cc
      [] group = "PR"       -> ins.pr # {}
      [] group = "STORE_OP" -> ins.store > 0
      [] group = "MISC_OP"  -> FALSE
      [] OTHER              -> ins.cat = group

\* The models for which cond is replaced by __any(cond).
Votes ==
    IF site.igid \in {"CC", "PR"}
    THEN site.bfm = "WARP_FLIP_SINGLE_BIT"
    ELSE site.bfm \in WarpModels \cup {"ZERO_VALUE"}

\* get_int_inj_id
IntInjId(n, seed) == (n * seed) \div SeedMax

GPR(i) == [kind |-> "GPR", num |-> i]
CC  == [kind |-> "CC", num |-> 0]
PR  == [kind |-> "PR", num |-> 0]
MEM == [kind |-> "MEM", num |-> 0]

\* inject_reg_error adds the numbers of destinations and only then compares the
\* sum with zero, so numDestOps is 0 or 1.
NumDestOps(ins) == IF ins.gprs > 0 \/ ins.cc \/ ins.pr # {} THEN 1 ELSE 0

\* The operand that the error goes to; inject_reg_error returns without one.
OperandsHit(ins) ==
    LET id == IntInjId(NumDestOps(ins), site.opSeed) IN
    CASE site.igid = "GPR"      -> {GPR(IntInjId(ins.gprs, site.opSeed))}
      [] site.igid = "CC"       -> {CC}
      [] site.igid = "PR"       -> {PR}
      [] site.igid = "STORE_OP" -> {MEM}
      [] OTHER ->
           IF NumDestOps(ins) = 0 THEN {}
           ELSE IF id < ins.gprs THEN {GPR(id)}
           ELSE IF id - ins.gprs + 1 = (IF ins.cc THEN 1 ELSE 0) THEN {CC}
           ELSE {PR}

\* What a model means for a register or a memory word.
EffectOf(bfm) ==
    CASE bfm \in {"FLIP_SINGLE_BIT", "WARP_FLIP_SINGLE_BIT"} -> "flip1"
      [] bfm \in {"FLIP_TWO_BITS", "WARP_FLIP_TWO_BITS"}     -> "flip2"
      [] bfm \in {"RANDOM_VALUE", "WARP_RANDOM_VALUE"}       -> "random"
      [] bfm \in {"ZERO_VALUE", "WARP_ZERO_VALUE"}           -> "zero"

\* inject_CC_error and inject_PR_error flip for FLIP_SINGLE_BIT only, and write
\* zero for every other model.
EffectOn(operand) ==
    IF operand.kind \in {"CC", "PR"}
    THEN IF site.bfm = "FLIP_SINGLE_BIT" THEN "flip1" ELSE "zero"
    ELSE EffectOf(site.bfm)

\* Mutant: the first of two bits is drawn from the whole register.
GprShiftWhole == Shift(FlipMask(site.bfm), IntInjId(GprBits, site.bidSeed), GprBits)

\* inject_GPR_error: the first of two bits is never the top one.
GprShift ==
    Shift(FlipMask(site.bfm),
          IntInjId(IF EffectOf(site.bfm) = "flip2" THEN GprBits - 1 ELSE GprBits, site.bidSeed), GprBits)

\* The bits that a flip changes: one set, or several where the shift is undefined.
Flipped(operand, ins) ==
    IF EffectOn(operand) \notin {"flip1", "flip2"} THEN {{}}
    ELSE CASE operand.kind = "GPR" -> {GprShift}
           [] operand.kind = "CC"  -> {Shift({0}, IntInjId(4, site.bidSeed), 4)}
           [] operand.kind = "PR"  -> {InjMask(ins.pr)}
           [] operand.kind = "MEM" ->
                  LET n == IntInjId(ins.store, site.bidSeed) IN
                  IF ins.store <= LongBits THEN {Shift(FlipMask(site.bfm), n, ins.store)}
                  ELSE QuadShift(FlipMask(site.bfm), n, LongBits)

-----------------------------------------------------------------------------
(* The host.                                                               *)

\* ENTER of a launch: the counters are reset and the warps start.
LaunchKernel ==
    /\ EnterLaunch
    /\ injCounter' = 0
    /\ wpc' = [w \in Warps |-> 1]
    /\ at' = [t \in Threads |-> "count"]
    /\ old' = [t \in Threads |-> 0]
    /\ aborted' = FALSE
    /\ UNCHANGED errors

\* onKernelExit has nothing to report in this mode.
ExitKernel ==
    /\ phase = "kernel" /\ (aborted \/ \A w \in Warps : Finished(w))
    /\ LeaveLaunch(FALSE)
    /\ UNCHANGED deviceVars

Reset == ResetDevice /\ UNCHANGED deviceVars

Exit == ReturnFromMain /\ UNCHANGED deviceVars

-----------------------------------------------------------------------------
(* The handler, in thread t of warp WarpOf[t].                             *)

InHandler(t, step) ==
    LET w == WarpOf[t] IN
    /\ Running(w) /\ areParamsReady
    /\ t \in Instruction(w).active /\ InGroup(Instruction(w), site.igid)
    /\ at[t] = step

\* Mutant: the counter is read and written back without an atomicAdd.
CountLosingUpdates(t) ==
    /\ InHandler(t, "count")
    /\ old' = [old EXCEPT ![t] = injCounter]
    /\ injCounter' \in {injCounter, injCounter + 1}
    /\ at' = [at EXCEPT ![t] = IF Votes THEN "vote"
                               ELSE IF injCounter = site.iid THEN "inject" ELSE "done"]
    /\ UNCHANGED <<hostVars, wpc, aborted, errors>>

\* Mutant: the counter's new value is compared, as in the register-file mode.
CountFromOne(t) ==
    /\ InHandler(t, "count")
    /\ old' = [old EXCEPT ![t] = injCounter + 1]
    /\ injCounter' = injCounter + 1
    /\ at' = [at EXCEPT ![t] = IF Votes THEN "vote"
                               ELSE IF injCounter + 1 = site.iid THEN "inject" ELSE "done"]
    /\ UNCHANGED <<hostVars, wpc, aborted, errors>>

\* atomicAdd(&injCountersInstType[group], 1) returns the old value.
Count(t) ==
    /\ InHandler(t, "count")
    /\ old' = [old EXCEPT ![t] = injCounter]
    /\ injCounter' = injCounter + 1
    /\ at' = [at EXCEPT ![t] = IF Votes THEN "vote"
                               ELSE IF injCounter = site.iid THEN "inject" ELSE "done"]
    /\ UNCHANGED <<hostVars, wpc, aborted, errors>>

\* Mutant: __any answers when one thread has counted, not all of them.
MayVoteEarly(w) == \E t \in Instruction(w).active : InHandler(t, "vote")

\* Mutant: __any waits for the threads that do not execute the instruction.
MayVoteWholeWarp(w) ==
    /\ Instruction(w).active # {}
    /\ \A t \in Threads : WarpOf[t] = w => InHandler(t, "vote")

\* All active threads of the warp have come to __any.
MayVote(w) ==
    /\ Instruction(w).active # {}
    /\ \A t \in Instruction(w).active : InHandler(t, "vote")

\* __any(cond)
Vote(w) ==
    /\ Running(w) /\ MayVote(w)
    /\ LET voters == {t \in Instruction(w).active : at[t] = "vote"}
           any == \E t \in voters : old[t] = site.iid
       IN at' = [t \in Threads |-> IF t \in voters THEN IF any THEN "inject" ELSE "done"
                                   ELSE at[t]]
    /\ UNCHANGED <<hostVars, injCounter, wpc, old, aborted, errors>>

\* inject_GPR_error, inject_CC_error, inject_PR_error, inject_store_error or
\* inject_reg_error, according to the group.
Inject(t) ==
    /\ InHandler(t, "inject")
    /\ LET ins == Instruction(WarpOf[t])
           Hit(o) == {[launch |-> hpc, tid |-> t, pc |-> wpc[WarpOf[t]], operand |-> o,
                       effect |-> EffectOn(o), bits |-> b] : b \in Flipped(o, ins)}
       IN \/ OperandsHit(ins) = {} /\ UNCHANGED errors
          \/ \E o \in OperandsHit(ins) : \E e \in Hit(o) : errors' = errors \cup {e}
    /\ at' = [at EXCEPT ![t] = "done"]
    /\ UNCHANGED <<hostVars, injCounter, wpc, old, aborted>>

\* The warp goes on when its active threads have left the handler, or at once
\* when the handler has nothing to do.
Advance(w) ==
    /\ Running(w)
    /\ LET ins == Instruction(w) IN
       \/ ~areParamsReady \/ ~InGroup(ins, site.igid)
       \/ \A t \in ins.active : at[t] = "done"
    /\ wpc' = [wpc EXCEPT ![w] = @ + 1]
    /\ at' = [t \in Threads |-> IF WarpOf[t] = w THEN "count" ELSE at[t]]
    /\ UNCHANGED <<hostVars, injCounter, old, aborted, errors>>

\* The device kills a kernel that runs with the injected error.
DeviceFault ==
    /\ phase = "kernel" /\ ~aborted /\ areParamsReady /\ errors # {}
    /\ aborted' = TRUE
    /\ UNCHANGED <<hostVars, injCounter, wpc, at, old, errors>>

Terminated == phase = "exited" /\ UNCHANGED vars

Next ==
    \/ LaunchKernel \/ ExitKernel \/ Reset \/ Exit \/ DeviceFault \/ Terminated
    \/ \E t \in Threads : Count(t) \/ Inject(t)
    \/ \E w \in Warps : Vote(w) \/ Advance(w)

Spec == Init /\ [][Next]_vars

\* The device schedules every warp of a running grid and the host thread returns
\* from its calls, as long as the program holds no error.
FairSpec == Spec /\ WF_vars(Next /\ errors = {})
-----------------------------------------------------------------------------
(* Properties.                                                             *)

InstructionOf(e) == app[e.launch].grid[WarpOf[e.tid]][e.pc]

\* The errors of a run are the threads of one dynamic warp instruction, of the
\* site's group and of the launch the site names, in the same operand: no
\* interleaving of the threads around the counter hits a second instruction.
ErrorsAreOneInstruction ==
    /\ \A e \in errors : /\ IsNamedLaunch(e.launch)
                         /\ e.tid \in InstructionOf(e).active
                         /\ InGroup(InstructionOf(e), site.igid)
    /\ \A e, f \in errors : /\ e.launch = f.launch /\ e.pc = f.pc
                            /\ WarpOf[e.tid] = WarpOf[f.tid]
                            /\ e.operand = f.operand /\ e.effect = f.effect

\* The models of one thread, ZERO_VALUE apart, put one error into one thread; a
\* warp-wide model has reached every active thread of the warp when the warp
\* goes on.
ThreadsOfTheModel ==
    /\ site.bfm \in ThreadModels \ {"ZERO_VALUE"} => Cardinality(errors) <= 1
    /\ site.bfm \in WarpModels =>
          \A e \in errors :
             phase = "kernel" /\ e.launch = hpc /\ wpc[WarpOf[e.tid]] > e.pc =>
                {f.tid : f \in errors} = InstructionOf(e).active

\* "one bit-flip in one register", "bit-flips in two adjacent bits" (README.md:48,
\* 49, 52 and 53), stated of the bit-flip model of the site: the error inverts one bit,
\* or two adjacent ones, whatever the destination held. The code keeps this with
\* two exceptions. CC and the predicates are set to zero for every model but
\* FLIP_SINGLE_BIT (injector.cu:384 and 414), also for the warp-wide single bit-flip of
\* a SETP instruction, which README.md:57 allows. Two bits
\* of a store need a neighbour: the top bit of a word has none, and for bit 63 of a
\* pair the shift by -1 leaves it out.
IsFlag(operand) == operand.kind \in {"CC", "PR"}
HasNeighbour(ins) ==
    LET n == IntInjId(ins.store, site.bidSeed) IN
    n # ins.store - 1 /\ ~(ins.store > LongBits /\ n = LongBits - 1)
FlipsAreTheModel ==
    \A e \in errors :
        /\ site.bfm = "FLIP_SINGLE_BIT" => Cardinality(e.bits) = 1
        /\ site.bfm = "WARP_FLIP_SINGLE_BIT" /\ ~IsFlag(e.operand) => Cardinality(e.bits) = 1
        /\ /\ site.bfm \in {"FLIP_TWO_BITS", "WARP_FLIP_TWO_BITS"} /\ ~IsFlag(e.operand)
           /\ e.operand.kind = "MEM" => HasNeighbour(InstructionOf(e))
           => \E b \in e.bits : e.bits = {b, b + 1}

\* The threads of a warp never wait for each other for good in the vote: a
\* program without an error runs to its end.
RunEndsOrIsInjected == <>(phase = "exited" \/ errors # {})

\* "Zero value: zero out the value of one register in one thread"
\* (README.md:51).
OneThreadUnlessWarpModel == site.bfm \in ThreadModels => Cardinality(errors) <= 1
=============================================================================
