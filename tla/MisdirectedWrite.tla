--------------------------- MODULE MisdirectedWrite ----------------------------
(***************************************************************************)
(* What an address error is: one instruction of a run writes its result to *)
(* another register, or stores it at another address, than the one it      *)
(* names. Everything else executes as written.                             *)
(***************************************************************************)
EXTENDS ThreadMachine

CONSTANT Codes    \* what a launch may run: an instruction stream per thread

VARIABLES code,   \* the streams of the last launch
          pc,     \* per thread: the next instruction
          regs,   \* per thread: its registers
          mem,    \* the memory of the device
          struck  \* an instruction was struck

vars == <<code, pc, regs, mem, struck>>

NoCode == [t \in Threads |-> <<>>]
Lost == [a \in Addrs |-> <<>>]
Fresh == pc' = [t \in Threads |-> 1] /\ regs' = InitRegs

Init ==
    /\ code = NoCode
    /\ pc = [t \in Threads |-> 1]
    /\ regs = InitRegs
    /\ mem = InitMem
    /\ struck = FALSE

Launch == code = NoCode /\ code' \in Codes /\ Fresh /\ UNCHANGED <<mem, struck>>

\* A kernel runs to its end, unless the error kills it: then the memory of the
\* device is lost.
End == code' = NoCode /\ Fresh /\ (\A t \in Threads : pc[t] > Len(code[t])) /\ UNCHANGED <<mem, struck>>
Kill == code' = NoCode /\ Fresh /\ mem' = Lost /\ struck' = TRUE

\* A device reset.
Wipe == code = NoCode /\ mem' = InitMem /\ UNCHANGED <<code, pc, regs, struck>>

At(t) == code[t][pc[t]]
Proceed(t) == pc[t] <= Len(code[t]) /\ pc' = [pc EXCEPT ![t] = @ + 1] /\ UNCHANGED code

\* The instruction is executed, unless its predicate is false.
Execute(t) ==
    /\ Proceed(t)
    /\ IF At(t).runs
       THEN /\ regs' = [regs EXCEPT ![t] = RegsAfter(t, pc[t], At(t), regs[t], mem)]
            /\ mem' = MemAfter(t, pc[t], At(t), regs[t], mem)
       ELSE UNCHANGED <<regs, mem>>
    /\ UNCHANGED struck

Nowhere == {RegBits}  \* not a register

\* It writes one of its results to a wrong register, which need not exist.
StrikeRegister(t) ==
    /\ ~struck /\ Proceed(t) /\ At(t).runs
    /\ \E i \in DOMAIN At(t).dsts :
          LET result == RegsAfter(t, pc[t], At(t), regs[t], mem)
              right == At(t).dsts[i]
          IN \E wrong \in (Regs \ {right}) \cup {Nowhere} :
                regs' = [regs EXCEPT ![t] = [r \in Regs |->
                            IF r = wrong THEN result[right]
                            ELSE IF r = right THEN regs[t][r] ELSE result[r]]]
    /\ mem' = MemAfter(t, pc[t], At(t), regs[t], mem)
    /\ struck' = TRUE

\* It stores at a wrong address, which need not be mapped.
StrikeStore(t) ==
    /\ ~struck /\ Proceed(t) /\ At(t).runs /\ At(t).op = "store"
    /\ LET value == Value(t, pc[t], 0, At(t), regs[t], mem)
       IN \E wrong \in (Addrs \ {At(t).addr}) : mem' \in {mem, [mem EXCEPT ![wrong] = value]}
    /\ regs' = [regs EXCEPT ![t] = RegsAfter(t, pc[t], At(t), regs[t], mem)]
    /\ struck' = TRUE

Next ==
    \/ Launch \/ End \/ Kill \/ Wipe
    \/ \E t \in Threads : Execute(t) \/ StrikeRegister(t) \/ StrikeStore(t)

Spec == Init /\ [][Next]_vars
=============================================================================
