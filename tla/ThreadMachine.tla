----------------------------- MODULE ThreadMachine -----------------------------
(***************************************************************************)
(* What the address injector and the profiler see of a GPU thread: a       *)
(* stream of instructions that read registers or memory and write          *)
(* registers or memory. Values are terms: a value is known by the          *)
(* instruction that computed it and by what that instruction had read.     *)
(***************************************************************************)
EXTENDS BitFlip, Sequences

CONSTANTS Threads,   \* flat thread numbers
          RegBits,   \* width of a register number
          AddrBits   \* width of an address

ASSUME ThreadsAssumption == Threads \subseteq Nat
ASSUME WidthsAssumption == RegBits \in Nat \ {0} /\ AddrBits \in Nat

Regs == SUBSET (0..(RegBits - 1))
Addrs == SUBSET (0..(AddrBits - 1))

\* op: whether it accesses memory at addr; runs: whether its predicate lets it. (A
\* store writes no register; atomic operations, which do both, are left out.)
Instructions ==
    {i \in [srcs : SUBSET Regs, dsts : Seq(Regs), op : {"alu", "load", "store"},
            addr : Addrs, runs : BOOLEAN] : i.op = "store" => i.dsts = <<>>}

\* is_store_inst, has_dest_GPR
InGroup(ins, group) ==
    CASE group = "GPR"      -> ins.dsts # <<>>
      [] group = "STORE_OP" -> ins.op = "store"

Memory == -1
InitRegs == [t \in Threads |-> [r \in Regs |-> <<<<t, 0, r>>, {}>>]]
InitMem == [a \in Addrs |-> <<<<Memory, 0, a>>, {}>>]

\* What the instruction at p of thread t computes for its i-th destination (0 for
\* memory) from registers rf and memory m.
Value(t, p, i, ins, rf, m) ==
    <<<<t, p, {i}>>, {<<r, rf[r]>> : r \in ins.srcs} \cup
                     {<<a, m[a]>> : a \in IF ins.op = "load" THEN {ins.addr} ELSE {}}>>

\* The registers and the memory after the instruction.
RegsAfter(t, p, ins, rf, m) ==
    [r \in Regs |-> IF \E i \in DOMAIN ins.dsts : ins.dsts[i] = r
                    THEN Value(t, p, CHOOSE i \in DOMAIN ins.dsts : ins.dsts[i] = r, ins, rf, m)
                    ELSE rf[r]]
MemAfter(t, p, ins, rf, m) ==
    IF ins.op = "store" THEN [m EXCEPT ![ins.addr] = Value(t, p, 0, ins, rf, m)] ELSE m
=============================================================================
