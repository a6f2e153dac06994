----------------------------- MODULE MCRfInjector -----------------------------
(***************************************************************************)
(* A small instance of RfInjector: two threads, one register, and          *)
(* applications that launch the target kernel twice with another kernel or *)
(* a device reset in between. The instructions are a read, a write, one    *)
(* that does both, one that does neither and a predicated-off access.      *)
(***************************************************************************)
EXTENDS RfInjector, TLC

CONSTANTS t1, t2, r1, k1, k2, MaxIid

Nop   == [src |-> {}, dst |-> {}, exec |-> TRUE]
Read  == [src |-> {r1}, dst |-> {}, exec |-> TRUE]
Write == [src |-> {}, dst |-> {r1}, exec |-> TRUE]
Both  == [src |-> {r1}, dst |-> {r1}, exec |-> TRUE]
Off   == [src |-> {r1}, dst |-> {r1}, exec |-> FALSE]

MCKNames == {k1, k2}
MCThreads == {t1, t2}
MCRegs == {r1}

\* The orders of accesses to r1 that a thread of the target kernel may have. The
\* last one ends without an access: selected at Off, the register is never read.
Streams == {<<Off, Write>>, <<Nop, Both>>, <<Write, Read>>, <<Read, Write>>, <<Read, Off>>}

MCGrids == [MCThreads -> Streams]

Launch(k, g) == [op |-> "launch", kname |-> k, grid |-> g]
ResetCall == [op |-> "reset"]

MCApps ==
    UNION {LET target == Launch(k1, g) IN
           {<<target, ResetCall, target>>, <<target, Launch(k2, g), target>>} : g \in MCGrids}

MCSites == [kname : {k1}, kcount : 0..1, iid : 0..MaxIid, reg : {r1}]
=============================================================================
