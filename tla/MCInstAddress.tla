----------------------------- MODULE MCInstAddress -----------------------------
(***************************************************************************)
(* Two threads, four registers, 16 addresses. The streams read or write    *)
(* what a flipped register number leads to, with one and two destinations, *)
(* and one thread loads from where another may store by mistake.           *)
(***************************************************************************)
EXTENDS InstAddressCampaign, TLC

CONSTANTS k1, k2, MaxIid

MCThreads == {0, 1}
MCKNames == {k1, k2}

\* Registers 0 to 3 and addresses as sets of bits.
R0 == {}
R1 == {0}
R2 == {1}
R3 == {0, 1}
A(b) == {b}

Alu(s, d)   == [srcs |-> s, dsts |-> d, op |-> "alu", addr |-> {}, runs |-> TRUE]
Load(d, a)  == [srcs |-> {}, dsts |-> d, op |-> "load", addr |-> a, runs |-> TRUE]
Store(s, a) == [srcs |-> s, dsts |-> <<>>, op |-> "store", addr |-> a, runs |-> TRUE]
Off(ins)    == [ins EXCEPT !.runs = FALSE]

Pair == [t \in {0, 1} |->
    IF t = 0 THEN <<Alu({R0}, <<R0, R1>>), Off(Alu({R1}, <<R2>>)), Alu({R1, R2}, <<R1>>), Store({R0, R1}, A(0))>>
             ELSE <<Load(<<R0>>, {0, 1}), Store({R0}, A(1))>>]
Overwrite == [t \in {0, 1} |->
    IF t = 0 THEN <<Alu({R0}, <<R1>>), Alu({R3}, <<R0>>), Alu({R0, R3}, <<R2>>)>>
             ELSE <<Store({R1}, A(2)), Load(<<R2>>, A(2)), Store({R2}, {})>>]
Arithmetic == [t \in {0, 1} |-> IF t = 0 THEN <<Alu({R2}, <<R2>>)>> ELSE <<>>]

MCGrids == {Pair, Overwrite, Arithmetic}

Launch(k, g) == [op |-> "launch", kname |-> k, grid |-> g]
ResetCall == [op |-> "reset"]

MCApps ==
    {<<Launch(k1, Pair), Launch(k2, Arithmetic), Launch(k1, Overwrite)>>,
     <<Launch(k1, Overwrite), ResetCall, Launch(k1, Pair), Launch(k2, Arithmetic)>>,
     <<Launch(k2, Arithmetic), ResetCall>>}

MCSites ==
    [kname : {k1, k2}, kcount : 0..1, iid : 0..MaxIid, opSeed : {0, SeedMax - 1},
     bidSeed : 0..(SeedMax - 1), igid : {"GPR", "STORE_OP"},
     bfm : {"FLIP_SINGLE_BIT", "FLIP_TWO_BITS"}]
=============================================================================
