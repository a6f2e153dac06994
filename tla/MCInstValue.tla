------------------------------ MODULE MCInstValue ------------------------------
(***************************************************************************)
(* A small instance of InstValueInjector: a warp of two threads and a warp *)
(* of one, instructions with several destinations, partly active ones and  *)
(* stores, and applications with two launches of the target kernel.        *)
(***************************************************************************)
EXTENDS InstValueCampaign, TLC

CONSTANTS w1, w2, t1, t2, t3, k1, k2, MaxIid

MCKNames == {k1, k2}
MCWarps == {w1, w2}
MCThreads == {t1, t2, t3}
MCWarpOf == t1 :> w1 @@ t2 :> w1 @@ t3 :> w2

\* Wide writes two GPRs and CC, Set two predicates, Store n bits of memory.
Wide(a)  == [cat |-> "IADD_IMUL_OP", gprs |-> 2, cc |-> TRUE, pr |-> {}, store |-> 0, active |-> a]
Set(a)   == [cat |-> "SETP_OP", gprs |-> 0, cc |-> FALSE, pr |-> {1, 3}, store |-> 0, active |-> a]
Store(n, a) == [cat |-> "MISC_OP", gprs |-> 0, cc |-> FALSE, pr |-> {}, store |-> n, active |-> a]

MCGrids ==
    {[w \in MCWarps |-> IF w = w1 THEN <<Wide({t1, t2}), Set({t1, t2})>> ELSE <<Wide({t3})>>],
     [w \in MCWarps |-> IF w = w1 THEN <<Wide({t2}), Store(4, {t1, t2})>>
                                  ELSE <<Set({t3}), Store(8, {t3})>>]}

Launch(k, g) == [op |-> "launch", kname |-> k, grid |-> g]
ResetCall == [op |-> "reset"]

MCApps ==
    UNION {LET target == Launch(k1, g) IN
           {<<target, ResetCall, target>>, <<target, Launch(k2, g), target>>, <<target, ResetCall>>}
           : g \in MCGrids}

MCSites ==
    {s \in [kname : {k1}, kcount : 0..1, iid : 0..MaxIid, opSeed : {4}, bidSeed : {3, 7},
            igid : {"GPR", "CC", "PR", "STORE_OP", "IADD_IMUL_OP", "SETP_OP"},
            bfm : ThreadModels \cup WarpModels] :
        s.bfm \in Supported(s.igid) /\ (s.bidSeed = 7 => s.iid = 1)}
=============================================================================
