-------------------------- MODULE MCProfilingHandlers --------------------------
(***************************************************************************)
(* Two agents. The pool has room for f and g, not for h and another.       *)
(***************************************************************************)
EXTENDS ProfilingHandlers

Of(what, of) == [what |-> what, of |-> of]
F == <<Of("function", "f"), Of("block", <<"f", 1>>), Of("block", <<"f", 2>>)>>
FinG == <<Of("function", "g"), Of("block", <<"g", 1>>)>> \o F
H == <<Of("function", "h"), Of("block", <<"h", 1>>)>>
MCNumBlocks == [f \in {"f", "g", "h"} |-> IF f = "g" THEN 1 ELSE 2]

L(g) == [op |-> "launch", grid |-> g]
R == [op |-> "reset"]
CfgApps == {<<L(<<F, FinG>>), L(<<F, <<>>>>), R, L(<<FinG, F>>)>>,
            <<L(<<F, F>>), R, R, L(<<H, FinG>>)>>,
            <<L(<<F, FinG>>), L(<<H, F>>)>>, <<L(<<F, H>>)>>}

\* Warps of three lanes, the first without the third.
Ins(pupc, opcode, active, runs, line, dsts) ==
    [pupc |-> pupc, opcode |-> opcode, active |-> active, runs |-> runs, line |-> line, dsts |-> dsts]
Lds == {Ins("p", "LD", {1, 2, 3}, runs, line, <<>>) :
          runs \in SUBSET {1, 2, 3}, line \in [1..3 -> {0, 1, 2, NotGlobal}]}
Fixed == Ins("q", "ST", {1, 2}, {2}, [l \in 1..3 |-> 1], <<>>)
CountApps == {<<L(<<<<ld, Fixed>>, <<Fixed, ld>>>>), R, L(<<<<ld>>, <<Fixed>>>>)>> : ld \in Lds}

Vs == {{}, {0}, {0, 1}}
ValueIns == {Ins("p", "IADD", {1, 2}, {1, 2}, [l \in 1..3 |-> NotGlobal], <<d, d2>>) :
               d \in [1..2 -> Vs], d2 \in {[l \in 1..2 |-> {1}]}}
ValueApps == {<<L(<<<<i>>, <<j>>>>), L(<<<<j>>, <<>>>>), R, L(<<<<i>>, <<i>>>>)>> : i, j \in ValueIns}

MCLibs == {"cfg", "ophist", "opcode", "memdiverge", "valueprof"}
MCAppsOf == [l \in MCLibs |->
    CASE l = "cfg" -> CfgApps [] l = "valueprof" -> ValueApps [] OTHER -> CountApps]
=============================================================================
