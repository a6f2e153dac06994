----------------------------- MODULE WarpProfilers -----------------------------
(***************************************************************************)
(* Four handlers of SASSI/instlibs/src that count what warps execute:      *)
(* ophist.cu, opcode.cu, memdiverge.cu and valueprof.cu. An item is the    *)
(* execution of an instruction by a warp:                                  *)
(*   pupc, opcode                                                          *)
(*   active   the lanes in the handler                                     *)
(*   runs     those of them whose predicate is true (GetInstrWillExecute)  *)
(*   line     per lane: the cache line of its address, NotGlobal if that   *)
(*            is in shared or local memory or there is none                *)
(*   dsts     per destination register and lane: the value, as the set of  *)
(*            the bits that are 1                                          *)
(* The lanes execute an atomic operation together; the atomics of one      *)
(* warp's handler interleave with those of the others.                     *)
(***************************************************************************)
EXTENDS HandlerHost, FiniteSetsExt

CONSTANTS Bits,      \* of a register
          NotGlobal

ASSUME BitsAssumption == IsFiniteSet(Bits) /\ 0 \in Bits

VARIABLES counts,  \* opcode, instruction or <<active, diverged>> -> its counter
          stats,   \* instruction -> SASSOp
          todo     \* per warp: the atomics its handler has still to execute

warpVars == <<counts, stats, todo>>

Operands == [constantOnes : SUBSET Bits, constantZeros : SUBSET Bits, isScalar : SUBSET Bits]

Atomics == {"ones", "zeros", "scalar", "end"} \X Nat

WarpTypeOK ==
    /\ \A k \in DOMAIN counts : counts[k] \in Nat \ {0}
    /\ \A p \in DOMAIN stats : stats[p] \in [weight : Nat, operands : Seq(Operands)]
    /\ todo \in [Agents -> Seq(Atomics)]
    /\ \A w \in Agents : \A i \in DOMAIN todo[w] :
          todo[w][i][2] \in 0..Len(stats[Item(w).pupc].operands)

Nothing == <<>>  \* the function without arguments

WarpInit ==
    /\ counts = Nothing /\ stats = Nothing
    /\ todo = [w \in Agents |-> <<>>]

WarpLaunch ==
    /\ IF InitDue THEN counts' = Nothing /\ stats' = Nothing ELSE UNCHANGED <<counts, stats>>
    /\ UNCHANGED todo

Add(f, k, n) == [x \in DOMAIN f \cup {k} |-> (IF x \in DOMAIN f THEN f[x] ELSE 0)
                                              + (IF x = k THEN n ELSE 0)]

Begins(w) == More(w) /\ todo[w] = <<>>

\* Mutant: a round of the loop removes its leader only.
RoundsOfAll(line, lanes) == Cardinality(lanes)

\* memdiverge's loop: the first lane of the workset leads, the lanes with its line
\* leave the workset; the number of rounds.
Rounds(line, lanes) ==
    LET rounds[workset \in SUBSET lanes] ==
            IF workset = {} THEN 0
            ELSE LET leader == Min(workset) IN
                 1 + rounds[{l \in workset : line[l] # line[leader]}]
    IN  rounds[lanes]

\* The lanes that get to memdiverge's loop.
Tracked(it) == {l \in it.runs : it.line[l] # NotGlobal}

\* ophist's handler counts lanes, the others warps: their first active lane.
CountedKey(it) ==
    CASE lib = "ophist" -> <<it.opcode>>
      [] lib = "opcode" -> <<it.pupc>>
      [] lib = "memdiverge" -> <<Cardinality(Tracked(it)), Rounds(it.line, Tracked(it))>>

\* The handlers with one atomicAdd; what it is added to is there, or initialised.
Count(w) ==
    LET it == Item(w)
        n == CASE lib = "ophist" -> Cardinality(it.runs)
               [] lib = "opcode" -> 1
               [] lib = "memdiverge" -> IF Tracked(it) = {} THEN 0 ELSE 1
    IN  /\ lib # "valueprof" /\ Begins(w)
        /\ counts' = IF n = 0 THEN counts ELSE Add(counts, CountedKey(it), n)
        /\ Advance(w)
        /\ UNCHANGED <<stats, todo>>

\* SASSOp::init: every bit is taken for constant, and the values for the same.
NewOp(it) ==
    [weight |-> 0, operands |-> [d \in DOMAIN it.dsts |->
        [constantOnes |-> Bits, constantZeros |-> Bits, isScalar |-> Bits]]]

\* valueprof's handler: getOrInit, atomicAdd of the weight ...
Find(w) ==
    LET it == Item(w)
        op == IF it.pupc \in DOMAIN stats THEN stats[it.pupc] ELSE NewOp(it)
        atomics == <<"ones", "zeros", "scalar">>
    IN  /\ lib = "valueprof" /\ Begins(w)
        /\ stats' = [p \in DOMAIN stats \cup {it.pupc} |->
                        IF p = it.pupc THEN [op EXCEPT !.weight = @ + Cardinality(it.active)]
                        ELSE stats[p]]
        /\ todo' = [todo EXCEPT ![w] = [i \in 1..(3 * Len(it.dsts)) |->
                        <<atomics[((i - 1) % 3) + 1], ((i - 1) \div 3) + 1>>] \o <<<<"end", 0>>>>]
        /\ UNCHANGED <<pc, counts>>

\* The bits that a value has in all of the lanes.
InAll(lanes, value) == {b \in Bits : \A l \in lanes : b \in value[l]}

\* What the warp's leader makes of the vote: 1 or 0.
AllSame(it, d) ==
    IF \A l \in it.active : it.dsts[d][l] = it.dsts[d][Min(it.active)] THEN {0} ELSE {}

\* Mutant: the leader's vote replaces the earlier ones.
AtomicLastVote(op, what, it, d) ==
    CASE what = "ones" -> [op EXCEPT !.constantOnes = @ \cap InAll(it.active, it.dsts[d])]
      [] what = "zeros" -> [op EXCEPT !.constantZeros =
                               @ \cap InAll(it.active, [l \in it.active |-> Bits \ it.dsts[d][l]])]
      [] what = "scalar" -> [op EXCEPT !.isScalar = AllSame(it, d)]

\* The atomicAnds of one destination.
Atomic(op, what, it, d) ==
    CASE what = "ones" -> [op EXCEPT !.constantOnes = @ \cap InAll(it.active, it.dsts[d])]
      [] what = "zeros" -> [op EXCEPT !.constantZeros =
                               @ \cap InAll(it.active, [l \in it.active |-> Bits \ it.dsts[d][l]])]
      [] what = "scalar" -> [op EXCEPT !.isScalar = @ \cap AllSame(it, d)]

\* ... and the atomicAnds of each destination.
And(w) ==
    LET it == Item(w)
        what == Head(todo[w])[1]
        d == Head(todo[w])[2]
    IN  /\ todo[w] # <<>>
        /\ todo' = [todo EXCEPT ![w] = Tail(@)]
        /\ IF what = "end"
           THEN Advance(w) /\ UNCHANGED stats
           ELSE /\ stats' = [stats EXCEPT ![it.pupc].operands[d] = Atomic(@, what, it, d)]
                /\ UNCHANGED pc
        /\ UNCHANGED counts

WarpStep(w) == Count(w) \/ Find(w) \/ And(w)

\* What the finalize callback prints.
WarpData == IF lib = "valueprof" THEN stats ELSE counts
=============================================================================
