--------------------------- MODULE ProfilingHandlers ---------------------------
(***************************************************************************)
(* An application linked with one of the profiling libraries: cfg, ophist, *)
(* opcode, memdiverge or valueprof (branch is the user of Dictionary).     *)
(***************************************************************************)
EXTENDS CfgProfiler, WarpProfilers, SequencesExt

IsSequence(s) == s \in Seq(ToSet(s))

\* The items of the launches of an application.
AppItems(a) == UNION {ToSet(a[i].grid[g]) : i \in {c \in DOMAIN a : a[c].op = "launch"}, g \in Agents}

CfgItems == [what : {"function"}, of : Functions] \cup [what : {"block"}, of : Blocks]
IsWarpItem(it) ==
    /\ IsFiniteSet(it.active) /\ it.active \subseteq Nat /\ it.runs \subseteq it.active
    /\ IsSequence(it.dsts)

\* A thread enters a function before its blocks.
EntersFirst(s) ==
    \A n \in DOMAIN s : s[n].what = "block" =>
        \E m \in 1..(n - 1) : s[m] = [what |-> "function", of |-> s[n].of[1]]

\* An instruction has as many destinations whenever it is executed.
ASSUME AppsAssumption ==
    /\ Libs \subseteq {"cfg", "ophist", "opcode", "memdiverge", "valueprof"}
    /\ \A l \in Libs : \A a \in AppsOf[l] :
          /\ IsSequence(a)
          /\ \A c \in DOMAIN a : a[c].op = "launch" => \A g \in Agents : IsSequence(a[c].grid[g])
          /\ IF l = "cfg"
             THEN /\ AppItems(a) \subseteq CfgItems
                  /\ \A c \in DOMAIN a : a[c].op = "launch" => \A g \in Agents : EntersFirst(a[c].grid[g])
             ELSE \A x, y \in AppItems(a) :
                    IsWarpItem(x) /\ (x.pupc = y.pupc => Len(x.dsts) = Len(y.dsts))

vars == <<hostVars, cfgVars, warpVars>>

TypeOK == HostTypeOK /\ CfgTypeOK /\ WarpTypeOK

Init == HostInit /\ CfgInit /\ WarpInit

IsCfg == lib = "cfg"
Alive == failed = "none"
Data == IF IsCfg THEN CfgData ELSE WarpData

HostStep ==
    \/ Launch /\ IF IsCfg THEN CfgLaunch /\ UNCHANGED warpVars ELSE WarpLaunch /\ UNCHANGED cfgVars
    \/ (Leave \/ Reset(Data) \/ Exit(Data)) /\ UNCHANGED <<cfgVars, warpVars>>

DeviceStep(a) ==
    /\ UNCHANGED <<lib, app, hpc, phase, validData, since, file>>
    /\ \/ IsCfg /\ CfgStep(a) /\ UNCHANGED warpVars
       \/ ~IsCfg /\ WarpStep(a) /\ UNCHANGED cfgVars

\* A failed assertion stops the device.
Terminated == (phase = "exited" \/ ~Alive) /\ UNCHANGED vars

Next == (Alive /\ (HostStep \/ \E a \in Agents : DeviceStep(a))) \/ Terminated

Spec == Init /\ [][Next]_vars

-----------------------------------------------------------------------------
(* Properties.                                                             *)

\* The records and block arrays of the functions lie in the pool and do not
\* overlap, whichever threads copy them at a time.
Pieces ==
    UNION {{[of |-> <<f, "cfg">>, from |-> sassi_cfg[f].cfg, size |-> sizeofCFG],
            [of |-> <<f, "blocks">>, from |-> sassi_cfg[f].blocks, size |-> sizeofBLOCK * NumBlocks[f]]} :
             f \in {g \in Functions : sassi_cfg[g].state = "valid"}}
AllocationsAreDisjoint ==
    \A p, q \in Pieces :
        /\ p.from + p.size <= POOLSIZE
        /\ p.of # q.of => p.from + p.size <= q.from \/ q.from + q.size <= p.from

\* The graph that is drawn has the functions that were entered, and the weight of a
\* block is the number of times that threads have entered it since the library
\* was initialised; and no thread enters a block that the dictionary does not have.
EnteredFunctions(calls) == {ItemOf(x).of : x \in {y \in Executions(calls) : ItemOf(y).what = "function"}}
Entries(calls, b) == {x \in Executions(calls) : ItemOf(x).what = "block" /\ ItemOf(x).of = b}
WeightsAreEntries ==
    /\ failed # "entry"
    /\ IsCfg => \A i \in DOMAIN file :
          file[i].data = {<<b, Cardinality(Entries(file[i].calls, b))>> :
                            b \in {c \in Blocks : c[1] \in EnteredFunctions(file[i].calls)}}

\* A dump of ophist counts the threads that executed an opcode, one of opcode the
\* warps that came to an instruction, one of memdiverge the accesses by so many
\* threads to so many lines; those that append account for every launch of the run.
Lanes(calls, op) ==
    UNION {{<<x, l>> : l \in ItemOf(x).runs} : x \in {y \in Executions(calls) : ItemOf(y).opcode = op}}
Warps(calls, pupc) == {x \in Executions(calls) : ItemOf(x).pupc = pupc}
Accesses(calls, n, u) ==
    {x \in Executions(calls) : LET it == ItemOf(x) IN
        Cardinality(Tracked(it)) = n /\ Cardinality({it.line[l] : l \in Tracked(it)}) = u}
Counter(dump, k) == IF k \in DOMAIN dump.data THEN dump.data[k] ELSE 0
CountsAreOfTheRun ==
    /\ \A i \in DOMAIN file : LET calls == file[i].calls IN
        /\ lib = "ophist" => \A x \in Executions(calls) :
             Counter(file[i], <<ItemOf(x).opcode>>) = Cardinality(Lanes(calls, ItemOf(x).opcode))
        /\ lib = "opcode" => \A x \in Executions(calls) :
             Counter(file[i], <<ItemOf(x).pupc>>) = Cardinality(Warps(calls, ItemOf(x).pupc))
        /\ lib = "memdiverge" => \A n \in 1..Cardinality(UNION {ItemOf(x).active : x \in Executions(calls)}) :
             \A u \in 1..n : Counter(file[i], <<n, u>>) = Cardinality(Accesses(calls, n, u))
    /\ Appends /\ phase = "exited" =>
          \A c \in Calls : app[c].op = "launch" => \E i \in DOMAIN file : c \in file[i].calls

\* What valueprof says of a destination is true of every value that a thread has had
\* in it: a bit printed as constant was so, and a scalar was the same in the
\* threads of each warp; and the instruction's weight is the number of threads.
Values(calls, pupc, d) ==
    UNION {{ItemOf(x).dsts[d][l] : l \in ItemOf(x).active} : x \in Warps(calls, pupc)}
StatsAreOfTheValues ==
    lib = "valueprof" => \A i \in DOMAIN file : \A p \in DOMAIN file[i].data :
        LET calls == file[i].calls
            op == file[i].data[p]
        IN  /\ op.weight = Cardinality(UNION {{<<x, l>> : l \in ItemOf(x).active} : x \in Warps(calls, p)})
            /\ \A d \in DOMAIN op.operands : LET values == Values(calls, p, d) IN
                 /\ op.operands[d].constantOnes = {b \in Bits : \A v \in values : b \in v}
                 /\ op.operands[d].constantZeros = {b \in Bits : \A v \in values : b \notin v}
                 /\ (op.operands[d].isScalar # {}) <=>
                      \A x \in Warps(calls, p) : \A k, l \in ItemOf(x).active :
                          ItemOf(x).dsts[d][k] = ItemOf(x).dsts[d][l]
=============================================================================
