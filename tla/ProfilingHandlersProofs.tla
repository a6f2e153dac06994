------------------------ MODULE ProfilingHandlersProofs ------------------------
(***************************************************************************)
(* Proofs about the profiling libraries, for any application, any number   *)
(* of threads or warps and any pool: their types; that the graphs that the *)
(* threads of cfg copy into the pool do not overlap, and that it draws     *)
(* what has been entered; and that what the other libraries dump is true   *)
(* of what the warps have executed.                                        *)
(***************************************************************************)
EXTENDS ProfilingHandlers, FiniteSetTheorems, WellFoundedInduction, TLAPS

-----------------------------------------------------------------------------
(* The inductive invariant.                                                *)

\* A kernel runs only for a launch; valid data goes back to a launch.
HostInv ==
    /\ phase = "kernel" => hpc \in Calls /\ app[hpc].op = "launch"
    /\ phase = "kernel" => validData
    /\ validData => since >= 1 /\ since <= hpc
    /\ file \in Seq(ToSet(file))

\* A thread with a step to do is in the entry of a function; it enters the blocks of
\* a function that has been copied.
ThreadOK(t) ==
    /\ at[t] # "idle" => IsCfg /\ More(t) /\ Item(t).what = "function"
    /\ at[t] \in {"register", "fill"} => sassi_cfg[Fn(t)].state = "valid"
    /\ bb[t] >= 1
    /\ at[t] = "fill" => bb[t] <= NumBlocks[Fn(t)]
ThreadInv == \A t \in Agents : ThreadOK(t)

\* The pieces of the pool: those of the copied functions, and the records of the
\* functions whose blocks are still to be allocated.
Record(f, from) == [of |-> <<f, "cfg">>, from |-> from, size |-> sizeofCFG]
Array(f, from) == [of |-> <<f, "blocks">>, from |-> from, size |-> sizeofBLOCK * NumBlocks[f]]
Copied == {f \in Functions : sassi_cfg[f].state = "valid"}
Used ==
    {Record(f, sassi_cfg[f].cfg) : f \in Copied} \cup {Array(f, sassi_cfg[f].blocks) : f \in Copied}
      \cup {Record(Fn(t), cPtr[t]) : t \in {a \in Agents : at[a] = "blocks"}}

Apart(p, q) == p.from + p.size <= q.from \/ q.from + q.size <= p.from

\* They lie below the cursor and in the pool.
PoolInv ==
    /\ \A p \in Used : p.from + p.size <= sassi_mempool_cur /\ p.from + p.size <= POOLSIZE
    /\ \A p, q \in Used : p.of # q.of => Apart(p, q)

\* A warp with an atomic to do is at an item, and the item's instruction has a SASSOp
\* with as many operands as the instruction has destinations; the end is last.
WarpInv ==
    /\ \A w \in Agents : todo[w] # <<>> => ~IsCfg /\ More(w) /\ Item(w).pupc \in DOMAIN stats
    /\ \A w \in Agents : \A i \in DOMAIN todo[w] : todo[w][i][1] = "end" <=> i = Len(todo[w])
    /\ \A it \in AppItems(app) : ~IsCfg /\ it.pupc \in DOMAIN stats =>
           Len(stats[it.pupc].operands) = Len(it.dsts)

IInv == TypeOK /\ HostInv /\ ThreadInv /\ PoolInv /\ WarpInv

-----------------------------------------------------------------------------
(* Sequences, items and products.                                          *)

LEMMA SeqSubset ==
    ASSUME NEW S, NEW T, S \subseteq T, NEW s \in Seq(S)
    PROVE  s \in Seq(T)
<1>1. s = [i \in 1..Len(s) |-> s[i]] /\ Len(s) \in Nat
  OBVIOUS
<1>2. \A i \in 1..Len(s) : s[i] \in T
  OBVIOUS
<1>3. s \in [1..Len(s) -> T]
  BY <1>1, <1>2
<1>4. QED
  BY <1>1, <1>3

LEMMA SeqOfItself ==
    ASSUME NEW S, NEW s \in Seq(S)
    PROVE  IsSequence(s)
<1>1. s = [i \in 1..Len(s) |-> s[i]] /\ Len(s) \in Nat /\ DOMAIN s = 1..Len(s)
  OBVIOUS
<1>2. \A i \in 1..Len(s) : s[i] \in ToSet(s)
  BY <1>1 DEF ToSet
<1>3. s \in [1..Len(s) -> ToSet(s)]
  BY <1>1, <1>2
<1>4. QED
  BY <1>1, <1>3 DEF IsSequence

LEMMA SequenceFacts ==
    ASSUME NEW s, IsSequence(s)
    PROVE  Len(s) \in Nat /\ DOMAIN s = 1..Len(s)
  BY DEF IsSequence

LEMMA SequenceAppend ==
    ASSUME NEW s, IsSequence(s), NEW x
    PROVE  /\ IsSequence(Append(s, x)) /\ Len(Append(s, x)) = Len(s) + 1
           /\ \A i \in DOMAIN Append(s, x) :
                  (i \in DOMAIN s /\ Append(s, x)[i] = s[i]) \/ Append(s, x)[i] = x
<1> DEFINE T == ToSet(s) \cup {x}
<1>1. s \in Seq(T)
  BY SeqSubset DEF IsSequence
<1>2. Append(s, x) \in Seq(T) /\ Len(Append(s, x)) = Len(s) + 1
  BY <1>1
<1>3. \A i \in DOMAIN Append(s, x) :
          (i \in DOMAIN s /\ Append(s, x)[i] = s[i]) \/ Append(s, x)[i] = x
  BY <1>1
<1>4. QED
  BY <1>2, <1>3, SeqOfItself

LEMMA Products ==
    ASSUME NEW a \in Nat, NEW b \in Nat, NEW c \in Nat, b <= c
    PROVE  a * b \in Nat /\ a * c \in Nat /\ a * b <= a * c /\ a * (b + 1) = a * b + a
  OBVIOUS

LEMMA Sizes ==
    /\ POOLSIZE \in Nat \ {0} /\ sizeofCFG \in Nat \ {0} /\ sizeofBLOCK \in Nat \ {0}
    /\ \A f \in Functions : NumBlocks[f] \in Nat \ {0} /\ sizeofBLOCK * NumBlocks[f] \in Nat \ {0}
<1>1. POOLSIZE \in Nat \ {0} /\ sizeofCFG \in Nat \ {0} /\ sizeofBLOCK \in Nat \ {0}
  BY PoolAssumption
<1>2. ASSUME NEW f \in Functions
      PROVE NumBlocks[f] \in Nat \ {0} /\ sizeofBLOCK * NumBlocks[f] \in Nat \ {0}
  <2>1. NumBlocks[f] \in Nat \ {0}
    BY PoolAssumption
  <2>2. \A m, n \in Nat \ {0} : m * n \in Nat \ {0}
    OBVIOUS
  <2>3. QED
    BY <1>1, <2>1, <2>2
<1>3. QED
  BY <1>1, <1>2

\* Launches and their streams.
LEMMA AppFacts ==
    ASSUME HostTypeOK
    PROVE  /\ Len(app) \in Nat /\ DOMAIN app = Calls /\ Calls = 1..Len(app)
           /\ \A c \in Calls : app[c].op = "launch" => \A g \in Agents :
                 /\ Len(app[c].grid[g]) \in Nat /\ DOMAIN app[c].grid[g] = 1..Len(app[c].grid[g])
                 /\ \A n \in DOMAIN app[c].grid[g] : app[c].grid[g][n] \in AppItems(app)
<1>1. lib \in Libs /\ app \in AppsOf[lib]
  BY DEF HostTypeOK
<1>2. Len(app) \in Nat /\ DOMAIN app = 1..Len(app)
  BY <1>1, AppsAssumption, SequenceFacts
<1>3. ASSUME NEW c \in Calls, app[c].op = "launch", NEW g \in Agents
      PROVE  /\ Len(app[c].grid[g]) \in Nat /\ DOMAIN app[c].grid[g] = 1..Len(app[c].grid[g])
             /\ \A n \in DOMAIN app[c].grid[g] : app[c].grid[g][n] \in AppItems(app)
  <2>1. IsSequence(app[c].grid[g])
    BY <1>1, <1>2, <1>3, AppsAssumption DEF Calls
  <2>2. c \in {d \in DOMAIN app : app[d].op = "launch"}
    BY <1>2, <1>3 DEF Calls
  <2>3. \A n \in DOMAIN app[c].grid[g] : app[c].grid[g][n] \in ToSet(app[c].grid[g])
    BY DEF ToSet
  <2>4. ToSet(app[c].grid[g]) \subseteq AppItems(app)
    BY <2>2 DEF AppItems
  <2>5. QED
    BY <2>1, <2>3, <2>4, SequenceFacts
<1>4. QED
  BY <1>2, <1>3 DEF Calls

\* The item that an agent is at.
LEMMA ItemFacts ==
    ASSUME HostTypeOK, HostInv, NEW t \in Agents, More(t)
    PROVE  /\ Item(t) \in AppItems(app) /\ phase = "kernel" /\ Len(Stream(t)) \in Nat
           /\ IsCfg => Item(t) \in CfgItems
           /\ ~IsCfg => IsWarpItem(Item(t))
<1>1. phase = "kernel" /\ pc[t] <= Len(app[hpc].grid[t])
  BY DEF More, Stream
<1>2. hpc \in Calls /\ app[hpc].op = "launch" /\ pc[t] \in Nat \ {0}
  BY <1>1 DEF HostInv, HostTypeOK
<1>3. pc[t] \in DOMAIN app[hpc].grid[t] /\ Len(app[hpc].grid[t]) \in Nat
  BY <1>1, <1>2, AppFacts
<1>4. Item(t) \in AppItems(app)
  BY <1>2, <1>3, AppFacts DEF Item, Stream
<1>5. lib \in Libs /\ app \in AppsOf[lib]
  BY DEF HostTypeOK
<1>6. QED
  BY <1>1, <1>3, <1>4, <1>5, AppsAssumption DEF Stream, IsCfg

LEMMA CfgItemFacts ==
    ASSUME NEW it \in CfgItems
    PROVE  /\ it.what = "function" => it.of \in Functions
           /\ it.what = "block" => it.of \in Blocks
  BY DEF CfgItems

-----------------------------------------------------------------------------
(* The host's steps.                                                       *)

LEMMA HostStepHost ==
    ASSUME HostTypeOK, HostInv, HostStep
    PROVE  HostTypeOK' /\ HostInv'
<1>0. /\ Len(app) \in Nat /\ Calls = 1..Len(app)
      /\ IsSequence(file) /\ DOMAIN file = 1..Len(file)
  BY AppFacts, SequenceFacts DEF HostInv, IsSequence
<1>1. CASE Launch
  <2>1. /\ phase = "host" /\ hpc <= Len(app) /\ app[hpc].op = "launch"
        /\ phase' = "kernel" /\ validData' = TRUE
        /\ since' = IF InitDue THEN hpc ELSE since
        /\ pc' = [a \in Agents |-> 1]
        /\ UNCHANGED <<lib, app, hpc, file>>
    BY <1>1 DEF Launch, NextCallIs
  <2>2. hpc \in 1..Len(app) /\ since' \in 0..Len(app) /\ since' >= 1 /\ since' <= hpc
    BY <1>0, <2>1 DEF HostTypeOK, HostInv, InitDue
  <2>3. HostTypeOK'
    BY <1>0, <2>1, <2>2 DEF HostTypeOK, Calls
  <2>4. HostInv'
    BY <1>0, <2>1, <2>2 DEF HostInv, Calls
  <2>5. QED
    BY <2>3, <2>4
<1>2. CASE Leave
  <2>1. hpc + 1 \in 1..(Len(app) + 1)
    BY <1>0, <1>2 DEF Leave, HostInv
  <2>2. QED
    BY <1>2, <2>1 DEF Leave, HostTypeOK, HostInv, Calls
<1>3. ASSUME hpc \in 1..(Len(app) + 1), Finalize(Data) PROVE
        /\ IsSequence(file') /\ \A i \in DOMAIN file' : file'[i].calls \subseteq Calls
  <2> DEFINE dump == [calls |-> since..(hpc - 1), data |-> Data]
  <2>1. file' = IF ~validData THEN file ELSE Append(IF Appends THEN file ELSE <<>>, dump)
    BY <1>3 DEF Finalize
  <2>2. validData => dump.calls \subseteq Calls
    <3>1. validData => since >= 1 /\ since \in 0..Len(app)
      BY DEF HostInv, HostTypeOK
    <3>2. validData => since..(hpc - 1) \subseteq Calls
      BY <1>0, <1>3, <3>1
    <3>3. QED
      BY <3>2
  <2> HIDE DEF dump
  <2>3. IsSequence(<<>>) /\ DOMAIN <<>> = {}
    BY DEF IsSequence
  <2>4. CASE ~validData
    BY <1>0, <2>1, <2>4 DEF HostTypeOK
  <2>5. CASE validData
    <3> DEFINE old == IF Appends THEN file ELSE <<>>
    <3>1. IsSequence(old) /\ \A i \in DOMAIN old : old[i].calls \subseteq Calls
      BY <1>0, <2>3 DEF HostTypeOK
    <3>2. file' = Append(old, dump)
      BY <2>1, <2>5
    <3> HIDE DEF old
    <3>3. QED
      BY <2>2, <2>5, <3>1, <3>2, SequenceAppend
  <2>6. QED
    BY <2>4, <2>5
<1>4. CASE Reset(Data)
  <2>1. hpc \in 1..Len(app)
    BY <1>0, <1>4 DEF Reset, NextCallIs, HostTypeOK
  <2>2. IsSequence(file') /\ \A i \in DOMAIN file' : file'[i].calls \subseteq Calls
    BY <1>0, <1>3, <1>4, <2>1 DEF Reset
  <2>3. /\ phase = "host" /\ validData' = FALSE /\ hpc' = hpc + 1
        /\ UNCHANGED <<lib, app, phase, since, pc>>
    BY <1>4 DEF Reset, NextCallIs
  <2>4. hpc' \in 1..(Len(app) + 1)
    BY <1>0, <2>1, <2>3
  <2>5. QED
    BY <2>2, <2>3, <2>4 DEF HostTypeOK, HostInv, Calls, IsSequence
<1>5. CASE Exit(Data)
  <2>1. IsSequence(file') /\ \A i \in DOMAIN file' : file'[i].calls \subseteq Calls
    BY <1>3, <1>5 DEF Exit, HostTypeOK
  <2>2. /\ phase' = "exited" /\ UNCHANGED <<lib, app, hpc, validData, since, pc>>
    BY <1>5 DEF Exit
  <2>3. QED
    BY <2>1, <2>2 DEF HostTypeOK, HostInv, Calls, IsSequence
<1>6. QED
  BY <1>1, <1>2, <1>4, <1>5 DEF HostStep

\* No agent is in a handler when the host runs, or when the kernel ends.
LEMMA HostStepQuiet ==
    ASSUME ThreadInv, WarpInv, HostStep
    PROVE  /\ \A t \in Agents : at[t] = "idle" /\ todo[t] = <<>>
           /\ UNCHANGED <<lib, app, at, bb, cPtr, failed, todo>>
           /\ \/ /\ sassi_mempool_cur' = EmptyPool.cur /\ sassi_cfg' = EmptyPool.cfg
                 /\ sassi_cfg_blocks' = EmptyPool.blocks /\ weight' = EmptyPool.weight
              \/ UNCHANGED <<sassi_mempool_cur, sassi_cfg, sassi_cfg_blocks, weight>>
           /\ (counts' = Nothing /\ stats' = Nothing) \/ UNCHANGED <<counts, stats>>
<1>1. \A t \in Agents : ~More(t)
  BY DEF HostStep, Launch, Leave, Reset, Exit, NextCallIs, More
<1>2. \A t \in Agents : at[t] = "idle" /\ todo[t] = <<>>
  BY <1>1 DEF ThreadInv, ThreadOK, WarpInv
<1>3. CASE Launch /\ IF IsCfg THEN CfgLaunch /\ UNCHANGED warpVars ELSE WarpLaunch /\ UNCHANGED cfgVars
  BY <1>2, <1>3 DEF Launch, CfgLaunch, WarpLaunch, cfgVars, warpVars
<1>4. CASE (Leave \/ Reset(Data) \/ Exit(Data)) /\ UNCHANGED <<cfgVars, warpVars>>
  BY <1>2, <1>4 DEF Leave, Reset, Exit, cfgVars, warpVars
<1>5. QED
  BY <1>3, <1>4 DEF HostStep

LEMMA EmptyPoolTypes ==
    /\ EmptyPool.cur \in Nat
    /\ EmptyPool.cfg \in [Functions -> [state : States, cfg : Addresses, blocks : Addresses]]
    /\ EmptyPool.blocks \in [Blocks -> [state : States, ptr : Addresses]]
    /\ EmptyPool.weight \in [Addresses -> Nat]
    /\ \A f \in Functions : EmptyPool.cfg[f].state = "free"
<1>1. 0 \in Addresses
  BY Sizes DEF Addresses
<1>2. QED
  BY <1>1 DEF EmptyPool, States

LEMMA HostStepInv ==
    ASSUME IInv, HostStep
    PROVE  IInv'
<1>0. /\ HostTypeOK /\ CfgTypeOK /\ WarpTypeOK /\ HostInv /\ ThreadInv /\ PoolInv /\ WarpInv
  BY DEF IInv, TypeOK
<1>1. HostTypeOK' /\ HostInv'
  BY <1>0, HostStepHost
<1>2. /\ \A t \in Agents : at[t] = "idle" /\ todo[t] = <<>>
      /\ UNCHANGED <<lib, app, at, bb, cPtr, failed, todo>>
      /\ \/ /\ sassi_mempool_cur' = EmptyPool.cur /\ sassi_cfg' = EmptyPool.cfg
            /\ sassi_cfg_blocks' = EmptyPool.blocks /\ weight' = EmptyPool.weight
         \/ UNCHANGED <<sassi_mempool_cur, sassi_cfg, sassi_cfg_blocks, weight>>
      /\ (counts' = Nothing /\ stats' = Nothing) \/ UNCHANGED <<counts, stats>>
  BY <1>0, HostStepQuiet
<1>3. CfgTypeOK'
  <2>1. CASE /\ sassi_mempool_cur' = EmptyPool.cur /\ sassi_cfg' = EmptyPool.cfg
             /\ sassi_cfg_blocks' = EmptyPool.blocks /\ weight' = EmptyPool.weight
    BY <1>0, <1>2, <2>1, EmptyPoolTypes DEF CfgTypeOK
  <2>2. CASE UNCHANGED <<sassi_mempool_cur, sassi_cfg, sassi_cfg_blocks, weight>>
    BY <1>0, <1>2, <2>2 DEF CfgTypeOK
  <2>3. QED
    BY <1>2, <2>1, <2>2
<1>4. ThreadInv'
  <2>1. ASSUME NEW t \in Agents PROVE ThreadOK(t)'
    <3>1. at'[t] = "idle" /\ bb'[t] >= 1
      BY <1>0, <1>2 DEF ThreadInv, ThreadOK
    <3>2. QED
      BY <3>1 DEF ThreadOK
  <2>2. QED
    BY <2>1 DEF ThreadInv
<1>5. PoolInv'
  <2>1. \A t \in Agents : at'[t] # "blocks"
    BY <1>2
  <2>2. CASE sassi_cfg' = EmptyPool.cfg
    <3>1. Copied' = {}
      BY <2>2, EmptyPoolTypes DEF Copied
    <3>2. Used' = {}
      BY <2>1, <3>1 DEF Used
    <3>3. QED
      BY <3>2 DEF PoolInv
  <2>3. CASE UNCHANGED <<sassi_mempool_cur, sassi_cfg>>
    <3>1. Used' \subseteq Used
      BY <2>1, <2>3 DEF Used, Copied, Record, Array
    <3>2. QED
      BY <1>0, <2>3, <3>1 DEF PoolInv, Apart
  <2>4. QED
    BY <1>2, <2>2, <2>3
<1>6. WarpTypeOK' /\ WarpInv'
  <2>1. \A w \in Agents : todo'[w] = <<>>
    BY <1>2
  <2>2. DOMAIN <<>> = {} /\ todo \in [Agents -> Seq(Atomics)] /\ todo' = todo
    BY <1>0, <1>2 DEF WarpTypeOK
  <2>3. CASE counts' = Nothing /\ stats' = Nothing
    BY <2>1, <2>2, <2>3 DEF WarpTypeOK, WarpInv, Nothing
  <2>4. CASE UNCHANGED <<counts, stats>>
    BY <1>0, <1>2, <2>1, <2>2, <2>4 DEF WarpTypeOK, WarpInv, IsCfg
  <2>5. QED
    BY <1>2, <2>3, <2>4
<1>7. QED
  BY <1>1, <1>3, <1>4, <1>5, <1>6 DEF IInv, TypeOK

-----------------------------------------------------------------------------
(* What a step of one thread leaves alone.                                 *)

LEMMA DeviceFrame ==
    ASSUME HostTypeOK, HostInv, NEW t \in Agents,
           UNCHANGED <<lib, app, hpc, phase, validData, since, file>>,
           pc' = pc \/ Advance(t)
    PROVE  /\ HostTypeOK' /\ HostInv' /\ (IsCfg' <=> IsCfg) /\ AppItems(app)' = AppItems(app)
           /\ \A u \in Agents : u # t \/ pc' = pc =>
                 /\ More(u)' <=> More(u)
                 /\ Item(u)' = Item(u) /\ Fn(u)' = Fn(u)
<1>1. pc' \in [Agents -> Nat \ {0}]
  BY DEF HostTypeOK, Advance
<1>2. \A u \in Agents : u # t \/ pc' = pc => pc'[u] = pc[u]
  BY DEF HostTypeOK, Advance
<1>3. HostTypeOK' /\ HostInv'
  BY <1>1 DEF HostTypeOK, HostInv, Calls
<1>4. (IsCfg' <=> IsCfg) /\ AppItems(app)' = AppItems(app)
  BY DEF IsCfg
<1>5. ASSUME NEW u \in Agents, pc'[u] = pc[u]
      PROVE (More(u)' <=> More(u)) /\ Item(u)' = Item(u) /\ Fn(u)' = Fn(u)
  BY <1>5 DEF More, Stream, Item, Fn
<1>6. QED
  BY <1>2, <1>3, <1>4, <1>5

\* A thread in a handler is at a function of the graph.
LEMMA BusyFn ==
    ASSUME HostTypeOK, HostInv, ThreadInv, NEW t \in Agents, at[t] # "idle"
    PROVE  IsCfg /\ More(t) /\ Item(t).what = "function" /\ Fn(t) \in Functions
<1>1. IsCfg /\ More(t) /\ Item(t).what = "function"
  BY DEF ThreadInv, ThreadOK
<1>2. QED
  BY <1>1, ItemFacts, CfgItemFacts DEF Fn

LEMMA OtherThreads ==
    ASSUME HostTypeOK, HostInv, ThreadInv, NEW t \in Agents,
           UNCHANGED <<lib, app, hpc, phase, validData, since, file>>,
           pc' = pc \/ Advance(t),
           \A u \in Agents \ {t} : at'[u] = at[u] /\ bb'[u] = bb[u],
           \A f \in Functions : sassi_cfg[f].state = "valid" => sassi_cfg'[f].state = "valid",
           ThreadOK(t)'
    PROVE  ThreadInv'
<1>1. ASSUME NEW u \in Agents, u # t PROVE ThreadOK(u)'
  <2>1. (More(u)' <=> More(u)) /\ Item(u)' = Item(u) /\ Fn(u)' = Fn(u) /\ (IsCfg' <=> IsCfg)
    BY <1>1, DeviceFrame
  <2>2. at'[u] = at[u] /\ bb'[u] = bb[u]
    BY <1>1
  <2>3. at[u] # "idle" => Fn(u) \in Functions
    BY BusyFn
  <2>4. /\ at[u] # "idle" => IsCfg /\ More(u) /\ Item(u).what = "function"
        /\ at[u] \in {"register", "fill"} => sassi_cfg[Fn(u)].state = "valid"
        /\ bb[u] >= 1
        /\ at[u] = "fill" => bb[u] <= NumBlocks[Fn(u)]
    BY DEF ThreadInv, ThreadOK
  <2>5. /\ at'[u] # "idle" => IsCfg' /\ More(u)' /\ Item(u)'.what = "function"
        /\ at'[u] \in {"register", "fill"} => sassi_cfg'[Fn(u)'].state = "valid"
        /\ bb'[u] >= 1
        /\ at'[u] = "fill" => bb'[u] <= NumBlocks[Fn(u)']
    BY <2>1, <2>2, <2>3, <2>4
  <2>6. QED
    BY <2>5 DEF ThreadOK
<1>2. \A u \in Agents : ThreadOK(u)'
  BY <1>1
<1>3. QED
  BY <1>2 DEF ThreadInv

-----------------------------------------------------------------------------
(* The pool.                                                               *)

LEMMA UsedTypes ==
    ASSUME CfgTypeOK, HostTypeOK, HostInv, ThreadInv
    PROVE  \A p \in Used : p.from \in Nat /\ p.size \in Nat
<1>1. \A t \in Agents : at[t] = "blocks" => Fn(t) \in Functions
  BY BusyFn
<1>2. \A f \in Functions : sassi_cfg[f].cfg \in Nat /\ sassi_cfg[f].blocks \in Nat
  <2>1. \A f \in Functions : sassi_cfg[f] \in [state : States, cfg : Addresses, blocks : Addresses]
    BY DEF CfgTypeOK
  <2>2. Addresses \subseteq Nat
    BY Sizes DEF Addresses
  <2>3. QED
    BY <2>1, <2>2
<1>3. \A t \in Agents : cPtr[t] \in Nat
  BY Sizes DEF CfgTypeOK, Addresses
<1>4. \A f \in Functions : \A n \in Nat : /\ Record(f, n).from \in Nat /\ Record(f, n).size \in Nat
                                          /\ Array(f, n).from \in Nat /\ Array(f, n).size \in Nat
  BY Sizes DEF Record, Array
<1>5. QED
  BY <1>1, <1>2, <1>3, <1>4 DEF Used, Copied

\* Functions that stay copied and records that wait for their blocks keep their pieces.
LEMMA UsedKept ==
    ASSUME \A f \in Functions : sassi_cfg'[f].state = "valid" =>
               sassi_cfg[f].state = "valid" /\ sassi_cfg'[f] = sassi_cfg[f],
           \A u \in Agents : at'[u] = "blocks" =>
               at[u] = "blocks" /\ Fn(u)' = Fn(u) /\ cPtr'[u] = cPtr[u]
    PROVE  Used' \subseteq Used
<1>1. Copied' \subseteq Copied /\ \A f \in Copied' : sassi_cfg'[f] = sassi_cfg[f]
  BY DEF Copied
<1>2. Used' = {Record(f, sassi_cfg'[f].cfg) : f \in Copied'} \cup {Array(f, sassi_cfg'[f].blocks) : f \in Copied'}
                 \cup {Record(Fn(t)', cPtr'[t]) : t \in {a \in Agents : at'[a] = "blocks"}}
  BY DEF Used, Record, Array
<1>3. QED
  BY <1>1, <1>2 DEF Used

LEMMA PoolKept ==
    ASSUME CfgTypeOK, HostTypeOK, HostInv, ThreadInv, PoolInv, Used' \subseteq Used,
           sassi_mempool_cur' \in Nat, sassi_mempool_cur <= sassi_mempool_cur'
    PROVE  PoolInv'
<1>1. \A p \in Used' : p.from + p.size <= sassi_mempool_cur' /\ p.from + p.size <= POOLSIZE
  <2>1. sassi_mempool_cur \in Nat
    BY DEF CfgTypeOK
  <2>2. ASSUME NEW p \in Used PROVE p.from + p.size <= sassi_mempool_cur' /\ p.from + p.size <= POOLSIZE
    <3>1. p.from + p.size <= sassi_mempool_cur /\ p.from + p.size <= POOLSIZE
      BY DEF PoolInv
    <3>2. p.from \in Nat /\ p.size \in Nat
      BY UsedTypes
    <3>3. p.from + p.size \in Nat
      BY <3>2
    <3>4. QED
      BY <2>1, <3>1, <3>3
  <2>3. QED
    BY <2>2
<1>2. \A p, q \in Used' : p.of # q.of => Apart(p, q)
  BY DEF PoolInv
<1>3. QED
  BY <1>1, <1>2 DEF PoolInv, Apart

\* A piece at the cursor is apart from all others.
LEMMA PoolGrows ==
    ASSUME CfgTypeOK, HostTypeOK, HostInv, ThreadInv, PoolInv,
           NEW n, Used' \subseteq Used \cup {n}, n.from = sassi_mempool_cur, n.size \in Nat,
           sassi_mempool_cur' = sassi_mempool_cur + n.size, sassi_mempool_cur' <= POOLSIZE
    PROVE  PoolInv'
<1>1. sassi_mempool_cur \in Nat /\ POOLSIZE \in Nat
  BY Sizes DEF CfgTypeOK
<1>2. \A p \in Used : p.from \in Nat /\ p.size \in Nat
  BY UsedTypes
<1>3. \A p \in Used : p.from + p.size <= sassi_mempool_cur
  BY DEF PoolInv
<1>4. \A p \in Used' : p.from + p.size <= sassi_mempool_cur' /\ p.from + p.size <= POOLSIZE
  <2>1. ASSUME NEW p \in Used PROVE p.from + p.size <= sassi_mempool_cur' /\ p.from + p.size <= POOLSIZE
    <3>1. p.from + p.size \in Nat
      BY <1>2
    <3>2. QED
      BY <1>1, <1>3, <3>1
  <2>2. n.from + n.size <= sassi_mempool_cur' /\ n.from + n.size <= POOLSIZE
    BY <1>1
  <2>3. QED
    BY <2>1, <2>2
<1>5. \A p, q \in Used' : p.of # q.of => Apart(p, q)
  <2> SUFFICES ASSUME NEW p \in Used', NEW q \in Used', p.of # q.of
               PROVE  Apart(p, q)
    OBVIOUS
  <2>1. CASE p \in Used /\ q \in Used
    BY <2>1 DEF PoolInv
  <2>2. CASE p = n /\ q \in Used
    BY <1>3, <2>2 DEF Apart
  <2>3. CASE q = n /\ p \in Used
    BY <1>3, <2>3 DEF Apart
  <2>4. QED
    BY <2>1, <2>2, <2>3
<1>6. QED
  BY <1>4, <1>5 DEF PoolInv, Apart

-----------------------------------------------------------------------------
(* The steps of cfg's threads.                                             *)

\* The state before a step of a thread of cfg.
CfgBefore(t) ==
    /\ HostTypeOK /\ CfgTypeOK /\ HostInv /\ ThreadInv /\ PoolInv /\ IsCfg
    /\ UNCHANGED <<lib, app, hpc, phase, validData, since, file>>

CfgAfter == CfgTypeOK' /\ ThreadInv' /\ PoolInv'

LEMMA CfgRecords ==
    ASSUME CfgTypeOK
    PROVE  /\ \A f \in Functions : /\ sassi_cfg[f].state \in States /\ sassi_cfg[f].cfg \in Addresses
                                   /\ sassi_cfg[f].blocks \in Addresses
                                   /\ [sassi_cfg[f] EXCEPT !.state = "locked"] \in
                                         [state : States, cfg : Addresses, blocks : Addresses]
                                   /\ [sassi_cfg[f] EXCEPT !.state = "locked"].state = "locked"
           /\ \A b \in Blocks : [sassi_cfg_blocks[b] EXCEPT !.state = "locked"] \in
                                         [state : States, ptr : Addresses]
<1>1. /\ \A f \in Functions : sassi_cfg[f] \in [state : States, cfg : Addresses, blocks : Addresses]
      /\ \A b \in Blocks : sassi_cfg_blocks[b] \in [state : States, ptr : Addresses]
  BY DEF CfgTypeOK
<1>2. "locked" \in States
  BY DEF States
<1>3. QED
  BY <1>1, <1>2

LEMMA FindFunctionInv ==
    ASSUME NEW t \in Agents, CfgBefore(t), FindFunction(t)
    PROVE  CfgAfter
<1> USE DEF CfgBefore
<1>1. /\ at[t] = "idle" /\ More(t) /\ Item(t).what = "function" /\ pc' = pc
      /\ bb' = [bb EXCEPT ![t] = 1]
      /\ UNCHANGED <<cPtr, sassi_mempool_cur, sassi_cfg_blocks, weight, failed>>
  BY DEF FindFunction, CfgAt, Runs
<1>2. Fn(t) \in Functions
  BY <1>1, ItemFacts, CfgItemFacts DEF Fn
<1>3. \/ /\ sassi_cfg[Fn(t)].state = "free" /\ at' = [at EXCEPT ![t] = "record"]
         /\ sassi_cfg' = [sassi_cfg EXCEPT ![Fn(t)] = [sassi_cfg[Fn(t)] EXCEPT !.state = "locked"]]
      \/ sassi_cfg[Fn(t)].state = "valid" /\ at' = [at EXCEPT ![t] = "register"] /\ sassi_cfg' = sassi_cfg
  BY DEF FindFunction, CfgGoTo
<1>4. sassi_cfg' \in [Functions -> [state : States, cfg : Addresses, blocks : Addresses]]
  <2> DEFINE R == [state : States, cfg : Addresses, blocks : Addresses]
             locked == [sassi_cfg[Fn(t)] EXCEPT !.state = "locked"]
  <2>1. sassi_cfg \in [Functions -> R]
    BY DEF CfgTypeOK
  <2>2. locked \in R
    BY <1>2, CfgRecords
  <2> HIDE DEF R, locked
  <2>3. sassi_cfg' = [sassi_cfg EXCEPT ![Fn(t)] = locked] \/ sassi_cfg' = sassi_cfg
    BY <1>3 DEF locked
  <2>4. sassi_cfg' \in [Functions -> R]
    BY <2>1, <2>2, <2>3
  <2>5. QED
    BY <2>4 DEF R
<1>5. CfgTypeOK'
  BY <1>1, <1>3, <1>4 DEF CfgTypeOK
<1>6. /\ \A f \in Functions : sassi_cfg[f].state = "valid" <=> sassi_cfg'[f].state = "valid"
      /\ \A f \in Functions : sassi_cfg'[f].state = "valid" => sassi_cfg'[f] = sassi_cfg[f]
  BY <1>2, <1>3, CfgRecords DEF CfgTypeOK
<1>7. at'[t] \in {"record", "register"} /\ bb'[t] = 1 /\ (at'[t] = "register" => sassi_cfg[Fn(t)].state = "valid")
  BY <1>1, <1>3 DEF CfgTypeOK
<1>8. \A u \in Agents \ {t} : at'[u] = at[u] /\ bb'[u] = bb[u]
  BY <1>1, <1>3 DEF CfgTypeOK
<1>9. /\ \A u \in Agents : Fn(u)' = Fn(u)
      /\ (More(t)' <=> More(t)) /\ Item(t)' = Item(t) /\ (IsCfg' <=> IsCfg)
  BY <1>1, DeviceFrame
<1>10. ThreadOK(t)'
  BY <1>1, <1>2, <1>6, <1>7, <1>9 DEF ThreadOK
<1>11. ThreadInv'
  BY <1>1, <1>6, <1>8, <1>10, OtherThreads
<1>12. Used' \subseteq Used
  <2>1. \A u \in Agents : at'[u] = "blocks" => at[u] = "blocks" /\ Fn(u)' = Fn(u) /\ cPtr'[u] = cPtr[u]
    BY <1>1, <1>7, <1>8, <1>9
  <2>2. QED
    BY <1>6, <2>1, UsedKept
<1>13. PoolInv'
  BY <1>1, <1>12, PoolKept DEF CfgTypeOK
<1>14. QED
  BY <1>5, <1>11, <1>13 DEF CfgAfter

\* A failed assertion leaves the threads where they are.
LEMMA FailedInv ==
    ASSUME NEW t \in Agents, CfgBefore(t), failed' \in {"pool", "entry"},
           UNCHANGED <<pc, at, bb, cPtr, sassi_cfg, sassi_cfg_blocks, weight>>,
           sassi_mempool_cur' \in Nat, sassi_mempool_cur <= sassi_mempool_cur'
    PROVE  CfgAfter
<1> USE DEF CfgBefore
<1>1. CfgTypeOK'
  BY DEF CfgTypeOK
<1>2. /\ \A u \in Agents : Fn(u)' = Fn(u) /\ (More(u)' <=> More(u)) /\ Item(u)' = Item(u)
      /\ IsCfg' <=> IsCfg
  BY DeviceFrame
<1>3. \A u \in Agents : ThreadOK(u)'
  BY <1>2 DEF ThreadInv, ThreadOK
<1>4. ThreadInv'
  BY <1>3 DEF ThreadInv
<1>5. Used' \subseteq Used
  BY <1>2, UsedKept
<1>6. PoolInv'
  BY <1>5, PoolKept
<1>7. QED
  BY <1>1, <1>4, <1>6 DEF CfgAfter

LEMMA AllocateRecordInv ==
    ASSUME NEW t \in Agents, CfgBefore(t), AllocateRecord(t)
    PROVE  CfgAfter
<1> USE DEF CfgBefore
<1>1. /\ at[t] = "record" /\ sassi_mempool_cur' = sassi_mempool_cur + sizeofCFG
      /\ UNCHANGED <<pc, bb, sassi_cfg, sassi_cfg_blocks, weight>>
  BY DEF AllocateRecord, CfgAt, Malloc
<1>2. sassi_mempool_cur \in Nat /\ sizeofCFG \in Nat \ {0} /\ POOLSIZE \in Nat
  BY Sizes DEF CfgTypeOK
<1>3. sassi_mempool_cur' \in Nat /\ sassi_mempool_cur <= sassi_mempool_cur'
  BY <1>1, <1>2
<1>4. CASE ~Fits(sizeofCFG)
  <2>1. failed' = "pool" /\ UNCHANGED <<at, cPtr>>
    BY <1>4 DEF AllocateRecord
  <2>2. QED
    BY <1>1, <1>3, <2>1, FailedInv
<1>5. CASE Fits(sizeofCFG)
  <2>1. cPtr' = [cPtr EXCEPT ![t] = sassi_mempool_cur] /\ at' = [at EXCEPT ![t] = "blocks"] /\ failed' = failed
    BY <1>5 DEF AllocateRecord, CfgGoTo
  <2>2. sassi_mempool_cur \in Addresses /\ sassi_mempool_cur' <= POOLSIZE
    BY <1>1, <1>2, <1>5 DEF Fits, Addresses
  <2>3. CfgTypeOK'
    BY <1>1, <1>3, <2>1, <2>2 DEF CfgTypeOK
  <2>4. IsCfg /\ More(t) /\ Item(t).what = "function" /\ Fn(t) \in Functions
    BY <1>1, BusyFn
  <2>5. /\ \A u \in Agents : Fn(u)' = Fn(u)
        /\ (More(t)' <=> More(t)) /\ Item(t)' = Item(t) /\ (IsCfg' <=> IsCfg)
    BY <1>1, DeviceFrame
  <2>6. /\ at'[t] = "blocks" /\ cPtr'[t] = sassi_mempool_cur
        /\ \A u \in Agents \ {t} : at'[u] = at[u] /\ cPtr'[u] = cPtr[u] /\ bb'[u] = bb[u]
    BY <1>1, <2>1 DEF CfgTypeOK
  <2>7. ThreadOK(t)'
    BY <1>1, <2>4, <2>5, <2>6 DEF ThreadOK, ThreadInv
  <2>8. ThreadInv'
    BY <1>1, <2>6, <2>7, OtherThreads
  <2> DEFINE n == Record(Fn(t), sassi_mempool_cur)
  <2>9. Used' \subseteq Used \cup {n}
    <3>1. /\ Copied' = Copied
          /\ {Record(f, sassi_cfg'[f].cfg) : f \in Copied'} = {Record(f, sassi_cfg[f].cfg) : f \in Copied}
          /\ {Array(f, sassi_cfg'[f].blocks) : f \in Copied'} = {Array(f, sassi_cfg[f].blocks) : f \in Copied}
      BY <1>1 DEF Copied
    <3>2. Used' = {Record(f, sassi_cfg'[f].cfg) : f \in Copied'} \cup {Array(f, sassi_cfg'[f].blocks) : f \in Copied'}
                 \cup {Record(Fn(u)', cPtr'[u]) : u \in {a \in Agents : at'[a] = "blocks"}}
      BY DEF Used, Record, Array
    <3>3. {Record(Fn(u)', cPtr'[u]) : u \in {a \in Agents : at'[a] = "blocks"}}
             \subseteq {Record(Fn(u), cPtr[u]) : u \in {a \in Agents : at[a] = "blocks"}} \cup {n}
      BY <2>5, <2>6
    <3>4. QED
      BY <3>1, <3>2, <3>3 DEF Used
  <2>10. n.from = sassi_mempool_cur /\ n.size = sizeofCFG
    BY DEF Record
  <2> HIDE DEF n
  <2>11. PoolInv'
    BY <1>1, <1>2, <2>2, <2>9, <2>10, PoolGrows
  <2>12. QED
    BY <2>3, <2>8, <2>11 DEF CfgAfter
<1>6. QED
  BY <1>4, <1>5

LEMMA AllocateBlocksInv ==
    ASSUME NEW t \in Agents, CfgBefore(t), AllocateBlocks(t)
    PROVE  CfgAfter
<1> USE DEF CfgBefore
<1> DEFINE f == Fn(t)
           sz == sizeofBLOCK * NumBlocks[f]
<1>1. /\ at[t] = "blocks" /\ sassi_mempool_cur' = sassi_mempool_cur + sz
      /\ UNCHANGED <<pc, bb, cPtr, sassi_cfg_blocks, weight>>
  BY DEF AllocateBlocks, CfgAt, Malloc
<1>2. IsCfg /\ More(t) /\ Item(t).what = "function" /\ f \in Functions
  BY <1>1, BusyFn
<1>3. sassi_mempool_cur \in Nat /\ sz \in Nat \ {0} /\ POOLSIZE \in Nat
  BY <1>2, Sizes DEF CfgTypeOK
<1>4. /\ Fits(sz) => /\ sassi_cfg' = [sassi_cfg EXCEPT ![f] =
                          [state |-> "valid", cfg |-> cPtr[t], blocks |-> sassi_mempool_cur]]
                     /\ at' = [at EXCEPT ![t] = "register"] /\ failed' = failed
      /\ ~Fits(sz) => failed' = "pool" /\ UNCHANGED <<at, sassi_cfg>>
  BY DEF AllocateBlocks, CfgGoTo
<1> HIDE DEF f, sz
<1>5. sassi_mempool_cur' \in Nat /\ sassi_mempool_cur <= sassi_mempool_cur'
  BY <1>1, <1>3
<1>6. CASE ~Fits(sz)
  BY <1>1, <1>4, <1>5, <1>6, FailedInv
<1>7. CASE Fits(sz)
  <2>1. sassi_mempool_cur \in Addresses /\ sassi_mempool_cur' <= POOLSIZE
    BY <1>1, <1>3, <1>7 DEF Fits, Addresses
  <2>2. [state |-> "valid", cfg |-> cPtr[t], blocks |-> sassi_mempool_cur]
           \in [state : States, cfg : Addresses, blocks : Addresses]
    BY <2>1 DEF CfgTypeOK, States
  <2>3. CfgTypeOK'
    BY <1>1, <1>2, <1>4, <1>5, <1>7, <2>2, SMTT(30) DEF CfgTypeOK
  <2>4. /\ \A u \in Agents : Fn(u)' = Fn(u)
        /\ (More(t)' <=> More(t)) /\ Item(t)' = Item(t) /\ (IsCfg' <=> IsCfg)
    BY <1>1, DeviceFrame
  <2>5. /\ sassi_cfg'[f].state = "valid" /\ sassi_cfg'[f].cfg = cPtr[t]
        /\ sassi_cfg'[f].blocks = sassi_mempool_cur
        /\ \A g \in Functions : g # f => sassi_cfg'[g] = sassi_cfg[g]
    BY <1>2, <1>4, <1>7 DEF CfgTypeOK
  <2>6. at'[t] = "register" /\ \A u \in Agents \ {t} : at'[u] = at[u] /\ bb'[u] = bb[u]
    BY <1>1, <1>4, <1>7 DEF CfgTypeOK
  <2>7. ThreadOK(t)'
    BY <1>1, <1>2, <2>4, <2>5, <2>6 DEF ThreadOK, ThreadInv, f
  <2>8. \A g \in Functions : sassi_cfg[g].state = "valid" => sassi_cfg'[g].state = "valid"
    BY <2>5
  <2>9. ThreadInv'
    BY <1>1, <2>6, <2>7, <2>8, OtherThreads
  <2> DEFINE n == Array(f, sassi_mempool_cur)
  <2>10. Used' \subseteq Used \cup {n}
    <3>1. Copied' \subseteq Copied \cup {f} /\ Copied' \subseteq Functions
      BY <2>5 DEF Copied
    <3>2. Used' = {Record(g, sassi_cfg'[g].cfg) : g \in Copied'} \cup {Array(g, sassi_cfg'[g].blocks) : g \in Copied'}
                 \cup {Record(Fn(u)', cPtr'[u]) : u \in {a \in Agents : at'[a] = "blocks"}}
      BY DEF Used, Record, Array
    <3>3. {Record(Fn(u)', cPtr'[u]) : u \in {a \in Agents : at'[a] = "blocks"}} \subseteq Used
      BY <1>1, <2>4, <2>6 DEF Used
    <3>4. Record(f, cPtr[t]) \in Used
      BY <1>1 DEF Used, f
    <3>5. {Record(g, sassi_cfg'[g].cfg) : g \in Copied'} \subseteq Used
      BY <2>5, <3>1, <3>4 DEF Used
    <3>6. {Array(g, sassi_cfg'[g].blocks) : g \in Copied'} \subseteq Used \cup {n}
      BY <2>5, <3>1 DEF Used
    <3>7. QED
      BY <3>2, <3>3, <3>5, <3>6
  <2>11. n.from = sassi_mempool_cur /\ n.size = sz
    BY DEF Array, sz
  <2> HIDE DEF n
  <2>12. PoolInv'
    BY <1>1, <1>3, <2>1, <2>10, <2>11, PoolGrows
  <2>13. QED
    BY <2>3, <2>9, <2>12 DEF CfgAfter
<1>8. QED
  BY <1>6, <1>7

\* Steps that copy no function.
LEMMA QuietCfg ==
    ASSUME NEW t \in Agents, CfgBefore(t), CfgTypeOK', ThreadOK(t)',
           UNCHANGED <<sassi_cfg, cPtr, sassi_mempool_cur>>,
           pc' = pc \/ Advance(t),
           at'[t] # "blocks",
           \A u \in Agents \ {t} : at'[u] = at[u] /\ bb'[u] = bb[u]
    PROVE  CfgAfter
<1> USE DEF CfgBefore
<1>1. ThreadInv'
  BY OtherThreads
<1>2. \A u \in Agents : at'[u] = "blocks" => at[u] = "blocks" /\ Fn(u)' = Fn(u) /\ cPtr'[u] = cPtr[u]
  BY DeviceFrame
<1>3. Used' \subseteq Used
  BY <1>2, UsedKept
<1>4. PoolInv'
  BY <1>3, PoolKept DEF CfgTypeOK
<1>5. QED
  BY <1>1, <1>4 DEF CfgAfter

\* The block that a thread is at is one of the function's.
LEMMA BlockFacts ==
    ASSUME NEW t \in Agents, CfgBefore(t), at[t] \in {"register", "fill"}, bb[t] <= NumBlocks[Fn(t)]
    PROVE  /\ Block(t) \in Blocks /\ Fn(t) \in Functions
           /\ sassi_cfg[Fn(t)].blocks + sizeofBLOCK * (bb[t] - 1) \in Addresses
<1> USE DEF CfgBefore
<1> DEFINE f == Fn(t)
<1>1. f \in Functions /\ sassi_cfg[f].state = "valid" /\ bb[t] >= 1 /\ bb[t] \in Nat
  BY BusyFn DEF ThreadInv, ThreadOK, CfgTypeOK
<1>2. NumBlocks[f] \in Nat /\ sizeofBLOCK \in Nat \ {0} /\ POOLSIZE \in Nat \ {0}
      /\ sizeofBLOCK * NumBlocks[f] \in Nat
  BY <1>1, Sizes
<1>3. bb[t] \in 1..NumBlocks[f]
  BY <1>1, <1>2
<1>4. Block(t) \in Blocks
  BY <1>1, <1>3 DEF Block, Blocks
<1>5. Array(f, sassi_cfg[f].blocks) \in Used
  BY <1>1 DEF Used, Copied
<1>6. sassi_cfg[f].blocks + sizeofBLOCK * NumBlocks[f] <= POOLSIZE
  BY <1>5 DEF PoolInv, Array
<1>7. sassi_cfg[f].blocks \in Nat
  <2>1. sassi_cfg[f].blocks \in Addresses
    BY <1>1, CfgRecords
  <2>2. Addresses \subseteq Nat
    BY Sizes DEF Addresses
  <2>3. QED
    BY <2>1, <2>2
<1> HIDE DEF f
<1>8. PICK k \in Nat : bb[t] = k + 1 /\ bb[t] - 1 = k
  BY <1>1
<1>9. /\ sizeofBLOCK * k \in Nat /\ sizeofBLOCK * bb[t] = sizeofBLOCK * k + sizeofBLOCK
      /\ sizeofBLOCK * bb[t] <= sizeofBLOCK * NumBlocks[f]
  BY <1>1, <1>2, <1>3, <1>8, Products
<1>10. sassi_cfg[f].blocks + sizeofBLOCK * k \in Addresses
  BY <1>2, <1>6, <1>7, <1>9 DEF Addresses
<1>11. QED
  BY <1>1, <1>4, <1>8, <1>10 DEF f

LEMMA FindBlockInv ==
    ASSUME NEW t \in Agents, CfgBefore(t), FindBlock(t)
    PROVE  CfgAfter
<1> USE DEF CfgBefore
<1>1. /\ at[t] = "register" /\ bb[t] <= NumBlocks[Fn(t)]
      /\ UNCHANGED <<pc, cPtr, sassi_mempool_cur, sassi_cfg, weight, failed>>
  BY DEF FindBlock, CfgAt
<1>2. IsCfg /\ More(t) /\ Item(t).what = "function" /\ Fn(t) \in Functions /\ Block(t) \in Blocks
  BY <1>1, BusyFn, BlockFacts
<1>3. \/ /\ sassi_cfg_blocks' = [sassi_cfg_blocks EXCEPT ![Block(t)] =
                 [sassi_cfg_blocks[Block(t)] EXCEPT !.state = "locked"]]
         /\ at' = [at EXCEPT ![t] = "fill"] /\ bb' = bb
      \/ bb' = [bb EXCEPT ![t] = @ + 1] /\ UNCHANGED <<at, sassi_cfg_blocks>>
  BY DEF FindBlock, CfgGoTo
<1>4. sassi_cfg_blocks' \in [Blocks -> [state : States, ptr : Addresses]]
  BY <1>2, <1>3, CfgRecords DEF CfgTypeOK
<1>5. CfgTypeOK'
  BY <1>1, <1>3, <1>4 DEF CfgTypeOK
<1>6. /\ at'[t] \in {"fill", "register"} /\ (bb'[t] = bb[t] \/ (at'[t] = "register" /\ bb'[t] = bb[t] + 1))
      /\ \A u \in Agents \ {t} : at'[u] = at[u] /\ bb'[u] = bb[u]
  <2>1. /\ at \in [Agents -> {"idle", "record", "blocks", "register", "fill"}]
        /\ bb \in [Agents -> Nat]
    BY DEF CfgTypeOK
  <2>2. CASE at' = [at EXCEPT ![t] = "fill"] /\ bb' = bb
    <3>1. at'[t] = "fill" /\ \A u \in Agents \ {t} : at'[u] = at[u]
      BY <2>1, <2>2
    <3>2. bb'[t] = bb[t] /\ \A u \in Agents \ {t} : bb'[u] = bb[u]
      BY <2>2, Zenon
    <3>3. QED
      BY <3>1, <3>2
  <2>3. CASE bb' = [bb EXCEPT ![t] = @ + 1] /\ at' = at
    BY <1>1, <2>1, <2>3
  <2>4. QED
    BY <1>3, <2>2, <2>3
<1>7. bb[t] \in Nat /\ bb[t] >= 1 /\ sassi_cfg[Fn(t)].state = "valid"
  BY <1>1 DEF CfgTypeOK, ThreadInv, ThreadOK
<1>8. Fn(t)' = Fn(t) /\ (More(t)' <=> More(t)) /\ Item(t)' = Item(t) /\ (IsCfg' <=> IsCfg)
  BY <1>1, DeviceFrame
<1>9. bb'[t] >= 1 /\ (at'[t] = "fill" => bb'[t] = bb[t])
  BY <1>6, <1>7
<1>10. ThreadOK(t)'
  BY <1>1, <1>2, <1>6, <1>7, <1>8, <1>9 DEF ThreadOK
<1>11. QED
  BY <1>1, <1>5, <1>6, <1>10, QuietCfg

LEMMA FillBlockInv ==
    ASSUME NEW t \in Agents, CfgBefore(t), FillBlock(t)
    PROVE  CfgAfter
<1> USE DEF CfgBefore
<1> DEFINE ptr == sassi_cfg[Fn(t)].blocks + sizeofBLOCK * (bb[t] - 1)
<1>1. /\ at[t] = "fill" /\ UNCHANGED <<pc, cPtr, sassi_mempool_cur, sassi_cfg, failed>>
      /\ sassi_cfg_blocks' = [sassi_cfg_blocks EXCEPT ![Block(t)] = [state |-> "valid", ptr |-> ptr]]
      /\ weight' = [weight EXCEPT ![ptr] = 0]
      /\ bb' = [bb EXCEPT ![t] = @ + 1] /\ at' = [at EXCEPT ![t] = "register"]
  BY DEF FillBlock, CfgAt, CfgGoTo
<1>2. bb[t] \in Nat /\ bb[t] >= 1 /\ bb[t] <= NumBlocks[Fn(t)] /\ sassi_cfg[Fn(t)].state = "valid"
  BY <1>1 DEF CfgTypeOK, ThreadInv, ThreadOK
<1>3. IsCfg /\ More(t) /\ Item(t).what = "function" /\ Block(t) \in Blocks /\ ptr \in Addresses
  BY <1>1, <1>2, BusyFn, BlockFacts
<1> HIDE DEF ptr
<1>4. [state |-> "valid", ptr |-> ptr] \in [state : States, ptr : Addresses]
  BY <1>3 DEF States
<1>5. sassi_cfg_blocks' \in [Blocks -> [state : States, ptr : Addresses]]
  BY <1>1, <1>4 DEF CfgTypeOK
<1>6. CfgTypeOK'
  BY <1>1, <1>5 DEF CfgTypeOK
<1>7. /\ at'[t] = "register" /\ bb'[t] = bb[t] + 1
      /\ \A u \in Agents \ {t} : at'[u] = at[u] /\ bb'[u] = bb[u]
  BY <1>1 DEF CfgTypeOK
<1>8. Fn(t)' = Fn(t) /\ (More(t)' <=> More(t)) /\ Item(t)' = Item(t) /\ (IsCfg' <=> IsCfg)
  BY <1>1, DeviceFrame
<1>9. bb'[t] >= 1
  BY <1>2, <1>7
<1>10. ThreadOK(t)'
  BY <1>1, <1>2, <1>3, <1>7, <1>8, <1>9 DEF ThreadOK
<1>11. QED
  BY <1>1, <1>6, <1>7, <1>10, QuietCfg

LEMMA EndFunctionEntryInv ==
    ASSUME NEW t \in Agents, CfgBefore(t), EndFunctionEntry(t)
    PROVE  CfgAfter
<1> USE DEF CfgBefore
<1>1. /\ at' = [at EXCEPT ![t] = "idle"] /\ Advance(t)
      /\ UNCHANGED <<bb, cPtr, sassi_mempool_cur, sassi_cfg, sassi_cfg_blocks, weight, failed>>
  BY DEF EndFunctionEntry, CfgGoTo
<1>2. CfgTypeOK'
  BY <1>1 DEF CfgTypeOK
<1>3. at'[t] = "idle" /\ \A u \in Agents \ {t} : at'[u] = at[u] /\ bb'[u] = bb[u]
  BY <1>1 DEF CfgTypeOK
<1>4. ThreadOK(t)'
  BY <1>1, <1>3 DEF ThreadOK, ThreadInv
<1>5. QED
  BY <1>1, <1>2, <1>3, <1>4, QuietCfg

LEMMA BlockEntryInv ==
    ASSUME NEW t \in Agents, CfgBefore(t), BlockEntry(t)
    PROVE  CfgAfter
<1> USE DEF CfgBefore
<1>1. /\ at[t] = "idle"
      /\ UNCHANGED <<at, bb, cPtr, sassi_mempool_cur, sassi_cfg, sassi_cfg_blocks>>
      /\ \/ /\ weight' = [weight EXCEPT ![sassi_cfg_blocks[Item(t).of].ptr] = @ + 1]
            /\ Advance(t) /\ failed' = failed
         \/ failed' = "entry" /\ UNCHANGED <<pc, weight>>
  BY DEF BlockEntry, CfgAt
<1>2. CASE failed' = "entry" /\ UNCHANGED <<pc, weight>>
  BY <1>1, <1>2, FailedInv DEF CfgTypeOK
<1>3. CASE /\ weight' = [weight EXCEPT ![sassi_cfg_blocks[Item(t).of].ptr] = @ + 1]
           /\ Advance(t) /\ failed' = failed
  <2> DEFINE p == sassi_cfg_blocks[Item(t).of].ptr
  <2>1. weight' \in [Addresses -> Nat]
    <3>1. weight \in [Addresses -> Nat] /\ weight' = [weight EXCEPT ![p] = weight[p] + 1]
      BY <1>3 DEF CfgTypeOK
    <3> HIDE DEF p
    <3>2. CASE p \in Addresses
      <4>1. weight[p] + 1 \in Nat
        BY <3>1, <3>2
      <4>2. QED
        BY <3>1, <4>1
    <3>3. CASE p \notin Addresses
      BY <3>1, <3>3
    <3>4. QED
      BY <3>2, <3>3
  <2>2. CfgTypeOK'
    BY <1>1, <1>3, <2>1 DEF CfgTypeOK
  <2>3. ThreadOK(t)'
    BY <1>1 DEF ThreadOK, ThreadInv
  <2>4. QED
    BY <1>1, <1>3, <2>2, <2>3, QuietCfg
<1>4. QED
  BY <1>1, <1>2, <1>3

LEMMA CfgStepInv ==
    ASSUME IInv, NEW t \in Agents, IsCfg, CfgStep(t), UNCHANGED warpVars,
           UNCHANGED <<lib, app, hpc, phase, validData, since, file>>
    PROVE  IInv'
<1>1. CfgBefore(t) /\ WarpTypeOK /\ WarpInv
  BY DEF IInv, TypeOK, CfgBefore
<1>2. CfgAfter
  BY <1>1, FindFunctionInv, AllocateRecordInv, AllocateBlocksInv, FindBlockInv, FillBlockInv,
     EndFunctionEntryInv, BlockEntryInv DEF CfgStep
<1>3. pc' = pc \/ Advance(t)
  BY DEF CfgStep, FindFunction, AllocateRecord, AllocateBlocks, FindBlock, FillBlock, EndFunctionEntry, BlockEntry
<1>4. HostTypeOK' /\ HostInv' /\ (IsCfg' <=> IsCfg) /\ AppItems(app)' = AppItems(app)
  BY <1>1, <1>3, DeviceFrame DEF CfgBefore
<1>5. \A w \in Agents : todo[w] = <<>>
  BY <1>1 DEF WarpInv
<1>6. UNCHANGED <<counts, stats, todo>>
  BY DEF warpVars
<1>7. WarpTypeOK' /\ WarpInv'
  <2>1. \A w \in Agents : todo'[w] = <<>> /\ DOMAIN todo'[w] = {}
    BY <1>5, <1>6
  <2>2. WarpTypeOK'
    BY <1>1, <1>6, <2>1 DEF WarpTypeOK
  <2>3. WarpInv'
    BY <1>1, <1>4, <1>6, <2>1 DEF WarpInv
  <2>4. QED
    BY <2>2, <2>3
<1>8. QED
  BY <1>2, <1>4, <1>7 DEF IInv, TypeOK, CfgAfter

-----------------------------------------------------------------------------
(* The handlers of warps.                                                  *)

\* What holds before the step of a warp, and what it has to establish.
WarpBefore(w) ==
    /\ HostTypeOK /\ HostInv /\ WarpTypeOK /\ WarpInv /\ ~IsCfg
    /\ UNCHANGED <<lib, app, hpc, phase, validData, since, file>>
WarpAfter == WarpTypeOK' /\ WarpInv'

\* The item of a warp, and the lists of others.
LEMMA WarpItemFacts ==
    ASSUME NEW w \in Agents, WarpBefore(w), More(w)
    PROVE  /\ Item(w) \in AppItems(app) /\ IsFiniteSet(Item(w).active) /\ IsFiniteSet(Item(w).runs)
           /\ Cardinality(Item(w).active) \in Nat /\ Cardinality(Item(w).runs) \in Nat
           /\ Len(Item(w).dsts) \in Nat /\ DOMAIN Item(w).dsts = 1..Len(Item(w).dsts)
           /\ \A it \in AppItems(app) : it.pupc = Item(w).pupc => Len(it.dsts) = Len(Item(w).dsts)
<1> USE DEF WarpBefore
<1>1. Item(w) \in AppItems(app) /\ IsWarpItem(Item(w))
  BY ItemFacts
<1> DEFINE it == Item(w)
<1>2. IsFiniteSet(it.active) /\ it.runs \subseteq it.active /\ IsSequence(it.dsts)
  BY <1>1 DEF IsWarpItem
<1>3. lib \in Libs /\ app \in AppsOf[lib] /\ lib # "cfg"
  BY DEF HostTypeOK, IsCfg
<1>4. \A x, y \in AppItems(app) : x.pupc = y.pupc => Len(x.dsts) = Len(y.dsts)
  BY <1>3, AppsAssumption
<1> HIDE DEF it
<1>5. IsFiniteSet(it.runs)
  BY <1>2, FS_Subset
<1>6. Cardinality(it.active) \in Nat /\ Cardinality(it.runs) \in Nat
  BY <1>2, <1>5, FS_CardinalityType
<1>7. Len(it.dsts) \in Nat /\ DOMAIN it.dsts = 1..Len(it.dsts)
  BY <1>2, SequenceFacts
<1>8. QED
  BY <1>1, <1>2, <1>4, <1>5, <1>6, <1>7 DEF it

\* Neither a warp that is between items nor the others see a step that leaves todo.
LEMMA QuietWarp ==
    ASSUME NEW w \in Agents, WarpBefore(w), pc' = pc \/ Advance(w),
           \A u \in Agents \ {w} : todo'[u] = todo[u],
           todo' \in [Agents -> Seq(Atomics)],
           DOMAIN stats \subseteq DOMAIN stats',
           \A p \in DOMAIN stats : Len(stats'[p].operands) = Len(stats[p].operands),
           \A k \in DOMAIN counts' : counts'[k] \in Nat \ {0},
           \A p \in DOMAIN stats' : stats'[p] \in [weight : Nat, operands : Seq(Operands)],
           \A it \in AppItems(app) : it.pupc \in DOMAIN stats' =>
               Len(stats'[it.pupc].operands) = Len(it.dsts),
           todo'[w] # <<>> => pc' = pc /\ More(w) /\ Item(w).pupc \in DOMAIN stats',
           \A i \in DOMAIN todo'[w] :
               /\ todo'[w][i][2] \in 0..Len(stats'[Item(w).pupc].operands)
               /\ todo'[w][i][1] = "end" <=> i = Len(todo'[w])
    PROVE  WarpAfter
<1> USE DEF WarpBefore
<1>1. (IsCfg' <=> IsCfg) /\ AppItems(app)' = AppItems(app)
  BY DeviceFrame
<1>2. \A u \in Agents : u # w \/ pc' = pc => (More(u)' <=> More(u)) /\ Item(u)' = Item(u)
  BY DeviceFrame
<1>3. \A u \in Agents : todo'[u] # <<>> =>
          ~IsCfg' /\ More(u)' /\ Item(u)' = Item(u) /\ Item(u).pupc \in DOMAIN stats'
  BY <1>1, <1>2 DEF WarpInv
<1>4. ASSUME NEW u \in Agents, NEW i \in DOMAIN todo'[u]
      PROVE /\ todo'[u][i][2] \in 0..Len(stats'[Item(u)'.pupc].operands)
            /\ todo'[u][i][1] = "end" <=> i = Len(todo'[u])
  <2>1. todo'[u] # <<>>
    BY <1>4
  <2>2. Item(u)' = Item(u)
    BY <1>3, <2>1
  <2>3. CASE u = w
    BY <2>2, <2>3
  <2>4. CASE u # w
    <3>1. todo'[u] = todo[u] /\ i \in DOMAIN todo[u] /\ Item(u).pupc \in DOMAIN stats
      BY <2>1, <2>4 DEF WarpInv
    <3>2. todo[u][i][2] \in 0..Len(stats[Item(u).pupc].operands)
      BY <3>1 DEF WarpTypeOK
    <3>3. Len(stats'[Item(u).pupc].operands) = Len(stats[Item(u).pupc].operands)
      BY <3>1
    <3>4. QED
      BY <2>2, <3>1, <3>2, <3>3 DEF WarpInv
  <2>5. QED
    BY <2>3, <2>4
<1>5. WarpTypeOK'
  BY <1>4 DEF WarpTypeOK
<1>6. WarpInv'
  BY <1>1, <1>3, <1>4 DEF WarpInv
<1>7. QED
  BY <1>5, <1>6 DEF WarpAfter

LEMMA CountInv ==
    ASSUME NEW w \in Agents, WarpBefore(w), Count(w)
    PROVE  WarpAfter
<1> USE DEF WarpBefore
<1> DEFINE it == Item(w)
           n == CASE lib = "ophist" -> Cardinality(it.runs)
                  [] lib = "opcode" -> 1
                  [] lib = "memdiverge" -> IF Tracked(it) = {} THEN 0 ELSE 1
           key == CountedKey(it)
<1>1. /\ lib # "valueprof" /\ More(w) /\ todo[w] = <<>>
      /\ counts' = IF n = 0 THEN counts ELSE Add(counts, key, n)
      /\ Advance(w) /\ UNCHANGED <<stats, todo>>
  BY DEF Count, Begins
<1>2. lib = "ophist" \/ lib = "opcode" \/ lib = "memdiverge"
  BY <1>1, AppsAssumption DEF HostTypeOK, IsCfg
<1>3. n \in Nat
  <2>1. Cardinality(it.runs) \in Nat
    BY <1>1, WarpItemFacts
  <2>2. "ophist" # "opcode" /\ "ophist" # "memdiverge" /\ "opcode" # "memdiverge"
    OBVIOUS
  <2>3. lib = "ophist" => n = Cardinality(it.runs)
    BY <2>2, Zenon
  <2>4. lib = "opcode" => n = 1
    BY <2>2, Zenon
  <2>5. lib = "memdiverge" => n = IF Tracked(it) = {} THEN 0 ELSE 1
    BY <2>2, Zenon
  <2> HIDE DEF n, it
  <2>6. lib = "memdiverge" => n = 0 \/ n = 1
    BY <2>5, Zenon
  <2>7. QED
    BY <1>2, <2>1, <2>3, <2>4, <2>6 DEF it
<1> HIDE DEF n, key
<1>4. \A k \in DOMAIN counts' : counts'[k] \in Nat \ {0}
  <2>1. \A k \in DOMAIN counts : counts[k] \in Nat \ {0}
    BY DEF WarpTypeOK
  <2>2. CASE n = 0
    BY <1>1, <2>1, <2>2
  <2>3. CASE n # 0
    <3>1. counts' = Add(counts, key, n)
      BY <1>1, <2>3
    <3>2. QED
      BY <1>3, <2>1, <2>3, <3>1 DEF Add
  <2>4. QED
    BY <2>2, <2>3
<1>5. QED
  BY <1>1, <1>4, QuietWarp DEF WarpTypeOK, WarpInv

LEMMA NewOpType ==
    ASSUME NEW it, IsSequence(it.dsts)
    PROVE  NewOp(it) \in [weight : Nat, operands : Seq(Operands)] /\ Len(NewOp(it).operands) = Len(it.dsts)
<1> DEFINE o == [constantOnes |-> Bits, constantZeros |-> Bits, isScalar |-> Bits]
           os == [d \in DOMAIN it.dsts |-> o]
<1>1. o \in Operands
  BY DEF Operands
<1>2. Len(it.dsts) \in Nat /\ DOMAIN it.dsts = 1..Len(it.dsts)
  BY SequenceFacts
<1>3. NewOp(it) = [weight |-> 0, operands |-> os]
  BY DEF NewOp
<1> HIDE DEF o
<1>4. os \in Seq(Operands) /\ Len(os) = Len(it.dsts)
  BY <1>1, <1>2
<1> HIDE DEF os
<1>5. QED
  BY <1>3, <1>4

LEMMA AppendLast ==
    ASSUME NEW S, NEW n \in Nat, NEW front \in [1..n -> S], NEW x \in S
    PROVE  /\ front \o <<x>> \in Seq(S) /\ Len(front \o <<x>>) = n + 1
           /\ \A i \in 1..(n + 1) : (front \o <<x>>)[i] = IF i <= n THEN front[i] ELSE x
<1>1. front \in Seq(S) /\ Len(front) = n
  OBVIOUS
<1>2. <<x>> \in Seq(S) /\ Len(<<x>>) = 1 /\ <<x>>[1] = x
  OBVIOUS
<1>3. QED
  BY <1>1, <1>2

\* The atomics of an instruction with n destinations.
LEMMA AtomicsOf ==
    ASSUME NEW n \in Nat
    PROVE  LET names == <<"ones", "zeros", "scalar">>
               s == [i \in 1..(3 * n) |-> <<names[((i - 1) % 3) + 1], ((i - 1) \div 3) + 1>>] \o <<<<"end", 0>>>>
           IN  /\ s \in Seq(Atomics)
               /\ \A i \in DOMAIN s : s[i][2] \in 0..n /\ (s[i][1] = "end" <=> i = Len(s))
<1> DEFINE names == <<"ones", "zeros", "scalar">>
           e(i) == <<names[((i - 1) % 3) + 1], ((i - 1) \div 3) + 1>>
           front == [i \in 1..(3 * n) |-> e(i)]
           last == <<"end", 0>>
           s == front \o <<last>>
<1>1. ASSUME NEW i \in 1..(3 * n)
      PROVE  e(i) \in Atomics /\ e(i)[1] # "end" /\ e(i)[2] \in 0..n
  <2>1. ((i - 1) % 3) + 1 \in 1..3 /\ ((i - 1) \div 3) + 1 \in 1..n
    OBVIOUS
  <2>2. \A k \in 1..3 : names[k] \in {"ones", "zeros", "scalar"}
    OBVIOUS
  <2>3. QED
    BY <2>1, <2>2 DEF Atomics
<1>2. last \in Atomics /\ last[1] = "end" /\ last[2] = 0
  BY DEF Atomics
<1> HIDE DEF e, last
<1>3. front \in [1..(3 * n) -> Atomics] /\ \A i \in 1..(3 * n) : front[i] = e(i)
  BY <1>1
<1> HIDE DEF front
<1>4. PICK m \in Nat : m = 3 * n
  OBVIOUS
<1>5. /\ s \in Seq(Atomics) /\ Len(s) = m + 1
      /\ \A i \in 1..(m + 1) : s[i] = IF i <= m THEN front[i] ELSE last
  BY <1>2, <1>3, <1>4, AppendLast
<1> HIDE DEF s
<1>6. \A i \in DOMAIN s : s[i][2] \in 0..n /\ (s[i][1] = "end" <=> i = Len(s))
  <2>1. ASSUME NEW i \in DOMAIN s PROVE s[i][2] \in 0..n /\ (s[i][1] = "end" <=> i = Len(s))
    <3>1. i \in 1..(m + 1) /\ Len(s) = m + 1
      BY <1>5
    <3>2. CASE i <= m
      <4>1. i \in 1..(3 * n) /\ s[i] = e(i)
        BY <1>3, <1>4, <1>5, <3>1, <3>2
      <4>2. QED
        BY <1>1, <3>1, <3>2, <4>1
    <3>3. CASE ~(i <= m)
      <4>1. s[i] = last /\ i = m + 1
        BY <1>5, <3>1, <3>3
      <4>2. QED
        BY <1>2, <3>1, <4>1
    <3>4. QED
      BY <3>2, <3>3
  <2>2. QED
    BY <2>1
<1>7. QED
  BY <1>5, <1>6 DEF s, front, e, last

LEMMA FindInv ==
    ASSUME NEW w \in Agents, WarpBefore(w), Find(w)
    PROVE  WarpAfter
<1> USE DEF WarpBefore
<1> DEFINE it == Item(w)
           op == IF it.pupc \in DOMAIN stats THEN stats[it.pupc] ELSE NewOp(it)
           names == <<"ones", "zeros", "scalar">>
           list == [i \in 1..(3 * Len(it.dsts)) |-> <<names[((i - 1) % 3) + 1], ((i - 1) \div 3) + 1>>]
                     \o <<<<"end", 0>>>>
           new == [op EXCEPT !.weight = @ + Cardinality(it.active)]
<1>1. /\ More(w) /\ todo[w] = <<>>
      /\ stats' = [p \in DOMAIN stats \cup {it.pupc} |-> IF p = it.pupc THEN new ELSE stats[p]]
      /\ todo' = [todo EXCEPT ![w] = list]
      /\ UNCHANGED <<pc, counts>>
  BY DEF Find, Begins
<1>2. /\ it \in AppItems(app) /\ Cardinality(it.active) \in Nat /\ Len(it.dsts) \in Nat
      /\ \A x \in AppItems(app) : x.pupc = it.pupc => Len(x.dsts) = Len(it.dsts)
  BY <1>1, WarpItemFacts
<1>3. IsSequence(it.dsts)
  BY <1>1, ItemFacts DEF IsWarpItem
<1>4. list \in Seq(Atomics)
      /\ \A i \in DOMAIN list : list[i][2] \in 0..Len(it.dsts) /\ (list[i][1] = "end" <=> i = Len(list))
  BY <1>2, AtomicsOf
<1> HIDE DEF list, it
<1>5. op \in [weight : Nat, operands : Seq(Operands)] /\ Len(op.operands) = Len(it.dsts)
  BY <1>2, <1>3, NewOpType DEF WarpTypeOK, WarpInv
<1> HIDE DEF op
<1>6. new \in [weight : Nat, operands : Seq(Operands)] /\ new.operands = op.operands
  BY <1>2, <1>5
<1> HIDE DEF new
<1>7. /\ DOMAIN stats' = DOMAIN stats \cup {it.pupc} /\ stats'[it.pupc] = new
      /\ \A p \in DOMAIN stats : p # it.pupc => stats'[p] = stats[p]
  BY <1>1
<1>8. \A p \in DOMAIN stats : Len(stats'[p].operands) = Len(stats[p].operands)
  <2>1. it.pupc \in DOMAIN stats => Len(stats[it.pupc].operands) = Len(it.dsts)
    BY <1>2 DEF WarpInv
  <2>2. QED
    BY <1>5, <1>6, <1>7, <2>1
<1>9. \A p \in DOMAIN stats' : stats'[p] \in [weight : Nat, operands : Seq(Operands)]
  BY <1>6, <1>7 DEF WarpTypeOK
<1>10. \A x \in AppItems(app) : x.pupc \in DOMAIN stats' => Len(stats'[x.pupc].operands) = Len(x.dsts)
  <2>1. ASSUME NEW x \in AppItems(app), x.pupc \in DOMAIN stats'
        PROVE Len(stats'[x.pupc].operands) = Len(x.dsts)
    <3>1. CASE x.pupc = it.pupc
      BY <1>2, <1>5, <1>6, <1>7, <3>1
    <3>2. CASE x.pupc # it.pupc
      BY <1>7, <2>1, <3>2 DEF WarpInv
    <3>3. QED
      BY <3>1, <3>2
  <2>2. QED
    BY <2>1
<1>11. /\ todo' \in [Agents -> Seq(Atomics)] /\ todo'[w] = list
       /\ \A u \in Agents \ {w} : todo'[u] = todo[u]
  BY <1>1, <1>4 DEF WarpTypeOK
<1>12. Len(stats'[it.pupc].operands) = Len(it.dsts)
  BY <1>5, <1>6, <1>7
<1>13. \A k \in DOMAIN counts' : counts'[k] \in Nat \ {0}
  BY <1>1 DEF WarpTypeOK
<1>14. QED
  BY <1>1, <1>4, <1>7, <1>8, <1>9, <1>10, <1>11, <1>12, <1>13, QuietWarp DEF it

LEMMA AtomicType ==
    ASSUME NEW op \in Operands, NEW what \in {"ones", "zeros", "scalar"}, NEW it, NEW d
    PROVE  Atomic(op, what, it, d) \in Operands
<1> DEFINE ones == InAll(it.active, it.dsts[d])
           zeros == InAll(it.active, [l \in it.active |-> Bits \ it.dsts[d][l]])
           same == AllSame(it, d)
<1>1. "ones" # "zeros" /\ "ones" # "scalar" /\ "zeros" # "scalar"
  OBVIOUS
<1>2. /\ what = "ones" => Atomic(op, what, it, d) = [op EXCEPT !.constantOnes = @ \cap ones]
      /\ what = "zeros" => Atomic(op, what, it, d) = [op EXCEPT !.constantZeros = @ \cap zeros]
      /\ what = "scalar" => Atomic(op, what, it, d) = [op EXCEPT !.isScalar = @ \cap same]
  BY <1>1, Zenon DEF Atomic
<1> HIDE DEF ones, zeros, same
<1>3. QED
  BY <1>2 DEF Operands

LEMMA AndInv ==
    ASSUME NEW w \in Agents, WarpBefore(w), And(w)
    PROVE  WarpAfter
<1> USE DEF WarpBefore
<1> DEFINE it == Item(w)
           s == todo[w]
           what == Head(s)[1]
           d == Head(s)[2]
<1>1. /\ s # <<>> /\ todo' = [todo EXCEPT ![w] = Tail(s)] /\ counts' = counts
      /\ IF what = "end" THEN Advance(w) /\ UNCHANGED stats
         ELSE /\ stats' = [stats EXCEPT ![it.pupc].operands[d] = Atomic(@, what, it, d)]
              /\ UNCHANGED pc
  BY DEF And
<1>2. s \in Seq(Atomics) /\ More(w) /\ it.pupc \in DOMAIN stats
      /\ \A i \in DOMAIN s : s[i][2] \in 0..Len(stats[it.pupc].operands) /\ (s[i][1] = "end" <=> i = Len(s))
  BY <1>1 DEF WarpTypeOK, WarpInv
<1>3. Len(s) \in Nat \ {0} /\ Head(s) = s[1] /\ 1 \in DOMAIN s /\ s[1] \in Atomics
  BY <1>1, <1>2
<1>4. Tail(s) \in Seq(Atomics) /\ Len(Tail(s)) = Len(s) - 1
      /\ \A i \in DOMAIN Tail(s) : Tail(s)[i] = s[i + 1] /\ i + 1 \in DOMAIN s
  BY <1>1, <1>2
<1>5. /\ todo' \in [Agents -> Seq(Atomics)] /\ todo'[w] = Tail(s)
      /\ \A u \in Agents \ {w} : todo'[u] = todo[u]
  BY <1>1, <1>4 DEF WarpTypeOK
<1>6. stats[it.pupc] \in [weight : Nat, operands : Seq(Operands)]
  BY <1>2 DEF WarpTypeOK
<1>7. what \in {"ones", "zeros", "scalar", "end"} /\ d \in Nat
  BY <1>3 DEF Atomics
<1>8. \A k \in DOMAIN counts' : counts'[k] \in Nat \ {0}
  BY <1>1 DEF WarpTypeOK
<1> DEFINE p == it.pupc
           old == stats[p].operands
<1>9. CASE what = "end"
  <2>1. Len(s) = 1
    BY <1>2, <1>3, <1>9
  <2>2. Tail(s) = <<>> /\ DOMAIN Tail(s) = {}
    BY <1>4, <2>1
  <2>3. Advance(w) /\ stats' = stats
    BY <1>1, <1>9
  <2> HIDE DEF it, s, what, d
  <2>4. QED
    BY <1>5, <1>8, <2>2, <2>3, QuietWarp DEF WarpTypeOK, WarpInv
<1>10. CASE what # "end"
  <2> DEFINE os == [old EXCEPT ![d] = Atomic(@, what, it, d)]
  <2>1. stats' = [stats EXCEPT ![p].operands[d] = Atomic(@, what, it, d)] /\ pc' = pc
    BY <1>1, <1>10
  <2>2. os \in Seq(Operands) /\ Len(os) = Len(old)
    <3>1. old \in Seq(Operands) /\ Len(old) \in Nat /\ DOMAIN old = 1..Len(old)
      BY <1>6
    <3>2. \A i \in 1..Len(old) : old[i] \in Operands
      BY <3>1
    <3>3. d \in 1..Len(old) => Atomic(old[d], what, it, d) \in Operands
      BY <1>7, <1>10, <3>2, AtomicType
    <3> DEFINE a == Atomic(old[d], what, it, d)
    <3>4. os = [old EXCEPT ![d] = a]
      OBVIOUS
    <3> HIDE DEF a, os, d, old
    <3>5. os \in [1..Len(old) -> Operands] /\ DOMAIN os = 1..Len(old)
      <4>1. os = [i \in 1..Len(old) |-> IF i = d THEN a ELSE old[i]]
        BY <3>1, <3>4
      <4>2. QED
        BY <3>2, <3>3, <4>1 DEF a
    <3>6. QED
      BY <3>1, <3>5
  <2>3. stats'[p] = [stats[p] EXCEPT !.operands = os] /\ DOMAIN stats' = DOMAIN stats
        /\ \A q \in DOMAIN stats : q # p => stats'[q] = stats[q]
    BY <1>2, <2>1
  <2> HIDE DEF os
  <2>4. stats'[p] \in [weight : Nat, operands : Seq(Operands)] /\ Len(stats'[p].operands) = Len(old)
    BY <1>6, <2>2, <2>3
  <2>5. \A q \in DOMAIN stats : Len(stats'[q].operands) = Len(stats[q].operands)
    BY <2>3, <2>4
  <2>6. \A q \in DOMAIN stats' : stats'[q] \in [weight : Nat, operands : Seq(Operands)]
    BY <2>3, <2>4 DEF WarpTypeOK
  <2>7. \A x \in AppItems(app) : x.pupc \in DOMAIN stats' => Len(stats'[x.pupc].operands) = Len(x.dsts)
    BY <2>3, <2>5 DEF WarpInv
  <2>8. \A i \in DOMAIN todo'[w] :
            /\ todo'[w][i][2] \in 0..Len(stats'[p].operands)
            /\ todo'[w][i][1] = "end" <=> i = Len(todo'[w])
    <3>1. ASSUME NEW i \in DOMAIN Tail(s)
          PROVE /\ Tail(s)[i][2] \in 0..Len(old) /\ (Tail(s)[i][1] = "end" <=> i = Len(Tail(s)))
      <4>1. Tail(s)[i] = s[i + 1] /\ i + 1 \in DOMAIN s /\ i \in Nat
        BY <1>4
      <4>2. s[i + 1][2] \in 0..Len(old) /\ (s[i + 1][1] = "end" <=> i + 1 = Len(s))
        BY <1>2, <4>1
      <4>3. QED
        BY <1>3, <1>4, <4>1, <4>2
    <3>2. QED
      BY <1>5, <2>4, <3>1
  <2> HIDE DEF s, what, d, old
  <2>9. QED
    BY <1>2, <1>5, <1>8, <2>1, <2>3, <2>5, <2>6, <2>7, <2>8, QuietWarp
<1>11. QED
  BY <1>9, <1>10

LEMMA WarpStepInv ==
    ASSUME IInv, NEW w \in Agents, ~IsCfg, WarpStep(w), UNCHANGED cfgVars,
           UNCHANGED <<lib, app, hpc, phase, validData, since, file>>
    PROVE  IInv'
<1>1. WarpBefore(w) /\ CfgTypeOK /\ ThreadInv /\ PoolInv
  BY DEF IInv, TypeOK, WarpBefore
<1>2. WarpAfter
  BY <1>1, CountInv, FindInv, AndInv DEF WarpStep
<1>3. pc' = pc \/ Advance(w)
  BY DEF WarpStep, Count, Find, And
<1>4. HostTypeOK' /\ HostInv' /\ (IsCfg' <=> IsCfg)
  BY <1>1, <1>3, DeviceFrame DEF WarpBefore
<1>5. UNCHANGED <<at, bb, cPtr, sassi_mempool_cur, sassi_cfg, sassi_cfg_blocks, weight, failed>>
  BY DEF cfgVars
<1>6. \A t \in Agents : at[t] = "idle" /\ bb[t] >= 1
  BY <1>1 DEF ThreadInv, ThreadOK
<1>7. CfgTypeOK'
  BY <1>1, <1>5 DEF CfgTypeOK
<1>8. ThreadInv'
  BY <1>5, <1>6 DEF ThreadInv, ThreadOK
<1>9. PoolInv'
  <2>1. Used' = Used
    BY <1>5, <1>6 DEF Used, Copied, Record, Array
  <2>2. QED
    BY <1>1, <1>5, <2>1 DEF PoolInv, Apart
<1>10. QED
  BY <1>2, <1>4, <1>7, <1>8, <1>9 DEF IInv, TypeOK, WarpAfter

-----------------------------------------------------------------------------
(* The specification.                                                      *)

LEMMA InitInv == Init => IInv
<1> SUFFICES ASSUME Init PROVE IInv
  OBVIOUS
<1> USE DEF Init, HostInit, CfgInit, WarpInit
<1>1. HostTypeOK /\ HostInv
  <2>1. Len(app) \in Nat
    BY AppsAssumption, SequenceFacts
  <2>2. file = <<>> /\ file \in Seq(ToSet(file)) /\ DOMAIN file = {}
    OBVIOUS
  <2>3. HostTypeOK
    <3>1. lib \in Libs /\ app \in AppsOf[lib] /\ phase \in {"host", "kernel", "exited"} /\ validData \in BOOLEAN
      OBVIOUS
    <3>2. hpc \in 1..(Len(app) + 1) /\ since \in 0..Len(app)
      BY <2>1
    <3>3. pc \in [Agents -> Nat \ {0}]
      OBVIOUS
    <3>4. QED
      BY <2>2, <3>1, <3>2, <3>3 DEF HostTypeOK
  <2>4. HostInv
    BY <2>2 DEF HostInv
  <2>5. QED
    BY <2>3, <2>4
<1>2. CfgTypeOK
  BY EmptyPoolTypes, Sizes DEF CfgTypeOK, Addresses
<1>3. ThreadInv
  BY DEF ThreadInv, ThreadOK
<1>4. PoolInv
  <2>1. Copied = {} /\ {a \in Agents : at[a] = "blocks"} = {}
    BY EmptyPoolTypes DEF Copied
  <2>2. Used = {}
    BY <2>1 DEF Used
  <2>3. QED
    BY <2>2 DEF PoolInv
<1>5. WarpTypeOK /\ WarpInv
  <2>1. \A w \in Agents : todo[w] = <<>> /\ DOMAIN todo[w] = {}
    OBVIOUS
  <2>2. DOMAIN counts = {} /\ DOMAIN stats = {}
    BY DEF Nothing
  <2>3. <<>> \in Seq(Atomics)
    OBVIOUS
  <2>4. todo \in [Agents -> Seq(Atomics)]
    BY <2>3
  <2>5. WarpTypeOK
    BY <2>1, <2>2, <2>4 DEF WarpTypeOK
  <2>6. WarpInv
    BY <2>1, <2>2 DEF WarpInv
  <2>7. QED
    BY <2>5, <2>6
<1>6. QED
  BY <1>1, <1>2, <1>3, <1>4, <1>5 DEF IInv, TypeOK

LEMMA StepInv == IInv /\ [Next]_vars => IInv'
<1> SUFFICES ASSUME IInv, [Next]_vars PROVE IInv'
  OBVIOUS
<1>1. CASE HostStep
  BY <1>1, HostStepInv
<1>2. CASE \E a \in Agents : DeviceStep(a)
  <2>1. PICK a \in Agents : DeviceStep(a)
    BY <1>2
  <2>2. UNCHANGED <<lib, app, hpc, phase, validData, since, file>>
    BY <2>1 DEF DeviceStep
  <2>3. CASE IsCfg /\ CfgStep(a) /\ UNCHANGED warpVars
    BY <2>2, <2>3, CfgStepInv
  <2>4. CASE ~IsCfg /\ WarpStep(a) /\ UNCHANGED cfgVars
    BY <2>2, <2>4, WarpStepInv
  <2>5. QED
    BY <2>1, <2>3, <2>4 DEF DeviceStep
<1>3. CASE UNCHANGED vars
  <2>1. UNCHANGED <<lib, app, hpc, phase, validData, since, pc, file>>
        /\ UNCHANGED <<at, bb, cPtr, sassi_mempool_cur, sassi_cfg, sassi_cfg_blocks, weight, failed>>
        /\ UNCHANGED <<counts, stats, todo>>
    BY <1>3 DEF vars, hostVars, cfgVars, warpVars
  <2>2. TypeOK' /\ HostInv'
    BY <2>1 DEF IInv, TypeOK, HostTypeOK, CfgTypeOK, WarpTypeOK, HostInv, Calls, Item, Stream
  <2>3. ThreadInv'
    BY <2>1 DEF IInv, ThreadInv, ThreadOK, Fn, Item, More, Stream, IsCfg
  <2>6. PoolInv'
    <3>1. Used' = Used
      BY <2>1 DEF Used, Copied, Record, Array, Fn, Item, Stream
    <3>2. QED
      BY <2>1, <3>1 DEF IInv, PoolInv, Apart
  <2>4. WarpInv'
    BY <2>1 DEF IInv, WarpInv, Item, More, Stream, IsCfg
  <2>5. QED
    BY <2>2, <2>3, <2>4, <2>6 DEF IInv
<1>4. QED
  BY <1>1, <1>2, <1>3 DEF Next, Terminated

\* The invariant holds of every behaviour of the libraries.
THEOREM HandlersInvariance == Spec => []IInv
<1>1. Init => IInv
  BY InitInv
<1>2. IInv /\ [Next]_vars => IInv'
  BY StepInv
<1>3. QED
  BY <1>1, <1>2, PTL DEF Spec

\* Type correctness: the addresses that threads are at are of the pool, and a warp's
\* atomics are on destinations that its instruction's SASSOp has.
THEOREM HandlersTypeCorrect == Spec => []TypeOK
<1>1. IInv => TypeOK
  BY DEF IInv
<1>2. QED
  BY <1>1, HandlersInvariance, PTL

\* The records and block arrays that threads of cfg.cu allocate from sassi_mempool
\* stay in it and do not overlap, however the threads interleave, and whichever of
\* them copy the graphs of functions at the same time.
THEOREM AllocationsStayApart == Spec => []AllocationsAreDisjoint
<1>1. IInv => AllocationsAreDisjoint
  <2> SUFFICES ASSUME IInv PROVE AllocationsAreDisjoint
    OBVIOUS
  <2>1. ASSUME NEW p \in Pieces PROVE p \in Used
    BY <2>1 DEF Pieces, Used, Copied, Record, Array
  <2>2. QED
    BY <2>1 DEF IInv, PoolInv, Apart, AllocationsAreDisjoint
<1>2. QED
  BY <1>1, HandlersInvariance, PTL

-----------------------------------------------------------------------------
(* Executions.                                                             *)

IsExecution(x) ==
    /\ x = <<x[1], x[2], x[3]>>
    /\ x[1] \in Calls /\ app[x[1]].op = "launch"
    /\ x[2] \in Agents /\ x[3] \in DOMAIN app[x[1]].grid[x[2]]

\* The executions since the last init.
Done ==
    {x \in Executions(Calls) :
        /\ since <= x[1]
        /\ x[1] < hpc \/ (x[1] = hpc /\ phase = "kernel" /\ x[3] < pc[x[2]])}

\* What an agent executes.
Now(w) == <<hpc, w, pc[w]>>

LEMMA ExecutionsAre ==
    ASSUME NEW C, C \subseteq Calls
    PROVE  \A x : x \in Executions(C) <=> IsExecution(x) /\ x[1] \in C
<1>1. ASSUME NEW x, x \in Executions(C) PROVE IsExecution(x) /\ x[1] \in C
  <2>1. PICK i \in {c \in C : app[c].op = "launch"}, a \in Agents :
            x \in {<<i, a, n>> : n \in DOMAIN app[i].grid[a]}
    BY <1>1 DEF Executions
  <2>2. PICK n \in DOMAIN app[i].grid[a] : x = <<i, a, n>>
    BY <2>1
  <2>3. x[1] = i /\ x[2] = a /\ x[3] = n
    BY <2>2
  <2>4. QED
    BY <2>1, <2>2, <2>3 DEF IsExecution
<1>2. ASSUME NEW x, IsExecution(x), x[1] \in C PROVE x \in Executions(C)
  <2> DEFINE i == x[1]
             a == x[2]
             n == x[3]
  <2>1. /\ x = <<i, a, n>> /\ i \in {c \in C : app[c].op = "launch"} /\ a \in Agents
        /\ n \in DOMAIN app[i].grid[a]
    BY <1>2 DEF IsExecution
  <2> HIDE DEF i, a, n
  <2> DEFINE S == {<<i, a, m>> : m \in DOMAIN app[i].grid[a]}
             SS == {{<<j, b, m>> : m \in DOMAIN app[j].grid[b]} : j \in {c \in C : app[c].op = "launch"}, b \in Agents}
  <2>2. x \in S
    BY <2>1
  <2>3. S \in SS
    BY <2>1
  <2>4. Executions(C) = UNION SS
    BY DEF Executions
  <2> HIDE DEF S, SS
  <2>5. QED
    BY <2>2, <2>3, <2>4
<1>3. QED
  BY <1>1, <1>2

LEMMA DoneIs ==
    \A x : x \in Done <=> /\ IsExecution(x) /\ since <= x[1]
                          /\ x[1] < hpc \/ (x[1] = hpc /\ phase = "kernel" /\ x[3] < pc[x[2]])
<1>1. \A x : x \in Executions(Calls) <=> IsExecution(x) /\ x[1] \in Calls
  BY ExecutionsAre
<1>2. QED
  BY <1>1 DEF Done, IsExecution

\* When no kernel runs they are those of the calls that a dump names.
LEMMA DoneIsOfCalls ==
    ASSUME HostTypeOK, HostInv, phase # "kernel", validData
    PROVE  Done = Executions(since..(hpc - 1)) /\ since..(hpc - 1) \subseteq Calls
<1>1. /\ Calls = 1..Len(app) /\ Len(app) \in Nat /\ hpc \in 1..(Len(app) + 1)
      /\ since \in 0..Len(app) /\ since >= 1
  BY AppFacts DEF HostTypeOK, HostInv
<1>2. since..(hpc - 1) \subseteq Calls
  BY <1>1
<1>3. \A x : IsExecution(x) => (x[1] \in since..(hpc - 1) <=> since <= x[1] /\ x[1] < hpc)
  BY <1>1 DEF IsExecution
<1>4. \A x : x \in Done <=> x \in Executions(since..(hpc - 1))
  BY <1>2, <1>3, ExecutionsAre, DoneIs
<1>5. QED
  BY <1>2, <1>4

\* What they execute.
LEMMA NowIs ==
    ASSUME HostTypeOK, HostInv, NEW w \in Agents, More(w)
    PROVE  IsExecution(Now(w)) /\ ItemOf(Now(w)) = Item(w) /\ Now(w) \notin Done
<1>1. phase = "kernel" /\ pc[w] <= Len(app[hpc].grid[w])
  BY DEF More, Stream
<1>2. hpc \in Calls /\ app[hpc].op = "launch" /\ pc[w] \in Nat \ {0}
  BY <1>1 DEF HostInv, HostTypeOK
<1>3. pc[w] \in DOMAIN app[hpc].grid[w]
  BY <1>1, <1>2, AppFacts
<1>4. Now(w)[1] = hpc /\ Now(w)[2] = w /\ Now(w)[3] = pc[w]
  BY DEF Now
<1>5. IsExecution(Now(w))
  BY <1>2, <1>3, <1>4 DEF IsExecution, Now
<1>6. hpc \in Nat
  BY <1>2, AppFacts
<1>7. Now(w) \notin Done
  BY <1>2, <1>4, <1>6, DoneIs
<1>8. QED
  BY <1>4, <1>5, <1>7 DEF ItemOf, Item, Stream

LEMMA DoneAdvances ==
    ASSUME HostTypeOK, HostInv, NEW w \in Agents, More(w), Advance(w),
           UNCHANGED <<lib, app, hpc, phase, validData, since, file>>
    PROVE  Done' = Done \cup {Now(w)}
<1>1. phase = "kernel" /\ pc \in [Agents -> Nat \ {0}] /\ hpc \in Calls /\ hpc \in Nat
  BY AppFacts DEF More, HostTypeOK, HostInv
<1>2. pc'[w] = pc[w] + 1 /\ \A a \in Agents \ {w} : pc'[a] = pc[a]
  BY <1>1 DEF Advance
<1>3. \A x : IsExecution(x)' <=> IsExecution(x)
  BY DEF IsExecution, Calls
<1>4. since \in Nat
  BY AppFacts DEF HostTypeOK
<1>5. ASSUME NEW x PROVE x \in Done' <=> x \in Done \cup {Now(w)}
  <2>1. x \in Done' <=> /\ IsExecution(x) /\ since <= x[1]
                        /\ x[1] < hpc \/ (x[1] = hpc /\ x[3] < pc'[x[2]])
    <3>1. Executions(Calls)' = Executions(Calls)
      BY DEF Executions, Calls
    <3>2. \A y : y \in Executions(Calls) <=> IsExecution(y) /\ y[1] \in Calls
      BY ExecutionsAre
    <3>3. QED
      BY <1>1, <3>1, <3>2 DEF Done, IsExecution
  <2>2. x \in Done <=> /\ IsExecution(x) /\ since <= x[1]
                       /\ x[1] < hpc \/ (x[1] = hpc /\ x[3] < pc[x[2]])
    BY <1>1, DoneIs
  <2>3. IsExecution(x) => x[2] \in Agents /\ x[3] \in Nat /\ x = <<x[1], x[2], x[3]>>
    BY AppFacts DEF IsExecution
  <2>4. IsExecution(x) /\ x[1] = hpc => (x[3] < pc'[x[2]] <=> x[3] < pc[x[2]] \/ x = Now(w))
    BY <1>1, <1>2, <2>3 DEF Now
  <2>5. x = Now(w) => IsExecution(x) /\ x[1] = hpc
    BY NowIs DEF Now
  <2>6. since <= hpc
    BY <1>1 DEF HostInv
  <2>7. QED
    BY <2>1, <2>2, <2>4, <2>5, <2>6
<1>6. QED
  BY <1>5

LEMMA ExecutionFrame ==
    ASSUME app' = app
    PROVE  /\ Executions(Calls)' = Executions(Calls) /\ Calls' = Calls
           /\ \A x : x \in Executions(Calls) <=> IsExecution(x)
<1>1. \A x : x \in Executions(Calls) <=> IsExecution(x) /\ x[1] \in Calls
  BY ExecutionsAre
<1>2. QED
  BY <1>1 DEF Executions, Calls, IsExecution

\* What the host's steps make of them.
LEMMA DoneOfHost ==
    ASSUME HostTypeOK, HostInv, HostStep
    PROVE  /\ app' = app /\ lib' = lib
           /\ validData' => Done' = IF InitDue THEN {} ELSE Done
<1>0. HostTypeOK' /\ HostInv'
  BY HostStepHost
<1>1. app' = app /\ lib' = lib
  BY DEF HostStep, Launch, Leave, Reset, Exit
<1>2. /\ Executions(Calls)' = Executions(Calls)
      /\ \A x : x \in Executions(Calls) <=> IsExecution(x)
  BY <1>1, ExecutionFrame
<1>3. \A x : x \in Done' <=> /\ IsExecution(x) /\ since' <= x[1]
                             /\ x[1] < hpc' \/ (x[1] = hpc' /\ phase' = "kernel" /\ x[3] < pc'[x[2]])
  BY <1>2 DEF Done
<1>4. \A x : IsExecution(x) => /\ x[1] \in Nat /\ x[2] \in Agents /\ x[3] \in Nat \ {0}
                               /\ x[3] \in DOMAIN app[x[1]].grid[x[2]]
                               /\ x[1] \in Calls /\ app[x[1]].op = "launch"
  BY AppFacts DEF IsExecution
<1>5. hpc \in Nat /\ since \in Nat
  BY AppFacts DEF HostTypeOK
<1>6. CASE Launch
  <2>1. /\ phase = "host" /\ phase' = "kernel" /\ hpc' = hpc /\ validData'
        /\ since' = (IF InitDue THEN hpc ELSE since) /\ \A a \in Agents : pc'[a] = 1
    BY <1>6 DEF Launch, NextCallIs
  <2>2. \A x : x \in Done' <=> IsExecution(x) /\ since' <= x[1] /\ x[1] < hpc
    BY <1>3, <1>4, <2>1
  <2>3. CASE InitDue
    <3>1. \A x : x \notin Done'
      BY <1>4, <1>5, <2>1, <2>2, <2>3
    <3>2. QED
      BY <1>1, <2>3, <3>1
  <2>4. CASE ~InitDue
    <3>1. \A x : x \in Done' <=> x \in Done
      BY <2>1, <2>2, <2>4, DoneIs
    <3>2. QED
      BY <1>1, <2>4, <3>1
  <2>5. QED
    BY <2>3, <2>4
<1>7. CASE Leave
  <2>1. /\ phase = "kernel" /\ phase' = "host" /\ hpc' = hpc + 1 /\ since' = since /\ ~InitDue
        /\ \A a \in Agents : ~(pc[a] <= Len(app[hpc].grid[a]))
    BY <1>7 DEF Leave, More, Stream, HostInv, InitDue
  <2>2. \A x : IsExecution(x) /\ x[1] = hpc => x[3] < pc[x[2]]
    <3>1. pc \in [Agents -> Nat \ {0}]
      BY DEF HostTypeOK
    <3>2. SUFFICES ASSUME NEW x, IsExecution(x), x[1] = hpc PROVE x[3] < pc[x[2]]
      OBVIOUS
    <3>3. /\ x[2] \in Agents
          /\ x[3] \in 1..Len(app[hpc].grid[x[2]]) /\ Len(app[hpc].grid[x[2]]) \in Nat
      BY <1>4, <3>2, AppFacts
    <3>4. pc[x[2]] \in Nat /\ ~(pc[x[2]] <= Len(app[hpc].grid[x[2]]))
      BY <2>1, <3>1, <3>3
    <3>5. x[3] \in Nat /\ x[3] <= Len(app[hpc].grid[x[2]])
      BY <3>3
    <3>6. QED
      BY <3>3, <3>4, <3>5
  <2>3. \A x : x \in Done' <=> x \in Done
    BY <1>3, <1>4, <1>5, <2>1, <2>2, DoneIs
  <2>4. QED
    BY <1>1, <2>1, <2>3
<1>8. CASE Reset(Data)
  BY <1>1, <1>8 DEF Reset
<1>9. CASE Exit(Data)
  <2>1. /\ phase = "host" /\ phase' = "exited" /\ hpc' = hpc /\ since' = since /\ validData' = validData
    BY <1>9 DEF Exit
  <2>2. \A x : x \in Done' <=> x \in Done
    BY <1>3, <2>1, DoneIs
  <2>3. QED
    BY <1>1, <2>1, <2>2 DEF InitDue
<1>10. QED
  BY <1>6, <1>7, <1>8, <1>9 DEF HostStep

\* The lanes of one more execution.
Tagged(x, A) == {<<x, l>> : l \in A}

LEMMA MoreLanes ==
    ASSUME NEW P, NEW x, NEW A, IsFiniteSet(P), IsFiniteSet(A), Cardinality(P \cap Tagged(x, A)) = 0
    PROVE  /\ IsFiniteSet(P \cup Tagged(x, A))
           /\ Cardinality(P \cup Tagged(x, A)) = Cardinality(P) + Cardinality(A)
           /\ Cardinality(P) \in Nat /\ Cardinality(A) \in Nat
<1> DEFINE f == [l \in A |-> <<x, l>>]
           new == Tagged(x, A)
<1>1. f \in Bijection(A, new)
  <2>1. f \in [A -> new] /\ \A l \in A : f[l] = <<x, l>>
    BY DEF Tagged
  <2>2. \A a, b \in A : f[a] = f[b] => a = b
    BY <2>1
  <2>3. \A t \in new : \E l \in A : f[l] = t
    BY <2>1 DEF Tagged
  <2> HIDE DEF f, new
  <2>4. QED
    BY <2>1, <2>2, <2>3 DEF Bijection, Injection, Surjection, IsInjective
<1>2. IsFiniteSet(new) /\ Cardinality(new) = Cardinality(A)
  <2> HIDE DEF f, new
  <2>1. ExistsBijection(A, new)
    BY <1>1 DEF ExistsBijection
  <2>2. QED
    BY <2>1, FS_Bijection
<1>3. QED
  <2>1. IsFiniteSet(P \cup new) /\ Cardinality(P \cup new) = Cardinality(P) + Cardinality(new) - Cardinality(P \cap new)
    BY <1>2, FS_Union
  <2>2. Cardinality(P \cap new) = 0
    OBVIOUS
  <2>3. Cardinality(P) \in Nat /\ Cardinality(new) \in Nat /\ Cardinality(A) \in Nat
    BY <1>2, FS_CardinalityType
  <2> HIDE DEF new
  <2>4. IsFiniteSet(P \cup new) /\ Cardinality(P \cup new) = Cardinality(P) + Cardinality(A)
    BY <1>2, <2>1, <2>2, <2>3
  <2>5. QED
    BY <2>3, <2>4 DEF new

\* A set of natural numbers has a least one.
LEMMA LeastNatural ==
    ASSUME NEW T, T \subseteq Nat, T # {}
    PROVE  \E m \in T : \A n \in T : m <= n
<1> DEFINE R == OpToRel(<, Nat)
<1>1. IsWellFoundedOn(R, Nat)
  BY NatLessThanWellFounded
<1>2. \A x, y \in Nat : x < y => <<x, y>> \in R
  BY DEF OpToRel
<1> HIDE DEF R
<1>3. PICK x \in T : \A y \in T : ~ (<<y, x>> \in R)
  BY <1>1, WFMin
<1>4. ASSUME NEW y \in T PROVE x <= y
  <2>1. x \in Nat /\ y \in Nat
    OBVIOUS
  <2>2. ~(y < x)
    BY <1>2, <1>3, <2>1
  <2>3. QED
    BY <2>1, <2>2
<1>5. QED
  BY <1>3, <1>4

\* The first active lane is one.
LEMMA MinIsIn ==
    ASSUME NEW T, T \subseteq Nat, T # {}
    PROVE  Min(T) \in T
<1>1. \E m \in T : \A n \in T : m =< n
  BY LeastNatural
<1>2. QED
  BY <1>1 DEF Min

-----------------------------------------------------------------------------
(* What valueprof has counted.                                             *)

\* The warps in a handler, the executions that are weighed, and those whose atomicAnd
\* of a kind and a destination has been executed.
Busy == {w \in Agents : todo[w] # <<>>}
Waits(w, what, d) == \E i \in DOMAIN todo[w] : todo[w][i] = <<what, d>>
Weighed == Done \cup {Now(w) : w \in Busy}
Seen(what, d) == Done \cup {Now(w) : w \in {v \in Busy : ~Waits(v, what, d)}}

ItemIn(a, x) == a[x[1]].grid[x[2]][x[3]]
OfInstr(a, X, p) == {x \in X : ItemIn(a, x).pupc = p}
LanesIn(a, X) == UNION {Tagged(x, ItemIn(a, x).active) : x \in X}
OnesIn(a, X, d) == {b \in Bits : \A x \in X : \A l \in ItemIn(a, x).active : b \in ItemIn(a, x).dsts[d][l]}
ZerosIn(a, X, d) == {b \in Bits : \A x \in X : \A l \in ItemIn(a, x).active : b \notin ItemIn(a, x).dsts[d][l]}
Scalar(it, d) == \A k, l \in it.active : it.dsts[d][k] = it.dsts[d][l]

\* The weight of an instruction p of the application a is that of the executions in W;
\* the record of its destination d is that of the executions in X, Y and Z.
WeightIs(a, n, p, W) ==
    IsFiniteSet(LanesIn(a, OfInstr(a, W, p))) /\ n = Cardinality(LanesIn(a, OfInstr(a, W, p)))
OperandIs(a, o, p, d, X, Y, Z) ==
    /\ o.constantOnes = OnesIn(a, OfInstr(a, X, p), d)
    /\ o.constantZeros = ZerosIn(a, OfInstr(a, Y, p), d)
    /\ o.isScalar # {} => 0 \in o.isScalar
    /\ 0 \in o.isScalar <=> \A x \in OfInstr(a, Z, p) : Scalar(ItemIn(a, x), d)

\* A warp executes each atomic once.
TodoInv == \A w \in Agents : \A i, j \in DOMAIN todo[w] : todo[w][i] = todo[w][j] => i = j

StatsInv ==
    lib = "valueprof" /\ validData =>
        /\ \A x \in Weighed : ItemIn(app, x).pupc \in DOMAIN stats
        /\ \A p \in DOMAIN stats :
              /\ WeightIs(app, stats[p].weight, p, Weighed)
              /\ \A d \in DOMAIN stats[p].operands :
                    OperandIs(app, stats[p].operands[d], p, d, Seen("ones", d), Seen("zeros", d), Seen("scalar", d))

ValueInv == TodoInv /\ StatsInv /\ StatsAreOfTheValues

\* The list of atomics has every one of every destination once.
LEMMA EveryAtomicOnce ==
    ASSUME NEW n \in Nat
    PROVE  LET names == <<"ones", "zeros", "scalar">>
               s == [i \in 1..(3 * n) |-> <<names[((i - 1) % 3) + 1], ((i - 1) \div 3) + 1>>] \o <<<<"end", 0>>>>
           IN  /\ s # <<>>
               /\ \A i, j \in DOMAIN s : s[i] = s[j] => i = j
               /\ \A what \in {"ones", "zeros", "scalar"} : \A d \in 1..n :
                     \E i \in DOMAIN s : s[i] = <<what, d>>
<1> DEFINE names == <<"ones", "zeros", "scalar">>
           e(i) == <<names[((i - 1) % 3) + 1], ((i - 1) \div 3) + 1>>
           front == [i \in 1..(3 * n) |-> e(i)]
           last == <<"end", 0>>
           s == front \o <<last>>
           T == {"ones", "zeros", "scalar"}
<1>0. /\ names[1] = "ones" /\ names[2] = "zeros" /\ names[3] = "scalar"
      /\ \A k \in 1..3 : names[k] \in T
      /\ \A k, m \in 1..3 : names[k] = names[m] => k = m
  OBVIOUS
<1> HIDE DEF names
<1>1. ASSUME NEW i \in 1..(3 * n)
      PROVE  /\ ((i - 1) % 3) + 1 \in 1..3 /\ ((i - 1) \div 3) + 1 \in 1..n
             /\ i = 3 * ((i - 1) \div 3) + ((i - 1) % 3) + 1
  OBVIOUS
<1>2. \A i, j \in 1..(3 * n) : e(i) = e(j) => i = j
  <2> SUFFICES ASSUME NEW i \in 1..(3 * n), NEW j \in 1..(3 * n), e(i) = e(j) PROVE i = j
    OBVIOUS
  <2>1. names[((i - 1) % 3) + 1] = names[((j - 1) % 3) + 1] /\ ((i - 1) \div 3) + 1 = ((j - 1) \div 3) + 1
    OBVIOUS
  <2>2. ((i - 1) % 3) + 1 = ((j - 1) % 3) + 1
    BY <1>0, <1>1, <2>1
  <2>3. QED
    BY <1>1, <2>1, <2>2
<1>3. ASSUME NEW k \in 1..3, NEW d \in 1..n
      PROVE  \E i \in 1..(3 * n) : e(i) = <<names[k], d>>
  <2> DEFINE i == 3 * (d - 1) + k
  <2>1. i \in 1..(3 * n) /\ ((i - 1) % 3) + 1 = k /\ ((i - 1) \div 3) + 1 = d
    OBVIOUS
  <2>2. e(i) = <<names[k], d>>
    BY <2>1
  <2>3. QED
    BY <2>1, <2>2
<1>4. \A i \in 1..(3 * n) : e(i) \in T \X (1..n)
  BY <1>0, <1>1
<1> HIDE DEF e
<1>5. front \in [1..(3 * n) -> T \X (1..n)] /\ \A i \in 1..(3 * n) : front[i] = e(i)
  BY <1>4
<1> HIDE DEF front
<1>6. PICK m \in Nat : m = 3 * n
  OBVIOUS
<1> DEFINE U == (T \X (1..n)) \cup {last}
<1>7. front \in [1..m -> U] /\ last \in U
  BY <1>5, <1>6
<1>8. last \notin T \X (1..n)
  OBVIOUS
<1> HIDE DEF last, U, T
<1>9. /\ s \in Seq(U) /\ Len(s) = m + 1
      /\ \A i \in 1..(m + 1) : s[i] = IF i <= m THEN front[i] ELSE last
  BY <1>7, AppendLast
<1> HIDE DEF s
<1>10. /\ DOMAIN s = 1..(m + 1)
       /\ \A i \in 1..m : s[i] = e(i) /\ s[i] # last
       /\ s[m + 1] = last
  BY <1>4, <1>5, <1>6, <1>8, <1>9
<1>11. \A i, j \in DOMAIN s : s[i] = s[j] => i = j
  <2>1. \A i \in DOMAIN s : i \in 1..m \/ i = m + 1
    BY <1>10
  <2>2. \A i, j \in 1..m : s[i] = s[j] => i = j
    BY <1>2, <1>6, <1>10
  <2>3. QED
    BY <1>10, <2>1, <2>2
<1>12. \A what \in T : \A d \in 1..n : \E i \in DOMAIN s : s[i] = <<what, d>>
  <2>1. \A what \in T : \E k \in 1..3 : names[k] = what
    BY <1>0 DEF T
  <2>2. \A i \in 1..(3 * n) : i \in DOMAIN s /\ s[i] = e(i)
    BY <1>6, <1>10
  <2>3. ASSUME NEW what \in T, NEW d \in 1..n PROVE \E i \in DOMAIN s : s[i] = <<what, d>>
    <3>1. PICK k \in 1..3 : names[k] = what
      BY <2>1
    <3>2. PICK i \in 1..(3 * n) : e(i) = <<what, d>>
      BY <1>3, <3>1
    <3>3. QED
      BY <2>2, <3>2
  <2>4. QED
    BY <2>3
<1>13. s # <<>>
  BY <1>9
<1>14. QED
  BY <1>11, <1>12, <1>13 DEF s, front, e, last, names, T

\* An execution of another instruction changes nothing.
LEMMA OtherInstr ==
    ASSUME NEW a, NEW X, NEW x, NEW p, ItemIn(a, x).pupc # p
    PROVE  OfInstr(a, X \cup {x}, p) = OfInstr(a, X, p)
  BY DEF OfInstr

LEMMA SameInstr ==
    ASSUME NEW a, NEW X, NEW x, NEW p, ItemIn(a, x).pupc = p
    PROVE  OfInstr(a, X \cup {x}, p) = OfInstr(a, X, p) \cup {x}
  BY DEF OfInstr

\* One more execution weighs as many threads as are in it.
LEMMA WeighsMore ==
    ASSUME NEW a, NEW W, NEW x, NEW p, NEW n, WeightIs(a, n, p, W), x \notin W,
           ItemIn(a, x).pupc = p, IsFiniteSet(ItemIn(a, x).active)
    PROVE  WeightIs(a, n + Cardinality(ItemIn(a, x).active), p, W \cup {x})
<1> DEFINE X == OfInstr(a, W, p)
           P == LanesIn(a, X)
           A == ItemIn(a, x).active
<1>1. x \notin X
  BY DEF OfInstr
<1>2. P \cap Tagged(x, A) = {}
  BY <1>1 DEF LanesIn, Tagged
<1>3. LanesIn(a, X \cup {x}) = P \cup Tagged(x, A)
  BY DEF LanesIn
<1>4. IsFiniteSet(P) /\ n = Cardinality(P) /\ IsFiniteSet(A)
  BY DEF WeightIs
<1>5. OfInstr(a, W \cup {x}, p) = X \cup {x}
  BY DEF OfInstr
<1> HIDE DEF X, P, A
<1>6. Cardinality(P \cap Tagged(x, A)) = 0
  BY <1>2, FS_EmptySet
<1>7. /\ IsFiniteSet(P \cup Tagged(x, A))
      /\ Cardinality(P \cup Tagged(x, A)) = Cardinality(P) + Cardinality(A)
  BY <1>4, <1>6, MoreLanes
<1>8. WeightIs(a, n + Cardinality(A), p, W \cup {x})
  BY <1>3, <1>4, <1>5, <1>7 DEF WeightIs
<1>9. QED
  BY <1>8 DEF A

\* A new SASSOp is that of no execution.
LEMMA NothingWeighed ==
    ASSUME NEW a, NEW W, NEW X, NEW Y, NEW Z, NEW p, NEW d,
           X \subseteq W, Y \subseteq W, Z \subseteq W, \A x \in W : ItemIn(a, x).pupc # p
    PROVE  /\ WeightIs(a, 0, p, W)
           /\ OperandIs(a, [constantOnes |-> Bits, constantZeros |-> Bits, isScalar |-> Bits], p, d, X, Y, Z)
<1>1. OfInstr(a, W, p) = {} /\ OfInstr(a, X, p) = {} /\ OfInstr(a, Y, p) = {} /\ OfInstr(a, Z, p) = {}
  BY DEF OfInstr
<1>2. LanesIn(a, {}) = {} /\ OnesIn(a, {}, d) = Bits /\ ZerosIn(a, {}, d) = Bits
  BY DEF LanesIn, OnesIn, ZerosIn
<1>3. QED
  BY <1>1, <1>2, FS_EmptySet, BitsAssumption DEF WeightIs, OperandIs

\* What the leader makes of the vote.
LEMMA VoteIsScalar ==
    ASSUME NEW it, it.active \subseteq Nat, NEW d
    PROVE  AllSame(it, d) = IF Scalar(it, d) THEN {0} ELSE {}
<1>1. CASE it.active = {}
  BY <1>1 DEF AllSame, Scalar
<1>2. CASE it.active # {}
  <2>1. Min(it.active) \in it.active
    BY <1>2, MinIsIn
  <2>2. (\A l \in it.active : it.dsts[d][l] = it.dsts[d][Min(it.active)]) <=> Scalar(it, d)
    BY <2>1 DEF Scalar
  <2>3. QED
    BY <2>2 DEF AllSame
<1>3. QED
  BY <1>1, <1>2

\* The atomicAnds put one more execution in the record.
LEMMA AtomicSees ==
    ASSUME NEW a, NEW o \in Operands, NEW p, NEW d, NEW X, NEW Y, NEW Z, NEW x,
           OperandIs(a, o, p, d, X, Y, Z), ItemIn(a, x).pupc = p, ItemIn(a, x).active \subseteq Nat
    PROVE  /\ OperandIs(a, Atomic(o, "ones", ItemIn(a, x), d), p, d, X \cup {x}, Y, Z)
           /\ OperandIs(a, Atomic(o, "zeros", ItemIn(a, x), d), p, d, X, Y \cup {x}, Z)
           /\ OperandIs(a, Atomic(o, "scalar", ItemIn(a, x), d), p, d, X, Y, Z \cup {x})
<1> DEFINE it == ItemIn(a, x)
           ones == InAll(it.active, it.dsts[d])
           zeros == InAll(it.active, [l \in it.active |-> Bits \ it.dsts[d][l]])
           same == AllSame(it, d)
<1>1. "ones" # "zeros" /\ "ones" # "scalar" /\ "zeros" # "scalar"
  OBVIOUS
<1>2. /\ Atomic(o, "ones", it, d) = [o EXCEPT !.constantOnes = @ \cap ones]
      /\ Atomic(o, "zeros", it, d) = [o EXCEPT !.constantZeros = @ \cap zeros]
      /\ Atomic(o, "scalar", it, d) = [o EXCEPT !.isScalar = @ \cap same]
  BY <1>1, Zenon DEF Atomic
<1>3. \A S : OfInstr(a, S \cup {x}, p) = OfInstr(a, S, p) \cup {x}
  BY DEF OfInstr
<1>4. \A S : OnesIn(a, S \cup {x}, d) = OnesIn(a, S, d) \cap ones
  BY DEF OnesIn, InAll
<1>5. \A S : ZerosIn(a, S \cup {x}, d) = ZerosIn(a, S, d) \cap zeros
  <2>1. zeros = {b \in Bits : \A l \in it.active : b \notin it.dsts[d][l]}
    BY DEF InAll
  <2> HIDE DEF zeros
  <2>2. QED
    BY <2>1 DEF ZerosIn
<1>6. same = IF Scalar(it, d) THEN {0} ELSE {}
  BY VoteIsScalar
<1>7. \A S : (\A y \in S \cup {x} : Scalar(ItemIn(a, y), d)) <=>
             (\A y \in S : Scalar(ItemIn(a, y), d)) /\ Scalar(it, d)
  OBVIOUS
<1> HIDE DEF it, ones, zeros, same
<1>8. /\ OperandIs(a, Atomic(o, "ones", it, d), p, d, X \cup {x}, Y, Z)
      /\ OperandIs(a, Atomic(o, "zeros", it, d), p, d, X, Y \cup {x}, Z)
  <2> DEFINE q == [o EXCEPT !.constantOnes = @ \cap ones]
             r == [o EXCEPT !.constantZeros = @ \cap zeros]
  <2>1. /\ q.constantOnes = o.constantOnes \cap ones /\ q.constantZeros = o.constantZeros /\ q.isScalar = o.isScalar
        /\ r.constantOnes = o.constantOnes /\ r.constantZeros = o.constantZeros \cap zeros /\ r.isScalar = o.isScalar
    BY DEF Operands
  <2> HIDE DEF q, r
  <2>2. OnesIn(a, OfInstr(a, X \cup {x}, p), d) = OnesIn(a, OfInstr(a, X, p), d) \cap ones
    BY <1>3, <1>4
  <2>3. ZerosIn(a, OfInstr(a, Y \cup {x}, p), d) = ZerosIn(a, OfInstr(a, Y, p), d) \cap zeros
    BY <1>3, <1>5
  <2>4. OperandIs(a, q, p, d, X \cup {x}, Y, Z)
    BY <2>1, <2>2 DEF OperandIs
  <2>5. OperandIs(a, r, p, d, X, Y \cup {x}, Z)
    BY <2>1, <2>3 DEF OperandIs
  <2>6. QED
    BY <1>2, <2>4, <2>5 DEF q, r
<1>9. OperandIs(a, Atomic(o, "scalar", it, d), p, d, X, Y, Z \cup {x})
  <2> DEFINE r == [o EXCEPT !.isScalar = @ \cap same]
  <2>1. r.constantOnes = o.constantOnes /\ r.constantZeros = o.constantZeros /\ r.isScalar = o.isScalar \cap same
    BY DEF Operands
  <2>2. 0 \in r.isScalar <=> 0 \in o.isScalar /\ Scalar(it, d)
    BY <1>6, <2>1
  <2>3. r.isScalar # {} => 0 \in r.isScalar
    BY <1>6, <2>1
  <2> HIDE DEF r
  <2>4. 0 \in r.isScalar <=> \A y \in OfInstr(a, Z \cup {x}, p) : Scalar(ItemIn(a, y), d)
    BY <1>3, <1>7, <2>2 DEF OperandIs
  <2>5. OperandIs(a, r, p, d, X, Y, Z \cup {x})
    BY <2>1, <2>3, <2>4 DEF OperandIs
  <2>6. QED
    BY <1>2, <2>5 DEF r
<1>10. QED
  BY <1>8, <1>9 DEF it

\* The records of the other instructions stay true.
LEMMA OthersKept ==
    ASSUME NEW a, NEW x, NEW p, ItemIn(a, x).pupc # p
    PROVE  /\ \A n, W : WeightIs(a, n, p, W) => WeightIs(a, n, p, W \cup {x})
           /\ \A o, d, X, Y, Z, X2, Y2, Z2 :
                 /\ OperandIs(a, o, p, d, X, Y, Z)
                 /\ X2 = X \/ X2 = X \cup {x}
                 /\ Y2 = Y \/ Y2 = Y \cup {x}
                 /\ Z2 = Z \/ Z2 = Z \cup {x}
                 => OperandIs(a, o, p, d, X2, Y2, Z2)
<1>1. \A S : OfInstr(a, S \cup {x}, p) = OfInstr(a, S, p)
  BY DEF OfInstr
<1>2. ASSUME NEW o, NEW d, NEW X, NEW Y, NEW Z, NEW X2, NEW Y2, NEW Z2,
             OperandIs(a, o, p, d, X, Y, Z),
             X2 = X \/ X2 = X \cup {x}, Y2 = Y \/ Y2 = Y \cup {x}, Z2 = Z \/ Z2 = Z \cup {x}
      PROVE  OperandIs(a, o, p, d, X2, Y2, Z2)
  <2>1. /\ OfInstr(a, X2, p) = OfInstr(a, X, p) /\ OfInstr(a, Y2, p) = OfInstr(a, Y, p)
        /\ OfInstr(a, Z2, p) = OfInstr(a, Z, p)
    BY <1>1, <1>2
  <2>2. QED
    BY <1>2, <2>1 DEF OperandIs
<1>3. \A n, W : WeightIs(a, n, p, W) => WeightIs(a, n, p, W \cup {x})
  BY <1>1 DEF WeightIs
<1>4. QED
  BY <1>2, <1>3

\* What a step of a warp w does to the sets of executions: it comes to an item, ...
LEMMA Comes ==
    ASSUME NEW w \in Agents, HostTypeOK, HostInv, More(w), todo[w] = <<>>, todo'[w] # <<>>,
           \A u \in Agents \ {w} : todo'[u] = todo[u],
           UNCHANGED <<app, hpc, phase, since, pc>>
    PROVE  /\ Weighed' = Weighed \cup {Now(w)} /\ Now(w) \notin Weighed
           /\ \A what, d : /\ Seen(what, d) \subseteq Weighed
                           /\ Seen(what, d)' = Seen(what, d) \/ Seen(what, d)' = Seen(what, d) \cup {Now(w)}
                           /\ Waits(w, what, d)' => Seen(what, d)' = Seen(what, d)
<1>1. Done' = Done
  BY DEF Done, Executions, Calls
<1>2. \A v : Now(v)' = Now(v)
  BY DEF Now
<1>3. w \notin Busy /\ Busy' = Busy \cup {w}
  BY DEF Busy
<1>4. \A v \in Busy : v \in Agents /\ v # w
  BY <1>3 DEF Busy
<1>5. \A v \in Busy : \A what, d : Waits(v, what, d)' <=> Waits(v, what, d)
  BY <1>4 DEF Waits
<1>6. Now(w) \notin Weighed
  <2>1. Now(w) \notin Done
    BY NowIs
  <2>2. \A v \in Busy : Now(v) # Now(w)
    BY <1>3 DEF Now
  <2>3. QED
    BY <2>1, <2>2 DEF Weighed
<1>7. Weighed' = Weighed \cup {Now(w)}
  <2>1. Weighed' = Done \cup {Now(v) : v \in Busy \cup {w}}
    BY <1>1, <1>2, <1>3 DEF Weighed
  <2>2. QED
    BY <2>1 DEF Weighed
<1>8. ASSUME NEW what, NEW d
      PROVE  /\ Seen(what, d) \subseteq Weighed
             /\ Seen(what, d)' = Seen(what, d) \/ Seen(what, d)' = Seen(what, d) \cup {Now(w)}
             /\ Waits(w, what, d)' => Seen(what, d)' = Seen(what, d)
  <2> DEFINE B == {v \in Busy : ~Waits(v, what, d)}
             B2 == {v \in Busy' : ~Waits(v, what, d)'}
  <2>1. B2 = B \cup (IF Waits(w, what, d)' THEN {} ELSE {w})
    BY <1>3, <1>5
  <2>2. B \subseteq Busy
    OBVIOUS
  <2>3. Seen(what, d) = Done \cup {Now(v) : v \in B}
    BY DEF Seen
  <2>4. Seen(what, d)' = Done \cup {Now(v) : v \in B2}
    BY <1>1, <1>2 DEF Seen
  <2> HIDE DEF B, B2
  <2>5. Seen(what, d) \subseteq Weighed
    BY <2>2, <2>3 DEF Weighed
  <2>6. CASE Waits(w, what, d)'
    BY <2>1, <2>3, <2>4, <2>5, <2>6
  <2>7. CASE ~Waits(w, what, d)'
    <3>1. B2 = B \cup {w}
      BY <2>1, <2>7
    <3>2. Seen(what, d)' = Seen(what, d) \cup {Now(w)}
      BY <2>3, <2>4, <3>1
    <3>3. QED
      BY <2>5, <2>7, <3>2
  <2>8. QED
    BY <2>6, <2>7
<1>9. QED
  BY <1>6, <1>7, <1>8

\* ... executes an atomic other than the last, ...
LEMMA Executes ==
    ASSUME NEW w \in Agents, todo[w] # <<>>, todo'[w] # <<>>, NEW wh, NEW e,
           \A what, d : Waits(w, what, d)' <=> Waits(w, what, d) /\ <<what, d>> # <<wh, e>>,
           Waits(w, wh, e),
           \A u \in Agents \ {w} : todo'[u] = todo[u],
           UNCHANGED <<app, hpc, phase, since, pc>>
    PROVE  /\ Weighed' = Weighed
           /\ \A what, d : <<what, d>> # <<wh, e>> => Seen(what, d)' = Seen(what, d)
           /\ Seen(wh, e)' = Seen(wh, e) \cup {Now(w)}
<1>1. Done' = Done
  BY DEF Done, Executions, Calls
<1>2. \A v : Now(v)' = Now(v)
  BY DEF Now
<1>3. w \in Busy /\ Busy' = Busy
  BY DEF Busy
<1>4. \A v \in Busy : v # w => \A what, d : Waits(v, what, d)' <=> Waits(v, what, d)
  BY DEF Waits, Busy
<1>5. Weighed' = Weighed
  BY <1>1, <1>2, <1>3 DEF Weighed
<1>6. ASSUME NEW what, NEW d
      PROVE  /\ <<what, d>> # <<wh, e>> => Seen(what, d)' = Seen(what, d)
             /\ <<what, d>> = <<wh, e>> => Seen(what, d)' = Seen(what, d) \cup {Now(w)}
  <2> DEFINE B == {v \in Busy : ~Waits(v, what, d)}
             B2 == {v \in Busy' : ~Waits(v, what, d)'}
  <2>1. B2 = B \cup (IF <<what, d>> = <<wh, e>> THEN {w} ELSE {})
    BY <1>3, <1>4
  <2>3. Seen(what, d) = Done \cup {Now(v) : v \in B}
    BY DEF Seen
  <2>4. Seen(what, d)' = Done \cup {Now(v) : v \in B2}
    BY <1>1, <1>2 DEF Seen
  <2> HIDE DEF B, B2
  <2>5. CASE <<what, d>> = <<wh, e>>
    <3>1. B2 = B \cup {w}
      BY <2>1, <2>5
    <3>2. Seen(what, d)' = Seen(what, d) \cup {Now(w)}
      BY <2>3, <2>4, <3>1
    <3>3. QED
      BY <2>5, <3>2
  <2>6. CASE <<what, d>> # <<wh, e>>
    BY <2>1, <2>3, <2>4, <2>6
  <2>7. QED
    BY <2>5, <2>6
<1>7. Seen(wh, e)' = Seen(wh, e) \cup {Now(w)}
  BY <1>6
<1>8. QED
  BY <1>5, <1>6, <1>7

\* ... or leaves the item.
LEMMA Goes ==
    ASSUME NEW w \in Agents, HostTypeOK, HostInv, More(w), Advance(w), todo[w] # <<>>, todo'[w] = <<>>,
           \A u \in Agents \ {w} : todo'[u] = todo[u],
           UNCHANGED <<lib, app, hpc, phase, validData, since, file>>
    PROVE  /\ Weighed' = Weighed
           /\ \A what, d : ~Waits(w, what, d) => Seen(what, d)' = Seen(what, d)
<1>1. Done' = Done \cup {Now(w)}
  BY DoneAdvances
<1>2. \A v \in Agents \ {w} : Now(v)' = Now(v)
  BY DEF Now, Advance, HostTypeOK
<1>3. w \in Busy /\ Busy' = Busy \ {w} /\ Busy \subseteq Agents
  BY DEF Busy
<1>4. \A v \in Busy \ {w} : \A what, d : Waits(v, what, d)' <=> Waits(v, what, d)
  BY DEF Waits, Busy
<1>5. Weighed' = Weighed
  <2>1. {Now(v)' : v \in Busy \ {w}} = {Now(v) : v \in Busy \ {w}}
    BY <1>2, <1>3
  <2>2. Weighed' = Done \cup {Now(w)} \cup {Now(v) : v \in Busy \ {w}}
    BY <1>1, <1>3, <2>1 DEF Weighed
  <2>3. {Now(v) : v \in Busy} = {Now(w)} \cup {Now(v) : v \in Busy \ {w}}
    BY <1>3
  <2>4. QED
    BY <2>2, <2>3 DEF Weighed
<1>6. ASSUME NEW what, NEW d, ~Waits(w, what, d)
      PROVE  Seen(what, d)' = Seen(what, d)
  <2> DEFINE B == {v \in Busy : ~Waits(v, what, d)}
             B2 == {v \in Busy' : ~Waits(v, what, d)'}
  <2>1. B2 = B \ {w} /\ w \in B /\ B2 \subseteq Agents \ {w}
    BY <1>3, <1>4, <1>6
  <2>3. Seen(what, d) = Done \cup {Now(v) : v \in B}
    BY DEF Seen
  <2>4. Seen(what, d)' = Done \cup {Now(w)} \cup {Now(v)' : v \in B2}
    BY <1>1 DEF Seen
  <2> HIDE DEF B, B2
  <2>5. {Now(v)' : v \in B2} = {Now(v) : v \in B2}
    BY <1>2, <2>1
  <2>6. {Now(v) : v \in B} = {Now(w)} \cup {Now(v) : v \in B2}
    BY <2>1
  <2>7. QED
    BY <2>3, <2>4, <2>5, <2>6
<1>7. QED
  BY <1>5, <1>6

LEMMA FindValue ==
    ASSUME NEW w \in Agents, WarpBefore(w), TodoInv, StatsInv, Find(w)
    PROVE  TodoInv' /\ StatsInv'
<1> USE DEF WarpBefore
<1> DEFINE it == Item(w)
           x == Now(w)
           op == IF it.pupc \in DOMAIN stats THEN stats[it.pupc] ELSE NewOp(it)
           names == <<"ones", "zeros", "scalar">>
           list == [i \in 1..(3 * Len(it.dsts)) |-> <<names[((i - 1) % 3) + 1], ((i - 1) \div 3) + 1>>]
                     \o <<<<"end", 0>>>>
           new == [op EXCEPT !.weight = @ + Cardinality(it.active)]
<1>1. /\ lib = "valueprof" /\ More(w) /\ todo[w] = <<>>
      /\ stats' = [p \in DOMAIN stats \cup {it.pupc} |-> IF p = it.pupc THEN new ELSE stats[p]]
      /\ todo' = [todo EXCEPT ![w] = list]
      /\ UNCHANGED <<pc, counts>>
  BY DEF Find, Begins
<1>2. /\ it \in AppItems(app) /\ Cardinality(it.active) \in Nat /\ IsFiniteSet(it.active)
      /\ Len(it.dsts) \in Nat /\ DOMAIN it.dsts = 1..Len(it.dsts)
  BY <1>1, WarpItemFacts
<1>3. IsSequence(it.dsts)
  BY <1>1, ItemFacts DEF IsWarpItem
<1>4. /\ list # <<>> /\ \A i, j \in DOMAIN list : list[i] = list[j] => i = j
      /\ \A what \in {"ones", "zeros", "scalar"} : \A d \in 1..Len(it.dsts) :
            \E i \in DOMAIN list : list[i] = <<what, d>>
  BY <1>2, EveryAtomicOnce
<1>5. todo'[w] = list /\ \A u \in Agents \ {w} : todo'[u] = todo[u]
  BY <1>1 DEF WarpTypeOK
<1>6. ItemIn(app, x) = it
  BY <1>1, NowIs DEF ItemIn, ItemOf
<1>7. validData /\ validData'
  BY <1>1 DEF HostInv, More
<1>8. op \in [weight : Nat, operands : Seq(Operands)] /\ DOMAIN op.operands = 1..Len(it.dsts)
  <2>1. op \in [weight : Nat, operands : Seq(Operands)] /\ Len(op.operands) = Len(it.dsts)
    BY <1>2, <1>3, NewOpType DEF WarpTypeOK, WarpInv
  <2> HIDE DEF op, it
  <2>2. QED
    BY <2>1
<1> HIDE DEF list
<1>9. TodoInv'
  BY <1>4, <1>5 DEF TodoInv
<1>10. \A what \in {"ones", "zeros", "scalar"} : \A d \in 1..Len(it.dsts) : Waits(w, what, d)'
  BY <1>4, <1>5 DEF Waits
<1>11. /\ Weighed' = Weighed \cup {x} /\ x \notin Weighed
       /\ \A what, d : /\ Seen(what, d) \subseteq Weighed
                       /\ Seen(what, d)' = Seen(what, d) \/ Seen(what, d)' = Seen(what, d) \cup {x}
                       /\ Waits(w, what, d)' => Seen(what, d)' = Seen(what, d)
  BY <1>1, <1>4, <1>5, Comes
<1>12. /\ \A y \in Weighed : ItemIn(app, y).pupc \in DOMAIN stats
       /\ \A p \in DOMAIN stats :
              /\ WeightIs(app, stats[p].weight, p, Weighed)
              /\ \A d \in DOMAIN stats[p].operands :
                    OperandIs(app, stats[p].operands[d], p, d, Seen("ones", d), Seen("zeros", d), Seen("scalar", d))
  BY <1>1, <1>7 DEF StatsInv
<1>13. /\ WeightIs(app, op.weight, it.pupc, Weighed)
       /\ \A d \in DOMAIN op.operands :
             OperandIs(app, op.operands[d], it.pupc, d, Seen("ones", d), Seen("zeros", d), Seen("scalar", d))
  <2>1. CASE it.pupc \in DOMAIN stats
    BY <1>12, <2>1
  <2>2. CASE it.pupc \notin DOMAIN stats
    <3>1. \A y \in Weighed : ItemIn(app, y).pupc # it.pupc
      BY <1>12, <2>2
    <3>2. /\ op.weight = 0
          /\ \A d \in DOMAIN op.operands :
                op.operands[d] = [constantOnes |-> Bits, constantZeros |-> Bits, isScalar |-> Bits]
      BY <2>2 DEF NewOp
    <3> HIDE DEF op, it, x
    <3>3. QED
      BY <1>11, <3>1, <3>2, NothingWeighed
  <2>3. QED
    BY <2>1, <2>2
<1> HIDE DEF op
<1>14. /\ DOMAIN stats' = DOMAIN stats \cup {it.pupc}
       /\ stats'[it.pupc].weight = op.weight + Cardinality(it.active)
       /\ stats'[it.pupc].operands = op.operands
       /\ \A p \in DOMAIN stats : p # it.pupc => stats'[p] = stats[p]
  <2>1. new.weight = op.weight + Cardinality(it.active) /\ new.operands = op.operands
    BY <1>8
  <2> HIDE DEF new, it
  <2>2. QED
    BY <1>1, <2>1
<1> HIDE DEF it, x, new
<1>15. \A y \in Weighed' : ItemIn(app, y).pupc \in DOMAIN stats'
  BY <1>6, <1>11, <1>12, <1>14
<1>16. ASSUME NEW p \in DOMAIN stats', p = it.pupc
       PROVE  /\ WeightIs(app, stats'[p].weight, p, Weighed')
              /\ \A d \in DOMAIN stats'[p].operands :
                    OperandIs(app, stats'[p].operands[d], p, d, Seen("ones", d)', Seen("zeros", d)', Seen("scalar", d)')
  <2>1. WeightIs(app, op.weight + Cardinality(it.active), it.pupc, Weighed \cup {x})
    BY <1>2, <1>6, <1>11, <1>13, WeighsMore
  <2>2. \A d \in DOMAIN op.operands :
            /\ Seen("ones", d)' = Seen("ones", d) /\ Seen("zeros", d)' = Seen("zeros", d)
            /\ Seen("scalar", d)' = Seen("scalar", d)
    BY <1>8, <1>10, <1>11
  <2>3. QED
    BY <1>11, <1>13, <1>14, <1>16, <2>1, <2>2
<1>17. ASSUME NEW p \in DOMAIN stats', p # it.pupc
       PROVE  /\ WeightIs(app, stats'[p].weight, p, Weighed')
              /\ \A d \in DOMAIN stats'[p].operands :
                    OperandIs(app, stats'[p].operands[d], p, d, Seen("ones", d)', Seen("zeros", d)', Seen("scalar", d)')
  <2>1. p \in DOMAIN stats /\ stats'[p] = stats[p] /\ ItemIn(app, x).pupc # p
    BY <1>6, <1>14, <1>17
  <2>2. WeightIs(app, stats[p].weight, p, Weighed \cup {x})
    BY <1>12, <2>1, OthersKept
  <2>3. ASSUME NEW d \in DOMAIN stats[p].operands
        PROVE OperandIs(app, stats[p].operands[d], p, d, Seen("ones", d)', Seen("zeros", d)', Seen("scalar", d)')
    BY <1>11, <1>12, <2>1, OthersKept
  <2>4. QED
    BY <1>11, <2>1, <2>2, <2>3
<1>18. StatsInv'
  BY <1>15, <1>16, <1>17 DEF StatsInv
<1>19. QED
  BY <1>9, <1>18

LEMMA AndValue ==
    ASSUME NEW w \in Agents, WarpBefore(w), TodoInv, StatsInv, lib = "valueprof", And(w)
    PROVE  TodoInv' /\ StatsInv'
<1> USE DEF WarpBefore
<1> DEFINE it == Item(w)
           x == Now(w)
           s == todo[w]
           p == it.pupc
           old == stats[p].operands
<1>2. s # <<>> /\ s \in Seq(Atomics) /\ More(w) /\ p \in DOMAIN stats
      /\ \A i \in DOMAIN s : s[i][1] = "end" <=> i = Len(s)
  BY DEF And, WarpTypeOK, WarpInv
<1>3. Len(s) \in Nat \ {0} /\ DOMAIN s = 1..Len(s) /\ Head(s) = s[1] /\ s[1] \in Atomics
  BY <1>2
<1>7. PICK what \in {"ones", "zeros", "scalar", "end"}, d \in Nat : s[1] = <<what, d>>
  BY <1>3 DEF Atomics
<1>1. /\ todo' = [todo EXCEPT ![w] = Tail(s)]
      /\ IF what = "end" THEN Advance(w) /\ UNCHANGED stats
         ELSE /\ stats' = [stats EXCEPT ![p].operands[d] = Atomic(@, what, it, d)]
              /\ UNCHANGED pc
  <2>1. Head(s)[1] = what /\ Head(s)[2] = d
    BY <1>3, <1>7
  <2>2. QED
    BY <2>1 DEF And
<1>4. /\ DOMAIN Tail(s) = 1..(Len(s) - 1)
      /\ \A i \in 1..(Len(s) - 1) : Tail(s)[i] = s[i + 1]
      /\ Len(s) = 1 => Tail(s) = <<>>
      /\ Len(s) # 1 => Tail(s) # <<>>
  <2>1. Tail(s) \in Seq(Atomics) /\ Len(Tail(s)) = Len(s) - 1
        /\ \A i \in DOMAIN Tail(s) : Tail(s)[i] = s[i + 1]
    BY <1>2
  <2>2. DOMAIN Tail(s) = 1..(Len(s) - 1)
    BY <2>1
  <2> HIDE DEF s
  <2>3. Len(s) = 1 => Tail(s) = <<>>
    <3>1. Len(s) = 1 => Len(Tail(s)) = 0
      BY <2>1
    <3> DEFINE t == Tail(s)
    <3>2. t \in Seq(Atomics)
      BY <2>1
    <3> HIDE DEF t
    <3>3. Len(t) = 0 => t = <<>>
      BY <3>2
    <3>4. QED
      BY <3>1, <3>3 DEF t
  <2>4. Len(s) # 1 => Tail(s) # <<>>
    BY <1>3, <2>1
  <2>5. QED
    BY <2>1, <2>2, <2>3, <2>4
<1>5. todo'[w] = Tail(s) /\ \A u \in Agents \ {w} : todo'[u] = todo[u]
  BY <1>1 DEF WarpTypeOK
<1>6. ItemIn(app, x) = it /\ it.active \subseteq Nat
  BY <1>2, NowIs, ItemFacts DEF ItemIn, ItemOf, IsWarpItem
<1>8. \A i, j \in DOMAIN s : s[i] = s[j] => i = j
  BY DEF TodoInv
<1> HIDE DEF s, it, x, p
<1>9. TodoInv'
  <2>1. \A i, j \in DOMAIN Tail(s) : Tail(s)[i] = Tail(s)[j] => i = j
    BY <1>3, <1>4, <1>8
  <2>2. QED
    BY <1>5, <2>1 DEF TodoInv
<1>10. validData /\ (validData' <=> validData) /\ lib' = lib /\ app' = app
  BY <1>2 DEF HostInv, More
<1>11. /\ \A y \in Weighed : ItemIn(app, y).pupc \in DOMAIN stats
       /\ \A q \in DOMAIN stats :
              /\ WeightIs(app, stats[q].weight, q, Weighed)
              /\ \A e \in DOMAIN stats[q].operands :
                    OperandIs(app, stats[q].operands[e], q, e, Seen("ones", e), Seen("zeros", e), Seen("scalar", e))
  BY <1>10 DEF StatsInv
<1>12. CASE what = "end"
  <2>1. Len(s) = 1 /\ stats' = stats /\ Advance(w)
    BY <1>1, <1>2, <1>3, <1>7, <1>12
  <2>2. \A wh, e : Waits(w, wh, e) => wh = "end"
    BY <1>3, <1>7, <1>12, <2>1 DEF Waits, s
  <2>3. Weighed' = Weighed /\ \A wh, e : ~Waits(w, wh, e) => Seen(wh, e)' = Seen(wh, e)
    <3>1. todo[w] # <<>> /\ todo'[w] = <<>>
      BY <1>2, <1>4, <1>5, <2>1 DEF s
    <3>2. QED
      BY <1>2, <1>5, <2>1, <3>1, Goes
  <2>4. \A e : Seen("ones", e)' = Seen("ones", e) /\ Seen("zeros", e)' = Seen("zeros", e)
               /\ Seen("scalar", e)' = Seen("scalar", e)
    BY <2>2, <2>3
  <2>5. StatsInv'
    BY <1>10, <1>11, <2>1, <2>3, <2>4 DEF StatsInv
  <2>6. QED
    BY <1>9, <2>5
<1>13. CASE what # "end"
  <2> DEFINE at0 == Atomic(old[d], what, it, d)
             os == [old EXCEPT ![d] = at0]
  <2>1. stats' = [stats EXCEPT ![p].operands[d] = Atomic(@, what, it, d)] /\ pc' = pc
    BY <1>1, <1>13
  <2>2. stats[p] \in [weight : Nat, operands : Seq(Operands)]
    BY <1>2 DEF WarpTypeOK
  <2>3. old \in Seq(Operands)
    BY <2>2
  <2>4. /\ DOMAIN stats' = DOMAIN stats /\ stats'[p].weight = stats[p].weight /\ stats'[p].operands = os
        /\ \A q \in DOMAIN stats : q # p => stats'[q] = stats[q]
    BY <1>2, <2>1, <2>2
  <2>5. /\ DOMAIN os = DOMAIN old /\ \A e \in DOMAIN old : e # d => os[e] = old[e]
        /\ d \in DOMAIN old => os[d] = at0 /\ old[d] \in Operands
    BY <2>3
  <2> HIDE DEF os, at0, old
  <2>6. Len(s) # 1
    BY <1>2, <1>3, <1>7, <1>13
  <2>7. \A wh, e : Waits(w, wh, e)' <=> Waits(w, wh, e) /\ <<wh, e>> # <<what, d>>
    <3>1. \A i \in DOMAIN s : i # 1 => s[i] # <<what, d>>
      BY <1>3, <1>7, <1>8
    <3>2. \A i \in 1..(Len(s) - 1) : i + 1 \in DOMAIN s /\ i + 1 # 1
      BY <1>3
    <3>3. \A i \in DOMAIN s : i # 1 => i - 1 \in 1..(Len(s) - 1) /\ (i - 1) + 1 = i
      BY <1>3
    <3>4. ASSUME NEW wh, NEW e
          PROVE  (\E i \in DOMAIN Tail(s) : Tail(s)[i] = <<wh, e>>) <=>
                 (\E i \in DOMAIN s : s[i] = <<wh, e>>) /\ <<wh, e>> # <<what, d>>
      <4>1. ASSUME NEW i \in DOMAIN Tail(s), Tail(s)[i] = <<wh, e>>
            PROVE  (\E j \in DOMAIN s : s[j] = <<wh, e>>) /\ <<wh, e>> # <<what, d>>
        BY <1>4, <3>1, <3>2, <4>1
      <4>2. ASSUME NEW i \in DOMAIN s, s[i] = <<wh, e>>, <<wh, e>> # <<what, d>>
            PROVE  \E j \in DOMAIN Tail(s) : Tail(s)[j] = <<wh, e>>
        <5>1. i # 1
          BY <1>7, <4>2
        <5>2. i - 1 \in DOMAIN Tail(s) /\ Tail(s)[i - 1] = s[i]
          BY <1>4, <3>3, <5>1
        <5>3. QED
          BY <4>2, <5>2
      <4>3. QED
        BY <4>1, <4>2
    <3>5. \A wh, e : Waits(w, wh, e)' <=> \E i \in DOMAIN Tail(s) : Tail(s)[i] = <<wh, e>>
      BY <1>5 DEF Waits
    <3>6. \A wh, e : Waits(w, wh, e) <=> \E i \in DOMAIN s : s[i] = <<wh, e>>
      BY DEF Waits, s
    <3>7. QED
      BY <3>4, <3>5, <3>6
  <2>8. Waits(w, what, d)
    BY <1>3, <1>7 DEF Waits, s
  <2>9. /\ Weighed' = Weighed
        /\ \A wh, e : <<wh, e>> # <<what, d>> => Seen(wh, e)' = Seen(wh, e)
        /\ Seen(what, d)' = Seen(what, d) \cup {x}
    <3>1. todo[w] # <<>> /\ todo'[w] # <<>>
      BY <1>2, <1>4, <1>5, <2>6 DEF s
    <3>2. QED
      BY <1>5, <2>1, <2>7, <2>8, <3>1, Executes DEF x
  <2>10. \A q \in DOMAIN stats : stats'[q].weight = stats[q].weight
    BY <2>4
  <2>11. ASSUME NEW q \in DOMAIN stats, q # p, NEW e \in DOMAIN stats[q].operands
         PROVE OperandIs(app, stats[q].operands[e], q, e, Seen("ones", e)', Seen("zeros", e)', Seen("scalar", e)')
    <3>1. ItemIn(app, x).pupc # q
      BY <1>6, <2>11 DEF p
    <3>2. \A wh : Seen(wh, e)' = Seen(wh, e) \/ Seen(wh, e)' = Seen(wh, e) \cup {x}
      <4>1. ASSUME NEW wh PROVE Seen(wh, e)' = Seen(wh, e) \/ Seen(wh, e)' = Seen(wh, e) \cup {x}
        <5>1. CASE <<wh, e>> = <<what, d>>
          <6>1. wh = what /\ e = d
            BY <5>1
          <6>2. QED
            BY <2>9, <6>1
        <5>2. CASE <<wh, e>> # <<what, d>>
          BY <2>9, <5>2
        <5>3. QED
          BY <5>1, <5>2
      <4>2. QED
        BY <4>1
    <3>3. QED
      BY <1>11, <3>1, <3>2, OthersKept
  <2>12. ASSUME NEW e \in DOMAIN old, e # d
         PROVE OperandIs(app, os[e], p, e, Seen("ones", e)', Seen("zeros", e)', Seen("scalar", e)')
    <3>1. \A wh : Seen(wh, e)' = Seen(wh, e)
      BY <2>9, <2>12
    <3>2. OperandIs(app, old[e], p, e, Seen("ones", e), Seen("zeros", e), Seen("scalar", e))
      BY <1>2, <1>11 DEF old
    <3>3. QED
      BY <2>5, <2>12, <3>1, <3>2
  <2>13. ASSUME d \in DOMAIN old
         PROVE OperandIs(app, os[d], p, d, Seen("ones", d)', Seen("zeros", d)', Seen("scalar", d)')
    <3>1. OperandIs(app, old[d], p, d, Seen("ones", d), Seen("zeros", d), Seen("scalar", d))
      BY <1>2, <1>11, <2>13 DEF old
    <3>2. ItemIn(app, x).pupc = p /\ ItemIn(app, x).active \subseteq Nat
      BY <1>6 DEF p
    <3>3. /\ OperandIs(app, Atomic(old[d], "ones", it, d), p, d, Seen("ones", d) \cup {x}, Seen("zeros", d), Seen("scalar", d))
          /\ OperandIs(app, Atomic(old[d], "zeros", it, d), p, d, Seen("ones", d), Seen("zeros", d) \cup {x}, Seen("scalar", d))
          /\ OperandIs(app, Atomic(old[d], "scalar", it, d), p, d, Seen("ones", d), Seen("zeros", d), Seen("scalar", d) \cup {x})
      BY <1>6, <2>5, <2>13, <3>1, <3>2, AtomicSees
    <3>4. os[d] = Atomic(old[d], what, it, d)
      BY <2>5, <2>13 DEF at0
    <3>5. \A wh : wh # what => Seen(wh, d)' = Seen(wh, d)
      BY <2>9
    <3>6. CASE what = "ones"
      BY <2>9, <3>3, <3>4, <3>5, <3>6
    <3>7. CASE what = "zeros"
      BY <2>9, <3>3, <3>4, <3>5, <3>7
    <3>8. CASE what = "scalar"
      BY <2>9, <3>3, <3>4, <3>5, <3>8
    <3>9. QED
      BY <1>7, <1>13, <3>6, <3>7, <3>8
  <2>14. ASSUME NEW q \in DOMAIN stats'
         PROVE  /\ WeightIs(app, stats'[q].weight, q, Weighed')
                /\ \A e \in DOMAIN stats'[q].operands :
                      OperandIs(app, stats'[q].operands[e], q, e, Seen("ones", e)', Seen("zeros", e)', Seen("scalar", e)')
    <3>1. CASE q # p
      BY <1>11, <2>4, <2>9, <2>11, <3>1
    <3>2. CASE q = p
      <4>1. \A e \in DOMAIN os :
               OperandIs(app, os[e], p, e, Seen("ones", e)', Seen("zeros", e)', Seen("scalar", e)')
        BY <2>5, <2>12, <2>13
      <4>2. QED
        BY <1>2, <1>11, <2>4, <2>9, <3>2, <4>1
    <3>3. QED
      BY <3>1, <3>2
  <2>15. \A y \in Weighed' : ItemIn(app, y).pupc \in DOMAIN stats'
    BY <1>11, <2>4, <2>9
  <2>16. StatsInv'
    BY <1>10, <2>14, <2>15 DEF StatsInv
  <2>17. QED
    BY <1>9, <2>16
<1>14. QED
  BY <1>12, <1>13

\* The host's steps keep the executions with their records, or forget both.
LEMMA HostWeighed ==
    ASSUME IInv, HostStep
    PROVE  /\ app' = app /\ lib' = lib /\ todo' = todo /\ Busy = {} /\ Busy' = {}
           /\ validData' => Done' = IF InitDue THEN {} ELSE Done
           /\ validData' => counts' = IF InitDue /\ ~IsCfg THEN Nothing ELSE counts
           /\ validData' => stats' = IF InitDue /\ ~IsCfg THEN Nothing ELSE stats
<1>1. HostTypeOK /\ HostInv /\ ThreadInv /\ WarpInv
  BY DEF IInv, TypeOK
<1>2. app' = app /\ lib' = lib /\ (validData' => Done' = IF InitDue THEN {} ELSE Done)
  BY <1>1, DoneOfHost
<1>3. todo' = todo /\ Busy = {} /\ Busy' = {}
  BY <1>1, HostStepQuiet DEF Busy
<1>4. (validData' => counts' = IF InitDue /\ ~IsCfg THEN Nothing ELSE counts)
      /\ (validData' => stats' = IF InitDue /\ ~IsCfg THEN Nothing ELSE stats)
  <2>1. CASE Launch /\ IF IsCfg THEN CfgLaunch /\ UNCHANGED warpVars ELSE WarpLaunch /\ UNCHANGED cfgVars
    BY <2>1 DEF WarpLaunch, warpVars
  <2>2. CASE (Leave \/ Reset(Data) \/ Exit(Data)) /\ UNCHANGED <<cfgVars, warpVars>>
    <3>1. validData' => validData
      BY <2>2 DEF Leave, Reset, Exit
    <3>2. QED
      BY <2>2, <3>1 DEF InitDue, warpVars
  <2>3. QED
    BY <2>1, <2>2 DEF HostStep
<1>5. QED
  BY <1>2, <1>3, <1>4

LEMMA AllSeen ==
    ASSUME Busy = {}
    PROVE  Weighed = Done /\ \A what, d : Seen(what, d) = Done
  BY DEF Weighed, Seen

LEMMA HostValue ==
    ASSUME IInv, TodoInv, StatsInv, HostStep
    PROVE  TodoInv' /\ StatsInv'
<1>1. /\ app' = app /\ lib' = lib /\ todo' = todo /\ Busy = {} /\ Busy' = {}
      /\ validData' => Done' = IF InitDue THEN {} ELSE Done
      /\ validData' => stats' = IF InitDue /\ ~IsCfg THEN Nothing ELSE stats
  BY HostWeighed
<1>2. TodoInv'
  BY <1>1 DEF TodoInv
<1>3. Weighed = Done /\ \A what, d : Seen(what, d) = Done
  BY <1>1, AllSeen
<1>4. Weighed' = Done' /\ \A what, d : Seen(what, d)' = Done'
  BY <1>1 DEF Weighed, Seen
<1>5. ASSUME lib = "valueprof", validData'
      PROVE  /\ \A x \in Weighed' : ItemIn(app, x).pupc \in DOMAIN stats'
             /\ \A p \in DOMAIN stats' :
                   /\ WeightIs(app, stats'[p].weight, p, Weighed')
                   /\ \A d \in DOMAIN stats'[p].operands :
                         OperandIs(app, stats'[p].operands[d], p, d, Seen("ones", d)', Seen("zeros", d)', Seen("scalar", d)')
  <2>1. ~IsCfg
    BY <1>5 DEF IsCfg
  <2>2. CASE InitDue
    <3>1. Weighed' = {} /\ DOMAIN stats' = {}
      BY <1>1, <1>4, <1>5, <2>1, <2>2 DEF Nothing
    <3>2. QED
      BY <3>1
  <2>3. CASE ~InitDue
    <3>1. validData /\ Done' = Done /\ stats' = stats
      BY <1>1, <1>5, <2>3 DEF InitDue
    <3>2. QED
      BY <1>3, <1>4, <1>5, <3>1 DEF StatsInv
  <2>4. QED
    BY <2>2, <2>3
<1>6. StatsInv'
  BY <1>1, <1>5 DEF StatsInv
<1>7. QED
  BY <1>2, <1>6

\* A dump of valueprof.
StatsOf(calls, data) ==
    \A p \in DOMAIN data :
        LET op == data[p]
        IN  /\ op.weight = Cardinality(UNION {{<<x, l>> : l \in ItemOf(x).active} : x \in Warps(calls, p)})
            /\ \A d \in DOMAIN op.operands : LET values == Values(calls, p, d) IN
                 /\ op.operands[d].constantOnes = {b \in Bits : \A v \in values : b \in v}
                 /\ op.operands[d].constantZeros = {b \in Bits : \A v \in values : b \notin v}
                 /\ (op.operands[d].isScalar # {}) <=>
                      \A x \in Warps(calls, p) : \A k, l \in ItemOf(x).active :
                          ItemOf(x).dsts[d][k] = ItemOf(x).dsts[d][l]

\* The same of an application a.
ExecutionsIn(a, calls) ==
    UNION {{<<i, g, n>> : n \in DOMAIN a[i].grid[g]} :
             i \in {c \in calls : a[c].op = "launch"}, g \in Agents}
StatsIn(a, calls, data) ==
    \A p \in DOMAIN data :
        LET op == data[p]
            X == {x \in ExecutionsIn(a, calls) : ItemIn(a, x).pupc = p}
        IN  /\ op.weight = Cardinality(UNION {{<<x, l>> : l \in ItemIn(a, x).active} : x \in X})
            /\ \A d \in DOMAIN op.operands :
                 LET values == UNION {{ItemIn(a, x).dsts[d][l] : l \in ItemIn(a, x).active} : x \in X} IN
                 /\ op.operands[d].constantOnes = {b \in Bits : \A v \in values : b \in v}
                 /\ op.operands[d].constantZeros = {b \in Bits : \A v \in values : b \notin v}
                 /\ (op.operands[d].isScalar # {}) <=>
                      \A x \in X : \A k, l \in ItemIn(a, x).active :
                          ItemIn(a, x).dsts[d][k] = ItemIn(a, x).dsts[d][l]

LEMMA StatsOfIsIn ==
    ASSUME NEW calls, NEW data
    PROVE  StatsOf(calls, data) <=> StatsIn(app, calls, data)
  BY DEF StatsOf, StatsIn, Warps, Values, Executions, ExecutionsIn, ItemOf, ItemIn

LEMMA FileStats ==
    StatsAreOfTheValues <=>
        (lib = "valueprof" => \A i \in DOMAIN file : StatsIn(app, file[i].calls, file[i].data))
<1>1. StatsAreOfTheValues <=> (lib = "valueprof" => \A i \in DOMAIN file : StatsOf(file[i].calls, file[i].data))
  BY DEF StatsAreOfTheValues, StatsOf
<1>2. QED
  BY <1>1, StatsOfIsIn

LEMMA DumpOfStats ==
    ASSUME HostTypeOK, HostInv, StatsInv, Busy = {}, phase # "kernel", validData, lib = "valueprof"
    PROVE  StatsOf(since..(hpc - 1), stats)
<1> DEFINE calls == since..(hpc - 1)
<1>1. Weighed = Executions(calls) /\ \A what, d : Seen(what, d) = Executions(calls)
  BY AllSeen, DoneIsOfCalls
<1> HIDE DEF calls
<1>2. \A x : ItemOf(x) = ItemIn(app, x)
  BY DEF ItemOf, ItemIn
<1>3. \A p : OfInstr(app, Executions(calls), p) = Warps(calls, p)
  BY <1>2 DEF OfInstr, Warps
<1>4. ASSUME NEW p \in DOMAIN stats
      PROVE  /\ stats[p].weight = Cardinality(UNION {{<<x, l>> : l \in ItemOf(x).active} : x \in Warps(calls, p)})
             /\ \A d \in DOMAIN stats[p].operands : LET values == Values(calls, p, d) IN
                  /\ stats[p].operands[d].constantOnes = {b \in Bits : \A v \in values : b \in v}
                  /\ stats[p].operands[d].constantZeros = {b \in Bits : \A v \in values : b \notin v}
                  /\ (stats[p].operands[d].isScalar # {}) <=>
                       \A x \in Warps(calls, p) : \A k, l \in ItemOf(x).active :
                           ItemOf(x).dsts[d][k] = ItemOf(x).dsts[d][l]
  <2>1. /\ WeightIs(app, stats[p].weight, p, Executions(calls))
        /\ \A d \in DOMAIN stats[p].operands :
              OperandIs(app, stats[p].operands[d], p, d, Executions(calls), Executions(calls), Executions(calls))
    BY <1>1 DEF StatsInv
  <2>2. LanesIn(app, Warps(calls, p)) = UNION {{<<x, l>> : l \in ItemOf(x).active} : x \in Warps(calls, p)}
    BY <1>2 DEF LanesIn, Tagged
  <2>3. stats[p].weight = Cardinality(UNION {{<<x, l>> : l \in ItemOf(x).active} : x \in Warps(calls, p)})
    BY <1>3, <2>1, <2>2 DEF WeightIs
  <2>4. ASSUME NEW d \in DOMAIN stats[p].operands
        PROVE  LET values == Values(calls, p, d) IN
               /\ stats[p].operands[d].constantOnes = {b \in Bits : \A v \in values : b \in v}
               /\ stats[p].operands[d].constantZeros = {b \in Bits : \A v \in values : b \notin v}
               /\ (stats[p].operands[d].isScalar # {}) <=>
                    \A x \in Warps(calls, p) : \A k, l \in ItemOf(x).active :
                        ItemOf(x).dsts[d][k] = ItemOf(x).dsts[d][l]
    <3> DEFINE o == stats[p].operands[d]
               X == Warps(calls, p)
               values == Values(calls, p, d)
    <3>1. /\ o.constantOnes = OnesIn(app, X, d) /\ o.constantZeros = ZerosIn(app, X, d)
          /\ o.isScalar # {} <=> \A x \in X : Scalar(ItemIn(app, x), d)
      BY <1>3, <2>1 DEF OperandIs
    <3> HIDE DEF o, X
    <3>2. values = UNION {{ItemIn(app, x).dsts[d][l] : l \in ItemIn(app, x).active} : x \in X}
      BY <1>2 DEF Values, X
    <3> HIDE DEF values
    <3>3. OnesIn(app, X, d) = {b \in Bits : \A v \in values : b \in v}
      BY <3>2 DEF OnesIn
    <3>4. ZerosIn(app, X, d) = {b \in Bits : \A v \in values : b \notin v}
      BY <3>2 DEF ZerosIn
    <3>5. \A x : Scalar(ItemIn(app, x), d) <=> \A k, l \in ItemOf(x).active :
                        ItemOf(x).dsts[d][k] = ItemOf(x).dsts[d][l]
      BY <1>2 DEF Scalar
    <3>6. o.isScalar # {} <=> \A x \in X : \A k, l \in ItemOf(x).active :
                        ItemOf(x).dsts[d][k] = ItemOf(x).dsts[d][l]
      BY <3>1, <3>5
    <3>7. QED
      BY <3>1, <3>3, <3>4, <3>6 DEF o, X, values
  <2>5. QED
    BY <2>3, <2>4
<1>5. StatsOf(calls, stats)
  BY <1>4 DEF StatsOf
<1>6. QED
  BY <1>5 DEF calls

\* The file is as it was, or has a dump of the executions since the last init.
LEMMA HostFile ==
    ASSUME HostInv, HostStep
    PROVE  \A i \in DOMAIN file' :
              \/ i \in DOMAIN file /\ file'[i] = file[i]
              \/ phase # "kernel" /\ validData /\ file'[i] = [calls |-> since..(hpc - 1), data |-> Data]
<1> DEFINE dump == [calls |-> since..(hpc - 1), data |-> Data]
           old == IF Appends THEN file ELSE <<>>
<1>1. CASE file' = file
  BY <1>1
<1>2. CASE Finalize(Data) /\ phase = "host"
  <2>1. IsSequence(file) /\ IsSequence(<<>>) /\ DOMAIN <<>> = {}
    BY DEF HostInv, IsSequence
  <2>2. IsSequence(old) /\ \A i \in DOMAIN old : i \in DOMAIN file /\ old[i] = file[i]
    BY <2>1
  <2>3. file' = IF ~validData THEN file ELSE Append(old, dump)
    BY <1>2 DEF Finalize
  <2> HIDE DEF old, dump
  <2>4. CASE validData
    <3>1. \A i \in DOMAIN file' : (i \in DOMAIN old /\ file'[i] = old[i]) \/ file'[i] = dump
      BY <2>2, <2>3, <2>4, SequenceAppend
    <3>2. QED
      BY <1>2, <2>2, <2>4, <3>1 DEF dump
  <2>5. QED
    BY <2>3, <2>4
<1>3. QED
  BY <1>1, <1>2 DEF HostStep, Launch, Leave, Reset, Exit, NextCallIs

LEMMA HostStats ==
    ASSUME IInv, StatsInv, StatsAreOfTheValues, HostStep
    PROVE  StatsAreOfTheValues'
<1>1. HostTypeOK /\ HostInv /\ app' = app /\ lib' = lib /\ Busy = {}
  BY HostWeighed DEF IInv, TypeOK
<1>2. ASSUME lib = "valueprof", NEW i \in DOMAIN file'
      PROVE  StatsIn(app, file'[i].calls, file'[i].data)
  <2>1. CASE i \in DOMAIN file /\ file'[i] = file[i]
    BY <1>2, <2>1, FileStats
  <2>2. CASE phase # "kernel" /\ validData /\ file'[i] = [calls |-> since..(hpc - 1), data |-> Data]
    <3>1. Data = stats
      BY <1>2 DEF Data, IsCfg, WarpData
    <3>2. file'[i].calls = since..(hpc - 1) /\ file'[i].data = stats
      BY <2>2, <3>1
    <3>3. QED
      BY <1>1, <1>2, <2>2, <3>2, DumpOfStats, StatsOfIsIn
  <2>3. QED
    BY <1>1, <2>1, <2>2, HostFile
<1>3. (StatsAreOfTheValues <=>
        (lib = "valueprof" => \A i \in DOMAIN file : StatsIn(app, file[i].calls, file[i].data)))'
  BY FileStats, PTL
<1>4. QED
  BY <1>1, <1>2, <1>3

LEMMA ValueInit == Init => ValueInv
<1> SUFFICES ASSUME Init PROVE ValueInv
  OBVIOUS
<1>1. \A w \in Agents : todo[w] = <<>> /\ DOMAIN todo[w] = {}
  BY DEF Init, WarpInit
<1>2. ~validData /\ DOMAIN file = {}
  BY DEF Init, HostInit
<1>3. QED
  BY <1>1, <1>2 DEF ValueInv, TodoInv, StatsInv, StatsAreOfTheValues

\* Neither another library's steps nor a step that keeps the file disturb what was printed.
LEMMA StatsKept ==
    ASSUME StatsAreOfTheValues, UNCHANGED <<lib, app, file>>
    PROVE  StatsAreOfTheValues'
<1>1. (StatsAreOfTheValues <=>
        (lib = "valueprof" => \A i \in DOMAIN file : StatsIn(app, file[i].calls, file[i].data)))'
  BY FileStats, PTL
<1>2. QED
  BY <1>1, FileStats

LEMMA ValueStep ==
    IInv /\ ValueInv /\ [Next]_vars => ValueInv'
<1> SUFFICES ASSUME IInv, ValueInv, [Next]_vars PROVE ValueInv'
  OBVIOUS
<1> USE DEF ValueInv
<1>1. CASE HostStep
  BY <1>1, HostValue, HostStats
<1>2. CASE \E a \in Agents : DeviceStep(a)
  <2>1. PICK a \in Agents : DeviceStep(a)
    BY <1>2
  <2>2. UNCHANGED <<lib, app, hpc, phase, validData, since, file>>
    BY <2>1 DEF DeviceStep
  <2>3. StatsAreOfTheValues'
    BY <2>2, StatsKept
  <2>4. CASE IsCfg /\ UNCHANGED warpVars
    BY <2>2, <2>3, <2>4 DEF IsCfg, StatsInv, TodoInv, warpVars
  <2>5. CASE ~IsCfg /\ WarpStep(a)
    <3>1. WarpBefore(a)
      BY <2>2, <2>5 DEF IInv, TypeOK, WarpBefore
    <3>2. CASE Count(a)
      BY <2>2, <2>3, <3>2 DEF Count, StatsInv, TodoInv
    <3>3. CASE Find(a)
      BY <2>3, <3>1, <3>3, FindValue
    <3>4. CASE And(a) /\ lib = "valueprof"
      BY <2>3, <3>1, <3>4, AndValue
    <3>5. CASE And(a) /\ lib # "valueprof"
      <4>1. todo[a] \in Seq(Atomics) /\ todo[a] # <<>> /\ todo' = [todo EXCEPT ![a] = Tail(todo[a])]
        BY <3>1, <3>5 DEF And, WarpBefore, WarpTypeOK
      <4> DEFINE s == todo[a]
      <4>2. \A i \in DOMAIN Tail(s) : i \in Nat /\ Tail(s)[i] = s[i + 1] /\ i + 1 \in DOMAIN s
        BY <4>1
      <4>3. \A i, j \in DOMAIN s : s[i] = s[j] => i = j
        BY DEF TodoInv
      <4>4. todo'[a] = Tail(s) /\ \A u \in Agents \ {a} : todo'[u] = todo[u]
        BY <3>1, <4>1 DEF WarpBefore, WarpTypeOK
      <4> HIDE DEF s
      <4>5. \A i, j \in DOMAIN Tail(s) : Tail(s)[i] = Tail(s)[j] => i = j
        BY <4>2, <4>3
      <4>6. TodoInv'
        BY <4>4, <4>5 DEF TodoInv
      <4>7. QED
        BY <2>2, <2>3, <3>5, <4>6 DEF StatsInv
    <3>6. QED
      BY <2>5, <3>2, <3>3, <3>4, <3>5 DEF WarpStep
  <2>6. QED
    BY <2>1, <2>4, <2>5 DEF DeviceStep
<1>3. CASE UNCHANGED vars
  <2>1. UNCHANGED <<lib, app, hpc, phase, validData, since, pc, file>> /\ UNCHANGED <<stats, todo>>
    BY <1>3 DEF vars, hostVars, warpVars
  <2>2. StatsAreOfTheValues' /\ TodoInv'
    BY <2>1, StatsKept DEF TodoInv
  <2>3. /\ Done' = Done /\ Busy' = Busy
        /\ \A v : Now(v)' = Now(v) /\ \A what, d : Waits(v, what, d)' <=> Waits(v, what, d)
    BY <2>1 DEF Done, Executions, Calls, Busy, Now, Waits
  <2>4. Weighed' = Weighed /\ \A what, d : Seen(what, d)' = Seen(what, d)
    BY <2>3 DEF Weighed, Seen
  <2>5. StatsInv'
    BY <2>1, <2>4 DEF StatsInv
  <2>6. QED
    BY <2>2, <2>5
<1>4. QED
  BY <1>1, <1>2, <1>3 DEF Next, Terminated

\* What valueprof.cu prints of a destination register is true of all the values that
\* the threads had in it, and the weight of an instruction is the number of threads
\* that executed it, however the warps' atomics interleave.
THEOREM PrintedStatsAreTrue == Spec => []StatsAreOfTheValues
<1>1. Init => ValueInv
  BY ValueInit
<1>2. IInv /\ ValueInv /\ [Next]_vars => ValueInv'
  BY ValueStep
<1>3. ValueInv => StatsAreOfTheValues
  BY DEF ValueInv
<1>4. QED
  BY <1>1, <1>2, <1>3, HandlersInvariance, PTL DEF Spec

-----------------------------------------------------------------------------
(* memdiverge's loop.                                                      *)

LinesOf(line, lanes) == {line[l] : l \in lanes}

\* One round removes the lanes of one line.
LEMMA OneRound ==
    ASSUME NEW line, NEW S, IsFiniteSet(S), NEW m \in S
    PROVE  LET rest == {l \in S : line[l] # line[m]} IN
           /\ IsFiniteSet(rest) /\ Cardinality(rest) < Cardinality(S)
           /\ Cardinality(rest) \in Nat /\ Cardinality(S) \in Nat
           /\ Cardinality(LinesOf(line, S)) = 1 + Cardinality(LinesOf(line, rest))
<1> DEFINE rest == {l \in S : line[l] # line[m]}
           R == LinesOf(line, rest)
<1>1. rest \subseteq S \ {m}
  OBVIOUS
<1>2. IsFiniteSet(S \ {m}) /\ Cardinality(S \ {m}) = Cardinality(S) - 1
  BY FS_RemoveElement
<1>3. Cardinality(S) \in Nat /\ Cardinality(S \ {m}) \in Nat
  BY <1>2, FS_CardinalityType
<1>4. IsFiniteSet(rest) /\ Cardinality(rest) <= Cardinality(S \ {m})
  BY <1>1, <1>2, FS_Subset
<1>5. LinesOf(line, S) = R \cup {line[m]} /\ line[m] \notin R
  BY DEF LinesOf
<1> HIDE DEF rest
<1>6. IsFiniteSet(R)
  <2> DEFINE f == [l \in rest |-> line[l]]
  <2>1. f \in [rest -> R] /\ \A t \in R : \E l \in rest : f[l] = t
    BY DEF LinesOf
  <2> HIDE DEF f, R
  <2>2. f \in Surjection(rest, R)
    BY <2>1 DEF Surjection
  <2>3. QED
    BY <1>4, <2>2, FS_Surjection
<1> HIDE DEF R
<1>7. Cardinality(R \cup {line[m]}) = Cardinality(R) + 1 /\ Cardinality(R) \in Nat
  BY <1>5, <1>6, FS_AddElement, FS_CardinalityType
<1>8. Cardinality(rest) \in Nat
  BY <1>4, FS_CardinalityType
<1>9. Cardinality(rest) < Cardinality(S)
  BY <1>2, <1>3, <1>4, <1>8
<1>10. Cardinality(LinesOf(line, S)) = 1 + Cardinality(R)
  BY <1>5, <1>7
<1>11. QED
  BY <1>3, <1>4, <1>8, <1>9, <1>10 DEF rest, R

IsRounds(g, line, lanes) ==
    g = [workset \in SUBSET lanes |->
            IF workset = {} THEN 0
            ELSE LET leader == Min(workset) IN
                 1 + g[{l \in workset : line[l] # line[leader]}]]

LEMMA RoundsIs ==
    ASSUME NEW line, NEW lanes
    PROVE  Rounds(line, lanes) = (CHOOSE g : IsRounds(g, line, lanes))[lanes]
  BY Zenon DEF Rounds, IsRounds

\* memdiverge.cu counts an access by the rounds of its loop, in which a leader takes the
\* lanes of its cache line with it: they are as many as the lines of all the lanes.
THEOREM RoundsAreLines ==
    ASSUME NEW line, NEW lanes, IsFiniteSet(lanes), lanes \subseteq Nat
    PROVE  Rounds(line, lanes) = Cardinality(LinesOf(line, lanes))
<1> DEFINE Rest(S) == {l \in S : line[l] # line[Min(S)]}
           C(S) == Cardinality(LinesOf(line, S))
<1>1. ASSUME NEW S \in SUBSET lanes, S # {}
      PROVE  /\ Rest(S) \in SUBSET lanes /\ C(S) = 1 + C(Rest(S))
             /\ Cardinality(Rest(S)) < Cardinality(S)
  <2>1. IsFiniteSet(S) /\ Min(S) \in S
    BY <1>1, FS_Subset, MinIsIn
  <2>2. Rest(S) \in SUBSET lanes
    OBVIOUS
  <2>3. QED
    BY <2>1, <2>2, OneRound
<1>2. \A S \in SUBSET lanes : Cardinality(S) \in Nat
  BY FS_Subset, FS_CardinalityType
<1>3. C({}) = 0
  BY FS_EmptySet DEF LinesOf
<1> HIDE DEF C
<1>4. \E g : IsRounds(g, line, lanes)
  <2> DEFINE g == [S \in SUBSET lanes |-> C(S)]
  <2>1. \A S \in SUBSET lanes : C(S) = IF S = {} THEN 0 ELSE 1 + g[Rest(S)]
    BY <1>1, <1>3
  <2>2. g = [S \in SUBSET lanes |-> IF S = {} THEN 0 ELSE 1 + g[Rest(S)]]
    BY <2>1
  <2>3. IsRounds(g, line, lanes)
    BY <2>2 DEF IsRounds
  <2>4. QED
    BY <2>3
<1>5. ASSUME NEW g, IsRounds(g, line, lanes)
      PROVE  \A S \in SUBSET lanes : g[S] = C(S)
  <2>1. \A S \in SUBSET lanes : g[S] = IF S = {} THEN 0 ELSE 1 + g[Rest(S)]
    BY <1>5 DEF IsRounds
  <2> DEFINE Bad == {S \in SUBSET lanes : g[S] # C(S)}
             T == {Cardinality(S) : S \in Bad}
  <2>2. ASSUME Bad # {} PROVE FALSE
    <3>1. T \subseteq Nat /\ T # {}
      BY <1>2, <2>2
    <3>2. PICK m \in T : \A n \in T : m <= n
      BY <3>1, LeastNatural
    <3>3. PICK S \in Bad : m = Cardinality(S)
      OBVIOUS
    <3>4. S # {}
      BY <1>3, <2>1
    <3>5. Rest(S) \notin Bad
      <4>1. Cardinality(Rest(S)) < m /\ m \in Nat /\ Cardinality(Rest(S)) \in Nat
        BY <1>1, <1>2, <3>1, <3>3, <3>4
      <4>2. Rest(S) \in Bad => m <= Cardinality(Rest(S))
        BY <3>2
      <4> HIDE DEF Bad, Rest
      <4>3. QED
        BY <4>1, <4>2
    <3>6. g[S] = C(S)
      BY <1>1, <2>1, <3>4, <3>5
    <3>7. QED
      BY <3>3, <3>6
  <2>3. QED
    BY <2>2
<1>6. IsRounds(CHOOSE g : IsRounds(g, line, lanes), line, lanes)
  BY <1>4
<1>7. Rounds(line, lanes) = C(lanes)
  BY <1>5, <1>6, RoundsIs
<1>8. QED
  BY <1>7 DEF C

-----------------------------------------------------------------------------
(* What the handlers with one counter have counted.                        *)

\* What is counted under a key: by ophist the threads of the executions in X, by
\* opcode the executions, by memdiverge those that access lines.
Lines(it) == {it.line[l] : l \in Tracked(it)}
Marks(a, library, X, k) ==
    IF library = "ophist"
    THEN UNION {Tagged(x, ItemIn(a, x).runs) : x \in {y \in X : <<ItemIn(a, y).opcode>> = k}}
    ELSE IF library = "opcode"
    THEN {x \in X : <<ItemIn(a, x).pupc>> = k}
    ELSE {x \in X : /\ Tracked(ItemIn(a, x)) # {}
                    /\ <<Cardinality(Tracked(ItemIn(a, x))), Cardinality(Lines(ItemIn(a, x)))>> = k}

\* What is there to read under a key.
Got(f, k) == IF k \in DOMAIN f THEN f[k] ELSE 0

Counts == lib \in {"ophist", "opcode", "memdiverge"}

CountsInv ==
    /\ validData => IsFiniteSet(Done)
    /\ Counts /\ validData => \A k : /\ IsFiniteSet(Marks(app, lib, Done, k))
                                     /\ Got(counts, k) = Cardinality(Marks(app, lib, Done, k))

\* The launches of the run are in the dumps or since the last init.
LaunchesInv ==
    Appends => \A c \in Calls :
        app[c].op = "launch" /\ (c < hpc \/ (c = hpc /\ phase = "kernel")) =>
            \/ \E i \in DOMAIN file : c \in file[i].calls
            \/ validData /\ since <= c /\ phase # "exited"

LEMMA AddGot ==
    ASSUME NEW f, NEW k, NEW n
    PROVE  \A x : Got(Add(f, k, n), x) = IF x = k \/ x \in DOMAIN f
                                         THEN Got(f, x) + (IF x = k THEN n ELSE 0) ELSE 0
  BY DEF Got, Add

\* What the handler counts of an item, and how much.
CountedAs(library, it, key, n) ==
    /\ library = "ophist" => key = <<it.opcode>> /\ n = Cardinality(it.runs)
    /\ library = "opcode" => key = <<it.pupc>> /\ n = 1
    /\ library = "memdiverge" => /\ key = <<Cardinality(Tracked(it)), Cardinality(Lines(it))>>
                                 /\ n = IF Tracked(it) = {} THEN 0 ELSE 1

\* One more execution of one warp.
LEMMA MarksMore ==
    ASSUME NEW a, NEW library \in {"ophist", "opcode", "memdiverge"}, NEW X, NEW x, NEW k,
           x \notin X, IsFiniteSet(Marks(a, library, X, k)), IsFiniteSet(ItemIn(a, x).runs),
           NEW key, NEW n, CountedAs(library, ItemIn(a, x), key, n)
    PROVE  /\ IsFiniteSet(Marks(a, library, X \cup {x}, k))
           /\ Cardinality(Marks(a, library, X \cup {x}, k)) =
                 Cardinality(Marks(a, library, X, k)) + IF key = k THEN n ELSE 0
           /\ Cardinality(Marks(a, library, X, k)) \in Nat /\ n \in Nat
<1> DEFINE it == ItemIn(a, x)
           old == Marks(a, library, X, k)
           new == Marks(a, library, X \cup {x}, k)
<1>1. Cardinality(old) \in Nat /\ Cardinality(it.runs) \in Nat
  BY FS_CardinalityType
<1>2. CASE library = "ophist"
  <2>1. old = UNION {Tagged(y, ItemIn(a, y).runs) : y \in {z \in X : <<ItemIn(a, z).opcode>> = k}}
    BY <1>2 DEF Marks
  <2>2. new = UNION {Tagged(y, ItemIn(a, y).runs) : y \in {z \in X \cup {x} : <<ItemIn(a, z).opcode>> = k}}
    BY <1>2 DEF Marks
  <2>3. key = <<it.opcode>> /\ n = Cardinality(it.runs) /\ IsFiniteSet(it.runs) /\ IsFiniteSet(old)
    BY <1>2 DEF CountedAs
  <2>4. CASE key = k
    <3> DEFINE B == {z \in X : <<ItemIn(a, z).opcode>> = k}
    <3>1. {z \in X \cup {x} : <<ItemIn(a, z).opcode>> = k} = B \cup {x}
      BY <2>3, <2>4
    <3>2. old = UNION {Tagged(y, ItemIn(a, y).runs) : y \in B} /\ x \notin B
      BY <2>1
    <3>3. new = UNION {Tagged(y, ItemIn(a, y).runs) : y \in B \cup {x}}
      BY <2>2, <3>1
    <3> HIDE DEF B, old, new
    <3>4. new = old \cup Tagged(x, it.runs)
      BY <3>2, <3>3
    <3>5. old \cap Tagged(x, it.runs) = {}
      BY <3>2 DEF Tagged
    <3>6. Cardinality(old \cap Tagged(x, it.runs)) = 0
      BY <3>5, FS_EmptySet
    <3> HIDE DEF it
    <3>7. /\ IsFiniteSet(old \cup Tagged(x, it.runs))
          /\ Cardinality(old \cup Tagged(x, it.runs)) = Cardinality(old) + Cardinality(it.runs)
      BY <2>3, <3>6, MoreLanes
    <3>8. QED
      BY <1>1, <2>3, <2>4, <3>4, <3>7 DEF old, new
  <2>5. CASE key # k
    <3>1. {z \in X \cup {x} : <<ItemIn(a, z).opcode>> = k} = {z \in X : <<ItemIn(a, z).opcode>> = k}
      BY <2>3, <2>5
    <3>2. new = old
      BY <2>1, <2>2, <3>1
    <3> HIDE DEF old, new
    <3>3. QED
      BY <1>1, <2>3, <2>5, <3>2 DEF old, new
  <2>6. QED
    BY <2>4, <2>5
<1>3. ASSUME library # "ophist", n \in {0, 1},
             new = IF key = k /\ n = 1 THEN old \cup {x} ELSE old
      PROVE  /\ IsFiniteSet(new) /\ Cardinality(new) = Cardinality(old) + IF key = k THEN n ELSE 0
  <2>1. old \subseteq X
    BY <1>3 DEF Marks
  <2>2. x \notin old /\ IsFiniteSet(old)
    BY <2>1
  <2> HIDE DEF old, new
  <2>3. IsFiniteSet(old \cup {x}) /\ Cardinality(old \cup {x}) = Cardinality(old) + 1
    BY <2>2, FS_AddElement
  <2>4. QED
    BY <1>1, <1>3, <2>2, <2>3
<1>4. CASE library = "opcode"
  <2>1. old = {y \in X : <<ItemIn(a, y).pupc>> = k} /\ new = {y \in X \cup {x} : <<ItemIn(a, y).pupc>> = k}
    BY <1>4 DEF Marks
  <2>2. key = <<it.pupc>> /\ n = 1
    BY <1>4 DEF CountedAs
  <2>3. new = IF key = k /\ n = 1 THEN old \cup {x} ELSE old
    BY <2>1, <2>2
  <2>4. IsFiniteSet(new) /\ Cardinality(new) = Cardinality(old) + IF key = k THEN n ELSE 0
    BY <1>3, <1>4, <2>2, <2>3
  <2> HIDE DEF old, new
  <2>5. QED
    BY <1>1, <2>2, <2>4 DEF old, new
<1>5. CASE library = "memdiverge"
  <2> DEFINE K(y) == <<Cardinality(Tracked(ItemIn(a, y))), Cardinality(Lines(ItemIn(a, y)))>>
  <2>1. /\ old = {y \in X : Tracked(ItemIn(a, y)) # {} /\ K(y) = k}
        /\ new = {y \in X \cup {x} : Tracked(ItemIn(a, y)) # {} /\ K(y) = k}
    BY <1>5 DEF Marks
  <2>2. key = K(x) /\ n = IF Tracked(it) = {} THEN 0 ELSE 1
    BY <1>5 DEF CountedAs
  <2> HIDE DEF K
  <2>3. new = IF key = k /\ n = 1 THEN old \cup {x} ELSE old
    <3> DEFINE G(y) == Tracked(ItemIn(a, y)) # {}
    <3>1. old = {y \in X : G(y) /\ K(y) = k} /\ new = {y \in X \cup {x} : G(y) /\ K(y) = k}
      BY <2>1
    <3>2. key = K(x) /\ n = IF G(x) THEN 1 ELSE 0
      BY <2>2
    <3> HIDE DEF G, old, new
    <3>3. CASE G(x) /\ K(x) = k
      BY <3>1, <3>2, <3>3
    <3>4. CASE ~(G(x) /\ K(x) = k)
      BY <3>1, <3>2, <3>4
    <3>5. QED
      BY <3>3, <3>4
  <2>4. IsFiniteSet(new) /\ Cardinality(new) = Cardinality(old) + IF key = k THEN n ELSE 0
    BY <1>3, <1>5, <2>2, <2>3
  <2>5. n \in Nat
    BY <2>2
  <2> HIDE DEF old, new
  <2>6. QED
    BY <1>1, <2>4, <2>5 DEF old, new
<1>6. QED
  BY <1>2, <1>4, <1>5

LEMMA CountCounts ==
    ASSUME NEW w \in Agents, WarpBefore(w), CountsInv, Count(w)
    PROVE  CountsInv'
<1> USE DEF WarpBefore
<1> DEFINE it == Item(w)
           x == Now(w)
           key == CountedKey(it)
           n == CASE lib = "ophist" -> Cardinality(it.runs)
                  [] lib = "opcode" -> 1
                  [] lib = "memdiverge" -> IF Tracked(it) = {} THEN 0 ELSE 1
<1>1. /\ lib # "valueprof" /\ More(w) /\ Advance(w)
      /\ counts' = IF n = 0 THEN counts ELSE Add(counts, key, n)
  BY DEF Count, Begins
<1>2. lib \in {"ophist", "opcode", "memdiverge"}
  BY <1>1, AppsAssumption DEF HostTypeOK, IsCfg
<1>3. ItemIn(app, x) = it /\ x \notin Done
  BY <1>1, NowIs DEF ItemIn, ItemOf
<1>4. IsFiniteSet(it.runs) /\ it.active \subseteq Nat /\ it.runs \subseteq it.active
  BY <1>1, WarpItemFacts, ItemFacts DEF IsWarpItem
<1>5. validData /\ validData'
  BY <1>1 DEF HostInv, More
<1>6. Done' = Done \cup {x}
  BY <1>1, DoneAdvances
<1>7. IsFiniteSet(Done')
  <2>1. IsFiniteSet(Done)
    BY <1>5 DEF CountsInv
  <2> HIDE DEF x
  <2>2. QED
    BY <1>6, <2>1, FS_AddElement
<1>8. Rounds(it.line, Tracked(it)) = Cardinality(Lines(it))
  <2>1. Tracked(it) \subseteq it.runs
    BY DEF Tracked
  <2>2. IsFiniteSet(Tracked(it)) /\ Tracked(it) \subseteq Nat
    BY <1>4, <2>1, FS_Subset
  <2>3. Lines(it) = LinesOf(it.line, Tracked(it))
    BY DEF Lines, LinesOf
  <2>4. QED
    BY <2>2, <2>3, RoundsAreLines
<1>9. /\ lib = "ophist" => key = <<it.opcode>> /\ n = Cardinality(it.runs)
      /\ lib = "opcode" => key = <<it.pupc>> /\ n = 1
      /\ lib = "memdiverge" => /\ key = <<Cardinality(Tracked(it)), Rounds(it.line, Tracked(it))>>
                               /\ n = IF Tracked(it) = {} THEN 0 ELSE 1
  <2> HIDE DEF it
  <2>1. "ophist" # "opcode" /\ "ophist" # "memdiverge" /\ "opcode" # "memdiverge"
    OBVIOUS
  <2>2. QED
    BY <2>1, Zenon DEF CountedKey
<1> HIDE DEF it, x, key, n
<1>10. ASSUME NEW k
       PROVE  /\ IsFiniteSet(Marks(app, lib, Done', k))
              /\ Got(counts', k) = Cardinality(Marks(app, lib, Done', k))
  <2>1. /\ IsFiniteSet(Marks(app, lib, Done, k))
        /\ Got(counts, k) = Cardinality(Marks(app, lib, Done, k))
    BY <1>2, <1>5 DEF CountsInv, Counts
  <2>2. /\ IsFiniteSet(Marks(app, lib, Done \cup {x}, k))
        /\ Cardinality(Marks(app, lib, Done \cup {x}, k)) =
              Cardinality(Marks(app, lib, Done, k)) + IF key = k THEN n ELSE 0
        /\ Cardinality(Marks(app, lib, Done, k)) \in Nat /\ n \in Nat
    <3>1. x \notin Done /\ IsFiniteSet(ItemIn(app, x).runs)
      BY <1>3, <1>4
    <3>2. CountedAs(lib, ItemIn(app, x), key, n)
      BY <1>3, <1>8, <1>9 DEF CountedAs
    <3>3. QED
      BY <1>2, <2>1, <3>1, <3>2, MarksMore
  <2>3. Got(counts', k) = Got(counts, k) + IF key = k THEN n ELSE 0
    <3>1. CASE n = 0
      BY <1>1, <2>1, <2>2, <3>1
    <3>2. CASE n # 0
      <4>1. Got(counts', k) = IF k = key \/ k \in DOMAIN counts
                              THEN Got(counts, k) + (IF k = key THEN n ELSE 0) ELSE 0
        BY <1>1, <3>2, AddGot
      <4>2. k \notin DOMAIN counts => Got(counts, k) = 0
        BY DEF Got
      <4>3. QED
        BY <2>1, <2>2, <4>1, <4>2
    <3>3. QED
      BY <3>1, <3>2
  <2>4. QED
    BY <1>6, <2>1, <2>2, <2>3
<1>11. QED
  BY <1>7, <1>10 DEF CountsInv, Counts

\* The other steps of agents: they end an item or do not.
LEMMA StepDone ==
    ASSUME HostTypeOK, HostInv, NEW w \in Agents, pc' = pc \/ (More(w) /\ Advance(w)),
           UNCHANGED <<lib, app, hpc, phase, validData, since, file>>,
           validData => IsFiniteSet(Done)
    PROVE  validData' => IsFiniteSet(Done')
<1>1. CASE pc' = pc
  <2>1. Done' = Done
    BY <1>1 DEF Done, Executions, Calls
  <2>2. QED
    BY <2>1
<1>2. CASE More(w) /\ Advance(w)
  <2>1. Done' = Done \cup {Now(w)}
    BY <1>2, DoneAdvances
  <2> DEFINE x == Now(w)
  <2> HIDE DEF x
  <2>2. Done' = Done \cup {x}
    BY <2>1 DEF x
  <2>3. QED
    BY <2>2, FS_AddElement
<1>3. QED
  BY <1>1, <1>2

LEMMA HostCounts ==
    ASSUME IInv, CountsInv, HostStep
    PROVE  CountsInv'
<1>1. /\ app' = app /\ lib' = lib
      /\ validData' => Done' = IF InitDue THEN {} ELSE Done
      /\ validData' => counts' = IF InitDue /\ ~IsCfg THEN Nothing ELSE counts
  BY HostWeighed
<1>2. ASSUME validData', InitDue
      PROVE  /\ IsFiniteSet(Done')
             /\ Counts => \A k : /\ IsFiniteSet(Marks(app, lib, Done', k))
                                 /\ Got(counts', k) = Cardinality(Marks(app, lib, Done', k))
  <2>1. Done' = {}
    BY <1>1, <1>2
  <2>2. IsFiniteSet({}) /\ Cardinality({}) = 0
    BY FS_EmptySet
  <2>3. ASSUME Counts, NEW k PROVE Marks(app, lib, {}, k) = {} /\ Got(counts', k) = 0
    <3>1. counts' = Nothing
      BY <1>1, <1>2, <2>3 DEF Counts, IsCfg
    <3>2. Got(counts', k) = 0
      BY <3>1 DEF Got, Nothing
    <3>3. Marks(app, lib, {}, k) = {}
      BY DEF Marks
    <3>4. QED
      BY <3>2, <3>3
  <2>4. QED
    BY <2>1, <2>2, <2>3
<1>3. ASSUME validData', ~InitDue
      PROVE  /\ IsFiniteSet(Done')
             /\ Counts => \A k : /\ IsFiniteSet(Marks(app, lib, Done', k))
                                 /\ Got(counts', k) = Cardinality(Marks(app, lib, Done', k))
  <2>1. Done' = Done /\ counts' = counts /\ validData
    BY <1>1, <1>3 DEF InitDue
  <2>2. QED
    BY <2>1 DEF CountsInv
<1>4. QED
  BY <1>1, <1>2, <1>3 DEF CountsInv, Counts

LEMMA HostLaunches ==
    ASSUME HostTypeOK, HostInv, LaunchesInv, HostStep
    PROVE  LaunchesInv'
<1>0. /\ Len(app) \in Nat /\ Calls = 1..Len(app) /\ hpc \in Nat /\ since \in Nat
      /\ IsSequence(file)
  BY AppFacts DEF HostTypeOK, HostInv, IsSequence
<1> SUFFICES ASSUME Appends', NEW c \in Calls', app'[c].op = "launch",
                    c < hpc' \/ (c = hpc' /\ phase' = "kernel")
             PROVE  \/ \E i \in DOMAIN file' : c \in file'[i].calls
                    \/ validData' /\ since' <= c /\ phase' # "exited"
  BY DEF LaunchesInv
<1>1. app' = app /\ lib' = lib
  BY DEF HostStep, Launch, Leave, Reset, Exit
<1>2. Appends /\ c \in Calls /\ c \in Nat /\ app[c].op = "launch"
  BY <1>0, <1>1 DEF Appends, Calls
<1>3. c < hpc \/ (c = hpc /\ phase = "kernel") =>
            \/ \E i \in DOMAIN file : c \in file[i].calls
            \/ validData /\ since <= c /\ phase # "exited"
  BY <1>2 DEF LaunchesInv
<1>4. CASE Launch
  <2>1. /\ phase' = "kernel" /\ hpc' = hpc /\ validData' = TRUE /\ file' = file
        /\ since' = IF ~validData THEN hpc ELSE since
    BY <1>4 DEF Launch, InitDue
  <2>2. validData => since <= hpc
    BY DEF HostInv
  <2>3. CASE c < hpc
    BY <1>0, <1>2, <1>3, <2>1, <2>3
  <2>4. CASE c = hpc
    BY <1>0, <2>1, <2>2, <2>4
  <2>5. QED
    BY <2>1, <2>3, <2>4
<1>5. CASE Leave
  BY <1>0, <1>2, <1>3, <1>5 DEF Leave
<1>6. ASSUME Finalize(Data), c < hpc
      PROVE  \E i \in DOMAIN file' : c \in file'[i].calls
  <2> DEFINE dump == [calls |-> since..(hpc - 1), data |-> Data]
  <2>1. file' = IF ~validData THEN file ELSE Append(file, dump)
    BY <1>2, <1>6 DEF Finalize
  <2>2. since <= c => c \in dump.calls
    BY <1>0, <1>2, <1>6
  <2> HIDE DEF dump
  <2>3. /\ DOMAIN Append(file, dump) = 1..(Len(file) + 1) /\ Append(file, dump)[Len(file) + 1] = dump
        /\ \A i \in DOMAIN file : i \in DOMAIN Append(file, dump) /\ Append(file, dump)[i] = file[i]
        /\ Len(file) \in Nat
    <3>1. file \in Seq(ToSet(file) \cup {dump})
      BY <1>0, SeqSubset DEF IsSequence
    <3>2. QED
      BY <3>1
  <2>4. CASE \E i \in DOMAIN file : c \in file[i].calls
    BY <2>1, <2>3, <2>4
  <2>5. CASE validData /\ since <= c
    <3>1. file' = Append(file, dump) /\ Len(file) + 1 \in DOMAIN Append(file, dump)
      BY <2>1, <2>3, <2>5
    <3>2. QED
      BY <2>2, <2>3, <2>5, <3>1
  <2>6. QED
    BY <1>3, <1>6, <2>4, <2>5
<1>7. CASE Reset(Data)
  <2>1. phase' = "host" /\ hpc' = hpc + 1 /\ app[hpc].op = "reset" /\ Finalize(Data)
    BY <1>7 DEF Reset, NextCallIs
  <2>2. c < hpc
    BY <1>0, <1>2, <2>1
  <2>3. QED
    BY <1>6, <2>1, <2>2
<1>8. CASE Exit(Data)
  <2>1. phase' = "exited" /\ hpc' = hpc /\ Finalize(Data)
    BY <1>8 DEF Exit
  <2>2. c < hpc
    BY <1>0, <1>2, <2>1
  <2>3. QED
    BY <1>6, <2>1, <2>2
<1>9. QED
  BY <1>4, <1>5, <1>7, <1>8 DEF HostStep

\* What a dump of an application a has.
CountsIn(a, library, calls, data) ==
    LET E == ExecutionsIn(a, calls) IN
    /\ library = "ophist" => \A x \in E :
         Got(data, <<ItemIn(a, x).opcode>>) =
             Cardinality(UNION {{<<y, l>> : l \in ItemIn(a, y).runs} :
                                   y \in {z \in E : ItemIn(a, z).opcode = ItemIn(a, x).opcode}})
    /\ library = "opcode" => \A x \in E :
         Got(data, <<ItemIn(a, x).pupc>>) = Cardinality({y \in E : ItemIn(a, y).pupc = ItemIn(a, x).pupc})
    /\ library = "memdiverge" => \A n \in 1..Cardinality(UNION {ItemIn(a, x).active : x \in E}) :
         \A u \in 1..n : Got(data, <<n, u>>) =
             Cardinality({x \in E : LET it == ItemIn(a, x) IN
                 Cardinality(Tracked(it)) = n /\ Cardinality({it.line[l] : l \in Tracked(it)}) = u})

AllLaunches ==
    Appends /\ phase = "exited" =>
        \A c \in Calls : app[c].op = "launch" => \E i \in DOMAIN file : c \in file[i].calls

LEMMA FileCounts ==
    CountsAreOfTheRun <=>
        (\A i \in DOMAIN file : CountsIn(app, lib, file[i].calls, file[i].data)) /\ AllLaunches
<1>1. ASSUME NEW i \in DOMAIN file
      PROVE  LET calls == file[i].calls IN
             (/\ lib = "ophist" => \A x \in Executions(calls) :
                   Counter(file[i], <<ItemOf(x).opcode>>) = Cardinality(Lanes(calls, ItemOf(x).opcode))
              /\ lib = "opcode" => \A x \in Executions(calls) :
                   Counter(file[i], <<ItemOf(x).pupc>>) = Cardinality(Warps(calls, ItemOf(x).pupc))
              /\ lib = "memdiverge" => \A n \in 1..Cardinality(UNION {ItemOf(x).active : x \in Executions(calls)}) :
                   \A u \in 1..n : Counter(file[i], <<n, u>>) = Cardinality(Accesses(calls, n, u)))
             <=> CountsIn(app, lib, calls, file[i].data)
  BY DEF CountsIn, Counter, Got, Lanes, Warps, Accesses, Executions, ExecutionsIn, ItemOf, ItemIn
<1>2. QED
  BY <1>1 DEF CountsAreOfTheRun, AllLaunches

\* The lanes of finitely many executions are finitely many.
LEMMA FiniteLanes ==
    ASSUME NEW a, NEW X, IsFiniteSet(X), \A x \in X : IsFiniteSet(ItemIn(a, x).active)
    PROVE  IsFiniteSet(UNION {ItemIn(a, x).active : x \in X})
<1> DEFINE S == {ItemIn(a, x).active : x \in X}
           f == [x \in X |-> ItemIn(a, x).active]
<1>1. f \in Surjection(X, S)
  <2>1. f \in [X -> S] /\ \A t \in S : \E x \in X : f[x] = t
    OBVIOUS
  <2> HIDE DEF f, S
  <2>2. QED
    BY <2>1 DEF Surjection
<1>2. \A t \in S : IsFiniteSet(t)
  OBVIOUS
<1> HIDE DEF f, S
<1>3. IsFiniteSet(S)
  BY <1>1, FS_Surjection
<1>4. IsFiniteSet(UNION S)
  BY <1>2, <1>3, FS_UNION
<1>5. QED
  BY <1>4 DEF S

LEMMA DoneItems ==
    ASSUME HostTypeOK, HostInv, ~IsCfg
    PROVE  \A x \in Done : ItemIn(app, x) \in AppItems(app) /\ IsWarpItem(ItemIn(app, x))
<1>1. \A x \in Done : IsExecution(x)
  BY DoneIs
<1>2. \A x \in Done : ItemIn(app, x) \in AppItems(app)
  BY <1>1, AppFacts DEF IsExecution, ItemIn
<1>3. lib \in Libs /\ app \in AppsOf[lib] /\ lib # "cfg"
  BY DEF HostTypeOK, IsCfg
<1>4. \A it \in AppItems(app) : IsWarpItem(it)
  BY <1>3, AppsAssumption
<1>5. QED
  BY <1>2, <1>4

LEMMA DumpOfCounts ==
    ASSUME HostTypeOK, HostInv, CountsInv, phase # "kernel", validData, Counts
    PROVE  CountsIn(app, lib, since..(hpc - 1), counts)
<1> DEFINE calls == since..(hpc - 1)
           E == ExecutionsIn(app, calls)
<1>1. Done = E
  BY DoneIsOfCalls DEF Executions, ExecutionsIn
<1>2. IsFiniteSet(E) /\ \A k : Got(counts, k) = Cardinality(Marks(app, lib, E, k))
  BY <1>1 DEF CountsInv
<1>3. \A x \in E : IsFiniteSet(ItemIn(app, x).active)
  <2>1. ~IsCfg
    BY DEF Counts, IsCfg
  <2>2. QED
    BY <1>1, <2>1, DoneItems DEF IsWarpItem
<1> HIDE DEF calls, E
<1>4. ASSUME lib = "ophist", NEW x \in E
      PROVE  Got(counts, <<ItemIn(app, x).opcode>>) =
             Cardinality(UNION {{<<y, l>> : l \in ItemIn(app, y).runs} :
                                   y \in {z \in E : ItemIn(app, z).opcode = ItemIn(app, x).opcode}})
  <2> DEFINE B == {z \in E : ItemIn(app, z).opcode = ItemIn(app, x).opcode}
             C == {z \in E : <<ItemIn(app, z).opcode>> = <<ItemIn(app, x).opcode>>}
  <2>1. B = C
    OBVIOUS
  <2>2. Marks(app, lib, E, <<ItemIn(app, x).opcode>>) = UNION {Tagged(y, ItemIn(app, y).runs) : y \in C}
    BY <1>4 DEF Marks
  <2> HIDE DEF B, C
  <2>3. UNION {Tagged(y, ItemIn(app, y).runs) : y \in B} = UNION {{<<y, l>> : l \in ItemIn(app, y).runs} : y \in B}
    BY DEF Tagged
  <2>4. Got(counts, <<ItemIn(app, x).opcode>>) = Cardinality(UNION {{<<y, l>> : l \in ItemIn(app, y).runs} : y \in B})
    BY <1>2, <2>1, <2>2, <2>3
  <2>5. QED
    BY <2>4 DEF B
<1>5. ASSUME lib = "opcode", NEW x \in E
      PROVE  Got(counts, <<ItemIn(app, x).pupc>>) = Cardinality({y \in E : ItemIn(app, y).pupc = ItemIn(app, x).pupc})
  <2>1. Marks(app, lib, E, <<ItemIn(app, x).pupc>>) = {y \in E : <<ItemIn(app, y).pupc>> = <<ItemIn(app, x).pupc>>}
    BY <1>5 DEF Marks
  <2>2. {y \in E : <<ItemIn(app, y).pupc>> = <<ItemIn(app, x).pupc>>} = {y \in E : ItemIn(app, y).pupc = ItemIn(app, x).pupc}
    OBVIOUS
  <2>3. QED
    BY <1>2, <2>1, <2>2
<1>6. ASSUME lib = "memdiverge", NEW n \in 1..Cardinality(UNION {ItemIn(app, x).active : x \in E}), NEW u \in 1..n
      PROVE  Got(counts, <<n, u>>) =
             Cardinality({x \in E : LET it == ItemIn(app, x) IN
                 Cardinality(Tracked(it)) = n /\ Cardinality({it.line[l] : l \in Tracked(it)}) = u})
  <2> DEFINE A == UNION {ItemIn(app, x).active : x \in E}
  <2>1. Cardinality(A) \in Nat
    <3>1. IsFiniteSet(A)
      BY <1>2, <1>3, FiniteLanes
    <3> HIDE DEF A
    <3>2. QED
      BY <3>1, FS_CardinalityType
  <2>2. n \in Nat \ {0}
    <3> HIDE DEF A
    <3>1. n \in 1..Cardinality(A)
      BY <1>6 DEF A
    <3>2. QED
      BY <2>1, <3>1
  <2> HIDE DEF A
  <2>3. \A x : Cardinality(Tracked(ItemIn(app, x))) = n => Tracked(ItemIn(app, x)) # {}
    BY <2>2, FS_EmptySet
  <2>4. Marks(app, lib, E, <<n, u>>) =
            {x \in E : /\ Tracked(ItemIn(app, x)) # {}
                       /\ <<Cardinality(Tracked(ItemIn(app, x))), Cardinality(Lines(ItemIn(app, x)))>> = <<n, u>>}
    BY <1>6 DEF Marks
  <2>5. Marks(app, lib, E, <<n, u>>) =
            {x \in E : Cardinality(Tracked(ItemIn(app, x))) = n /\ Cardinality(Lines(ItemIn(app, x))) = u}
    BY <2>3, <2>4
  <2>6. QED
    BY <1>2, <2>5 DEF Lines
<1>7. CountsIn(app, lib, calls, counts)
  BY <1>4, <1>5, <1>6 DEF CountsIn, E
<1>8. QED
  BY <1>7 DEF calls

CountingInv ==
    /\ CountsInv /\ LaunchesInv
    /\ \A i \in DOMAIN file : CountsIn(app, lib, file[i].calls, file[i].data)
    /\ Counts => Busy = {}
    /\ phase = "exited" => hpc = Len(app) + 1

LEMMA HostDumps ==
    ASSUME IInv, CountsInv, HostStep, \A i \in DOMAIN file : CountsIn(app, lib, file[i].calls, file[i].data)
    PROVE  \A i \in DOMAIN file' : CountsIn(app', lib', file'[i].calls, file'[i].data)
<1>1. HostTypeOK /\ HostInv /\ app' = app /\ lib' = lib
  BY HostWeighed DEF IInv, TypeOK
<1>2. ASSUME NEW i \in DOMAIN file'
      PROVE  CountsIn(app, lib, file'[i].calls, file'[i].data)
  <2>1. CASE i \in DOMAIN file /\ file'[i] = file[i]
    BY <2>1
  <2>2. CASE phase # "kernel" /\ validData /\ file'[i] = [calls |-> since..(hpc - 1), data |-> Data]
    <3>1. CASE Counts
      <4>1. Data = counts
        BY <3>1 DEF Counts, Data, IsCfg, WarpData
      <4>2. file'[i].calls = since..(hpc - 1) /\ file'[i].data = counts
        BY <2>2, <4>1
      <4>3. QED
        BY <1>1, <2>2, <3>1, <4>2, DumpOfCounts
    <3>2. CASE ~Counts
      BY <3>2 DEF CountsIn, Counts
    <3>3. QED
      BY <3>1, <3>2
  <2>3. QED
    BY <1>1, <2>1, <2>2, HostFile
<1>3. QED
  BY <1>1, <1>2

LEMMA CountingInit == Init => CountingInv
<1> SUFFICES ASSUME Init PROVE CountingInv
  OBVIOUS
<1>1. ~validData /\ DOMAIN file = {} /\ hpc = 1 /\ phase = "host"
  BY DEF Init, HostInit
<1>4. Busy = {}
  BY DEF Init, WarpInit, Busy
<1>2. IsSequence(app)
  BY AppsAssumption DEF Init, HostInit
<1>3. \A c \in Calls : c \in Nat /\ c >= 1
  BY <1>2, SequenceFacts DEF Calls
<1>5. QED
  BY <1>1, <1>3, <1>4 DEF CountingInv, CountsInv, LaunchesInv

LEMMA CountingStep ==
    IInv /\ CountingInv /\ [Next]_vars => CountingInv'
<1> SUFFICES ASSUME IInv, CountingInv, [Next]_vars PROVE CountingInv'
  OBVIOUS
<1> USE DEF CountingInv
<1>0. HostTypeOK /\ HostInv
  BY DEF IInv, TypeOK
<1>1. CASE HostStep
  <2>1. app' = app /\ Busy' = {}
    BY <1>1, HostWeighed
  <2>2. phase' = "exited" => hpc' = Len(app') + 1
    BY <1>1, <2>1 DEF HostStep, Launch, Leave, Reset, Exit, NextCallIs
  <2>3. QED
    BY <1>0, <1>1, <2>1, <2>2, HostCounts, HostLaunches, HostDumps
<1>2. CASE \E a \in Agents : DeviceStep(a)
  <2>1. PICK a \in Agents : DeviceStep(a)
    BY <1>2
  <2>2. UNCHANGED <<lib, app, hpc, phase, validData, since, file>>
    BY <2>1 DEF DeviceStep
  <2>3. /\ LaunchesInv' /\ \A i \in DOMAIN file' : CountsIn(app', lib', file'[i].calls, file'[i].data)
        /\ phase' = "exited" => hpc' = Len(app') + 1
        /\ (Counts' <=> Counts) /\ (Counts /\ todo' = todo => Busy' = {})
    BY <2>2 DEF LaunchesInv, Appends, Calls, Counts, Busy
  <2>4. CASE ~IsCfg /\ Count(a)
    <3>1. WarpBefore(a)
      BY <2>2, <2>4 DEF IInv, TypeOK, WarpBefore
    <3>2. QED
      BY <2>3, <2>4, <3>1, CountCounts DEF Count
  <2>5. ASSUME pc' = pc \/ (More(a) /\ Advance(a)), ~Counts PROVE CountsInv'
    <3>1. validData' => IsFiniteSet(Done')
      BY <1>0, <2>2, <2>5, StepDone DEF CountsInv
    <3>2. QED
      BY <2>2, <2>5, <3>1 DEF CountsInv, Counts
  <2>6. CASE IsCfg /\ CfgStep(a)
    <3>1. pc' = pc \/ (More(a) /\ Advance(a))
      <4>1. at[a] # "idle" => More(a)
        BY DEF IInv, ThreadInv, ThreadOK
      <4>2. QED
        BY <2>6, <4>1 DEF CfgStep, FindFunction, AllocateRecord, AllocateBlocks, FindBlock, FillBlock,
                          EndFunctionEntry, BlockEntry, CfgAt, Runs
    <3>2. ~Counts
      BY <2>6 DEF IsCfg, Counts
    <3>3. QED
      BY <2>3, <2>5, <3>1, <3>2
  <2>7. CASE ~IsCfg /\ (Find(a) \/ And(a))
    <3>1. pc' = pc \/ (More(a) /\ Advance(a))
      BY <2>7 DEF Find, And, IInv, WarpInv
    <3>2. CASE Find(a)
      <4>1. ~Counts
        BY <3>2 DEF Find, Counts
      <4>2. QED
        BY <2>3, <2>5, <3>1, <4>1
    <3>3. CASE And(a)
      <4>1. ~Counts
        BY <3>3 DEF And, Busy
      <4>2. QED
        BY <2>3, <2>5, <3>1, <4>1
    <3>4. QED
      BY <2>7, <3>2, <3>3
  <2>8. QED
    BY <2>1, <2>4, <2>6, <2>7 DEF DeviceStep, WarpStep
<1>3. CASE UNCHANGED vars
  <2>1. UNCHANGED <<lib, app, hpc, phase, validData, since, pc, file>> /\ UNCHANGED <<counts, todo>>
    BY <1>3 DEF vars, hostVars, warpVars
  <2>2. Done' = Done
    BY <2>1 DEF Done, Executions, Calls
  <2>3. QED
    BY <2>1, <2>2 DEF CountsInv, LaunchesInv, Appends, Calls, Counts, Busy
<1>4. QED
  BY <1>1, <1>2, <1>3 DEF Next, Terminated

\* What a dump of ophist.cu, opcode.cu or memdiverge.cu counts is the executions since
\* the last init, however the warps interleave; and the dumps that opcode.cu and
\* memdiverge.cu append have every launch of a run.
THEOREM DumpsCountTheRun == Spec => []CountsAreOfTheRun
<1>1. Init => CountingInv
  BY CountingInit
<1>2. IInv /\ CountingInv /\ [Next]_vars => CountingInv'
  BY CountingStep
<1>3. IInv /\ CountingInv => CountsAreOfTheRun
  <2> SUFFICES ASSUME IInv, CountingInv PROVE CountsAreOfTheRun
    OBVIOUS
  <2>1. AllLaunches
    <3> SUFFICES ASSUME Appends, phase = "exited", NEW c \in Calls, app[c].op = "launch"
                 PROVE  \E i \in DOMAIN file : c \in file[i].calls
      BY DEF AllLaunches
    <3>1. c < hpc
      <4>1. Calls = 1..Len(app) /\ Len(app) \in Nat
        BY AppFacts DEF IInv, TypeOK
      <4>2. QED
        BY <4>1 DEF CountingInv
    <3>2. QED
      BY <3>1 DEF CountingInv, LaunchesInv
  <2>2. QED
    BY <2>1, FileCounts DEF CountingInv
<1>4. QED
  BY <1>1, <1>2, <1>3, HandlersInvariance, PTL DEF Spec

-----------------------------------------------------------------------------
(* What cfg has counted.                                                   *)

EnteredIn(a, X) == {ItemIn(a, x).of : x \in {y \in X : ItemIn(a, y).what = "function"}}
EntriesIn(a, X, b) == {x \in X : ItemIn(a, x).what = "block" /\ ItemIn(a, x).of = b}

\* Where the counter of a block is, if its function is copied.
Place(b) == sassi_cfg[b[1]].blocks + sizeofBLOCK * (b[2] - 1)

Copying(t) == at[t] \in {"record", "blocks"}
Entering(t) == at[t] \in {"register", "fill"}
BlockIn(b) == sassi_cfg_blocks[b].state = "valid"

\* The threads that run an init lambda have locked its key, each its own; those that
\* copy a function are before its first block.
LockInv ==
    /\ \A t \in Agents : /\ Copying(t) => sassi_cfg[Fn(t)].state = "locked" /\ bb[t] = 1
                         /\ at[t] = "fill" => sassi_cfg_blocks[Block(t)].state = "locked"
    /\ \A t, u \in Agents : t # u =>
          /\ ~(Copying(t) /\ Copying(u) /\ Fn(t) = Fn(u))
          /\ ~(at[t] = "fill" /\ at[u] = "fill" /\ Block(t) = Block(u))

\* The functions that have been entered are copied and all their blocks are in the
\* dictionary; those that are copied have been entered, or are being entered.
EnteredInv ==
    IsCfg /\ validData =>
        /\ \A f \in EnteredIn(app, Done) : sassi_cfg[f].state = "valid" /\ \A i \in 1..NumBlocks[f] : BlockIn(<<f, i>>)
        /\ \A f \in Copied : f \in EnteredIn(app, Done) \/ \E t \in Agents : Entering(t) /\ Fn(t) = f
        /\ \A t \in Agents : Entering(t) =>
              \A i \in 1..NumBlocks[Fn(t)] : i < bb[t] => BlockIn(<<Fn(t), i>>)

\* The blocks of the dictionary have their counters in the arrays of their functions,
\* and those count their entries; the others have not been entered.
WeightInv ==
    IsCfg /\ validData => \A b \in Blocks :
        /\ BlockIn(b) => /\ b[1] \in Copied
                         /\ sassi_cfg_blocks[b].ptr = Place(b)
                         /\ weight[Place(b)] = Cardinality(EntriesIn(app, Done, b))
        /\ ~BlockIn(b) => EntriesIn(app, Done, b) = {}

EntryInv == LockInv /\ EnteredInv /\ WeightInv /\ failed # "entry"

EntryBefore(t) ==
    /\ IInv /\ CountsInv /\ EntryInv /\ IsCfg /\ validData
    /\ UNCHANGED <<lib, app, hpc, phase, validData, since, file>>

\* The blocks of copied functions have counters of their own.
LEMMA PlacesDiffer ==
    ASSUME IInv, NEW b \in Blocks, b[1] \in Copied
    PROVE  /\ Place(b) \in Addresses
           /\ \A c \in Blocks : c[1] \in Copied /\ c # b => Place(c) # Place(b)
<1>0. HostTypeOK /\ CfgTypeOK /\ HostInv /\ ThreadInv /\ PoolInv
  BY DEF IInv, TypeOK
<1>1. POOLSIZE \in Nat /\ sizeofBLOCK \in Nat \ {0}
  BY Sizes
<1>2. ASSUME NEW c \in Blocks, c[1] \in Copied
      PROVE  \E f \in Functions, k \in Nat, from \in Nat :
                /\ c = <<f, k + 1>> /\ from = sassi_cfg[f].blocks /\ Array(f, from) \in Used
                /\ Place(c) = from + sizeofBLOCK * k /\ sizeofBLOCK * k \in Nat
                /\ sizeofBLOCK * k + sizeofBLOCK <= sizeofBLOCK * NumBlocks[f]
                /\ from + sizeofBLOCK * NumBlocks[f] <= POOLSIZE /\ sizeofBLOCK * NumBlocks[f] \in Nat
  <2>0. PICK f \in Functions : c \in {<<f, i>> : i \in 1..NumBlocks[f]}
    BY DEF Blocks
  <2>1. PICK i \in 1..NumBlocks[f] : c = <<f, i>>
    BY <2>0
  <2>2. c[1] = f /\ c[2] = i /\ f \in Copied
    BY <1>2, <2>1
  <2>3. NumBlocks[f] \in Nat /\ sizeofBLOCK * NumBlocks[f] \in Nat
    BY Sizes
  <2>4. PICK k \in Nat : i = k + 1 /\ i - 1 = k
    BY <2>1, <2>3
  <2>5. sizeofBLOCK * k \in Nat /\ sizeofBLOCK * i = sizeofBLOCK * k + sizeofBLOCK
        /\ sizeofBLOCK * i <= sizeofBLOCK * NumBlocks[f]
    BY <1>1, <2>1, <2>3, <2>4, Products
  <2>6. sassi_cfg[f].blocks \in Nat
    <3>1. sassi_cfg[f].blocks \in Addresses
      BY <1>0, CfgRecords
    <3>2. QED
      BY <1>1, <3>1 DEF Addresses
  <2>7. Array(f, sassi_cfg[f].blocks) \in Used
    BY <2>2 DEF Used
  <2>8. sassi_cfg[f].blocks + sizeofBLOCK * NumBlocks[f] <= POOLSIZE
    BY <1>0, <2>7 DEF PoolInv, Array
  <2>9. Place(c) = sassi_cfg[f].blocks + sizeofBLOCK * k
    BY <2>2, <2>4 DEF Place
  <2>10. c = <<f, k + 1>>
    BY <2>1, <2>4
  <2>11. QED
    BY <2>3, <2>5, <2>6, <2>7, <2>8, <2>9, <2>10
<1>3. PICK f \in Functions, k \in Nat, from \in Nat :
         /\ b = <<f, k + 1>> /\ from = sassi_cfg[f].blocks /\ Array(f, from) \in Used
         /\ Place(b) = from + sizeofBLOCK * k /\ sizeofBLOCK * k \in Nat
         /\ sizeofBLOCK * k + sizeofBLOCK <= sizeofBLOCK * NumBlocks[f]
         /\ from + sizeofBLOCK * NumBlocks[f] <= POOLSIZE /\ sizeofBLOCK * NumBlocks[f] \in Nat
  BY <1>2
<1>4. Place(b) \in Addresses
  <2>1. Place(b) \in Nat /\ Place(b) < from + sizeofBLOCK * NumBlocks[f]
    BY <1>1, <1>3
  <2>2. QED
    BY <1>1, <1>3, <2>1 DEF Addresses
<1>5. ASSUME NEW c \in Blocks, c[1] \in Copied, c # b
      PROVE  Place(c) # Place(b)
  <2>1. PICK g \in Functions, l \in Nat, of \in Nat :
         /\ c = <<g, l + 1>> /\ of = sassi_cfg[g].blocks /\ Array(g, of) \in Used
         /\ Place(c) = of + sizeofBLOCK * l /\ sizeofBLOCK * l \in Nat
         /\ sizeofBLOCK * l + sizeofBLOCK <= sizeofBLOCK * NumBlocks[g]
         /\ of + sizeofBLOCK * NumBlocks[g] <= POOLSIZE /\ sizeofBLOCK * NumBlocks[g] \in Nat
    BY <1>2, <1>5
  <2>2. CASE f = g
    <3>1. k # l /\ of = from
      BY <1>3, <1>5, <2>1, <2>2
    <3>2. \A m, n \in Nat : m < n => sizeofBLOCK * m + sizeofBLOCK <= sizeofBLOCK * n /\ sizeofBLOCK * m \in Nat
      <4>1. ASSUME NEW m \in Nat, NEW n \in Nat, m < n
            PROVE  sizeofBLOCK * m + sizeofBLOCK <= sizeofBLOCK * n /\ sizeofBLOCK * m \in Nat
        <5>1. m + 1 \in Nat /\ m + 1 <= n /\ m <= m + 1
          BY <4>1
        <5>2. sizeofBLOCK * (m + 1) <= sizeofBLOCK * n /\ sizeofBLOCK * (m + 1) = sizeofBLOCK * m + sizeofBLOCK
              /\ sizeofBLOCK * m \in Nat
          BY <1>1, <5>1, Products
        <5>3. QED
          BY <5>2
      <4>2. QED
        BY <4>1
    <3>3. CASE k < l
      <4>1. sizeofBLOCK * k + sizeofBLOCK <= sizeofBLOCK * l
        BY <3>2, <3>3
      <4>2. QED
        BY <1>1, <1>3, <2>1, <3>1, <4>1
    <3>4. CASE l < k
      <4>1. sizeofBLOCK * l + sizeofBLOCK <= sizeofBLOCK * k
        BY <3>2, <3>4
      <4>2. QED
        BY <1>1, <1>3, <2>1, <3>1, <4>1
    <3>5. QED
      BY <3>1, <3>3, <3>4
  <2>3. CASE f # g
    <3>1. Array(f, from).of # Array(g, of).of
      BY <2>3 DEF Array
    <3>2. Apart(Array(f, from), Array(g, of))
      BY <1>0, <1>3, <2>1, <3>1 DEF PoolInv
    <3>3. \/ from + sizeofBLOCK * NumBlocks[f] <= of
          \/ of + sizeofBLOCK * NumBlocks[g] <= from
      BY <3>2 DEF Apart, Array
    <3>4. QED
      BY <1>1, <1>3, <2>1, <3>3
  <2>4. QED
    BY <2>2, <2>3
<1>6. QED
  BY <1>4, <1>5

\* The locks when a thread steps, which takes a key that is not locked.
LEMMA LockStep ==
    ASSUME NEW t \in Agents, IInv, LockInv,
           UNCHANGED <<lib, app, hpc, phase, validData, since, file>>,
           pc' = pc \/ Advance(t),
           \A u \in Agents \ {t} : at'[u] = at[u] /\ bb'[u] = bb[u],
           \A u \in Agents \ {t} : /\ Copying(u) => sassi_cfg'[Fn(u)].state = "locked"
                                   /\ at[u] = "fill" => sassi_cfg_blocks'[Block(u)].state = "locked",
           at'[t] \in {"record", "blocks"} =>
               /\ Fn(t)' = Fn(t) /\ sassi_cfg'[Fn(t)].state = "locked" /\ bb'[t] = 1
               /\ Copying(t) \/ sassi_cfg[Fn(t)].state # "locked",
           at'[t] = "fill" =>
               /\ Block(t)' = Block(t) /\ sassi_cfg_blocks'[Block(t)].state = "locked"
               /\ sassi_cfg_blocks[Block(t)].state # "locked"
    PROVE  LockInv'
<1>1. \A u \in Agents \ {t} : /\ (Copying(u)' <=> Copying(u)) /\ (at'[u] = "fill" <=> at[u] = "fill")
                              /\ Fn(u)' = Fn(u) /\ Block(u)' = Block(u)
  <2>1. \A u \in Agents \ {t} : Fn(u)' = Fn(u)
    BY DeviceFrame DEF IInv, TypeOK
  <2>2. QED
    BY <2>1 DEF Copying, Block
<1>2. Copying(t)' <=> at'[t] \in {"record", "blocks"}
  BY DEF Copying
<1>3. \A u \in Agents : /\ Copying(u)' => sassi_cfg'[Fn(u)'].state = "locked" /\ bb'[u] = 1
                        /\ at'[u] = "fill" => sassi_cfg_blocks'[Block(u)'].state = "locked"
  <2>1. /\ Copying(t)' => sassi_cfg'[Fn(t)'].state = "locked" /\ bb'[t] = 1
        /\ at'[t] = "fill" => sassi_cfg_blocks'[Block(t)'].state = "locked"
    BY <1>2
  <2>2. ASSUME NEW u \in Agents \ {t}
        PROVE  /\ Copying(u)' => sassi_cfg'[Fn(u)'].state = "locked" /\ bb'[u] = 1
               /\ at'[u] = "fill" => sassi_cfg_blocks'[Block(u)'].state = "locked"
    BY <1>1 DEF LockInv
  <2>3. QED
    BY <2>1, <2>2
<1>4. \A u \in Agents \ {t} : /\ ~(Copying(t)' /\ Copying(u)' /\ Fn(t)' = Fn(u)')
                              /\ ~(at'[t] = "fill" /\ at'[u] = "fill" /\ Block(t)' = Block(u)')
  BY <1>1, <1>2 DEF LockInv
<1>5. \A u, v \in Agents \ {t} : u # v =>
                               /\ ~(Copying(v)' /\ Copying(u)' /\ Fn(v)' = Fn(u)')
                               /\ ~(at'[v] = "fill" /\ at'[u] = "fill" /\ Block(v)' = Block(u)')
  BY <1>1 DEF LockInv
<1>6. \A u, v \in Agents : u # v =>
                               /\ ~(Copying(v)' /\ Copying(u)' /\ Fn(v)' = Fn(u)')
                               /\ ~(at'[v] = "fill" /\ at'[u] = "fill" /\ Block(v)' = Block(u)')
  BY <1>4, <1>5
<1>7. QED
  BY <1>3, <1>6 DEF LockInv

LEMMA OneMoreItem ==
    ASSUME NEW a, NEW X, NEW x
    PROVE  /\ ItemIn(a, x).what = "function" =>
                 /\ EnteredIn(a, X \cup {x}) = EnteredIn(a, X) \cup {ItemIn(a, x).of}
                 /\ \A b : EntriesIn(a, X \cup {x}, b) = EntriesIn(a, X, b)
           /\ ItemIn(a, x).what = "block" =>
                 /\ EnteredIn(a, X \cup {x}) = EnteredIn(a, X)
                 /\ \A b : EntriesIn(a, X \cup {x}, b) =
                       EntriesIn(a, X, b) \cup (IF ItemIn(a, x).of = b THEN {x} ELSE {})
<1>1. "function" # "block"
  OBVIOUS
<1>2. QED
  BY <1>1 DEF EnteredIn, EntriesIn

\* What is entered when a thread steps.
LEMMA EnteredStep ==
    ASSUME NEW t \in Agents, EntryBefore(t), CfgTypeOK',
           pc' = pc \/ Advance(t),
           \A u \in Agents \ {t} : at'[u] = at[u] /\ bb'[u] = bb[u],
           \A f \in Functions : sassi_cfg[f].state = "valid" => sassi_cfg'[f].state = "valid",
           \A b \in Blocks : sassi_cfg_blocks[b].state = "valid" => sassi_cfg_blocks'[b].state = "valid",
           \A f \in Functions : sassi_cfg'[f].state = "valid" =>
               sassi_cfg[f].state = "valid" \/ (at'[t] = "register" /\ f = Fn(t)'),
           EnteredIn(app, Done') = EnteredIn(app, Done)
             \/ (at[t] = "register" /\ EnteredIn(app, Done') = EnteredIn(app, Done) \cup {Fn(t)}
                  /\ bb[t] > NumBlocks[Fn(t)]),
           Entering(t) => \/ at'[t] \in {"register", "fill"} /\ Fn(t)' = Fn(t)
                          \/ Fn(t) \in EnteredIn(app, Done'),
           at'[t] \in {"register", "fill"} =>
               \A i \in 1..NumBlocks[Fn(t)'] : i < bb'[t] => sassi_cfg_blocks'[<<Fn(t)', i>>].state = "valid"
    PROVE  EnteredInv'
<1> DEFINE E == EnteredIn(app, Done)
           D == EnteredIn(app, Done')
<1>0. /\ HostTypeOK /\ CfgTypeOK /\ HostInv /\ ThreadInv /\ EnteredInv /\ IsCfg /\ validData
      /\ UNCHANGED <<lib, app, hpc, phase, validData, since, file>>
  BY DEF EntryBefore, IInv, TypeOK, EntryInv
<1>1. \A u \in Agents \ {t} : /\ (Entering(u)' <=> Entering(u)) /\ bb'[u] = bb[u] /\ Fn(u)' = Fn(u)
  <2>1. \A u \in Agents \ {t} : Fn(u)' = Fn(u)
    BY <1>0, DeviceFrame
  <2>2. QED
    BY <2>1 DEF Entering
<1>2. \A f \in E : sassi_cfg[f].state = "valid" /\ \A i \in 1..NumBlocks[f] : sassi_cfg_blocks[<<f, i>>].state = "valid"
  BY <1>0 DEF EnteredInv, BlockIn
<1>3. \A f \in Functions : sassi_cfg[f].state = "valid" => f \in E \/ \E u \in Agents : Entering(u) /\ Fn(u) = f
  BY <1>0 DEF EnteredInv, Copied
<1>4. \A u \in Agents : Entering(u) =>
         \A i \in 1..NumBlocks[Fn(u)] : i < bb[u] => sassi_cfg_blocks[<<Fn(u), i>>].state = "valid"
  BY <1>0 DEF EnteredInv, BlockIn
<1>5. \A u \in Agents : Entering(u) => Fn(u) \in Functions /\ sassi_cfg[Fn(u)].state = "valid"
  BY <1>0, BusyFn DEF Entering, ThreadInv, ThreadOK
<1>6. \A f \in Functions : \A i \in 1..NumBlocks[f] : <<f, i>> \in Blocks
  BY DEF Blocks
<1>7. E \subseteq Functions
  <2>1. \A x \in Done : ItemIn(app, x) \in CfgItems
    <3>1. \A x \in Done : IsExecution(x)
      BY DoneIs
    <3>2. \A x \in Done : ItemIn(app, x) \in AppItems(app)
      BY <1>0, <3>1, AppFacts DEF IsExecution, ItemIn
    <3>3. lib \in Libs /\ app \in AppsOf[lib] /\ lib = "cfg"
      BY <1>0 DEF HostTypeOK, IsCfg
    <3>4. QED
      BY <3>2, <3>3, AppsAssumption
  <2>2. QED
    BY <2>1, CfgItemFacts DEF EnteredIn
<1> HIDE DEF E
<1>8. D = E \/ (at[t] = "register" /\ D = E \cup {Fn(t)} /\ bb[t] > NumBlocks[Fn(t)])
  BY DEF E
<1>9. Entering(t) => (at'[t] \in {"register", "fill"} /\ Fn(t)' = Fn(t)) \/ Fn(t) \in D
  OBVIOUS
<1> HIDE DEF D
<1>10. ASSUME NEW f \in D
       PROVE  sassi_cfg'[f].state = "valid" /\ \A i \in 1..NumBlocks[f] : sassi_cfg_blocks'[<<f, i>>].state = "valid"
  <2>1. CASE f \in E
    BY <1>2, <1>6, <1>7, <2>1
  <2>2. CASE at[t] = "register" /\ f = Fn(t) /\ bb[t] > NumBlocks[Fn(t)]
    <3>1. f \in Functions /\ sassi_cfg[f].state = "valid" /\ NumBlocks[f] \in Nat /\ bb[t] \in Nat
      BY <1>0, <1>5, <2>2, Sizes DEF Entering, CfgTypeOK
    <3>2. \A i \in 1..NumBlocks[f] : i < bb[t]
      BY <2>2, <3>1
    <3>3. \A i \in 1..NumBlocks[f] : sassi_cfg_blocks[<<f, i>>].state = "valid"
      BY <1>4, <2>2, <3>2 DEF Entering
    <3>4. QED
      BY <1>6, <3>1, <3>3
  <2>3. QED
    BY <1>8, <1>10, <2>1, <2>2
<1>11. ASSUME NEW f \in Functions, sassi_cfg'[f].state = "valid"
       PROVE  f \in D \/ \E u \in Agents : Entering(u)' /\ Fn(u)' = f
  <2>1. CASE at'[t] = "register" /\ f = Fn(t)'
    BY <2>1 DEF Entering
  <2>2. CASE f \in E
    BY <1>8, <2>2
  <2>3. CASE \E u \in Agents : Entering(u) /\ Fn(u) = f
    <3>1. PICK u \in Agents : Entering(u) /\ Fn(u) = f
      BY <2>3
    <3>2. CASE u # t
      BY <1>1, <3>1, <3>2
    <3>3. CASE u = t
      BY <1>9, <3>1, <3>3 DEF Entering
    <3>4. QED
      BY <3>2, <3>3
  <2>4. QED
    BY <1>3, <1>11, <2>1, <2>2, <2>3
<1>12. ASSUME NEW u \in Agents, Entering(u)', NEW i \in 1..NumBlocks[Fn(u)'], i < bb'[u]
       PROVE  sassi_cfg_blocks'[<<Fn(u)', i>>].state = "valid"
  <2>1. CASE u = t
    BY <1>12, <2>1 DEF Entering
  <2>2. CASE u # t
    <3>1. Entering(u) /\ Fn(u)' = Fn(u) /\ i \in 1..NumBlocks[Fn(u)] /\ i < bb[u]
      BY <1>1, <1>12, <2>2
    <3>2. sassi_cfg_blocks[<<Fn(u), i>>].state = "valid" /\ <<Fn(u), i>> \in Blocks
      BY <1>4, <1>5, <1>6, <3>1
    <3>3. QED
      BY <3>1, <3>2
  <2>3. QED
    BY <2>1, <2>2
<1>13. EnteredIn(app', Done') = D
  BY <1>0 DEF D
<1>14. QED
  BY <1>10, <1>11, <1>12, <1>13 DEF EnteredInv, BlockIn, Copied

\* Steps that neither enter nor fill a block.
LEMMA WeightKept ==
    ASSUME NEW t \in Agents, EntryBefore(t),
           \A f \in Copied : sassi_cfg'[f] = sassi_cfg[f],
           \A b \in Blocks : /\ sassi_cfg_blocks'[b].state = "valid" <=> sassi_cfg_blocks[b].state = "valid"
                             /\ sassi_cfg_blocks'[b].ptr = sassi_cfg_blocks[b].ptr,
           weight' = weight,
           \A b : EntriesIn(app, Done', b) = EntriesIn(app, Done, b)
    PROVE  WeightInv'
<1>1. WeightInv /\ IsCfg /\ validData /\ app' = app
  BY DEF EntryBefore, EntryInv
<1> SUFFICES ASSUME NEW b \in Blocks
             PROVE  /\ BlockIn(b)' => /\ b[1] \in Copied'
                                      /\ sassi_cfg_blocks'[b].ptr = Place(b)'
                                      /\ weight'[Place(b)'] = Cardinality(EntriesIn(app', Done', b))
                    /\ ~BlockIn(b)' => EntriesIn(app', Done', b) = {}
  BY DEF WeightInv
<1>2. BlockIn(b)' <=> BlockIn(b)
  BY DEF BlockIn
<1>3. EntriesIn(app', Done', b) = EntriesIn(app, Done, b)
  BY <1>1
<1>4. CASE BlockIn(b)
  <2>1. b[1] \in Copied /\ sassi_cfg_blocks[b].ptr = Place(b) /\ weight[Place(b)] = Cardinality(EntriesIn(app, Done, b))
    BY <1>1, <1>4 DEF WeightInv
  <2>2. b[1] \in Copied' /\ Place(b)' = Place(b)
    BY <2>1 DEF Place, Copied
  <2>3. QED
    BY <1>2, <1>3, <1>4, <2>1, <2>2
<1>5. CASE ~BlockIn(b)
  BY <1>1, <1>2, <1>3, <1>5 DEF WeightInv
<1>6. QED
  BY <1>4, <1>5

\* What the threads of cfg hold and have entered.
LEMMA EntryFacts ==
    ASSUME NEW t \in Agents, EntryBefore(t)
    PROVE  /\ CfgBefore(t) /\ LockInv /\ failed # "entry"
           /\ HostTypeOK /\ CfgTypeOK /\ HostInv /\ ThreadInv /\ EnteredInv /\ WeightInv /\ IInv
           /\ app' = app
           /\ pc' = pc => Done' = Done /\ Fn(t)' = Fn(t) /\ (bb' = bb => Block(t)' = Block(t))
           /\ \A u \in Agents : Copying(u) => Fn(u) \in Functions /\ sassi_cfg[Fn(u)].state = "locked" /\ bb[u] = 1
           /\ \A u \in Agents : at[u] = "fill" => Block(u) \in Blocks /\ sassi_cfg_blocks[Block(u)].state = "locked"
           /\ \A u \in Agents : Entering(u) => Fn(u) \in Functions /\ sassi_cfg[Fn(u)].state = "valid" /\
                 \A i \in 1..NumBlocks[Fn(u)] : i < bb[u] => sassi_cfg_blocks[<<Fn(u), i>>].state = "valid"
<1>1. /\ CfgBefore(t) /\ LockInv /\ failed # "entry"
      /\ HostTypeOK /\ CfgTypeOK /\ HostInv /\ ThreadInv /\ EnteredInv /\ WeightInv /\ IInv
      /\ app' = app
  BY DEF EntryBefore, EntryInv, CfgBefore, IInv, TypeOK
<1>2. pc' = pc => Done' = Done
  BY DEF Done, Executions, Calls, EntryBefore
<1>3. pc' = pc => Fn(t)' = Fn(t) /\ (bb' = bb => Block(t)' = Block(t))
  BY DEF Fn, Item, Stream, Block, EntryBefore
<1>4. \A u \in Agents : Copying(u) => Fn(u) \in Functions /\ sassi_cfg[Fn(u)].state = "locked" /\ bb[u] = 1
  BY <1>1, BusyFn DEF Copying, LockInv
<1>5. \A u \in Agents : at[u] = "fill" => Block(u) \in Blocks /\ sassi_cfg_blocks[Block(u)].state = "locked"
  <2>1. ASSUME NEW u \in Agents, at[u] = "fill" PROVE Block(u) \in Blocks
    <3>1. Fn(u) \in Functions /\ bb[u] \in Nat /\ bb[u] >= 1 /\ bb[u] <= NumBlocks[Fn(u)] /\ NumBlocks[Fn(u)] \in Nat
      BY <1>1, <2>1, BusyFn, Sizes DEF ThreadInv, ThreadOK, CfgTypeOK
    <3>2. bb[u] \in 1..NumBlocks[Fn(u)]
      BY <3>1
    <3>3. QED
      BY <3>1, <3>2 DEF Block, Blocks
  <2>2. QED
    BY <1>1, <2>1 DEF LockInv
<1>6. \A u \in Agents : Entering(u) => Fn(u) \in Functions /\ sassi_cfg[Fn(u)].state = "valid" /\
         \A i \in 1..NumBlocks[Fn(u)] : i < bb[u] => sassi_cfg_blocks[<<Fn(u), i>>].state = "valid"
  <2>1. \A u \in Agents : Entering(u) => Fn(u) \in Functions /\ sassi_cfg[Fn(u)].state = "valid"
    BY <1>1, BusyFn DEF Entering, ThreadInv, ThreadOK
  <2>2. \A u \in Agents : Entering(u) =>
         \A i \in 1..NumBlocks[Fn(u)] : i < bb[u] => sassi_cfg_blocks[<<Fn(u), i>>].state = "valid"
    BY <1>1 DEF EnteredInv, BlockIn, EntryBefore
  <2>3. QED
    BY <2>1, <2>2
<1>7. QED
  BY <1>1, <1>2, <1>3, <1>4, <1>5, <1>6

LEMMA FindFunctionEntry ==
    ASSUME NEW t \in Agents, EntryBefore(t), FindFunction(t)
    PROVE  EntryInv'
<1>0. CfgAfter
  BY EntryFacts, FindFunctionInv
<1>1. /\ at[t] = "idle" /\ More(t) /\ Item(t).what = "function" /\ pc' = pc
      /\ bb' = [bb EXCEPT ![t] = 1]
      /\ UNCHANGED <<cPtr, sassi_mempool_cur, sassi_cfg_blocks, weight, failed>>
  BY DEF FindFunction, CfgAt, Runs
<1>2. Fn(t) \in Functions
  BY <1>1, EntryFacts, ItemFacts, CfgItemFacts DEF Fn, CfgBefore
<1>3. \/ /\ sassi_cfg[Fn(t)].state = "free" /\ at' = [at EXCEPT ![t] = "record"]
         /\ sassi_cfg' = [sassi_cfg EXCEPT ![Fn(t)] = [sassi_cfg[Fn(t)] EXCEPT !.state = "locked"]]
      \/ sassi_cfg[Fn(t)].state = "valid" /\ at' = [at EXCEPT ![t] = "register"] /\ sassi_cfg' = sassi_cfg
  BY DEF FindFunction, CfgGoTo
<1>4. /\ at \in [Agents -> {"idle", "record", "blocks", "register", "fill"}] /\ bb \in [Agents -> Nat]
      /\ sassi_cfg \in [Functions -> [state : States, cfg : Addresses, blocks : Addresses]]
  BY EntryFacts DEF CfgTypeOK
<1>5. /\ \A f \in Functions : sassi_cfg[f].state = "valid" <=> sassi_cfg'[f].state = "valid"
      /\ \A f \in Functions : sassi_cfg[f].state = "valid" => sassi_cfg'[f] = sassi_cfg[f]
      /\ \A f \in Functions : sassi_cfg[f].state = "locked" => sassi_cfg'[f].state = "locked"
      /\ at'[t] = "record" => sassi_cfg'[Fn(t)].state = "locked" /\ sassi_cfg[Fn(t)].state = "free"
  BY <1>2, <1>3, <1>4, EntryFacts, CfgRecords, SMTT(30)
<1>6. /\ at'[t] \in {"record", "register"} /\ bb'[t] = 1
      /\ \A u \in Agents \ {t} : at'[u] = at[u] /\ bb'[u] = bb[u]
      /\ ~Entering(t)
  BY <1>1, <1>3, <1>4 DEF Entering
<1>7. Fn(t)' = Fn(t) /\ Done' = Done
  BY <1>1, EntryFacts
<1>8. LockInv'
  <2>1. \A u \in Agents \ {t} : /\ Copying(u) => sassi_cfg'[Fn(u)].state = "locked"
                                /\ at[u] = "fill" => sassi_cfg_blocks'[Block(u)].state = "locked"
    BY <1>1, <1>5, EntryFacts
  <2>2. at'[t] \in {"record", "blocks"} =>
               /\ Fn(t)' = Fn(t) /\ sassi_cfg'[Fn(t)].state = "locked" /\ bb'[t] = 1
               /\ Copying(t) \/ sassi_cfg[Fn(t)].state # "locked"
    BY <1>5, <1>6, <1>7
  <2>3. at'[t] # "fill"
    BY <1>6
  <2>4. QED
    BY <1>1, <1>6, <2>1, <2>2, <2>3, EntryFacts, LockStep DEF EntryBefore
<1>9. EnteredInv'
  <2>1. \A i \in 1..NumBlocks[Fn(t)'] : ~(i < bb'[t])
    BY <1>2, <1>6, <1>7, Sizes
  <2>2. \A b \in Blocks : sassi_cfg_blocks[b].state = "valid" => sassi_cfg_blocks'[b].state = "valid"
    BY <1>1
  <2>3. EnteredIn(app, Done') = EnteredIn(app, Done)
    BY <1>7
  <2>4. CfgTypeOK'
    BY <1>0 DEF CfgAfter
  <2>5. QED
    BY <1>1, <1>5, <1>6, <2>1, <2>2, <2>3, <2>4, EnteredStep
<1>10. WeightInv'
  <2>1. \A f \in Copied : sassi_cfg'[f] = sassi_cfg[f]
    BY <1>5 DEF Copied
  <2>2. QED
    BY <1>1, <1>7, <2>1, WeightKept
<1>11. QED
  BY <1>1, <1>8, <1>9, <1>10, EntryFacts DEF EntryInv

\* A failed assertion of the pool leaves the threads where they are.
LEMMA FailedEntry ==
    ASSUME NEW t \in Agents, EntryBefore(t), CfgTypeOK', failed' # "entry",
           UNCHANGED <<pc, at, bb, sassi_cfg, sassi_cfg_blocks, weight>>
    PROVE  EntryInv'
<1>1. Done' = Done /\ Fn(t)' = Fn(t) /\ Block(t)' = Block(t)
  BY EntryFacts
<1>2. LockInv'
  <2>1. \A u \in Agents : Fn(u)' = Fn(u) /\ Block(u)' = Block(u) /\ (Copying(u)' <=> Copying(u))
    BY DEF EntryBefore, Fn, Item, Stream, Block, Copying
  <2>2. QED
    BY <2>1, EntryFacts DEF LockInv
<1>3. EnteredInv'
  BY <1>1, EntryFacts, EnteredStep DEF Entering
<1>4. WeightInv'
  BY <1>1, WeightKept
<1>5. QED
  BY <1>2, <1>3, <1>4 DEF EntryInv

LEMMA AllocateRecordEntry ==
    ASSUME NEW t \in Agents, EntryBefore(t), AllocateRecord(t)
    PROVE  EntryInv'
<1>0. CfgTypeOK'
  BY EntryFacts, AllocateRecordInv DEF CfgAfter
<1>1. /\ at[t] = "record" /\ UNCHANGED <<pc, bb, sassi_cfg, sassi_cfg_blocks, weight>>
      /\ \/ at' = [at EXCEPT ![t] = "blocks"] /\ failed' = failed
         \/ at' = at /\ failed' = "pool"
  BY DEF AllocateRecord, CfgAt, CfgGoTo
<1>2. CASE at' = at /\ failed' = "pool"
  BY <1>0, <1>1, <1>2, FailedEntry
<1>3. CASE at' = [at EXCEPT ![t] = "blocks"] /\ failed' = failed
  <2>1. at'[t] = "blocks" /\ ~Entering(t) /\ Copying(t) /\ \A u \in Agents \ {t} : at'[u] = at[u] /\ bb'[u] = bb[u]
    <3>1. at \in [Agents -> {"idle", "record", "blocks", "register", "fill"}]
      BY EntryFacts DEF CfgTypeOK
    <3>2. QED
      BY <1>1, <1>3, <3>1 DEF Entering, Copying
  <2>2. Done' = Done /\ Fn(t)' = Fn(t)
    BY <1>1, EntryFacts
  <2>3. LockInv'
    <3>1. \A u \in Agents \ {t} : /\ Copying(u) => sassi_cfg'[Fn(u)].state = "locked"
                                  /\ at[u] = "fill" => sassi_cfg_blocks'[Block(u)].state = "locked"
      BY <1>1, EntryFacts
    <3>2. at'[t] \in {"record", "blocks"} =>
               /\ Fn(t)' = Fn(t) /\ sassi_cfg'[Fn(t)].state = "locked" /\ bb'[t] = 1
               /\ Copying(t) \/ sassi_cfg[Fn(t)].state # "locked"
      BY <1>1, <2>1, <2>2, EntryFacts
    <3>3. at'[t] # "fill"
      BY <2>1
    <3>4. QED
      BY <1>1, <2>1, <3>1, <3>2, <3>3, EntryFacts, LockStep DEF EntryBefore
  <2>4. EnteredInv'
    <3>1. at'[t] \notin {"register", "fill"}
      BY <2>1
    <3>2. EnteredIn(app, Done') = EnteredIn(app, Done)
      BY <2>2
    <3>3. /\ \A f \in Functions : sassi_cfg[f].state = "valid" <=> sassi_cfg'[f].state = "valid"
          /\ \A b \in Blocks : sassi_cfg_blocks[b].state = "valid" => sassi_cfg_blocks'[b].state = "valid"
      BY <1>1
    <3>4. QED
      BY <1>0, <1>1, <2>1, <3>1, <3>2, <3>3, EnteredStep
  <2>5. WeightInv'
    BY <1>1, <2>2, WeightKept
  <2>6. QED
    BY <1>3, <2>3, <2>4, <2>5, EntryFacts DEF EntryInv
<1>4. QED
  BY <1>1, <1>2, <1>3

LEMMA AllocateBlocksEntry ==
    ASSUME NEW t \in Agents, EntryBefore(t), AllocateBlocks(t)
    PROVE  EntryInv'
<1> DEFINE f == Fn(t)
<1>0. CfgTypeOK'
  BY EntryFacts, AllocateBlocksInv DEF CfgAfter
<1>1. /\ at[t] = "blocks" /\ UNCHANGED <<pc, bb, cPtr, sassi_cfg_blocks, weight>>
      /\ \/ /\ sassi_cfg' = [sassi_cfg EXCEPT ![f] =
                  [state |-> "valid", cfg |-> cPtr[t], blocks |-> sassi_mempool_cur]]
            /\ at' = [at EXCEPT ![t] = "register"] /\ failed' = failed
         \/ failed' = "pool" /\ UNCHANGED <<at, sassi_cfg>>
  BY DEF AllocateBlocks, CfgAt, CfgGoTo
<1>2. Copying(t) /\ ~Entering(t) /\ f \in Functions /\ sassi_cfg[f].state = "locked"
  <2>1. Copying(t) /\ ~Entering(t)
    BY <1>1 DEF Copying, Entering
  <2>2. QED
    BY <2>1, EntryFacts
<1>3. Done' = Done /\ Fn(t)' = f
  BY <1>1, EntryFacts
<1>4. CASE failed' = "pool" /\ UNCHANGED <<at, sassi_cfg>>
  BY <1>0, <1>1, <1>4, FailedEntry
<1>5. CASE /\ sassi_cfg' = [sassi_cfg EXCEPT ![f] =
                  [state |-> "valid", cfg |-> cPtr[t], blocks |-> sassi_mempool_cur]]
           /\ at' = [at EXCEPT ![t] = "register"] /\ failed' = failed
  <2>1. /\ at'[t] = "register" /\ \A u \in Agents \ {t} : at'[u] = at[u] /\ bb'[u] = bb[u]
        /\ sassi_cfg'[f].state = "valid" /\ \A g \in Functions : g # f => sassi_cfg'[g] = sassi_cfg[g]
    BY <1>1, <1>2, <1>5, EntryFacts DEF CfgTypeOK
  <2>2. LockInv'
    <3>1. ASSUME NEW u \in Agents \ {t}
          PROVE  /\ Copying(u) => sassi_cfg'[Fn(u)].state = "locked"
                 /\ at[u] = "fill" => sassi_cfg_blocks'[Block(u)].state = "locked"
      <4>1. Copying(u) => Fn(u) # f /\ Fn(u) \in Functions /\ sassi_cfg[Fn(u)].state = "locked"
        BY <1>2, EntryFacts DEF LockInv
      <4>2. QED
        BY <1>1, <2>1, <4>1, EntryFacts
    <3>2. at'[t] # "fill" /\ at'[t] \notin {"record", "blocks"}
      BY <2>1
    <3> HIDE DEF f
    <3>3. QED
      BY <1>1, <2>1, <3>1, <3>2, EntryFacts, LockStep DEF EntryBefore
  <2>3. EnteredInv'
    <3>1. EnteredIn(app, Done') = EnteredIn(app, Done)
      BY <1>3
    <3>2. /\ \A g \in Functions : sassi_cfg[g].state = "valid" => sassi_cfg'[g].state = "valid"
          /\ \A b \in Blocks : sassi_cfg_blocks[b].state = "valid" => sassi_cfg_blocks'[b].state = "valid"
          /\ \A g \in Functions : sassi_cfg'[g].state = "valid" =>
               sassi_cfg[g].state = "valid" \/ (at'[t] = "register" /\ g = Fn(t)')
      BY <1>1, <1>2, <1>3, <2>1
    <3>3. \A i \in 1..NumBlocks[Fn(t)'] : i < bb'[t] => sassi_cfg_blocks'[<<Fn(t)', i>>].state = "valid"
      <4>1. bb[t] = 1
        BY <1>2, EntryFacts
      <4>2. QED
        BY <1>1, <1>2, <1>3, <4>1, Sizes
    <3>4. QED
      BY <1>0, <1>1, <1>2, <2>1, <3>1, <3>2, <3>3, EnteredStep
  <2>4. WeightInv'
    <3>1. \A g \in Copied : sassi_cfg'[g] = sassi_cfg[g]
      BY <1>2, <2>1 DEF Copied
    <3>2. QED
      BY <1>1, <1>3, <3>1, WeightKept
  <2>5. QED
    BY <1>5, <2>2, <2>3, <2>4, EntryFacts DEF EntryInv
<1>6. QED
  BY <1>1, <1>4, <1>5

LEMMA FindBlockEntry ==
    ASSUME NEW t \in Agents, EntryBefore(t), FindBlock(t)
    PROVE  EntryInv'
<1>0. CfgTypeOK'
  BY EntryFacts, FindBlockInv DEF CfgAfter
<1>1. /\ at[t] = "register" /\ bb[t] <= NumBlocks[Fn(t)]
      /\ UNCHANGED <<pc, cPtr, sassi_mempool_cur, sassi_cfg, weight, failed>>
  BY DEF FindBlock, CfgAt
<1>2. Fn(t) \in Functions /\ Block(t) \in Blocks /\ Entering(t)
  BY <1>1, EntryFacts, BlockFacts DEF Entering
<1>3. \/ /\ sassi_cfg_blocks[Block(t)].state = "free"
         /\ sassi_cfg_blocks' = [sassi_cfg_blocks EXCEPT ![Block(t)] =
                 [sassi_cfg_blocks[Block(t)] EXCEPT !.state = "locked"]]
         /\ at' = [at EXCEPT ![t] = "fill"] /\ bb' = bb
      \/ /\ sassi_cfg_blocks[Block(t)].state = "valid"
         /\ bb' = [bb EXCEPT ![t] = bb[t] + 1] /\ UNCHANGED <<at, sassi_cfg_blocks>>
  BY DEF FindBlock, CfgGoTo
<1>4. /\ at \in [Agents -> {"idle", "record", "blocks", "register", "fill"}] /\ bb \in [Agents -> Nat]
      /\ sassi_cfg_blocks \in [Blocks -> [state : States, ptr : Addresses]]
  BY EntryFacts DEF CfgTypeOK
<1>5. Done' = Done /\ Fn(t)' = Fn(t) /\ (bb' = bb => Block(t)' = Block(t))
  BY <1>1, EntryFacts
<1>6. /\ \A b \in Blocks : /\ sassi_cfg_blocks'[b].state = "valid" <=> sassi_cfg_blocks[b].state = "valid"
                           /\ sassi_cfg_blocks'[b].ptr = sassi_cfg_blocks[b].ptr
                           /\ sassi_cfg_blocks[b].state = "locked" => sassi_cfg_blocks'[b].state = "locked"
      /\ at'[t] = "fill" => /\ sassi_cfg_blocks[Block(t)].state = "free"
                            /\ sassi_cfg_blocks'[Block(t)].state = "locked" /\ bb' = bb
      /\ at'[t] \in {"register", "fill"}
      /\ \A u \in Agents \ {t} : at'[u] = at[u] /\ bb'[u] = bb[u]
      /\ bb'[t] = bb[t] \/ (bb'[t] = bb[t] + 1 /\ sassi_cfg_blocks[Block(t)].state = "valid")
  <2>1. CASE /\ sassi_cfg_blocks[Block(t)].state = "free"
             /\ sassi_cfg_blocks' = [sassi_cfg_blocks EXCEPT ![Block(t)] =
                     [sassi_cfg_blocks[Block(t)] EXCEPT !.state = "locked"]]
             /\ at' = [at EXCEPT ![t] = "fill"] /\ bb' = bb
    <3> DEFINE b0 == Block(t)
               r == [sassi_cfg_blocks[b0] EXCEPT !.state = "locked"]
    <3>1. r.state = "locked" /\ r.ptr = sassi_cfg_blocks[b0].ptr
      <4>1. sassi_cfg_blocks[b0] \in [state : States, ptr : Addresses]
        BY <1>2, <1>4
      <4>2. QED
        BY <4>1
    <3>2. b0 \in Blocks /\ sassi_cfg_blocks[b0].state = "free" /\ sassi_cfg_blocks' = [sassi_cfg_blocks EXCEPT ![b0] = r]
      BY <1>2, <2>1
    <3> HIDE DEF b0, r
    <3>3. sassi_cfg_blocks'[b0] = r /\ \A b \in Blocks \ {b0} : sassi_cfg_blocks'[b] = sassi_cfg_blocks[b]
      BY <1>4, <3>2
    <3>4. at'[t] = "fill" /\ \A u \in Agents \ {t} : at'[u] = at[u] /\ bb'[u] = bb[u]
      BY <1>4, <2>1
    <3>5. QED
      BY <2>1, <3>1, <3>2, <3>3, <3>4 DEF b0
  <2>2. CASE /\ sassi_cfg_blocks[Block(t)].state = "valid"
             /\ bb' = [bb EXCEPT ![t] = bb[t] + 1] /\ UNCHANGED <<at, sassi_cfg_blocks>>
    BY <1>1, <1>4, <2>2
  <2>3. QED
    BY <1>3, <2>1, <2>2
<1>7. LockInv'
  <2>1. \A u \in Agents \ {t} : /\ Copying(u) => sassi_cfg'[Fn(u)].state = "locked"
                                /\ at[u] = "fill" => sassi_cfg_blocks'[Block(u)].state = "locked"
    BY <1>1, <1>6, EntryFacts
  <2>2. at'[t] = "fill" =>
               /\ Block(t)' = Block(t) /\ sassi_cfg_blocks'[Block(t)].state = "locked"
               /\ sassi_cfg_blocks[Block(t)].state # "locked"
    BY <1>5, <1>6
  <2>3. at'[t] \notin {"record", "blocks"}
    BY <1>6
  <2>4. QED
    BY <1>1, <1>6, <2>1, <2>2, <2>3, EntryFacts, LockStep DEF EntryBefore
<1>8. EnteredInv'
  <2>1. EnteredIn(app, Done') = EnteredIn(app, Done)
    BY <1>5
  <2>2. \A i \in 1..NumBlocks[Fn(t)] : i < bb'[t] => sassi_cfg_blocks'[<<Fn(t), i>>].state = "valid"
    <3>1. ASSUME NEW i \in 1..NumBlocks[Fn(t)], i < bb'[t]
          PROVE  sassi_cfg_blocks'[<<Fn(t), i>>].state = "valid"
      <4>1. <<Fn(t), i>> \in Blocks
        BY <1>2 DEF Blocks
      <4>2. i \in Nat /\ bb[t] \in Nat
        BY <1>2, <1>4, Sizes
      <4>3. CASE i < bb[t]
        BY <1>2, <1>6, <4>1, <4>3, EntryFacts
      <4>4. CASE i = bb[t] /\ sassi_cfg_blocks[Block(t)].state = "valid"
        BY <1>6, <4>1, <4>4 DEF Block
      <4>5. QED
        BY <1>6, <3>1, <4>2, <4>3, <4>4
    <3>2. QED
      BY <3>1
  <2>3. /\ \A f \in Functions : sassi_cfg[f].state = "valid" <=> sassi_cfg'[f].state = "valid"
        /\ \A b \in Blocks : sassi_cfg_blocks[b].state = "valid" => sassi_cfg_blocks'[b].state = "valid"
    BY <1>1, <1>6
  <2>4. QED
    BY <1>0, <1>1, <1>5, <1>6, <2>1, <2>2, <2>3, EnteredStep
<1>9. WeightInv'
  <2>1. \A f \in Copied : sassi_cfg'[f] = sassi_cfg[f]
    BY <1>1
  <2>2. \A b \in Blocks : /\ sassi_cfg_blocks'[b].state = "valid" <=> sassi_cfg_blocks[b].state = "valid"
                          /\ sassi_cfg_blocks'[b].ptr = sassi_cfg_blocks[b].ptr
    BY <1>6
  <2>3. QED
    BY <1>1, <1>5, <2>1, <2>2, WeightKept
<1>10. QED
  BY <1>1, <1>7, <1>8, <1>9, EntryFacts DEF EntryInv

LEMMA EndFunctionEntryEntry ==
    ASSUME NEW t \in Agents, EntryBefore(t), EndFunctionEntry(t)
    PROVE  EntryInv'
<1>0. CfgTypeOK'
  BY EntryFacts, EndFunctionEntryInv DEF CfgAfter
<1>1. /\ at[t] = "register" /\ bb[t] > NumBlocks[Fn(t)] /\ at' = [at EXCEPT ![t] = "idle"] /\ Advance(t)
      /\ UNCHANGED <<bb, cPtr, sassi_mempool_cur, sassi_cfg, sassi_cfg_blocks, weight, failed>>
  BY DEF EndFunctionEntry, CfgGoTo, CfgAt
<1>2. More(t) /\ Item(t).what = "function" /\ Entering(t)
  BY <1>1, EntryFacts, BusyFn DEF Entering
<1>3. at'[t] = "idle" /\ \A u \in Agents \ {t} : at'[u] = at[u] /\ bb'[u] = bb[u]
  BY <1>1, EntryFacts DEF CfgTypeOK
<1>4. /\ Done' = Done \cup {Now(t)}
      /\ ItemIn(app, Now(t)).what = "function" /\ ItemIn(app, Now(t)).of = Fn(t)
  <2>1. Done' = Done \cup {Now(t)}
    BY <1>1, <1>2, EntryFacts, DoneAdvances DEF EntryBefore
  <2>2. ItemOf(Now(t)) = Item(t)
    BY <1>2, EntryFacts, NowIs
  <2>3. QED
    BY <1>2, <2>1, <2>2 DEF ItemOf, ItemIn, Fn
<1>5. /\ EnteredIn(app, Done') = EnteredIn(app, Done) \cup {Fn(t)}
      /\ \A b : EntriesIn(app, Done', b) = EntriesIn(app, Done, b)
  BY <1>4, OneMoreItem
<1>6. LockInv'
  <2>1. \A u \in Agents \ {t} : /\ Copying(u) => sassi_cfg'[Fn(u)].state = "locked"
                                /\ at[u] = "fill" => sassi_cfg_blocks'[Block(u)].state = "locked"
    BY <1>1, EntryFacts
  <2>2. at'[t] \notin {"record", "blocks"} /\ at'[t] # "fill"
    BY <1>3
  <2>3. QED
    BY <1>1, <1>3, <2>1, <2>2, EntryFacts, LockStep DEF EntryBefore
<1>7. EnteredInv'
  <2>1. at'[t] \notin {"register", "fill"} /\ Fn(t) \in EnteredIn(app, Done')
    BY <1>3, <1>5
  <2>2. /\ \A f \in Functions : sassi_cfg[f].state = "valid" <=> sassi_cfg'[f].state = "valid"
        /\ \A b \in Blocks : sassi_cfg_blocks[b].state = "valid" => sassi_cfg_blocks'[b].state = "valid"
    BY <1>1
  <2>3. QED
    BY <1>0, <1>1, <1>3, <1>5, <2>1, <2>2, EnteredStep
<1>8. WeightInv'
  BY <1>1, <1>5, WeightKept
<1>9. QED
  BY <1>1, <1>6, <1>7, <1>8, EntryFacts DEF EntryInv

LEMMA FillBlockEntry ==
    ASSUME NEW t \in Agents, EntryBefore(t), FillBlock(t)
    PROVE  EntryInv'
<1> DEFINE b0 == Block(t)
           ptr == sassi_cfg[Fn(t)].blocks + sizeofBLOCK * (bb[t] - 1)
<1>0. CfgTypeOK'
  BY EntryFacts, FillBlockInv DEF CfgAfter
<1>1. /\ at[t] = "fill" /\ UNCHANGED <<pc, cPtr, sassi_mempool_cur, sassi_cfg, failed>>
      /\ sassi_cfg_blocks' = [sassi_cfg_blocks EXCEPT ![b0] = [state |-> "valid", ptr |-> ptr]]
      /\ weight' = [weight EXCEPT ![ptr] = 0]
      /\ bb' = [bb EXCEPT ![t] = bb[t] + 1] /\ at' = [at EXCEPT ![t] = "register"]
  BY DEF FillBlock, CfgAt, CfgGoTo
<1>2. /\ Fn(t) \in Functions /\ sassi_cfg[Fn(t)].state = "valid" /\ Entering(t)
      /\ b0 \in Blocks /\ sassi_cfg_blocks[b0].state = "locked"
      /\ b0 = <<Fn(t), bb[t]>> /\ b0[1] = Fn(t) /\ b0[2] = bb[t]
  <2>1. Entering(t)
    BY <1>1 DEF Entering
  <2>2. b0 = <<Fn(t), bb[t]>> /\ b0[1] = Fn(t) /\ b0[2] = bb[t]
    BY DEF Block
  <2>3. QED
    BY <1>1, <2>1, <2>2, EntryFacts
<1>3. b0[1] \in Copied /\ ptr = Place(b0)
  BY <1>2 DEF Copied, Place
<1>4. /\ at \in [Agents -> {"idle", "record", "blocks", "register", "fill"}] /\ bb \in [Agents -> Nat]
      /\ sassi_cfg_blocks \in [Blocks -> [state : States, ptr : Addresses]]
      /\ weight \in [Addresses -> Nat]
  BY EntryFacts DEF CfgTypeOK
<1>5. Done' = Done /\ Fn(t)' = Fn(t)
  BY <1>1, EntryFacts
<1> HIDE DEF b0, ptr
<1>6. /\ sassi_cfg_blocks'[b0].state = "valid" /\ sassi_cfg_blocks'[b0].ptr = Place(b0)
      /\ \A b \in Blocks \ {b0} : sassi_cfg_blocks'[b] = sassi_cfg_blocks[b]
      /\ at'[t] = "register" /\ bb'[t] = bb[t] + 1
      /\ \A u \in Agents \ {t} : at'[u] = at[u] /\ bb'[u] = bb[u]
  BY <1>1, <1>2, <1>3, <1>4
<1>7. LockInv'
  <2>1. ASSUME NEW u \in Agents \ {t}
        PROVE  /\ Copying(u) => sassi_cfg'[Fn(u)].state = "locked"
               /\ at[u] = "fill" => sassi_cfg_blocks'[Block(u)].state = "locked"
    <3>1. at[u] = "fill" => Block(u) # b0 /\ Block(u) \in Blocks /\ sassi_cfg_blocks[Block(u)].state = "locked"
      BY <1>1, EntryFacts DEF LockInv, b0
    <3>2. QED
      BY <1>1, <1>6, <3>1, EntryFacts
  <2>2. at'[t] # "fill" /\ at'[t] \notin {"record", "blocks"}
    BY <1>6
  <2>3. QED
    BY <1>1, <1>6, <2>1, <2>2, EntryFacts, LockStep DEF EntryBefore
<1>8. \A b \in Blocks : sassi_cfg_blocks[b].state = "valid" => sassi_cfg_blocks'[b].state = "valid"
  BY <1>6
<1>9. EnteredInv'
  <2>1. EnteredIn(app, Done') = EnteredIn(app, Done)
    BY <1>5
  <2>2. ASSUME NEW i \in 1..NumBlocks[Fn(t)], i < bb'[t]
        PROVE  sassi_cfg_blocks'[<<Fn(t), i>>].state = "valid"
    <3>1. <<Fn(t), i>> \in Blocks
      BY <1>2 DEF Blocks
    <3>2. i \in Nat /\ bb[t] \in Nat
      BY <1>2, <1>4, Sizes
    <3>3. CASE i < bb[t]
      BY <1>2, <1>8, <3>1, <3>3, EntryFacts
    <3>4. CASE i = bb[t]
      BY <1>2, <1>6, <3>4
    <3>5. QED
      BY <1>6, <2>2, <3>2, <3>3, <3>4
  <2>3. \A f \in Functions : sassi_cfg[f].state = "valid" <=> sassi_cfg'[f].state = "valid"
    BY <1>1
  <2>4. QED
    BY <1>0, <1>1, <1>5, <1>6, <1>8, <2>1, <2>2, <2>3, EnteredStep
<1>10. WeightInv'
  <2>1. WeightInv /\ IsCfg /\ validData /\ app' = app /\ IInv
    BY EntryFacts DEF EntryBefore
  <2> SUFFICES ASSUME NEW b \in Blocks
               PROVE  /\ BlockIn(b)' => /\ b[1] \in Copied'
                                        /\ sassi_cfg_blocks'[b].ptr = Place(b)'
                                        /\ weight'[Place(b)'] = Cardinality(EntriesIn(app', Done', b))
                      /\ ~BlockIn(b)' => EntriesIn(app', Done', b) = {}
    BY DEF WeightInv
  <2>2. Copied' = Copied /\ Place(b)' = Place(b) /\ EntriesIn(app', Done', b) = EntriesIn(app, Done, b)
    BY <1>1, <1>5, <2>1 DEF Copied, Place
  <2>3. Place(b0) \in Addresses
    BY <1>2, <1>3, <2>1, PlacesDiffer
  <2>4. CASE b = b0
    <3>1. EntriesIn(app, Done, b) = {}
      BY <1>2, <2>1, <2>4 DEF WeightInv, BlockIn
    <3>2. weight'[Place(b)] = 0
      BY <1>1, <1>3, <1>4, <2>3, <2>4
    <3>3. Cardinality({}) = 0
      BY FS_EmptySet
    <3>4. BlockIn(b)'
      BY <1>6, <2>4 DEF BlockIn
    <3>5. QED
      BY <1>3, <1>6, <2>2, <2>4, <3>1, <3>2, <3>3, <3>4
  <2>5. CASE b # b0
    <3>1. sassi_cfg_blocks'[b] = sassi_cfg_blocks[b] /\ (BlockIn(b)' <=> BlockIn(b))
      BY <1>6, <2>5 DEF BlockIn
    <3>2. BlockIn(b) => /\ b[1] \in Copied /\ sassi_cfg_blocks[b].ptr = Place(b)
                        /\ weight[Place(b)] = Cardinality(EntriesIn(app, Done, b))
      BY <2>1 DEF WeightInv
    <3>3. ~BlockIn(b) => EntriesIn(app, Done, b) = {}
      BY <2>1 DEF WeightInv
    <3>4. BlockIn(b) => Place(b) # Place(b0)
      BY <1>2, <1>3, <2>1, <2>5, <3>2, PlacesDiffer
    <3>5. BlockIn(b) => weight'[Place(b)] = weight[Place(b)]
      <4>1. weight' = [weight EXCEPT ![Place(b0)] = 0]
        BY <1>1, <1>3
      <4>2. BlockIn(b) => Place(b) \in Addresses
        BY <2>1, <3>2, PlacesDiffer
      <4>3. QED
        BY <1>4, <3>4, <4>1, <4>2
    <3>6. QED
      BY <2>2, <3>1, <3>2, <3>3, <3>5
  <2>6. QED
    BY <2>4, <2>5
<1>11. QED
  BY <1>1, <1>7, <1>9, <1>10, EntryFacts DEF EntryInv

\* A thread finds the block that it enters: it has entered its function.
LEMMA EnteredBefore ==
    ASSUME NEW t \in Agents, EntryBefore(t), More(t), Item(t).what = "block"
    PROVE  Item(t).of \in Blocks /\ BlockIn(Item(t).of)
<1> DEFINE c == Item(t).of
           s == app[hpc].grid[t]
<1>1. /\ HostTypeOK /\ HostInv /\ IsCfg /\ validData /\ EnteredInv
  BY EntryFacts DEF EntryBefore
<1>2. /\ phase = "kernel" /\ pc[t] <= Len(s) /\ Item(t) = s[pc[t]]
      /\ hpc \in Calls /\ app[hpc].op = "launch" /\ pc[t] \in Nat \ {0}
      /\ Len(s) \in Nat /\ DOMAIN s = 1..Len(s)
  BY <1>1, AppFacts DEF More, Stream, Item, HostInv, HostTypeOK
<1>3. c \in Blocks
  BY <1>1, ItemFacts, CfgItemFacts
<1>4. PICK f \in Functions : c \in {<<f, i>> : i \in 1..NumBlocks[f]}
  BY <1>3 DEF Blocks
<1>5. PICK i \in 1..NumBlocks[f] : c = <<f, i>>
  BY <1>4
<1>6. EntersFirst(s)
  <2>1. lib \in Libs /\ app \in AppsOf[lib] /\ lib = "cfg"
    BY <1>1 DEF HostTypeOK, IsCfg
  <2>2. hpc \in DOMAIN app
    BY <1>1, <1>2, AppFacts
  <2>3. QED
    BY <1>2, <2>1, <2>2, AppsAssumption
<1>7. pc[t] \in DOMAIN s /\ s[pc[t]].what = "block" /\ c = s[pc[t]].of
  BY <1>2
<1>8. PICK m \in 1..(pc[t] - 1) : s[m] = [what |-> "function", of |-> c[1]]
  BY <1>6, <1>7 DEF EntersFirst
<1> DEFINE x == <<hpc, t, m>>
<1>9. x[1] = hpc /\ x[2] = t /\ x[3] = m /\ x = <<x[1], x[2], x[3]>>
  OBVIOUS
<1>10. m \in DOMAIN s /\ m < pc[t]
  BY <1>2
<1>11. x \in Done
  <2>1. IsExecution(x)
    BY <1>2, <1>9, <1>10 DEF IsExecution
  <2>2. since <= hpc
    BY <1>1 DEF HostInv
  <2>3. QED
    BY <1>2, <1>9, <1>10, <2>1, <2>2, DoneIs
<1>12. ItemIn(app, x).what = "function" /\ ItemIn(app, x).of = f
  BY <1>5, <1>8, <1>9 DEF ItemIn
<1>13. f \in EnteredIn(app, Done)
  BY <1>11, <1>12 DEF EnteredIn
<1>14. BlockIn(<<f, i>>)
  BY <1>1, <1>13 DEF EnteredInv
<1>15. QED
  BY <1>3, <1>5, <1>14

LEMMA BlockEntryEntry ==
    ASSUME NEW t \in Agents, EntryBefore(t), BlockEntry(t)
    PROVE  EntryInv'
<1> DEFINE c == Item(t).of
<1>0. CfgTypeOK'
  BY EntryFacts, BlockEntryInv DEF CfgAfter
<1>1. /\ at[t] = "idle" /\ More(t) /\ Item(t).what = "block"
      /\ UNCHANGED <<at, bb, cPtr, sassi_mempool_cur, sassi_cfg, sassi_cfg_blocks>>
  BY DEF BlockEntry, CfgAt, Runs
<1>2. c \in Blocks /\ BlockIn(c)
  BY <1>1, EnteredBefore
<1>3. /\ weight' = [weight EXCEPT ![sassi_cfg_blocks[c].ptr] = @ + 1]
      /\ Advance(t) /\ failed' = failed
  BY <1>2 DEF BlockEntry, BlockIn
<1>4. WeightInv /\ IsCfg /\ validData /\ app' = app /\ IInv /\ ~Entering(t)
  BY <1>1, EntryFacts DEF EntryBefore, Entering
<1>5. /\ Done' = Done \cup {Now(t)} /\ Now(t) \notin Done
      /\ ItemIn(app, Now(t)).what = "block" /\ ItemIn(app, Now(t)).of = c
  <2>1. Done' = Done \cup {Now(t)}
    BY <1>1, <1>3, EntryFacts, DoneAdvances DEF EntryBefore
  <2>2. ItemOf(Now(t)) = Item(t) /\ Now(t) \notin Done
    BY <1>1, EntryFacts, NowIs
  <2>3. QED
    BY <1>1, <2>1, <2>2 DEF ItemOf, ItemIn
<1> DEFINE x == Now(t)
<1> HIDE DEF c, x
<1>6. /\ EnteredIn(app, Done') = EnteredIn(app, Done)
      /\ \A b : EntriesIn(app, Done', b) = EntriesIn(app, Done, b) \cup (IF c = b THEN {x} ELSE {})
  BY <1>5, OneMoreItem DEF x
<1>7. LockInv'
  <2>1. \A u \in Agents \ {t} : /\ Copying(u) => sassi_cfg'[Fn(u)].state = "locked"
                                /\ at[u] = "fill" => sassi_cfg_blocks'[Block(u)].state = "locked"
    BY <1>1, EntryFacts
  <2>2. at'[t] \notin {"record", "blocks"} /\ at'[t] # "fill"
    BY <1>1
  <2>3. QED
    BY <1>1, <1>3, <2>1, <2>2, EntryFacts, LockStep DEF EntryBefore
<1>8. EnteredInv'
  <2>1. at'[t] \notin {"register", "fill"}
    BY <1>1
  <2>2. QED
    BY <1>0, <1>1, <1>3, <1>4, <1>6, <2>1, EnteredStep
<1>9. WeightInv'
  <2> SUFFICES ASSUME NEW b \in Blocks
               PROVE  /\ BlockIn(b)' => /\ b[1] \in Copied'
                                        /\ sassi_cfg_blocks'[b].ptr = Place(b)'
                                        /\ weight'[Place(b)'] = Cardinality(EntriesIn(app', Done', b))
                      /\ ~BlockIn(b)' => EntriesIn(app', Done', b) = {}
    BY DEF WeightInv
  <2>1. Copied' = Copied /\ Place(b)' = Place(b) /\ (BlockIn(b)' <=> BlockIn(b))
        /\ sassi_cfg_blocks'[b] = sassi_cfg_blocks[b]
    BY <1>1 DEF Copied, Place, BlockIn
  <2>2. EntriesIn(app', Done', b) = EntriesIn(app, Done, b) \cup (IF c = b THEN {x} ELSE {})
    BY <1>4, <1>6
  <2>3. \A d \in Blocks : BlockIn(d) => /\ d[1] \in Copied /\ sassi_cfg_blocks[d].ptr = Place(d)
                                        /\ weight[Place(d)] = Cardinality(EntriesIn(app, Done, d))
                                        /\ Place(d) \in Addresses
    BY <1>4, PlacesDiffer DEF WeightInv
  <2>4. \A d \in Blocks : BlockIn(d) /\ d # c => Place(d) # Place(c)
    BY <1>2, <1>4, <2>3, PlacesDiffer
  <2>5. weight \in [Addresses -> Nat] /\ weight' = [weight EXCEPT ![Place(c)] = weight[Place(c)] + 1]
    BY <1>2, <1>3, <2>3, EntryFacts DEF CfgTypeOK
  <2>6. CASE b = c
    <3>1. weight'[Place(c)] = Cardinality(EntriesIn(app, Done, c)) + 1
      BY <1>2, <2>3, <2>5
    <3>2. IsFiniteSet(EntriesIn(app, Done, c))
      <4>1. IsFiniteSet(Done)
        BY DEF EntryBefore, CountsInv
      <4>2. EntriesIn(app, Done, c) \subseteq Done
        BY DEF EntriesIn
      <4>3. QED
        BY <4>1, <4>2, FS_Subset
    <3>3. x \notin EntriesIn(app, Done, c)
      BY <1>5 DEF EntriesIn, x
    <3>4. Cardinality(EntriesIn(app, Done, c) \cup {x}) = Cardinality(EntriesIn(app, Done, c)) + 1
      BY <3>2, <3>3, FS_AddElement
    <3>5. QED
      BY <1>2, <2>1, <2>2, <2>3, <2>6, <3>1, <3>4
  <2>7. CASE b # c
    <3>1. EntriesIn(app', Done', b) = EntriesIn(app, Done, b)
      BY <2>2, <2>7
    <3>2. BlockIn(b) => weight'[Place(b)] = weight[Place(b)]
      BY <2>3, <2>4, <2>5, <2>7
    <3>3. ~BlockIn(b) => EntriesIn(app, Done, b) = {}
      BY <1>4 DEF WeightInv
    <3>4. QED
      BY <2>1, <2>3, <3>1, <3>2, <3>3
  <2>8. QED
    BY <2>6, <2>7
<1>10. QED
  BY <1>3, <1>7, <1>8, <1>9, EntryFacts DEF EntryInv

LEMMA HostEntry ==
    ASSUME IInv, EntryInv, HostStep
    PROVE  EntryInv'
<1>1. HostTypeOK /\ HostInv /\ ThreadInv /\ WarpInv
  BY DEF IInv, TypeOK
<1>2. /\ app' = app /\ lib' = lib /\ (IsCfg' <=> IsCfg)
      /\ validData' => Done' = IF InitDue THEN {} ELSE Done
  BY <1>1, DoneOfHost DEF IsCfg
<1>3. \A t \in Agents : at[t] = "idle" /\ at'[t] = "idle"
  BY <1>1, HostStepQuiet
<1>4. failed' = failed
  BY <1>1, HostStepQuiet
<1>5. IsCfg /\ validData' =>
          IF InitDue THEN sassi_cfg' = EmptyPool.cfg /\ sassi_cfg_blocks' = EmptyPool.blocks
          ELSE validData /\ UNCHANGED <<sassi_cfg, sassi_cfg_blocks, weight>>
  <2>1. CASE Launch /\ IF IsCfg THEN CfgLaunch /\ UNCHANGED warpVars ELSE WarpLaunch /\ UNCHANGED cfgVars
    BY <2>1 DEF CfgLaunch, InitDue
  <2>2. CASE (Leave \/ Reset(Data) \/ Exit(Data)) /\ UNCHANGED <<cfgVars, warpVars>>
    <3>1. validData' => validData
      BY <2>2 DEF Leave, Reset, Exit
    <3>2. QED
      BY <2>2, <3>1 DEF InitDue, cfgVars
  <2>3. QED
    BY <2>1, <2>2 DEF HostStep
<1>6. \A t \in Agents : ~Copying(t)' /\ ~Entering(t)' /\ at'[t] # "fill"
  BY <1>3 DEF Copying, Entering
<1>7. LockInv'
  BY <1>6 DEF LockInv
<1>8. CASE IsCfg /\ validData' /\ InitDue
  <2>1. \A f \in Functions : sassi_cfg'[f].state # "valid"
    BY <1>5, <1>8, EmptyPoolTypes
  <2>2. \A b \in Blocks : sassi_cfg_blocks'[b].state # "valid"
    BY <1>5, <1>8 DEF EmptyPool
  <2>3. Copied' = {} /\ \A b \in Blocks : ~BlockIn(b)'
    BY <2>1, <2>2 DEF Copied, BlockIn
  <2>4. EnteredIn(app', Done') = {} /\ \A b : EntriesIn(app', Done', b) = {}
    BY <1>2, <1>8 DEF EnteredIn, EntriesIn
  <2>5. EnteredInv'
    BY <1>6, <2>3, <2>4 DEF EnteredInv
  <2>6. WeightInv'
    BY <2>3, <2>4 DEF WeightInv
  <2>7. QED
    BY <1>4, <1>7, <2>5, <2>6 DEF EntryInv
<1>9. CASE IsCfg /\ validData' /\ ~InitDue
  <2>1. /\ validData /\ UNCHANGED <<app, sassi_cfg, sassi_cfg_blocks, weight>> /\ Done' = Done
    BY <1>2, <1>5, <1>9
  <2>2. Copied' = Copied /\ \A b : (BlockIn(b)' <=> BlockIn(b)) /\ Place(b)' = Place(b)
    BY <2>1 DEF Copied, BlockIn, Place
  <2>3. EnteredIn(app', Done') = EnteredIn(app, Done) /\ \A b : EntriesIn(app', Done', b) = EntriesIn(app, Done, b)
    BY <2>1
  <2>4. EnteredInv'
    <3>1. \A t \in Agents : ~Entering(t)
      BY <1>3 DEF Entering
    <3>2. /\ \A f \in EnteredIn(app, Done) : sassi_cfg[f].state = "valid" /\ \A i \in 1..NumBlocks[f] : BlockIn(<<f, i>>)
          /\ \A f \in Copied : f \in EnteredIn(app, Done)
      BY <1>9, <2>1, <3>1 DEF EntryInv, EnteredInv
    <3>3. QED
      BY <1>6, <2>1, <2>2, <2>3, <3>2 DEF EnteredInv
  <2>5. WeightInv'
    <3>1. \A b \in Blocks :
            /\ BlockIn(b) => /\ b[1] \in Copied
                             /\ sassi_cfg_blocks[b].ptr = Place(b)
                             /\ weight[Place(b)] = Cardinality(EntriesIn(app, Done, b))
            /\ ~BlockIn(b) => EntriesIn(app, Done, b) = {}
      BY <1>9, <2>1 DEF EntryInv, WeightInv
    <3>2. QED
      BY <2>1, <2>2, <2>3, <3>1 DEF WeightInv
  <2>6. QED
    BY <1>4, <1>7, <2>4, <2>5 DEF EntryInv
<1>10. CASE ~(IsCfg /\ validData')
  BY <1>2, <1>4, <1>7, <1>10 DEF EntryInv, EnteredInv, WeightInv
<1>11. QED
  BY <1>8, <1>9, <1>10

\* What a dump of cfg has.
WeightsIn(a, calls, data) ==
    LET E == ExecutionsIn(a, calls) IN
    data = {<<b, Cardinality(EntriesIn(a, E, b))>> : b \in {c \in Blocks : c[1] \in EnteredIn(a, E)}}

LEMMA FileWeights ==
    WeightsAreEntries <=>
        failed # "entry" /\ (IsCfg => \A i \in DOMAIN file : WeightsIn(app, file[i].calls, file[i].data))
<1>1. ASSUME NEW calls
      PROVE  /\ EnteredFunctions(calls) = EnteredIn(app, ExecutionsIn(app, calls))
             /\ \A b : Entries(calls, b) = EntriesIn(app, ExecutionsIn(app, calls), b)
  BY DEF EnteredFunctions, Entries, EnteredIn, EntriesIn, Executions, ExecutionsIn, ItemOf, ItemIn
<1>2. QED
  BY <1>1 DEF WeightsAreEntries, WeightsIn

LEMMA DumpOfWeights ==
    ASSUME IInv, EntryInv, phase # "kernel", validData, IsCfg
    PROVE  WeightsIn(app, since..(hpc - 1), CfgData)
<1> DEFINE E == ExecutionsIn(app, since..(hpc - 1))
<1>0. HostTypeOK /\ HostInv /\ ThreadInv /\ EnteredInv /\ WeightInv
  BY DEF IInv, TypeOK, EntryInv
<1>1. Done = E
  BY <1>0, DoneIsOfCalls DEF Executions, ExecutionsIn
<1> HIDE DEF E
<1>2. \A t \in Agents : ~Entering(t)
  BY <1>0 DEF Entering, ThreadInv, ThreadOK, More
<1>3. \A c \in Blocks : c[1] \in Functions /\ c[2] \in 1..NumBlocks[c[1]] /\ c = <<c[1], c[2]>>
  BY DEF Blocks
<1>4. \A c \in Blocks : sassi_cfg[c[1]].state = "valid" <=> c[1] \in EnteredIn(app, E)
  BY <1>0, <1>1, <1>2, <1>3 DEF EnteredInv, Copied
<1>5. \A c \in Blocks : c[1] \in EnteredIn(app, E) => weight[Place(c)] = Cardinality(EntriesIn(app, E, c))
  <2>1. \A c \in Blocks : c[1] \in EnteredIn(app, E) => BlockIn(c)
    <3> SUFFICES ASSUME NEW c \in Blocks, c[1] \in EnteredIn(app, E) PROVE BlockIn(c)
      OBVIOUS
    <3>1. BlockIn(<<c[1], c[2]>>)
      BY <1>0, <1>1, <1>3 DEF EnteredInv
    <3>2. QED
      BY <1>3, <3>1
  <2>2. QED
    BY <1>0, <1>1, <2>1 DEF WeightInv
<1>6. CfgData = {<<b, weight[Place(b)]>> : b \in {c \in Blocks : sassi_cfg[c[1]].state = "valid"}}
  BY DEF CfgData, Place
<1>7. CfgData = {<<b, Cardinality(EntriesIn(app, E, b))>> : b \in {c \in Blocks : c[1] \in EnteredIn(app, E)}}
  BY <1>4, <1>5, <1>6
<1>8. QED
  BY <1>7 DEF WeightsIn, E

WeighingInv == EntryInv /\ (IsCfg => \A i \in DOMAIN file : WeightsIn(app, file[i].calls, file[i].data))

LEMMA WeighingInit == Init => WeighingInv
<1> SUFFICES ASSUME Init PROVE WeighingInv
  OBVIOUS
<1>1. ~validData /\ DOMAIN file = {} /\ failed = "none" /\ \A t \in Agents : at[t] = "idle"
  BY DEF Init, HostInit, CfgInit
<1>2. QED
  BY <1>1 DEF WeighingInv, EntryInv, LockInv, EnteredInv, WeightInv, Copying

LEMMA WeighingStep ==
    IInv /\ CountingInv /\ WeighingInv /\ [Next]_vars => WeighingInv'
<1> SUFFICES ASSUME IInv, CountingInv, WeighingInv, [Next]_vars PROVE WeighingInv'
  OBVIOUS
<1>0. HostInv /\ EntryInv /\ CountsInv /\ (IsCfg => \A i \in DOMAIN file : WeightsIn(app, file[i].calls, file[i].data))
  BY DEF IInv, WeighingInv, CountingInv
<1>1. CASE HostStep
  <2>1. app' = app /\ (IsCfg' <=> IsCfg)
    BY <1>1, HostWeighed DEF IsCfg
  <2>2. ASSUME IsCfg, NEW i \in DOMAIN file'
        PROVE  WeightsIn(app, file'[i].calls, file'[i].data)
    <3>1. CASE i \in DOMAIN file /\ file'[i] = file[i]
      BY <1>0, <2>2, <3>1
    <3>2. CASE phase # "kernel" /\ validData /\ file'[i] = [calls |-> since..(hpc - 1), data |-> Data]
      <4>1. file'[i].calls = since..(hpc - 1) /\ file'[i].data = CfgData
        BY <2>2, <3>2 DEF Data
      <4>2. QED
        BY <1>0, <2>2, <3>2, <4>1, DumpOfWeights
    <3>3. QED
      BY <1>0, <1>1, <3>1, <3>2, HostFile
  <2>3. EntryInv'
    BY <1>0, <1>1, HostEntry
  <2>4. QED
    BY <2>1, <2>2, <2>3 DEF WeighingInv
<1>2. CASE \E a \in Agents : DeviceStep(a)
  <2>1. PICK t \in Agents : DeviceStep(t)
    BY <1>2
  <2>2. UNCHANGED <<lib, app, hpc, phase, validData, since, file>> /\ (IsCfg' <=> IsCfg)
    BY <2>1 DEF DeviceStep, IsCfg
  <2>3. EntryInv'
    <3>1. CASE IsCfg /\ CfgStep(t)
      <4>1. validData
        <5>1. More(t)
          BY <3>1 DEF IInv, ThreadInv, ThreadOK, CfgStep, FindFunction, AllocateRecord, AllocateBlocks,
                      FindBlock, FillBlock, EndFunctionEntry, BlockEntry, CfgAt, Runs
        <5>2. QED
          BY <1>0, <5>1 DEF More, HostInv
      <4>2. EntryBefore(t)
        BY <1>0, <2>2, <3>1, <4>1 DEF EntryBefore
      <4>3. QED
        BY <3>1, <4>2, FindFunctionEntry, AllocateRecordEntry, AllocateBlocksEntry, FindBlockEntry,
           FillBlockEntry, EndFunctionEntryEntry, BlockEntryEntry DEF CfgStep
    <3>2. CASE ~IsCfg /\ UNCHANGED cfgVars
      <4>1. \A u \in Agents : at[u] = "idle"
        BY <3>2 DEF IInv, ThreadInv, ThreadOK
      <4>2. LockInv'
        BY <3>2, <4>1 DEF LockInv, Copying, cfgVars
      <4>3. QED
        BY <1>0, <2>2, <3>2, <4>2 DEF EntryInv, EnteredInv, WeightInv, cfgVars
    <3>3. QED
      BY <2>1, <3>1, <3>2 DEF DeviceStep
  <2>4. QED
    BY <1>0, <2>2, <2>3 DEF WeighingInv
<1>3. CASE UNCHANGED vars
  <2>1. /\ UNCHANGED <<lib, app, hpc, phase, validData, since, pc, file>>
        /\ UNCHANGED <<at, bb, cPtr, sassi_mempool_cur, sassi_cfg, sassi_cfg_blocks, weight, failed>>
    BY <1>3 DEF vars, hostVars, cfgVars
  <2>2. Done' = Done /\ (IsCfg' <=> IsCfg) /\ Copied' = Copied
    BY <2>1 DEF Done, Executions, Calls, IsCfg, Copied
  <2>3. \A t : Fn(t)' = Fn(t) /\ Block(t)' = Block(t) /\ (Copying(t)' <=> Copying(t)) /\ (Entering(t)' <=> Entering(t))
    BY <2>1 DEF Fn, Item, Stream, Block, Copying, Entering
  <2>4. \A b : (BlockIn(b)' <=> BlockIn(b)) /\ Place(b)' = Place(b)
    BY <2>1 DEF BlockIn, Place
  <2>5. LockInv'
    BY <1>0, <2>1, <2>3 DEF EntryInv, LockInv
  <2>6. EnteredInv'
    BY <1>0, <2>1, <2>2, <2>3, <2>4 DEF EntryInv, EnteredInv
  <2>7. WeightInv'
    BY <1>0, <2>1, <2>2, <2>4 DEF EntryInv, WeightInv
  <2>8. QED
    BY <1>0, <2>1, <2>2, <2>5, <2>6, <2>7 DEF WeighingInv, EntryInv
<1>4. QED
  BY <1>1, <1>2, <1>3 DEF Next, Terminated

\* The graph that cfg.cu draws has the functions that have been entered since the last
\* init and the number of entries of each of their blocks, however the threads that copy
\* and enter them interleave; and the assert(0) of sassi_basic_block_entry never fails.
THEOREM GraphsCountEntries == Spec => []WeightsAreEntries
<1>1. Init => CountingInv /\ WeighingInv
  BY CountingInit, WeighingInit
<1>2. IInv /\ CountingInv /\ WeighingInv /\ [Next]_vars => CountingInv' /\ WeighingInv'
  BY CountingStep, WeighingStep
<1>3. WeighingInv => WeightsAreEntries
  BY FileWeights DEF WeighingInv, EntryInv
<1>4. QED
  BY <1>1, <1>2, <1>3, HandlersInvariance, PTL DEF Spec
=============================================================================
