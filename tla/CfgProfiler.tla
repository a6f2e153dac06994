------------------------------ MODULE CfgProfiler ------------------------------
(***************************************************************************)
(* SASSI/instlibs/src/cfg.cu: on the entry of a function a thread copies   *)
(* its control flow graph into a memory pool, unless another has, and      *)
(* enters its blocks into a dictionary; on the entry of a block it finds   *)
(* it there and counts. Items are [what |-> "function", of |-> f] and      *)
(* [what |-> "block", of |-> <<f, i>>].                                    *)
(*                                                                         *)
(* A key of a dictionary is free, locked while the init lambda of its      *)
(* first user runs, or valid; a thread that finds it locked waits (see     *)
(* Dictionary, and there for the order of the stores).                     *)
(***************************************************************************)
EXTENDS HandlerHost

CONSTANTS NumBlocks,            \* per function: GetNumBlocks()
          POOLSIZE,
          sizeofCFG, sizeofBLOCK

Functions == DOMAIN NumBlocks
Blocks == UNION {{<<f, i>> : i \in 1..NumBlocks[f]} : f \in Functions}
Addresses == 0..(POOLSIZE - 1)

ASSUME PoolAssumption ==
    /\ NumBlocks \in [Functions -> Nat \ {0}]
    /\ {POOLSIZE, sizeofCFG, sizeofBLOCK} \subseteq Nat \ {0}

VARIABLES at, bb, cPtr,       \* per thread: its step and its locals
          sassi_mempool_cur,
          sassi_cfg, sassi_cfg_blocks,  \* the dictionaries
          weight,             \* in the pool: the counter of the block there
          failed              \* the assertion that failed, if any

cfgVars == <<at, bb, cPtr, sassi_mempool_cur, sassi_cfg, sassi_cfg_blocks, weight, failed>>

States == {"free", "locked", "valid"}

CfgTypeOK ==
    /\ at \in [Agents -> {"idle", "record", "blocks", "register", "fill"}]
    /\ bb \in [Agents -> Nat]
    /\ cPtr \in [Agents -> Addresses]
    /\ sassi_mempool_cur \in Nat
    /\ sassi_cfg \in [Functions -> [state : States, cfg : Addresses, blocks : Addresses]]
    /\ sassi_cfg_blocks \in [Blocks -> [state : States, ptr : Addresses]]
    /\ weight \in [Addresses -> Nat]
    /\ failed \in {"none", "pool", "entry"}

EmptyPool ==
    [cur |-> 0,
     cfg |-> [f \in Functions |-> [state |-> "free", cfg |-> 0, blocks |-> 0]],
     blocks |-> [b \in Blocks |-> [state |-> "free", ptr |-> 0]],
     weight |-> [p \in Addresses |-> 0]]

CfgInit ==
    /\ at = [t \in Agents |-> "idle"]
    /\ bb = [t \in Agents |-> 1]
    /\ cPtr = [t \in Agents |-> 0]
    /\ failed = "none"
    /\ sassi_mempool_cur = EmptyPool.cur /\ sassi_cfg = EmptyPool.cfg
    /\ sassi_cfg_blocks = EmptyPool.blocks /\ weight = EmptyPool.weight

\* sassi_init, when it is due.
CfgLaunch ==
    /\ IF InitDue
       THEN /\ sassi_mempool_cur' = EmptyPool.cur /\ sassi_cfg' = EmptyPool.cfg
            /\ sassi_cfg_blocks' = EmptyPool.blocks /\ weight' = EmptyPool.weight
       ELSE UNCHANGED <<sassi_mempool_cur, sassi_cfg, sassi_cfg_blocks, weight>>
    /\ UNCHANGED <<at, bb, cPtr, failed>>

Runs(t, what) == failed = "none" /\ More(t) /\ Item(t).what = what
CfgAt(t, step) == failed = "none" /\ at[t] = step
CfgGoTo(t, step) == at' = [at EXCEPT ![t] = step]
Fn(t) == Item(t).of
Block(t) == <<Fn(t), bb[t]>>

\* Mutant: the cursor is read and written, not added to atomically.
MallocLosingUpdates(sz) == sassi_mempool_cur' \in {sassi_mempool_cur, sassi_mempool_cur + sz}

\* simple_malloc's atomicAdd; what it returns is the old value of the cursor.
Malloc(sz) == sassi_mempool_cur' = sassi_mempool_cur + sz

\* Mutant: an array that ends beyond the pool is not refused.
FitsAlways(sz) == sassi_mempool_cur < POOLSIZE

\* assert((ptr + sz) <= POOLSIZE)
Fits(sz) == sassi_mempool_cur + sz <= POOLSIZE

\* Mutant: another thread that has copied the function is trusted to enter the
\* blocks.
FindFunctionOnly(t) ==
    /\ CfgAt(t, "idle") /\ Runs(t, "function")
    /\ bb' = [bb EXCEPT ![t] = 1]
    /\ \/ /\ sassi_cfg[Fn(t)].state = "free"
          /\ sassi_cfg' = [sassi_cfg EXCEPT ![Fn(t)].state = "locked"]
          /\ CfgGoTo(t, "record")
          /\ UNCHANGED pc
       \/ /\ sassi_cfg[Fn(t)].state = "valid"
          /\ Advance(t)
          /\ UNCHANGED <<at, sassi_cfg>>
    /\ UNCHANGED <<cPtr, sassi_mempool_cur, sassi_cfg_blocks, weight, failed>>

\* sassi_function_entry: getOrInit of the function.
FindFunction(t) ==
    /\ CfgAt(t, "idle") /\ Runs(t, "function")
    /\ bb' = [bb EXCEPT ![t] = 1]
    /\ \/ /\ sassi_cfg[Fn(t)].state = "free"
          /\ sassi_cfg' = [sassi_cfg EXCEPT ![Fn(t)].state = "locked"]
          /\ CfgGoTo(t, "record")
       \/ /\ sassi_cfg[Fn(t)].state = "valid"
          /\ CfgGoTo(t, "register")
          /\ UNCHANGED sassi_cfg
    /\ UNCHANGED <<pc, cPtr, sassi_mempool_cur, sassi_cfg_blocks, weight, failed>>

\* Its init lambda: space for the CFG, then for its blocks.
AllocateRecord(t) ==
    /\ CfgAt(t, "record")
    /\ Malloc(sizeofCFG)
    /\ IF Fits(sizeofCFG)
       THEN cPtr' = [cPtr EXCEPT ![t] = sassi_mempool_cur] /\ CfgGoTo(t, "blocks") /\ UNCHANGED failed
       ELSE failed' = "pool" /\ UNCHANGED <<at, cPtr>>
    /\ UNCHANGED <<pc, bb, sassi_cfg, sassi_cfg_blocks, weight>>

AllocateBlocks(t) ==
    LET sz == sizeofBLOCK * NumBlocks[Fn(t)] IN
    /\ CfgAt(t, "blocks")
    /\ Malloc(sz)
    /\ IF Fits(sz)
       THEN /\ sassi_cfg' = [sassi_cfg EXCEPT ![Fn(t)] =
                   [state |-> "valid", cfg |-> cPtr[t], blocks |-> sassi_mempool_cur]]
            /\ CfgGoTo(t, "register") /\ UNCHANGED failed
       ELSE failed' = "pool" /\ UNCHANGED <<at, sassi_cfg>>
    /\ UNCHANGED <<pc, bb, cPtr, sassi_cfg_blocks, weight>>

\* The loop over the blocks: getOrInit of the next.
FindBlock(t) ==
    /\ CfgAt(t, "register") /\ bb[t] <= NumBlocks[Fn(t)]
    /\ \/ /\ sassi_cfg_blocks[Block(t)].state = "free"
          /\ sassi_cfg_blocks' = [sassi_cfg_blocks EXCEPT ![Block(t)].state = "locked"]
          /\ CfgGoTo(t, "fill") /\ UNCHANGED bb
       \/ /\ sassi_cfg_blocks[Block(t)].state = "valid"
          /\ bb' = [bb EXCEPT ![t] = @ + 1]
          /\ UNCHANGED <<at, sassi_cfg_blocks>>
    /\ UNCHANGED <<pc, cPtr, sassi_mempool_cur, sassi_cfg, weight, failed>>

\* Its init lambda.
FillBlock(t) ==
    LET ptr == sassi_cfg[Fn(t)].blocks + sizeofBLOCK * (bb[t] - 1) IN
    /\ CfgAt(t, "fill")
    /\ sassi_cfg_blocks' = [sassi_cfg_blocks EXCEPT ![Block(t)] = [state |-> "valid", ptr |-> ptr]]
    /\ weight' = [weight EXCEPT ![ptr] = 0]
    /\ bb' = [bb EXCEPT ![t] = @ + 1]
    /\ CfgGoTo(t, "register")
    /\ UNCHANGED <<pc, cPtr, sassi_mempool_cur, sassi_cfg, failed>>

EndFunctionEntry(t) ==
    /\ CfgAt(t, "register") /\ bb[t] > NumBlocks[Fn(t)]
    /\ CfgGoTo(t, "idle")
    /\ Advance(t)
    /\ UNCHANGED <<bb, cPtr, sassi_mempool_cur, sassi_cfg, sassi_cfg_blocks, weight, failed>>

\* sassi_basic_block_entry: the init lambda of its getOrInit is assert(0).
BlockEntry(t) ==
    LET entry == sassi_cfg_blocks[Item(t).of] IN
    /\ CfgAt(t, "idle") /\ Runs(t, "block") /\ entry.state # "locked"
    /\ IF entry.state = "valid"
       THEN /\ weight' = [weight EXCEPT ![entry.ptr] = @ + 1]
            /\ Advance(t) /\ UNCHANGED failed
       ELSE failed' = "entry" /\ UNCHANGED <<pc, weight>>
    /\ UNCHANGED <<at, bb, cPtr, sassi_mempool_cur, sassi_cfg, sassi_cfg_blocks>>

CfgStep(t) ==
    \/ FindFunction(t) \/ AllocateRecord(t) \/ AllocateBlocks(t)
    \/ FindBlock(t) \/ FillBlock(t) \/ EndFunctionEntry(t) \/ BlockEntry(t)

\* sassi_finalize: the blocks of each function of the dictionary, with their weights.
CfgData ==
    {<<b, weight[sassi_cfg[b[1]].blocks + sizeofBLOCK * (b[2] - 1)]>> :
        b \in {c \in Blocks : sassi_cfg[c[1]].state = "valid"}}
=============================================================================
