-------------------------------- MODULE Profiler --------------------------------
(***************************************************************************)
(* err_injector/profiler.cu: the run that counts the executed instructions *)
(* of every launch. The callbacks are those of lazy_allocator, as for the  *)
(* injectors, but the launch count is taken when the kernel exits. The     *)
(* counters are on the device and shared by all threads; the handler is    *)
(* one atomicAdd after another, and nothing reads them before the exit.    *)
(***************************************************************************)
EXTENDS ThreadMachine, FiniteSets

CONSTANT KNames

\* The columns of a row: groups, categories, and what did not execute.
Columns == {"GPR", "STORE_OP", "LD_OP", "MISC_OP", "opWillNotExecute"}

VARIABLES app,
          hpc, phase, validData,  \* as in InjectorHost
          pc,          \* per thread: the next instruction
          todo,        \* per thread: the counters that its handler has still to add to
          counters,
          knameCount,
          file         \* the rows written since the file was opened

vars == <<app, hpc, phase, validData, pc, todo, counters, knameCount, file>>

Zero == [c \in Columns |-> 0]

Init ==
    /\ hpc = 1 /\ phase = "host" /\ validData = FALSE
    /\ pc = [t \in Threads |-> 1]
    /\ todo = [t \in Threads |-> <<>>]
    /\ counters = Zero
    /\ knameCount = [k \in KNames |-> -1]
    /\ file = <<>>

NextCallIs(op) == phase = "host" /\ hpc <= Len(app) /\ app[hpc].op = op

\* ENTER: the file is truncated at the first launch after a device reset.
LaunchKernel ==
    /\ NextCallIs("launch")
    /\ phase' = "kernel"
    /\ validData' = TRUE
    /\ file' = IF validData THEN file ELSE <<>>
    /\ counters' = Zero
    /\ pc' = [t \in Threads |-> 1]
    /\ UNCHANGED <<app, hpc, todo, knameCount>>

Finished(t) == pc[t] > Len(app[hpc].grid[t])

\* The counters that the handler adds to, in its order: profile_instructions and
\* get_op_category; of a predicated-off instruction only that it did not execute.
CountedAs(ins) ==
    IF ~ins.runs THEN <<"opWillNotExecute">>
    ELSE (IF InGroup(ins, "GPR") THEN <<"GPR">> ELSE <<>>)
           \o (IF InGroup(ins, "STORE_OP") THEN <<"STORE_OP">> ELSE <<>>)
           \o <<IF ins.op = "load" THEN "LD_OP" ELSE "MISC_OP">>

\* The thread comes to its next instruction.
EnterHandler(t) ==
    /\ phase = "kernel" /\ todo[t] = <<>> /\ ~Finished(t)
    /\ todo' = [todo EXCEPT ![t] = CountedAs(app[hpc].grid[t][pc[t]])]
    /\ pc' = [pc EXCEPT ![t] = @ + 1]
    /\ UNCHANGED <<app, hpc, phase, validData, counters, knameCount, file>>

\* Mutant: not an atomicAdd; another thread's addition may be lost.
AddLosingUpdates(t) ==
    /\ todo[t] # <<>>
    /\ counters' \in {counters, [counters EXCEPT ![Head(todo[t])] = @ + 1]}
    /\ todo' = [todo EXCEPT ![t] = Tail(@)]
    /\ UNCHANGED <<app, hpc, phase, validData, pc, knameCount, file>>

Add(t) ==
    /\ todo[t] # <<>>
    /\ counters' = [counters EXCEPT ![Head(todo[t])] = @ + 1]
    /\ todo' = [todo EXCEPT ![t] = Tail(@)]
    /\ UNCHANGED <<app, hpc, phase, validData, pc, knameCount, file>>

\* EXIT: count the launch and append its row.
ExitKernel ==
    LET k == app[hpc].kname IN
    /\ phase = "kernel" /\ \A t \in Threads : Finished(t) /\ todo[t] = <<>>
    /\ phase' = "host" /\ hpc' = hpc + 1
    /\ knameCount' = [knameCount EXCEPT ![k] = @ + 1]
    /\ file' = Append(file, [kname |-> k, kcount |-> knameCount'[k], counts |-> counters])
    /\ UNCHANGED <<app, validData, pc, todo, counters>>

\* The file is closed.
Reset ==
    /\ NextCallIs("reset")
    /\ validData' = FALSE
    /\ hpc' = hpc + 1
    /\ UNCHANGED <<app, phase, pc, todo, counters, knameCount, file>>

Exit ==
    /\ phase = "host" /\ hpc = Len(app) + 1
    /\ phase' = "exited"
    /\ UNCHANGED <<app, hpc, validData, pc, todo, counters, knameCount, file>>

Step ==
    \/ LaunchKernel \/ ExitKernel \/ Reset \/ Exit
    \/ \E t \in Threads : EnterHandler(t) \/ Add(t)
=============================================================================
