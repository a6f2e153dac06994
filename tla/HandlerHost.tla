------------------------------ MODULE HandlerHost ------------------------------
(***************************************************************************)
(* The host side of an application linked with one of the profiling        *)
(* libraries of SASSI/instlibs/src: its launches and device resets, and    *)
(* what lazy_allocator does around them (as in InjectorHost, where names   *)
(* of kernels matter). A launch runs a stream of items in each agent, the  *)
(* threads or the warps of its grid; the library says what an item is.     *)
(***************************************************************************)
EXTENDS Integers, Sequences, FiniteSets

CONSTANTS Agents,
          Libs,    \* the libraries considered
          AppsOf   \* per library: the applications considered

VARIABLES lib, app,
          hpc, phase,  \* the next (or current) runtime call, and where the process is
          validData,   \* lazy_allocator::valid_data
          since,       \* the first launch after the last init (history)
          pc,          \* per agent: its next item
          file         \* the dumps in the results file, each with the calls it is of

hostVars == <<lib, app, hpc, phase, validData, since, pc, file>>

Calls == 1..Len(app)

HostTypeOK ==
    /\ lib \in Libs /\ app \in AppsOf[lib]
    /\ hpc \in 1..(Len(app) + 1)
    /\ phase \in {"host", "kernel", "exited"}
    /\ validData \in BOOLEAN
    /\ since \in 0..Len(app)
    /\ pc \in [Agents -> Nat \ {0}]
    /\ \A i \in DOMAIN file : file[i].calls \subseteq Calls

HostInit ==
    /\ lib \in Libs /\ app \in AppsOf[lib]
    /\ hpc = 1 /\ phase = "host" /\ validData = FALSE /\ since = 0
    /\ pc = [a \in Agents |-> 1]
    /\ file = <<>>

NextCallIs(op) == phase = "host" /\ hpc <= Len(app) /\ app[hpc].op = op

\* ENTER of a launch; the init callback runs first when it is due.
InitDue == ~validData

Launch ==
    /\ NextCallIs("launch")
    /\ phase' = "kernel"
    /\ validData' = TRUE
    /\ since' = IF InitDue THEN hpc ELSE since
    /\ pc' = [a \in Agents |-> 1]
    /\ UNCHANGED <<lib, app, hpc, file>>

Stream(a) == app[hpc].grid[a]
More(a) == phase = "kernel" /\ pc[a] <= Len(Stream(a))
Item(a) == Stream(a)[pc[a]]
Advance(a) == pc' = [pc EXCEPT ![a] = @ + 1]

\* EXIT of a launch.
Leave ==
    /\ phase = "kernel" /\ \A a \in Agents : ~More(a)
    /\ phase' = "host" /\ hpc' = hpc + 1
    /\ UNCHANGED <<lib, app, validData, since, pc, file>>

\* memdiverge.cu and opcode.cu open the results file to append, the others to write.
Appends == lib \in {"memdiverge", "opcode"}

\* The finalize callback, before a reset and at exit, if there is valid data.
Finalize(data) ==
    file' = IF ~validData THEN file
            ELSE Append(IF Appends THEN file ELSE <<>>, [calls |-> since..(hpc - 1), data |-> data])

Reset(data) ==
    /\ NextCallIs("reset")
    /\ Finalize(data)
    /\ validData' = FALSE /\ hpc' = hpc + 1
    /\ UNCHANGED <<lib, app, phase, since, pc>>

Exit(data) ==
    /\ phase = "host" /\ hpc = Len(app) + 1
    /\ Finalize(data)
    /\ phase' = "exited"
    /\ UNCHANGED <<lib, app, hpc, validData, since, pc>>

\* The items that the calls execute, each with the call and the agent.
Executions(calls) ==
    UNION {{<<i, a, n>> : n \in DOMAIN app[i].grid[a]} :
             i \in {c \in calls : app[c].op = "launch"}, a \in Agents}
ItemOf(x) == app[x[1]].grid[x[2]][x[3]]
=============================================================================
