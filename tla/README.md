# A TLA+ model of SASSIFI

SASSIFI measures how GPU programs behave under hardware errors. It profiles an
application, draws dynamic instructions at random, runs the application once per
drawn site with one error injected there, and classifies what the run leaves
behind. A campaign is worth what its rows are worth: a row must be about one error,
at the place the list names, with the outcome the run really had. The modules here
state that for the code of this repository and check or prove it, or show where
the code does otherwise.

## The system

| part | state | operations | talks to |
|---|---|---|---|
| `SASSI/instlibs/utils/sassi_lazyallocator.hpp` | `valid_data` | `cupti_cb` around kernel launches and device resets | calls `sassi_init`, `onKernelEntry`, `onKernelExit` |
| `err_injector/injector.cu`, host part | `knameCount`, `inj_info` | `parse_params`, `onKernelEntry`, `onKernelExit` | shares `inj_info` (managed memory) with the device |
| `injector.cu`, `RF_INJECTIONS` | `injCounterAllInsts`, five flags of `inj_info` | `sassi_before_handler` in every thread, before every instruction | shared counter and flags |
| `injector.cu`, `INST_VALUE_INJECTIONS` | `injCountersInstType` | `sassi_after_handler`, vote of the warp | shared counter |
| `injector.cu`, `INST_ADDRESS_INJECTIONS` | flags, saved registers and memory | before and after handler | shared `inj_info` |
| `err_injector/profiler.cu` | counters per group and opcode, output file | before handler, kernel entry and exit | profile file, read by the scripts |
| `scripts/generate_injection_list.py`, `common_functions.py` | none | draw a number, map it to launch and index | profile file, list file |
| `scripts/run_injections.py` | `jobs_list`, process pool | submit the lines of the list | starts jobs; reads log directory |
| `scripts/run_one_injection.py` | time left, return code, kernel log length | start, poll, kill, classify, record | result file, kernel log shared by all jobs |
| `SASSI/instlibs/utils/sassi_dictionary.hpp` | open-addressing table in managed memory | `getOrInit` on the device; `clear`, `map` on the host | the profiling handlers |
| `SASSI/instlibs/src/*.cu` | counters in a dictionary | one handler per kind of instruction | dictionary, CUPTI wrapper, source mapper |
| `suites/example/include/log_helper.c` | iteration and error counts, log file | start and end of iterations, error counts, aborts | read by `run_injections.py` |

What is hard here:

* handlers of thousands of threads interleave on a few words of shared memory,
  most of them stored without atomics (`injector.cu:510-548`, `702-712`;
  `sassi_dictionary.hpp:93-133`);
* a warp spins on a slot that another has locked (`sassi_dictionary.hpp:116-119`), and
  the vote of a warp must come after each of its active threads has counted
  (`injector.cu:702-705`);
* launches of several kernels and device resets alternate, and one part of the
  host's state survives a reset while another does not;
* a number is counted on one side and looked up on the other: profiler, list,
  injector each have their own convention;
* the address mode fakes a wrong destination after the fact, in two handlers around
  the instruction, with what one of them saved (`injector.cu:557-691`);
* a run may hang, crash, or end while its job is about to kill it; parallel jobs read
  one kernel log, and all runs write to one log directory, of which the newest file
  is taken for the log of the run just submitted;
* threads copy the same control-flow graph into one pool and one dictionary at a time
  while others already count its blocks (`cfg.cu:86-162`).

What makes each part correct:

* *launch bookkeeping*: the handlers are armed in exactly the launch that the site
  names;
* *register-file injector*: one dynamic instruction is selected, and the single
  outcome (injected, overwritten, never read) is the truth about the first access
  to the register from there on; a site in range always gets an outcome;
* *value injector*: all errors of a run are in one dynamic warp instruction, in
  the threads that the bit-flip model means; every listed site is injected;
* *dictionary*: one entry per key, the entry found is the key's own, calls return:
  seen from outside, it is a counter per key;
* *job*: it always ends, and its row is true of the run: what is recorded as
  silent corruption showed no symptom, what is recorded as masked is clean;
* *address injector*: in every register and every word of memory the program sees
  what it would see if one instruction had written its result elsewhere;
* *profiler*: the file holds one exact row per launch, under the launch count that
  the injector will see;
* *campaign*: every usable line of the lists is run once, on a GPU of its own, but
  for an incomplete last batch; on one GPU a row is about the run of its line;
* *log*: a run is aborted for repeated or for too many errors, and for nothing else;
* *profiling libraries*: what they write is the truth about the executions since
  their last init.

## Modules

| module | models |
|---|---|
| `InjectorHost` | runtime calls of the application, `cupti_cb`, launch count and target test. Shared by all injectors |
| `RfInjector` (extends `InjectorHost`) | register-file injector, one action per access to shared state |
| `InstructionProfile`, `InjectionSites` | operators: the rows of the profile; the sites drawn from it |
| `RfCampaign` | composes `RfInjector` with profile and list |
| `BitFlip` | operators: the masks of all the injectors, words as sets of bits |
| `InstValueInjector` (extends `InjectorHost`), `InstValueCampaign` | value injector; the same composition |
| `ThreadMachine` | operators: what an instruction of a GPU thread computes, values as terms |
| `MisdirectedWrite` | abstract specification: a program in which one write goes astray |
| `InstAddressInjector` (extends `InjectorHost`) | address injector; implements `MisdirectedWrite` |
| `Profiler` | the profiling run, one action per atomic |
| `InstAddressCampaign` | composes `Profiler`, the list and `InstAddressInjector` |
| `KeyedCounters` | abstract specification: a counter per key |
| `Dictionary` | `getOrInit`, `clear`, `map`, with the branch profiler as user |
| `InjectionJob` | parallel jobs of `run_one_injection.py` with the runs they watch |
| `LogHelper` | the log of a benchmark run, and the directory that the runs share |
| `Campaign` (extends `LogHelper`) | `run_injections.py` with the runs of its jobs |
| `HandlerHost` | runtime calls and `cupti_cb` for the profiling libraries |
| `CfgProfiler`, `WarpProfilers` (extend `HandlerHost`) | `cfg.cu`; `ophist.cu`, `opcode.cu`, `memdiverge.cu`, `valueprof.cu` |
| `ProfilingHandlers` | an application with one of these libraries |
| `MC*` | instances for TLC |
| `InjectorHostProofs`, `RfInjectorProofs`, `InstValueInjectorProofs`, `InstAddressInjectorProofs`, `InjectionJobProofs`, `CampaignProofs`, `DictionaryProofs`, `ProfilingHandlersProofs` | theorems and their proofs |

Definitions keep the names of the source where they have one. Definitions that a
comment calls a *mutant* are wrong variants of the definition after the comment
block; no specification uses them. They record, for each property, a plausible bug
that the property detects.

### InjectorHost and RfInjector

An application (`app`) is a sequence of launches and resets; a launch carries its
kernel name and its *grid*, one instruction stream per thread. `cupti_cb`
synchronises the device at both sides of a launch, so that no two kernels overlap:
`EnterLaunch` is the callback at ENTER (init callback if due, then
`onKernelEntry`), `LeaveLaunch` the one at EXIT. `ResetDevice` is the callback at a
reset together with the reset. `hpc` is the host's position in the application;
`injCounterAllInsts` and the flags are the variables of `inj_info`.

In `RfInjector` the handler of a thread is cut at every access to shared state:
`CountCall` (the `atomicAdd`), `SelectThread`, `Arm`, the check
(`PassCheck`, `InjectRead`, `MarkWritten`), `Trap`. Between them any other thread
may run. An instruction is the set of registers it reads, the set it writes, and
whether its predicate lets it execute; the values in registers are left out.
`selections` and `injections` are the lines that the injector prints, and `verdict`
is the line of `onKernelExit`.

`DeviceFault` is external: a program with an error may be killed by the GPU at any
moment. The model does not let an error change the instruction stream; a changed
stream matters to the properties only in whether the kernel ends, which
`DeviceFault` and the fairness below leave open.

### InstValueInjector

A warp executes an instruction in its *active* threads together; `Count` is the
`atomicAdd` of one thread, `Vote` the `__any` of the warp, `Inject` the error in one
thread, `Advance` the next instruction. The build passes
`--sassi-iff-true-predicate-handler-call` for this mode (`common_env.mk:55,64`), so
the handler runs in executing threads only. `injCounter` is the counter of the
site's group; those of the other groups are not read. An operand is a GPR by its
index, CC, the predicates or memory; an effect is the kind of change and, for the flip
models, the set of bits it changes (`Flipped`), from `BitFlip`.
`MISC_OP` has no injection code and is never a group that counts.

### Dictionary

The steps of `getOrInit` are listed at the head of the module. `pending` holds the
stores of the slot's owner that other warps do not see yet; `InOrder = TRUE` makes
them visible in program order, `FALSE` in any order, which is what the code asks of
the device memory model: there is no fence before the store of `VALID`. `Hash` is
the source's arithmetic modulo `Word` and `NumSlots`. The branch handler elects one
lane per warp, so a process is a warp. Its `totalBranches` stands for its five
counters. `Finalize` writes the report once; the table of a later device context is
not modelled.

### InjectionJob

A job's steps are those of `run_one_injection_job`. Its run is external: it ends or
not, may log an Xid once, and has the outputs that the classification distinguishes
(`RunKinds`), among them that a log of differences is missing (`compared`). `dmesg` is
shared and a ring of `LogLines` lines: `ReadDmesg` sees what its length has grown by
since `Start`, by whichever job, and nothing once the oldest lines have been
dropped. Nothing makes a job wait for the driver, so an Xid may also come when the run
has ended or been killed, and after the job has read `dmesg`; `logged` records which.
Time is counted in fractions of a poll, since `to_th` is a float.

### InstAddressInjector, MisdirectedWrite, Profiler and InstAddressCampaign

A thread goes around each instruction through the before handler (`Pass`, `Count`,
`Select`, `Arm`, `Save`), the instruction (`Execute`, external) and the after handler
(`Misdirect` for a register; `ReadBack`, `WriteWrong`, `RestoreRight` for a store), cut
at the accesses to shared state. A value is a term: the instruction that computed it and
what that instruction had read, so that two registers are equal exactly when they
hold the same history. A wrong register number may name no register.

`MisdirectedWrite` is a program without handlers in which at most one instruction writes
a result to another register or another address. `ImplementsMisdirection` maps the
injector to it: the result of the selected register, put aside and delivered at the
first access, is seen in the wrong register from the instruction on (`SeenRegs`), and
the right address of a store as it was before from the moment the wrong one is written
(`SeenMem`).

Two premises. The before handler has to be called at every instruction; the build does
not ask for that, since `BEFORE_REG_MEM` (`common_env.mk:69`) is defined nowhere: as
built the mode saves nothing. And programs are free of races on what a kernel stores
(`RaceFreeAssumption`), because the restoration at `injector.cu:688` would undo another
thread's store.

`Profiler` counts as `profile_instructions` does, an action per `atomicAdd`. A device
reset closes its file; the next launch, if there is one, opens it again and truncates
it. `Profiled` says which launches that leaves: those of the last run of launches, also
when the application ends with a reset.
`InstAddressCampaign` runs it, draws a site from the file that it leaves and hands it to
the injector, so that the three numberings (profile, list, handler) meet in one model.

### LogHelper and Campaign

A run goes through `start_log_file` (`StatLog`, `CreateLog`), its iterations
(`EndIteration`, `CountErrors`) and `end_log_file`, and may end anywhere (`Crash`). The
name of its log is the second in which it started, so two runs may write one file;
the benchmarks ignore what `start_log_file` returns. `CountErrors` is `log_error_count`
in the build without `ERR_INJ`, which no makefile of the repository defines; with it
the first abort would be a line in the log (`log_helper.c:502-510`). `logs` holds the kinds of lines,
each with its writer. `MainStep` is `run_injections.py`: the lists and their lines, the
batch of one job (`os.system`) or of one per GPU (`pool.map`), the wait, `ls`, the row. A
job returns when its run is over, kills it, or leaves it alone (`InjectionJob`).

### HandlerHost, CfgProfiler, WarpProfilers and ProfilingHandlers

An agent is a thread (`cfg`) or a warp. `CfgProfiler` cuts the function entry at its
accesses to pool and dictionaries; a key of a dictionary is free, locked or valid,
which is what `Dictionary` refines. `WarpProfilers` executes memdiverge's loop as a
function of the lanes' lines and valueprof's `atomicAnd`s one by one. `Finalize` appends
(`memdiverge`, `opcode`) or truncates (the others), as their `fopen` says.

## What TLC checks

Runs that hold:

| run | states | question |
|---|---|---|
| `rf` | 81 280 | two threads, one register, kernels launched twice with another kernel or a reset in between, five access patterns (a predicated-off access before a write, both in one instruction, write then read, read then write, a read before a predicated-off access, so that a selected thread may never access the register), index 0 to 5 |
| `inst_value` | 222 999 | a warp of two threads and one of one, instructions with two GPRs and CC, a predicate, stores of a word and of a pair of words, partly active warps; every group kind and every model that the repository's README.md lists for it |
| `inst_address` | 120 822 | from the profile to the error: two threads, four registers, 16 addresses, both groups and both models, two destinations, a register that is read and written at its next access |
| `dictionary` | 84 856 | three warps, three slots, three attempts, three keys that probe in different orders, at most four calls |
| `job` | 584 101 | two jobs, the first with every outcome that the classification tells apart, the second hanging, logging an Xid, or plain; a kernel log of one line; thresholds of one poll and of one and a half |
| `campaign` | 357 249 | one GPU and two GPUs; lists with a short line, a line beyond the threshold, an odd number of usable lines; a run of three iterations; an empty and a used log directory |
| `handlers` | 44 933 | five libraries, two agents; a pool that is large enough for some of the functions; every predicate and every assignment of cache lines to three lanes; all pairs of two-lane values |

`rf`: `ArmedOnlyInNamedLaunch`, `AtMostOneSelection`, `OneOutcome`,
`OutcomeIsFirstAccess` and the liveness `SiteInRangeIsDecided`.
`inst_value`: `ErrorsAreOneInstruction`, `ThreadsOfTheModel`, `FlipsAreTheModel`,
`ListedSiteIsInjected` (across profile, list and injector) and `RunEndsOrIsInjected`.
`inst_address`: `SiteIsStruck`, `FlipIsTheModel`, `ProfileIsTheRows`, the refinement
`ImplementsMisdirection` and the liveness `DrawnSiteIsStruck`.
`dictionary`: `KeyHasOneEntry`, `SizeIsEntries`, `AddressesHold`, the liveness
`CallsReturn`, and `ImplementsCounters`, which is the specification of
`KeyedCounters` under `counts <- [k \in StoredKeys |-> total[SlotOf(k)]]`.
`job`: `SdcIsSilent`, `MaskedIsClean`, `DmesgRowHasANewXid`,
`WholeThresholdKills` and the liveness `JobsEnd`, with exactly one row.
`campaign`: `AbortMeansRepeat`, `RowIsOfItsRun`, `OnlyLastBatchIsLost`
and the liveness `CampaignEnds`.
`handlers`: `AllocationsAreDisjoint`, `WeightsAreEntries`, `CountsAreOfTheRun` and
`StatsAreOfTheValues`. Each run also has its module's type invariant.

Some of these hold under a premise that says where the code gives no more:

* `SdcIsSilent` says that no Xid of the run was in the kernel log when the job read it.
  It says nothing of Xids that come later, nor of a log that has dropped lines, where an
  Xid need not be in the part that the job reads;
* `MaskedIsClean` says nothing of Xids, which the code does not look at where no output
  differs (run `job_masked_xid`), and nothing of messages or outputs where the injector's
  line says that the register was overwritten or never read, where it does not look at
  them either (`run_one_injection.py:166-169`);
* `DmesgRowHasANewXid` does not say whose Xid it was: parallel jobs share the kernel log;
* `JobsEnd` (`Recorded`) excepts the runs with a failed kernel for which the
  classification reads a name that `common_params.py` does not define: their jobs die
  without a row;
* `CallsReturn` lets the assertion on the attempts stop the device for a call that met
  other keys at every attempt but the last (`RetriesMeanCollisions`): the assertion at
  `sassi_dictionary.hpp:135` is one attempt stricter than the loop;
* `RowIsOfItsRun` is about one GPU, while no run was left alone, and a run that got a log
  of its own: with several GPUs the row of a line is written when the line is
  collected, whatever ran;
* `FlipIsTheModel` excludes shifts of the 32-bit mask that reach its sign bit or beyond
  (`injector.cu:675`);
* `FlipsAreTheModel` excludes CC and the predicates under every model but
  `FLIP_SINGLE_BIT`, since `injector.cu:384` and `414` set them to zero, and for two bits
  the top bit of a stored word, which has no neighbour, and bit 63 of a 128-bit one;
* `DrawnSiteIsStruck` excludes index 0, which the handlers never reach (run
  `rf_listed_site`);
* `CountsAreOfTheRun` accounts for all launches of a run only in the libraries that
  append: the others keep what came after the last reset;
* valueprof does not ask `GetInstrWillExecute`, so that what it says is of the threads
  in the handler, which is how `StatsAreOfTheValues` states it.

Runs that end in a violation, each a statement of a document or comment that the
code does not keep:

| run | statement | what happens |
|---|---|---|
| `rf_listed_site` | a drawn instruction is mapped back to its place (`docs/tex/steps.tex:194`) | sites are numbered from 0, `injector.cu:511` counts from 1: index 0 is never reached |
| `zero_value` | one register in one thread (`README.md:51`) | `ZERO_VALUE` is treated as warp-wide (`injector.cu:704`) |
| `dictionary_unordered` | the entry's address is the key (`branch.cu:235`) | without ordered stores another warp sees `VALID` before the address |
| `job_timeout` | kill the job past the threshold (`run_one_injection.py:234`) | a fractional number of polls never equals 0: the run is left alone |
| `job_masked_xid` | masked: "No error symptom is observed" (`outcomes.tex:18`) | no difference is `MASKED_OTHER` even if an Xid is in the delta (`run_one_injection.py:186-190`) |

PROJECT.json lists further disagreements that no run shows, among them those behind
the premises above.

### Bounds

The bounds are the sizes of the instances, except `MaxCalls` in `Dictionary`, which
is a guard of `Call` because counters grow for ever otherwise.

* Two threads show every race on the flags: the selected thread and another. The
  applications put the target before and after another kernel or a reset, so that
  both values of `kcount` name a launch that the bookkeeping can miss. Indexes reach
  one past the longest grid.
* Two warps, one of them of two threads, give races inside and across warps, and a
  partly active warp in which the vote has a thread that never comes.
* Three slots with three attempts make a full table, a locked slot at the first,
  second and last probe, and a call that runs out of attempts. Key 1 probes slots
  0, 1, 1, key 3 only slot 0, key 5 slots 1, 0, 2. `Word` is 2^28 because of TLC's
  integers; the proofs are for any `Word`, hence for 2^64.
* `Thresholds` of 2 and 3 half polls are the smallest whole and fractional ones.
  The classification of a job depends on other jobs only through the kernel log,
  so two jobs suffice.
* Two-bit register numbers, four-bit addresses and a three-bit int keep every case of
  the shifts apart: in the register file and past it, at the sign bit, beyond the int.
  In `MCInstValue` registers and words have four bits, and a store of eight stands for
  the 128-bit one, in two halves.
* `MaxClock`, a guard of `Tick`, allows two runs in one second and in different
  ones. `MaxErrorsPerIter` of 1 with counts up to 2 gives both aborts. Two GPUs and three
  usable lines leave one line in `jobs_list`, collected in another list than the line
  before it.
* In `handlers` the pool has room for the functions `f` and `g` but not for `h` and
  another, so that an allocation fails, and with a function copied by one thread while the
  other enters it.

### Fairness

Spec has no fairness. FairSpec adds

* for the injectors and `InstAddressCampaign`, weak fairness of `Next` *as long as no error has been
  injected*: the device schedules resident threads and the host returns from its
  calls, but nothing is promised of a program that holds an error. One weak-fairness
  condition on the whole of `Next` is enough since instruction streams are finite;
* for `Dictionary`, weak fairness of each warp's step: resident warps are
  scheduled independently. The comment at `sassi_dictionary.hpp:113-115` says why a
  warp cannot wait for itself: one lane per warp calls, which is how `branch.cu`
  uses the table;
* for `InjectionJob`, weak fairness of each job's steps and none of the runs: a run
  may hang for ever, and the job must end all the same;
* for `Campaign`, weak fairness of `MainStep` and of each `JobReturns`, which is what
  `JobsEnd` promises; again none of the runs.

## What is proved

With TLAPS, for all values of the constants that satisfy the named assumptions of
the modules:

**RfInjectorProofs**: `TypeOK`, `ArmedOnlyInNamedLaunch`, `AtMostOneSelection`,
`OneOutcome` and `OutcomeIsFirstAccess` are invariants of `Spec`, for any sequence of
launches and resets and any number of threads.
None of the last three is inductive. What carries the argument is:

1. `InjectorHostProofs`: `CountsAgree`, that `knameCount[k]` is one less than the
   number of launches of `k` seen, whatever the resets; hence armed means named, and
   the named launch is unique. A step of the injector is a step of the host or leaves
   it alone (`HostStepInv`).
2. In the named launch the counter only grows and `curr` never exceeds it, and two
   threads that have counted have different values: only one can have got
   `injInstID`, and it is the only one that may be at *select* or *arm*.
3. Once armed, `injThreadID` is that thread, for good. Since the selected
   instruction it has executed no access to the register, as long as neither
   `errorInjected` nor `writeBeforeRead` is set. When one is set, the access is the
   first. When the kernel ends without one, there is none.

`IInv` is the conjunction of these facts; `Invariance` states it, and the other
theorems follow from it.

**DictionaryProofs**, all under `InOrder`: `TypeOK`, `KeyHasOneEntry`, `SizeIsEntries`,
`AddressesHold`, `RetriesMeanCollisions` and `ImplementsCounters`. The key fact is about slots *passed*: for a
call at attempt `n`, the slots of attempts below `n` are valid and hold other keys;
where the assertion on the attempts fails, those are all but the last.
Valid slots do not change until the table is cleared, which needs all warps idle. So
when a call locks a slot for its key, no slot of an earlier attempt holds the key;
a slot of a later attempt cannot hold it either, since the call that put it there
passed this slot first. Hence one entry per key, and `StoreValid` is an `Insert`,
`Count` an `Add`, `Clear` and `Finalize` the abstract `Clear` and `Report`, and every
other step a stutter. For the size: it and the warps that have stored `VALID` and not yet
added are together as many as the valid slots. Without `InOrder` the statement is false, as the run
`dictionary_unordered` shows.

**InjectionJobProofs**: `TypeOK`, `SdcIsSilent`, `MaskedIsClean`, `DmesgRowHasANewXid`,
`EveryJobIsRecorded`, `WholeThresholdKills`, and that no job has two rows. The invariant says for each place of a job what that place
means: before the poll loop ends the run has had no end that the job did not see;
`ReadDmesg` has seen an Xid of its run that was logged in time, unless the ring has
dropped lines since `Start`; a job that has heard of one has heard of a new one, since the
log holds no more lines than there were Xids (`HeardInv`); and a time left that is a whole number of polls stays one, so that it meets 0.

**InstValueInjectorProofs**: `TypeOK`, `ErrorsAreOneInstruction`, `ThreadsOfTheModel`,
`FlipsAreTheModel`. Calls have different numbers, so at most one thread holds `iid`
(point 2 above), and while it does, its warp cannot leave the instruction: a thread
that injects because of the vote is in the same execution of the same warp. The
errors are functions of that instruction and of the site. The bits are those of the site's model, apart from the exceptions above:
`EffectOfModel` gives the effect that each model has on each kind of destination, and the
masks are those of `BitFlip`, which have the lemmas on powers and neighbours that this needs.

The same module proves `ListedSiteIsInjected`, which relates the host's list to what the
device counts. `ListInv` has three parts: `injCounter` is the number of calls made so far
in the target launch (`CalledInv`); once it has passed `iid`, there is an error, or the
thread that met `iid` still waits to vote or to inject (`PassedInv`); and a launch of the
listed kernel that ended with more than `iid` calls left an error or an abort
(`EndedInv`). That a listed line is a call of the launch it names is `ListedMeans`: the
profile's rows are sizes of sets of calls, `Sums` gives where each row starts, and the
line lies within the row that `SiteInfo` finds. `Sums` is a recursive function, and what
it returns is shown by the least row for which it would fail (`NaturalsAreIn`).

**InstAddressInjectorProofs**: `TypeOK`, `SiteIsStruck`, `FlipIsTheModel` and the
refinement `ImplementsMisdirection`. The first three follow the life of a selection:
one thread counts to `iid`, selects, arms, and from then on is the thread in `inj_info`;
what it has struck is what it had selected, in the launch that
`InjectorHostProofs` gives. The refinement needs more: `SavedInv`, that a thread
which is about to overwrite a register or a word has its content saved, and
`PlaceInv`, that a result put aside is in the wrong register as every instruction sees
it. Then each step maps:

| injector | `MisdirectedWrite` |
|---|---|
| `Execute` of an instruction that is not selected | `Execute` |
| `Execute` of the selected instruction whose register is put aside | `StrikeRegister` |
| `Execute` of the selected store | a stutter, until |
| `WriteWrong` | `StrikeStore` |
| `LaunchKernel`, `ExitKernel`, `Reset`, `Exit`, `DeviceFault` | `Launch`, `End`, `Kill`, `Wipe` or a stutter |
| every other step of a handler | a stutter |

That `RestoreRight` is a stutter is where race freedom is used: the word that it
puts back was seen by no other thread in between.

The module also proves `ProfileIsTheRows`, of `InstAddressCampaign`. Each execution of an
instruction adds at most once to a counter (`CountedOnce`), and what a thread has still
to add is for the instruction before its next (`TodoInv`); so a counter is the number of
executions of its kind that a thread has behind it, without the one it still owes
(`Added`), and when the kernel exits that is all of them. `FileInv` names the two calls
between which the file's launches are; at the exit they are those that `Profiled`
chooses, because no other calls fit. The number in a row is the count of `EndedInv`,
the one that `CountsAgree` gives for the injector.

**CampaignProofs**: `TypeOK`, `OneJobPerDevice`, `AbortMeansRepeat`, `RowIsOfItsRun` and
`OnlyLastBatchIsLost`.
A line that a job runs is one that `main` has passed, and lines waiting in the batch are
ahead of those that run; two lines of a batch have different devices, because the
device is the place in the batch and a batch is emptied before the next. For the
row: on one GPU, and as long as no run was left alone, at most one run is alive
(`AloneInv`), so that every log but its own is older. For the aborts: what
`log_error_count` remembers of the last iteration with errors is about an earlier
iteration of the same run (`CountInv`). For the batches (`RowsInv`): the lines taken so
far, which are those of the rows and the one submitted last, are in order the usable
lines up to the current position (`OrderInv`); the collected jobs are the last of them
and those before, a multiple of the batch, have been launched (`BatchInv`).

**ProfilingHandlersProofs**: `TypeOK`, `AllocationsAreDisjoint`, `WeightsAreEntries`,
`CountsAreOfTheRun` and `StatsAreOfTheValues`, for any applications, any number of
threads, any graphs and any pool. A thread that has its record but not
yet its array is in neither dictionary's valid entries, so the invariant is about
`Used`: the records and arrays of copied functions *and* the records of the threads
between the two allocations. Everything in `Used` ends at or below the cursor and in
the pool; what is handed out next begins at the cursor. A thread that enters blocks
is at a copied function and at one of its blocks, so that the address it clears is in
the function's array. For the warp profilers, the type invariant includes that the
destination of every atomic that a warp has still to execute is an operand of the
`SASSOp` in the table, which the first warp to come made for the instruction.

What is counted is related to a set of executions that grows with the steps: `Done`,
those that agents have behind them since the last init. When a kernel ends it is the
set of executions of the launches that a dump names (`DoneIsOfCalls`), which is how a
dump comes to have what the property says.

* `GraphsCountEntries` (cfg): a function in `Done` is copied and all its blocks are in
  the dictionary, so that a thread, which enters a function before its blocks, finds
  them; a block in the dictionary has its counter at its place in the array, the
  places of different blocks differ because the pieces of the pool do, and the counter
  is the number of its entries in `Done`. A block that is not there has none, so that
  clearing its counter loses nothing, and the keys that init lambdas hold are each held
  by one thread (`LockInv`).
* `DumpsCountTheRun` (ophist, opcode, memdiverge): the counter of a key is the number of
  executions in `Done`, or of their threads, that count under it. For memdiverge this
  needs `RoundsAreLines`: the number of rounds of its loop is the number of distinct
  lines. `Rounds` is recursive; the proof takes the smallest number of lanes for
  which it fails (`LeastNatural`).
* `PrintedStatsAreTrue` (valueprof): while a warp is between its `atomicAnd`s, each of the
  three records of each destination is that of `Done` and of those current executions
  whose `atomicAnd` on it is over, a different set for each (`Seen`).

### Assumptions of the proofs

Each is an `ASSUME` of the module named, so that TLC evaluates it on the instances.

* Counts are natural numbers and bounds positive where the code divides or indexes by
  them (`MaxDsts`, `RegBits`, `THRESHOLD_JOBS`, `MaxClock`, the sizes of `CfgProfiler`).
  `NoRun` is not a run.
* `InstValueCampaign`: a grid is finite (`FiniteAssumption`); the sizes of sets of calls
  are counts only then.
* `InstValueInjector`: a site's model is one that `scripts/specific_params.py` lists for
  its group (`Supported`).
* `ThreadMachine`: a store has no destination register. Atomics, which both store and
  return a value, are left out, as the group `STORE_OP` leaves them out.
* `InstAddressInjector`: `RaceFreeAssumption`, for the refinement only.
* `ProfilingHandlers`, `AppsAssumption`: streams are finite; the items of `cfg` are
  functions and blocks of its graph, and a thread enters a function before its blocks
  (`SASSI/example/Makefile:55` has both the entries of functions and those of blocks
  instrumented, and control reaches a block through its function's entry); lanes are
  numbers; and an instruction has the same number of destinations whenever it is
  executed.
* `Dictionary`: `InOrder`, stated in each theorem.

**Only model-checked**: all liveness, which is beyond the proof system used. Every
invariant and action property of the passing runs has a theorem. Three invariants have
one without being in a run: `OneJobPerDevice`, and `EveryJobIsRecorded` and
`RetriesMeanCollisions`, which `JobsEnd` and `CallsReturn` contain. The induction theorems
of the library cannot be used; where a recursion is a function of the model, as `Rounds`
and `Sums`, the principle of the least number takes their place, and where the order is
all that matters, as in `OnlyLastBatchIsLost`, the property says so without a recursion.

## The plan

Done, in this order: launch bookkeeping and register-file mode, which the other modes
share; the value mode and the list; the dictionary; the job; the address mode with the
profiler; the campaign with the logs; the profiling libraries. Proofs followed the same
order.

What is left to TLC is liveness: `SiteInRangeIsDecided`, `RunEndsOrIsInjected`,
`DrawnSiteIsStruck`, `CallsReturn`, `JobsEnd` and `CampaignEnds`.

## Not modelled

* The benchmarks of `suites/example` are the subjects of the experiment: vendored
  applications, by far the largest part of the repository (some 118 000 of its 127 000
  lines of implementation). The tool itself, with the log helper, is about 9 300 lines;
  the share of the repository that these modules cover is small for that reason and
  cannot be otherwise.
* Of the tool: `sassi_cuptiwrapper.hpp` and `sassi_srcmap.hpp` (an older form of the
  callbacks, and a table of source lines), `ophist_fermi.cu` and `stubs.cu`,
  `sassi_managed.hpp` and `sassi_intrinsics.h` (one CUDA call or instruction each),
  `parse_results.py` and `process_kernel_regcount.py` (sequential text processing; the rows
  the former drops are in the findings), build and driver scripts (straight-line).
* `SASSI/instlibs/src/err_injector` is a copy of `err_injector` and is covered by it.
  SASSI itself, the compiler pass, is in the repository only as an interface.
* The profiling libraries other than `branch.cu` do not compile against the present
  `sassi_lazyallocator.hpp` (`device_reset_reason`); they are modelled with the order of
  callbacks that it has.
* Within modelled parts: the value that `RANDOM_VALUE` writes; the bits of the
  register-file mode; the width of a store in the address mode; the detail lines and
  the configuration file of the log; the text of profile, list, rows and reports.
