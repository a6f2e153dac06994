------------------------------ MODULE Dictionary ------------------------------
(***************************************************************************)
(* SASSI/instlibs/utils/sassi_dictionary.hpp, the open-addressing table    *)
(* that the profiling handlers fill on the device, with the branch profiler *)
(* (SASSI/instlibs/src/branch.cu) as its user: one thread of each warp     *)
(* calls getOrInit with the address of a branch and increases the counter  *)
(* it gets; the host clears the table or writes it out between kernels.    *)
(*                                                                         *)
(* A call probes Hash(key, 1), Hash(key, 2), ...; each attempt is          *)
(*   cas -> fill -> size -> check     the slot was free                    *)
(*   cas -> [spin ->] compare -> ...  the slot was taken                   *)
(* and the steps of different warps interleave. The thread that fills a    *)
(* slot has three stores to make: the key, the value, and the VALID that   *)
(* unlocks the slot. No fence separates them; InOrder says whether they    *)
(* reach the other warps in program order.                                 *)
(***************************************************************************)
EXTENDS Integers, FiniteSets

CONSTANTS Warps,       \* the warps of the running kernels
          Keys,        \* addresses of branches
          NumSlots,    \* m_slots
          MaxRetries,  \* m_maxRetries
          Word,        \* the number of values of a uint64_t
          InOrder,     \* stores become visible in program order
          MaxCalls     \* bound: handler calls in a behaviour

ASSUME KeysAssumption == Keys \subseteq Nat \ {0}
ASSUME SizesAssumption == NumSlots \in Nat \ {0} /\ MaxRetries \in Nat \ {0} /\ Word \in Nat \ {0}
ASSUME InOrderAssumption == InOrder \in BOOLEAN
ASSUME MaxCallsAssumption == MaxCalls \in Nat

Slots == 0..(NumSlots - 1)

VARIABLES metadata, key,    \* m_keytable
          address, total,   \* m_valtable: two fields of a BranchCounter
          size,             \* m_size
          at, want, attempts, pending,  \* per warp: step, key, attempts, stores not visible yet
          calls,            \* handler calls so far, for MaxCalls
          failed,           \* the assertion that failed, if any
          report, finished  \* sassi-branch.txt

table == <<metadata, key, address, total, size>>
warpVars == <<at, want, attempts, pending>>
vars == <<table, warpVars, calls, failed, report, finished>>

Stores == {"key", "value", "valid"}
Steps == {"idle", "cas", "spin", "fill", "size", "compare", "check", "have"}

\* unsigned h = (h1 + attempts * h2) % m_slots
Hash(k, n) ==
    LET h1 == (k * 1076279) % Word
        h2 == (k * 99809343 + 1) % Word
    IN  ((h1 + n * h2) % Word) % NumSlots

Probe(w) == Hash(want[w], attempts[w])

TypeOK ==
    /\ metadata \in [Slots -> {"UNLOCKED", "LOCKED", "VALID"}]
    /\ key \in [Slots -> Keys \cup {0}]
    /\ address \in [Slots -> Keys \cup {0}]
    /\ total \in [Slots -> Nat]
    /\ size \in Nat
    /\ at \in [Warps -> Steps]
    /\ want \in [Warps -> Keys \cup {0}]
    /\ attempts \in [Warps -> 1..(MaxRetries + 1)]
    /\ pending \in [Warps -> SUBSET Stores]
    /\ calls \in 0..MaxCalls
    /\ failed \in {"none", "retries", "address"}
    /\ report \subseteq Keys \X Nat
    /\ finished \in BOOLEAN

Empty == [s \in Slots |-> 0]

Init ==
    /\ metadata = [s \in Slots |-> "UNLOCKED"] /\ key = Empty
    /\ address = Empty /\ total = Empty
    /\ size = 0
    /\ at = [w \in Warps |-> "idle"]
    /\ want = [w \in Warps |-> 0]
    /\ attempts = [w \in Warps |-> 1]
    /\ pending = [w \in Warps |-> {}]
    /\ calls = 0
    /\ failed = "none"
    /\ report = {} /\ finished = FALSE

Alive == failed = "none" /\ ~finished
In(w, step) == Alive /\ at[w] = step
GoTo(w, step) == at' = [at EXCEPT ![w] = step]
Valid == {s \in Slots : metadata[s] = "VALID"}
Quiet == \A w \in Warps : at[w] = "idle"

-----------------------------------------------------------------------------
(* getOrInit, in warp w.                                                   *)

\* The handler is called before a branch at address k.
Call(w, k) ==
    /\ In(w, "idle") /\ calls < MaxCalls
    /\ want' = [want EXCEPT ![w] = k]
    /\ calls' = calls + 1
    /\ GoTo(w, "cas")
    /\ UNCHANGED <<table, attempts, pending, failed, report, finished>>

\* atomicCAS found the slot free and locked it.
Lock(w) ==
    /\ In(w, "cas") /\ metadata[Probe(w)] = "UNLOCKED"
    /\ metadata' = [metadata EXCEPT ![Probe(w)] = "LOCKED"]
    /\ pending' = [pending EXCEPT ![w] = Stores]
    /\ GoTo(w, "fill")
    /\ UNCHANGED <<key, address, total, size, want, attempts, calls, failed, report, finished>>

\* The stores of the thread that locked the slot. StoreValue is the lambda init.
StoreKey(w) ==
    /\ In(w, "fill") /\ "key" \in pending[w]
    /\ key' = [key EXCEPT ![Probe(w)] = want[w]]
    /\ pending' = [pending EXCEPT ![w] = @ \ {"key"}]
    /\ UNCHANGED <<metadata, address, total, size, at, want, attempts, calls, failed, report, finished>>

StoreValue(w) ==
    /\ In(w, "fill") /\ "value" \in pending[w] /\ (InOrder => "key" \notin pending[w])
    /\ address' = [address EXCEPT ![Probe(w)] = want[w]]
    /\ pending' = [pending EXCEPT ![w] = @ \ {"value"}]
    /\ UNCHANGED <<metadata, key, total, size, at, want, attempts, calls, failed, report, finished>>

\* Mutant: the slot is never unlocked.
StoreValidForgotten(w) ==
    /\ In(w, "fill") /\ "valid" \in pending[w] /\ (InOrder => pending[w] = {"valid"})
    /\ pending' = [pending EXCEPT ![w] = @ \ {"valid"}]
    /\ UNCHANGED <<metadata, key, address, total, size, at, want, attempts, calls, failed, report, finished>>

\* Mutant: VALID is stored before init is called.
StoreValidEarly(w) ==
    /\ In(w, "fill") /\ "valid" \in pending[w] /\ (InOrder => "key" \notin pending[w])
    /\ metadata' = [metadata EXCEPT ![Probe(w)] = "VALID"]
    /\ pending' = [pending EXCEPT ![w] = @ \ {"valid"}]
    /\ UNCHANGED <<key, address, total, size, at, want, attempts, calls, failed, report, finished>>

StoreValid(w) ==
    /\ In(w, "fill") /\ "valid" \in pending[w] /\ (InOrder => pending[w] = {"valid"})
    /\ metadata' = [metadata EXCEPT ![Probe(w)] = "VALID"]
    /\ pending' = [pending EXCEPT ![w] = @ \ {"valid"}]
    /\ UNCHANGED <<key, address, total, size, at, want, attempts, calls, failed, report, finished>>

\* Mutant: m_size++ instead of an atomicAdd: an update is lost when two slots
\* are filled at a time.
AddSizeLosingUpdates(w) ==
    /\ In(w, "fill") /\ pending[w] = {}
    /\ size' \in {size + 1} \cup (IF \E v \in Warps \ {w} : at[v] = "fill" THEN {size} ELSE {})
    /\ GoTo(w, "check")
    /\ UNCHANGED <<metadata, key, address, total, want, attempts, pending, calls, failed, report, finished>>

\* atomicAdd(&m_size, 1) and the fence that waits for every store.
AddSize(w) ==
    /\ In(w, "fill") /\ pending[w] = {}
    /\ size' = size + 1
    /\ GoTo(w, "check")
    /\ UNCHANGED <<metadata, key, address, total, want, attempts, pending, calls, failed, report, finished>>

\* Mutant: a locked slot is passed over, as a taken one.
WaitNot(w) ==
    /\ In(w, "cas") /\ metadata[Probe(w)] = "LOCKED"
    /\ attempts' = [attempts EXCEPT ![w] = @ + 1]
    /\ GoTo(w, IF attempts[w] < MaxRetries THEN "cas" ELSE "check")
    /\ UNCHANGED <<table, want, pending, calls, failed, report, finished>>

\* atomicCAS found the slot locked: the thread spins until it is not.
Wait(w) ==
    /\ In(w, "cas") /\ metadata[Probe(w)] = "LOCKED"
    /\ GoTo(w, "spin")
    /\ UNCHANGED <<table, want, attempts, pending, calls, failed, report, finished>>

\* atomicCAS, or the load of the spin, found the slot valid.
SeeValid(w) ==
    /\ In(w, "cas") \/ In(w, "spin")
    /\ metadata[Probe(w)] = "VALID"
    /\ GoTo(w, "compare")
    /\ UNCHANGED <<table, want, attempts, pending, calls, failed, report, finished>>

Found(w) ==
    /\ In(w, "compare") /\ key[Probe(w)] = want[w]
    /\ GoTo(w, "check")
    /\ UNCHANGED <<table, want, attempts, pending, calls, failed, report, finished>>

\* Mutant: the loop is not bounded.
RehashForEver(w) ==
    /\ In(w, "compare") /\ key[Probe(w)] # want[w]
    /\ attempts' = [attempts EXCEPT ![w] = @ + 1]
    /\ GoTo(w, "cas")
    /\ UNCHANGED <<table, want, pending, calls, failed, report, finished>>

Rehash(w) ==
    /\ In(w, "compare") /\ key[Probe(w)] # want[w]
    /\ attempts' = [attempts EXCEPT ![w] = @ + 1]
    /\ GoTo(w, IF attempts[w] < MaxRetries THEN "cas" ELSE "check")
    /\ UNCHANGED <<table, want, pending, calls, failed, report, finished>>

\* assert(attempts < m_maxRetries). A slot found or filled by the last attempt
\* fails it as well as no slot at all.
AssertAttempts(w) ==
    /\ In(w, "check")
    /\ IF attempts[w] < MaxRetries
       THEN GoTo(w, "have") /\ UNCHANGED failed
       ELSE failed' = "retries" /\ UNCHANGED at
    /\ UNCHANGED <<table, want, attempts, pending, calls, report, finished>>

\* The branch handler goes on: assert(stats->address == instAddr), then
\* atomicAdd(&stats->totalBranches, 1); its locals die with it.
Count(w) ==
    /\ In(w, "have")
    /\ IF address[Probe(w)] = want[w]
       THEN /\ total' = [total EXCEPT ![Probe(w)] = @ + 1]
            /\ GoTo(w, "idle")
            /\ want' = [want EXCEPT ![w] = 0] /\ attempts' = [attempts EXCEPT ![w] = 1]
            /\ UNCHANGED failed
       ELSE failed' = "address" /\ UNCHANGED <<total, at, want, attempts>>
    /\ UNCHANGED <<metadata, key, address, size, pending, calls, report, finished>>

-----------------------------------------------------------------------------
(* The host, when no kernel runs.                                          *)

Clear ==
    /\ Alive /\ Quiet
    /\ metadata' = [s \in Slots |-> "UNLOCKED"] /\ key' = Empty
    /\ address' = Empty /\ total' = Empty
    /\ size' = 0
    /\ UNCHANGED <<warpVars, calls, failed, report, finished>>

\* sassi_finalize: a line for each entry that map visits.
Finalize ==
    /\ Alive /\ Quiet
    /\ IF \A s \in Valid : address[s] = key[s]
       THEN report' = {<<key[s], total[s]>> : s \in Valid} /\ finished' = TRUE /\ UNCHANGED failed
       ELSE failed' = "address" /\ UNCHANGED <<report, finished>>
    /\ UNCHANGED <<table, warpVars, calls>>

Step(w) ==
    \/ \E k \in Keys : Call(w, k)
    \/ Lock(w) \/ StoreKey(w) \/ StoreValue(w) \/ StoreValid(w) \/ AddSize(w)
    \/ Wait(w) \/ SeeValid(w) \/ Found(w) \/ Rehash(w)
    \/ AssertAttempts(w) \/ Count(w)

Terminated == ~Alive /\ UNCHANGED vars

Next == Clear \/ Finalize \/ Terminated \/ \E w \in Warps : Step(w)

Spec == Init /\ [][Next]_vars

\* The device runs every resident warp.
FairSpec == Spec /\ \A w \in Warps : WF_vars(Step(w))
-----------------------------------------------------------------------------
(* Properties.                                                             *)

\* No key is in two slots, however the calls for it interleave: a thread that
\* finds a slot locked waits to see whose it is before it looks further.
KeyHasOneEntry == \A r, s \in Valid : key[r] = key[s] => r = s

\* Between kernels m_size is the number of entries.
SizeIsEntries == Quiet /\ failed = "none" => size = Cardinality(Valid)

\* The assertion on the attempts stops the device only for a call whose slots, as far as
\* the last but one attempt, are entries of other keys: never for a slot that was
\* empty, still being filled, or the key's own. The last attempt is left out since the
\* assertion is stricter than the loop (sassi_dictionary.hpp:93 and 135): a slot found or
\* filled by it fails the assertion too.
RetriesMeanCollisions ==
    failed = "retries" =>
        \E w \in Warps :
            /\ at[w] = "check"
            /\ \A n \in 1..(MaxRetries - 1) :
                  LET s == Hash(want[w], n) IN s \in Valid /\ key[s] # want[w]

\* The handler's and the report's own assertions, address == key, never fail:
\* no thread gets a pointer to a value that init has not written.
AddressesHold == failed # "address"

\* A call that has begun returns a counter, or the assertion on the attempts stops the
\* device for a call that collided: no thread spins for ever on a lock.
CallsReturn ==
    \A w \in Warps :
        at[w] = "cas" ~> at[w] = "idle" \/ (failed = "retries" /\ RetriesMeanCollisions)

\* The table implements one counter per key: an entry comes into being when
\* VALID is stored.
StoredKeys == {key[s] : s \in Valid}
SlotOf(k) == CHOOSE s \in Valid : key[s] = k
Counters == INSTANCE KeyedCounters WITH counts <- [k \in StoredKeys |-> total[SlotOf(k)]]
ImplementsCounters == Counters!Spec
=============================================================================
