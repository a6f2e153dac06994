--------------------------- MODULE DictionaryProofs ---------------------------
(***************************************************************************)
(* Proofs about Dictionary, for every table size, hash width, number of    *)
(* attempts, set of warps and of keys, where stores are seen in program    *)
(* order. A call that looks at its n-th slot has passed the n-1 before it, *)
(* which hold other keys for good; so two entries of one key would have    *)
(* been made at the same attempt, hence in the same slot.                  *)
(***************************************************************************)
EXTENDS Dictionary, FiniteSetTheorems, TLAPS

\* The first n - 1 slots of key k hold other keys.
Passed(k, n) == \A m \in 1..(n - 1) : metadata[Hash(k, m)] = "VALID" /\ key[Hash(k, m)] # k

Holds(s, k) == metadata[s] = "VALID" /\ key[s] = k /\ address[s] = k

\* The slot that w locked, as far as its stores have been made.
FillInv(w) ==
    /\ pending[w] \in {Stores, {"value", "valid"}, {"valid"}, {}}
    /\ "key" \notin pending[w] => key[Probe(w)] = want[w]
    /\ "value" \notin pending[w] => address[Probe(w)] = want[w]
    /\ "valid" \in pending[w] => metadata[Probe(w)] = "LOCKED"
    /\ "valid" \notin pending[w] => metadata[Probe(w)] = "VALID"

CallInv(w) ==
    /\ at[w] = "idle" => attempts[w] = 1
    /\ at[w] # "idle" => want[w] \in Keys
    /\ at[w] \in {"cas", "spin", "compare", "fill"} => attempts[w] <= MaxRetries
    /\ at[w] \in {"cas", "spin", "compare", "fill", "check"} => Passed(want[w], attempts[w])
    /\ at[w] = "fill" => FillInv(w)
    /\ at[w] = "compare" => metadata[Probe(w)] = "VALID"
    /\ at[w] = "check" /\ attempts[w] <= MaxRetries => Holds(Probe(w), want[w])
    /\ at[w] = "have" => Holds(Probe(w), want[w])

Locked(w) == at[w] = "fill" /\ "valid" \in pending[w]

LocksInv == \A v, w \in Warps : v # w /\ Locked(v) /\ Locked(w) => Probe(v) # Probe(w)

EntriesInv ==
    \A s \in Valid :
        /\ key[s] \in Keys /\ address[s] = key[s]
        /\ \E n \in 1..MaxRetries : s = Hash(key[s], n) /\ Passed(key[s], n)

IInv == TypeOK /\ (\A w \in Warps : CallInv(w)) /\ LocksInv /\ EntriesInv /\ AddressesHold

-----------------------------------------------------------------------------
(* The hash is a slot.                                                     *)

LEMMA ModIsBelow ==
    ASSUME NEW x \in Nat, NEW n \in Nat \ {0}
    PROVE  x % n \in 0..(n - 1)
  OBVIOUS

LEMMA HashType ==
    ASSUME NEW k \in Nat, NEW n \in Nat
    PROVE  Hash(k, n) \in Slots
  <1> DEFINE h1 == (k * 1076279) % Word
             h2 == (k * 99809343 + 1) % Word
  <1>1. h1 \in Nat /\ h2 \in Nat
    <2>1. k * 1076279 \in Nat /\ k * 99809343 + 1 \in Nat
      OBVIOUS
    <2>2. QED  BY <2>1, ModIsBelow, SizesAssumption
  <1>2. h1 + n * h2 \in Nat
    BY <1>1
  <1>3. (h1 + n * h2) % Word \in Nat
    <2> HIDE DEF h1, h2
    <2>1. QED  BY <1>2, ModIsBelow, SizesAssumption
  <1>4. ((h1 + n * h2) % Word) % NumSlots \in 0..(NumSlots - 1)
    <2> HIDE DEF h1, h2
    <2>1. QED  BY <1>3, ModIsBelow, SizesAssumption
  <1>5. QED  BY <1>4 DEF Hash, Slots

LEMMA KeysAreNumbers == \A k \in Keys \cup {0} : k \in Nat
  <1>1. \A k \in Keys : k \in Nat \ {0}
    BY KeysAssumption, Zenon
  <1>2. QED  BY <1>1

LEMMA ProbeType ==
    ASSUME TypeOK, NEW w \in Warps
    PROVE  Probe(w) \in Slots
  <1>1. want[w] \in Nat
    BY KeysAreNumbers DEF TypeOK
  <1>2. attempts[w] \in Nat
    BY SizesAssumption DEF TypeOK
  <1>3. QED  BY <1>1, <1>2, HashType DEF Probe

-----------------------------------------------------------------------------
(* Entries stay, and what a call has passed it need not look at again.     *)

\* Valid slots are not written.
Stable ==
    \A s \in Slots : metadata[s] = "VALID" =>
        metadata'[s] = "VALID" /\ key'[s] = key[s] /\ address'[s] = address[s]

PassedNext(k, n) == \A m \in 1..(n - 1) : metadata'[Hash(k, m)] = "VALID" /\ key'[Hash(k, m)] # k

LEMMA PassedStays ==
    ASSUME Stable
    PROVE  \A k, n \in Nat : Passed(k, n) => PassedNext(k, n)
  <1> SUFFICES ASSUME NEW k \in Nat, NEW n \in Nat, Passed(k, n), NEW m \in 1..(n - 1)
               PROVE  metadata'[Hash(k, m)] = "VALID" /\ key'[Hash(k, m)] # k
    BY DEF PassedNext
  <1>1. Hash(k, m) \in Slots
    BY HashType
  <1>2. metadata[Hash(k, m)] = "VALID" /\ key[Hash(k, m)] # k
    BY DEF Passed
  <1>3. QED  BY <1>1, <1>2 DEF Stable

\* A step that leaves the call of v and the slot it fills alone.
LEMMA CallStays ==
    ASSUME TypeOK, Stable, NEW v \in Warps, CallInv(v),
           at'[v] = at[v], want'[v] = want[v], attempts'[v] = attempts[v], pending'[v] = pending[v],
           Locked(v) => /\ metadata'[Probe(v)] = metadata[Probe(v)]
                        /\ key'[Probe(v)] = key[Probe(v)]
                        /\ address'[Probe(v)] = address[Probe(v)]
    PROVE  CallInv(v)'
  <1>1. Probe(v)' = Probe(v) /\ Probe(v) \in Slots
    BY ProbeType DEF Probe
  <1>2. at[v] \in {"cas", "spin", "compare", "fill", "check"} => Passed(want[v], attempts[v])'
    <2>1. want[v] \in Nat /\ attempts[v] \in Nat
      BY KeysAreNumbers, SizesAssumption DEF TypeOK
    <2>2. Passed(want[v], attempts[v]) => PassedNext(want[v], attempts[v])
      BY <2>1, PassedStays
    <2>3. PassedNext(want[v], attempts[v]) => Passed(want[v], attempts[v])'
      BY DEF Passed, PassedNext
    <2>4. QED  BY <2>2, <2>3 DEF CallInv
  <1>3. at[v] = "fill" => FillInv(v)'
    <2>1. CASE Locked(v)
      BY <1>1, <2>1 DEF CallInv, FillInv, Locked
    <2>2. CASE ~Locked(v)
      BY <1>1, <2>2 DEF CallInv, FillInv, Locked, Stable
    <2>3. QED  BY <2>1, <2>2
  <1>4. metadata[Probe(v)] = "VALID" => metadata'[Probe(v)] = "VALID"
    BY <1>1 DEF Stable
  <1>5. Holds(Probe(v), want[v]) => Holds(Probe(v), want[v])'
    BY <1>1 DEF Stable, Holds
  <1>6. QED  BY <1>1, <1>2, <1>3, <1>4, <1>5 DEF CallInv

\* A step that makes no new entry.
LEMMA EntriesStay ==
    ASSUME Stable, EntriesInv, Valid' \subseteq Valid
    PROVE  EntriesInv'
  <1> SUFFICES ASSUME NEW s \in Valid'
               PROVE  /\ key'[s] \in Keys /\ address'[s] = key'[s]
                      /\ \E n \in 1..MaxRetries : s = Hash(key'[s], n) /\ PassedNext(key'[s], n)
    BY DEF EntriesInv, Passed, PassedNext
  <1>1. s \in Slots /\ metadata[s] = "VALID" /\ s \in Valid
    BY DEF Valid
  <1>2. key'[s] = key[s] /\ address'[s] = address[s]
    BY <1>1 DEF Stable
  <1>3. PICK n \in 1..MaxRetries : s = Hash(key[s], n) /\ Passed(key[s], n)
    BY <1>1 DEF EntriesInv
  <1>4. key[s] \in Keys /\ address[s] = key[s]
    BY <1>1 DEF EntriesInv
  <1>5. PassedNext(key[s], n)
    BY <1>3, <1>4, PassedStays, KeysAreNumbers, SizesAssumption
  <1>6. QED  BY <1>2, <1>3, <1>4, <1>5

-----------------------------------------------------------------------------
(* Types.                                                                  *)

LEMMA TypeStep ==
    ASSUME TypeOK, \A w \in Warps : CallInv(w), EntriesInv, NEW w \in Warps, Step(w)
    PROVE  TypeOK'
  <1>1. Probe(w) \in Slots
    BY ProbeType
  <1>2. CASE \E k \in Keys : Call(w, k)
    BY <1>2, MaxCallsAssumption DEF TypeOK, Call, In, GoTo, Steps, table
  <1>3. CASE Lock(w)
    BY <1>1, <1>3 DEF TypeOK, Lock, In, GoTo, Steps, Stores
  <1>4. CASE StoreKey(w) \/ StoreValue(w)
    <2>1. want[w] \in Keys
      BY <1>4 DEF CallInv, StoreKey, StoreValue, In
    <2>2. QED  BY <1>1, <1>4, <2>1 DEF TypeOK, StoreKey, StoreValue, In, Stores
  <1>5. CASE StoreValid(w)
    BY <1>1, <1>5 DEF TypeOK, StoreValid, In, Stores
  <1>6. CASE AddSize(w) \/ Wait(w) \/ SeeValid(w) \/ Found(w)
    BY <1>6 DEF TypeOK, AddSize, Wait, SeeValid, Found, In, GoTo, Steps, table
  <1>7. CASE Rehash(w)
    <2>1. attempts[w] <= MaxRetries
      BY <1>7 DEF CallInv, Rehash, In
    <2>2. QED  BY <1>7, <2>1, SizesAssumption DEF TypeOK, Rehash, In, GoTo, Steps, table
  <1>8. CASE AssertAttempts(w)
    BY <1>8 DEF TypeOK, AssertAttempts, In, GoTo, Steps, table
  <1>9. CASE Count(w)
    BY <1>1, <1>9, SizesAssumption DEF TypeOK, Count, In, GoTo, Steps
  <1>10. QED  BY <1>2, <1>3, <1>4, <1>5, <1>6, <1>7, <1>8, <1>9 DEF Step

LEMMA TypeHost ==
    ASSUME TypeOK, EntriesInv, Clear \/ Finalize
    PROVE  TypeOK'
  <1>1. CASE Clear
    BY <1>1 DEF TypeOK, Clear, Empty, warpVars
  <1>2. CASE Finalize
    <2>1. \A s \in Valid : key[s] \in Keys /\ total[s] \in Nat
      BY DEF EntriesInv, TypeOK, Valid
    <2>2. report' \subseteq Keys \X Nat
      BY <1>2, <2>1 DEF Finalize, TypeOK
    <2>3. QED  BY <1>2, <2>2 DEF TypeOK, Finalize, table, warpVars
  <1>3. QED  BY <1>1, <1>2

-----------------------------------------------------------------------------
(* One step of a call. InOrder is assumed from here on.                    *)

\* A step of w that writes no slot: only what w knows of the table changes.
Reads(w) ==
    /\ UNCHANGED <<metadata, key, address>>
    /\ \A v \in Warps \ {w} : /\ at'[v] = at[v] /\ want'[v] = want[v]
                               /\ attempts'[v] = attempts[v] /\ pending'[v] = pending[v]
    /\ ~Locked(w)'

LEMMA ReadsInv ==
    ASSUME IInv, NEW w \in Warps, Reads(w), TypeOK', CallInv(w)', AddressesHold'
    PROVE  IInv'
  <1>1. Stable
    BY DEF Stable, Reads
  <1>2. ASSUME NEW v \in Warps PROVE CallInv(v)'
    <2>1. CASE v = w
      BY <2>1
    <2>2. CASE v # w
      <3>1. /\ at'[v] = at[v] /\ want'[v] = want[v]
            /\ attempts'[v] = attempts[v] /\ pending'[v] = pending[v]
        BY <2>2 DEF Reads
      <3>2. metadata' = metadata /\ key' = key /\ address' = address
        BY DEF Reads
      <3>3. QED  BY <1>1, <3>1, <3>2, CallStays DEF IInv
    <2>3. QED  BY <2>1, <2>2
  <1>3. LocksInv'
    BY DEF LocksInv, IInv, Reads, Locked, Probe
  <1>4. EntriesInv'
    <2>1. Valid' \subseteq Valid
      BY DEF Reads, Valid
    <2>2. QED  BY <1>1, <2>1, EntriesStay DEF IInv
  <1>5. QED  BY <1>2, <1>3, <1>4 DEF IInv

\* A step of w that writes the slot it has locked, or locks a free one.
Writes(w) ==
    /\ \A s \in Slots \ {Probe(w)} :
          metadata'[s] = metadata[s] /\ key'[s] = key[s] /\ address'[s] = address[s]
    /\ metadata[Probe(w)] # "VALID"
    /\ \A v \in Warps \ {w} : at'[v] = at[v] /\ pending'[v] = pending[v]
    /\ UNCHANGED <<want, attempts>>
    /\ \A v \in Warps \ {w} : Locked(v) => Probe(v) # Probe(w)

LEMMA WritesInv ==
    ASSUME IInv, NEW w \in Warps, Writes(w), TypeOK', CallInv(w)', AddressesHold',
           Probe(w) \in Valid' => /\ address'[Probe(w)] = key'[Probe(w)]
                                  /\ key'[Probe(w)] = want[w]
                                  /\ want[w] \in Keys
                                  /\ attempts[w] \in 1..MaxRetries /\ Passed(want[w], attempts[w])
    PROVE  IInv'
  <1>1. Stable
    BY DEF Stable, Writes
  <1>2. ASSUME NEW v \in Warps PROVE CallInv(v)'
    <2>1. CASE v = w
      BY <2>1
    <2>2. CASE v # w
      <3>1. /\ at'[v] = at[v] /\ want'[v] = want[v]
            /\ attempts'[v] = attempts[v] /\ pending'[v] = pending[v]
        BY <2>2 DEF Writes
      <3>2. Probe(v) \in Slots
        BY ProbeType DEF IInv
      <3>3. Locked(v) => /\ metadata'[Probe(v)] = metadata[Probe(v)]
                         /\ key'[Probe(v)] = key[Probe(v)]
                         /\ address'[Probe(v)] = address[Probe(v)]
        BY <2>2, <3>2 DEF Writes
      <3>4. QED  BY <1>1, <3>1, <3>3, CallStays DEF IInv
    <2>3. QED  BY <2>1, <2>2
  <1>3. LocksInv'
    BY DEF LocksInv, IInv, Writes, Locked, Probe
  <1>4. EntriesInv'
    <2> SUFFICES ASSUME NEW s \in Valid'
                 PROVE  /\ key'[s] \in Keys /\ address'[s] = key'[s]
                        /\ \E n \in 1..MaxRetries : s = Hash(key'[s], n) /\ PassedNext(key'[s], n)
      BY DEF EntriesInv, Passed, PassedNext
    <2>1. CASE s = Probe(w)
      <3>1. PassedNext(want[w], attempts[w])
        BY <2>1, <1>1, PassedStays, KeysAreNumbers, SizesAssumption
      <3>2. QED  BY <2>1, <3>1 DEF Probe
    <2>2. CASE s # Probe(w)
      <3>1. s \in Slots /\ s \in Valid
        BY <2>2 DEF Valid, Writes
      <3>2. key'[s] = key[s] /\ address'[s] = address[s]
        BY <2>2, <3>1 DEF Writes
      <3>3. PICK n \in 1..MaxRetries : s = Hash(key[s], n) /\ Passed(key[s], n)
        BY <3>1 DEF EntriesInv, IInv
      <3>4. key[s] \in Keys /\ address[s] = key[s]
        BY <3>1 DEF EntriesInv, IInv
      <3>5. PassedNext(key[s], n)
        BY <1>1, <3>3, <3>4, PassedStays, KeysAreNumbers, SizesAssumption
      <3>6. QED  BY <3>2, <3>3, <3>4, <3>5
    <2>3. QED  BY <2>1, <2>2
  <1>5. QED  BY <1>2, <1>3, <1>4 DEF IInv

LEMMA ReadingSteps ==
    ASSUME IInv, NEW w \in Warps, TypeOK',
           \/ \E k \in Keys : Call(w, k)
           \/ AddSize(w) \/ Wait(w) \/ SeeValid(w) \/ Found(w) \/ Rehash(w)
           \/ AssertAttempts(w) \/ Count(w)
    PROVE  IInv'
  <1> USE DEF In, GoTo, table
  <1>1. CallInv(w) /\ at \in [Warps -> Steps] /\ pending[w] \subseteq Stores
    BY DEF IInv, TypeOK
  <1>2. Reads(w)
    BY <1>1 DEF Reads, Locked, Call, AddSize, Wait, SeeValid, Found, Rehash, AssertAttempts, Count,
                IInv, TypeOK
  <1>3. CallInv(w)'
    <2>1. CASE \E k \in Keys : Call(w, k)
      <3>1. at'[w] = "cas" /\ want'[w] \in Keys /\ attempts'[w] = 1
        BY <1>1, <2>1 DEF Call, CallInv, IInv, TypeOK
      <3>2. QED  BY <3>1, SizesAssumption DEF CallInv, Passed
    <2>2. CASE AddSize(w)
      <3>1. Holds(Probe(w), want[w])
        BY <1>1, <2>2 DEF AddSize, CallInv, FillInv, Holds
      <3>2. QED  BY <1>1, <2>2, <3>1 DEF AddSize, CallInv, Holds, Probe, Passed
    <2>3. CASE Wait(w)
      BY <1>1, <2>3 DEF Wait, CallInv, Passed, Probe
    <2>4. CASE SeeValid(w)
      BY <1>1, <2>4 DEF SeeValid, CallInv, Passed, Probe
    <2>5. CASE Found(w)
      <3>1. Holds(Probe(w), want[w])
        <4>1. metadata[Probe(w)] = "VALID" /\ key[Probe(w)] = want[w] /\ Probe(w) \in Slots
          BY <1>1, <2>5, ProbeType DEF Found, CallInv, IInv
        <4>2. QED  BY <4>1 DEF IInv, EntriesInv, Valid, Holds
      <3>2. QED  BY <1>1, <2>5, <3>1 DEF Found, CallInv, Holds, Probe, Passed
    <2>6. CASE Rehash(w)
      <3>1. attempts[w] \in 1..MaxRetries /\ Passed(want[w], attempts[w])
        BY <1>1, <2>6 DEF Rehash, CallInv, IInv, TypeOK
      <3>2. metadata[Probe(w)] = "VALID" /\ key[Probe(w)] # want[w]
        BY <1>1, <2>6 DEF Rehash, CallInv
      <3>3. Passed(want[w], attempts[w] + 1)
        BY <3>1, <3>2, SizesAssumption DEF Passed, Probe
      <3>4. attempts'[w] = attempts[w] + 1 /\ want'[w] = want[w]
        BY <2>6 DEF Rehash, IInv, TypeOK
      <3>5. Passed(want[w], attempts[w])'
        BY <2>6, <3>3, <3>4 DEF Rehash, Passed
      <3>6. at'[w] = IF attempts[w] < MaxRetries THEN "cas" ELSE "check"
        BY <1>1, <2>6 DEF Rehash
      <3>7. at'[w] = "cas" => attempts'[w] <= MaxRetries
        BY <3>1, <3>4, <3>6, SizesAssumption
      <3>8. at'[w] = "check" => ~(attempts'[w] <= MaxRetries)
        BY <3>1, <3>4, <3>6, SizesAssumption
      <3>9. QED  BY <1>1, <2>6, <3>4, <3>5, <3>6, <3>7, <3>8 DEF Rehash, CallInv
    <2>7. CASE AssertAttempts(w)
      <3>1. attempts[w] < MaxRetries => attempts[w] <= MaxRetries
        BY SizesAssumption DEF IInv, TypeOK
      <3>2. QED  BY <1>1, <2>7, <3>1 DEF AssertAttempts, CallInv, Holds, Probe, Passed
    <2>8. CASE Count(w)
      BY <1>1, <2>8 DEF Count, CallInv, Holds, Probe, IInv, TypeOK
    <2>9. QED  BY <2>1, <2>2, <2>3, <2>4, <2>5, <2>6, <2>7, <2>8
  <1>4. AddressesHold'
    <2>1. CASE Count(w)
      BY <1>1, <2>1 DEF Count, CallInv, Holds, AddressesHold, IInv
    <2>2. CASE ~Count(w)
      BY <2>2 DEF Call, AddSize, Wait, SeeValid, Found, Rehash, AssertAttempts, AddressesHold, IInv
    <2>3. QED  BY <2>1, <2>2
  <1>5. QED  BY <1>2, <1>3, <1>4, ReadsInv

LEMMA WritingSteps ==
    ASSUME IInv, InOrder, NEW w \in Warps, TypeOK',
           Lock(w) \/ StoreKey(w) \/ StoreValue(w) \/ StoreValid(w)
    PROVE  IInv'
  <1> USE DEF In, GoTo
  <1>1. /\ CallInv(w) /\ at \in [Warps -> Steps] /\ pending \in [Warps -> SUBSET Stores]
        /\ metadata \in [Slots -> {"UNLOCKED", "LOCKED", "VALID"}]
        /\ key \in [Slots -> Keys \cup {0}] /\ address \in [Slots -> Keys \cup {0}]
    BY DEF IInv, TypeOK
  <1>2. Probe(w) \in Slots /\ Probe(w)' = Probe(w)
    BY ProbeType DEF IInv, Probe, Lock, StoreKey, StoreValue, StoreValid
  <1>3. want[w] \in Keys /\ attempts[w] \in 1..MaxRetries /\ Passed(want[w], attempts[w])
    BY <1>1, SizesAssumption DEF CallInv, Lock, StoreKey, StoreValue, StoreValid, IInv, TypeOK
  <1>4. CASE Lock(w)
    <2>1. Writes(w)
      <3>1. \A v \in Warps \ {w} : Locked(v) => Probe(v) # Probe(w)
        BY <1>4 DEF Lock, Locked, IInv, CallInv, FillInv
      <3>2. QED  BY <1>1, <1>4, <3>1 DEF Lock, Writes
    <2>2. Passed(want[w], attempts[w])'
      <3>1. PassedNext(want[w], attempts[w])
        <4>1. Stable
          BY <2>1 DEF Writes, Stable
        <4>2. QED  BY <1>3, <4>1, PassedStays, KeysAreNumbers, SizesAssumption
      <3>2. QED  BY <1>4, <3>1 DEF Lock, Passed, PassedNext
    <2>3. at'[w] = "fill" /\ pending'[w] = Stores /\ metadata'[Probe(w)] = "LOCKED"
      BY <1>1, <1>2, <1>4 DEF Lock
    <2>4. want' = want /\ attempts' = attempts /\ failed' = failed
      BY <1>4 DEF Lock
    <2>5. FillInv(w)'
      BY <1>2, <2>3, <2>4 DEF FillInv, Stores
    <2>6. CallInv(w)'
      BY <1>3, <2>2, <2>3, <2>4, <2>5, SizesAssumption DEF CallInv
    <2>7. Probe(w) \notin Valid'
      BY <2>3 DEF Valid
    <2>8. AddressesHold'
      BY <2>4 DEF IInv, AddressesHold
    <2>9. QED  BY <2>1, <2>6, <2>7, <2>8, WritesInv
  <1>5. CASE StoreKey(w) \/ StoreValue(w) \/ StoreValid(w)
    <2>1. at[w] = "fill" /\ Locked(w) /\ FillInv(w) /\ metadata[Probe(w)] = "LOCKED"
      <3>1. at[w] = "fill" /\ FillInv(w)
        BY <1>1, <1>5 DEF StoreKey, StoreValue, StoreValid, CallInv
      <3>2. pending[w] # {}
        BY <1>5 DEF StoreKey, StoreValue, StoreValid
      <3>3. "valid" \in pending[w]
        BY <3>1, <3>2 DEF FillInv, Stores
      <3>4. QED  BY <3>1, <3>3 DEF Locked, FillInv
    <2>2. Writes(w)
      <3>1. \A v \in Warps \ {w} : Locked(v) => Probe(v) # Probe(w)
        BY <2>1 DEF IInv, LocksInv
      <3>2. QED  BY <1>1, <1>5, <2>1, <3>1 DEF StoreKey, StoreValue, StoreValid, Writes
    <2>3. want' = want /\ attempts' = attempts /\ failed' = failed /\ at' = at
      BY <1>5 DEF StoreKey, StoreValue, StoreValid
    <2>4. Passed(want[w], attempts[w])'
      <3>1. PassedNext(want[w], attempts[w])
        <4>1. Stable
          BY <2>2 DEF Writes, Stable
        <4>2. QED  BY <1>3, <4>1, PassedStays, KeysAreNumbers, SizesAssumption
      <3>2. QED  BY <2>3, <3>1 DEF Passed, PassedNext
    <2>5. FillInv(w)'
      BY <1>1, <1>2, <1>5, <2>1, <2>3 DEF StoreKey, StoreValue, StoreValid, FillInv, Stores
    <2>6. CallInv(w)'
      BY <1>3, <2>1, <2>3, <2>4, <2>5, SizesAssumption DEF CallInv
    <2>7. Probe(w) \in Valid' => address'[Probe(w)] = key'[Probe(w)] /\ key'[Probe(w)] = want[w]
      <3>1. CASE StoreValid(w)
        BY <1>2, <2>1, <3>1 DEF StoreValid, FillInv
      <3>2. CASE StoreKey(w) \/ StoreValue(w)
        BY <2>1, <3>2 DEF StoreKey, StoreValue, Valid
      <3>3. QED  BY <1>5, <3>1, <3>2
    <2>8. AddressesHold'
      BY <2>3 DEF IInv, AddressesHold
    <2>9. QED  BY <1>3, <2>2, <2>6, <2>7, <2>8, WritesInv
  <1>6. QED  BY <1>4, <1>5

-----------------------------------------------------------------------------
(* The invariant.                                                          *)

LEMMA InitInv == Init => IInv
  <1> SUFFICES ASSUME Init PROVE IInv
    OBVIOUS
  <1> USE DEF Init, Empty
  <1>1. TypeOK
    <2>1. 1 \in 1..(MaxRetries + 1) /\ 0 \in 0..MaxCalls /\ 0 \in Nat
      BY SizesAssumption, MaxCallsAssumption
    <2>2. attempts \in [Warps -> 1..(MaxRetries + 1)] /\ want \in [Warps -> Keys \cup {0}]
      BY <2>1
    <2>3. key \in [Slots -> Keys \cup {0}] /\ address = key /\ total \in [Slots -> Nat]
      BY <2>1
    <2>4. QED  BY <2>1, <2>2, <2>3 DEF TypeOK, Steps
  <1>2. \A w \in Warps : CallInv(w)
    BY DEF CallInv
  <1>3. LocksInv /\ EntriesInv /\ AddressesHold
    BY DEF LocksInv, Locked, EntriesInv, Valid, AddressesHold
  <1>4. QED  BY <1>1, <1>2, <1>3 DEF IInv

LEMMA HostSteps ==
    ASSUME IInv, Clear \/ Finalize
    PROVE  IInv'
  <1>1. TypeOK'
    BY TypeHost DEF IInv
  <1>2. CASE Clear
    <2>1. \A w \in Warps : at[w] = "idle" /\ attempts[w] = 1
      BY <1>2 DEF Clear, Quiet, IInv, CallInv
    <2>2. at' = at /\ attempts' = attempts /\ failed' = failed
      BY <1>2 DEF Clear, warpVars
    <2>3. Valid' = {}
      BY <1>2 DEF Clear, Valid
    <2>4. \A w \in Warps : CallInv(w)'
      BY <2>1, <2>2 DEF CallInv
    <2>5. LocksInv' /\ EntriesInv' /\ AddressesHold'
      BY <2>1, <2>2, <2>3 DEF LocksInv, Locked, EntriesInv, AddressesHold, IInv
    <2>6. QED  BY <1>1, <2>4, <2>5 DEF IInv
  <1>3. CASE Finalize
    <2>1. UNCHANGED <<metadata, key, address, at, want, attempts, pending>>
      BY <1>3 DEF Finalize, table, warpVars
    <2>2. \A w \in Warps : CallInv(w)'
      BY <2>1 DEF IInv, CallInv, FillInv, Holds, Passed, Probe
    <2>3. LocksInv' /\ EntriesInv'
      BY <2>1 DEF IInv, LocksInv, Locked, Probe, EntriesInv, Valid, Passed
    <2>4. \A s \in Valid : address[s] = key[s]
      BY DEF IInv, EntriesInv
    <2>5. AddressesHold'
      BY <1>3, <2>4 DEF Finalize, AddressesHold, IInv
    <2>6. QED  BY <1>1, <2>2, <2>3, <2>5 DEF IInv
  <1>4. QED  BY <1>2, <1>3

LEMMA NextInv == InOrder /\ IInv /\ [Next]_vars => IInv'
  <1> SUFFICES ASSUME InOrder, IInv, [Next]_vars PROVE IInv'
    OBVIOUS
  <1>1. ASSUME NEW w \in Warps, Step(w) PROVE IInv'
    <2>1. TypeOK'
      BY <1>1, TypeStep DEF IInv
    <2>2. CASE Lock(w) \/ StoreKey(w) \/ StoreValue(w) \/ StoreValid(w)
      BY <2>1, <2>2, WritingSteps
    <2>3. CASE \/ \E k \in Keys : Call(w, k)
               \/ AddSize(w) \/ Wait(w) \/ SeeValid(w) \/ Found(w) \/ Rehash(w)
               \/ AssertAttempts(w) \/ Count(w)
      BY <2>1, <2>3, ReadingSteps
    <2>4. QED  BY <1>1, <2>2, <2>3 DEF Step
  <1>2. CASE Clear \/ Finalize
    BY <1>2, HostSteps
  <1>3. CASE UNCHANGED vars
    <2>1. UNCHANGED <<metadata, key, address, total, size, at, want, attempts, pending,
                      calls, failed, report, finished>>
      BY <1>3 DEF vars, table, warpVars
    <2>2. TypeOK' /\ AddressesHold'
      BY <2>1 DEF IInv, TypeOK, AddressesHold
    <2>3. \A w \in Warps : CallInv(w)'
      BY <2>1 DEF IInv, CallInv, FillInv, Holds, Passed, Probe
    <2>4. LocksInv' /\ EntriesInv'
      BY <2>1 DEF IInv, LocksInv, Locked, Probe, EntriesInv, Valid, Passed
    <2>5. QED  BY <2>2, <2>3, <2>4 DEF IInv
  <1>4. QED  BY <1>1, <1>2, <1>3 DEF Next, Terminated

\* Every reachable state satisfies the inductive invariant.
THEOREM TableInvariance == InOrder => (Spec => []IInv)
  <1> SUFFICES ASSUME InOrder PROVE Spec => []IInv
    OBVIOUS
  <1>1. IInv /\ [Next]_vars => IInv'
    BY NextInv
  <1>2. QED  BY <1>1, InitInv, PTL DEF Spec

\* The table, the calls and the report keep their types.
THEOREM TableTypeCorrect == InOrder => (Spec => []TypeOK)
  <1>1. IInv => TypeOK
    BY DEF IInv
  <1>2. QED  BY <1>1, TableInvariance, PTL

LEMMA OneEntry == IInv => KeyHasOneEntry
  <1> SUFFICES ASSUME IInv, NEW r \in Valid, NEW s \in Valid, key[r] = key[s]
               PROVE  r = s
    BY DEF KeyHasOneEntry
  <1>1. PICK m \in 1..MaxRetries : r = Hash(key[r], m) /\ Passed(key[r], m)
    BY DEF IInv, EntriesInv
  <1>2. PICK n \in 1..MaxRetries : s = Hash(key[r], n) /\ Passed(key[r], n)
    BY DEF IInv, EntriesInv
  <1>3. ~(m < n)
    <2>1. m < n => m \in 1..(n - 1)
      BY SizesAssumption
    <2>2. QED  BY <1>1, <1>2, <2>1 DEF Passed
  <1>4. ~(n < m)
    <2>1. n < m => n \in 1..(m - 1)
      BY SizesAssumption
    <2>2. QED  BY <1>1, <1>2, <2>1 DEF Passed
  <1>5. m = n
    BY <1>3, <1>4, SizesAssumption
  <1>6. QED  BY <1>1, <1>2, <1>5

\* No key is ever in two slots, for any number of warps that look for it.
THEOREM KeysAreUnique == InOrder => (Spec => []KeyHasOneEntry)
  BY OneEntry, TableInvariance, PTL

\* The assertions that compare a counter's address with its key never fail.
THEOREM AddressAssertionsHold == InOrder => (Spec => []AddressesHold)
  <1>1. IInv => AddressesHold
    BY DEF IInv
  <1>2. QED  BY <1>1, TableInvariance, PTL

-----------------------------------------------------------------------------
(* The refinement. Counts is what the table says to KeyedCounters.         *)

Counts == [k \in StoredKeys |-> total[SlotOf(k)]]

\* A slot without an entry has not been counted in.
FreshInv == \A s \in Slots : metadata[s] # "VALID" => total[s] = 0

LEMMA ChooseOnly ==
    ASSUME NEW V, NEW f, NEW s \in V, \A r \in V : f[r] = f[s] => r = s
    PROVE  (CHOOSE r \in V : f[r] = f[s]) = s
  OBVIOUS

LEMMA SlotIs ==
    ASSUME IInv, NEW s \in Valid
    PROVE  SlotOf(key[s]) = s
  BY OneEntry, ChooseOnly DEF SlotOf, KeyHasOneEntry

LEMMA SlotIsNext ==
    ASSUME IInv', NEW s \in Valid'
    PROVE  SlotOf(key[s])' = s
  <1>1. \A r \in Valid' : key'[r] = key'[s] => r = s
    <2>1. KeyHasOneEntry'
      BY OneEntry, PTL
    <2>2. QED  BY <2>1 DEF KeyHasOneEntry
  <1>2. (CHOOSE r \in Valid' : key'[r] = key'[s]) = s
    BY <1>1, ChooseOnly
  <1>3. QED  BY <1>2 DEF SlotOf

\* The counters do not change when neither the entries nor their totals do.
LEMMA SameCounts ==
    ASSUME IInv, IInv', Valid' = Valid,
           \A s \in Valid : key'[s] = key[s] /\ total'[s] = total[s]
    PROVE  Counts' = Counts
  <1>1. StoredKeys' = StoredKeys
    BY DEF StoredKeys
  <1>2. ASSUME NEW k \in StoredKeys PROVE total'[SlotOf(k)'] = total[SlotOf(k)]
    <2>1. PICK s \in Valid : k = key[s]
      BY DEF StoredKeys
    <2>2. SlotOf(k) = s
      BY <2>1, SlotIs
    <2>3. (CHOOSE r \in Valid' : key'[r] = key'[s]) = s
      <3>1. KeyHasOneEntry'
        BY OneEntry, PTL
      <3>2. QED  BY <3>1, ChooseOnly DEF KeyHasOneEntry
    <2>4. SlotOf(k)' = s
      BY <2>1, <2>3 DEF SlotOf
    <2>5. QED  BY <2>2, <2>4
  <1>3. QED  BY <1>1, <1>2 DEF Counts

LEMMA FreshInit == Init => FreshInv
  BY DEF Init, Empty, FreshInv

LEMMA FreshNext == IInv /\ FreshInv /\ [Next]_vars => FreshInv'
  <1> SUFFICES ASSUME IInv, FreshInv, [Next]_vars PROVE FreshInv'
    OBVIOUS
  <1> USE DEF table, warpVars
  <1>1. ASSUME NEW w \in Warps, Step(w) PROVE FreshInv'
    <2>1. /\ Probe(w) \in Slots /\ metadata \in [Slots -> {"UNLOCKED", "LOCKED", "VALID"}]
          /\ total \in [Slots -> Nat]
      BY ProbeType DEF IInv, TypeOK
    <2>2. CASE Lock(w) \/ StoreValid(w)
      BY <2>1, <2>2 DEF Lock, StoreValid, FreshInv
    <2>3. CASE Count(w)
      <3>1. metadata[Probe(w)] = "VALID"
        BY <2>3 DEF Count, In, IInv, CallInv, Holds
      <3>2. QED  BY <2>1, <2>3, <3>1 DEF Count, FreshInv
    <2>4. CASE \/ \E k \in Keys : Call(w, k)
               \/ StoreKey(w) \/ StoreValue(w) \/ AddSize(w)
               \/ Wait(w) \/ SeeValid(w) \/ Found(w) \/ Rehash(w) \/ AssertAttempts(w)
      BY <2>4 DEF Call, StoreKey, StoreValue, AddSize, Wait, SeeValid, Found, Rehash,
                  AssertAttempts, FreshInv
    <2>5. QED  BY <1>1, <2>2, <2>3, <2>4 DEF Step
  <1>2. CASE Clear
    BY <1>2 DEF Clear, Empty, FreshInv
  <1>3. CASE Finalize \/ Terminated \/ UNCHANGED vars
    BY <1>3 DEF Finalize, Terminated, vars, FreshInv
  <1>4. QED  BY <1>1, <1>2, <1>3 DEF Next

\* The steps that KeyedCounters does not see.
LEMMA StutterSteps ==
    ASSUME IInv, IInv', NEW w \in Warps,
           \/ \E k \in Keys : Call(w, k)
           \/ Lock(w) \/ StoreKey(w) \/ StoreValue(w) \/ AddSize(w)
           \/ Wait(w) \/ SeeValid(w) \/ Found(w) \/ Rehash(w) \/ AssertAttempts(w)
    PROVE  Counts' = Counts /\ report' = report
  <1> USE DEF table, In
  <1>1. report' = report /\ total' = total
    BY DEF Call, Lock, StoreKey, StoreValue, AddSize, Wait, SeeValid, Found, Rehash, AssertAttempts
  <1>2. Probe(w) \in Slots /\ key \in [Slots -> Keys \cup {0}]
        /\ metadata \in [Slots -> {"UNLOCKED", "LOCKED", "VALID"}]
    BY ProbeType DEF IInv, TypeOK
  <1>3. Valid' = Valid /\ \A s \in Valid : key'[s] = key[s]
    <2>1. CASE Lock(w)
      BY <1>2, <2>1 DEF Lock, Valid
    <2>2. CASE StoreKey(w)
      <3>1. metadata[Probe(w)] = "LOCKED"
        BY <2>2 DEF StoreKey, IInv, CallInv, FillInv, Stores
      <3>2. QED  BY <1>2, <2>2, <3>1 DEF StoreKey, Valid
    <2>3. CASE ~Lock(w) /\ ~StoreKey(w)
      BY <2>3 DEF Call, StoreValue, AddSize, Wait, SeeValid, Found, Rehash, AssertAttempts, Valid
    <2>4. QED  BY <2>1, <2>2, <2>3
  <1>4. Counts' = Counts
    BY <1>1, <1>3, SameCounts
  <1>5. QED  BY <1>1, <1>4

\* VALID makes the entry, at zero.
LEMMA StoreValidInserts ==
    ASSUME InOrder, IInv, IInv', FreshInv, NEW w \in Warps, StoreValid(w)
    PROVE  Counters!Insert(want[w])
  <1> DEFINE p == Probe(w)
             k == want[w]
  <1>1. p \in Slots /\ metadata[p] = "LOCKED" /\ key[p] = k /\ p \notin Valid
    BY ProbeType DEF StoreValid, In, IInv, CallInv, FillInv, Stores, Valid
  <1>2. Valid' = Valid \cup {p} /\ key' = key /\ total' = total /\ report' = report
    BY <1>1 DEF StoreValid, Valid, IInv, TypeOK
  <1>3. total[p] = 0
    BY <1>1 DEF FreshInv
  <1>4. k \notin StoredKeys
    <2> SUFFICES ASSUME NEW s \in Valid, key[s] = k PROVE FALSE
      BY DEF StoredKeys
    <2>1. KeyHasOneEntry'
      BY OneEntry, PTL
    <2>2. s = p
      BY <1>1, <1>2, <2>1 DEF KeyHasOneEntry
    <2>3. QED  BY <1>1, <2>2
  <1>5. StoredKeys' = StoredKeys \cup {k}
    BY <1>1, <1>2 DEF StoredKeys
  <1>6. ASSUME NEW j \in StoredKeys \cup {k}
        PROVE  total'[SlotOf(j)'] = IF j = k THEN 0 ELSE total[SlotOf(j)]
    <2>1. PICK s \in Valid \cup {p} : j = key[s]
      BY <1>1 DEF StoredKeys
    <2>2. (CHOOSE r \in Valid' : key'[r] = key'[s]) = s
      <3>1. KeyHasOneEntry'
        BY OneEntry, PTL
      <3>2. s \in Valid'
        BY <1>2
      <3>3. QED  BY <3>1, <3>2, ChooseOnly DEF KeyHasOneEntry
    <2>3. SlotOf(j)' = s
      BY <1>2, <2>1, <2>2 DEF SlotOf
    <2>4. CASE j = k
      <3>1. s = p
        BY <1>1, <1>4, <2>1, <2>4 DEF StoredKeys
      <3>2. QED  BY <1>2, <1>3, <2>3, <2>4, <3>1
    <2>5. CASE j # k
      <3>1. s \in Valid
        BY <1>1, <2>1, <2>5
      <3>2. SlotOf(j) = s
        BY <2>1, <3>1, SlotIs
      <3>3. QED  BY <1>2, <2>3, <2>5, <3>2
    <2>6. QED  BY <2>4, <2>5
  <1>7. Counts' = [j \in StoredKeys \cup {k} |-> IF j = k THEN 0 ELSE Counts[j]]
    BY <1>4, <1>5, <1>6 DEF Counts
  <1>8. DOMAIN Counts = StoredKeys
    BY DEF Counts
  <1>9. QED  BY <1>2, <1>4, <1>7, <1>8 DEF Counters!Insert, Counts

\* The atomicAdd of the handler adds one to the counter of its key.
LEMMA CountAdds ==
    ASSUME IInv, IInv', NEW w \in Warps, Count(w)
    PROVE  Counters!Add(want[w])
  <1> DEFINE p == Probe(w)
             k == want[w]
  <1>1. p \in Valid /\ key[p] = k /\ address[p] = k
    BY ProbeType DEF Count, In, IInv, CallInv, Holds, Valid
  <1>2. /\ total' = [total EXCEPT ![p] = @ + 1] /\ Valid' = Valid
        /\ key' = key /\ report' = report
    BY <1>1 DEF Count, Valid
  <1>3. StoredKeys' = StoredKeys /\ k \in StoredKeys
    BY <1>1, <1>2 DEF StoredKeys
  <1>4. ASSUME NEW j \in StoredKeys
        PROVE  /\ total'[SlotOf(j)'] = IF j = k THEN total[SlotOf(j)] + 1 ELSE total[SlotOf(j)]
    <2>1. PICK s \in Valid : j = key[s]
      BY DEF StoredKeys
    <2>2. SlotOf(j) = s
      BY <2>1, SlotIs
    <2>3. SlotOf(j)' = SlotOf(j)
      BY <1>2 DEF SlotOf
    <2>4. j = k <=> s = p
      BY <1>1, <2>1, OneEntry DEF KeyHasOneEntry
    <2>5. s \in DOMAIN total
      BY DEF IInv, TypeOK, Valid
    <2>6. QED  BY <1>2, <2>2, <2>3, <2>4, <2>5
  <1>5. Counts' = [Counts EXCEPT ![k] = @ + 1]
    BY <1>3, <1>4 DEF Counts
  <1>6. DOMAIN Counts = StoredKeys
    BY DEF Counts
  <1>7. QED  BY <1>2, <1>3, <1>5, <1>6 DEF Counters!Add, Counts

LEMMA ClearClears ==
    ASSUME IInv, Clear
    PROVE  Counters!Clear
  <1>1. Valid' = {}
    BY DEF Clear, Valid
  <1>2. StoredKeys' = {}
    BY <1>1 DEF StoredKeys
  <1>3. Counts' = [k \in {} |-> 0]
    BY <1>2 DEF Counts
  <1>4. QED  BY <1>3 DEF Clear, Counters!Clear, Counts

LEMMA FinalizeReports ==
    ASSUME IInv, IInv', Finalize
    PROVE  Counters!Report
  <1>1. \A s \in Valid : address[s] = key[s]
    BY DEF IInv, EntriesInv
  <1>2. report' = {<<key[s], total[s]>> : s \in Valid} /\ UNCHANGED <<metadata, key, total>>
    BY <1>1 DEF Finalize, table
  <1>3. \A s \in Valid : SlotOf(key[s]) = s
    BY SlotIs
  <1>4. report' = {<<k, Counts[k]>> : k \in StoredKeys}
    BY <1>2, <1>3 DEF StoredKeys, Counts
  <1>5. Counts' = Counts
    BY <1>2, SameCounts DEF Valid
  <1>6. DOMAIN Counts = StoredKeys
    BY DEF Counts
  <1>7. QED  BY <1>4, <1>5, <1>6 DEF Counters!Report, Counts

LEMMA CountersInit == Init => Counters!Init
  <1> SUFFICES ASSUME Init PROVE Counters!Init
    OBVIOUS
  <1>1. Valid = {}
    BY DEF Init, Valid
  <1>2. StoredKeys = {}
    BY <1>1 DEF StoredKeys
  <1>3. QED  BY <1>2 DEF Init, Counters!Init

LEMMA CountersNext ==
    InOrder /\ IInv /\ IInv' /\ FreshInv /\ [Next]_vars
        => [Counters!Next]_<<Counts, report>>
  <1> SUFFICES ASSUME InOrder, IInv, IInv', FreshInv, [Next]_vars
               PROVE  Counters!Next \/ (Counts' = Counts /\ report' = report)
    OBVIOUS
  <1>1. ASSUME NEW w \in Warps, Step(w)
        PROVE  Counters!Next \/ (Counts' = Counts /\ report' = report)
    <2>1. CASE StoreValid(w)
      <3>1. want[w] \in Keys
        BY <2>1 DEF StoreValid, In, IInv, CallInv
      <3>2. QED  BY <2>1, <3>1, StoreValidInserts DEF Counters!Next
    <2>2. CASE Count(w)
      <3>1. want[w] \in Keys
        BY <2>2 DEF Count, In, IInv, CallInv
      <3>2. QED  BY <2>2, <3>1, CountAdds DEF Counters!Next
    <2>3. CASE \/ \E k \in Keys : Call(w, k)
               \/ Lock(w) \/ StoreKey(w) \/ StoreValue(w) \/ AddSize(w)
               \/ Wait(w) \/ SeeValid(w) \/ Found(w) \/ Rehash(w) \/ AssertAttempts(w)
      BY <2>3, StutterSteps
    <2>4. QED  BY <1>1, <2>1, <2>2, <2>3 DEF Step
  <1>2. CASE Clear
    BY <1>2, ClearClears DEF Counters!Next
  <1>3. CASE Finalize
    BY <1>3, FinalizeReports DEF Counters!Next
  <1>4. CASE Terminated \/ UNCHANGED vars
    BY <1>4, SameCounts DEF Terminated, vars, table, Valid
  <1>5. QED  BY <1>1, <1>2, <1>3, <1>4 DEF Next

\* The table implements one counter per key: no interleaving of calls loses,
\* splits or invents a count, and the report holds every counter once.
THEOREM TableImplementsCounters == InOrder => (Spec => ImplementsCounters)
  <1> SUFFICES ASSUME InOrder PROVE Spec => ImplementsCounters
    OBVIOUS
  <1>1. Spec => []IInv
    BY TableInvariance
  <1>2. Spec => []FreshInv
    <2>1. Spec => [](IInv /\ FreshInv)
      <3>1. IInv /\ FreshInv /\ [Next]_vars => IInv' /\ FreshInv'
        BY NextInv, FreshNext
      <3>2. QED  BY <3>1, InitInv, FreshInit, PTL DEF Spec
    <2>2. QED  BY <2>1, PTL
  <1>3. IInv /\ IInv' /\ FreshInv /\ [Next]_vars => [Counters!Next]_<<Counts, report>>
    BY CountersNext
  <1>4. QED  BY <1>1, <1>2, <1>3, CountersInit, PTL DEF Spec, ImplementsCounters, Counters!Spec, Counts

-----------------------------------------------------------------------------
(* The number of entries.                                                  *)

\* The warps that have stored VALID and not yet added to m_size.
Uncounted == {w \in Warps : at[w] = "fill" /\ "valid" \notin pending[w]}

SizeInv == IsFiniteSet(Uncounted) /\ size + Cardinality(Uncounted) = Cardinality(Valid)

LEMMA ValidIsFinite == IsFiniteSet(Valid) /\ Cardinality(Valid) \in Nat
  <1>1. IsFiniteSet(Slots)
    BY FS_Interval, SizesAssumption DEF Slots
  <1>2. Valid \subseteq Slots
    BY DEF Valid
  <1>3. QED  BY <1>1, <1>2, FS_Subset, FS_CardinalityType

\* Steps that neither store VALID nor count.
LEMMA SizeStays ==
    ASSUME SizeInv, size' = size, Valid' = Valid, Uncounted' = Uncounted
    PROVE  SizeInv'
  BY DEF SizeInv

LEMMA SizeInit == Init => SizeInv
  <1> SUFFICES ASSUME Init PROVE SizeInv
    OBVIOUS
  <1>1. Uncounted = {} /\ Valid = {} /\ size = 0
    BY DEF Init, Uncounted, Valid
  <1>2. QED  BY <1>1, FS_EmptySet DEF SizeInv

LEMMA SizeSteps ==
    ASSUME IInv, SizeInv, NEW w \in Warps, Step(w)
    PROVE  SizeInv'
  <1> USE DEF In, GoTo, table
  <1>1. /\ CallInv(w) /\ at \in [Warps -> Steps] /\ pending \in [Warps -> SUBSET Stores] /\ size \in Nat
        /\ metadata \in [Slots -> {"UNLOCKED", "LOCKED", "VALID"}] /\ Probe(w) \in Slots
    BY ProbeType DEF IInv, TypeOK
  <1>2. CASE StoreValid(w)
    <2>1. at[w] = "fill" /\ "valid" \in pending[w] /\ metadata[Probe(w)] = "LOCKED"
      BY <1>1, <1>2 DEF StoreValid, CallInv, FillInv
    <2>2. Valid' = Valid \cup {Probe(w)} /\ Probe(w) \notin Valid
      BY <1>1, <1>2, <2>1 DEF StoreValid, Valid
    <2>3. Uncounted' = Uncounted \cup {w} /\ w \notin Uncounted /\ size' = size
      BY <1>1, <1>2, <2>1 DEF StoreValid, Uncounted
    <2>4. /\ IsFiniteSet(Uncounted') /\ Cardinality(Uncounted') = Cardinality(Uncounted) + 1
          /\ Cardinality(Valid') = Cardinality(Valid) + 1
      BY <2>2, <2>3, ValidIsFinite, FS_AddElement DEF SizeInv
    <2>5. Cardinality(Uncounted) \in Nat /\ Cardinality(Valid) \in Nat
      BY ValidIsFinite, FS_CardinalityType DEF SizeInv
    <2>6. QED  BY <1>1, <2>3, <2>4, <2>5 DEF SizeInv
  <1>3. CASE AddSize(w)
    <2>1. w \in Uncounted /\ Uncounted' = Uncounted \ {w} /\ size' = size + 1
      BY <1>1, <1>3 DEF AddSize, Uncounted
    <2>2. Valid' = Valid
      BY <1>3 DEF AddSize, Valid
    <2>3. /\ IsFiniteSet(Uncounted') /\ Cardinality(Uncounted') = Cardinality(Uncounted) - 1
      BY <2>1, FS_RemoveElement DEF SizeInv
    <2>4. Cardinality(Uncounted) \in Nat /\ Cardinality(Valid) \in Nat
      BY ValidIsFinite, FS_CardinalityType DEF SizeInv
    <2>5. QED  BY <1>1, <2>1, <2>2, <2>3, <2>4 DEF SizeInv
  <1>4. CASE Lock(w) \/ StoreKey(w) \/ StoreValue(w)
    <2>1. Valid' = Valid /\ size' = size
      BY <1>1, <1>4 DEF Lock, StoreKey, StoreValue, Valid
    <2>2. Uncounted' = Uncounted
      BY <1>1, <1>4 DEF Lock, StoreKey, StoreValue, Uncounted, Stores
    <2>3. QED  BY <2>1, <2>2, SizeStays
  <1>5. CASE \/ \E k \in Keys : Call(w, k)
             \/ Wait(w) \/ SeeValid(w) \/ Found(w) \/ Rehash(w)
             \/ AssertAttempts(w) \/ Count(w)
    <2>1. metadata' = metadata /\ size' = size /\ pending' = pending
      BY <1>5 DEF Call, Wait, SeeValid, Found, Rehash, AssertAttempts, Count
    <2>2. /\ at[w] # "fill" /\ at'[w] # "fill"
          /\ \A v \in Warps \ {w} : at'[v] = at[v]
      BY <1>1, <1>5 DEF Call, Wait, SeeValid, Found, Rehash, AssertAttempts, Count
    <2>3. Valid' = Valid /\ Uncounted' = Uncounted
      BY <2>1, <2>2 DEF Valid, Uncounted
    <2>4. QED  BY <2>1, <2>3, SizeStays
  <1>6. QED  BY <1>2, <1>3, <1>4, <1>5 DEF Step

LEMMA SizeNext == IInv /\ SizeInv /\ [Next]_vars => SizeInv'
  <1> SUFFICES ASSUME IInv, SizeInv, [Next]_vars PROVE SizeInv'
    OBVIOUS
  <1>1. CASE \E w \in Warps : Step(w)
    BY <1>1, SizeSteps
  <1>2. CASE Clear
    <2>1. Valid' = {} /\ size' = 0
      BY <1>2 DEF Clear, Valid
    <2>2. Uncounted' = {}
      BY <1>2 DEF Clear, Quiet, Uncounted, warpVars
    <2>3. QED  BY <2>1, <2>2, FS_EmptySet DEF SizeInv
  <1>3. CASE Finalize \/ UNCHANGED vars
    <2>1. UNCHANGED <<metadata, size, at, pending>>
      BY <1>3 DEF Finalize, vars, table, warpVars
    <2>2. Valid' = Valid /\ Uncounted' = Uncounted
      BY <2>1 DEF Valid, Uncounted
    <2>3. QED  BY <2>1, <2>2, SizeStays
  <1>4. QED  BY <1>1, <1>2, <1>3 DEF Next, Terminated

\* The assertion on the attempts fails only after collisions with other keys: the slots
\* that the failing call has passed are those of all attempts but the last, and the
\* device has stopped.
THEOREM FailingCallsCollided == InOrder => (Spec => []RetriesMeanCollisions)
  <1> SUFFICES ASSUME InOrder PROVE Spec => []RetriesMeanCollisions
    OBVIOUS
  <1>1. Init => RetriesMeanCollisions
    BY DEF Init, RetriesMeanCollisions
  <1>2. IInv /\ RetriesMeanCollisions /\ [Next]_vars => RetriesMeanCollisions'
    <2> SUFFICES ASSUME IInv, RetriesMeanCollisions, [Next]_vars PROVE RetriesMeanCollisions'
      OBVIOUS
    <2>1. CASE \E w \in Warps : AssertAttempts(w) /\ failed' = "retries"
      <3>1. PICK w \in Warps : AssertAttempts(w) /\ failed' = "retries"
        BY <2>1
      <3>2. at[w] = "check" /\ attempts[w] >= MaxRetries /\ Passed(want[w], attempts[w])
        <4>1. In(w, "check") /\ failed # "retries"
          BY <3>1 DEF AssertAttempts, In, Alive
        <4>2. ~(attempts[w] < MaxRetries)
          BY <3>1, <4>1 DEF AssertAttempts
        <4>3. attempts[w] \in Nat /\ MaxRetries \in Nat
          BY SizesAssumption DEF IInv, TypeOK
        <4>4. QED  BY <4>1, <4>2, <4>3 DEF In, IInv, CallInv
      <3>3. \A n \in 1..(MaxRetries - 1) :
              metadata[Hash(want[w], n)] = "VALID" /\ key[Hash(want[w], n)] # want[w]
        BY <3>2, SizesAssumption DEF Passed, IInv, TypeOK
      <3>4. \A n \in 1..(MaxRetries - 1) : Hash(want[w], n) \in Slots
        <4>1. want[w] \in Nat
          BY KeysAreNumbers DEF IInv, TypeOK
        <4>2. QED  BY <4>1, HashType, SizesAssumption
      <3>5. at' = at /\ want' = want /\ metadata' = metadata /\ key' = key
        BY <3>1, <3>2 DEF AssertAttempts, In, Alive, table
      <3>6. QED  BY <3>2, <3>3, <3>4, <3>5 DEF RetriesMeanCollisions, Valid
    <2>2. CASE ~(\E w \in Warps : AssertAttempts(w) /\ failed' = "retries")
      <3>1. failed' = "retries" => UNCHANGED vars
        BY <2>2 DEF Next, Step, Terminated, Clear, Finalize, Call, Lock, StoreKey, StoreValue,
                    StoreValid, AddSize, Wait, SeeValid, Found, Rehash, AssertAttempts, Count, In,
                    Alive
      <3>2. QED  BY <3>1 DEF RetriesMeanCollisions, Valid, vars, table, warpVars
    <2>3. QED  BY <2>1, <2>2
  <1>3. QED  BY <1>1, <1>2, TableInvariance, PTL DEF Spec

\* Between kernels m_size is the number of entries: no atomicAdd is lost or made twice,
\* whatever slots are filled at a time.
THEOREM SizeCountsEntries == InOrder => (Spec => []SizeIsEntries)
  <1> SUFFICES ASSUME InOrder PROVE Spec => []SizeIsEntries
    OBVIOUS
  <1>1. IInv /\ SizeInv => SizeIsEntries
    <2> SUFFICES ASSUME IInv, SizeInv, Quiet PROVE size = Cardinality(Valid)
      BY DEF SizeIsEntries
    <2>1. Uncounted = {}
      BY DEF Quiet, Uncounted
    <2>2. QED  BY <2>1, FS_EmptySet DEF SizeInv, IInv, TypeOK
  <1>2. QED  BY <1>1, SizeInit, SizeNext, TableInvariance, PTL DEF Spec
=============================================================================
