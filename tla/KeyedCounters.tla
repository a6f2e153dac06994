---------------------------- MODULE KeyedCounters ----------------------------
(***************************************************************************)
(* What the handlers of SASSI/instlibs expect of a sassi::dictionary of    *)
(* counters: one counter per key, made at zero by the first call for the   *)
(* key, increased by every call, and written out once.                     *)
(***************************************************************************)
EXTENDS Naturals

CONSTANT Keys

VARIABLES counts,  \* a function on the keys that have a counter
          report   \* what was written out: pairs <<key, count>>

Init == counts = [k \in {} |-> 0] /\ report = {}

Insert(k) ==
    /\ k \notin DOMAIN counts
    /\ counts' = [j \in DOMAIN counts \cup {k} |-> IF j = k THEN 0 ELSE counts[j]]
    /\ UNCHANGED report

Add(k) ==
    /\ k \in DOMAIN counts
    /\ counts' = [counts EXCEPT ![k] = @ + 1]
    /\ UNCHANGED report

Clear == counts' = [k \in {} |-> 0] /\ UNCHANGED report

Report == report' = {<<k, counts[k]>> : k \in DOMAIN counts} /\ UNCHANGED counts

Next == Clear \/ Report \/ \E k \in Keys : Insert(k) \/ Add(k)

Spec == Init /\ [][Next]_<<counts, report>>
=============================================================================
