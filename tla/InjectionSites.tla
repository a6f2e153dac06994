---------------------------- MODULE InjectionSites ----------------------------
(***************************************************************************)
(* How scripts/generate_injection_list.py turns an instruction profile     *)
(* into injection sites. A profile is the list of rows that the profiler   *)
(* wrote, one per launch; counts[i] is the number of instructions of row i *)
(* in the group for which sites are drawn (every instruction in RF mode).  *)
(* The instructions of all rows are numbered consecutively, a number is    *)
(* drawn, and it is mapped back to a launch and an index inside it.        *)
(***************************************************************************)
EXTENDS Integers, Sequences

\* What an injection list line holds of a site; the two seeds are drawn apart.
Site(row, iid) == [kname |-> row.kname, kcount |-> row.kcount, iid |-> iid]
NoSite == [kname |-> "", kcount |-> -1, iid |-> -1]

\* The instructions of the first i rows.
Sums(counts) ==
    LET sums[i \in 0..Len(counts)] == IF i = 0 THEN 0 ELSE sums[i - 1] + counts[i]
    IN  sums

\* get_total_counts / get_total_insts: the instructions of all rows.
Total(counts) == Sums(counts)[Len(counts)]

\* The number of the first instruction of row i.
Start(counts, i) == Sums(counts)[i - 1]

\* get_injection_site_info / get_rf_injection_site_info: the row whose numbers
\* contain n and the distance of n from the first of them.
SiteInfo(rows, counts, n) ==
    LET Holds(i) == Start(counts, i) <= n /\ n < Start(counts, i) + counts[i] IN
    IF \E i \in DOMAIN rows : Holds(i)
    THEN LET i == CHOOSE j \in DOMAIN rows : Holds(j) IN Site(rows[i], n - Start(counts, i))
    ELSE NoSite

\* random.randint(0, total_count) draws from a closed interval; a profile with
\* no instruction of the group gives an empty list.
Draws(counts) == IF Total(counts) = 0 THEN {} ELSE 0..Total(counts)

\* The lines that run_injections.py submits: one without a kernel name has
\* fewer than five fields and is skipped.
Submitted(rows, counts) == {SiteInfo(rows, counts, n) : n \in Draws(counts)} \ {NoSite}
=============================================================================
