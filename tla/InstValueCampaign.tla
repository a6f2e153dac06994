-------------------------- MODULE InstValueCampaign ---------------------------
(***************************************************************************)
(* One instruction-output value injection from the list to the run: the    *)
(* profile of the application, the sites that the list may hold, and the   *)
(* injector that gets one of them.                                         *)
(***************************************************************************)
EXTENDS InstValueInjector, InstructionProfile

\* A grid is finite.
ASSUME FiniteAssumption == IsFiniteSet(Warps) /\ IsFiniteSet(Threads)

\* What the profiler counts in launch i for the site's group: every execution
\* of an instruction of the group by a thread.
CallsIn(i) ==
    {c \in (UNION {{w} \X DOMAIN app[i].grid[w] : w \in Warps}) \X Threads :
        LET ins == app[i].grid[c[1][1]][c[1][2]]
        IN  c[2] \in ins.active /\ InGroup(ins, site.igid)}

ProfileCounts == [n \in DOMAIN Profiled |-> Cardinality(CallsIn(Profiled[n]))]

Listed == Site(site, site.iid) \in Submitted(ProfileRows, ProfileCounts)

\* An instruction of a category without a destination takes no error.
AllHaveDestinations ==
    \A i \in 1..Len(app) : IsNamedLaunch(i) =>
        \A c \in CallsIn(i) : OperandsHit(app[i].grid[c[1][1]][c[1][2]]) # {}

\* The profile and the injector count alike: a run of a listed site does not end
\* without the error, although the threads may come to the counter in another
\* order than they did in the profiled run.
ListedSiteIsInjected ==
    phase = "exited" /\ Listed /\ AllHaveDestinations => errors # {}
=============================================================================
