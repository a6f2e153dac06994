------------------------------ MODULE RfCampaign ------------------------------
(***************************************************************************)
(* One register-file injection from the list to the run: the profile of    *)
(* the application, the sites that the list may hold, and the injector     *)
(* that gets one of them.                                                  *)
(***************************************************************************)
EXTENDS RfInjector, InstructionProfile

\* Executed and predicated-off instructions together (with_will_not_execute).
ProfileCounts == [n \in DOMAIN Profiled |-> Cardinality(CallsIn(Profiled[n]))]

Listed == Site(site, site.iid) \in Submitted(ProfileRows, ProfileCounts)

\* Every listed site is an instruction of the run: by the end of the
\* application the injector has come to it. (docs/tex/steps.tex: the dynamic
\* instruction number is mapped "back to a dynamic kernel invocation index".)
ListedSiteIsReached == phase = "exited" /\ Listed => selections # {}
=============================================================================
