-------------------------- MODULE InjectorHostProofs --------------------------
(***************************************************************************)
(* The facts about the host side that the proofs of the three injectors    *)
(* share.                                                                  *)
(***************************************************************************)
EXTENDS InjectorHost, FiniteSetTheorems, TLAPS

\* The launches that knameCount has seen: those before the current call, and
\* the current one while its kernel runs.
Seen == IF phase = "kernel" THEN hpc + 1 ELSE hpc

\* knameCount is one less than the number of launches seen, until the process
\* exits; this is what makes ArmedOnlyInNamedLaunch inductive.
CountsAgree ==
    phase # "exited" =>
        \A k \in KNames : knameCount[k] = Cardinality(LaunchesBefore(Seen, k)) - 1

\* While a kernel runs, areParamsReady is the comparison of onKernelEntry.
ReadyAgrees ==
    phase = "kernel" =>
        (areParamsReady <=> app[hpc].kname = site.kname /\ knameCount[site.kname] = site.kcount)

HostInv == HostTypeOK /\ CountsAgree /\ ReadyAgrees

\* A call of the application is a launch of a known kernel or a reset.
LEMMA CallType ==
    ASSUME HostTypeOK, NEW i \in 1..Len(app)
    PROVE  /\ app \in Seq(Launches \cup Resets)
           /\ app[i] \in Launches \cup Resets
           /\ app[i].op = "launch" => app[i].kname \in KNames /\ app[i].grid \in Grids
  BY AppsAssumption DEF HostTypeOK, Launches, Resets

\* The launches of one name before a call are finitely many, and the call adds
\* itself if it launches that name.
LEMMA LaunchesBeforeNext ==
    ASSUME NEW i \in Nat \ {0}, NEW k
    PROVE  /\ IsFiniteSet(LaunchesBefore(i, k))
           /\ Cardinality(LaunchesBefore(i, k)) \in Nat
           /\ Cardinality(LaunchesBefore(i + 1, k)) =
                Cardinality(LaunchesBefore(i, k)) +
                  (IF app[i].op = "launch" /\ app[i].kname = k THEN 1 ELSE 0)
  <1>1. IsFiniteSet(LaunchesBefore(i, k))
    <2>1. IsFiniteSet(1..(i - 1))
      BY FS_Interval
    <2>2. LaunchesBefore(i, k) \subseteq 1..(i - 1)
      BY DEF LaunchesBefore
    <2>3. QED  BY <2>1, <2>2, FS_Subset
  <1>2. Cardinality(LaunchesBefore(i, k)) \in Nat
    BY <1>1, FS_CardinalityType
  <1>3. CASE app[i].op = "launch" /\ app[i].kname = k
    <2>1. LaunchesBefore(i + 1, k) = LaunchesBefore(i, k) \cup {i}
      BY <1>3 DEF LaunchesBefore
    <2>2. i \notin LaunchesBefore(i, k)
      BY DEF LaunchesBefore
    <2>3. QED  BY <1>1, <1>2, <1>3, <2>1, <2>2, FS_AddElement
  <1>4. CASE ~(app[i].op = "launch" /\ app[i].kname = k)
    <2>1. LaunchesBefore(i + 1, k) = LaunchesBefore(i, k)
      BY <1>4 DEF LaunchesBefore
    <2>2. QED  BY <1>1, <1>2, <1>4, <2>1
  <1>5. QED  BY <1>1, <1>2, <1>3, <1>4

\* The host invariant holds initially...
LEMMA HostInitInv == HostInit => HostInv
  <1> SUFFICES ASSUME HostInit PROVE HostInv
    OBVIOUS
  <1>1. HostTypeOK
    <2>1. app \in Seq(Launches \cup Resets)
      BY AppsAssumption DEF HostInit
    <2>2. Len(app) \in Nat
      BY <2>1
    <2>3. hpc \in 1..(Len(app) + 1)
      BY <2>2 DEF HostInit
    <2>4. knameCount \in [KNames -> Int]
      BY DEF HostInit
    <2>5. QED  BY <2>3, <2>4 DEF HostInit, HostTypeOK
  <1>2. \A k : LaunchesBefore(1, k) = {}
    BY DEF LaunchesBefore
  <1>3. CountsAgree
    BY <1>2, FS_EmptySet DEF HostInit, CountsAgree, Seen
  <1>4. QED  BY <1>1, <1>3 DEF HostInv, ReadyAgrees, HostInit

-----------------------------------------------------------------------------
(* ... and every step of the host preserves it.                            *)

\* ENTER of a launch counts it, so the comparison is made with the count that
\* includes the launch.
LEMMA EnterLaunchInv == HostInv /\ EnterLaunch => HostInv'
  <1> SUFFICES ASSUME HostInv, EnterLaunch PROVE HostInv'
    OBVIOUS
  <1> DEFINE k == app[hpc].kname
  <1>1. /\ hpc \in Nat \ {0} /\ hpc <= Len(app) /\ hpc \in 1..Len(app)
        /\ app[hpc].op = "launch" /\ phase = "host"
    BY CallType DEF HostInv, HostTypeOK, EnterLaunch, NextCallIs
  <1>2. k \in KNames
    BY <1>1, CallType DEF HostInv
  <1>3. knameCount' = [knameCount EXCEPT ![k] = @ + 1]
    BY DEF EnterLaunch, CountLaunch
  <1>4. HostTypeOK'
    <2>1. knameCount' \in [KNames -> Int]
      BY <1>2, <1>3 DEF HostInv, HostTypeOK
    <2>2. areParamsReady' \in BOOLEAN
      BY DEF EnterLaunch, IsTarget
    <2>3. QED  BY <1>1, <2>1, <2>2 DEF HostInv, HostTypeOK, EnterLaunch
  <1>5. CountsAgree'
    <2>1. SUFFICES ASSUME NEW n \in KNames
                   PROVE  knameCount'[n] = Cardinality(LaunchesBefore(hpc + 1, n)) - 1
      <3>1. /\ hpc' = hpc /\ app' = app /\ phase' = "kernel"
        BY DEF EnterLaunch
      <3>2. QED  BY <2>1, <3>1 DEF CountsAgree, Seen, LaunchesBefore
    <2>2. knameCount[n] = Cardinality(LaunchesBefore(hpc, n)) - 1
      BY <1>1 DEF HostInv, CountsAgree, Seen
    <2>3. /\ Cardinality(LaunchesBefore(hpc, n)) \in Nat
          /\ Cardinality(LaunchesBefore(hpc + 1, n)) =
               Cardinality(LaunchesBefore(hpc, n)) + (IF k = n THEN 1 ELSE 0)
      BY <1>1, LaunchesBeforeNext
    <2>4. knameCount'[n] = knameCount[n] + (IF k = n THEN 1 ELSE 0)
      BY <1>2, <1>3 DEF HostInv, HostTypeOK
    <2>5. QED  BY <2>2, <2>3, <2>4
  <1>6. ReadyAgrees'
    BY DEF EnterLaunch, IsTarget, ReadyAgrees
  <1>7. QED  BY <1>4, <1>5, <1>6 DEF HostInv

\* EXIT of a launch moves on to the next call, whose predecessors knameCount
\* already holds.
LEMMA LeaveLaunchInv == ASSUME NEW exits \in BOOLEAN, HostInv, LeaveLaunch(exits) PROVE HostInv'
  <1>1. phase = "kernel" /\ hpc \in Nat /\ hpc <= Len(app) /\ Len(app) \in Nat
    BY CallType DEF HostInv, HostTypeOK, LeaveLaunch
  <1>2. HostTypeOK'
    BY <1>1 DEF HostInv, HostTypeOK, LeaveLaunch
  <1>3. CountsAgree'
    BY DEF HostInv, LeaveLaunch, CountsAgree, Seen, LaunchesBefore
  <1>4. ReadyAgrees'
    BY DEF LeaveLaunch, ReadyAgrees
  <1>5. QED  BY <1>2, <1>3, <1>4 DEF HostInv

\* A device reset is no launch: the counts of the calls before the next call
\* stay right, although the device's data is gone.
LEMMA ResetDeviceInv == HostInv /\ ResetDevice => HostInv'
  <1> SUFFICES ASSUME HostInv, ResetDevice PROVE HostInv'
    OBVIOUS
  <1>1. /\ hpc \in Nat \ {0} /\ hpc <= Len(app) /\ Len(app) \in Nat
        /\ app[hpc].op = "reset" /\ phase = "host"
    BY CallType DEF HostInv, HostTypeOK, ResetDevice, NextCallIs
  <1>2. HostTypeOK'
    <2>1. /\ app' = app /\ site' = site /\ hpc' = hpc + 1 /\ phase' = phase
          /\ validData' = FALSE /\ knameCount' = knameCount /\ areParamsReady' = areParamsReady
      BY DEF ResetDevice
    <2>2. hpc' \in 1..(Len(app') + 1)
      BY <1>1, <2>1
    <2>3. QED  BY <1>1, <2>1, <2>2 DEF HostInv, HostTypeOK
  <1>3. CountsAgree'
    <2>1. SUFFICES ASSUME NEW n \in KNames
                   PROVE  knameCount[n] = Cardinality(LaunchesBefore(hpc + 1, n)) - 1
      <3>1. /\ hpc' = hpc + 1 /\ app' = app /\ phase' = phase /\ knameCount' = knameCount
        BY DEF ResetDevice
      <3>2. QED  BY <1>1, <2>1, <3>1 DEF CountsAgree, Seen, LaunchesBefore
    <2>2. knameCount[n] = Cardinality(LaunchesBefore(hpc, n)) - 1
      BY <1>1 DEF HostInv, CountsAgree, Seen
    <2>3. Cardinality(LaunchesBefore(hpc + 1, n)) = Cardinality(LaunchesBefore(hpc, n))
      BY <1>1, LaunchesBeforeNext, SMTT(30)
    <2>4. QED  BY <2>2, <2>3
  <1>4. ReadyAgrees'
    BY <1>1 DEF ResetDevice, ReadyAgrees
  <1>5. QED  BY <1>2, <1>3, <1>4 DEF HostInv

LEMMA HostStepInv == HostInv /\ (HostStep \/ UNCHANGED hostVars) => HostInv'
  <1> SUFFICES ASSUME HostInv, HostStep \/ UNCHANGED hostVars PROVE HostInv'
    OBVIOUS
  <1>1. CASE EnterLaunch
    BY <1>1, EnterLaunchInv
  <1>2. CASE ResetDevice
    BY <1>2, ResetDeviceInv
  <1>3. CASE ReturnFromMain
    BY <1>3 DEF ReturnFromMain, HostInv, HostTypeOK, CountsAgree, ReadyAgrees
  <1>4. ASSUME NEW exits \in BOOLEAN, LeaveLaunch(exits) PROVE HostInv'
    BY <1>4, LeaveLaunchInv
  <1>5. CASE UNCHANGED hostVars
    BY <1>5 DEF hostVars, HostInv, HostTypeOK, CountsAgree, ReadyAgrees, Seen, LaunchesBefore
  <1>6. QED  BY <1>1, <1>2, <1>3, <1>4, <1>5 DEF HostStep

\* The invariant implies the property: while the kernel of launch hpc runs,
\* knameCount holds the number of earlier launches of its name.
LEMMA HostInvImpliesArmed == HostInv => ArmedOnlyInNamedLaunch
  <1> SUFFICES ASSUME HostInv, phase = "kernel"
               PROVE  areParamsReady <=> IsNamedLaunch(hpc)
    BY DEF ArmedOnlyInNamedLaunch
  <1>1. /\ hpc \in Nat \ {0} /\ hpc \in 1..Len(app)
        /\ app[hpc].op = "launch" /\ site \in Sites
    BY CallType DEF HostInv, HostTypeOK
  <1>2. app[hpc].kname \in KNames /\ site.kname \in KNames /\ site.kcount \in Nat
    BY <1>1, CallType, SitesAssumption DEF HostInv
  <1>3. CASE app[hpc].kname = site.kname
    <2>1. knameCount[site.kname] = Cardinality(LaunchesBefore(hpc + 1, site.kname)) - 1
      BY <1>2 DEF HostInv, CountsAgree, Seen
    <2>2. /\ Cardinality(LaunchesBefore(hpc, site.kname)) \in Nat
          /\ Cardinality(LaunchesBefore(hpc + 1, site.kname)) =
               Cardinality(LaunchesBefore(hpc, site.kname)) + 1
      BY <1>1, <1>3, LaunchesBeforeNext
    <2>3. knameCount[site.kname] = Cardinality(LaunchesBefore(hpc, site.kname))
      BY <2>1, <2>2
    <2>4. QED  BY <1>1, <1>3, <2>3 DEF HostInv, ReadyAgrees, IsNamedLaunch
  <1>4. CASE app[hpc].kname # site.kname
    BY <1>1, <1>4 DEF HostInv, ReadyAgrees, IsNamedLaunch
  <1>5. QED  BY <1>3, <1>4
=============================================================================
