------------------------ MODULE InstValueInjectorProofs ------------------------
(***************************************************************************)
(* Proofs of the safety properties of InstValueInjector, for every         *)
(* application, grid, warp size, instruction set and site: however the     *)
(* threads interleave around the counter, the error goes to one dynamic    *)
(* warp instruction and to the threads and bits of its model; and of       *)
(* InstValueCampaign: a listed site gets the error.                        *)
(***************************************************************************)
EXTENDS InstValueCampaign, InjectorHostProofs, WellFoundedInduction

\* The kernel that runs is the one the site names.
InTarget == phase = "kernel" /\ areParamsReady

\* The call of thread u, still in the handler, is the call number iid.
Holder(u) == at[u] # "count" /\ old[u] = site.iid

\* The instruction of the thread has an operand that the error can go to.
CanBeHit(t) == OperandsHit(Instruction(WarpOf[t])) # {}

\* A thread in the handler executes an instruction of the group, and the values
\* that the threads in the handler took are different.
CallsInv ==
    /\ \A t \in Threads : at[t] # "count" => areParamsReady /\ old[t] < injCounter
    /\ \A t, u \in Threads : t # u /\ at[t] # "count" /\ at[u] # "count" => old[t] # old[u]
    /\ phase = "kernel" =>
          \A t \in Threads : at[t] # "count" =>
              /\ ~Finished(WarpOf[t])
              /\ t \in Instruction(WarpOf[t]).active
              /\ InGroup(Instruction(WarpOf[t]), site.igid)

\* An error was made as the site says, and the target launch is entered without
\* one, since knameCount passes site.kcount only once.
Described(e) ==
    /\ IsNamedLaunch(e.launch)
    /\ InstructionOf(e) \in Instructions
    /\ e.tid \in InstructionOf(e).active
    /\ InGroup(InstructionOf(e), site.igid)
    /\ e.operand \in OperandsHit(InstructionOf(e))
    /\ e.effect = EffectOn(e.operand)
    /\ e.bits \in Flipped(e.operand, InstructionOf(e))

SameInstruction(e, f) == e.launch = f.launch /\ e.pc = f.pc /\ WarpOf[e.tid] = WarpOf[f.tid]

ErrorsInv ==
    /\ errors # {} => knameCount[site.kname] >= site.kcount
    /\ \A e \in errors : Described(e)
    /\ \A e, f \in errors : SameInstruction(e, f)

\* A thread injects only while the holder of iid is in the handler of the same
\* warp, past the vote, and the holder stays there until the warp goes on.
HeldIn(w) == \E u \in Threads : WarpOf[u] = w /\ Holder(u) /\ at[u] # "vote"

HolderInv ==
    InTarget =>
        /\ \A t \in Threads : at[t] = "inject" => HeldIn(WarpOf[t])
        /\ \A e \in errors :
              /\ e.launch = hpc /\ injCounter > site.iid
              /\ e.pc <= wpc[WarpOf[e.tid]]
              /\ e.pc = wpc[WarpOf[e.tid]] => HeldIn(WarpOf[e.tid])
              /\ e.pc < wpc[WarpOf[e.tid]] => \A u \in Threads : ~Holder(u)

\* Without a vote only the holder injects, once.
ThreadInv ==
    ~Votes =>
        /\ \A e, f \in errors : e = f
        /\ InTarget => \A t \in Threads :
              /\ at[t] # "vote"
              /\ at[t] = "inject" => Holder(t) /\ errors = {}

\* With a vote, when the holder has been heard, every active thread of the warp is
\* about to inject or has injected.
Heard(t) ==
    /\ at[t] \in {"inject", "done"}
    /\ at[t] = "done" /\ CanBeHit(t) => \E e \in errors : e.tid = t

VoteInv ==
    InTarget /\ Votes =>
        /\ \A t \in Threads :
              HeldIn(WarpOf[t]) /\ t \in Instruction(WarpOf[t]).active => Heard(t)
        /\ \A e \in errors :
              e.pc < wpc[WarpOf[e.tid]] => {f.tid : f \in errors} = InstructionOf(e).active

IInv == TypeOK /\ HostInv /\ CallsInv /\ ErrorsInv /\ HolderInv /\ ThreadInv /\ VoteInv
-----------------------------------------------------------------------------
(* What the handler makes of a site.                                       *)

\* The seeds of a site, and what is known of its group and model.
LEMMA SiteType ==
    ASSUME site \in Sites
    PROVE  /\ site.kname \in KNames /\ site.kcount \in Nat /\ site.iid \in Nat
           /\ site.opSeed \in Nat /\ site.opSeed < SeedMax
           /\ site.bidSeed \in Nat /\ site.bidSeed < SeedMax
           /\ SeedMax \in Nat /\ SeedMax > 0
           /\ site.igid \in Groups /\ site.bfm \in Supported(site.igid)
           /\ site.bfm \in ThreadModels \cup WarpModels
<1>1. site.kname \in KNames /\ site.kcount \in Nat /\ site.iid \in Nat
  BY SitesAssumption
<1>2. SeedMax \in Nat /\ SeedMax > 0 /\ {site.opSeed, site.bidSeed} \subseteq 0..(SeedMax - 1)
  BY SeedsAssumption
<1>3. site.igid \in Groups /\ site.bfm \in Supported(site.igid)
  BY ModelsAssumption
<1>4. site.bfm \in ThreadModels \cup WarpModels
  BY <1>3 DEF Supported, ThreadModels, WarpModels
<1>5. QED  BY <1>1, <1>2, <1>3, <1>4

\* get_int_inj_id maps a seed below 1 to a number below n.
LEMMA IntInjIdRange ==
    ASSUME NEW n \in Nat, n > 0, NEW seed \in Nat, SeedMax \in Nat, seed < SeedMax
    PROVE  IntInjId(n, seed) \in Nat /\ IntInjId(n, seed) < n
<1> DEFINE m == SeedMax
           q == (n * seed) \div m
<1>1. m \in Nat /\ m > 0
  OBVIOUS
<1>2. n * seed \in Nat /\ n * seed < n * m
  BY <1>1, SMTT(30)
<1>3. q \in Nat /\ m * q <= n * seed
  BY <1>1, <1>2, SMTT(30)
<1>4. q < n
  BY <1>1, <1>2, <1>3, SMTT(30)
<1>5. QED  BY <1>3, <1>4 DEF IntInjId

\* What an instruction of a group has.
LEMMA GroupMeans ==
    ASSUME NEW ins
    PROVE  /\ InGroup(ins, "GPR") => ins.gprs > 0
           /\ InGroup(ins, "PR") => ins.pr # {}
           /\ InGroup(ins, "STORE_OP") => ins.store > 0
<1>1. InGroup(ins, "GPR") => ins.gprs > 0
  BY Zenon DEF InGroup
<1>2. InGroup(ins, "PR") => ins.pr # {}
  BY Zenon DEF InGroup
<1>3. InGroup(ins, "STORE_OP") => ins.store > 0
  BY Zenon DEF InGroup
<1>4. QED  BY <1>1, <1>2, <1>3

\* An error has one operand: the vote and the seeds decide nothing twice.
LEMMA OperandOfGroup ==
    ASSUME site \in Sites, NEW ins \in Instructions, InGroup(ins, site.igid),
           NEW o \in OperandsHit(ins)
    PROVE  /\ OperandsHit(ins) = {o}
           /\ o \in Operands
           /\ o.kind = "MEM" => ins.store > 0
           /\ o.kind = "PR" => ins.pr # {}
<1>1. /\ ins.gprs \in Nat /\ ins.gprs <= MaxDsts /\ ins.cc \in BOOLEAN
      /\ ins.pr \subseteq 0..6 /\ MaxDsts \in Nat
  BY WidthsAssumption DEF Instructions
<1>2. site.opSeed \in Nat /\ site.opSeed < SeedMax /\ SeedMax \in Nat /\ SeedMax > 0
  BY SiteType
<1>3. CASE site.igid = "GPR"
  <2>1. OperandsHit(ins) = {GPR(IntInjId(ins.gprs, site.opSeed))}
    BY Zenon, <1>3 DEF OperandsHit
  <2>2. ins.gprs > 0
    BY <1>3, GroupMeans
  <2>3. IntInjId(ins.gprs, site.opSeed) \in 0..MaxDsts
    BY <1>1, <1>2, <2>2, IntInjIdRange
  <2>4. QED  BY <2>1, <2>3 DEF GPR, Operands
<1>4. CASE site.igid = "CC"
  <2>1. OperandsHit(ins) = {CC}
    BY Zenon, <1>4 DEF OperandsHit
  <2>2. QED  BY <2>1 DEF CC, Operands
<1>5. CASE site.igid = "PR"
  <2>1. OperandsHit(ins) = {PR}
    BY Zenon, <1>5 DEF OperandsHit
  <2>2. ins.pr # {}
    BY <1>5, GroupMeans
  <2>3. QED  BY <2>1, <2>2 DEF PR, Operands
<1>6. CASE site.igid = "STORE_OP"
  <2>1. OperandsHit(ins) = {MEM}
    BY Zenon, <1>6 DEF OperandsHit
  <2>2. ins.store > 0
    BY <1>6, GroupMeans
  <2>3. QED  BY <2>1, <2>2 DEF MEM, Operands
<1>7. CASE /\ site.igid # "GPR" /\ site.igid # "CC" /\ site.igid # "PR"
           /\ site.igid # "STORE_OP"
  <2> DEFINE id == IntInjId(NumDestOps(ins), site.opSeed)
  <2>1. OperandsHit(ins) =
           IF NumDestOps(ins) = 0 THEN {}
           ELSE IF id < ins.gprs THEN {GPR(id)}
           ELSE IF id - ins.gprs + 1 = (IF ins.cc THEN 1 ELSE 0) THEN {CC}
           ELSE {PR}
    BY Zenon, <1>7 DEF OperandsHit
  <2>2. NumDestOps(ins) = 1 /\ (ins.gprs > 0 \/ ins.cc \/ ins.pr # {})
    BY <2>1 DEF NumDestOps
  <2>3. id = 0
    BY <1>2, <2>2, IntInjIdRange
  <2> HIDE DEF id
  <2>4. CASE ins.gprs > 0
    <3>1. OperandsHit(ins) = {GPR(0)}
      BY <1>1, <2>1, <2>2, <2>3, <2>4
    <3>2. QED  BY <1>1, <3>1 DEF GPR, Operands
  <2>5. CASE ins.gprs = 0 /\ ins.cc
    <3>1. OperandsHit(ins) = {CC}
      BY <2>1, <2>2, <2>3, <2>5
    <3>2. QED  BY <3>1 DEF CC, Operands
  <2>6. CASE ins.gprs = 0 /\ ~ins.cc
    <3>1. OperandsHit(ins) = {PR} /\ ins.pr # {}
      BY <2>1, <2>2, <2>3, <2>6
    <3>2. QED  BY <3>1 DEF PR, Operands
  <2>7. QED  BY <1>1, <2>4, <2>5, <2>6
<1>8. QED  BY <1>3, <1>4, <1>5, <1>6, <1>7

\* The effect of each model.
LEMMA EffectRange ==
    ASSUME site \in Sites, NEW o \in Operands
    PROVE  /\ EffectOn(o) \in Effects
           /\ o.kind \in {"GPR", "MEM"} /\ EffectOn(o) = "flip1" => FlipMask(site.bfm) = {0}
           /\ o.kind \in {"GPR", "MEM"} /\ EffectOn(o) = "flip2" => FlipMask(site.bfm) = {0, 1}
           /\ o.kind \in {"CC", "PR"} => EffectOn(o) # "flip2"
           /\ o.kind = "GPR" => EffectOn(o) = EffectOf(site.bfm)
<1> DEFINE b == site.bfm
<1>1. b \in {"FLIP_SINGLE_BIT", "FLIP_TWO_BITS", "RANDOM_VALUE", "ZERO_VALUE",
             "WARP_FLIP_SINGLE_BIT", "WARP_FLIP_TWO_BITS", "WARP_RANDOM_VALUE", "WARP_ZERO_VALUE"}
  BY SiteType DEF ThreadModels, WarpModels
<1> HIDE DEF b
<1>2. CASE b \in {"FLIP_SINGLE_BIT", "WARP_FLIP_SINGLE_BIT"}
  <2>1. EffectOf(b) = "flip1"
    BY Zenon, <1>2 DEF EffectOf
  <2>2. FlipMask(b) = {0}
    BY <1>2 DEF FlipMask
  <2>3. QED  BY <2>1, <2>2 DEF EffectOn, Effects, Operands, b
<1>3. CASE b \in {"FLIP_TWO_BITS", "WARP_FLIP_TWO_BITS"}
  <2>1. EffectOf(b) = "flip2"
    BY Zenon, <1>3 DEF EffectOf
  <2>2. FlipMask(b) = {0, 1}
    BY <1>3 DEF FlipMask
  <2>3. QED  BY <2>1, <2>2 DEF EffectOn, Effects, Operands, b
<1>4. CASE b \in {"RANDOM_VALUE", "WARP_RANDOM_VALUE"}
  <2>1. EffectOf(b) = "random"
    BY Zenon, <1>4 DEF EffectOf
  <2>2. QED  BY <2>1 DEF EffectOn, Effects, Operands, b
<1>5. CASE b \in {"ZERO_VALUE", "WARP_ZERO_VALUE"}
  <2>1. EffectOf(b) = "zero"
    BY Zenon, <1>5 DEF EffectOf
  <2>2. QED  BY <2>1 DEF EffectOn, Effects, Operands, b
<1>6. QED  BY <1>1, <1>2, <1>3, <1>4, <1>5

\* A mask of one bit, shifted by less than the width, is one bit; a mask of two is
\* two, unless the shift puts the upper one beyond the word.
LEMMA ShiftedMask ==
    ASSUME NEW n \in Nat, NEW width \in Nat, n < width
    PROVE  /\ Shift({0}, n, width) = {n}
           /\ n + 1 < width => Shift({0, 1}, n, width) = {n, n + 1}
<1>1. {b + n : b \in {0}} = {n} /\ {b + n : b \in {0, 1}} = {n, n + 1}
  OBVIOUS
<1>2. n \in 0..(width - 1) /\ (n + 1 < width => n + 1 \in 0..(width - 1))
  OBVIOUS
<1>3. QED  BY <1>1, <1>2 DEF Shift

\* Whatever the shift, the result is a set of bit numbers.
LEMMA ShiftIsBits ==
    ASSUME NEW mask, NEW n, NEW width \in Int
    PROVE  Shift(mask, n, width) \subseteq Nat
BY DEF Shift

\* A pair of words: the mask lies in the lower or in the upper word, or, at the top
\* bit of the lower one, its upper bit is lost or thrown to the top of the pair.
LEMMA QuadShiftedMask ==
    ASSUME NEW half \in Nat, half > 0, NEW n \in Nat, n < 2 * half
    PROVE  /\ QuadShift({0}, n, half) = {{n}}
           /\ n + 1 < 2 * half /\ n # half - 1 => QuadShift({0, 1}, n, half) = {{n, n + 1}}
           /\ \A mask, b : b \in QuadShift(mask, n, half) => b \subseteq Nat
<1>1. CASE n >= half
  <2> DEFINE k == n - half
             Upper(bits) == {b + half : b \in bits}
  <2>1. k \in Nat /\ k < half
    BY <1>1
  <2>2. \A mask : QuadShift(mask, n, half) = {Upper(Shift(mask, k, half))}
    <3>1. ~(n = half - 1)
      BY <1>1
    <3>2. QED  BY Zenon, <1>1, <3>1 DEF QuadShift
  <2>3. Shift({0}, k, half) = {k} /\ (k + 1 < half => Shift({0, 1}, k, half) = {k, k + 1})
    BY <2>1, ShiftedMask
  <2>4. Upper({k}) = {n} /\ Upper({k, k + 1}) = {n, n + 1}
    <3>1. k + half = n /\ k + 1 + half = n + 1
      BY <2>1
    <3>2. QED  BY <3>1
  <2>5. \A mask : Shift(mask, k, half) \subseteq Nat
    BY ShiftIsBits
  <2>6. \A mask : Upper(Shift(mask, k, half)) \subseteq Nat
    BY <2>5
  <2> HIDE DEF k, Upper
  <2>7. n + 1 < 2 * half => k + 1 < half
    BY <1>1 DEF k
  <2>8. QuadShift({0}, n, half) = {{n}}
    BY <2>2, <2>3, <2>4
  <2>9. n + 1 < 2 * half => QuadShift({0, 1}, n, half) = {{n, n + 1}}
    BY <2>2, <2>3, <2>4, <2>7
  <2>10. \A mask, b : b \in QuadShift(mask, n, half) => b \subseteq Nat
    BY <2>2, <2>6
  <2>11. QED  BY <2>8, <2>9, <2>10
<1>2. CASE n = half - 1
  <2>1. \A mask : mask # {0} =>
           QuadShift(mask, n, half) = {{n}, {n} \cup {b + half : b \in {half - 1}}}
    <3>1. ~(n >= half)
      BY <1>2
    <3>2. QED  BY Zenon, <1>2, <3>1 DEF QuadShift
  <2>2. QuadShift({0}, n, half) = {Shift({0}, n, half)}
    <3>1. ~(n >= half)
      BY <1>2
    <3>2. QED  BY Zenon, <3>1 DEF QuadShift
  <2>3. Shift({0}, n, half) = {n}
    BY <1>2, ShiftedMask
  <2>4. {b + half : b \in {half - 1}} \subseteq Nat
    OBVIOUS
  <2>5. ASSUME NEW mask, NEW b \in QuadShift(mask, n, half)
        PROVE  b \subseteq Nat
    <3>1. CASE mask = {0}
      BY <2>2, <2>3, <2>5, <3>1
    <3>2. CASE mask # {0}
      <4> DEFINE top == {c + half : c \in {half - 1}}
      <4>1. b = {n} \/ b = {n} \cup top
        BY <2>1, <2>5, <3>2
      <4>2. top \subseteq Nat
        BY <2>4
      <4> HIDE DEF top
      <4>3. QED  BY <4>1, <4>2
    <3>3. QED  BY <3>1, <3>2
  <2>6. QED  BY <1>2, <2>2, <2>3, <2>5
<1>3. CASE n < half - 1
  <2>1. \A mask : QuadShift(mask, n, half) = {Shift(mask, n, half)}
    <3>1. ~(n >= half) /\ ~(n = half - 1)
      BY <1>3
    <3>2. QED  BY Zenon, <3>1 DEF QuadShift
  <2>2. Shift({0}, n, half) = {n} /\ Shift({0, 1}, n, half) = {n, n + 1}
    BY <1>3, ShiftedMask
  <2>3. \A mask, b : b \in QuadShift(mask, n, half) => b \subseteq Nat
    <3>1. \A mask : Shift(mask, n, half) \subseteq Nat
      BY ShiftIsBits
    <3>2. QED  BY <2>1, <3>1
  <2>4. QuadShift({0}, n, half) = {{n}} /\ QuadShift({0, 1}, n, half) = {{n, n + 1}}
    BY <2>1, <2>2
  <2>5. QED  BY <2>3, <2>4
<1>4. QED  BY <1>1, <1>2, <1>3

\* The lowest of the predicates that an instruction writes.
LEMMA InjMaskIsOne ==
    ASSUME NEW mask \in SUBSET (0..6), mask # {}
    PROVE  \E n \in Nat : InjMask(mask) = {n}
<1>1. \E b \in mask : \A c \in mask : b <= c
  <2>1. CASE mask \cap {0, 1, 2} # {}
    <3>1. CASE 0 \in mask
      BY <3>1
    <3>2. CASE 0 \notin mask /\ 1 \in mask
      BY <3>2
    <3>3. CASE 0 \notin mask /\ 1 \notin mask /\ 2 \in mask
      BY <3>3
    <3>4. QED  BY <2>1, <3>1, <3>2, <3>3
  <2>2. CASE mask \subseteq {3, 4, 5, 6}
    <3>1. CASE 3 \in mask
      BY <2>2, <3>1
    <3>2. CASE 3 \notin mask /\ 4 \in mask
      BY <2>2, <3>2
    <3>3. CASE mask \subseteq {5, 6} /\ 5 \in mask
      BY <3>3
    <3>4. CASE mask = {6}
      BY <3>4
    <3>5. QED  BY <2>2, <3>1, <3>2, <3>3, <3>4
  <2>3. mask \cap {0, 1, 2} # {} \/ mask \subseteq {3, 4, 5, 6}
    OBVIOUS
  <2>4. QED  BY <2>1, <2>2, <2>3
<1> DEFINE low == CHOOSE b \in mask : \A c \in mask : b <= c
<1>2. low \in mask
  BY <1>1
<1>3. InjMask(mask) = {low}
  BY Zenon DEF InjMask
<1> HIDE DEF low
<1>4. QED  BY <1>2, <1>3

\* The bits of an error are those that its model promises.
LEMMA FlippedBits ==
    ASSUME site \in Sites, NEW ins \in Instructions, InGroup(ins, site.igid),
           NEW o \in OperandsHit(ins), NEW bits \in Flipped(o, ins)
    PROVE  /\ bits \subseteq Nat
           /\ EffectOn(o) = "flip1" => Cardinality(bits) = 1
           /\ EffectOn(o) = "flip2" /\ (o.kind = "MEM" => HasNeighbour(ins)) =>
                 \E n \in bits : bits = {n, n + 1}
<1>1. o \in Operands /\ (o.kind = "MEM" => ins.store > 0) /\ (o.kind = "PR" => ins.pr # {})
  BY OperandOfGroup
<1>2. o.kind \in {"GPR", "CC", "PR", "MEM"}
  BY <1>1 DEF Operands
<1>3. /\ site.bidSeed \in Nat /\ site.bidSeed < SeedMax /\ SeedMax \in Nat
  BY SiteType
<1>4. GprBits \in Nat /\ GprBits > 1 /\ LongBits \in Nat /\ LongBits > 0
  BY WidthsAssumption
<1>5. \A n : Cardinality({n}) = 1
  BY FS_Singleton
<1>6. /\ o.kind \in {"GPR", "MEM"} /\ EffectOn(o) = "flip1" => FlipMask(site.bfm) = {0}
      /\ o.kind \in {"GPR", "MEM"} /\ EffectOn(o) = "flip2" => FlipMask(site.bfm) = {0, 1}
      /\ o.kind \in {"CC", "PR"} => EffectOn(o) # "flip2"
      /\ o.kind = "GPR" => EffectOn(o) = EffectOf(site.bfm)
  BY <1>1, EffectRange
<1>7. CASE EffectOn(o) \notin {"flip1", "flip2"}
  <2>1. Flipped(o, ins) = {{}}
    BY Zenon, <1>7 DEF Flipped
  <2>2. QED  BY <1>7, <2>1
<1>8. CASE EffectOn(o) \in {"flip1", "flip2"} /\ o.kind = "GPR"
  <2> DEFINE w == IF EffectOf(site.bfm) = "flip2" THEN GprBits - 1 ELSE GprBits
             n == IntInjId(w, site.bidSeed)
  <2>1. bits = GprShift
    <3>1. Flipped(o, ins) = {GprShift}
      BY Zenon, <1>8 DEF Flipped
    <3>2. QED  BY <3>1
  <2>2. GprShift = Shift(FlipMask(site.bfm), n, GprBits)
    BY DEF GprShift
  <2>3. n \in Nat /\ n < w
    BY <1>3, <1>4, IntInjIdRange
  <2> HIDE DEF n
  <2>4. CASE EffectOn(o) = "flip1"
    <3>1. bits = {n}
      BY <1>4, <1>6, <1>8, <2>1, <2>2, <2>3, <2>4, ShiftedMask
    <3>2. QED  BY <1>5, <2>3, <2>4, <3>1
  <2>5. CASE EffectOn(o) = "flip2"
    <3>1. w = GprBits - 1 /\ FlipMask(site.bfm) = {0, 1}
      BY <1>6, <1>8, <2>5
    <3>2. n + 1 < GprBits
      BY <1>4, <2>3, <3>1
    <3>3. bits = {n, n + 1}
      BY <1>4, <2>1, <2>2, <2>3, <3>1, <3>2, ShiftedMask
    <3>4. QED  BY <2>3, <2>5, <3>3
  <2>6. QED  BY <1>8, <2>4, <2>5
<1>9. CASE EffectOn(o) \in {"flip1", "flip2"} /\ o.kind = "CC"
  <2> DEFINE n == IntInjId(4, site.bidSeed)
  <2>1. bits = Shift({0}, n, 4)
    <3>1. Flipped(o, ins) = {Shift({0}, n, 4)}
      BY Zenon, <1>9 DEF Flipped
    <3>2. QED  BY <3>1
  <2>2. n \in Nat /\ n < 4
    BY <1>3, IntInjIdRange
  <2> HIDE DEF n
  <2>3. bits = {n}
    BY <2>1, <2>2, ShiftedMask
  <2>4. QED  BY <1>5, <1>6, <1>9, <2>2, <2>3
<1>10. CASE EffectOn(o) \in {"flip1", "flip2"} /\ o.kind = "PR"
  <2>1. bits = InjMask(ins.pr)
    <3>1. Flipped(o, ins) = {InjMask(ins.pr)}
      BY Zenon, <1>10 DEF Flipped
    <3>2. QED  BY <3>1
  <2>2. ins.pr \subseteq 0..6 /\ ins.pr # {}
    BY <1>1, <1>10 DEF Instructions
  <2>3. PICK n \in Nat : bits = {n}
    BY <2>1, <2>2, InjMaskIsOne
  <2>4. QED  BY <1>5, <1>6, <1>10, <2>3
<1>11. CASE EffectOn(o) \in {"flip1", "flip2"} /\ o.kind = "MEM"
  <2> DEFINE n == IntInjId(ins.store, site.bidSeed)
             mask == FlipMask(site.bfm)
  <2>1. bits \in IF ins.store <= LongBits THEN {Shift(mask, n, ins.store)}
                 ELSE QuadShift(mask, n, LongBits)
    <3>1. Flipped(o, ins) = IF ins.store <= LongBits THEN {Shift(mask, n, ins.store)}
                            ELSE QuadShift(mask, n, LongBits)
      BY Zenon, <1>11 DEF Flipped
    <3>2. QED  BY <3>1
  <2>2. ins.store \in Nat /\ ins.store > 0 /\ ins.store <= 2 * LongBits
    BY <1>1, <1>4, <1>11 DEF Instructions
  <2>3. n \in Nat /\ n < ins.store
    BY <1>3, <2>2, IntInjIdRange
  <2>4. HasNeighbour(ins) => n # ins.store - 1 /\ ~(ins.store > LongBits /\ n = LongBits - 1)
    BY DEF HasNeighbour
  <2> HIDE DEF n, mask
  <2>5. CASE EffectOn(o) = "flip1"
    <3>1. mask = {0}
      BY <1>6, <1>11, <2>5 DEF mask
    <3>2. bits = {n}
      <4>1. CASE ins.store <= LongBits
        BY <2>1, <2>2, <2>3, <3>1, <4>1, ShiftedMask
      <4>2. CASE ~(ins.store <= LongBits)
        BY <1>4, <2>1, <2>2, <2>3, <3>1, <4>2, QuadShiftedMask
      <4>3. QED  BY <4>1, <4>2
    <3>3. QED  BY <1>5, <2>3, <2>5, <3>2
  <2>6. CASE EffectOn(o) = "flip2"
    <3>1. mask = {0, 1}
      BY <1>6, <1>11, <2>6 DEF mask
    <3>2. bits \subseteq Nat
      <4>1. CASE ins.store <= LongBits
        BY <2>1, <2>2, <4>1, ShiftIsBits
      <4>2. CASE ~(ins.store <= LongBits)
        BY <1>4, <2>1, <2>2, <2>3, <4>2, QuadShiftedMask
      <4>3. QED  BY <4>1, <4>2
    <3>3. ASSUME HasNeighbour(ins)
          PROVE  bits = {n, n + 1}
      <4>1. CASE ins.store <= LongBits
        BY <2>1, <2>2, <2>3, <2>4, <3>1, <3>3, <4>1, ShiftedMask
      <4>2. CASE ~(ins.store <= LongBits)
        BY <1>4, <2>1, <2>2, <2>3, <2>4, <3>1, <3>3, <4>2, QuadShiftedMask
      <4>3. QED  BY <4>1, <4>2
    <3>4. QED  BY <1>11, <2>3, <2>6, <3>2, <3>3
  <2>7. QED  BY <1>11, <2>5, <2>6
<1>12. QED  BY <1>2, <1>7, <1>8, <1>9, <1>10, <1>11

-----------------------------------------------------------------------------
(* The program and the site are fixed, so what is said of them stays true.  *)

\* The site alone decides the vote, the operand, the effect and the bits.
LEMMA SiteFrame ==
    ASSUME site' = site
    PROVE  /\ Votes' <=> Votes
           /\ \A ins : OperandsHit(ins)' = OperandsHit(ins)
           /\ \A o : EffectOn(o)' = EffectOn(o)
           /\ \A o \in Operands : \A ins : Flipped(o, ins)' = Flipped(o, ins)
<1>1. Votes' <=> Votes
  BY DEF Votes
<1>2. ASSUME NEW ins
      PROVE  OperandsHit(ins)' = OperandsHit(ins)
  BY Zenon DEF OperandsHit
<1>3. ASSUME NEW o
      PROVE  EffectOn(o)' = EffectOn(o)
  BY Zenon DEF EffectOn
<1>4. ASSUME NEW o \in Operands, NEW ins
      PROVE  Flipped(o, ins)' = Flipped(o, ins)
  <2>1. GprShift' = GprShift
    BY Zenon DEF GprShift
  <2>2. CASE EffectOn(o) \notin {"flip1", "flip2"}
    <3>1. Flipped(o, ins) = {{}} /\ Flipped(o, ins)' = {{}}
      BY Zenon, <1>3, <2>2 DEF Flipped
    <3>2. QED  BY <3>1
  <2>3. CASE EffectOn(o) \in {"flip1", "flip2"}
    <3> DEFINE Store(k, b) == IF ins.store <= LongBits THEN {Shift(FlipMask(b), k, ins.store)}
                              ELSE QuadShift(FlipMask(b), k, LongBits)
    <3>1. CASE o.kind = "GPR"
      <4>1. Flipped(o, ins) = {GprShift} /\ Flipped(o, ins)' = {GprShift}'
        BY Zenon, <1>3, <2>3, <3>1 DEF Flipped
      <4>2. QED  BY <2>1, <4>1
    <3>2. CASE o.kind = "CC"
      <4>1. Flipped(o, ins) = {Shift({0}, IntInjId(4, site.bidSeed), 4)}
        BY Zenon, <2>3, <3>2 DEF Flipped
      <4>2. Flipped(o, ins)' = {Shift({0}, IntInjId(4, site'.bidSeed), 4)}
        BY Zenon, <1>3, <2>3, <3>2 DEF Flipped
      <4>3. QED  BY Zenon, <4>1, <4>2
    <3>3. CASE o.kind = "PR"
      <4>1. Flipped(o, ins) = {InjMask(ins.pr)} /\ Flipped(o, ins)' = {InjMask(ins.pr)}
        BY Zenon, <1>3, <2>3, <3>3 DEF Flipped
      <4>2. QED  BY <4>1
    <3>4. CASE o.kind = "MEM"
      <4>1. Flipped(o, ins) = Store(IntInjId(ins.store, site.bidSeed), site.bfm)
        BY Zenon, <2>3, <3>4 DEF Flipped
      <4>2. Flipped(o, ins)' = Store(IntInjId(ins.store, site'.bidSeed), site'.bfm)
        BY Zenon, <1>3, <2>3, <3>4 DEF Flipped
      <4>3. QED  BY Zenon, <4>1, <4>2
    <3>5. QED  BY <3>1, <3>2, <3>3, <3>4 DEF Operands
  <2>4. QED  BY <2>2, <2>3
<1>5. QED  BY <1>1, <1>2, <1>3, <1>4

\* The instruction of an error, and how the error came to be, do not change.
LEMMA ProgramFrame ==
    ASSUME app' = app, site' = site
    PROVE  /\ \A e : InstructionOf(e)' = InstructionOf(e)
           /\ \A e : e.operand \in Operands /\ Described(e) => Described(e)'
<1>1. ASSUME NEW e
      PROVE  InstructionOf(e)' = InstructionOf(e)
  BY DEF InstructionOf
<1>2. ASSUME NEW i
      PROVE  IsNamedLaunch(i)' <=> IsNamedLaunch(i)
  BY DEF IsNamedLaunch, LaunchesBefore
<1>3. ASSUME NEW e, Described(e), e.operand \in Operands
      PROVE  Described(e)'
  BY Zenon, <1>1, <1>2, <1>3, SiteFrame DEF Described
<1>4. QED  BY <1>1, <1>3

\* The instruction a warp is at is executed by threads of the warp.
LEMMA InstructionType ==
    ASSUME TypeOK, phase = "kernel", NEW w \in Warps
    PROVE  /\ Len(Code(w)) \in Nat /\ wpc[w] \in Nat
           /\ ~Finished(w) =>
                /\ Instruction(w) \in Instructions
                /\ \A t \in Instruction(w).active : t \in Threads /\ WarpOf[t] = w
<1>1. hpc \in 1..Len(app) /\ app[hpc].op = "launch"
  BY CallType DEF TypeOK, HostTypeOK
<1>2. app[hpc].grid \in Grids
  BY <1>1, CallType DEF TypeOK
<1>3. /\ app[hpc].grid \in [Warps -> Seq(Instructions)]
      /\ \A p \in DOMAIN app[hpc].grid[w] : \A t \in app[hpc].grid[w][p].active : WarpOf[t] = w
  BY <1>2, GridsAssumption
<1>4. Code(w) \in Seq(Instructions) /\ Len(Code(w)) \in Nat /\ DOMAIN Code(w) = 1..Len(Code(w))
  BY <1>3 DEF Code
<1>5. wpc[w] \in Nat \ {0}
  BY DEF TypeOK
<1>6. ASSUME ~Finished(w)
      PROVE  wpc[w] \in DOMAIN Code(w)
  BY <1>4, <1>5, <1>6 DEF Finished
<1>7. ASSUME ~Finished(w)
      PROVE  /\ Instruction(w) \in Instructions
             /\ \A t \in Instruction(w).active : t \in Threads /\ WarpOf[t] = w
  <2>1. Instruction(w) \in Instructions
    BY <1>4, <1>6, <1>7 DEF Instruction
  <2>2. Instruction(w).active \subseteq Threads
    BY <2>1 DEF Instructions
  <2>3. \A t \in Instruction(w).active : WarpOf[t] = w
    BY <1>3, <1>6, <1>7 DEF Instruction, Code
  <2>4. QED  BY <2>1, <2>2, <2>3
<1>8. QED  BY <1>4, <1>5, <1>7

\* What a step of the device leaves of the invariant.
LEMMA DeviceFrame ==
    ASSUME IInv, UNCHANGED hostVars
    PROVE  /\ HostInv'
           /\ InTarget' <=> InTarget
           /\ Votes' <=> Votes
           /\ app' = app /\ hpc' = hpc /\ phase' = phase /\ site' = site
           /\ knameCount' = knameCount /\ areParamsReady' = areParamsReady
           /\ \A e \in errors : Described(e)'
           /\ \A e : InstructionOf(e)' = InstructionOf(e)
           /\ \A w : Code(w)' = Code(w)
<1>1. HostInv'
  BY HostStepInv DEF IInv
<1>2. /\ app' = app /\ hpc' = hpc /\ phase' = phase /\ site' = site
      /\ knameCount' = knameCount /\ areParamsReady' = areParamsReady
  BY DEF hostVars
<1>3. InTarget' <=> InTarget
  BY <1>2 DEF InTarget
<1>4. \A e \in errors : Described(e)'
  <2>1. \A e \in errors : e.operand \in Operands
    BY DEF IInv, TypeOK, Errors
  <2>2. QED  BY <1>2, <2>1, ProgramFrame DEF IInv, ErrorsInv
<1>5. \A w : Code(w)' = Code(w)
  BY <1>2 DEF Code
<1>6. QED  BY <1>1, <1>2, <1>3, <1>4, <1>5, SiteFrame, ProgramFrame

\* As long as the warps stay where they are, their instructions are the same.
LEMMA SameInstructions ==
    ASSUME app' = app, hpc' = hpc, site' = site, wpc' = wpc
    PROVE  /\ \A w : Instruction(w)' = Instruction(w)
           /\ \A w : Finished(w)' <=> Finished(w)
           /\ \A t : CanBeHit(t)' <=> CanBeHit(t)
<1>1. \A w : Code(w)' = Code(w)
  BY DEF Code
<1>2. \A w : Instruction(w)' = Instruction(w) /\ (Finished(w)' <=> Finished(w))
  BY <1>1 DEF Instruction, Finished
<1>3. ASSUME NEW t
      PROVE  CanBeHit(t)' <=> CanBeHit(t)
  <2>1. OperandsHit(Instruction(WarpOf[t]))' = OperandsHit(Instruction(WarpOf[t]))
    BY Zenon, <1>2, SiteFrame DEF OperandsHit
  <2>2. QED  BY <2>1 DEF CanBeHit
<1>4. QED  BY <1>2, <1>3

-----------------------------------------------------------------------------
(* The steps.                                                              *)

\* The thread that takes iid from the counter finds no error, and those after it
\* take another number.
LEMMA CountStep ==
    ASSUME IInv, NEW t \in Threads, Count(t)
    PROVE  IInv'
<1>1. /\ InTarget /\ at[t] = "count" /\ ~Finished(WarpOf[t]) /\ areParamsReady
      /\ t \in Instruction(WarpOf[t]).active /\ InGroup(Instruction(WarpOf[t]), site.igid)
  BY DEF Count, InHandler, Running, InTarget
<1>2. /\ UNCHANGED hostVars /\ wpc' = wpc /\ errors' = errors
      /\ old' = [old EXCEPT ![t] = injCounter] /\ injCounter' = injCounter + 1
      /\ at' = [at EXCEPT ![t] = IF Votes THEN "vote"
                                 ELSE IF injCounter = site.iid THEN "inject" ELSE "done"]
      /\ aborted' = aborted
  BY DEF Count
<1>3. /\ injCounter \in Nat /\ site.iid \in Nat /\ at \in [Threads -> Steps]
      /\ old \in [Threads -> Nat]
  BY SiteType DEF IInv, TypeOK, HostTypeOK
<1>a. \A w : wpc'[w] = wpc[w]
  BY <1>2
<1>4. /\ app' = app /\ hpc' = hpc /\ phase' = phase /\ site' = site
      /\ areParamsReady' = areParamsReady /\ (InTarget' <=> InTarget) /\ (Votes' <=> Votes)
  BY <1>2, DeviceFrame
<1>5. /\ \A w : Instruction(w)' = Instruction(w) /\ (Finished(w)' <=> Finished(w))
      /\ \A u : CanBeHit(u)' <=> CanBeHit(u)
  BY <1>2, <1>4, SameInstructions
<1>6. /\ at'[t] # "count" /\ old'[t] = injCounter
      /\ Votes => at'[t] = "vote"
      /\ ~Votes => at'[t] # "vote"
      /\ at'[t] = "inject" => injCounter = site.iid
      /\ \A u \in Threads : u # t => at'[u] = at[u] /\ old'[u] = old[u]
  BY <1>2, <1>3 DEF Steps
<1>7. TypeOK' /\ HostInv'
  <2>1. HostInv'
    BY <1>2, DeviceFrame
  <2>2. at' \in [Threads -> Steps] /\ old' \in [Threads -> Nat] /\ injCounter' \in Nat
    BY <1>2, <1>3 DEF Steps
  <2>3. QED  BY <1>2, <2>1, <2>2 DEF IInv, TypeOK, HostInv
<1>8. CallsInv'
  <2>1. \A u \in Threads : at'[u] # "count" => areParamsReady' /\ old'[u] < injCounter'
    BY <1>1, <1>2, <1>3, <1>4, <1>6 DEF IInv, CallsInv
  <2>2. ASSUME NEW u \in Threads, NEW v \in Threads, u # v, at'[u] # "count", at'[v] # "count"
        PROVE  old'[u] # old'[v]
    <3>1. \A x \in Threads : at[x] # "count" => old[x] < injCounter
      BY DEF IInv, CallsInv
    <3>2. CASE u = t
      BY <1>3, <1>6, <2>2, <3>1, <3>2
    <3>3. CASE v = t
      BY <1>3, <1>6, <2>2, <3>1, <3>3
    <3>4. CASE u # t /\ v # t
      BY <1>6, <2>2, <3>4 DEF IInv, CallsInv
    <3>5. QED  BY <3>2, <3>3, <3>4
  <2>3. ASSUME NEW u \in Threads, at'[u] # "count"
        PROVE  /\ ~Finished(WarpOf[u])'
               /\ u \in Instruction(WarpOf[u])'.active
               /\ InGroup(Instruction(WarpOf[u])', site'.igid)
    <3>1. /\ ~Finished(WarpOf[u])
          /\ u \in Instruction(WarpOf[u]).active
          /\ InGroup(Instruction(WarpOf[u]), site.igid)
      BY <1>1, <1>6, <2>3 DEF IInv, CallsInv, InTarget
    <3>2. QED  BY <1>4, <1>5, <3>1
  <2>4. QED  BY <1>1, <1>4, <2>1, <2>2, <2>3 DEF CallsInv
<1>9. ErrorsInv'
  <2>1. \A e \in errors : Described(e)'
    BY <1>2, DeviceFrame
  <2>2. knameCount' = knameCount
    BY <1>2 DEF hostVars
  <2>3. QED  BY <1>2, <1>4, <2>1, <2>2 DEF IInv, ErrorsInv, SameInstruction
<1>10. \A u \in Threads : u # t => (Holder(u)' <=> Holder(u))
  BY <1>4, <1>6 DEF Holder
<1>11. ~Holder(t) /\ (errors # {} => ~Holder(t)')
  BY <1>1, <1>3, <1>4, <1>6 DEF IInv, HolderInv, Holder
<1>12. \A w : HeldIn(w) => HeldIn(w)'
  BY <1>6, <1>10, <1>11 DEF HeldIn
<1>13. HolderInv'
  <2>1. ASSUME NEW u \in Threads, at'[u] = "inject"
        PROVE  HeldIn(WarpOf[u])'
    <3>1. CASE u = t
      <4>1. Holder(t)' /\ at'[t] # "vote"
        BY <1>4, <1>6, <2>1, <3>1 DEF Holder
      <4>2. QED  BY <3>1, <4>1 DEF HeldIn
    <3>2. CASE u # t
      BY <1>1, <1>6, <1>12, <2>1, <3>2 DEF IInv, HolderInv
    <3>3. QED  BY <3>1, <3>2
  <2>2. ASSUME NEW e \in errors
        PROVE  /\ e.launch = hpc' /\ injCounter' > site'.iid
               /\ e.pc <= wpc'[WarpOf[e.tid]]
               /\ e.pc = wpc'[WarpOf[e.tid]] => HeldIn(WarpOf[e.tid])'
               /\ e.pc < wpc'[WarpOf[e.tid]] => \A u \in Threads : ~Holder(u)'
    <3>1. /\ e.launch = hpc /\ injCounter > site.iid
          /\ e.pc <= wpc[WarpOf[e.tid]]
          /\ e.pc = wpc[WarpOf[e.tid]] => HeldIn(WarpOf[e.tid])
          /\ e.pc < wpc[WarpOf[e.tid]] => \A u \in Threads : ~Holder(u)
      BY <1>1 DEF IInv, HolderInv
    <3>2. injCounter' > site'.iid
      BY <1>2, <1>3, <1>4, <3>1
    <3>3. e.pc < wpc[WarpOf[e.tid]] => \A u \in Threads : ~Holder(u)'
      BY <1>10, <1>11, <3>1
    <3>4. QED  BY <1>a, <1>4, <1>12, <3>1, <3>2, <3>3
  <2>3. QED  BY <1>2, <2>1, <2>2 DEF HolderInv
<1>14. ThreadInv'
  <2> SUFFICES ASSUME ~Votes
               PROVE  /\ \A e, f \in errors : e = f
                      /\ \A u \in Threads :
                            /\ at'[u] # "vote"
                            /\ at'[u] = "inject" => Holder(u)' /\ errors = {}
    BY <1>2, <1>4 DEF ThreadInv
  <2>1. \A e, f \in errors : e = f
    BY DEF IInv, ThreadInv
  <2>2. ASSUME NEW u \in Threads
        PROVE  at'[u] # "vote" /\ (at'[u] = "inject" => Holder(u)' /\ errors = {})
    <3>1. CASE u = t
      BY <1>3, <1>4, <1>6, <1>11, <3>1 DEF Holder
    <3>2. CASE u # t
      BY <1>1, <1>6, <1>10, <3>2 DEF IInv, ThreadInv
    <3>3. QED  BY <3>1, <3>2
  <2>3. QED  BY <2>1, <2>2
<1>15. VoteInv'
  <2> SUFFICES ASSUME Votes
               PROVE  /\ \A u \in Threads :
                            HeldIn(WarpOf[u])' /\ u \in Instruction(WarpOf[u]).active => Heard(u)'
                      /\ \A e \in errors :
                            e.pc < wpc[WarpOf[e.tid]] =>
                               {f.tid : f \in errors} = InstructionOf(e).active
    <3>1. \A e : InstructionOf(e)' = InstructionOf(e)
      BY <1>2, DeviceFrame
    <3>2. QED  BY <1>2, <1>4, <1>5, <3>1 DEF VoteInv
  <2>1. ASSUME NEW u \in Threads, HeldIn(WarpOf[u])', u \in Instruction(WarpOf[u]).active
        PROVE  Heard(u)'
    <3>1. HeldIn(WarpOf[u])
      BY <1>6, <1>10, <2>1 DEF HeldIn
    <3>2. Heard(u)
      BY <1>1, <2>1, <3>1 DEF IInv, VoteInv
    <3>3. u # t
      BY <1>1, <3>2 DEF Heard
    <3>4. QED  BY <1>2, <1>5, <1>6, <3>2, <3>3 DEF Heard
  <2>2. QED  BY <1>1, <2>1 DEF IInv, VoteInv
<1>16. QED  BY <1>7, <1>8, <1>9, <1>13, <1>14, <1>15 DEF IInv

\* __any hears the holder whichever of the active threads it is.
LEMMA VoteStep ==
    ASSUME IInv, NEW w \in Warps, Vote(w)
    PROVE  IInv'
<1> DEFINE voters == {t \in Instruction(w).active : at[t] = "vote"}
           any == \E t \in voters : old[t] = site.iid
<1>1. /\ phase = "kernel" /\ ~Finished(w) /\ Instruction(w).active # {}
      /\ \A t \in Instruction(w).active : InHandler(t, "vote")
  BY DEF Vote, Running, MayVote
<1>2. /\ UNCHANGED hostVars /\ injCounter' = injCounter /\ wpc' = wpc /\ old' = old
      /\ errors' = errors /\ aborted' = aborted
      /\ at' = [t \in Threads |-> IF t \in voters THEN IF any THEN "inject" ELSE "done" ELSE at[t]]
  BY DEF Vote
<1>3. \A t \in Instruction(w).active : t \in Threads /\ WarpOf[t] = w
  BY <1>1, InstructionType DEF IInv
<1>4. InTarget /\ \A t \in Instruction(w).active : at[t] = "vote" /\ t \in voters
  BY <1>1 DEF InHandler, Running, InTarget
<1>5. /\ app' = app /\ hpc' = hpc /\ phase' = phase /\ site' = site
      /\ areParamsReady' = areParamsReady /\ (InTarget' <=> InTarget) /\ (Votes' <=> Votes)
  BY <1>2, DeviceFrame
<1>6. /\ \A v : Instruction(v)' = Instruction(v) /\ (Finished(v)' <=> Finished(v))
      /\ \A u : CanBeHit(u)' <=> CanBeHit(u)
  BY <1>2, <1>5, SameInstructions
<1>7. Votes
  BY <1>1, <1>3, <1>4 DEF IInv, ThreadInv
<1>8. \A t \in voters : t \in Threads /\ WarpOf[t] = w /\ at[t] = "vote"
  BY <1>3
<1> HIDE DEF voters, any
<1>9. \A t \in Threads :
        /\ t \in voters => at'[t] = (IF any THEN "inject" ELSE "done")
        /\ t \notin voters => at'[t] = at[t]
  BY <1>2
<1>10. \A t \in Threads : at'[t] # "vote" \/ at[t] = "vote"
  BY <1>9
<1>11. \A t \in Threads : at'[t] # "count" <=> at[t] # "count"
  BY <1>8, <1>9
<1>12. \A u \in Threads : Holder(u)' <=> Holder(u)
  BY <1>2, <1>5, <1>11 DEF Holder
<1>13. TypeOK' /\ HostInv'
  <2>1. HostInv'
    BY <1>2, DeviceFrame
  <2>2. at' \in [Threads -> Steps]
    BY <1>2 DEF IInv, TypeOK, Steps
  <2>3. QED  BY <1>2, <2>1, <2>2 DEF IInv, TypeOK, HostInv
<1>14. CallsInv'
  BY <1>2, <1>5, <1>6, <1>11 DEF IInv, CallsInv
<1>15. ErrorsInv'
  <2>1. \A e \in errors : Described(e)'
    BY <1>2, DeviceFrame
  <2>2. knameCount' = knameCount
    BY <1>2 DEF hostVars
  <2>3. QED  BY <1>2, <1>5, <2>1, <2>2 DEF IInv, ErrorsInv, SameInstruction
<1>16. \A v : HeldIn(v) => HeldIn(v)'
  BY <1>10, <1>12 DEF HeldIn
<1>17. HolderInv'
  <2>1. ASSUME NEW u \in Threads, at'[u] = "inject"
        PROVE  HeldIn(WarpOf[u])'
    <3>1. CASE u \in voters
      <4>1. any
        BY <1>9, <2>1, <3>1
      <4>2. PICK v \in voters : old[v] = site.iid
        BY <4>1 DEF any
      <4>3. v \in Threads /\ WarpOf[v] = WarpOf[u] /\ Holder(v) /\ at'[v] = "inject"
        BY <1>8, <1>9, <3>1, <4>1, <4>2 DEF Holder
      <4>4. QED  BY <1>12, <4>3 DEF HeldIn
    <3>2. CASE u \notin voters
      BY <1>4, <1>9, <1>16, <2>1, <3>2 DEF IInv, HolderInv
    <3>3. QED  BY <3>1, <3>2
  <2>2. ASSUME NEW e \in errors
        PROVE  /\ e.launch = hpc' /\ injCounter' > site'.iid
               /\ e.pc <= wpc'[WarpOf[e.tid]]
               /\ e.pc = wpc'[WarpOf[e.tid]] => HeldIn(WarpOf[e.tid])'
               /\ e.pc < wpc'[WarpOf[e.tid]] => \A u \in Threads : ~Holder(u)'
    BY <1>2, <1>4, <1>5, <1>12, <1>16 DEF IInv, HolderInv
  <2>3. QED  BY <1>2, <2>1, <2>2 DEF HolderInv
<1>18. ThreadInv'
  BY <1>5, <1>7 DEF ThreadInv
<1>19. VoteInv'
  <2> SUFFICES /\ \A u \in Threads :
                     HeldIn(WarpOf[u])' /\ u \in Instruction(WarpOf[u]).active => Heard(u)'
               /\ \A e \in errors :
                     e.pc < wpc[WarpOf[e.tid]] =>
                        {f.tid : f \in errors} = InstructionOf(e).active
    <3>1. \A e : InstructionOf(e)' = InstructionOf(e)
      BY <1>2, DeviceFrame
    <3>2. QED  BY <1>2, <1>5, <1>6, <3>1 DEF VoteInv
  <2>1. ASSUME NEW u \in Threads, HeldIn(WarpOf[u])', u \in Instruction(WarpOf[u]).active
        PROVE  Heard(u)'
    <3>1. PICK v \in Threads : WarpOf[v] = WarpOf[u] /\ Holder(v) /\ at'[v] # "vote"
      BY <1>12, <2>1 DEF HeldIn
    <3>2. CASE v \in voters
      <4>1. u \in voters /\ any
        BY <1>4, <1>8, <2>1, <3>1, <3>2 DEF any, Holder
      <4>2. at'[u] = "inject"
        BY <1>9, <4>1
      <4>3. QED  BY <4>2 DEF Heard
    <3>3. CASE v \notin voters
      <4>1. HeldIn(WarpOf[u])
        BY <1>9, <3>1, <3>3 DEF HeldIn
      <4>2. Heard(u)
        BY <1>4, <1>7, <2>1, <4>1 DEF IInv, VoteInv
      <4>3. u \notin voters
        BY <1>8, <4>2 DEF Heard
      <4>4. QED  BY <1>2, <1>6, <1>9, <4>2, <4>3 DEF Heard
    <3>4. QED  BY <3>2, <3>3
  <2>2. QED  BY <1>4, <1>7, <2>1 DEF IInv, VoteInv
<1>20. QED  BY <1>13, <1>14, <1>15, <1>17, <1>18, <1>19 DEF IInv

\* An error goes to the instruction that the holder of iid executes, and that is
\* the instruction of every other error.
LEMMA InjectStep ==
    ASSUME IInv, NEW t \in Threads, Inject(t)
    PROVE  IInv'
<1> DEFINE w == WarpOf[t]
           ins == Instruction(w)
           Err(o, b) == [launch |-> hpc, tid |-> t, pc |-> wpc[w], operand |-> o,
                         effect |-> EffectOn(o), bits |-> b]
<1>1. /\ phase = "kernel" /\ InTarget /\ at[t] = "inject" /\ ~Finished(w)
      /\ t \in ins.active /\ InGroup(ins, site.igid)
  BY DEF Inject, InHandler, Running, InTarget
<1>2. /\ UNCHANGED hostVars /\ injCounter' = injCounter /\ wpc' = wpc /\ old' = old
      /\ aborted' = aborted /\ at' = [at EXCEPT ![t] = "done"]
  BY DEF Inject
<1>3. \/ OperandsHit(ins) = {} /\ errors' = errors
      \/ \E o \in OperandsHit(ins) : \E b \in Flipped(o, ins) : errors' = errors \cup {Err(o, b)}
  <2>1. CASE OperandsHit(ins) = {} /\ UNCHANGED errors
    BY <2>1
  <2>2. ASSUME NEW o \in OperandsHit(ins),
               \E e \in {Err(o, b) : b \in Flipped(o, ins)} : errors' = errors \cup {e}
        PROVE  \E b \in Flipped(o, ins) : errors' = errors \cup {Err(o, b)}
    BY <2>2
  <2>3. QED  BY Zenon, <2>1, <2>2 DEF Inject
<1>4. /\ app' = app /\ hpc' = hpc /\ phase' = phase /\ site' = site
      /\ areParamsReady' = areParamsReady /\ (InTarget' <=> InTarget) /\ (Votes' <=> Votes)
  BY <1>2, DeviceFrame
<1>5. /\ \A v : Instruction(v)' = Instruction(v) /\ (Finished(v)' <=> Finished(v))
      /\ \A u : CanBeHit(u)' <=> CanBeHit(u)
  BY <1>2, <1>4, SameInstructions
<1>6. w \in Warps /\ hpc \in Nat /\ wpc[w] \in Nat /\ site \in Sites /\ at \in [Threads -> Steps]
  BY <1>1, WarpsAssumption DEF IInv, TypeOK, HostTypeOK
<1>7. ins \in Instructions
  BY <1>1, <1>6, InstructionType DEF IInv
<1>8. at'[t] = "done" /\ \A u \in Threads : u # t => at'[u] = at[u]
  BY <1>2, <1>6
<1>9. \A u \in Threads : Holder(u)' <=> Holder(u)
  BY <1>1, <1>2, <1>4, <1>8 DEF Holder
<1>10. \A v : HeldIn(v) => HeldIn(v)'
  BY <1>1, <1>8, <1>9 DEF HeldIn
<1>11. PICK u \in Threads : WarpOf[u] = w /\ Holder(u) /\ at[u] # "vote"
  BY <1>1 DEF IInv, HolderInv, HeldIn
<1>12. \A v \in Threads : Holder(v) => v = u
  BY <1>11 DEF IInv, CallsInv, Holder
<1>13. injCounter > site.iid
  BY <1>11 DEF IInv, CallsInv, Holder
\* The error of the step.
<1>14. ASSUME NEW e \in errors', e \notin errors
       PROVE  /\ e \in Errors /\ Described(e) /\ e.operand \in Operands
              /\ e.tid = t /\ e.pc = wpc[w] /\ e.launch = hpc
  <2>0. PICK o \in OperandsHit(ins) : \E b \in Flipped(o, ins) : errors' = errors \cup {Err(o, b)}
    BY <1>3, <1>14
  <2>1. PICK b \in Flipped(o, ins) : errors' = errors \cup {Err(o, b)}
    BY <2>0
  <2>2. e = Err(o, b)
    BY <1>14, <2>1
  <2>3. o \in Operands
    BY <1>1, <1>6, <1>7, OperandOfGroup
  <2>4. EffectOn(o) \in Effects
    BY <1>6, <2>3, EffectRange
  <2>5. b \subseteq Nat
    BY <1>1, <1>6, <1>7, FlippedBits
  <2>6. /\ e.launch = hpc /\ e.tid = t /\ e.pc = wpc[w] /\ e.operand = o
        /\ e.effect = EffectOn(o) /\ e.bits = b
    BY <2>2
  <2>7. e \in Errors
    BY <1>6, <2>2, <2>3, <2>4, <2>5 DEF Errors
  <2>8. InstructionOf(e) = ins
    BY <2>6 DEF InstructionOf, Instruction, Code
  <2>9. IsNamedLaunch(hpc)
    BY <1>1, HostInvImpliesArmed DEF IInv, ArmedOnlyInNamedLaunch, InTarget
  <2>10. Described(e)
    BY <1>1, <1>7, <2>6, <2>8, <2>9 DEF Described
  <2>11. QED  BY <2>3, <2>6, <2>7, <2>10
\* An earlier error.
<1>15. ASSUME NEW e \in errors
       PROVE  WarpOf[e.tid] = w /\ e.pc = wpc[w] /\ e.launch = hpc
  <2>1. /\ e.launch = hpc /\ e.pc <= wpc[WarpOf[e.tid]]
        /\ e.pc = wpc[WarpOf[e.tid]] => HeldIn(WarpOf[e.tid])
        /\ e.pc < wpc[WarpOf[e.tid]] => \A v \in Threads : ~Holder(v)
    BY <1>1 DEF IInv, HolderInv
  <2>2. e.pc \in Nat /\ e.tid \in Threads /\ wpc[WarpOf[e.tid]] \in Nat
    BY WarpsAssumption DEF IInv, TypeOK, Errors
  <2>3. e.pc = wpc[WarpOf[e.tid]]
    BY <1>11, <2>1, <2>2
  <2>4. WarpOf[e.tid] = w
    BY <1>11, <1>12, <2>1, <2>3 DEF HeldIn
  <2>5. QED  BY <2>1, <2>3, <2>4
<1>16. \A e \in errors' : WarpOf[e.tid] = w /\ e.pc = wpc[w] /\ e.launch = hpc
  BY <1>14, <1>15
<1>17. TypeOK' /\ HostInv'
  <2>1. HostInv'
    BY <1>2, DeviceFrame
  <2>2. at' \in [Threads -> Steps]
    BY <1>2, <1>6 DEF Steps
  <2>3. errors' \subseteq Errors
    BY <1>14 DEF IInv, TypeOK
  <2>4. QED  BY <1>2, <2>1, <2>2, <2>3 DEF IInv, TypeOK, HostInv
<1>18. CallsInv'
  <2>1. \A v \in Threads : at'[v] # "count" => at[v] # "count"
    BY <1>1, <1>8
  <2>2. QED  BY <1>2, <1>4, <1>5, <2>1 DEF IInv, CallsInv
<1>19. ErrorsInv'
  <2>1. \A e \in errors' : Described(e)'
    <3>1. \A e \in errors : e.operand \in Operands
      BY DEF IInv, TypeOK, Errors
    <3>2. \A e \in errors' : Described(e) /\ e.operand \in Operands
      BY <1>14, <3>1 DEF IInv, ErrorsInv
    <3>3. QED  BY <1>4, <3>2, ProgramFrame
  <2>2. knameCount' = knameCount
    BY <1>2 DEF hostVars
  <2>3. knameCount[site.kname] >= site.kcount
    <3>1. knameCount[site.kname] = site.kcount /\ site.kcount \in Nat
      BY <1>1, <1>6, SiteType DEF IInv, HostInv, ReadyAgrees, InTarget
    <3>2. QED  BY <3>1
  <2>4. QED  BY <1>4, <1>16, <2>1, <2>2, <2>3 DEF ErrorsInv, SameInstruction
<1>20. HolderInv'
  <2>1. \A v \in Threads : at'[v] = "inject" => HeldIn(WarpOf[v])'
    BY <1>1, <1>8, <1>10 DEF IInv, HolderInv
  <2>2. HeldIn(w)'
    BY <1>10, <1>11 DEF HeldIn
  <2>3. ASSUME NEW e \in errors'
        PROVE  /\ e.launch = hpc' /\ injCounter' > site'.iid
               /\ e.pc <= wpc'[WarpOf[e.tid]]
               /\ e.pc = wpc'[WarpOf[e.tid]] => HeldIn(WarpOf[e.tid])'
               /\ e.pc < wpc'[WarpOf[e.tid]] => \A v \in Threads : ~Holder(v)'
    BY <1>2, <1>4, <1>6, <1>13, <1>16, <2>2
  <2>4. QED  BY <2>1, <2>3 DEF HolderInv
<1>21. ThreadInv'
  <2> SUFFICES ASSUME ~Votes
               PROVE  /\ \A e, f \in errors' : e = f
                      /\ \A v \in Threads : at'[v] # "vote" /\ at'[v] # "inject"
    BY <1>4 DEF ThreadInv
  <2>1. errors = {} /\ t = u
    BY <1>1, <1>12 DEF IInv, ThreadInv
  <2>2. \A e, f \in errors' : e = f
    BY <1>3, <2>1
  <2>3. ASSUME NEW v \in Threads
        PROVE  at'[v] # "vote" /\ at'[v] # "inject"
    BY <1>1, <1>8, <1>12, <2>1 DEF IInv, ThreadInv
  <2>4. QED  BY <2>2, <2>3
<1>22. VoteInv'
  <2> SUFFICES ASSUME Votes
               PROVE  /\ \A v \in Threads :
                            HeldIn(WarpOf[v])' /\ v \in Instruction(WarpOf[v]).active => Heard(v)'
                      /\ \A e \in errors' : ~(e.pc < wpc[WarpOf[e.tid]])
    BY <1>2, <1>4, <1>5 DEF VoteInv
  <2>1. \A e \in errors' : ~(e.pc < wpc[WarpOf[e.tid]])
    BY <1>6, <1>16
  <2>2. ASSUME NEW v \in Threads, HeldIn(WarpOf[v])', v \in Instruction(WarpOf[v]).active
        PROVE  Heard(v)'
    <3>1. errors \subseteq errors'
      BY <1>3
    <3>2. CASE v = t
      <4>1. CanBeHit(t) => \E e \in errors' : e.tid = t
        <5>1. CASE OperandsHit(ins) = {}
          BY <5>1 DEF CanBeHit
        <5>2. CASE OperandsHit(ins) # {}
          <6>1. PICK o \in OperandsHit(ins) :
                   \E b \in Flipped(o, ins) : errors' = errors \cup {Err(o, b)}
            BY <1>3, <5>2
          <6>2. PICK b \in Flipped(o, ins) : errors' = errors \cup {Err(o, b)}
            BY <6>1
          <6>3. Err(o, b) \in errors' /\ Err(o, b).tid = t
            BY <6>2
          <6>4. QED  BY <6>3
        <5>3. QED  BY <5>1, <5>2
      <4>2. QED  BY <1>5, <1>8, <3>2, <4>1 DEF Heard
    <3>3. CASE v # t
      <4>1. HeldIn(WarpOf[v])
        <5>1. PICK x \in Threads : WarpOf[x] = WarpOf[v] /\ Holder(x)
          BY <1>9, <2>2 DEF HeldIn
        <5>2. x = u
          BY <1>12, <5>1
        <5>3. QED  BY <1>11, <5>1, <5>2 DEF HeldIn
      <4>2. Heard(v)
        BY <1>1, <2>2, <4>1 DEF IInv, VoteInv
      <4>3. QED  BY <1>5, <1>8, <3>1, <3>3, <4>2 DEF Heard
    <3>4. QED  BY <3>2, <3>3
  <2>3. QED  BY <2>1, <2>2
<1>23. QED  BY <1>17, <1>18, <1>19, <1>20, <1>21, <1>22 DEF IInv

\* A warp goes on when all of its active threads have left the handler; the holder
\* leaves with them, and with a vote all of them have the error.
LEMMA AdvanceStep ==
    ASSUME IInv, NEW w \in Warps, Advance(w)
    PROVE  IInv'
<1>1. /\ phase = "kernel" /\ ~Finished(w)
      /\ ~areParamsReady \/ ~InGroup(Instruction(w), site.igid)
           \/ \A t \in Instruction(w).active : at[t] = "done"
  BY DEF Advance, Running
<1>2. /\ UNCHANGED hostVars /\ injCounter' = injCounter /\ old' = old
      /\ aborted' = aborted /\ errors' = errors
      /\ wpc' = [wpc EXCEPT ![w] = @ + 1]
      /\ at' = [t \in Threads |-> IF WarpOf[t] = w THEN "count" ELSE at[t]]
  BY DEF Advance
<1>3. /\ app' = app /\ hpc' = hpc /\ phase' = phase /\ site' = site
      /\ areParamsReady' = areParamsReady /\ (InTarget' <=> InTarget) /\ (Votes' <=> Votes)
      /\ \A v : Code(v)' = Code(v)
      /\ \A e : InstructionOf(e)' = InstructionOf(e)
  BY <1>2, DeviceFrame
<1>4. /\ wpc \in [Warps -> Nat \ {0}] /\ at \in [Threads -> Steps]
      /\ \A t \in Threads : WarpOf[t] \in Warps
      /\ \A e \in errors : e.pc \in Nat /\ e.tid \in Threads
  BY WarpsAssumption DEF IInv, TypeOK, Errors
<1>5. /\ \A t \in Threads : WarpOf[t] = w => at'[t] = "count"
      /\ \A t \in Threads : WarpOf[t] # w => at'[t] = at[t]
      /\ wpc'[w] = wpc[w] + 1
      /\ \A v \in Warps : v # w => wpc'[v] = wpc[v]
  BY <1>2, <1>4
<1>6. \A v \in Warps : v # w => Instruction(v)' = Instruction(v) /\ (Finished(v)' <=> Finished(v))
  BY <1>3, <1>5 DEF Instruction, Finished
<1>7. \A u \in Threads : Holder(u)' => Holder(u) /\ WarpOf[u] # w
  BY <1>2, <1>3, <1>5 DEF Holder
<1>8. \A v \in Warps : v # w => (HeldIn(v)' <=> HeldIn(v))
  BY <1>2, <1>3, <1>5 DEF HeldIn, Holder
<1>9. TypeOK' /\ HostInv'
  <2>1. HostInv'
    BY <1>2, DeviceFrame
  <2>2. at' \in [Threads -> Steps] /\ wpc' \in [Warps -> Nat \ {0}]
    BY <1>2, <1>4 DEF Steps
  <2>3. QED  BY <1>2, <2>1, <2>2 DEF IInv, TypeOK, HostInv
<1>10. CallsInv'
  <2>1. \A t \in Threads : at'[t] # "count" => at[t] # "count" /\ WarpOf[t] # w
    BY <1>5
  <2>2. QED  BY <1>2, <1>3, <1>4, <1>6, <2>1 DEF IInv, CallsInv
<1>11. ErrorsInv'
  <2>1. \A e \in errors : Described(e)'
    BY <1>2, DeviceFrame
  <2>2. knameCount' = knameCount
    BY <1>2 DEF hostVars
  <2>3. QED  BY <1>2, <1>3, <2>1, <2>2 DEF IInv, ErrorsInv, SameInstruction
<1>12. HolderInv'
  <2> SUFFICES ASSUME InTarget
               PROVE  /\ \A t \in Threads : at'[t] = "inject" => HeldIn(WarpOf[t])'
                      /\ \A e \in errors :
                            /\ e.launch = hpc /\ injCounter > site.iid
                            /\ e.pc <= wpc'[WarpOf[e.tid]]
                            /\ e.pc = wpc'[WarpOf[e.tid]] => HeldIn(WarpOf[e.tid])'
                            /\ e.pc < wpc'[WarpOf[e.tid]] => \A u \in Threads : ~Holder(u)'
    BY <1>2, <1>3 DEF HolderInv
  <2>1. ASSUME NEW t \in Threads, at'[t] = "inject"
        PROVE  HeldIn(WarpOf[t])'
    <3>1. WarpOf[t] # w /\ at[t] = "inject"
      BY <1>5, <2>1
    <3>2. HeldIn(WarpOf[t])
      BY <3>1 DEF IInv, HolderInv
    <3>3. QED  BY <1>4, <1>8, <3>1, <3>2
  <2>2. ASSUME NEW e \in errors
        PROVE  /\ e.launch = hpc /\ injCounter > site.iid
               /\ e.pc <= wpc'[WarpOf[e.tid]]
               /\ e.pc = wpc'[WarpOf[e.tid]] => HeldIn(WarpOf[e.tid])'
               /\ e.pc < wpc'[WarpOf[e.tid]] => \A u \in Threads : ~Holder(u)'
    <3>1. /\ e.launch = hpc /\ injCounter > site.iid
          /\ e.pc <= wpc[WarpOf[e.tid]]
          /\ e.pc = wpc[WarpOf[e.tid]] => HeldIn(WarpOf[e.tid])
          /\ e.pc < wpc[WarpOf[e.tid]] => \A u \in Threads : ~Holder(u)
      BY DEF IInv, HolderInv
    <3>2. e.pc \in Nat /\ WarpOf[e.tid] \in Warps
      BY <1>4
    <3>3. CASE WarpOf[e.tid] = w
      <4>1. e.pc < wpc'[w] /\ e.pc <= wpc'[w] /\ e.pc # wpc'[w]
        BY <1>4, <1>5, <3>1, <3>2, <3>3
      <4>2. ASSUME e.pc = wpc[w], NEW u \in Threads, Holder(u)'
            PROVE  FALSE
        <5>1. PICK v \in Threads : WarpOf[v] = w /\ Holder(v)
          BY <3>1, <3>3, <4>2 DEF HeldIn
        <5>2. Holder(u) /\ WarpOf[u] # w
          BY <1>7, <4>2
        <5>3. QED  BY <5>1, <5>2 DEF IInv, CallsInv, Holder
      <4>3. \A u \in Threads : ~Holder(u)'
        <5>1. CASE e.pc = wpc[w]
          BY <4>2, <5>1
        <5>2. CASE e.pc < wpc[w]
          BY <1>7, <3>1, <3>3, <5>2
        <5>3. e.pc = wpc[w] \/ e.pc < wpc[w]
          BY <1>4, <3>1, <3>2, <3>3
        <5>4. QED  BY <5>1, <5>2, <5>3
      <4>4. QED  BY <3>1, <3>3, <4>1, <4>3
    <3>4. CASE WarpOf[e.tid] # w
      <4>1. wpc'[WarpOf[e.tid]] = wpc[WarpOf[e.tid]]
        BY <1>5, <3>2, <3>4
      <4>2. QED  BY <1>7, <1>8, <3>1, <3>2, <3>4, <4>1
    <3>5. QED  BY <3>3, <3>4
  <2>3. QED  BY <2>1, <2>2
<1>13. ThreadInv'
  <2> SUFFICES ASSUME ~Votes
               PROVE  /\ \A e, f \in errors : e = f
                      /\ InTarget => \A t \in Threads :
                            /\ at'[t] # "vote"
                            /\ at'[t] = "inject" => Holder(t)' /\ errors = {}
    BY <1>2, <1>3 DEF ThreadInv
  <2>1. ASSUME InTarget, NEW t \in Threads
        PROVE  at'[t] # "vote" /\ (at'[t] = "inject" => Holder(t)' /\ errors = {})
    <3>1. CASE WarpOf[t] = w
      BY <1>5, <3>1
    <3>2. CASE WarpOf[t] # w
      <4>1. at'[t] = at[t] /\ (Holder(t) => Holder(t)')
        BY <1>2, <1>3, <1>5, <3>2 DEF Holder
      <4>2. QED  BY <2>1, <4>1 DEF IInv, ThreadInv
    <3>3. QED  BY <3>1, <3>2
  <2>2. QED  BY <2>1 DEF IInv, ThreadInv
<1>14. VoteInv'
  <2> SUFFICES ASSUME InTarget, Votes
               PROVE  /\ \A t \in Threads :
                            HeldIn(WarpOf[t])' /\ t \in Instruction(WarpOf[t])'.active => Heard(t)'
                      /\ \A e \in errors :
                            e.pc < wpc'[WarpOf[e.tid]] =>
                               {f.tid : f \in errors} = InstructionOf(e).active
    BY <1>2, <1>3 DEF VoteInv
  <2>1. ASSUME NEW t \in Threads, HeldIn(WarpOf[t])', t \in Instruction(WarpOf[t])'.active
        PROVE  Heard(t)'
    <3>1. WarpOf[t] # w /\ WarpOf[t] \in Warps
      BY <1>4, <1>7, <2>1 DEF HeldIn
    <3>2. HeldIn(WarpOf[t]) /\ t \in Instruction(WarpOf[t]).active
      BY <1>6, <1>8, <2>1, <3>1
    <3>3. Heard(t) /\ at'[t] = at[t]
      BY <1>5, <3>1, <3>2 DEF IInv, VoteInv
    <3>4. OperandsHit(Instruction(WarpOf[t]))' = OperandsHit(Instruction(WarpOf[t]))
      <4>1. Instruction(WarpOf[t])' = Instruction(WarpOf[t])
        BY <1>6, <3>1
      <4>2. QED  BY Zenon, <1>3, <4>1 DEF OperandsHit
    <3>5. CanBeHit(t)' => CanBeHit(t)
      BY <3>4 DEF CanBeHit
    <3>6. QED  BY <1>2, <3>3, <3>5 DEF Heard
  <2>2. ASSUME NEW e \in errors, e.pc < wpc'[WarpOf[e.tid]]
        PROVE  {f.tid : f \in errors} = InstructionOf(e).active
    <3>1. CASE e.pc < wpc[WarpOf[e.tid]]
      BY <3>1 DEF IInv, VoteInv
    <3>2. CASE ~(e.pc < wpc[WarpOf[e.tid]])
      <4>1. WarpOf[e.tid] = w /\ e.pc = wpc[w] /\ e.launch = hpc /\ HeldIn(w)
        <5>1. /\ e.launch = hpc /\ e.pc <= wpc[WarpOf[e.tid]]
              /\ e.pc = wpc[WarpOf[e.tid]] => HeldIn(WarpOf[e.tid])
          BY DEF IInv, HolderInv
        <5>2. e.pc \in Nat /\ WarpOf[e.tid] \in Warps /\ wpc[WarpOf[e.tid]] \in Nat
          BY <1>4
        <5>3. e.pc = wpc[WarpOf[e.tid]]
          BY <3>2, <5>1, <5>2
        <5>4. QED  BY <1>5, <2>2, <3>2, <5>1, <5>2, <5>3
      <4>2. InstructionOf(e) = Instruction(w)
        BY <4>1 DEF InstructionOf, Instruction, Code
      <4>3. Described(e)
        BY DEF IInv, ErrorsInv
      <4>4. \A f \in errors : f.tid \in InstructionOf(e).active
        <5>1. ASSUME NEW f \in errors
              PROVE  f.tid \in InstructionOf(e).active
          <6>1. SameInstruction(e, f) /\ Described(f)
            BY DEF IInv, ErrorsInv
          <6>2. InstructionOf(f) = InstructionOf(e)
            BY <6>1 DEF SameInstruction, InstructionOf
          <6>3. QED  BY <6>1, <6>2 DEF Described
        <5>2. QED  BY <5>1
      <4>5. ASSUME NEW t \in InstructionOf(e).active
            PROVE  \E f \in errors : f.tid = t
        <5>1. t \in Threads /\ WarpOf[t] = w
          BY <1>1, <4>2, InstructionType DEF IInv
        <5>2. Heard(t)
          BY <4>1, <4>2, <5>1 DEF IInv, VoteInv
        <5>3. at[t] = "done"
          BY <1>1, <4>2, <4>3 DEF Described, InTarget
        <5>4. CanBeHit(t)
          BY <4>2, <4>3, <5>1 DEF CanBeHit, Described
        <5>5. QED  BY <5>2, <5>3, <5>4 DEF Heard
      <4>6. QED  BY <4>4, <4>5
    <3>3. QED  BY <3>1, <3>2
  <2>3. QED  BY <2>1, <2>2
<1>15. QED  BY <1>9, <1>10, <1>11, <1>12, <1>13, <1>14 DEF IInv

\* The launch that the site names comes with all threads outside the handler and
\* before any error; every other step of the host leaves no target running.
LEMMA HostStepKeeps ==
    ASSUME IInv, LaunchKernel \/ ExitKernel \/ Reset \/ Exit
    PROVE  IInv'
<1>1. /\ app' = app /\ site' = site /\ errors' = errors
      /\ HostStep
  <2>1. CASE LaunchKernel
    BY <2>1 DEF LaunchKernel, EnterLaunch, HostStep
  <2>2. CASE ExitKernel
    BY <2>2 DEF ExitKernel, LeaveLaunch, HostStep, deviceVars
  <2>3. CASE Reset
    BY <2>3 DEF Reset, ResetDevice, HostStep, deviceVars
  <2>4. CASE Exit
    BY <2>4 DEF Exit, ReturnFromMain, HostStep, deviceVars
  <2>5. QED  BY <2>1, <2>2, <2>3, <2>4
<1>2. HostInv'
  BY <1>1, HostStepInv DEF IInv
<1>3. Votes' <=> Votes
  BY <1>1, SiteFrame
<1>4. \A e \in errors : Described(e)'
  <2>1. \A e \in errors : e.operand \in Operands
    BY DEF IInv, TypeOK, Errors
  <2>2. QED  BY <1>1, <2>1, ProgramFrame DEF IInv, ErrorsInv
<1>5. site.kname \in KNames /\ site.kcount \in Nat /\ knameCount \in [KNames -> Int]
  BY SiteType DEF IInv, TypeOK, HostTypeOK
<1>6. CASE LaunchKernel
  <2> DEFINE k == app[hpc].kname
  <2>1. /\ injCounter' = 0 /\ wpc' = [w \in Warps |-> 1] /\ at' = [t \in Threads |-> "count"]
        /\ old' = [t \in Threads |-> 0] /\ aborted' = FALSE
        /\ phase' = "kernel" /\ knameCount' = [knameCount EXCEPT ![k] = @ + 1]
        /\ areParamsReady' <=> k = site.kname /\ knameCount'[k] = site.kcount
    BY <1>6 DEF LaunchKernel, EnterLaunch, CountLaunch, IsTarget
  <2>2. TypeOK'
    <3>1. wpc' \in [Warps -> Nat \ {0}] /\ at' \in [Threads -> Steps] /\ old' \in [Threads -> Nat]
      BY <2>1 DEF Steps
    <3>2. errors' \subseteq Errors
      BY <1>1 DEF IInv, TypeOK
    <3>3. HostTypeOK'
      BY <1>2 DEF HostInv
    <3>4. QED  BY <2>1, <3>1, <3>2, <3>3 DEF TypeOK
  <2>3. CallsInv' /\ \A t \in Threads : ~Holder(t)'
    BY <2>1 DEF CallsInv, Holder
  <2>4. ErrorsInv'
    <3>1. knameCount'[site.kname] >= knameCount[site.kname] /\ knameCount'[site.kname] \in Int
      BY <1>5, <2>1
    <3>2. knameCount[site.kname] \in Int
      BY <1>5
    <3>3. errors # {} => knameCount'[site.kname] >= site.kcount
      BY <1>5, <3>1, <3>2 DEF IInv, ErrorsInv
    <3>4. QED  BY <1>1, <1>4, <3>3 DEF IInv, ErrorsInv, SameInstruction
  <2>5. areParamsReady' => errors = {}
    <3>1. SUFFICES ASSUME areParamsReady', errors # {}
                   PROVE  FALSE
      OBVIOUS
    <3>2. knameCount[site.kname] >= site.kcount /\ knameCount[site.kname] \in Int
      BY <1>5, <3>1 DEF IInv, ErrorsInv
    <3>3. knameCount'[site.kname] = knameCount[site.kname] + 1 /\ knameCount'[site.kname] = site.kcount
      BY <1>5, <2>1, <3>1
    <3>4. QED  BY <1>5, <3>2, <3>3
  <2>6. HolderInv'
    BY <1>1, <2>1, <2>5 DEF HolderInv, InTarget
  <2>7. ThreadInv'
    BY <1>1, <1>3, <2>1 DEF IInv, ThreadInv
  <2>8. VoteInv'
    <3>1. \A w : ~HeldIn(w)'
      BY <2>3 DEF HeldIn
    <3>2. QED  BY <1>1, <2>5, <3>1 DEF VoteInv, InTarget
  <2>9. QED  BY <1>2, <2>2, <2>3, <2>4, <2>6, <2>7, <2>8 DEF IInv
<1>7. CASE ExitKernel \/ Reset \/ Exit
  <2>1. /\ phase' # "kernel" /\ knameCount' = knameCount /\ areParamsReady' = areParamsReady
        /\ UNCHANGED deviceVars
    BY <1>7 DEF ExitKernel, LeaveLaunch, Reset, ResetDevice, NextCallIs, Exit, ReturnFromMain
  <2>2. TypeOK'
    BY <1>2, <2>1 DEF IInv, TypeOK, HostInv, deviceVars
  <2>3. CallsInv'
    BY <2>1 DEF IInv, CallsInv, deviceVars
  <2>4. ErrorsInv'
    BY <1>1, <1>4, <2>1 DEF IInv, ErrorsInv, SameInstruction
  <2>5. ~InTarget'
    BY <2>1 DEF InTarget
  <2>6. HolderInv' /\ VoteInv'
    BY <2>5 DEF HolderInv, VoteInv
  <2>7. ThreadInv'
    BY <1>1, <1>3, <2>5 DEF IInv, ThreadInv
  <2>8. QED  BY <1>2, <2>2, <2>3, <2>4, <2>6, <2>7 DEF IInv
<1>8. QED  BY <1>6, <1>7

\* Nothing that the invariant speaks of changes.
LEMMA FrameStep ==
    ASSUME IInv, UNCHANGED <<hostVars, injCounter, wpc, at, old, errors>>, aborted' \in BOOLEAN
    PROVE  IInv'
<1>1. /\ HostInv' /\ (InTarget' <=> InTarget) /\ (Votes' <=> Votes)
      /\ app' = app /\ hpc' = hpc /\ phase' = phase /\ site' = site
      /\ knameCount' = knameCount /\ areParamsReady' = areParamsReady
      /\ \A e \in errors : Described(e)'
      /\ \A e : InstructionOf(e)' = InstructionOf(e)
  BY DeviceFrame
<1>2. /\ \A w : Instruction(w)' = Instruction(w) /\ (Finished(w)' <=> Finished(w))
      /\ \A t : CanBeHit(t)' <=> CanBeHit(t)
  BY <1>1, SameInstructions
<1>3. /\ \A t : Holder(t)' <=> Holder(t)
      /\ \A w : HeldIn(w)' <=> HeldIn(w)
      /\ \A t : Heard(t)' <=> Heard(t)
  BY <1>1, <1>2 DEF Holder, HeldIn, Heard
<1>4. TypeOK'
  BY <1>1 DEF IInv, TypeOK, HostInv
<1>5. CallsInv' /\ ErrorsInv'
  BY <1>1, <1>2 DEF IInv, CallsInv, ErrorsInv, SameInstruction
<1>6. HolderInv' /\ ThreadInv'
  BY <1>1, <1>3 DEF IInv, HolderInv, ThreadInv
<1>7. VoteInv'
  BY <1>1, <1>2, <1>3 DEF IInv, VoteInv
<1>8. QED  BY <1>1, <1>4, <1>5, <1>6, <1>7 DEF IInv

-----------------------------------------------------------------------------
(* The theorems.                                                           *)

\* The inductive invariant holds throughout.
THEOREM ValueInvariance == FairSpec => []IInv
<1>1. Init => IInv
  <2> SUFFICES ASSUME Init PROVE IInv
    OBVIOUS
  <2>1. HostInv /\ phase = "host"
    BY HostInitInv DEF Init, HostInit
  <2>2. TypeOK
    <3>1. wpc \in [Warps -> Nat \ {0}] /\ at \in [Threads -> Steps] /\ old \in [Threads -> Nat]
      BY DEF Init, Steps
    <3>2. injCounter \in Nat /\ aborted \in BOOLEAN /\ errors \subseteq Errors
      BY DEF Init
    <3>3. HostTypeOK
      BY <2>1 DEF HostInv
    <3>4. QED  BY <3>1, <3>2, <3>3 DEF TypeOK
  <2>3. CallsInv /\ ErrorsInv
    BY <2>1 DEF Init, CallsInv, ErrorsInv
  <2>4. HolderInv /\ ThreadInv /\ VoteInv
    BY <2>1 DEF Init, HolderInv, ThreadInv, VoteInv, InTarget
  <2>5. QED  BY <2>1, <2>2, <2>3, <2>4 DEF IInv
<1>2. IInv /\ [Next]_vars => IInv'
  <2> SUFFICES ASSUME IInv, [Next]_vars PROVE IInv'
    OBVIOUS
  <2>1. CASE LaunchKernel \/ ExitKernel \/ Reset \/ Exit
    BY <2>1, HostStepKeeps
  <2>2. CASE DeviceFault
    BY <2>2, FrameStep DEF DeviceFault
  <2>3. ASSUME NEW t \in Threads, Count(t) PROVE IInv'
    BY <2>3, CountStep
  <2>4. ASSUME NEW t \in Threads, Inject(t) PROVE IInv'
    BY <2>4, InjectStep
  <2>5. ASSUME NEW w \in Warps, Vote(w) PROVE IInv'
    BY <2>5, VoteStep
  <2>6. ASSUME NEW w \in Warps, Advance(w) PROVE IInv'
    BY <2>6, AdvanceStep
  <2>7. CASE UNCHANGED vars
    BY <2>7, FrameStep DEF vars, deviceVars, IInv, TypeOK
  <2>8. QED
    BY <2>1, <2>2, <2>3, <2>4, <2>5, <2>6, <2>7 DEF Next, Terminated
<1>3. QED  BY <1>1, <1>2, PTL DEF Spec, FairSpec

\* The variables keep their types; in particular the operand number and the bits
\* of an error are those of a destination.
THEOREM ValueTypeCorrect == FairSpec => []TypeOK
<1>1. IInv => TypeOK
  BY DEF IInv
<1>2. QED  BY <1>1, ValueInvariance, PTL

\* No interleaving of the threads around the counter, and no vote, hits a second
\* instruction or a second operand.
THEOREM OneInstructionIsHit == FairSpec => []ErrorsAreOneInstruction
<1>1. IInv => ErrorsAreOneInstruction
  <2> SUFFICES ASSUME IInv PROVE ErrorsAreOneInstruction
    OBVIOUS
  <2>1. site \in Sites
    BY DEF IInv, TypeOK, HostTypeOK
  <2>2. ASSUME NEW e \in errors, NEW f \in errors
        PROVE  /\ e.launch = f.launch /\ e.pc = f.pc
               /\ WarpOf[e.tid] = WarpOf[f.tid]
               /\ e.operand = f.operand /\ e.effect = f.effect
    <3>1. SameInstruction(e, f) /\ Described(e) /\ Described(f)
      BY DEF IInv, ErrorsInv
    <3>2. InstructionOf(e) = InstructionOf(f)
      BY <3>1 DEF SameInstruction, InstructionOf
    <3>4. OperandsHit(InstructionOf(e)) = {e.operand}
      BY <2>1, <3>1, OperandOfGroup DEF Described
    <3>5. e.operand = f.operand
      BY <3>1, <3>2, <3>4 DEF Described
    <3>6. QED  BY <3>1, <3>5 DEF Described, SameInstruction
  <2>3. QED  BY <2>2 DEF IInv, ErrorsInv, Described, ErrorsAreOneInstruction
<1>2. QED  BY <1>1, ValueInvariance, PTL

\* A model of one thread puts one error into one thread, and a warp-wide model
\* reaches every active thread of the warp before the warp goes on.
THEOREM ErrorsHitTheirThreads == FairSpec => []ThreadsOfTheModel
<1>1. IInv => ThreadsOfTheModel
  <2> SUFFICES ASSUME IInv PROVE ThreadsOfTheModel
    OBVIOUS
  <2>1. site \in Sites
    BY DEF IInv, TypeOK, HostTypeOK
  <2>2. site.igid \in Groups /\ site.bfm \in Supported(site.igid)
    BY <2>1, SiteType
  <2>3. ASSUME site.bfm \in ThreadModels \ {"ZERO_VALUE"}
        PROVE  Cardinality(errors) <= 1
    <3>1. ~Votes
      BY <2>3 DEF Votes, ThreadModels, WarpModels
    <3>2. \A e, f \in errors : e = f
      BY <3>1 DEF IInv, ThreadInv
    <3>3. errors = {} \/ \E e : errors = {e}
      BY <3>2
    <3>4. QED  BY <3>3, FS_EmptySet, FS_Singleton
  <2>4. ASSUME site.bfm \in WarpModels, NEW e \in errors, phase = "kernel", e.launch = hpc,
               wpc[WarpOf[e.tid]] > e.pc
        PROVE  {f.tid : f \in errors} = InstructionOf(e).active
    <3>1. Votes
      BY <2>2, <2>4 DEF Votes, Supported, WarpModels
    <3>2. areParamsReady
      BY <2>4, HostInvImpliesArmed DEF IInv, ErrorsInv, Described, ArmedOnlyInNamedLaunch
    <3>3. e.pc < wpc[WarpOf[e.tid]]
      BY <2>4
    <3>4. QED  BY <2>4, <3>1, <3>2, <3>3 DEF IInv, VoteInv, InTarget
  <2>5. QED  BY <2>3, <2>4 DEF ThreadsOfTheModel
<1>2. QED  BY <1>1, ValueInvariance, PTL

\* What a flip model of the site means for a destination.
LEMMA EffectOfModel ==
    ASSUME NEW o \in Operands
    PROVE  /\ site.bfm = "FLIP_SINGLE_BIT" => EffectOn(o) = "flip1"
           /\ site.bfm = "WARP_FLIP_SINGLE_BIT" /\ ~IsFlag(o) => EffectOn(o) = "flip1"
           /\ site.bfm \in {"FLIP_TWO_BITS", "WARP_FLIP_TWO_BITS"} /\ ~IsFlag(o) =>
                 EffectOn(o) = "flip2"
<1>1. site.bfm \in {"FLIP_SINGLE_BIT", "WARP_FLIP_SINGLE_BIT"} => EffectOf(site.bfm) = "flip1"
  BY Zenon DEF EffectOf
<1>2. ASSUME site.bfm \in {"FLIP_TWO_BITS", "WARP_FLIP_TWO_BITS"}
      PROVE  EffectOf(site.bfm) = "flip2"
  <2>1. site.bfm \notin {"FLIP_SINGLE_BIT", "WARP_FLIP_SINGLE_BIT"}
    BY <1>2
  <2>2. QED  BY Zenon, <1>2, <2>1 DEF EffectOf
<1>3. QED  BY <1>1, <1>2 DEF EffectOn, IsFlag

\* A site of a single-bit model inverts one bit and one of a two-bit model two
\* adjacent bits, in every destination of every width, but for CC and predicates
\* under any model other than FLIP_SINGLE_BIT and for the stores that HasNeighbour
\* excepts.
THEOREM FlippedBitsAreAdjacent == FairSpec => []FlipsAreTheModel
<1>1. IInv => FlipsAreTheModel
  <2> SUFFICES ASSUME IInv, NEW e \in errors
               PROVE  /\ site.bfm = "FLIP_SINGLE_BIT" => Cardinality(e.bits) = 1
                      /\ site.bfm = "WARP_FLIP_SINGLE_BIT" /\ ~IsFlag(e.operand) =>
                            Cardinality(e.bits) = 1
                      /\ /\ site.bfm \in {"FLIP_TWO_BITS", "WARP_FLIP_TWO_BITS"}
                         /\ ~IsFlag(e.operand)
                         /\ e.operand.kind = "MEM" => HasNeighbour(InstructionOf(e))
                         => \E b \in e.bits : e.bits = {b, b + 1}
    BY DEF FlipsAreTheModel
  <2>1. site \in Sites
    BY DEF IInv, TypeOK, HostTypeOK
  <2>2. Described(e)
    BY DEF IInv, ErrorsInv
  <2>3. /\ EffectOn(e.operand) = "flip1" => Cardinality(e.bits) = 1
        /\ EffectOn(e.operand) = "flip2" /\ (e.operand.kind = "MEM" => HasNeighbour(InstructionOf(e))) =>
              \E b \in e.bits : e.bits = {b, b + 1}
    BY <2>1, <2>2, FlippedBits DEF Described
  <2>4. e.operand \in Operands
    BY DEF IInv, TypeOK, Errors
  <2>5. QED  BY <2>3, <2>4, EffectOfModel
<1>2. QED  BY <1>1, ValueInvariance, PTL

-----------------------------------------------------------------------------
(* The listed site.                                                        *)

\* The calls of the handler, in the running launch, that have taken a number.
Called ==
    {c \in CallsIn(hpc) : \/ c[1][2] < wpc[c[1][1]]
                          \/ c[1][2] = wpc[c[1][1]] /\ at[c[2]] # "count"}

CalledInv == InTarget /\ ~aborted => IsFiniteSet(Called) /\ injCounter = Cardinality(Called)

\* Once the counter has passed iid, the thread that took it has made the error or is
\* about to.
Waiting(t) == Holder(t) /\ at[t] \in {"vote", "inject"}
PassedInv ==
    InTarget /\ injCounter > site.iid /\ AllHaveDestinations =>
        errors # {} \/ \E t \in Threads : Waiting(t)

\* So a launch that is over, and had enough calls, has left the error.
EndedInv ==
    /\ aborted => errors # {}
    /\ phase = "exited" => hpc = Len(app) + 1
    /\ AllHaveDestinations => \A i \in 1..(hpc - 1) :
          IsNamedLaunch(i) /\ site.iid < Cardinality(CallsIn(i)) => errors # {}

ListInv == CalledInv /\ PassedInv /\ EndedInv

-----------------------------------------------------------------------------
(* The list.                                                               *)

LEMMA LeastNatural ==
    ASSUME NEW T, T \subseteq Nat, T # {}
    PROVE  \E m \in T : \A n \in T : m <= n
<1> DEFINE R == OpToRel(<, Nat)
<1>1. IsWellFoundedOn(R, Nat)
  BY NatLessThanWellFounded
<1>2. \A x, y \in Nat : x < y => <<x, y>> \in R
  BY DEF OpToRel
<1> HIDE DEF R
<1>3. PICK x \in T : \A y \in T : ~ (<<y, x>> \in R)
  BY <1>1, WFMin
<1>4. ASSUME NEW y \in T PROVE x <= y
  <2>1. x \in Nat /\ y \in Nat
    OBVIOUS
  <2>2. ~(y < x)
    BY <1>2, <1>3, <2>1
  <2>3. QED
    BY <2>1, <2>2
<1>5. QED
  BY <1>3, <1>4

\* Induction, over a set.
LEMMA NaturalsAreIn ==
    ASSUME NEW S, 0 \in S, \A n \in Nat : n \in S => n + 1 \in S
    PROVE  \A n \in Nat : n \in S
<1> DEFINE T == Nat \ S
<1>1. SUFFICES ASSUME T # {} PROVE FALSE
  OBVIOUS
<1>2. PICK m \in T : \A n \in T : m <= n
  BY <1>1, LeastNatural
<1>3. m \in Nat /\ m # 0 /\ m - 1 \in Nat /\ m - 1 \notin T
  BY <1>2
<1>4. m - 1 \in S
  BY <1>3
<1>5. (m - 1) + 1 \in S
  BY <1>3, <1>4
<1>6. QED
  BY <1>3, <1>5

IsSums(g, counts) == g = [i \in 0..Len(counts) |-> IF i = 0 THEN 0 ELSE g[i - 1] + counts[i]]

LEMMA SumsIs ==
    ASSUME NEW counts
    PROVE  Sums(counts) = CHOOSE g : IsSums(g, counts)
  BY Zenon DEF Sums, IsSums

\* The rows of a profile have first numbers.
LEMMA SumsAreNumbers ==
    ASSUME NEW counts, NEW N \in Nat, Len(counts) = N, \A i \in 1..N : counts[i] \in Nat
    PROVE  \A i \in 0..N : Sums(counts)[i] \in Nat
<1>1. \E g : IsSums(g, counts)
  <2> DEFINE Upto(n, g) == g = [i \in 0..n |-> IF i = 0 THEN 0 ELSE g[i - 1] + counts[i]]
             S == {n \in Nat : \E g : Upto(n, g)}
  <2>1. 0 \in S
    <3>1. PICK g : g = [i \in 0..0 |-> 0]
      OBVIOUS
    <3>2. Upto(0, g)
      BY <3>1
    <3>3. QED
      BY <3>2
  <2>2. ASSUME NEW n \in Nat, n \in S PROVE n + 1 \in S
    <3>1. PICK g : Upto(n, g)
      BY <2>2
    <3>2. PICK h : h = [i \in 0..(n + 1) |-> IF i <= n THEN g[i] ELSE g[n] + counts[n + 1]]
      OBVIOUS
    <3>3. ASSUME NEW i \in 0..(n + 1)
          PROVE  h[i] = IF i = 0 THEN 0 ELSE h[i - 1] + counts[i]
      <4>1. CASE i = 0
        BY <3>1, <3>2, <4>1
      <4>2. CASE i # 0 /\ i <= n
        <5>1. i - 1 \in 0..n /\ i - 1 <= n /\ i - 1 \in 0..(n + 1) /\ i \in 0..n
          BY <4>2
        <5>2. h[i] = g[i] /\ h[i - 1] = g[i - 1]
          BY <3>2, <4>2, <5>1
        <5>3. QED
          BY <3>1, <4>2, <5>1, <5>2
      <4>3. CASE ~(i <= n)
        <5>1. i = n + 1 /\ i - 1 = n /\ n \in 0..(n + 1) /\ i # 0
          BY <4>3
        <5>2. h[i] = g[n] + counts[n + 1] /\ h[n] = g[n]
          BY <3>2, <4>3, <5>1
        <5>3. QED
          BY <5>1, <5>2
      <4>4. QED
        BY <4>1, <4>2, <4>3
    <3>4. Upto(n + 1, h)
      BY <3>2, <3>3
    <3> HIDE DEF Upto
    <3>5. \E k : Upto(n + 1, k)
      BY <3>4
    <3>6. QED
      BY <3>5
  <2> HIDE DEF S
  <2>3. N \in S
    BY <2>1, <2>2, NaturalsAreIn
  <2>4. QED
    BY <2>3 DEF S, IsSums
<1>2. PICK g : g = Sums(counts) /\ IsSums(g, counts)
  BY <1>1, SumsIs
<1>3. \A i \in 0..N : g[i] = IF i = 0 THEN 0 ELSE g[i - 1] + counts[i]
  BY <1>2 DEF IsSums
<1> DEFINE S == {n \in Nat : n <= N => g[n] \in Nat}
<1>4. 0 \in S
  BY <1>3
<1>5. ASSUME NEW n \in Nat, n \in S PROVE n + 1 \in S
  <2>1. SUFFICES ASSUME n + 1 <= N PROVE g[n + 1] \in Nat
    OBVIOUS
  <2>2. g[n] \in Nat /\ counts[n + 1] \in Nat
    BY <1>5, <2>1
  <2>3. g[n + 1] = g[n] + counts[n + 1]
    BY <1>3, <2>1
  <2>4. QED
    BY <2>2, <2>3
<1> HIDE DEF S
<1>6. \A n \in Nat : n \in S
  BY <1>4, <1>5, NaturalsAreIn
<1>7. QED
  BY <1>2, <1>6 DEF S

\* The profile holds launches of the application.
LEMMA ProfiledAre ==
    ASSUME NEW L \in Nat, L = Len(app),
           \A i \in 1..L : app[i].op \in {"launch", "reset"}
    PROVE  \E N \in Nat : /\ DOMAIN Profiled = 1..N
                          /\ \A n \in 1..N : /\ Profiled[n] \in 1..L
                                             /\ app[Profiled[n]].op = "launch"
<1> DEFINE IsEnd(e) == /\ e = 0 \/ app[e].op = "launch"
                       /\ \A j \in (e + 1)..L : app[j].op = "reset"
<1>1. PICK e \in 0..L : e = LastLaunch
  <2> DEFINE T == {e \in 0..L : \A j \in (e + 1)..L : app[j].op = "reset"}
  <2>1. T \subseteq Nat /\ L \in T
    OBVIOUS
  <2>2. PICK e \in T : \A i \in T : e <= i
    BY <2>1, LeastNatural
  <2>3. ASSUME e # 0, app[e].op = "reset" PROVE FALSE
    <3>1. e \in 0..L /\ e - 1 \in 0..L /\ (e - 1) + 1 = e /\ ~(e <= e - 1)
      BY <2>3
    <3>2. \A j \in e..L : j = e \/ j \in (e + 1)..L
      BY <3>1
    <3>3. e - 1 \in T
      BY <2>3, <3>1, <3>2
    <3>4. e <= e - 1
      BY <2>2, <3>3
    <3>5. QED
      BY <3>1, <3>4
  <2>4. e \in 0..L /\ (e = 0 \/ e \in 1..L)
    OBVIOUS
  <2>5. IsEnd(e)
    BY <2>3, <2>4
  <2>6. LastLaunch = CHOOSE i \in 0..L : IsEnd(i)
    BY DEF LastLaunch
  <2> HIDE DEF IsEnd
  <2>7. LastLaunch \in 0..L
    BY <2>4, <2>5, <2>6
  <2>8. QED
    BY <2>7
<1> DEFINE IsStart(s) == /\ s = 0 \/ app[s].op = "reset"
                         /\ \A j \in (s + 1)..e : app[j].op = "launch"
<1>2. PICK s \in 0..e : s = ResetBefore /\ IsStart(s)
  <2> DEFINE T == {i \in 0..e : \A j \in (i + 1)..e : app[j].op = "launch"}
  <2>1. T \subseteq Nat /\ e \in T
    OBVIOUS
  <2>2. PICK s \in T : \A i \in T : s <= i
    BY <2>1, LeastNatural
  <2>3. ASSUME s # 0, app[s].op = "launch" PROVE FALSE
    <3>1. s \in 0..e /\ s - 1 \in 0..e /\ (s - 1) + 1 = s /\ ~(s <= s - 1)
      BY <2>3
    <3>2. \A j \in s..e : j = s \/ j \in (s + 1)..e
      BY <3>1
    <3>3. s - 1 \in T
      BY <2>3, <3>1, <3>2
    <3>4. s <= s - 1
      BY <2>2, <3>3
    <3>5. QED
      BY <3>1, <3>4
  <2>4. s \in 0..e /\ (s = 0 \/ s \in 1..L)
    OBVIOUS
  <2>5. IsStart(s)
    BY <2>3, <2>4
  <2>6. ResetBefore = CHOOSE i \in 0..e : IsStart(i)
    BY <1>1 DEF ResetBefore
  <2> HIDE DEF IsStart
  <2>7. ResetBefore \in 0..e /\ IsStart(ResetBefore)
    BY <2>4, <2>5, <2>6
  <2>8. QED
    BY <2>7
<1>3. Profiled = [n \in 1..(e - s) |-> s + n]
  BY <1>1, <1>2 DEF Profiled
<1>4. ASSUME NEW n \in 1..(e - s)
      PROVE  Profiled[n] \in 1..L /\ app[Profiled[n]].op = "launch"
  <2>1. s + n \in (s + 1)..e /\ s + n \in 1..L
    OBVIOUS
  <2>2. QED
    BY <1>2, <1>3, <2>1
<1>5. DOMAIN Profiled = 1..(e - s) /\ e - s \in Nat
  BY <1>3
<1>6. QED
  BY <1>4, <1>5

LEMMA CallIs ==
    ASSUME NEW i, NEW w, NEW p, NEW t
    PROVE  << <<w, p>>, t >> \in CallsIn(i) <=>
              /\ w \in Warps /\ p \in DOMAIN app[i].grid[w] /\ t \in Threads
              /\ t \in app[i].grid[w][p].active /\ InGroup(app[i].grid[w][p], site.igid)
<1> DEFINE All == UNION {{v} \X DOMAIN app[i].grid[v] : v \in Warps}
<1>1. <<w, p>> \in All <=> w \in Warps /\ p \in DOMAIN app[i].grid[w]
  OBVIOUS
<1> HIDE DEF All
<1>2. CallsIn(i) = {c \in All \X Threads :
          /\ c[2] \in app[i].grid[c[1][1]][c[1][2]].active
          /\ InGroup(app[i].grid[c[1][1]][c[1][2]], site.igid)}
  BY Zenon DEF CallsIn, All
<1>3. PICK c : c = << <<w, p>>, t >>
  OBVIOUS
<1>4. c[1] = <<w, p>> /\ c[2] = t /\ c[1][1] = w /\ c[1][2] = p
  BY <1>3
<1>5. c \in All \X Threads <=> <<w, p>> \in All /\ t \in Threads
  BY <1>3
<1>6. c \in CallsIn(i) <=> /\ c \in All \X Threads
                           /\ c[2] \in app[i].grid[c[1][1]][c[1][2]].active
                           /\ InGroup(app[i].grid[c[1][1]][c[1][2]], site.igid)
  BY <1>2
<1>7. app[i].grid[c[1][1]][c[1][2]] = app[i].grid[w][p]
  BY <1>4
<1>8. QED
  BY <1>1, <1>3, <1>4, <1>5, <1>6, <1>7

LEMMA CallForm ==
    ASSUME NEW i, NEW c \in CallsIn(i)
    PROVE  c = << <<c[1][1], c[1][2]>>, c[2] >>
<1> DEFINE All == UNION {{v} \X DOMAIN app[i].grid[v] : v \in Warps}
<1>1. c \in All \X Threads
  BY DEF CallsIn, All
<1>2. c = <<c[1], c[2]>> /\ c[1] \in All
  BY <1>1
<1>3. PICK v \in Warps : c[1] \in {v} \X DOMAIN app[i].grid[v]
  BY <1>2
<1>4. c[1] = <<c[1][1], c[1][2]>>
  BY <1>3
<1>5. QED
  BY <1>2, <1>4

LEMMA CallsAreFinite ==
    ASSUME NEW i, app[i].grid \in [Warps -> Seq(Instructions)]
    PROVE  IsFiniteSet(CallsIn(i)) /\ Cardinality(CallsIn(i)) \in Nat
<1> DEFINE Of(w) == {w} \X DOMAIN app[i].grid[w]
           Parts == {Of(w) : w \in Warps}
           f == [w \in Warps |-> Of(w)]
<1>1. IsFiniteSet(Parts)
  <2>1. f \in [Warps -> Parts] /\ \A T \in Parts : \E w \in Warps : f[w] = T
    OBVIOUS
  <2> HIDE DEF f, Parts
  <2>2. f \in Surjection(Warps, Parts)
    BY <2>1 DEF Surjection
  <2>3. QED
    BY <2>2, FiniteAssumption, FS_Surjection
<1>2. ASSUME NEW w \in Warps PROVE IsFiniteSet(Of(w))
  <2>1. DOMAIN app[i].grid[w] = 1..Len(app[i].grid[w]) /\ Len(app[i].grid[w]) \in Nat
    OBVIOUS
  <2>2. IsFiniteSet({w}) /\ IsFiniteSet(1..Len(app[i].grid[w]))
    <3>1. PICK n \in Nat : n = Len(app[i].grid[w])
      BY <2>1
    <3>2. IsFiniteSet(1..n)
      BY FS_Interval
    <3>3. QED
      BY <3>1, <3>2, FS_Singleton
  <2>3. QED
    BY <2>1, <2>2, FS_Product
<1>3. IsFiniteSet(UNION Parts)
  <2>1. \A T \in Parts : IsFiniteSet(T)
    BY <1>2
  <2> HIDE DEF Parts
  <2>2. QED
    BY <1>1, <2>1, FS_UNION
<1>4. IsFiniteSet((UNION Parts) \X Threads)
  BY <1>3, FiniteAssumption, FS_Product
<1>5. CallsIn(i) \subseteq (UNION Parts) \X Threads
  BY DEF CallsIn
<1> HIDE DEF Parts
<1>6. IsFiniteSet(CallsIn(i))
  BY <1>4, <1>5, FS_Subset
<1>7. QED
  BY <1>6, FS_CardinalityType

\* A line of the list is a call of the launch that it names.
LEMMA ListedMeans ==
    ASSUME HostTypeOK, Listed
    PROVE  \E i \in 1..Len(app) : IsNamedLaunch(i) /\ site.iid < Cardinality(CallsIn(i))
<1>1. PICK L \in Nat : L = Len(app)
  BY CallType DEF HostTypeOK
<1>2. ASSUME NEW i \in 1..L
      PROVE  /\ app[i].op \in {"launch", "reset"}
             /\ app[i].op = "launch" => Cardinality(CallsIn(i)) \in Nat
  <2>1. /\ app[i] \in Launches \cup Resets
        /\ app[i].op = "launch" => app[i].grid \in Grids
    BY <1>1, CallType
  <2>2. app[i].op \in {"launch", "reset"}
    BY <2>1 DEF Launches, Resets
  <2>3. app[i].op = "launch" => app[i].grid \in [Warps -> Seq(Instructions)]
    BY <2>1, GridsAssumption
  <2>4. QED
    BY <2>2, <2>3, CallsAreFinite
<1>3. PICK N \in Nat : /\ DOMAIN Profiled = 1..N
                       /\ \A n \in 1..N : Profiled[n] \in 1..L /\ app[Profiled[n]].op = "launch"
  BY <1>1, <1>2, ProfiledAre
<1>4. PICK counts : counts = ProfileCounts
  OBVIOUS
<1>5. PICK rows : rows = ProfileRows
  OBVIOUS
<1>6. /\ counts = [n \in 1..N |-> Cardinality(CallsIn(Profiled[n]))]
      /\ DOMAIN rows = 1..N
      /\ \A n \in 1..N : rows[n] =
            [kname |-> app[Profiled[n]].kname,
             kcount |-> Cardinality(LaunchesBefore(Profiled[n], app[Profiled[n]].kname))]
  BY <1>3, <1>4, <1>5 DEF ProfileCounts, ProfileRows
<1>7. \A n \in 1..N : counts[n] \in Nat
  BY <1>2, <1>3, <1>6
<1>8. Len(counts) = N
  BY <1>6, <1>7
<1>9. \A n \in 1..N : Start(counts, n) \in Nat
  <2>1. \A n \in 0..N : Sums(counts)[n] \in Nat
    BY <1>7, <1>8, SumsAreNumbers
  <2>2. \A n \in 1..N : n - 1 \in 0..N
    OBVIOUS
  <2>3. QED
    BY <2>1, <2>2 DEF Start
<1>10. PICK line : line = Site(site, site.iid)
  OBVIOUS
<1>11. PICK d \in Draws(counts) : line = SiteInfo(rows, counts, d) /\ line # NoSite
  BY <1>4, <1>5, <1>10 DEF Listed, Submitted
<1>12. d \in Int
  BY <1>11 DEF Draws
<1>13. PICK n \in 1..N : /\ Start(counts, n) <= d /\ d < Start(counts, n) + counts[n]
                         /\ line = Site(rows[n], d - Start(counts, n))
  <2> DEFINE Holds(m) == Start(counts, m) <= d /\ d < Start(counts, m) + counts[m]
  <2>1. \E m \in 1..N : Holds(m)
    <3>1. SUFFICES ASSUME ~ \E m \in DOMAIN rows : Holds(m) PROVE FALSE
      BY <1>6
    <3>2. SiteInfo(rows, counts, d) = NoSite
      BY <3>1 DEF SiteInfo
    <3>3. QED
      BY <1>11, <3>2
  <2>2. PICK m : m = CHOOSE j \in 1..N : Holds(j)
    OBVIOUS
  <2>3. m \in 1..N /\ Holds(m)
    BY <2>1, <2>2
  <2>4. SiteInfo(rows, counts, d) = Site(rows[m], d - Start(counts, m))
    BY <1>6, <2>1, <2>2 DEF SiteInfo
  <2>5. QED
    BY <1>11, <2>3, <2>4
<1>14. /\ rows[n].kname = site.kname /\ rows[n].kcount = site.kcount
       /\ d - Start(counts, n) = site.iid
  BY <1>10, <1>13 DEF Site
<1>15. IsNamedLaunch(Profiled[n])
  BY <1>3, <1>6, <1>14 DEF IsNamedLaunch
<1>16. site.iid < Cardinality(CallsIn(Profiled[n]))
  <2>1. counts[n] = Cardinality(CallsIn(Profiled[n])) /\ counts[n] \in Nat
    BY <1>6, <1>7
  <2>2. d - Start(counts, n) < counts[n]
    BY <1>9, <1>12, <1>13, <2>1
  <2>3. QED
    BY <1>14, <2>1, <2>2
<1>17. QED
  BY <1>1, <1>3, <1>15, <1>16

-----------------------------------------------------------------------------
(* The steps, for the listed site.                                         *)

\* The calls and the destinations are the program's and the site's.
LEMMA CallsFrame ==
    ASSUME app' = app, site' = site
    PROVE  /\ \A i : CallsIn(i)' = CallsIn(i)
           /\ \A i : IsNamedLaunch(i)' <=> IsNamedLaunch(i)
           /\ AllHaveDestinations' <=> AllHaveDestinations
<1>1. \A i : CallsIn(i)' = CallsIn(i)
  BY DEF CallsIn
<1>2. \A i : IsNamedLaunch(i)' <=> IsNamedLaunch(i)
  BY DEF IsNamedLaunch, LaunchesBefore
<1>3. \A ins : OperandsHit(ins)' = OperandsHit(ins)
  BY SiteFrame
<1>4. AllHaveDestinations' <=> AllHaveDestinations
  <2>1. \A i, c : OperandsHit(app[i].grid[c[1][1]][c[1][2]])' = OperandsHit(app[i].grid[c[1][1]][c[1][2]])
    BY <1>3
  <2>2. QED
    BY <1>1, <1>2, <1>3 DEF AllHaveDestinations
<1>5. QED
  BY <1>1, <1>2, <1>4

\* The running kernel; in the target launch it is the one that the site names.
LEMMA KernelFacts ==
    ASSUME IInv, phase = "kernel"
    PROVE  /\ Len(app) \in Nat /\ hpc \in 1..Len(app)
           /\ app[hpc].grid \in [Warps -> Seq(Instructions)]
           /\ \A w \in Warps : /\ Len(Code(w)) \in Nat /\ wpc[w] \in Nat \ {0}
                               /\ DOMAIN app[hpc].grid[w] = 1..Len(Code(w))
           /\ \A w \in Warps : \A p \in DOMAIN app[hpc].grid[w] :
                 \A t \in app[hpc].grid[w][p].active : WarpOf[t] = w
           /\ areParamsReady => IsNamedLaunch(hpc)
<1>1. /\ Len(app) \in Nat /\ hpc \in 1..Len(app) /\ app[hpc].op = "launch"
      /\ app[hpc].grid \in Grids
  BY CallType DEF IInv, TypeOK, HostTypeOK
<1>2. /\ app[hpc].grid \in [Warps -> Seq(Instructions)]
      /\ \A w \in Warps : \A p \in DOMAIN app[hpc].grid[w] :
            \A t \in app[hpc].grid[w][p].active : WarpOf[t] = w
  BY <1>1, GridsAssumption
<1>3. \A w \in Warps : /\ Len(Code(w)) \in Nat
                       /\ DOMAIN app[hpc].grid[w] = 1..Len(Code(w))
  BY <1>2 DEF Code
<1>4. \A w \in Warps : wpc[w] \in Nat \ {0}
  BY DEF IInv, TypeOK
<1>5. areParamsReady => IsNamedLaunch(hpc)
  BY HostInvImpliesArmed DEF IInv, ArmedOnlyInNamedLaunch
<1>6. QED
  BY <1>1, <1>2, <1>3, <1>4, <1>5

LEMMA CalledIs ==
    ASSUME NEW w, NEW p, NEW t
    PROVE  << <<w, p>>, t >> \in Called <=>
              /\ << <<w, p>>, t >> \in CallsIn(hpc)
              /\ p < wpc[w] \/ (p = wpc[w] /\ at[t] # "count")
<1>1. PICK c : c = << <<w, p>>, t >>
  OBVIOUS
<1>2. c[2] = t /\ c[1][1] = w /\ c[1][2] = p
  BY <1>1
<1>3. c \in Called <=> c \in CallsIn(hpc) /\ (c[1][2] < wpc[c[1][1]] \/ (c[1][2] = wpc[c[1][1]] /\ at[c[2]] # "count"))
  BY DEF Called
<1>4. QED
  BY <1>1, <1>2, <1>3

\* A thread in the handler makes a call that the profile has.
LEMMA ThreadCalls ==
    ASSUME IInv, phase = "kernel", NEW t \in Threads, ~Finished(WarpOf[t]),
           t \in Instruction(WarpOf[t]).active, InGroup(Instruction(WarpOf[t]), site.igid)
    PROVE  << <<WarpOf[t], wpc[WarpOf[t]]>>, t >> \in CallsIn(hpc)
<1>1. PICK w \in Warps : w = WarpOf[t]
  BY WarpsAssumption
<1>2. PICK p : p = wpc[w]
  OBVIOUS
<1>3. p \in DOMAIN app[hpc].grid[w]
  BY <1>1, <1>2, KernelFacts DEF Finished
<1>4. Instruction(w) = app[hpc].grid[w][p]
  BY <1>2 DEF Instruction, Code
<1>5. QED
  BY <1>1, <1>2, <1>3, <1>4, CallIs

\* What a step of the device that makes no call leaves.
LEMMA CalledSame ==
    ASSUME CalledInv, UNCHANGED <<hostVars, injCounter, wpc>>, aborted' = aborted,
           \A t \in Threads : at'[t] = "count" <=> at[t] = "count"
    PROVE  CalledInv'
<1>1. /\ app' = app /\ hpc' = hpc /\ site' = site /\ phase' = phase
      /\ areParamsReady' = areParamsReady
  BY DEF hostVars
<1>2. CallsIn(hpc)' = CallsIn(hpc)
  BY <1>1 DEF CallsIn
<1>3. \A c \in CallsIn(hpc) : c[2] \in Threads
  BY DEF CallsIn
<1>4. Called' = Called
  BY <1>2, <1>3 DEF Called
<1>5. QED
  BY <1>1, <1>4 DEF CalledInv, InTarget

LEMMA EndedSame ==
    ASSUME EndedInv, UNCHANGED hostVars, errors \subseteq errors', aborted' => errors' # {}
    PROVE  EndedInv'
<1>1. /\ app' = app /\ hpc' = hpc /\ site' = site /\ phase' = phase
  BY DEF hostVars
<1>2. /\ \A i : CallsIn(i)' = CallsIn(i)
      /\ \A i : IsNamedLaunch(i)' <=> IsNamedLaunch(i)
      /\ AllHaveDestinations' <=> AllHaveDestinations
  BY <1>1, CallsFrame
<1>3. \A i : Cardinality(CallsIn(i))' = Cardinality(CallsIn(i))
  BY <1>2
<1>4. errors # {} => errors' # {}
  OBVIOUS
<1>5. QED
  BY <1>1, <1>2, <1>3, <1>4 DEF EndedInv

LEMMA ListCount ==
    ASSUME IInv, ListInv, NEW t \in Threads, Count(t)
    PROVE  ListInv'
<1>a. PICK w \in Warps : w = WarpOf[t]
  BY WarpsAssumption
<1>b. PICK p : p = wpc[w]
  OBVIOUS
<1>c. PICK x : x = << <<w, p>>, t >>
  OBVIOUS
<1>1. /\ phase = "kernel" /\ ~aborted /\ ~Finished(w) /\ areParamsReady /\ at[t] = "count"
      /\ t \in Instruction(w).active /\ InGroup(Instruction(w), site.igid)
      /\ old' = [old EXCEPT ![t] = injCounter] /\ injCounter' = injCounter + 1
      /\ at' = [at EXCEPT ![t] = IF Votes THEN "vote"
                                 ELSE IF injCounter = site.iid THEN "inject" ELSE "done"]
      /\ UNCHANGED <<hostVars, wpc, aborted, errors>>
  BY <1>a DEF Count, InHandler, Running
<1>2. /\ app' = app /\ hpc' = hpc /\ site' = site /\ phase' = phase
      /\ areParamsReady' = areParamsReady
  BY <1>1 DEF hostVars
<1>3. /\ at \in [Threads -> Steps] /\ old \in [Threads -> Nat] /\ injCounter \in Nat
      /\ p \in Nat \ {0} /\ x \in CallsIn(hpc) /\ site.iid \in Nat
  BY <1>1, <1>a, <1>b, <1>c, KernelFacts, ThreadCalls, SiteType DEF IInv, TypeOK, HostTypeOK
<1>4. /\ at'[t] # "count" /\ \A u \in Threads \ {t} : at'[u] = at[u] /\ old'[u] = old[u]
      /\ old'[t] = injCounter
      /\ injCounter = site.iid => at'[t] \in {"vote", "inject"}
  BY <1>1, <1>3
<1>5. CalledInv'
  <2>1. IsFiniteSet(Called) /\ injCounter = Cardinality(Called)
    BY <1>1 DEF ListInv, CalledInv, InTarget
  <2>2. CallsIn(hpc)' = CallsIn(hpc)
    BY <1>2 DEF CallsIn
  <2>3. x \notin Called
    BY <1>1, <1>3, <1>b, <1>c, CalledIs
  <2>4. ASSUME NEW c \in CallsIn(hpc)
        PROVE  c \in Called' <=> c \in Called \/ c = x
    <3>1. PICK v, q, u : v = c[1][1] /\ q = c[1][2] /\ u = c[2]
      OBVIOUS
    <3>2. c = << <<v, q>>, u >>
      BY <3>1, CallForm
    <3>3. /\ v \in Warps /\ q \in DOMAIN app[hpc].grid[v] /\ u \in Threads
          /\ u \in app[hpc].grid[v][q].active
      BY <3>2, CallIs
    <3>4. WarpOf[u] = v /\ q \in Nat /\ wpc[v] \in Nat
      BY <1>1, <3>3, KernelFacts
    <3>5. c \in Called <=> q < wpc[v] \/ (q = wpc[v] /\ at[u] # "count")
      BY <3>2, CalledIs
    <3>6. c \in Called' <=> q < wpc[v] \/ (q = wpc[v] /\ at'[u] # "count")
      BY <1>1, <2>2, <3>1 DEF Called
    <3>7. CASE u = t
      <4>1. v = w
        BY <1>a, <3>4, <3>7
      <4>2. c = x <=> q = p
        BY <1>c, <3>2, <3>7, <4>1
      <4>3. QED
        BY <1>1, <1>4, <1>b, <3>5, <3>6, <3>7, <4>1, <4>2
    <3>8. CASE u # t
      <4>1. c # x
        BY <1>c, <3>2, <3>8
      <4>2. QED
        BY <1>4, <3>3, <3>5, <3>6, <3>8, <4>1
    <3>9. QED
      BY <3>7, <3>8
  <2>5. Called' = Called \cup {x}
    <3>1. Called \subseteq CallsIn(hpc) /\ Called' \subseteq CallsIn(hpc)
      BY <2>2 DEF Called
    <3>2. QED
      BY <1>3, <2>4, <3>1
  <2>6. IsFiniteSet(Called') /\ Cardinality(Called') = injCounter + 1
    BY <2>1, <2>3, <2>5, FS_AddElement
  <2>7. QED
    BY <1>1, <2>6 DEF CalledInv
<1>6. PassedInv'
  <2> SUFFICES ASSUME injCounter' > site.iid, AllHaveDestinations, errors = {}
               PROVE  \E u \in Threads : Waiting(u)'
    BY <1>1, <1>2, CallsFrame DEF PassedInv
  <2>1. CASE injCounter = site.iid
    <3>1. Waiting(t)'
      BY <1>2, <1>4, <2>1 DEF Waiting, Holder
    <3>2. QED
      BY <3>1
  <2>2. CASE injCounter # site.iid
    <3>1. injCounter > site.iid
      BY <1>1, <1>3, <2>2
    <3>2. PICK u \in Threads : Waiting(u)
      BY <1>1, <3>1 DEF ListInv, PassedInv, InTarget
    <3>3. u # t
      BY <1>1, <3>2 DEF Waiting
    <3>4. Waiting(u)'
      BY <1>2, <1>4, <3>2, <3>3 DEF Waiting, Holder
    <3>5. QED
      BY <3>4
  <2>3. QED
    BY <2>1, <2>2
<1>7. EndedInv'
  BY <1>1, EndedSame DEF ListInv, EndedInv
<1>8. QED
  BY <1>5, <1>6, <1>7 DEF ListInv

LEMMA ListVote ==
    ASSUME IInv, ListInv, NEW w \in Warps, Vote(w)
    PROVE  ListInv'
<1>a. PICK voters : voters = {u \in Instruction(w).active : at[u] = "vote"}
  OBVIOUS
<1>b. PICK any \in BOOLEAN : any = (\E u \in voters : old[u] = site.iid)
  OBVIOUS
<1>1. /\ phase = "kernel" /\ ~aborted /\ ~Finished(w)
      /\ at' = [t \in Threads |-> IF t \in voters THEN IF any THEN "inject" ELSE "done"
                                  ELSE at[t]]
      /\ UNCHANGED <<hostVars, injCounter, wpc, old, aborted, errors>>
  BY <1>a, <1>b DEF Vote, Running
<1>2. app' = app /\ site' = site /\ phase' = phase /\ areParamsReady' = areParamsReady
  BY <1>1 DEF hostVars
<1>3. \A u \in voters : at[u] = "vote" /\ at'[u] \in {"inject", "done"} /\ u \in Threads
  BY <1>1, <1>a, InstructionType DEF IInv
<1>4. \A u \in Threads \ voters : at'[u] = at[u]
  BY <1>1
<1>5. CalledInv'
  BY <1>1, <1>3, <1>4, CalledSame DEF ListInv
<1>6. PassedInv'
  <2> SUFFICES ASSUME InTarget, injCounter > site.iid, AllHaveDestinations, errors = {}
               PROVE  \E u \in Threads : Waiting(u)'
    BY <1>1, <1>2, CallsFrame DEF PassedInv, InTarget
  <2>1. PICK u \in Threads : Waiting(u)
    BY DEF ListInv, PassedInv
  <2>2. at'[u] \in {"vote", "inject"}
    <3>1. CASE u \in voters
      <4>1. old[u] = site.iid
        BY <2>1 DEF Waiting, Holder
      <4>2. any
        BY <1>b, <3>1, <4>1
      <4>3. QED
        BY <1>1, <3>1, <4>2
    <3>2. CASE u \notin voters
      BY <1>4, <2>1, <3>2 DEF Waiting
    <3>3. QED
      BY <3>1, <3>2
  <2>3. Waiting(u)'
    BY <1>1, <1>2, <2>1, <2>2 DEF Waiting, Holder
  <2>4. QED
    BY <2>3
<1>7. EndedInv'
  BY <1>1, EndedSame DEF ListInv, EndedInv
<1>8. QED
  BY <1>5, <1>6, <1>7 DEF ListInv

\* The thread that waits for its error makes it, if the instruction has a destination.
LEMMA ListInject ==
    ASSUME IInv, ListInv, NEW t \in Threads, Inject(t)
    PROVE  ListInv'
<1>a. PICK w \in Warps : w = WarpOf[t]
  BY WarpsAssumption
<1>1. /\ phase = "kernel" /\ ~aborted /\ ~Finished(w) /\ areParamsReady /\ at[t] = "inject"
      /\ t \in Instruction(w).active /\ InGroup(Instruction(w), site.igid)
      /\ at' = [at EXCEPT ![t] = "done"]
      /\ UNCHANGED <<hostVars, injCounter, wpc, old, aborted>>
  BY <1>a DEF Inject, InHandler, Running
<1>2. \/ OperandsHit(Instruction(w)) = {} /\ errors' = errors
      \/ errors' # {} /\ errors \subseteq errors'
  BY <1>a DEF Inject
<1>3. app' = app /\ site' = site /\ phase' = phase /\ areParamsReady' = areParamsReady
  BY <1>1 DEF hostVars
<1>4. at'[t] = "done" /\ \A u \in Threads \ {t} : at'[u] = at[u]
  BY <1>1 DEF IInv, TypeOK
<1>5. CalledInv'
  BY <1>1, <1>4, CalledSame DEF ListInv
<1>6. PassedInv'
  <2> SUFFICES ASSUME AllHaveDestinations, errors' = {}
               PROVE  FALSE
    BY <1>1, <1>3, CallsFrame DEF PassedInv, InTarget
  <2>1. OperandsHit(Instruction(w)) = {}
    BY <1>2
  <2>2. PICK p : p = wpc[w]
    OBVIOUS
  <2>3. PICK x : x = << <<w, p>>, t >>
    OBVIOUS
  <2>4. x \in CallsIn(hpc)
    BY <1>1, <1>a, <2>2, <2>3, ThreadCalls
  <2>5. hpc \in 1..Len(app) /\ IsNamedLaunch(hpc)
    BY <1>1, KernelFacts
  <2>6. OperandsHit(app[hpc].grid[x[1][1]][x[1][2]]) # {}
    BY <2>4, <2>5 DEF AllHaveDestinations
  <2>7. Instruction(w) = app[hpc].grid[w][p] /\ x[1][1] = w /\ x[1][2] = p
    BY <2>2, <2>3 DEF Instruction, Code
  <2>8. QED
    BY <2>1, <2>6, <2>7
<1>7. EndedInv'
  <2>1. errors \subseteq errors'
    BY <1>2
  <2>2. QED
    BY <1>1, <2>1, EndedSame
       DEF ListInv, EndedInv
<1>8. QED
  BY <1>5, <1>6, <1>7 DEF ListInv

\* A warp does not leave behind a call that has taken no number, nor the thread that
\* waits for its error.
LEMMA ListAdvance ==
    ASSUME IInv, ListInv, NEW w \in Warps, Advance(w)
    PROVE  ListInv'
<1>b. PICK p : p = wpc[w]
  OBVIOUS
<1>1. /\ phase = "kernel" /\ ~aborted /\ ~Finished(w)
      /\ areParamsReady /\ InGroup(Instruction(w), site.igid) =>
            \A t \in Instruction(w).active : at[t] = "done"
      /\ wpc' = [wpc EXCEPT ![w] = p + 1]
      /\ at' = [t \in Threads |-> IF WarpOf[t] = w THEN "count" ELSE at[t]]
      /\ UNCHANGED <<hostVars, injCounter, old, aborted, errors>>
  BY <1>b DEF Advance, Running
<1>2. /\ app' = app /\ hpc' = hpc /\ site' = site /\ phase' = phase
      /\ areParamsReady' = areParamsReady
  BY <1>1 DEF hostVars
<1>3. /\ p \in Nat \ {0} /\ wpc'[w] = p + 1
      /\ \A v \in Warps \ {w} : wpc'[v] = wpc[v] /\ wpc[v] \in Nat
  BY <1>1, <1>b DEF IInv, TypeOK
<1>4. CalledInv'
  <2> SUFFICES ASSUME InTarget PROVE Called' = Called
    BY <1>1, <1>2 DEF ListInv, CalledInv, InTarget
  <2>1. CallsIn(hpc)' = CallsIn(hpc)
    BY <1>2 DEF CallsIn
  <2>2. ASSUME NEW c \in CallsIn(hpc)
        PROVE  c \in Called' <=> c \in Called
    <3>1. PICK v, q, u : v = c[1][1] /\ q = c[1][2] /\ u = c[2]
      OBVIOUS
    <3>2. c = << <<v, q>>, u >>
      BY <3>1, CallForm
    <3>3. /\ v \in Warps /\ q \in DOMAIN app[hpc].grid[v] /\ u \in Threads
          /\ u \in app[hpc].grid[v][q].active /\ InGroup(app[hpc].grid[v][q], site.igid)
      BY <3>2, CallIs
    <3>4. WarpOf[u] = v /\ q \in Nat
      BY <1>1, <3>3, KernelFacts
    <3>5. c \in Called <=> q < wpc[v] \/ (q = wpc[v] /\ at[u] # "count")
      BY <3>2, CalledIs
    <3>6. c \in Called' <=> q < wpc'[v] \/ (q = wpc'[v] /\ at'[u] # "count")
      BY <2>1, <3>1 DEF Called
    <3>7. CASE v = w
      <4>1. at'[u] = "count"
        BY <1>1, <3>3, <3>4, <3>7
      <4>2. q = p => at[u] # "count"
        <5>1. SUFFICES ASSUME q = p PROVE at[u] # "count"
          OBVIOUS
        <5>2. Instruction(w) = app[hpc].grid[v][q]
          BY <1>b, <3>7, <5>1 DEF Instruction, Code
        <5>3. QED
          BY <1>1, <3>3, <5>2 DEF InTarget
      <4>3. q < p + 1 <=> q < p \/ q = p
        BY <1>3, <3>4
      <4>4. QED
        BY <1>3, <1>b, <3>5, <3>6, <3>7, <4>1, <4>2, <4>3
    <3>8. CASE v # w
      BY <1>1, <1>3, <3>3, <3>4, <3>5, <3>6, <3>8
    <3>9. QED
      BY <3>7, <3>8
  <2>3. Called \subseteq CallsIn(hpc) /\ Called' \subseteq CallsIn(hpc)
    BY <2>1 DEF Called
  <2>4. QED
    BY <2>2, <2>3
<1>5. PassedInv'
  <2> SUFFICES ASSUME InTarget, injCounter > site.iid, AllHaveDestinations, errors = {}
               PROVE  \E u \in Threads : Waiting(u)'
    BY <1>1, <1>2, CallsFrame DEF PassedInv, InTarget
  <2>1. PICK u \in Threads : Waiting(u)
    BY DEF ListInv, PassedInv
  <2>2. /\ at[u] \in {"vote", "inject"} /\ old[u] = site.iid
        /\ u \in Instruction(WarpOf[u]).active /\ InGroup(Instruction(WarpOf[u]), site.igid)
    BY <1>1, <2>1 DEF Waiting, Holder, IInv, CallsInv
  <2>3. WarpOf[u] # w
    BY <1>1, <2>2 DEF InTarget
  <2>4. at'[u] = at[u]
    BY <1>1, <2>3
  <2>5. Waiting(u)'
    BY <1>1, <1>2, <2>2, <2>4 DEF Waiting, Holder
  <2>6. QED
    BY <2>5
<1>6. EndedInv'
  BY <1>1, EndedSame DEF ListInv, EndedInv
<1>7. QED
  BY <1>4, <1>5, <1>6 DEF ListInv

\* A kernel that has ended, and was not killed, has made all its calls.
LEMMA ListExitKernel ==
    ASSUME IInv, ListInv, ExitKernel
    PROVE  ListInv'
<1>b. PICK h : h = hpc
  OBVIOUS
<1>1. /\ phase = "kernel" /\ (aborted \/ \A w \in Warps : Finished(w))
      /\ phase' = "host" /\ hpc' = h + 1
      /\ app' = app /\ site' = site /\ errors' = errors /\ aborted' = aborted
  BY <1>b DEF ExitKernel, LeaveLaunch, deviceVars
<1>2. /\ Len(app) \in Nat /\ h \in 1..Len(app)
      /\ areParamsReady <=> IsNamedLaunch(h)
  BY <1>1, <1>b, KernelFacts, HostInvImpliesArmed DEF IInv, ArmedOnlyInNamedLaunch
<1>3. CalledInv' /\ PassedInv'
  BY <1>1 DEF CalledInv, PassedInv, InTarget
<1>4. ASSUME AllHaveDestinations, IsNamedLaunch(h), site.iid < Cardinality(CallsIn(h))
      PROVE  errors # {}
  <2>1. SUFFICES ASSUME ~aborted, errors = {} PROVE FALSE
    BY DEF ListInv, EndedInv
  <2>2. ASSUME NEW c \in CallsIn(h) PROVE c \in Called
    <3>1. PICK v, q, u : v = c[1][1] /\ q = c[1][2] /\ u = c[2]
      OBVIOUS
    <3>2. c = << <<v, q>>, u >>
      BY <3>1, CallForm
    <3>3. v \in Warps /\ q \in DOMAIN app[h].grid[v]
      BY <3>2, CallIs
    <3>4. q \in 1..Len(Code(v)) /\ Len(Code(v)) \in Nat /\ wpc[v] \in Nat /\ wpc[v] > Len(Code(v))
      BY <1>1, <1>b, <2>1, <3>3, KernelFacts DEF Finished
    <3>5. q < wpc[v]
      BY <3>4
    <3>6. QED
      BY <1>b, <3>2, <3>5, CalledIs
  <2>3. Called = CallsIn(h)
    BY <1>b, <2>2 DEF Called
  <2>4. injCounter = Cardinality(CallsIn(h))
    BY <1>1, <1>2, <1>4, <2>1, <2>3 DEF ListInv, CalledInv, InTarget
  <2>5. injCounter > site.iid
    BY <1>4, <2>4, SiteType DEF IInv, TypeOK, HostTypeOK
  <2>6. PICK u \in Threads : Waiting(u)
    BY <1>1, <1>2, <1>4, <2>1, <2>5 DEF ListInv, PassedInv, InTarget
  <2>7. ~Finished(WarpOf[u]) /\ WarpOf[u] \in Warps
    BY <1>1, <2>6, WarpsAssumption DEF Waiting, Holder, IInv, CallsInv
  <2>8. QED
    BY <1>1, <2>1, <2>7
<1>5. EndedInv'
  <2>1. ASSUME AllHaveDestinations, NEW i \in 1..h, IsNamedLaunch(i), site.iid < Cardinality(CallsIn(i))
        PROVE  errors # {}
    <3>1. CASE i = h
      BY <1>4, <2>1, <3>1
    <3>2. CASE i # h
      <4>1. i \in 1..(hpc - 1)
        BY <1>2, <1>b, <3>2
      <4>2. QED
        BY <2>1, <4>1 DEF ListInv, EndedInv
    <3>3. QED
      BY <3>1, <3>2
  <2>2. /\ \A i : Cardinality(CallsIn(i))' = Cardinality(CallsIn(i))
        /\ \A i : IsNamedLaunch(i)' <=> IsNamedLaunch(i)
        /\ AllHaveDestinations' <=> AllHaveDestinations
    BY <1>1, CallsFrame
  <2>3. hpc' - 1 = h
    BY <1>1, <1>2
  <2>4. aborted' => errors' # {}
    BY <1>1 DEF ListInv, EndedInv
  <2>5. QED
    BY <1>1, <2>1, <2>2, <2>3, <2>4 DEF EndedInv
<1>6. QED
  BY <1>3, <1>5 DEF ListInv

LEMMA ListHost ==
    ASSUME IInv, ListInv, LaunchKernel \/ Reset \/ Exit
    PROVE  ListInv'
<1>b. PICK h : h = hpc
  OBVIOUS
<1>1. /\ app' = app /\ site' = site /\ errors' = errors
      /\ phase = "host" /\ HostTypeOK
  BY DEF LaunchKernel, EnterLaunch, Reset, ResetDevice, Exit, ReturnFromMain, NextCallIs, deviceVars, IInv, TypeOK
<1>2. /\ \A i : Cardinality(CallsIn(i))' = Cardinality(CallsIn(i))
      /\ \A i : IsNamedLaunch(i)' <=> IsNamedLaunch(i)
      /\ AllHaveDestinations' <=> AllHaveDestinations
  BY <1>1, CallsFrame
<1>3. \A i : app[i].op = "reset" => ~IsNamedLaunch(i)
  BY DEF IsNamedLaunch
<1>4. EndedInv
  BY DEF ListInv
<1>5. CASE LaunchKernel
  <2>1. /\ injCounter' = 0 /\ aborted' = FALSE /\ phase' = "kernel" /\ hpc' = hpc
        /\ wpc' = [w \in Warps |-> 1] /\ at' = [t \in Threads |-> "count"]
    BY <1>5 DEF LaunchKernel, EnterLaunch
  <2>2. EndedInv'
    BY <1>1, <1>2, <1>4, <2>1 DEF EndedInv
  <2>3. ~(injCounter' > site'.iid)
    BY <1>1, <2>1, SiteType DEF HostTypeOK
  <2>4. PassedInv'
    BY <2>3 DEF PassedInv
  <2>5. h \in 1..Len(app) /\ app[h].op = "launch" /\ app[h].grid \in [Warps -> Seq(Instructions)]
    <3>1. h \in 1..Len(app) /\ app[h].op = "launch"
      BY <1>1, <1>5, <1>b, CallType DEF LaunchKernel, EnterLaunch, NextCallIs, HostTypeOK
    <3>2. QED
      BY <1>1, <3>1, CallType, GridsAssumption
  <2>6. Called' = {}
    <3>1. CallsIn(hpc)' = CallsIn(h)
      BY <1>1, <1>b, <2>1 DEF CallsIn
    <3>2. ASSUME NEW c \in CallsIn(h)
          PROVE  ~(c[1][2] < wpc'[c[1][1]]) /\ at'[c[2]] = "count"
      <4>1. PICK v, q, u : v = c[1][1] /\ q = c[1][2] /\ u = c[2]
        OBVIOUS
      <4>2. c = << <<v, q>>, u >>
        BY <4>1, CallForm
      <4>3. v \in Warps /\ q \in DOMAIN app[h].grid[v] /\ u \in Threads
        BY <4>2, CallIs
      <4>4. q \in Nat /\ q >= 1
        BY <2>5, <4>3
      <4>5. QED
        BY <2>1, <4>1, <4>3, <4>4
    <3>3. QED
      BY <3>1, <3>2 DEF Called
  <2>7. CalledInv'
    BY <2>1, <2>6, FS_EmptySet DEF CalledInv
  <2>8. QED
    BY <2>2, <2>4, <2>7 DEF ListInv
<1>6. CASE Reset
  <2>1. /\ phase' = "host" /\ hpc' = h + 1 /\ h <= Len(app) /\ app[h].op = "reset" /\ aborted' = aborted
    BY <1>6, <1>b DEF Reset, ResetDevice, NextCallIs, deviceVars
  <2>2. h \in Nat /\ h >= 1
    BY <1>1, <1>b, CallType DEF HostTypeOK
  <2>3. ASSUME AllHaveDestinations, NEW i \in 1..h, IsNamedLaunch(i), site.iid < Cardinality(CallsIn(i))
        PROVE  errors # {}
    <3>1. i \in 1..(hpc - 1)
      BY <1>3, <1>b, <2>1, <2>2, <2>3
    <3>2. QED
      BY <1>4, <2>3, <3>1 DEF EndedInv
  <2>4. hpc' - 1 = h
    BY <2>1, <2>2
  <2>5. EndedInv'
    BY <1>1, <1>2, <1>4, <2>1, <2>3, <2>4 DEF EndedInv
  <2>6. QED
    BY <2>1, <2>5 DEF ListInv, CalledInv, PassedInv, InTarget
<1>7. CASE Exit
  <2>1. phase' = "exited" /\ hpc' = hpc /\ hpc = Len(app) + 1 /\ aborted' = aborted
    BY <1>7 DEF Exit, ReturnFromMain, deviceVars
  <2>2. EndedInv'
    BY <1>1, <1>2, <1>4, <2>1 DEF EndedInv
  <2>3. QED
    BY <2>1, <2>2 DEF ListInv, CalledInv, PassedInv, InTarget
<1>8. QED
  BY <1>5, <1>6, <1>7

\* A killed kernel has the error.
LEMMA ListFault ==
    ASSUME IInv, ListInv, DeviceFault \/ UNCHANGED vars
    PROVE  ListInv'
<1>1. /\ UNCHANGED <<hostVars, injCounter, wpc, at, old, errors>>
      /\ aborted' = aborted \/ (aborted' /\ errors # {})
  BY DEF DeviceFault, vars, deviceVars
<1>2. app' = app /\ site' = site /\ phase' = phase /\ areParamsReady' = areParamsReady
  BY <1>1 DEF hostVars
<1>3. CalledInv'
  <2>1. CASE aborted' = aborted
    BY <1>1, <2>1, CalledSame DEF ListInv
  <2>2. CASE aborted'
    BY <2>2 DEF CalledInv
  <2>3. QED
    BY <1>1, <2>1, <2>2
<1>4. PassedInv'
  <2>1. \A u : Waiting(u)' <=> Waiting(u)
    BY <1>1, <1>2 DEF Waiting, Holder
  <2>2. QED
    BY <1>1, <1>2, <2>1, CallsFrame DEF ListInv, PassedInv, InTarget
<1>5. EndedInv'
  <2>1. aborted' => errors' # {}
    BY <1>1 DEF ListInv, EndedInv
  <2>2. QED
    BY <1>1, <2>1, EndedSame DEF ListInv
<1>6. QED
  BY <1>3, <1>4, <1>5 DEF ListInv

\* Every run of a listed site that gets to its end has the error, for any application,
\* grid, warp size and schedule: the profile, the list and the handler count alike.
THEOREM ListedSitesAreInjected == FairSpec => []ListedSiteIsInjected
<1>1. Init => ListInv
  <2>1. Init => hpc = 1 /\ phase = "host" /\ aborted = FALSE
    BY DEF Init, HostInit
  <2>2. QED
    BY <2>1 DEF ListInv, CalledInv, PassedInv, EndedInv, InTarget
<1>2. IInv /\ ListInv /\ [Next]_vars => ListInv'
  <2> SUFFICES ASSUME IInv, ListInv, [Next]_vars PROVE ListInv'
    OBVIOUS
  <2>1. CASE LaunchKernel \/ Reset \/ Exit
    BY <2>1, ListHost
  <2>2. CASE ExitKernel
    BY <2>2, ListExitKernel
  <2>3. CASE DeviceFault \/ UNCHANGED vars
    BY <2>3, ListFault
  <2>4. ASSUME NEW t \in Threads, Count(t) \/ Inject(t) PROVE ListInv'
    BY <2>4, ListCount, ListInject
  <2>5. ASSUME NEW w \in Warps, Vote(w) \/ Advance(w) PROVE ListInv'
    BY <2>5, ListVote, ListAdvance
  <2>6. QED
    BY <2>1, <2>2, <2>3, <2>4, <2>5 DEF Next, Terminated
<1>3. IInv /\ ListInv => ListedSiteIsInjected
  <2> SUFFICES ASSUME IInv, ListInv, phase = "exited", Listed, AllHaveDestinations
               PROVE  errors # {}
    BY DEF ListedSiteIsInjected
  <2>1. PICK i \in 1..Len(app) : IsNamedLaunch(i) /\ site.iid < Cardinality(CallsIn(i))
    BY ListedMeans DEF IInv, TypeOK
  <2>2. hpc = Len(app) + 1 /\ Len(app) \in Nat
    BY CallType DEF ListInv, EndedInv, IInv, TypeOK, HostTypeOK
  <2>3. i \in 1..(hpc - 1)
    BY <2>2
  <2>4. QED
    BY <2>1, <2>3 DEF ListInv, EndedInv
<1>4. QED
  BY <1>1, <1>2, <1>3, ValueInvariance, PTL DEF Spec, FairSpec
=============================================================================
