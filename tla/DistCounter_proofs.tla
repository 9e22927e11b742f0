-------------------------- MODULE DistCounter_proofs --------------------------
(***************************************************************************)
(* Proofs about DistCounter for every number of ranks, minimizer space,    *)
(* k-mer length and input bound.                                           *)
(***************************************************************************)
EXTENDS DistCounter, FiniteSetTheorems, TLAPS

-----------------------------------------------------------------------------
(* The counts the model takes with Cardinality are natural numbers: every  *)
(* set counted is a subset of a product of finite intervals.               *)

LEMMA IntervalsFinite ==
    /\ IsFiniteSet(Ranks) /\ IsFiniteSet(Idx) /\ IsFiniteSet(Offsets)
BY BoundsAssumption, PAssumption, FS_Interval DEF Ranks, Idx, Offsets

LEMMA CardinalityOfSubset ==
    ASSUME NEW S, IsFiniteSet(S), NEW T \in SUBSET S
    PROVE  Cardinality(T) \in Nat
BY FS_Subset, FS_CardinalityType

LEMMA ProductFinite ==
    ASSUME NEW S, IsFiniteSet(S), NEW T, IsFiniteSet(T)
    PROVE  IsFiniteSet(S \X T)
BY FS_Product

LEMMA KmerPositionsFinite == IsFiniteSet(KmerPositions)
BY IntervalsFinite, ProductFinite DEF KmerPositions

LEMMA LocalLoadType ==
    ASSUME NEW r
    PROVE  LocalLoad(r) \in [Mins -> Nat]
BY KmerPositionsFinite, CardinalityOfSubset DEF LocalLoad, MinimizerPositions

LEMMA ExtractedCountType ==
    ASSUME NEW r \in Ranks, NEW k, recv[r] \in SUBSET (Ranks \X Idx)
    PROVE  Cardinality({q \in Extracted(r) : KmerAt(SuperMerAt(q[1]), q[2]) = k}) \in Nat
<1>1. IsFiniteSet(recv[r])
  BY IntervalsFinite, ProductFinite, FS_Subset
<1>2. IsFiniteSet(recv[r] \X Offsets)
  BY <1>1, IntervalsFinite, ProductFinite
<1>3. {q \in Extracted(r) : KmerAt(SuperMerAt(q[1]), q[2]) = k} \subseteq recv[r] \X Offsets
  BY DEF Extracted
<1>4. QED
  BY <1>2, <1>3, CardinalityOfSubset

-----------------------------------------------------------------------------
(* Type correctness.                                                       *)

LEMMA InitTypeOK == Init => TypeOK
<1> SUFFICES ASSUME Init PROVE TypeOK
  OBVIOUS
<1>1. hist \in [Ranks -> [Mins -> Nat]]
  BY LocalLoadType DEF Init
<1>2. tie \in [Mins -> 1 .. Cardinality(Mins)]
  BY DEF Init
<1>3. /\ pc \in [Ranks -> PCs]
      /\ acc \in [Mins -> Nat]
      /\ load \in [Ranks -> [Ranks -> Nat]]
      /\ binned \in [Ranks -> SUBSET Mins]
      /\ recv \in [Ranks -> SUBSET (Ranks \X Idx)]
      /\ table \in [Ranks -> [KmerSet -> Nat]]
  BY DEF Init, PCs
<1>4. rankmap \in [Ranks -> [Mins -> Ranks]]
  BY PAssumption DEF Init, Ranks
<1>5. QED
  BY <1>1, <1>2, <1>3, <1>4 DEF Init, TypeOK

LEMMA NextTypeOK == TypeOK /\ [Next]_vars => TypeOK'
<1> SUFFICES ASSUME TypeOK, [Next]_vars PROVE TypeOK'
  OBVIOUS
<1>1. ASSUME NEW r \in Ranks, EmptyArrive(r) PROVE TypeOK'
  BY <1>1 DEF EmptyArrive, TypeOK, PCs
<1>2. ASSUME NEW r \in Ranks, ReduceArrive(r) PROVE TypeOK'
  BY <1>2 DEF ReduceArrive, TypeOK, PCs
<1>3. ASSUME NEW r \in Ranks, BinStep(r) PROVE TypeOK'
  <2>1. PICK m \in Mins \ binned[r], w \in Ranks :
             /\ rankmap' = [rankmap EXCEPT ![r][m] = w]
             /\ load' = [load EXCEPT ![r][w] = @ + hist[r][m]]
             /\ binned' = [binned EXCEPT ![r] = @ \cup {m}]
             /\ pc' = [pc EXCEPT ![r] = IF binned'[r] # Mins THEN "bin"
                                        ELSE IF P > 1 THEN "a2a" ELSE "count"]
    BY <1>3 DEF BinStep
  <2>2. rankmap' \in [Ranks -> [Mins -> Ranks]]
    BY SMTT(20), <2>1 DEF TypeOK
  <2>3. load' \in [Ranks -> [Ranks -> Nat]]
    <3>1. load[r][w] + hist[r][m] \in Nat
      BY DEF TypeOK
    <3>2. [load[r] EXCEPT ![w] = load[r][w] + hist[r][m]] \in [Ranks -> Nat]
      BY <3>1 DEF TypeOK
    <3>3. load' = [load EXCEPT ![r] = [load[r] EXCEPT ![w] = load[r][w] + hist[r][m]]]
      BY <2>1 DEF TypeOK
    <3>4. QED
      BY <3>2, <3>3 DEF TypeOK
  <2>4. binned' \in [Ranks -> SUBSET Mins] /\ pc' \in [Ranks -> PCs]
    BY SMTT(20), <2>1 DEF TypeOK, PCs
  <2>5. QED
    BY <1>3, <2>2, <2>3, <2>4 DEF BinStep, TypeOK
<1>4. ASSUME NEW r \in Ranks, A2AArrive(r) PROVE TypeOK'
  BY <1>4 DEF A2AArrive, TypeOK, PCs
<1>5. ASSUME NEW r \in Ranks, LocalCount(r) PROVE TypeOK'
  <2>1. KmerCounts(r) \in [KmerSet -> Nat]
    <3>1. recv[r] \in SUBSET (Ranks \X Idx)
      BY DEF TypeOK
    <3>2. QED
      BY <3>1, ExtractedCountType DEF KmerCounts
  <2>2. AddCounts(table[r], KmerCounts(r)) \in [KmerSet -> Nat]
    BY <2>1 DEF TypeOK, AddCounts
  <2>3. table' \in [Ranks -> [KmerSet -> Nat]]
    BY <1>5, <2>2 DEF LocalCount, TypeOK
  <2>4. QED
    BY <1>5, <2>3 DEF LocalCount, TypeOK, PCs
<1>6. ASSUME EmptyComplete PROVE TypeOK'
  BY <1>6 DEF EmptyComplete, TypeOK, PCs
<1>7. ASSUME ReduceComplete PROVE TypeOK'
  BY <1>7 DEF ReduceComplete, TypeOK, PCs
<1>8. ASSUME A2AComplete PROVE TypeOK'
  BY <1>8 DEF A2AComplete, TypeOK, PCs
<1>9. CASE UNCHANGED vars
  BY <1>9 DEF vars, TypeOK
<1>10. QED
  BY <1>1, <1>2, <1>3, <1>4, <1>5, <1>6, <1>7, <1>8, <1>9
     DEF Next, RankStep, Collective

(* Every reachable state of one insert() call is well typed.               *)
THEOREM TypeCorrect == Spec => []TypeOK
BY InitTypeOK, NextTypeOK, PTL DEF Spec
-----------------------------------------------------------------------------
(* The collectives a rank at pc p has completed in this call: 0 before the *)
(* emptiness test returns, 1 in the all-reduce, 2 in the binning loop and  *)
(* the exchange, 3 once it counts or has returned.                         *)
Phase(p) ==
    CASE p \in {"empty", "empty_wait"}    -> 0
      [] p \in {"reduce", "reduce_wait"}  -> 1
      [] p \in {"bin", "a2a", "a2a_wait"} -> 2
      [] OTHER                           -> 3

(* Collectives complete on every rank at once and every branch between    *)
(* them is taken alike on every rank, so all ranks are in one phase.      *)
PhaseAligned == \A r, s \in Ranks : Phase(pc[r]) = Phase(pc[s])

IInv == TypeOK /\ PhaseAligned

LEMMA InitIInv == Init => IInv
BY InitTypeOK DEF Init, IInv, PhaseAligned, Phase

LEMMA NextIInv == IInv /\ [Next]_vars => IInv'
<1> SUFFICES ASSUME IInv, [Next]_vars PROVE IInv'
  OBVIOUS
<1>1. TypeOK'
  BY NextTypeOK DEF IInv
<1> USE DEF IInv, PhaseAligned
<1>2. ASSUME NEW r \in Ranks, EmptyArrive(r) PROVE PhaseAligned'
  BY <1>2 DEF EmptyArrive, Phase, TypeOK
<1>3. ASSUME NEW r \in Ranks, ReduceArrive(r) PROVE PhaseAligned'
  BY <1>3 DEF ReduceArrive, Phase, TypeOK
<1>4. ASSUME NEW r \in Ranks, BinStep(r) PROVE PhaseAligned'
  <2>1. pc' = [pc EXCEPT ![r] = IF binned'[r] # Mins THEN "bin"
                                ELSE IF P > 1 THEN "a2a" ELSE "count"]
    BY <1>4 DEF BinStep
  <2>2. pc[r] = "bin"
    BY <1>4 DEF BinStep
  <2>3. CASE P > 1
    BY <2>1, <2>2, <2>3 DEF Phase, TypeOK
  <2>4. CASE P = 1
    <3>1. Ranks = {r}
      BY <2>4 DEF Ranks
    <3>2. QED
      BY <2>1, <3>1 DEF TypeOK
  <2>5. QED
    BY <2>3, <2>4, PAssumption
<1>5. ASSUME NEW r \in Ranks, A2AArrive(r) PROVE PhaseAligned'
  BY <1>5 DEF A2AArrive, Phase, TypeOK
<1>6. ASSUME NEW r \in Ranks, LocalCount(r) PROVE PhaseAligned'
  BY <1>6 DEF LocalCount, Phase, TypeOK
<1>7. ASSUME EmptyComplete PROVE PhaseAligned'
  BY <1>7 DEF EmptyComplete, Phase
<1>8. ASSUME ReduceComplete PROVE PhaseAligned'
  BY <1>8 DEF ReduceComplete, Phase
<1>9. ASSUME A2AComplete PROVE PhaseAligned'
  BY <1>9 DEF A2AComplete, Phase
<1>10. ASSUME UNCHANGED vars PROVE PhaseAligned'
  BY <1>10 DEF vars
<1>11. QED
  BY <1>1, <1>2, <1>3, <1>4, <1>5, <1>6, <1>7, <1>8, <1>9, <1>10
     DEF Next, RankStep, Collective

LEMMA IInvAligned == IInv => CollectivesAligned
BY DEF IInv, PhaseAligned, Phase, TypeOK, PCs, CollectivesAligned

(* No rank is ever left waiting in a collective that another rank has     *)
(* skipped or left: ::dsc::empty, the all-reduce and the all-to-all are   *)
(* entered by every rank in the same order.                               *)
THEOREM CollectivesAlignedThm == Spec => []CollectivesAligned
<1>1. Spec => []IInv
  BY InitIInv, NextIInv, PTL DEF Spec
<1>2. QED
  BY <1>1, IInvAligned, PTL
-----------------------------------------------------------------------------
(* The binning invariant.  After the all-reduce every rank's load map is  *)
(* the global one, GlobalLoad, a function of the input alone; each rank's *)
(* rank_load is the k-mer count of the minimizers it has binned to each   *)
(* rank; its binned set is a prefix of the sorted order; each binned      *)
(* minimizer went to the least-loaded rank for the prefix before it; and  *)
(* so two ranks agree on every minimizer both have binned.                *)

GlobalLoad == [m \in Mins |-> Cardinality(MinimizerPositions(m))]

(* The ranks whose contribution the all-reduce holds.                     *)
Arrived == {r \in Ranks : pc[r] = "reduce_wait"}

(* The loads rank r's vector gives to the minimizers of B.                *)
LoadBy(f, B) ==
    [w \in Ranks |-> Cardinality(UNION {MinimizerPositions(x) : x \in {y \in B : f[y] = w}})]
PrefixLoad(r, B) == LoadBy(rankmap[r], B)

(* The minimizers rank r binned before a.                                 *)
Before(r, a) == {x \in binned[r] : SortedBefore(GlobalLoad, x, a)}

TieInjective == \A a, b \in Mins : tie[a] = tie[b] => a = b

HistLocal == \A r \in Ranks : Phase(pc[r]) <= 1 => hist[r] = LocalLoad(r) /\ binned[r] = {}

AccSums ==
    (\A r \in Ranks : Phase(pc[r]) <= 1) =>
        acc = [m \in Mins |-> Cardinality({g \in MinimizerPositions(m) : g[1][1] \in Arrived})]

HistGlobal == \A r \in Ranks : (Phase(pc[r]) = 2 \/ binned[r] # {}) => hist[r] = GlobalLoad

LoadIsCount == \A r \in Ranks : load[r] = PrefixLoad(r, binned[r])

BinnedIsPrefix ==
    \A r \in Ranks : \A a \in binned[r], b \in Mins \ binned[r] : SortedBefore(GlobalLoad, a, b)

GreedyChoice ==
    \A r \in Ranks : \A a \in binned[r] : IsLeastLoaded(PrefixLoad(r, Before(r, a)), rankmap[r][a])

MapsAgreeOnCommon ==
    \A r, s \in Ranks : \A a \in binned[r] \cap binned[s] : rankmap[r][a] = rankmap[s][a]

BInv ==
    /\ IInv /\ TieInjective /\ HistLocal /\ AccSums /\ HistGlobal
    /\ LoadIsCount /\ BinnedIsPrefix /\ GreedyChoice /\ MapsAgreeOnCommon

LEMMA CardDisjointUnion ==
    ASSUME NEW S, IsFiniteSet(S), NEW T, IsFiniteSet(T), S \cap T = {}
    PROVE  Cardinality(S \cup T) = Cardinality(S) + Cardinality(T)
<1>1. Cardinality(S \cap T) = 0
  BY FS_EmptySet
<1>2. Cardinality(S \cup T) = Cardinality(S) + Cardinality(T) - Cardinality(S \cap T)
  BY FS_Union
<1>3. Cardinality(S) \in Nat /\ Cardinality(T) \in Nat
  BY FS_CardinalityType
<1>4. QED
  BY <1>1, <1>2, <1>3

LEMMA PositionsDisjoint ==
    ASSUME NEW a, NEW b, a # b
    PROVE  MinimizerPositions(a) \cap MinimizerPositions(b) = {}
BY DEF MinimizerPositions

LEMMA GlobalLoadType == GlobalLoad \in [Mins -> Nat]
BY KmerPositionsFinite, CardinalityOfSubset DEF GlobalLoad, MinimizerPositions

(* The comparator with an injective tie order is a strict total order.    *)
LEMMA SortedOrder ==
    ASSUME NEW h \in [Mins -> Nat], TieInjective, tie \in [Mins -> 1 .. Cardinality(Mins)],
           NEW a \in Mins, NEW b \in Mins
    PROVE  /\ ~SortedBefore(h, a, a)
           /\ SortedBefore(h, a, b) => ~SortedBefore(h, b, a)
           /\ a # b => SortedBefore(h, a, b) \/ SortedBefore(h, b, a)
<1>1. tie[a] \in Nat /\ tie[b] \in Nat
  OBVIOUS
<1>2. a # b => tie[a] # tie[b]
  BY DEF TieInjective
<1>3. QED
  BY <1>1, <1>2 DEF SortedBefore

(* The inner loop's argmin is unique.                                      *)
LEMMA LeastLoadedUnique ==
    ASSUME NEW ld \in [Ranks -> Nat], NEW v \in Ranks, NEW w \in Ranks,
           IsLeastLoaded(ld, v), IsLeastLoaded(ld, w)
    PROVE  v = w
BY DEF IsLeastLoaded, Ranks

LEMMA LoadByType ==
    ASSUME NEW f, NEW B
    PROVE  LoadBy(f, B) \in [Ranks -> Nat]
<1>1. \A w \in Ranks :
        UNION {MinimizerPositions(x) : x \in {y \in B : f[y] = w}} \subseteq KmerPositions
  BY DEF MinimizerPositions
<1>2. QED
  BY <1>1, KmerPositionsFinite, CardinalityOfSubset DEF LoadBy

LEMMA LoadByAgree ==
    ASSUME NEW f, NEW g, NEW B, \A x \in B : f[x] = g[x]
    PROVE  LoadBy(f, B) = LoadBy(g, B)
<1>1. \A w \in Ranks : {y \in B : f[y] = w} = {y \in B : g[y] = w}
  OBVIOUS
<1>2. QED
  BY <1>1 DEF LoadBy

(* Binning one more minimizer m adds its k-mer count to its rank's load.   *)
LEMMA LoadByAdd ==
    ASSUME NEW f, NEW B, NEW m, m \notin B, f[m] \in Ranks
    PROVE  LoadBy(f, B \cup {m}) =
               [LoadBy(f, B) EXCEPT ![f[m]] = @ + Cardinality(MinimizerPositions(m))]
<1> DEFINE U(C, w) == UNION {MinimizerPositions(x) : x \in {y \in C : f[y] = w}}
<1>1. ASSUME NEW w \in Ranks, w # f[m]
      PROVE  U(B \cup {m}, w) = U(B, w)
  BY <1>1
<1>2. U(B \cup {m}, f[m]) = U(B, f[m]) \cup MinimizerPositions(m)
  OBVIOUS
<1>3. U(B, f[m]) \cap MinimizerPositions(m) = {}
  BY PositionsDisjoint
<1>4. IsFiniteSet(U(B, f[m])) /\ IsFiniteSet(MinimizerPositions(m))
  <2>1. U(B, f[m]) \subseteq KmerPositions /\ MinimizerPositions(m) \subseteq KmerPositions
    BY DEF MinimizerPositions
  <2>2. QED
    BY <2>1, KmerPositionsFinite, FS_Subset
<1>5. Cardinality(U(B \cup {m}, f[m])) = Cardinality(U(B, f[m])) + Cardinality(MinimizerPositions(m))
  BY <1>2, <1>3, <1>4, CardDisjointUnion
<1>6. QED
  BY <1>1, <1>5 DEF LoadBy

LEMMA InitBInv == Init => BInv
<1> SUFFICES ASSUME Init PROVE BInv
  OBVIOUS
<1>1. IInv
  BY InitIInv
<1>2. TieInjective /\ HistLocal
  BY DEF Init, TieInjective, HistLocal, Phase
<1>3. Arrived = {}
  BY DEF Init, Arrived
<1>4. AccSums
  <2>1. \A m \in Mins : {g \in MinimizerPositions(m) : g[1][1] \in Arrived} = {}
    BY <1>3
  <2>2. QED
    BY <2>1, FS_EmptySet DEF AccSums, Init
<1>5. LoadIsCount
  <2>1. SUFFICES ASSUME NEW r \in Ranks, NEW w \in Ranks
                 PROVE  load[r][w] = PrefixLoad(r, binned[r])[w]
    BY DEF LoadIsCount, PrefixLoad, LoadBy, Init
  <2>2. {y \in binned[r] : rankmap[r][y] = w} = {}
    BY DEF Init
  <2>3. UNION {MinimizerPositions(x) : x \in {y \in binned[r] : rankmap[r][y] = w}} = {}
    BY <2>2
  <2>4. PrefixLoad(r, binned[r])[w] = 0
    BY <2>3, FS_EmptySet DEF PrefixLoad, LoadBy
  <2>5. QED
    BY <2>4 DEF Init
<1>6. HistGlobal /\ BinnedIsPrefix /\ GreedyChoice /\ MapsAgreeOnCommon
  BY DEF Init, HistGlobal, Phase, BinnedIsPrefix, GreedyChoice, MapsAgreeOnCommon
<1>7. QED
  BY <1>1, <1>2, <1>4, <1>5, <1>6 DEF BInv

(* A step that leaves the input and the binning state alone keeps every   *)
(* part of the invariant that does not read pc or the load maps.          *)
LEMMA BinningFrame ==
    ASSUME TieInjective, LoadIsCount, BinnedIsPrefix, GreedyChoice, MapsAgreeOnCommon,
           UNCHANGED <<input, tie, load, binned, rankmap>>
    PROVE  (TieInjective /\ LoadIsCount /\ BinnedIsPrefix /\ GreedyChoice /\ MapsAgreeOnCommon)'
<1>1. \A m : MinimizerPositions(m)' = MinimizerPositions(m)
  BY DEF MinimizerPositions, SuperMerAt
<1>2. GlobalLoad' = GlobalLoad
  BY <1>1 DEF GlobalLoad
<1>3. \A f, B : LoadBy(f, B)' = LoadBy(f, B)
  BY <1>1 DEF LoadBy
<1>4. \A h, a, b : SortedBefore(h, a, b)' = SortedBefore(h, a, b)
  BY DEF SortedBefore
<1>5. \A r, a : Before(r, a)' = Before(r, a)
  BY <1>2, <1>4 DEF Before
<1>6. \A r, B : PrefixLoad(r, B)' = PrefixLoad(r, B)
  BY <1>3 DEF PrefixLoad
<1>7. QED
  BY <1>2, <1>4, <1>5, <1>6
  DEF TieInjective, LoadIsCount, BinnedIsPrefix, GreedyChoice, MapsAgreeOnCommon, IsLeastLoaded

(* A step that moves no rank across a phase, and no rank into or out of    *)
(* the all-reduce, keeps the parts of the invariant about the load maps.   *)
LEMMA PhaseFrame ==
    ASSUME HistLocal, AccSums, HistGlobal,
           UNCHANGED <<input, acc, hist, binned>>,
           \A s \in Ranks : Phase(pc'[s]) = Phase(pc[s]),
           Arrived' = Arrived
    PROVE  (HistLocal /\ AccSums /\ HistGlobal)'
<1>1. \A m : MinimizerPositions(m)' = MinimizerPositions(m)
  BY DEF MinimizerPositions, SuperMerAt
<1>2. GlobalLoad' = GlobalLoad
  BY <1>1 DEF GlobalLoad
<1>3. \A r : LocalLoad(r)' = LocalLoad(r)
  BY <1>1 DEF LocalLoad
<1>4. QED
  BY <1>1, <1>2, <1>3 DEF HistLocal, AccSums, HistGlobal

LEMMA EmptyArriveBInv ==
    ASSUME BInv, NEW r \in Ranks, EmptyArrive(r)
    PROVE  BInv'
<1>1. IInv'
  BY NextIInv DEF BInv, Next, RankStep
<1>2. (TieInjective /\ LoadIsCount /\ BinnedIsPrefix /\ GreedyChoice /\ MapsAgreeOnCommon)'
  BY BinningFrame DEF BInv, EmptyArrive
<1>3. \A s \in Ranks : Phase(pc'[s]) = Phase(pc[s])
  BY DEF EmptyArrive, BInv, IInv, TypeOK, Phase
<1>4. Arrived' = Arrived
  BY DEF EmptyArrive, BInv, IInv, TypeOK, Arrived
<1>5. (HistLocal /\ AccSums /\ HistGlobal)'
  BY <1>3, <1>4, PhaseFrame DEF BInv, EmptyArrive
<1>6. QED
  BY <1>1, <1>2, <1>5 DEF BInv

LEMMA A2AArriveBInv ==
    ASSUME BInv, NEW r \in Ranks, A2AArrive(r)
    PROVE  BInv'
<1>1. IInv'
  BY NextIInv DEF BInv, Next, RankStep
<1>2. (TieInjective /\ LoadIsCount /\ BinnedIsPrefix /\ GreedyChoice /\ MapsAgreeOnCommon)'
  BY BinningFrame DEF BInv, A2AArrive
<1>3. \A s \in Ranks : Phase(pc'[s]) = Phase(pc[s])
  BY DEF A2AArrive, BInv, IInv, TypeOK, Phase
<1>4. Arrived' = Arrived
  BY DEF A2AArrive, BInv, IInv, TypeOK, Arrived
<1>5. (HistLocal /\ AccSums /\ HistGlobal)'
  BY <1>3, <1>4, PhaseFrame DEF BInv, A2AArrive
<1>6. QED
  BY <1>1, <1>2, <1>5 DEF BInv

LEMMA LocalCountBInv ==
    ASSUME BInv, NEW r \in Ranks, LocalCount(r)
    PROVE  BInv'
<1>1. IInv'
  BY NextIInv DEF BInv, Next, RankStep
<1>2. (TieInjective /\ LoadIsCount /\ BinnedIsPrefix /\ GreedyChoice /\ MapsAgreeOnCommon)'
  BY BinningFrame DEF BInv, LocalCount
<1>3. \A s \in Ranks : Phase(pc'[s]) = Phase(pc[s])
  BY DEF LocalCount, BInv, IInv, TypeOK, Phase
<1>4. Arrived' = Arrived
  BY DEF LocalCount, BInv, IInv, TypeOK, Arrived
<1>5. (HistLocal /\ AccSums /\ HistGlobal)'
  BY <1>3, <1>4, PhaseFrame DEF BInv, LocalCount
<1>6. QED
  BY <1>1, <1>2, <1>5 DEF BInv

LEMMA EmptyCompleteBInv ==
    ASSUME BInv, EmptyComplete
    PROVE  BInv'
<1>1. IInv'
  BY NextIInv DEF BInv, Next, Collective
<1>2. (TieInjective /\ LoadIsCount /\ BinnedIsPrefix /\ GreedyChoice /\ MapsAgreeOnCommon)'
  BY BinningFrame DEF BInv, EmptyComplete
<1>3. \A s \in Ranks : Phase(pc[s]) = 0 /\ binned[s] = {} /\ hist[s] = LocalLoad(s)
  BY DEF EmptyComplete, BInv, HistLocal, Phase
<1>4. \A s \in Ranks : pc'[s] \in {"reduce", "done"}
  BY DEF EmptyComplete
<1>5. Arrived' = {} /\ Arrived = {}
  BY <1>4 DEF EmptyComplete, Arrived
<1>6. \A m : MinimizerPositions(m)' = MinimizerPositions(m)
  BY DEF EmptyComplete, MinimizerPositions, SuperMerAt
<1>7. HistLocal'
  BY SMTT(20), <1>3, <1>4, <1>6 DEF EmptyComplete, HistLocal, Phase, LocalLoad
<1>8. AccSums'
  <2>1. acc = [m \in Mins |-> Cardinality({g \in MinimizerPositions(m) : g[1][1] \in Arrived})]
    BY <1>3 DEF BInv, AccSums
  <2>2. QED
    BY <2>1, <1>5, <1>6 DEF EmptyComplete, AccSums
<1>9. HistGlobal'
  BY <1>3, <1>4 DEF EmptyComplete, HistGlobal, Phase
<1>10. QED
  BY <1>1, <1>2, <1>7, <1>8, <1>9 DEF BInv

LEMMA A2ACompleteBInv ==
    ASSUME BInv, A2AComplete
    PROVE  BInv'
<1>1. IInv'
  BY NextIInv DEF BInv, Next, Collective
<1>2. (TieInjective /\ LoadIsCount /\ BinnedIsPrefix /\ GreedyChoice /\ MapsAgreeOnCommon)'
  BY BinningFrame DEF BInv, A2AComplete
<1>3. \A s \in Ranks : Phase(pc[s]) = 2 /\ pc'[s] = "count"
  BY DEF A2AComplete, Phase
<1>4. \A m : MinimizerPositions(m)' = MinimizerPositions(m)
  BY DEF A2AComplete, MinimizerPositions, SuperMerAt
<1>5. GlobalLoad' = GlobalLoad
  BY <1>4 DEF GlobalLoad
<1>6. \A s \in Ranks : hist'[s] = GlobalLoad'
  BY <1>3, <1>5 DEF BInv, HistGlobal, A2AComplete
<1>7. 0 \in Ranks
  BY PAssumption DEF Ranks
<1>8. (HistLocal /\ AccSums /\ HistGlobal)'
  BY <1>3, <1>6, <1>7 DEF HistLocal, AccSums, HistGlobal, Phase
<1>9. QED
  BY <1>1, <1>2, <1>8 DEF BInv

(* The all-reduce sums what every rank contributed: GlobalLoad.            *)
LEMMA ReduceCompleteBInv ==
    ASSUME BInv, ReduceComplete
    PROVE  BInv'
<1>1. IInv'
  BY NextIInv DEF BInv, Next, Collective
<1>2. (TieInjective /\ LoadIsCount /\ BinnedIsPrefix /\ GreedyChoice /\ MapsAgreeOnCommon)'
  BY BinningFrame DEF BInv, ReduceComplete
<1>3. \A s \in Ranks : Phase(pc[s]) = 1 /\ pc'[s] = "bin"
  BY DEF ReduceComplete, Phase
<1>4. Arrived = Ranks
  BY DEF ReduceComplete, Arrived
<1>5. ASSUME NEW m \in Mins
      PROVE  {g \in MinimizerPositions(m) : g[1][1] \in Arrived} = MinimizerPositions(m)
  BY <1>4 DEF MinimizerPositions, KmerPositions
<1>6. acc = GlobalLoad
  BY <1>3, <1>5 DEF BInv, AccSums, GlobalLoad
<1>7. \A m : MinimizerPositions(m)' = MinimizerPositions(m)
  BY DEF ReduceComplete, MinimizerPositions, SuperMerAt
<1>8. GlobalLoad' = GlobalLoad
  BY <1>7 DEF GlobalLoad
<1>9. \A s \in Ranks : hist'[s] = GlobalLoad'
  BY <1>6, <1>8 DEF ReduceComplete
<1>10. 0 \in Ranks
  BY PAssumption DEF Ranks
<1>11. (HistLocal /\ AccSums /\ HistGlobal)'
  BY <1>3, <1>9, <1>10 DEF HistLocal, AccSums, HistGlobal, Phase
<1>12. QED
  BY <1>1, <1>2, <1>11 DEF BInv

(* A rank's contribution adds the k-mers of its own shard to the sums.     *)
LEMMA ReduceArriveBInv ==
    ASSUME BInv, NEW r \in Ranks, ReduceArrive(r)
    PROVE  BInv'
<1>1. IInv'
  BY NextIInv DEF BInv, Next, RankStep
<1>2. (TieInjective /\ LoadIsCount /\ BinnedIsPrefix /\ GreedyChoice /\ MapsAgreeOnCommon)'
  BY BinningFrame DEF BInv, ReduceArrive
<1>3. \A s \in Ranks : Phase(pc[s]) = 1 /\ Phase(pc'[s]) = 1
  BY DEF ReduceArrive, BInv, IInv, TypeOK, PhaseAligned, Phase
<1>4. Arrived' = Arrived \cup {r} /\ r \notin Arrived
  BY DEF ReduceArrive, BInv, IInv, TypeOK, Arrived
<1>5. \A m : MinimizerPositions(m)' = MinimizerPositions(m)
  BY DEF ReduceArrive, MinimizerPositions, SuperMerAt
<1>6. GlobalLoad' = GlobalLoad /\ \A s : LocalLoad(s)' = LocalLoad(s)
  BY <1>5 DEF GlobalLoad, LocalLoad
<1>7. (HistLocal /\ HistGlobal)'
  BY <1>3, <1>6 DEF BInv, HistLocal, HistGlobal, ReduceArrive
<1>8. AccSums'
  <2> DEFINE A(m, S) == {g \in MinimizerPositions(m) : g[1][1] \in S}
  <2>1. acc = [m \in Mins |-> Cardinality(A(m, Arrived))]
    BY <1>3 DEF BInv, AccSums
  <2>2. hist[r] = [m \in Mins |-> Cardinality(A(m, {r}))]
    BY <1>3 DEF BInv, HistLocal, LocalLoad
  <2>3. ASSUME NEW m \in Mins
        PROVE  Cardinality(A(m, Arrived \cup {r}))
                 = Cardinality(A(m, Arrived)) + Cardinality(A(m, {r}))
    <3>1. A(m, Arrived \cup {r}) = A(m, Arrived) \cup A(m, {r})
      OBVIOUS
    <3>2. A(m, Arrived) \cap A(m, {r}) = {}
      BY <1>4
    <3>3. IsFiniteSet(A(m, Arrived)) /\ IsFiniteSet(A(m, {r}))
      <4>1. A(m, Arrived) \subseteq KmerPositions /\ A(m, {r}) \subseteq KmerPositions
        BY DEF MinimizerPositions
      <4>2. QED
        BY <4>1, KmerPositionsFinite, FS_Subset
    <3>4. QED
      BY <3>1, <3>2, <3>3, CardDisjointUnion
  <2>4. acc' = [m \in Mins |-> Cardinality(A(m, Arrived \cup {r}))]
    BY <2>1, <2>2, <2>3 DEF ReduceArrive
  <2>5. QED
    BY <2>4, <1>4, <1>5 DEF AccSums
<1>9. QED
  BY <1>1, <1>2, <1>7, <1>8 DEF BInv

(* One iteration of the binning loop: rank r bins the first unbinned       *)
(* minimizer m of the sorted order to the least-loaded rank w.  Another    *)
(* rank s that binned m already did so after the same prefix of the order, *)
(* with the same loads, so it chose w too.                                 *)
LEMMA BinStepBInv ==
    ASSUME BInv, NEW r \in Ranks, BinStep(r)
    PROVE  BInv'
<1>1. IInv'
  BY NextIInv DEF BInv, Next, RankStep
<1> USE DEF BInv, IInv
<1>2. PICK m \in Mins \ binned[r], w \in Ranks :
           /\ \A m2 \in Mins \ binned[r] : m2 = m \/ SortedBefore(hist[r], m, m2)
           /\ IsLeastLoaded(load[r], w)
           /\ rankmap' = [rankmap EXCEPT ![r][m] = w]
           /\ load' = [load EXCEPT ![r][w] = @ + hist[r][m]]
           /\ binned' = [binned EXCEPT ![r] = @ \cup {m}]
           /\ pc' = [pc EXCEPT ![r] = IF binned'[r] # Mins THEN "bin"
                                      ELSE IF P > 1 THEN "a2a" ELSE "count"]
  BY DEF BinStep
<1>3. pc[r] = "bin" /\ UNCHANGED <<input, nonEmpty, acc, hist, tie, recv, table>>
  BY DEF BinStep
<1> DEFINE Bn == binned[r]
           Rm == rankmap'[r]
<1>4. \A s \in Ranks : Phase(pc[s]) = 2 /\ hist[s] = GlobalLoad
  BY <1>3 DEF PhaseAligned, Phase, HistGlobal
<1>5. /\ binned'[r] = Bn \cup {m}
      /\ \A s \in Ranks \ {r} : binned'[s] = binned[s]
      /\ Rm[m] = w
      /\ \A x \in Mins \ {m} : Rm[x] = rankmap[r][x]
      /\ \A s \in Ranks \ {r} : rankmap'[s] = rankmap[s]
      /\ load'[r] = [load[r] EXCEPT ![w] = @ + hist[r][m]]
      /\ \A s \in Ranks \ {r} : load'[s] = load[s]
      /\ \A s \in Ranks : pc'[s] \in {"bin", "a2a", "a2a_wait", "count"}
  BY <1>2, <1>4 DEF TypeOK, Phase
<1>6. /\ \A x : MinimizerPositions(x)' = MinimizerPositions(x)
      /\ GlobalLoad' = GlobalLoad
      /\ \A F, C : LoadBy(F, C)' = LoadBy(F, C)
      /\ \A h, a, b : SortedBefore(h, a, b)' = SortedBefore(h, a, b)
  BY <1>3 DEF MinimizerPositions, SuperMerAt, GlobalLoad, LoadBy, SortedBefore
<1>7. /\ \A s \in Ranks : PrefixLoad(s, binned[s])' = LoadBy(rankmap'[s], binned'[s])
      /\ \A s \in Ranks, a \in Mins :
            Before(s, a)' = {x \in binned'[s] : SortedBefore(GlobalLoad, x, a)}
      /\ \A s \in Ranks, a \in Mins :
            PrefixLoad(s, Before(s, a))' = LoadBy(rankmap'[s], Before(s, a)')
  <2>1. \A x : MinimizerPositions(x)' = MinimizerPositions(x)
    BY <1>6
  <2>2. \A s \in Ranks : PrefixLoad(s, binned[s])' = LoadBy(rankmap'[s], binned'[s])
    BY <2>1 DEF PrefixLoad, LoadBy
  <2>3. \A s \in Ranks, a \in Mins :
            Before(s, a)' = {x \in binned'[s] : SortedBefore(GlobalLoad, x, a)}
    BY <1>3, <1>6 DEF Before, SortedBefore
  <2>4. \A s \in Ranks, a \in Mins :
            PrefixLoad(s, Before(s, a))' = LoadBy(rankmap'[s], Before(s, a)')
    BY <2>1 DEF PrefixLoad, LoadBy
  <2>5. QED
    BY <2>2, <2>3, <2>4
<1>8. GlobalLoad \in [Mins -> Nat] /\ tie \in [Mins -> 1 .. Cardinality(Mins)]
  BY GlobalLoadType DEF TypeOK
<1>9. \A m2 \in Mins \ Bn : m2 = m \/ SortedBefore(GlobalLoad, m, m2)
  BY <1>2, <1>4
<1>10. \A x \in Bn : SortedBefore(GlobalLoad, x, m) /\ ~SortedBefore(GlobalLoad, m, x)
  BY <1>8, SortedOrder DEF BinnedIsPrefix, TypeOK
<1>11. LoadBy(Rm, Bn) = load[r]
  <2>1. \A x \in Bn : Rm[x] = rankmap[r][x]
    BY <1>5 DEF TypeOK
  <2>2. QED
    BY <2>1, LoadByAgree DEF LoadIsCount, PrefixLoad
<1>12. (TieInjective /\ HistLocal /\ AccSums /\ HistGlobal)'
  <2>1. TieInjective'
    BY <1>3 DEF TieInjective
  <2>2. HistLocal'
    BY <1>5 DEF HistLocal, Phase
  <2>3. AccSums'
    BY SMTT(20), <1>5 DEF AccSums, Phase
  <2>4. HistGlobal'
    BY SMTT(20), <1>3, <1>4, <1>6 DEF HistGlobal
  <2>5. QED
    BY <2>1, <2>2, <2>3, <2>4
<1>13. LoadIsCount'
  <2>1. LoadBy(Rm, Bn \cup {m}) = [LoadBy(Rm, Bn) EXCEPT ![w] = @ + Cardinality(MinimizerPositions(m))]
    BY <1>5, LoadByAdd
  <2>2. hist[r][m] = Cardinality(MinimizerPositions(m))
    BY <1>4 DEF GlobalLoad
  <2>3. load'[r] = LoadBy(Rm, binned'[r])
    BY <2>1, <2>2, <1>11, <1>5
  <2>4. ASSUME NEW s \in Ranks \ {r} PROVE load'[s] = LoadBy(rankmap'[s], binned'[s])
    BY <1>5 DEF LoadIsCount, PrefixLoad
  <2>5. QED
    BY SMTT(20), <2>3, <2>4, <1>7 DEF LoadIsCount
<1>14. BinnedIsPrefix'
  <2>1. ASSUME NEW a \in binned'[r], NEW b \in Mins \ binned'[r]
        PROVE  SortedBefore(GlobalLoad, a, b)
    BY SMTT(20), <1>5, <1>9 DEF BinnedIsPrefix
  <2>2. QED
    BY <2>1, <1>5, <1>6 DEF BinnedIsPrefix
<1>15. GreedyChoice'
  <2>1. Before(r, m)' = Bn
    <3>1. ~SortedBefore(GlobalLoad, m, m)
      BY <1>8, SortedOrder, Zenon DEF TypeOK
    <3>2. Before(r, m)' = {x \in Bn \cup {m} : SortedBefore(GlobalLoad, x, m)}
      BY SMTT(20), <1>5, <1>7
    <3>3. QED
      BY <3>1, <3>2, <1>10
  <2>2. IsLeastLoaded(PrefixLoad(r, Before(r, m))', Rm[m])
    BY SMTT(20), <2>1, <1>2, <1>5, <1>7, <1>11
  <2>3. ASSUME NEW a \in Bn
        PROVE  IsLeastLoaded(PrefixLoad(r, Before(r, a))', Rm[a])
    <3>1. Before(r, a)' = Before(r, a)
      <4>1. a \in Mins
        BY SMTT(20) DEF TypeOK
      <4>2. Before(r, a)' = {x \in Bn \cup {m} : SortedBefore(GlobalLoad, x, a)}
        BY SMTT(20), <4>1, <1>5, <1>7
      <4>3. ~SortedBefore(GlobalLoad, m, a)
        BY <1>10
      <4>4. Before(r, a) = {x \in Bn : SortedBefore(GlobalLoad, x, a)}
        BY SMTT(20) DEF Before
      <4>5. QED
        BY <4>2, <4>3, <4>4
    <3>2. \A x \in Before(r, a) : Rm[x] = rankmap[r][x]
      BY SMTT(20), <1>5 DEF Before, TypeOK
    <3>3. LoadBy(Rm, Before(r, a)) = PrefixLoad(r, Before(r, a))
      BY SMTT(20), <3>2, LoadByAgree DEF PrefixLoad
    <3>4. Rm[a] = rankmap[r][a]
      BY SMTT(20), <1>5 DEF TypeOK
    <3>5. QED
      BY SMTT(20), <3>1, <3>3, <3>4, <1>7 DEF GreedyChoice, TypeOK
  <2>4. ASSUME NEW s \in Ranks \ {r}, NEW a \in binned'[s]
        PROVE  IsLeastLoaded(PrefixLoad(s, Before(s, a))', rankmap'[s][a])
    <3>1. a \in binned[s] /\ a \in Mins
      BY SMTT(20), <1>5 DEF TypeOK
    <3>2. Before(s, a)' = Before(s, a)
      BY SMTT(20), <3>1, <1>5, <1>7 DEF Before
    <3>3. PrefixLoad(s, Before(s, a))' = PrefixLoad(s, Before(s, a))
      BY SMTT(20), <3>1, <3>2, <1>5, <1>7 DEF PrefixLoad
    <3>4. QED
      BY SMTT(20), <3>1, <3>3, <1>5 DEF GreedyChoice
  <2>5. QED
    BY SMTT(20), <2>2, <2>3, <2>4, <1>5 DEF GreedyChoice
<1>16. ASSUME NEW s \in Ranks, m \in binned[s]
       PROVE  rankmap[s][m] = w
  <2>1. Before(s, m) = Bn
    <3>1. ASSUME NEW x \in binned[s], SortedBefore(GlobalLoad, x, m) PROVE x \in Bn
      BY <3>1, <1>9, <1>8, SortedOrder DEF TypeOK
    <3>2. ASSUME NEW x \in Bn PROVE x \in binned[s]
      BY <1>10, <1>16 DEF BinnedIsPrefix, TypeOK
    <3>3. QED
      BY SMTT(20), <3>1, <3>2, <1>10 DEF Before
  <2>2. PrefixLoad(s, Bn) = load[r]
    <3>1. \A x \in Bn : rankmap[s][x] = rankmap[r][x]
      BY <2>1 DEF MapsAgreeOnCommon, Before
    <3>2. QED
      BY <3>1, LoadByAgree DEF LoadIsCount, PrefixLoad
  <2>3. IsLeastLoaded(load[r], rankmap[s][m])
    BY <2>1, <2>2, <1>16 DEF GreedyChoice
  <2>4. QED
    <3>1. load[r] \in [Ranks -> Nat] /\ rankmap[s][m] \in Ranks
      BY DEF TypeOK
    <3>2. QED
      BY SMTT(20), <3>1, <2>3, <1>2, LeastLoadedUnique
<1>17. MapsAgreeOnCommon'
  <2>1. SUFFICES ASSUME NEW s1 \in Ranks, NEW s2 \in Ranks, NEW a \in binned'[s1] \cap binned'[s2]
                 PROVE  rankmap'[s1][a] = rankmap'[s2][a]
    BY DEF MapsAgreeOnCommon
  <2>2. CASE a = m
    <3>1. ASSUME NEW s \in Ranks, m \in binned'[s] PROVE rankmap'[s][m] = w
      <4>1. CASE s = r
        BY SMTT(20), <4>1, <1>5
      <4>2. CASE s # r
        BY SMTT(20), <4>2, <3>1, <1>5, <1>16
      <4>3. QED
        BY SMTT(20), <4>1, <4>2
    <3>2. QED
      BY <2>2, <3>1
  <2>3. CASE a # m
    <3>1. a \in binned[s1] \cap binned[s2]
      BY SMTT(20), <2>3, <1>5
    <3>2. rankmap'[s1][a] = rankmap[s1][a] /\ rankmap'[s2][a] = rankmap[s2][a]
      BY <2>3, <1>1, <1>5 DEF TypeOK
    <3>3. QED
      BY SMTT(20), <3>1, <3>2 DEF MapsAgreeOnCommon
  <2>4. QED
    BY SMTT(20), <2>2, <2>3
<1>18. QED
  BY <1>1, <1>12, <1>13, <1>14, <1>15, <1>17

LEMMA NextBInv == BInv /\ [Next]_vars => BInv'
<1> SUFFICES ASSUME BInv, [Next]_vars PROVE BInv'
  OBVIOUS
<1>1. ASSUME NEW r \in Ranks, RankStep(r) PROVE BInv'
  BY <1>1, EmptyArriveBInv, ReduceArriveBInv, BinStepBInv, A2AArriveBInv, LocalCountBInv
  DEF RankStep
<1>2. ASSUME Collective PROVE BInv'
  BY <1>2, EmptyCompleteBInv, ReduceCompleteBInv, A2ACompleteBInv DEF Collective
<1>3. CASE UNCHANGED vars
  <2>1. IInv'
    BY <1>3, NextIInv DEF BInv
  <2>2. (TieInjective /\ LoadIsCount /\ BinnedIsPrefix /\ GreedyChoice /\ MapsAgreeOnCommon)'
    BY <1>3, BinningFrame DEF BInv, vars
  <2>3. (HistLocal /\ AccSums /\ HistGlobal)'
    <3>1. Arrived' = Arrived
      BY <1>3 DEF vars, Arrived
    <3>2. QED
      BY <1>3, <3>1, PhaseFrame DEF BInv, vars
  <2>4. QED
    BY <2>1, <2>2, <2>3 DEF BInv
<1>4. QED
  BY <1>1, <1>2, <1>3 DEF Next

LEMMA BInvRankMapsAgree == BInv => RankMapsAgree
<1> SUFFICES ASSUME BInv, NEW r \in Ranks, NEW s \in Ranks, binned[r] = Mins, binned[s] = Mins
             PROVE  rankmap[r] = rankmap[s]
  BY DEF RankMapsAgree
<1>1. \A a \in Mins : rankmap[r][a] = rankmap[s][a]
  BY DEF BInv, MapsAgreeOnCommon
<1>2. QED
  BY <1>1 DEF BInv, IInv, TypeOK

(* Every two ranks that have finished the binning loop hold the same      *)
(* minimizer_rank vector, for every number of ranks and every input: the  *)
(* in-place all-reduce gives all of them the global load map, and the     *)
(* sort and the greedy least-loaded choice are deterministic functions of *)
(* it and of the shared tie order.                                        *)
THEOREM RankMapsAgreeThm == Spec => []RankMapsAgree
<1>1. Spec => []BInv
  BY InitBInv, NextBInv, PTL DEF Spec
<1>2. QED
  BY <1>1, BInvRankMapsAgree, PTL
=============================================================================

