----------------------------- MODULE CountsProofs -----------------------------
(***************************************************************************)
(* The count table of insert() for every number of ranks above one,       *)
(* minimizer space, k-mer length and input bound: once every rank has      *)
(* returned, each k-mer of the global input is held by one rank with its   *)
(* number of occurrences (CountsExact).  It rests on the binning           *)
(* invariant BInv of DistCounter_proofs, through RankMapsAgree: every      *)
(* sender routes a super-mer with the same minimizer_rank vector.          *)
(***************************************************************************)
EXTENDS DistCounter_proofs

(* The table of a rank before local_insert, and after a call that          *)
(* returned at the emptiness test.                                         *)
Zeros == [k \in KmerSet |-> 0]

(* The super-mers of the global input that the vector of their sender     *)
(* gives to rank d: what TupleToRank2 makes the all-to-all deliver to d.  *)
Routed(d) ==
    {q \in Ranks \X Idx : q[2] <= Len(input[q[1]]) /\ Owner(q[1], SuperMerAt(q)) = d}

(* During the emptiness test nonEmpty is the or of the arrived ranks'     *)
(* tests; after it, the or of every rank's.                                *)
EmptyTest ==
    /\ (\A r \in Ranks : Phase(pc[r]) = 0) =>
           (nonEmpty <=> \E s \in Ranks : pc[s] = "empty_wait" /\ input[s] # <<>>)
    /\ (\A r \in Ranks : Phase(pc[r]) > 0) =>
           (nonEmpty <=> \E s \in Ranks : input[s] # <<>>)

(* A call whose inputs are all empty returns at the emptiness test.        *)
EmptyReturned ==
    \A r \in Ranks : (Phase(pc[r]) > 0 /\ ~nonEmpty) => pc[r] = "done"

(* A rank enters the exchange only once its binning loop is over.         *)
BinnedBeforeA2A ==
    \A r \in Ranks : pc[r] \in {"a2a", "a2a_wait"} => binned[r] = Mins

(* Past the exchange, a rank of a non-empty call holds what was routed    *)
(* to it.                                                                  *)
RecvRouted ==
    \A r \in Ranks : (Phase(pc[r]) = 3 /\ nonEmpty) => binned[r] = Mins /\ recv[r] = Routed(r)

(* A rank's table is empty until its local_insert, and then the counts of *)
(* the k-mers it extracted.                                                *)
TableCounts ==
    \A r \in Ranks : table[r] = IF pc[r] = "done" /\ nonEmpty THEN KmerCounts(r) ELSE Zeros

CInv == BInv /\ EmptyTest /\ EmptyReturned /\ BinnedBeforeA2A /\ RecvRouted /\ TableCounts
-----------------------------------------------------------------------------
(* The phase of each pc, stated without CASE for the SMT backend.         *)
LEMMA PhaseOf ==
    ASSUME NEW p \in PCs
    PROVE  /\ Phase(p) = 0 <=> p \in {"empty", "empty_wait"}
           /\ Phase(p) = 1 <=> p \in {"reduce", "reduce_wait"}
           /\ Phase(p) = 2 <=> p \in {"bin", "a2a", "a2a_wait"}
           /\ Phase(p) = 3 <=> p \in {"count", "done"}
           /\ Phase(p) \in 0 .. 3
<1>1. p \in {"empty", "empty_wait"} => Phase(p) = 0
  BY Zenon DEF Phase
<1>2. p \in {"reduce", "reduce_wait"} => Phase(p) = 1
  BY Zenon DEF Phase
<1>3. p \in {"bin", "a2a", "a2a_wait"} => Phase(p) = 2
  BY Zenon DEF Phase
<1>4. p \in {"count", "done"} => Phase(p) = 3
  BY Zenon DEF Phase
<1>5. QED
  BY <1>1, <1>2, <1>3, <1>4 DEF PCs

LEMMA RanksNonEmpty == 0 \in Ranks
BY PAssumption DEF Ranks

LEMMA InitCInv == Init => CInv
<1> SUFFICES ASSUME Init PROVE CInv
  OBVIOUS
<1>1. BInv
  BY InitBInv
<1>2. \A r \in Ranks : pc[r] = "empty" /\ Phase(pc[r]) = 0
  BY PhaseOf DEF Init, PCs
<1>3. EmptyTest
  BY <1>2, RanksNonEmpty DEF EmptyTest, Init
<1>4. EmptyReturned /\ BinnedBeforeA2A /\ RecvRouted
  BY <1>2 DEF EmptyReturned, BinnedBeforeA2A, RecvRouted
<1>5. TableCounts
  BY <1>2 DEF TableCounts, Init, Zeros
<1>6. QED
  BY <1>1, <1>3, <1>4, <1>5 DEF CInv

(* The conjuncts CInv adds to BInv.                                        *)
Counting == EmptyTest /\ EmptyReturned /\ BinnedBeforeA2A /\ RecvRouted /\ TableCounts

(* The facts every step lemma starts from.                                 *)
LEMMA CInvFacts ==
    ASSUME CInv
    PROVE  /\ TypeOK
           /\ \A r, s \in Ranks : Phase(pc[r]) = Phase(pc[s])
           /\ \A r \in Ranks : pc[r] \in PCs
BY DEF CInv, BInv, IInv, PhaseAligned, TypeOK

(* A rank's arrival at the emptiness test adds its own test to the or.   *)
LEMMA EmptyArriveCounting ==
    ASSUME CInv, NEW r \in Ranks, EmptyArrive(r)
    PROVE  Counting'
<1>1. TypeOK /\ \A s \in Ranks : pc[s] \in PCs
  BY CInvFacts
<1>2. \A s \in Ranks : Phase(pc[s]) = 0
  BY CInvFacts, PhaseOf DEF EmptyArrive
<1>3. \A s \in Ranks : pc[s] \in {"empty", "empty_wait"} /\ pc'[s] \in {"empty", "empty_wait"}
  BY <1>1, <1>2, PhaseOf DEF EmptyArrive, TypeOK
<1>4. \A s \in Ranks : Phase(pc'[s]) = 0
  BY <1>3, PhaseOf DEF PCs
<1>5. EmptyTest'
  <2>1. nonEmpty <=> \E s \in Ranks : pc[s] = "empty_wait" /\ input[s] # <<>>
    BY <1>2 DEF CInv, EmptyTest
  <2>2. nonEmpty' <=> \E s \in Ranks : pc'[s] = "empty_wait" /\ input'[s] # <<>>
    BY <2>1, <1>1 DEF EmptyArrive, TypeOK
  <2>3. QED
    BY <2>2, <1>4, RanksNonEmpty DEF EmptyTest
<1>6. (EmptyReturned /\ BinnedBeforeA2A /\ RecvRouted)'
  BY <1>3, <1>4 DEF EmptyReturned, BinnedBeforeA2A, RecvRouted
<1>7. TableCounts'
  BY <1>3 DEF CInv, TableCounts, EmptyArrive
<1>8. QED
  BY <1>5, <1>6, <1>7 DEF Counting

(* ::dsc::empty returns the or of every rank's test to every rank.        *)
LEMMA EmptyCompleteCounting ==
    ASSUME CInv, EmptyComplete
    PROVE  Counting'
<1>1. TypeOK /\ \A s \in Ranks : pc[s] = "empty_wait" /\ Phase(pc[s]) = 0
  BY CInvFacts, PhaseOf DEF EmptyComplete
<1>2. nonEmpty <=> \E s \in Ranks : input[s] # <<>>
  BY <1>1 DEF CInv, EmptyTest
<1>3. \A s \in Ranks : pc'[s] = IF nonEmpty THEN "reduce" ELSE "done"
  BY DEF EmptyComplete
<1>4. \A s \in Ranks : Phase(pc'[s]) > 0 /\ Phase(pc'[s]) # 3 <=> nonEmpty
  BY <1>3, PhaseOf DEF PCs
<1>5. EmptyTest'
  BY <1>2, <1>4, RanksNonEmpty DEF EmptyTest, EmptyComplete
<1>6. (EmptyReturned /\ BinnedBeforeA2A /\ RecvRouted)'
  BY <1>3, <1>4 DEF EmptyReturned, BinnedBeforeA2A, RecvRouted, EmptyComplete
<1>7. TableCounts'
  BY <1>1, <1>3 DEF CInv, TableCounts, EmptyComplete
<1>8. QED
  BY <1>5, <1>6, <1>7 DEF Counting

(* Between the emptiness test and the exchange the counting conjuncts     *)
(* hold of a non-empty call whose ranks have not counted.                  *)
LEMMA MiddleFrame ==
    ASSUME CInv, UNCHANGED <<input, nonEmpty, recv, table>>,
           \A s \in Ranks : /\ pc'[s] \in PCs
                            /\ Phase(pc[s]) \in {1, 2} /\ Phase(pc'[s]) \in {1, 2}
                            /\ pc'[s] \in {"a2a", "a2a_wait"} => binned'[s] = Mins
    PROVE  Counting'
<1>1. \A s \in Ranks : pc[s] \in PCs /\ pc[s] # "done" /\ pc'[s] # "done"
  BY CInvFacts, PhaseOf
<1>2. nonEmpty
  BY <1>1, RanksNonEmpty DEF CInv, EmptyReturned
<1>3. EmptyTest'
  <2>1. nonEmpty <=> \E s \in Ranks : input[s] # <<>>
    BY RanksNonEmpty DEF CInv, EmptyTest
  <2>2. QED
    BY <2>1, RanksNonEmpty DEF EmptyTest
<1>4. (EmptyReturned /\ BinnedBeforeA2A /\ RecvRouted)'
  BY <1>2 DEF EmptyReturned, BinnedBeforeA2A, RecvRouted
<1>5. TableCounts'
  BY <1>1 DEF CInv, TableCounts
<1>6. QED
  BY <1>3, <1>4, <1>5 DEF Counting

LEMMA ReduceArriveCounting ==
    ASSUME CInv, NEW r \in Ranks, ReduceArrive(r)
    PROVE  Counting'
<1>1. \A s \in Ranks : Phase(pc[s]) = 1 /\ pc[s] \in PCs
  BY CInvFacts, PhaseOf DEF ReduceArrive
<1>2. \A s \in Ranks : pc'[s] \in {"reduce", "reduce_wait"}
  BY <1>1, PhaseOf DEF ReduceArrive
<1>3. QED
  BY <1>1, <1>2, PhaseOf, MiddleFrame DEF ReduceArrive, PCs

LEMMA ReduceCompleteCounting ==
    ASSUME CInv, ReduceComplete
    PROVE  Counting'
<1>1. \A s \in Ranks : Phase(pc[s]) = 1 /\ pc'[s] = "bin"
  BY PhaseOf DEF ReduceComplete, PCs
<1>2. QED
  BY <1>1, PhaseOf, MiddleFrame DEF ReduceComplete, PCs

LEMMA A2AArriveCounting ==
    ASSUME CInv, NEW r \in Ranks, A2AArrive(r)
    PROVE  Counting'
<1>1. \A s \in Ranks : Phase(pc[s]) = 2 /\ pc[s] \in PCs
  BY CInvFacts, PhaseOf DEF A2AArrive
<1>2. \A s \in Ranks : pc'[s] \in {"a2a", "a2a_wait"} => pc[s] \in {"a2a", "a2a_wait"}
  BY DEF A2AArrive
<1>3. \A s \in Ranks : pc'[s] \in {"bin", "a2a", "a2a_wait"}
  BY <1>1, PhaseOf DEF A2AArrive
<1>4. QED
  BY <1>1, <1>2, <1>3, PhaseOf, MiddleFrame DEF CInv, BinnedBeforeA2A, A2AArrive, PCs

(* With more than one rank the binning loop hands over to the exchange,   *)
(* and only once every minimizer is binned.                                *)
LEMMA BinStepCounting ==
    ASSUME P > 1, CInv, NEW r \in Ranks, BinStep(r)
    PROVE  Counting'
<1>1. \A s \in Ranks : Phase(pc[s]) = 2 /\ pc[s] \in PCs
  BY CInvFacts, PhaseOf DEF BinStep
<1>2. pc' = [pc EXCEPT ![r] = IF binned'[r] # Mins THEN "bin" ELSE "a2a"]
  BY DEF BinStep
<1>3. \A s \in Ranks : pc'[s] \in {"bin", "a2a", "a2a_wait"}
  BY <1>1, <1>2, PhaseOf
<1>4. \A s \in Ranks \ {r} : binned'[s] = binned[s]
  BY DEF BinStep
<1>5. ASSUME NEW s \in Ranks, pc'[s] \in {"a2a", "a2a_wait"}
      PROVE  binned'[s] = Mins
  <2>1. pc \in [Ranks -> PCs]
    BY CInvFacts DEF TypeOK
  <2>2. CASE s = r
    BY <1>2, <1>5, <2>1, <2>2
  <2>3. CASE s # r
    BY <1>2, <1>4, <1>5, <2>1, <2>3 DEF CInv, BinnedBeforeA2A
  <2>4. QED
    BY <2>2, <2>3
<1>6. QED
  BY <1>1, <1>3, <1>5, PhaseOf, MiddleFrame DEF BinStep, PCs

(* What a rank extracts and what is routed to it depend on the input,     *)
(* recv and the vectors alone.                                             *)
LEMMA KmerCountsFrame ==
    ASSUME UNCHANGED <<input, recv>>, NEW s
    PROVE  KmerCounts(s)' = KmerCounts(s)
BY DEF KmerCounts, Extracted, SuperMerAt, KmerAt, NKmers

LEMMA RoutedFrame ==
    ASSUME UNCHANGED <<input, rankmap>>, NEW s
    PROVE  Routed(s)' = Routed(s)
BY DEF Routed, Owner, SuperMerAt

(* The two all-to-alls deliver to each rank what the senders route to it. *)
LEMMA A2ACompleteCounting ==
    ASSUME CInv, A2AComplete
    PROVE  Counting'
<1>1. \A s \in Ranks : pc[s] = "a2a_wait" /\ Phase(pc[s]) = 2 /\ pc'[s] = "count" /\ Phase(pc'[s]) = 3
  BY PhaseOf DEF A2AComplete, PCs
<1>2. nonEmpty /\ nonEmpty' = nonEmpty
  BY <1>1, RanksNonEmpty DEF CInv, EmptyReturned, A2AComplete
<1>3. \A s \in Ranks : binned'[s] = Mins
  BY <1>1 DEF CInv, BinnedBeforeA2A, A2AComplete
<1>4. \A s \in Ranks : recv'[s] = Routed(s)'
  BY DEF A2AComplete, Routed, Owner, SuperMerAt
<1>5. EmptyTest'
  <2>1. nonEmpty <=> \E s \in Ranks : input[s] # <<>>
    BY <1>1, RanksNonEmpty DEF CInv, EmptyTest
  <2>2. QED
    BY <1>1, <1>2, <2>1, RanksNonEmpty DEF EmptyTest, A2AComplete
<1>6. (EmptyReturned /\ BinnedBeforeA2A /\ RecvRouted)'
  BY <1>1, <1>2, <1>3, <1>4 DEF EmptyReturned, BinnedBeforeA2A, RecvRouted
<1>7. TableCounts'
  BY <1>1 DEF CInv, TableCounts, A2AComplete
<1>8. QED
  BY <1>5, <1>6, <1>7 DEF Counting

(* local_insert adds the extracted k-mers to the empty table.             *)
LEMMA LocalCountCounting ==
    ASSUME CInv, NEW r \in Ranks, LocalCount(r)
    PROVE  Counting'
<1>1. TypeOK /\ \A s \in Ranks : Phase(pc[s]) = 3 /\ pc[s] \in {"count", "done"}
  BY CInvFacts, PhaseOf DEF LocalCount
<1>2. \A s \in Ranks : pc'[s] \in {"count", "done"} /\ Phase(pc'[s]) = 3
  BY <1>1, PhaseOf DEF LocalCount, TypeOK, PCs
<1>3. nonEmpty /\ nonEmpty' = nonEmpty
  BY <1>1 DEF CInv, EmptyReturned, LocalCount
<1>4. \A s \in Ranks : KmerCounts(s)' = KmerCounts(s) /\ Routed(s)' = Routed(s)
  BY KmerCountsFrame, RoutedFrame DEF LocalCount
<1>5. EmptyTest'
  <2>1. nonEmpty <=> \E s \in Ranks : input[s] # <<>>
    BY <1>1, RanksNonEmpty DEF CInv, EmptyTest
  <2>2. QED
    BY <1>2, <1>3, <2>1, RanksNonEmpty DEF EmptyTest, LocalCount
<1>6. (EmptyReturned /\ BinnedBeforeA2A /\ RecvRouted)'
  BY <1>1, <1>2, <1>3, <1>4 DEF CInv, EmptyReturned, BinnedBeforeA2A, RecvRouted, LocalCount
<1>7. TableCounts'
  <2>1. KmerCounts(r) \in [KmerSet -> Nat]
    BY <1>1, ExtractedCountType DEF TypeOK, KmerCounts
  <2>2. table[r] = Zeros
    BY <1>1 DEF CInv, TableCounts, LocalCount
  <2>3. table'[r] = KmerCounts(r)
    BY <2>1, <2>2, <1>1 DEF LocalCount, AddCounts, Zeros, TypeOK
  <2>4. \A s \in Ranks \ {r} : table'[s] = table[s] /\ pc'[s] = pc[s]
    BY <1>1 DEF LocalCount, TypeOK
  <2>5. pc'[r] = "done"
    BY <1>1 DEF LocalCount, TypeOK
  <2>6. QED
    BY <1>3, <1>4, <2>3, <2>4, <2>5 DEF CInv, TableCounts
<1>8. QED
  BY <1>5, <1>6, <1>7 DEF Counting

LEMMA StutterCounting ==
    ASSUME CInv, UNCHANGED vars
    PROVE  Counting'
<1>1. \A s : KmerCounts(s)' = KmerCounts(s) /\ Routed(s)' = Routed(s)
  BY KmerCountsFrame, RoutedFrame DEF vars
<1>2. QED
  BY <1>1 DEF CInv, vars, Counting, EmptyTest, EmptyReturned, BinnedBeforeA2A,
            RecvRouted, TableCounts

LEMMA NextCInv ==
    ASSUME P > 1
    PROVE  CInv /\ [Next]_vars => CInv'
<1> SUFFICES ASSUME CInv, [Next]_vars PROVE CInv'
  OBVIOUS
<1>1. BInv'
  BY NextBInv DEF CInv
<1>2. Counting'
  <2>1. CASE \E r \in Ranks : RankStep(r)
    BY <2>1, EmptyArriveCounting, ReduceArriveCounting, BinStepCounting,
       A2AArriveCounting, LocalCountCounting DEF RankStep
  <2>2. CASE Collective
    BY <2>2, EmptyCompleteCounting, ReduceCompleteCounting, A2ACompleteCounting
       DEF Collective
  <2>3. CASE UNCHANGED vars
    BY <2>3, StutterCounting
  <2>4. QED
    BY <2>1, <2>2, <2>3 DEF Next
<1>3. QED
  BY <1>1, <1>2 DEF CInv, Counting
-----------------------------------------------------------------------------
(* The k-mer occurrences Occurrences counts, and those rank d extracts.    *)
OccSet(k) ==
    {q \in (Ranks \X Idx) \X Offsets :
        /\ q[1][2] <= Len(input[q[1][1]])
        /\ q[2] <= NKmers(SuperMerAt(q[1]))
        /\ KmerAt(SuperMerAt(q[1]), q[2]) = k}
ExtSet(d, k) == {q \in Extracted(d) : KmerAt(SuperMerAt(q[1]), q[2]) = k}

(* A position of the input holds one of the candidate super-mers.          *)
LEMMA SuperMerValid ==
    ASSUME TypeOK, NEW q \in Ranks \X Idx, q[2] <= Len(input[q[1]])
    PROVE  SuperMerAt(q) \in SuperMers
<1>0. input[q[1]] \in Inputs
  BY DEF TypeOK
<1>1. PICK n \in 0 .. MaxSuperMers : input[q[1]] \in [1 .. n -> SuperMers]
  BY <1>0 DEF Inputs
<1>2. Len(input[q[1]]) = n
  BY <1>1, BoundsAssumption
<1>3. QED
  BY <1>1, <1>2 DEF SuperMerAt, Idx

LEMMA OccSetFinite ==
    ASSUME NEW k
    PROVE  IsFiniteSet(OccSet(k))
<1>1. OccSet(k) \subseteq KmerPositions
  BY DEF OccSet, KmerPositions
<1>2. QED
  BY <1>1, KmerPositionsFinite, FS_Subset

(* Two occurrences of one k-mer lie in super-mers of one tag.              *)
LEMMA OccTagsAgree ==
    ASSUME KmerTagsAgree, TypeOK, NEW k, NEW g \in OccSet(k), NEW h \in OccSet(k)
    PROVE  SuperMerAt(g[1]).min = SuperMerAt(h[1]).min
<1>1. SuperMerAt(g[1]) \in SuperMers /\ SuperMerAt(h[1]) \in SuperMers
  BY SuperMerValid DEF OccSet
<1>2. g[2] \in 1 .. NKmers(SuperMerAt(g[1])) /\ h[2] \in 1 .. NKmers(SuperMerAt(h[1]))
  BY DEF OccSet, Offsets
<1>3. KmerAt(SuperMerAt(g[1]), g[2]) = KmerAt(SuperMerAt(h[1]), h[2])
  BY DEF OccSet
<1>4. QED
  BY <1>1, <1>2, <1>3 DEF KmerTagsAgree

(* After the exchange each rank extracts the occurrences whose tag the    *)
(* agreed vector gives to it.                                              *)
LEMMA ExtractedRouted ==
    ASSUME CInv, nonEmpty, \A r \in Ranks : pc[r] \in {"count", "done"},
           NEW d \in Ranks, NEW k
    PROVE  ExtSet(d, k) = {g \in OccSet(k) : rankmap[0][SuperMerAt(g[1]).min] = d}
<1>1. TypeOK
  BY CInvFacts
<1>2. \A r \in Ranks : binned[r] = Mins /\ recv[r] = Routed(r)
  BY PhaseOf DEF CInv, RecvRouted, PCs
<1>3. \A r \in Ranks : rankmap[r] = rankmap[0]
  BY <1>2, RanksNonEmpty, BInvRankMapsAgree DEF CInv, RankMapsAgree
<1>4. \A q \in Ranks \X Idx : q[2] <= Len(input[q[1]]) => Len(SuperMerAt(q).bases) >= K
  BY <1>1, SuperMerValid, SuperMersAssumption
<1>5. QED
  BY <1>2, <1>3, <1>4 DEF ExtSet, Extracted, OccSet, Routed, Owner

(* A finite set is counted as 0 exactly when it is empty.                  *)
LEMMA CardZero ==
    ASSUME NEW S, IsFiniteSet(S)
    PROVE  /\ Cardinality(S) \in Nat
           /\ Cardinality(S) = 0 <=> S = {}
BY FS_EmptySet, FS_CardinalityType

(* A call that returned at the emptiness test had no k-mers to count.      *)
LEMMA CountsWhenEmpty ==
    ASSUME CInv, ~nonEmpty, \A r \in Ranks : pc[r] = "done"
    PROVE  CountsExact
<1>1. \A r \in Ranks : input[r] = <<>>
  BY PhaseOf, RanksNonEmpty DEF CInv, EmptyTest, PCs
<1>2. \A k : OccSet(k) = {}
  BY <1>1 DEF OccSet, Idx
<1>3. \A k : Occurrences(k) = 0
  BY <1>2, FS_EmptySet DEF Occurrences, OccSet
<1>4. \A r \in Ranks : table[r] = Zeros
  BY DEF CInv, TableCounts
<1>5. QED
  BY <1>3, <1>4 DEF CountsExact, Holders, Zeros

(* In a non-empty call every occurrence of a k-mer is extracted by the    *)
(* one rank its tag is routed to.                                          *)
LEMMA CountsWhenNonEmpty ==
    ASSUME KmerTagsAgree, CInv, nonEmpty, \A r \in Ranks : pc[r] = "done"
    PROVE  CountsExact
<1>0. \A r \in Ranks : pc[r] \in {"count", "done"}
  OBVIOUS
<1>1. TypeOK
  BY CInvFacts
<1>2. \A r \in Ranks, k \in KmerSet : table[r][k] = Cardinality(ExtSet(r, k))
  BY DEF CInv, TableCounts, KmerCounts, ExtSet
<1> SUFFICES ASSUME NEW k \in KmerSet
             PROVE  IF Occurrences(k) = 0 THEN Holders(k) = {}
                    ELSE \E r \in Ranks : Holders(k) = {r} /\ table[r][k] = Occurrences(k)
  BY DEF CountsExact
<1>3. Occurrences(k) = Cardinality(OccSet(k))
  BY DEF Occurrences, OccSet
<1>4. CASE OccSet(k) = {}
  <2>1. \A r \in Ranks : ExtSet(r, k) = {}
    BY <1>0, <1>4, ExtractedRouted
  <2>2. Occurrences(k) = 0
    BY <1>3, <1>4, FS_EmptySet
  <2>3. \A r \in Ranks : table[r][k] = 0
    BY <1>2, <2>1, FS_EmptySet
  <2>4. Holders(k) = {}
    BY <2>3 DEF Holders
  <2>5. QED
    BY <2>2, <2>4
<1>5. CASE OccSet(k) # {}
  <2>1. PICK g0 \in OccSet(k) : TRUE
    BY <1>5
  <2> DEFINE d0 == rankmap[0][SuperMerAt(g0[1]).min]
  <2>2. SuperMerAt(g0[1]).min \in Mins
    BY <1>1, SuperMerValid, SuperMersAssumption DEF OccSet
  <2>3. d0 \in Ranks
    BY <1>1, <2>2, RanksNonEmpty DEF TypeOK
  <2>4. \A g \in OccSet(k) : rankmap[0][SuperMerAt(g[1]).min] = d0
    BY <1>1, OccTagsAgree
  <2>5. ExtSet(d0, k) = OccSet(k)
    BY <1>0, <2>3, <2>4, ExtractedRouted
  <2>6. \A r \in Ranks \ {d0} : ExtSet(r, k) = {}
    BY <1>0, <2>4, ExtractedRouted
  <2>7. Cardinality(OccSet(k)) \in Nat /\ Cardinality(OccSet(k)) # 0
    BY <1>5, OccSetFinite, CardZero
  <2>8. \A r \in Ranks \ {d0} : table[r][k] = 0
    BY <1>2, <2>6, FS_EmptySet
  <2>9. table[d0][k] = Occurrences(k)
    BY <1>2, <1>3, <2>3, <2>5
  <2>10. Holders(k) = {d0}
    BY <2>3, <2>7, <2>8, <2>9, <1>3 DEF Holders
  <2>11. QED
    BY <1>3, <2>3, <2>7, <2>9, <2>10
<1>6. QED
  BY <1>4, <1>5

LEMMA CInvCounts ==
    ASSUME KmerTagsAgree
    PROVE  CInv => CountsExact
BY CountsWhenEmpty, CountsWhenNonEmpty DEF CountsExact

(* With more than one rank, and super-mers tagged as the extractor tags   *)
(* them, every call of insert() that has returned on every rank leaves    *)
(* each k-mer of the global input in the table of exactly one rank, with  *)
(* its number of occurrences (spec 8.5).  With one rank the call skips    *)
(* distribute_supermers and counts nothing, which dist_single_rank shows.  *)
LEMMA SpecCInv ==
    ASSUME P > 1
    PROVE  Spec => []CInv
BY InitCInv, NextCInv, PTL DEF Spec

THEOREM CountsExactThm ==
    ASSUME P > 1, KmerTagsAgree
    PROVE  Spec => []CountsExact
<1>1. Spec => []CInv
  BY SpecCInv
<1>2. QED
  BY <1>1, CInvCounts, PTL
=============================================================================
