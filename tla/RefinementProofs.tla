--------------------------- MODULE RefinementProofs ---------------------------
(***************************************************************************)
(* insert() on more than one rank implements CountingMap under the        *)
(* mapping of DistCounter: the occurrences by tag are fixed by the input,  *)
(* the abstract decision is the first rank leaving the binning loop, the  *)
(* abstract owner its minimizer_rank vector, and each local_insert is the  *)
(* abstract Count of that rank.  It rests on CInv of CountsProofs.         *)
(***************************************************************************)
EXTENDS CountsProofs

(* The minimizers binned before a step stay binned: Decided only becomes  *)
(* true, and the agreed vector, once fixed, is that of every rank done     *)
(* binning.                                                                *)
LEMMA InitRefines == Init => Abstract!Init
<1> SUFFICES ASSUME Init PROVE Abstract!Init
  OBVIOUS
<1>1. \A p \in KmerSet \X Mins : TaggedOccurrences(p[1], p[2]) \subseteq KmerPositions
  BY DEF TaggedOccurrences, MinimizerPositions
<1>2. ~Decided
  BY MinsAssumption DEF Init, Decided
<1>3. AgreedOwner = [m \in Mins |-> CHOOSE r \in Ranks : TRUE]
  BY <1>2 DEF AgreedOwner
<1>4. QED
  BY <1>1, <1>2, <1>3 DEF Init, Abstract!Init, Abstract!Undecided

(* The mapped state depends on the input, the binned sets, the vectors and *)
(* the tables alone.                                                       *)
LEMMA AbstractFrame ==
    ASSUME UNCHANGED <<input, binned, rankmap, table>>
    PROVE  UNCHANGED Abstract!vars
BY DEF Abstract!vars, TaggedOccurrences, MinimizerPositions, SuperMerAt, KmerAt,
       NKmers, Decided, AgreedOwner

(* The mapped occurrences never change: they are fixed by the input.       *)
LEMMA OccFixed ==
    ASSUME UNCHANGED input
    PROVE  [p \in KmerSet \X Mins |-> TaggedOccurrences(p[1], p[2])]'
               = [p \in KmerSet \X Mins |-> TaggedOccurrences(p[1], p[2])]
BY DEF TaggedOccurrences, MinimizerPositions, SuperMerAt, KmerAt, NKmers

(* A binning step either fixes the vector, when it is the first to end    *)
(* the loop, or leaves the mapped state alone: a later rank that ends it  *)
(* holds the same vector as the first (RankMapsAgree).                     *)
LEMMA BinStepRefines ==
    ASSUME CInv, CInv', NEW r \in Ranks, BinStep(r)
    PROVE  [Abstract!Next]_(Abstract!vars)
<1>1. TypeOK /\ TypeOK'
  BY DEF CInv, BInv, IInv
<1>2. PICK m \in Mins \ binned[r], w \in Ranks :
           /\ rankmap' = [rankmap EXCEPT ![r][m] = w]
           /\ binned' = [binned EXCEPT ![r] = @ \cup {m}]
  BY DEF BinStep
<1>3. \A s \in Ranks \ {r} : binned'[s] = binned[s] /\ rankmap'[s] = rankmap[s]
  <2>1. binned \in [Ranks -> SUBSET Mins] /\ rankmap \in [Ranks -> [Mins -> Ranks]]
    BY <1>1 DEF TypeOK
  <2>2. \A s \in Ranks \ {r} : binned'[s] = binned[s]
    BY <1>2, <2>1
  <2>3. \A s \in Ranks \ {r} : rankmap'[s] = rankmap[s]
    BY <1>2, <2>1
  <2>4. QED
    BY <2>2, <2>3
<1>4. binned[r] # Mins
  BY <1>2
<1>5. UNCHANGED <<input, table>>
  BY DEF BinStep
<1>7. CASE Decided
  <2> DEFINE c == CHOOSE s \in Ranks : binned[s] = Mins
  <2>1. c \in Ranks /\ binned[c] = Mins
    BY <1>7 DEF Decided
  <2>2. c # r /\ binned'[c] = Mins /\ rankmap'[c] = rankmap[c]
    BY <2>1, <1>3, <1>4
  <2>3. Decided' /\ AgreedOwner = rankmap[c]
    BY <1>7, <2>1, <2>2 DEF Decided, AgreedOwner
  <2> DEFINE c2 == CHOOSE s \in Ranks : binned'[s] = Mins
  <2>4. c2 \in Ranks /\ binned'[c2] = Mins
    BY <2>3 DEF Decided
  <2>5. rankmap'[c2] = rankmap'[c]
    <3>1. \A a \in Mins : rankmap'[c2][a] = rankmap'[c][a]
      BY <2>1, <2>2, <2>4 DEF CInv, BInv, MapsAgreeOnCommon
    <3>2. QED
      BY <3>1, <1>1, <2>1, <2>4 DEF TypeOK
  <2>6. AgreedOwner' = rankmap[c]
    BY <2>2, <2>3, <2>5 DEF AgreedOwner
  <2>7. (Decided' <=> Decided) /\ table' = table
    BY <1>5, <1>7, <2>3
  <2>8. UNCHANGED Abstract!vars
    BY SMTT(20), <1>5, <2>3, <2>6, <2>7, OccFixed DEF Abstract!vars
  <2>9. QED
    BY <2>8
<1>8. CASE ~Decided /\ binned'[r] # Mins
  <2>1. ~Decided'
    BY <1>3, <1>8 DEF Decided
  <2>2. AgreedOwner' = AgreedOwner
    BY <1>8, <2>1 DEF AgreedOwner
  <2>3. (Decided' <=> Decided) /\ table' = table
    BY <1>5, <1>8, <2>1
  <2>4. UNCHANGED Abstract!vars
    BY <1>5, <2>2, <2>3, OccFixed DEF Abstract!vars
  <2>5. QED
    BY <2>4
<1>9. CASE ~Decided /\ binned'[r] = Mins
  <2>1. Decided'
    BY <1>9 DEF Decided
  <2>2. AgreedOwner' \in [Mins -> Ranks]
    BY <1>1, <2>1 DEF AgreedOwner, Decided, TypeOK
  <2>3. Abstract!Decide
    BY <1>5, <1>9, <2>1, <2>2, OccFixed DEF Abstract!Decide
  <2>4. QED
    BY <2>3 DEF Abstract!Next
<1>10. QED
  BY <1>7, <1>8, <1>9

(* CountingMap counts with the Cardinality of FiniteSets, as DistCounter. *)
LEMMA AbstractCardinality ==
    ASSUME NEW S
    PROVE  Abstract!Cardinality(S) = Cardinality(S)
BY DEF Abstract!Cardinality, Cardinality

(* The k-mers the tags given to rank d cover are those d extracts.         *)
LEMMA OwnedIsExtracted ==
    ASSUME CInv, nonEmpty, \A s \in Ranks : pc[s] \in {"count", "done"},
           NEW d \in Ranks, NEW k \in KmerSet
    PROVE  UNION {TaggedOccurrences(k, m) : m \in {x \in Mins : rankmap[0][x] = d}}
               = ExtSet(d, k)
<1>1. TypeOK
  BY CInvFacts
<1>2. \A g \in OccSet(k) : SuperMerAt(g[1]).min \in Mins
  BY <1>1, SuperMerValid, SuperMersAssumption DEF OccSet
<1>3. UNION {TaggedOccurrences(k, m) : m \in {x \in Mins : rankmap[0][x] = d}}
          = {g \in OccSet(k) : rankmap[0][SuperMerAt(g[1]).min] = d}
  BY <1>2 DEF TaggedOccurrences, MinimizerPositions, KmerPositions, OccSet
<1>4. QED
  BY <1>3, ExtractedRouted

(* A rank's local_insert is the abstract Count of that rank: its table    *)
(* becomes the global count of the k-mers of the minimizers it owns.      *)
LEMMA LocalCountRefines ==
    ASSUME CInv, NEW r \in Ranks, LocalCount(r)
    PROVE  Abstract!Count(r)
<1>1. TypeOK /\ \A s \in Ranks : pc[s] \in {"count", "done"}
  BY CInvFacts, PhaseOf DEF LocalCount
<1>2. nonEmpty
  BY <1>1, PhaseOf DEF CInv, EmptyReturned, LocalCount, PCs
<1>3. \A s \in Ranks : binned[s] = Mins
  BY <1>1, <1>2, PhaseOf DEF CInv, RecvRouted, PCs
<1>4. Decided /\ AgreedOwner = rankmap[0]
  <2> DEFINE c == CHOOSE s \in Ranks : binned[s] = Mins
  <2>1. c \in Ranks
    BY <1>3, RanksNonEmpty
  <2>2. \A a \in Mins : rankmap[c][a] = rankmap[0][a]
    BY <1>3, <2>1, RanksNonEmpty DEF CInv, BInv, MapsAgreeOnCommon
  <2>3. rankmap[c] = rankmap[0]
    BY SMTT(20), <1>1, <2>1, <2>2, RanksNonEmpty DEF TypeOK
  <2>4. QED
    BY <1>3, <2>3, RanksNonEmpty DEF Decided, AgreedOwner
<1>5. KmerCounts(r) = Abstract!Owned(r)
  <2>1. ASSUME NEW k \in KmerSet
        PROVE  KmerCounts(r)[k] = Abstract!Owned(r)[k]
    <3> DEFINE Occ == [p \in KmerSet \X Mins |-> TaggedOccurrences(p[1], p[2])]
    <3>1. \A m \in Mins : Occ[<<k, m>>] = TaggedOccurrences(k, m)
      OBVIOUS
    <3>2. {x \in Mins : AgreedOwner[x] = r} = {x \in Mins : rankmap[0][x] = r}
      BY <1>4
    <3>3. Abstract!Owned(r)[k]
            = Cardinality(UNION {TaggedOccurrences(k, m) : m \in {x \in Mins : rankmap[0][x] = r}})
      BY <3>1, <3>2, AbstractCardinality DEF Abstract!Owned
    <3>4. KmerCounts(r)[k] = Cardinality(ExtSet(r, k))
      BY DEF KmerCounts, ExtSet
    <3>5. QED
      BY <1>1, <1>2, <3>3, <3>4, OwnedIsExtracted
  <2>2. QED
    BY <2>1 DEF KmerCounts, Abstract!Owned
<1>6. table' = [table EXCEPT ![r] = KmerCounts(r)]
  <2>1. KmerCounts(r) \in [KmerSet -> Nat]
    BY <1>1, ExtractedCountType DEF TypeOK, KmerCounts
  <2>2. table[r] = Zeros
    BY <1>1 DEF CInv, TableCounts, LocalCount
  <2>3. AddCounts(table[r], KmerCounts(r)) = KmerCounts(r)
    BY <2>1, <2>2 DEF AddCounts, Zeros
  <2>4. QED
    BY <2>3 DEF LocalCount
<1>7. (Decided' <=> Decided) /\ AgreedOwner' = AgreedOwner
  BY DEF LocalCount, Decided, AgreedOwner
<1>8. QED
  BY <1>4, <1>5, <1>6, <1>7, OccFixed DEF LocalCount, Abstract!Count

LEMMA NextRefines ==
    ASSUME CInv, CInv', [Next]_vars
    PROVE  [Abstract!Next]_(Abstract!vars)
<1>1. ASSUME NEW r \in Ranks, BinStep(r) PROVE [Abstract!Next]_(Abstract!vars)
  BY <1>1, BinStepRefines
<1>2. ASSUME NEW r \in Ranks, LocalCount(r) PROVE [Abstract!Next]_(Abstract!vars)
  BY <1>2, LocalCountRefines DEF Abstract!Next
<1>3. ASSUME NEW r \in Ranks, EmptyArrive(r) \/ ReduceArrive(r) \/ A2AArrive(r)
      PROVE  [Abstract!Next]_(Abstract!vars)
  BY <1>3, AbstractFrame DEF EmptyArrive, ReduceArrive, A2AArrive
<1>4. ASSUME Collective PROVE [Abstract!Next]_(Abstract!vars)
  BY <1>4, AbstractFrame DEF Collective, EmptyComplete, ReduceComplete, A2AComplete
<1>5. ASSUME UNCHANGED vars PROVE [Abstract!Next]_(Abstract!vars)
  BY <1>5, AbstractFrame DEF vars
<1>6. QED
  BY <1>1, <1>2, <1>3, <1>4, <1>5 DEF Next, RankStep

(* With more than one rank, every behaviour of insert() is a behaviour of *)
(* the counting map: the minimizer-to-rank function is fixed once, when   *)
(* the first rank leaves the binning loop, and every local_insert fills   *)
(* its table with the global count of the k-mers of the minimizers that   *)
(* function gives to the rank.  No hypothesis on the tags is needed.       *)
THEOREM ImplementsCountingMapThm ==
    ASSUME P > 1
    PROVE  Spec => ImplementsCountingMap
<1>1. Spec => []CInv
  BY SpecCInv
<1>2. CInv /\ CInv' /\ [Next]_vars => [Abstract!Next]_(Abstract!vars)
  BY NextRefines
<1>3. QED
  BY <1>1, <1>2, InitRefines, PTL DEF Spec, ImplementsCountingMap, Abstract!Spec
=============================================================================
