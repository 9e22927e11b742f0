----------------------------- MODULE DistCounter -----------------------------
(***************************************************************************)
(* One call of minimizer_based_counting_unordered_map::insert               *)
(* (src/unnamed/part_000, lines 2214-2427) executed by P ranks.             *)
(*                                                                         *)
(* Each rank holds its shard of super-mers (minimizer, bases) and its      *)
(* local minimizer k-mer load histogram.  The call performs, in order:      *)
(*   1. the collective emptiness test ::dsc::empty (all-reduce);           *)
(*   2. all_reduce_minimizer_kmer_load_map (sum all-reduce, in place);     *)
(*   3. greedy binning: minimizers in decreasing load order, each to the   *)
(*      lowest-id least-loaded rank (rank_load, minimizer_rank);           *)
(*   4. if comm.size() > 1, distribute_supermers (sizes all-to-all and the *)
(*      variable all-to-all of the payloads), routed by TupleToRank2;      *)
(*   5. local_reserve, extraction of every k-mer window of every received  *)
(*      super-mer, and the additive local_insert into the count table.     *)
(* A collective is modelled by each rank's arrival (pc = "..._wait") and   *)
(* one completion step, enabled once every rank has arrived.               *)
(***************************************************************************)
EXTENDS Naturals, Sequences, FiniteSets

CONSTANTS
    P,              \* comm.size()
    Mins,           \* minimizer values: the indices of the load map
    Bases,          \* base codes
    K,              \* kmer_size
    SuperMers,      \* the super-mers an extractor may hand to insert
    MaxSuperMers,   \* bound on the length of one rank's input vector
    MaxBases        \* bound on the base count of one super-mer

ASSUME PAssumption == P \in Nat \ {0}
ASSUME MinsAssumption == Mins \subseteq Nat /\ IsFiniteSet(Mins) /\ Mins # {}
ASSUME KAssumption == K \in Nat \ {0}
ASSUME BoundsAssumption == MaxSuperMers \in Nat /\ MaxBases \in Nat
ASSUME SuperMersAssumption ==
    \A sm \in SuperMers :
        /\ sm.min \in Mins
        /\ sm.bases \in Seq(Bases)
        /\ K <= Len(sm.bases) /\ Len(sm.bases) <= MaxBases

Ranks == 0 .. P - 1
Idx == 1 .. MaxSuperMers
Offsets == 1 .. MaxBases
KmerSet == [1 .. K -> Bases]
Inputs == UNION {[1 .. n -> SuperMers] : n \in 0 .. MaxSuperMers}

VARIABLES
    input,      \* input[r]: rank r's vector of (minimizer, super-mer) tuples
    pc,         \* pc[r]: where rank r is inside insert()
    nonEmpty,   \* the logical-or all-reduce of ::dsc::empty, as it accumulates
    acc,        \* the sum all-reduce of the load map, as ranks contribute
    hist,       \* hist[r]: rank r's minimizer_kmer_load_map
    tie,        \* the position std::sort leaves each minimizer in among equal loads
    load,       \* load[r]: rank r's rank_load vector
    binned,     \* binned[r]: minimizers the binning loop of rank r has assigned
    rankmap,    \* rankmap[r]: rank r's minimizer_rank vector
    recv,       \* recv[r]: the (source rank, index) of every super-mer received
    table       \* table[r]: rank r's count table; 0 stands for an absent key

vars == <<input, pc, nonEmpty, acc, hist, tie, load, binned, rankmap, recv, table>>

PCs == {"empty", "empty_wait", "reduce", "reduce_wait", "bin",
        "a2a", "a2a_wait", "count", "done"}

(* Number of k-mers a super-mer expands to, and its o-th k-mer.            *)
NKmers(sm) == Len(sm.bases) - K + 1
KmerAt(sm, o) == [i \in 1 .. K |-> sm.bases[o + i - 1]]

(* The super-mer at position q = <<source rank, index>> of the input.      *)
SuperMerAt(q) == input[q[1]][q[2]]

(* The places <<<<rank, index>>, offset>> of the k-mers of the global      *)
(* input whose super-mer is tagged m.                                      *)
KmerPositions == (Ranks \X Idx) \X Offsets
MinimizerPositions(m) ==
    {g \in KmerPositions : /\ g[1][2] <= Len(input[g[1][1]])
                           /\ SuperMerAt(g[1]).min = m
                           /\ g[2] <= NKmers(SuperMerAt(g[1]))}

(* Rank r's local load map as the extractor fills it, H[m] += L: the      *)
(* number of k-mers of its super-mers tagged m.                           *)
LocalLoad(r) ==
    [m \in Mins |-> Cardinality({g \in MinimizerPositions(m) : g[1][1] = r})]

(* Faulty variant: the comparator sorts by increasing load.               *)
SortedBeforeAscending(h, a, b) == h[a] < h[b] \/ (h[a] = h[b] /\ tie[a] < tie[b])

(* The std::sort comparator load[a] > load[b], with the build's order      *)
(* among equal loads.                                                      *)
SortedBefore(h, a, b) == h[a] > h[b] \/ (h[a] = h[b] /\ tie[a] < tie[b])

(* The inner loop of the binning: the first rank whose load is minimal     *)
(* (strict < from rank 0).                                                 *)
IsLeastLoaded(ld, w) == \A j \in Ranks : ld[w] < ld[j] \/ (ld[w] = ld[j] /\ w <= j)

Owner(r, sm) == rankmap[r][sm.min]

TypeOK ==
    /\ input \in [Ranks -> Inputs]
    /\ pc \in [Ranks -> PCs]
    /\ nonEmpty \in BOOLEAN
    /\ acc \in [Mins -> Nat]
    /\ hist \in [Ranks -> [Mins -> Nat]]
    /\ tie \in [Mins -> 1 .. Cardinality(Mins)]
    /\ load \in [Ranks -> [Ranks -> Nat]]
    /\ binned \in [Ranks -> SUBSET Mins]
    /\ rankmap \in [Ranks -> [Mins -> Ranks]]
    /\ recv \in [Ranks -> SUBSET (Ranks \X Idx)]
    /\ table \in [Ranks -> [KmerSet -> Nat]]

Init ==
    /\ input \in [Ranks -> Inputs]
    /\ pc = [r \in Ranks |-> "empty"]
    /\ nonEmpty = FALSE
    /\ acc = [m \in Mins |-> 0]
    /\ hist = [r \in Ranks |-> LocalLoad(r)]
    /\ tie \in {f \in [Mins -> 1 .. Cardinality(Mins)] :
                   \A a, b \in Mins : f[a] = f[b] => a = b}
    /\ load = [r \in Ranks |-> [j \in Ranks |-> 0]]
    /\ binned = [r \in Ranks |-> {}]
    /\ rankmap = [r \in Ranks |-> [m \in Mins |-> 0]]
    /\ recv = [r \in Ranks |-> {}]
    /\ table = [r \in Ranks |-> [k \in KmerSet |-> 0]]

(* Rank r enters ::dsc::empty with the emptiness of its input.             *)
EmptyArrive(r) ==
    /\ pc[r] = "empty"
    /\ pc' = [pc EXCEPT ![r] = "empty_wait"]
    /\ nonEmpty' = (nonEmpty \/ input[r] # <<>>)
    /\ UNCHANGED <<input, acc, hist, tie, load, binned, rankmap, recv, table>>

(* Faulty variant: each rank decides from its own input alone, as a local *)
(* input.size() == 0 test in place of the collective ::dsc::empty would.  *)
EmptyCompleteLocal ==
    /\ \A r \in Ranks : pc[r] = "empty_wait"
    /\ pc' = [r \in Ranks |-> IF input[r] # <<>> THEN "reduce" ELSE "done"]
    /\ UNCHANGED <<input, nonEmpty, acc, hist, tie, load, binned, rankmap, recv, table>>

(* ::dsc::empty returns on every rank; if all inputs are empty, insert     *)
(* returns 0 before any other collective.                                  *)
EmptyComplete ==
    /\ \A r \in Ranks : pc[r] = "empty_wait"
    /\ pc' = [r \in Ranks |-> IF nonEmpty THEN "reduce" ELSE "done"]
    /\ UNCHANGED <<input, nonEmpty, acc, hist, tie, load, binned, rankmap, recv, table>>

(* Rank r contributes its load map to the sum all-reduce.                  *)
ReduceArrive(r) ==
    /\ pc[r] = "reduce"
    /\ acc' = [m \in Mins |-> acc[m] + hist[r][m]]
    /\ pc' = [pc EXCEPT ![r] = "reduce_wait"]
    /\ UNCHANGED <<input, nonEmpty, hist, tie, load, binned, rankmap, recv, table>>

(* Faulty variant: the reduced sums land in a buffer that is never copied *)
(* back, so every rank bins with its local load map.                      *)
ReduceCompleteNoCopy ==
    /\ \A r \in Ranks : pc[r] = "reduce_wait"
    /\ UNCHANGED hist
    /\ pc' = [r \in Ranks |-> "bin"]
    /\ UNCHANGED <<input, nonEmpty, acc, tie, load, binned, rankmap, recv, table>>

(* The all-reduce overwrites every rank's load map with the global sums.   *)
ReduceComplete ==
    /\ \A r \in Ranks : pc[r] = "reduce_wait"
    /\ hist' = [r \in Ranks |-> acc]
    /\ pc' = [r \in Ranks |-> "bin"]
    /\ UNCHANGED <<input, nonEmpty, acc, tie, load, binned, rankmap, recv, table>>

(* Faulty variant: a rank with no input of its own skips the exchange,   *)
(* as an input.size() > 0 test beside comm.size() > 1 would make it.      *)
BinStepSkipIfEmpty(r) ==
    /\ pc[r] = "bin"
    /\ \E m \in Mins \ binned[r], w \in Ranks :
          /\ \A m2 \in Mins \ binned[r] : m2 = m \/ SortedBefore(hist[r], m, m2)
          /\ IsLeastLoaded(load[r], w)
          /\ rankmap' = [rankmap EXCEPT ![r][m] = w]
          /\ load' = [load EXCEPT ![r][w] = @ + hist[r][m]]
          /\ binned' = [binned EXCEPT ![r] = @ \cup {m}]
          /\ pc' = [pc EXCEPT ![r] = IF binned'[r] # Mins THEN "bin"
                                     ELSE IF P > 1 /\ input[r] # <<>> THEN "a2a"
                                     ELSE "count"]
    /\ UNCHANGED <<input, nonEmpty, acc, hist, tie, recv, table>>

(* Faulty variant: the loop records the rank after the least-loaded one.  *)
BinStepNextRank(r) ==
    /\ pc[r] = "bin"
    /\ \E m \in Mins \ binned[r], w \in Ranks :
          /\ \A m2 \in Mins \ binned[r] : m2 = m \/ SortedBefore(hist[r], m, m2)
          /\ IsLeastLoaded(load[r], w)
          /\ rankmap' = [rankmap EXCEPT ![r][m] = w + 1]
          /\ load' = [load EXCEPT ![r][w] = @ + hist[r][m]]
          /\ binned' = [binned EXCEPT ![r] = @ \cup {m}]
          /\ pc' = [pc EXCEPT ![r] = IF binned'[r] # Mins THEN "bin"
                                     ELSE IF P > 1 THEN "a2a" ELSE "count"]
    /\ UNCHANGED <<input, nonEmpty, acc, hist, tie, recv, table>>

(* One iteration of the binning loop: the next minimizer in sorted order   *)
(* goes to the least-loaded rank, whose load grows by its k-mer count.     *)
(* The loop ends when every minimizer is assigned; with one rank the call  *)
(* skips distribute_supermers.                                             *)
BinStep(r) ==
    /\ pc[r] = "bin"
    /\ \E m \in Mins \ binned[r], w \in Ranks :
          /\ \A m2 \in Mins \ binned[r] : m2 = m \/ SortedBefore(hist[r], m, m2)
          /\ IsLeastLoaded(load[r], w)
          /\ rankmap' = [rankmap EXCEPT ![r][m] = w]
          /\ load' = [load EXCEPT ![r][w] = @ + hist[r][m]]
          /\ binned' = [binned EXCEPT ![r] = @ \cup {m}]
          /\ pc' = [pc EXCEPT ![r] = IF binned'[r] # Mins THEN "bin"
                                     ELSE IF P > 1 THEN "a2a" ELSE "count"]
    /\ UNCHANGED <<input, nonEmpty, acc, hist, tie, recv, table>>

(* Rank r enters distribute_supermers.                                     *)
A2AArrive(r) ==
    /\ pc[r] = "a2a"
    /\ pc' = [pc EXCEPT ![r] = "a2a_wait"]
    /\ UNCHANGED <<input, nonEmpty, acc, hist, tie, load, binned, rankmap, recv, table>>

(* The two all-to-alls: every super-mer of every source s reaches the rank *)
(* that s's own minimizer_rank names for its minimizer.                    *)
A2AComplete ==
    /\ \A r \in Ranks : pc[r] = "a2a_wait"
    /\ recv' = [d \in Ranks |->
                  {q \in Ranks \X Idx : q[2] <= Len(input[q[1]])
                                        /\ Owner(q[1], input[q[1]][q[2]]) = d}]
    /\ pc' = [r \in Ranks |-> "count"]
    /\ UNCHANGED <<input, nonEmpty, acc, hist, tie, load, binned, rankmap, table>>

(* Faulty variant: the window loop stops one k-mer short of the end.      *)
ExtractedShort(r) ==
    {q \in recv[r] \X Offsets :
        /\ Len(SuperMerAt(q[1]).bases) >= K
        /\ q[2] < NKmers(SuperMerAt(q[1]))}

(* The k-mers rank r extracts, <<<<source, index>>, offset>>, from the    *)
(* received super-mers of length >= K: one per window it_b of the loop.   *)
Extracted(r) ==
    {q \in recv[r] \X Offsets :
        /\ Len(SuperMerAt(q[1]).bases) >= K
        /\ q[2] <= NKmers(SuperMerAt(q[1]))}

(* Faulty variant: a k-mer is counted once per super-mer that holds it.  *)
KmerCountsPerSuperMer(r) ==
    [k \in KmerSet |-> Cardinality({q[1] : q \in {x \in Extracted(r) :
                                      KmerAt(SuperMerAt(x[1]), x[2]) = k}})]

(* How many times each k-mer occurs in the kmers vector of rank r.        *)
KmerCounts(r) ==
    [k \in KmerSet |-> Cardinality({q \in Extracted(r) :
                                      KmerAt(SuperMerAt(q[1]), q[2]) = k})]

(* Faulty variant: a key already in the table is overwritten with the new *)
(* pairs' count instead of being combined with it.                        *)
AddCountsReplace(tbl, n) == [k \in DOMAIN tbl |-> IF n[k] > 0 THEN n[k] ELSE tbl[k]]

(* reduction_unordered_map::local_insert with std::plus over the pairs    *)
(* (k-mer, 1): an absent key is emplaced with its pairs' sum, a present   *)
(* one is replaced by r(existing, 1) for each pair.                       *)
AddCounts(tbl, n) == [k \in DOMAIN tbl |-> tbl[k] + n[k]]

(* local_reserve, extraction, and local_insert into the count table.      *)
LocalCount(r) ==
    /\ pc[r] = "count"
    /\ table' = [table EXCEPT ![r] = AddCounts(@, KmerCounts(r))]
    /\ pc' = [pc EXCEPT ![r] = "done"]
    /\ UNCHANGED <<input, nonEmpty, acc, hist, tie, load, binned, rankmap, recv>>

RankStep(r) ==
    EmptyArrive(r) \/ ReduceArrive(r) \/ BinStep(r) \/ A2AArrive(r) \/ LocalCount(r)

Collective == EmptyComplete \/ ReduceComplete \/ A2AComplete

Next == (\E r \in Ranks : RankStep(r)) \/ Collective

(* Every rank keeps running its single thread, and the transport completes *)
(* a collective that every rank has entered.                               *)
Fairness == (\A r \in Ranks : WF_vars(RankStep(r))) /\ WF_vars(Collective)

Spec == Init /\ [][Next]_vars /\ Fairness

-----------------------------------------------------------------------------
(* Every rank enters the same collectives in the same order: while one     *)
(* rank waits in a collective, no rank has skipped it, left the call, or   *)
(* gone on to a later one.  A rank that returned early from insert() (the  *)
(* empty test) or took the single-rank branch while another entered the   *)
(* all-reduce or the all-to-all would leave that rank blocked for ever.    *)
CollectivesAligned ==
    \A r, s \in Ranks :
        /\ pc[r] = "empty_wait"  => pc[s] \in {"empty", "empty_wait"}
        /\ pc[r] = "reduce_wait" => pc[s] \in {"reduce", "reduce_wait"}
        /\ pc[r] = "a2a_wait"    => pc[s] \in {"bin", "a2a", "a2a_wait"}

(* Once two ranks have finished the binning loop they hold the same       *)
(* minimizer_rank vector: TupleToRank2 routes a super-mer by its sender's *)
(* vector, so ranks that disagree send the k-mers of one minimizer to two *)
(* ranks.  It rests on the in-place all-reduce and on every rank running  *)
(* the same sort and the same loop on the same sums.                      *)
RankMapsAgree ==
    \A r, s \in Ranks :
        (binned[r] = Mins /\ binned[s] = Mins) => rankmap[r] = rankmap[s]

(* The occurrences of k-mer k in the global input, and the ranks holding a *)
(* count for it.                                                           *)
Occurrences(k) ==
    Cardinality({q \in (Ranks \X Idx) \X Offsets :
                   /\ q[1][2] <= Len(input[q[1][1]])
                   /\ q[2] <= NKmers(SuperMerAt(q[1]))
                   /\ KmerAt(SuperMerAt(q[1]), q[2]) = k})
Holders(k) == {r \in Ranks : table[r][k] > 0}

(* What insert() takes from the extractor (spec 8.2): a super-mer's tag   *)
(* is the minimizer of each of its k-mers, so two super-mers that hold    *)
(* the same k-mer carry the same tag.                                     *)
KmerTagsAgree ==
    \A s1, s2 \in SuperMers :
        \A o1 \in 1 .. NKmers(s1), o2 \in 1 .. NKmers(s2) :
            KmerAt(s1, o1) = KmerAt(s2, o2) => s1.min = s2.min

(* When every rank has returned from insert(), each k-mer of the global   *)
(* input is held by exactly one rank, with a count equal to its number of *)
(* occurrences, and no other k-mer is held anywhere (spec 8.5).           *)
CountsExact ==
    (\A r \in Ranks : pc[r] = "done") =>
        \A k \in KmerSet :
            IF Occurrences(k) = 0 THEN Holders(k) = {}
            ELSE \E r \in Ranks : Holders(k) = {r} /\ table[r][k] = Occurrences(k)

(* The occurrences of k-mer k inside super-mers tagged m.                 *)
TaggedOccurrences(k, m) ==
    {g \in MinimizerPositions(m) : KmerAt(SuperMerAt(g[1]), g[2]) = k}

(* The refinement mapping: the minimizer-to-rank function is fixed when   *)
(* the first rank leaves the binning loop, and it is that rank's vector.  *)
Decided == \E r \in Ranks : binned[r] = Mins
AgreedOwner ==
    IF Decided THEN rankmap[CHOOSE r \in Ranks : binned[r] = Mins]
    ELSE [m \in Mins |-> CHOOSE r \in Ranks : TRUE]

Abstract == INSTANCE CountingMap WITH
                Positions <- KmerPositions,
                occ <- [p \in KmerSet \X Mins |-> TaggedOccurrences(p[1], p[2])],
                decided <- Decided, owner <- AgreedOwner

(* insert() implements the counting map: no later rank leaves the binning *)
(* loop with another vector than the first, and the one table write of    *)
(* each rank, its local_insert of the k-mers it received, is exactly the  *)
(* global count of the minimizers the agreed vector gives it.  Receivers  *)
(* count what senders routed with their own vectors, so this needs every  *)
(* sender's map, the exchange and the extraction to agree.               *)
ImplementsCountingMap == Abstract!Spec

(* Spec 4.4: minimizers of equal load are binned in ascending index      *)
(* order.  A binning step never takes a minimizer while a smaller one of  *)
(* the same load is still unassigned.                                     *)
SortTiesByIndex ==
    [][\A r \in Ranks : \A m \in binned'[r] \ binned[r] :
          \A m2 \in Mins \ binned[r] : hist[r][m2] = hist[r][m] => m <= m2]_vars

(* Spec 4.4: a minimizer with zero load is assigned round-robin over rank *)
(* id.  Two zero-load minimizers that follow each other in the sorted      *)
(* order then go to different ranks whenever there is more than one rank;  *)
(* the argmin of the binning loop, which a zero load leaves unchanged,     *)
(* gives them the same one.                                                *)
ZeroLoadRoundRobin ==
    P > 1 =>
        \A r \in Ranks : \A a, b \in binned[r] :
            (/\ hist[r][a] = 0 /\ hist[r][b] = 0 /\ tie[a] < tie[b]
             /\ ~\E c \in Mins : hist[r][c] = 0 /\ tie[a] < tie[c] /\ tie[c] < tie[b])
            => rankmap[r][a] # rankmap[r][b]

(* Every rank eventually returns from insert().                           *)
Termination == <>(\A r \in Ranks : pc[r] = "done")
=============================================================================
