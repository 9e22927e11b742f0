# TLA+ verification of mysuperhash

This directory models the minimizer-based distributed k-mer counter of this
repository:

- `src/minimizer.cpp`: the rolling m-mer.
- `src/unnamed/part_000`: the `dsc` distributed maps and
  `minimizer_based_counting_unordered_map`.

It also holds TLC configurations that model-check the modules on small
instances, and TLAPS proofs of the main safety facts for every value of the
constants.

## 1. Inventory of the system

| Part | Source | State | Operations that change state |
|---|---|---|---|
| C1 rolling m-mer `Minimizer<valType>` | `src/minimizer.cpp` 1-45 | `val`, `mmer_size`, `mask` (indeterminate after the defaulted constructor) | `setMmerSize`, `init`, `next` |
| C2 super-mer extractor | not in the sources (spec 4.2); uses `Minimizer` of `src/minimizer.cpp` | a `Minimizer`, the deque, the open super-mer | walks a read base by base and emits the `(minimizer, bases)` vector handed to `insert` |
| C3 load histogram | fill: caller, outside the sources; all-reduce: `part_000` 2224-2226 | `minimizer_kmer_load_map` per rank | local fill, in-place sum all-reduce |
| C4 greedy binner | `part_000` 2228-2275 | `indices`, `rank_load`, `minimizer_rank` per rank | `std::sort` by decreasing load, then the argmin loop |
| C5 shuffle and count | `part_000` 2214-2427, `TupleToRank2` 2297-2318, `reduction_unordered_map::local_insert` 1603-1618 | the count table `c` per rank | `::dsc::empty`, `distribute_supermers` (all-to-all), extraction, `local_reserve`, `local_insert` |
| generic maps | `part_000` 139-1890 | hash-distributed local containers | insert / find / count / erase by predicate, `local_reduction` |
| benchmark types | `src/ext/.../benchmark_kmer_ops_storage.cpp` | none | none |

### How the parts interact

Every rank runs `insert` on its own shard. Three collectives synchronise the
ranks, in a fixed order:

1. The logical-or test `::dsc::empty`. If every shard is empty, every rank returns.
2. The sum all-reduce of the load map.
3. Only when `comm.size() > 1`, the all-to-all in `distribute_supermers`.

Between the collectives, each rank computes its own `minimizer_rank`
deterministically from the reduced histogram. The correctness of the whole
call depends on two things:

- every rank computing the same map;
- the sender's map placing all k-mers of one minimizer on one rank.

### What is hard to test here

These behaviours are listed as `hazards` in `PROJECT.json`:

- ranks entering the collectives in different orders (a hang);
- binning with the pre-reduce histogram;
- the tie order of `std::sort`;
- the `comm.size() == 1` branch;
- the window loop bound;
- the shift width of the mask, and the out-of-range index into
  `minimizer_rank` that a wrong mask causes;
- use before `setMmerSize` and `init`;
- zero-load minimizers;
- a second `insert` call with a different histogram.

The extractor's deque and super-mer boundaries are modelled from spec 4.2
and checked (`TagsAreMinimizers`, `LoadCountsKmers`), but its code is not in
the sources, so they are not listed as hazards of the code.

## 2. Modules

| Module | Models | Notes |
|---|---|---|
| `MinimizerOps` | pure operators of C1 | `Shl2` is `val <<= 2` modulo 2^Width. `InitValue` is `init`, `NextValue` is `next`, `MinimizerOf` is the minimum under `operator<`. `Pack` is the reference definition (a recursive function) that they are checked against. |
| `Minimizer` | one C1 object | `Init` is the defaulted constructor: `val` can be any word. Actions: `SetMmerSize`, `InitM`, `NextM`. A `next` before `setMmerSize` reads an indeterminate mask and gives any word. An `init` before `setMmerSize` loops over an indeterminate `mmer_size` and also gives any word; `inited` holds only once `init` has run with the size set. `SetMmerSize` takes its mask from `IntMasks(IntBits)` (below). |
| `Extractor` | C2 and the C3 fill for one read, from spec 4.2 and 4.3 | Described below. |
| `DistCounter` | C3 (all-reduce), C4, C5: one `insert` call on P ranks | Described below. |
| `CountingMap` | what one `insert` promises (spec 4.5, 8.4, 8.5) | `Decide` fixes one minimizer-to-rank function; `Count(r)` fills rank r's table with the global count of every k-mer it owns. `occ` is the input's k-mer occurrences and never changes. |
| `DistCalls` | consecutive `insert` calls on one map object | `NextCall`: once every rank has returned, the caller calls again with a new batch and its load map. Everything `insert` builds is reset, a new sort tie order is chosen, and the count table is kept. `counted` records the occurrences of the earlier batches. |
| `MC_DistCounter` | TLC instance of `DistCounter` | Fixes a set of super-mers and checks in an ASSUME that their tags are `MinimizerOf` their windows (the C2 contract). Defines the optimal makespan for `LPTBound`. |
| `MC_Minimizer` | TLC instance of `Minimizer` | `MCIntBits` (32) and `MCIntBitsScaled` (4) are the widths of `int` the cfgs bind `IntBits` to. |
| `MC_Extractor`, `MC_DistCalls` | TLC instances of `Extractor` and `DistCalls` | |
| `DistCounter_proofs` | TLAPS proofs about `DistCounter`: types, aligned collectives, agreeing vectors | |
| `CountsProofs` | TLAPS proof of `CountsExact` | Extends `DistCounter_proofs`. |
| `RefinementProofs` | TLAPS proof that `DistCounter` implements `CountingMap` | Extends `CountsProofs`. |

### `DistCounter`: state and actions

`pc[r]` records where rank `r` is in `insert`:

- `empty`: before the emptiness test;
- `reduce`: before the all-reduce;
- `bin`: in the binning loop;
- `a2a`: before the exchange;
- `count`: extraction and insertion;
- `done`: returned.

Each `*_wait` value means the rank has entered the matching collective.

Each collective is modelled as an arrival action per rank (`EmptyArrive`,
`ReduceArrive`, `A2AArrive`) plus one completion action (`EmptyComplete`,
`ReduceComplete`, `A2AComplete`). The completion is enabled once every rank
has arrived. This is the only synchronisation MPI gives a blocking collective.

- **Binning.** `BinStep(r)` is one iteration of the loop at 2260-2275. The next minimizer is the first
  not-yet-binned one in `std::sort` order, `SortedBefore`. Ties in load are
  ordered by `tie`, a permutation chosen once in `Init` and shared by all
  ranks: the build's sort is deterministic, but the order among equal loads
  is not specified. The target rank is the strict-`<` argmin from rank 0,
  `IsLeastLoaded`. The step also computes the next `pc`, taking the
  `comm.size() > 1` branch.
- **Exchange.** `A2AComplete` gives each rank the set of `(source, index)` pairs that
  senders route to it with their own `minimizer_rank`.
- **Counting.** `LocalCount(r)` is the whole tail of `insert`: extraction of every
  window (`Extracted`, `KmerAt`), the `(kmer, 1)` transform (`KmerCounts`)
  and the additive `local_insert` (`AddCounts`). A count of 0 stands for an
  absent key.

The payload encoding of `distribute_supermers` is outside the sources and is
not modelled. Only who receives what is modelled.

`Init` gives each rank's load map as `LocalLoad(r)`: for each minimizer, the
number of k-mers of the rank's shard in super-mers with that tag. This is
the caller's fill of spec 4.3.

### The mask of `setMmerSize`

`mask = (1 << (2 * mmer_size)) - 1` is evaluated in `int`, so it is correct
only while `2 * mmer_size < 31`. `IntMasks(bits)` in `MinimizerOps` gives the
values the builds produce:

- when `2M < bits - 1`, the exact mask 4^M - 1;
- when `2M = bits - 1`, the shift reaches the sign bit and the overflow
  wraps, giving `2^(bits-1) - 1`;
- beyond that the shift is undefined. The result is either x86's (count
  taken modulo the width) or that of a count taken whole, 0 - 1 = -1.

`ToValType` converts the result to valType modulo 2^Width. The runs scale a
32-bit `int` and a 64-bit valType down to 4 and 8 bits. `2M = 4` then plays
the part of `mmer_size = 16`.

### `Extractor`: state and actions

The extractor's code is not in the sources. It is modelled from spec 4.2, on
top of the `Minimizer` operators.

- **State.**
  - `mask` is the mask `setMmerSize` left.
  - `read` and `pos` are the read and the bases consumed.
  - `mmer` is the rolling value.
  - `dq` is the monotonic deque of m-mer occurrences `[at, val]`.
  - `cur` is the minimizer occurrence of the last complete k-mer.
  - `start` is the first base of the open super-mer.
  - `out` is the emitted tuples, `hist` is the local load map, and `done`
    says the read has been walked.
- **A minimizer's identity.** It is its occurrence (position and value). A
  super-mer ends when that identity changes between two consecutive k-mers,
  as scenario 4 of spec 8 asks.
- **Actions.**
  - `SkipShort`: a read shorter than K emits nothing.
  - `StartRead`: `init` over the first M bases.
  - `Fill`, `FirstKmer`, `SameMinimizer` and `NewMinimizer` are the four
    cases of `Slide`, one `next` plus the deque update. The deque update is
    `Pushed` (pop the back while `>=`, with `operator!=` and `operator>`)
    followed by `Evicted` (drop the front once it leaves the window).
  - `Finish` emits the last super-mer.

  Emitting also adds the super-mer's k-mer count to `hist`.

## 3. Runs

| Run | Config | Result | What it shows |
|---|---|---|---|
| `dist_two_ranks` | `MC_DistCounter.cfg` | pass, 97 710 states | `TypeOK`, `CollectivesAligned`, `RankMapsAgree`, `CountsExact`, `LPTBound`, `Termination`, `ImplementsCountingMap` |
| `dist_single_rank` | `MC_DistCounter_single.cfg` | violation of `CountsExact` | one rank counts nothing (code bug) |
| `dist_tie_order` | `MC_DistCounter_ties.cfg` | violation of `SortTiesByIndex` | equal loads are not ordered by index (spec divergence) |
| `dist_zero_load` | `MC_DistCounter_zero.cfg` | violation of `ZeroLoadRoundRobin` | zero-load minimizers all go to one rank, not round-robin (spec divergence, counts unaffected) |
| `dist_two_calls` | `MC_DistCalls.cfg` | violation of `CountsExactAcrossCalls` | a second call routes an already counted k-mer to another rank (spec gap) |
| `dist_calls` | `MC_DistCalls_sum.cfg` | pass, 101 802 states | `CountsConservedAcrossCalls` over two calls |
| `minimizer_rolling` | `MC_Minimizer.cfg` | pass, 1 040 states | `RollingMatchesWindow` |
| `minimizer_wide_mask` | `MC_Minimizer_wide.cfg` | violation of `RollingMatchesWindow` | the `int` mask breaks `next` once 2M reaches the width of `int` (code bug) |
| `extractor` | `MC_Extractor.cfg` | pass, 36 266 states | `TypeOK`, `TagsAreMinimizers`, `LoadCountsKmers` |
| `extractor_ties` | `MC_Extractor_ties.cfg` | violation of `LeftmostOnTies` | the deque keeps the rightmost of equal m-mers (spec gap) |
| `extractor_wide_mask` | `MC_Extractor_wide.cfg` | violation of `MmersIndexLoadMap` | with the all-ones mask, tags exceed 4^M - 1 and index `minimizer_rank` out of range (code bug) |

### The properties

- `CollectivesAligned`: a rank waiting in a collective never has a peer that has
  skipped it or moved past it. If this fails, the program hangs.
- `RankMapsAgree`: once two ranks have finished binning, their
  `minimizer_rank` maps are equal.
- `CountsExact`: once every rank has returned, every k-mer is held on at most
  one rank, with exactly the number of its occurrences in all inputs.
- `LPTBound`: the finished loads satisfy Graham's bound for longest-processing-time
  scheduling, 3P * max load <= (4P - 1) * optimum. The optimum is computed
  by enumerating all assignments.
- `Termination`: every rank eventually returns.
- `ImplementsCountingMap`: `DistCounter` implements `CountingMap` under a
  refinement mapping:
  - `occ` is the tagged occurrences of each k-mer in the input
    (`TaggedOccurrences`);
  - `decided` holds once some rank has left the binning loop;
  - `owner` is that rank's `minimizer_rank`.

  A step that completes a rank's binning is `Decide`, `LocalCount(r)` is
  `Count(r)`, and every other step is a stutter. The property fails if a rank
  counts k-mers it does not own under the agreed map, or counts them wrongly.
  So it needs the maps to agree, the exchange to route by them, and the
  extraction to be exact.
- `ZeroLoadRoundRobin`: two zero-load minimizers that are consecutive in the
  sorted order go to different ranks when P > 1.
- `CountsExactAcrossCalls`: `CountsExact` over the batches of every call so far.
- `CountsConservedAcrossCalls`: once every rank has returned, each k-mer's
  counts summed over all ranks equal its occurrences in every call so far.
  This is what survives of `CountsExact` when the calls' maps differ: a
  k-mer may be split between ranks, but no occurrence is lost or counted
  twice. It rests on `local_insert` combining a received count with the one
  already in `this->c` (`r(existing, 1)`). One call meets existing keys
  too, when a k-mer repeats, but the model takes a call's pairs together
  (`KmerCounts`), so only a second call tells adding from overwriting.
- `TagsAreMinimizers` (spec 8.2): every k-mer of an emitted super-mer has the
  super-mer's tag as its `MinimizerOf`.
- `LoadCountsKmers` (spec 4.3): once a read is walked, `H[m]` is the number of
  its k-mers with minimizer m.
- `LeftmostOnTies` (spec 3): the open super-mer's minimizer occurrence has no
  equal m-mer to its left in the current k-mer.
- `MmersIndexLoadMap` (spec 3, 4.3, 4.4): every m-mer value and every tag is
  below 4^M, the size of the load map and of `minimizer_rank`.
- `SortTiesByIndex` (action property): a binning step takes the least index
  among the equal-load unbinned minimizers.
- `RollingMatchesWindow`: once `init` has run after `setMmerSize`, `val`
  equals `Pack` of the last M bases, whatever calls follow. Calls of `init`
  or `next` before `setMmerSize`, which read indeterminate members, are
  explored and do not count as the `init` it starts from.

Each property of a passing run has a mutant in `PROJECT.json`, and TLC finds
each mutant's violation. The mutants are:

- a binning step that picks the next rank;
- a binning step that leaves the loop early;
- binning without the reduced histogram;
- a window loop one short;
- a count per super-mer in place of per k-mer (for `ImplementsCountingMap`);
- for the extractor:
  - `next` without the mask (`TypeOK`);
  - a front eviction one base late;
  - a load one k-mer short;
- an ascending sort;
- an emptiness test that is not collective;
- an `init` that does not zero `val`;
- a `local_insert` that overwrites an existing key's count instead of
  adding to it (for `CountsConservedAcrossCalls`).

### Bounds

- **`dist_two_ranks`** uses:
  - P = 2, the smallest case in which ranks can disagree and the exchange runs;
  - three minimizers and three bases;
  - K = 2;
  - up to two super-mers per rank, drawn from four candidates. The candidates
    include two with the same minimizer and different k-mers, and one with
    two windows.

  All inputs are enumerated, including two empty shards, which take the
  early return. All six tie orders are enumerated too. This instance reaches
  equal loads, a minimizer split across senders, and LPT decisions where the
  order matters.
- **`minimizer_rolling`** uses M = 2 in a 5-bit word and a 32-bit `int`.
  A shift of 2 then really wraps, so a mask that kept one base too many, or
  an `init` that kept old bits, would show. Spec 6 makes 2M <= the word's
  width a precondition (`MinimizerAssumption`), so a narrower word is not
  explored.
- **`extractor`** covers every read over ACGT of up to 6 bases, with K = 4
  and M = 2, that is 3 m-mers per k-mer. This reaches:
  - reads shorter than K;
  - a minimizer that leaves the window;
  - one replaced by a smaller incoming m-mer;
  - equal m-mers in one window;
  - reads of one and of several super-mers.

  `Width = 6` lets a missing mask show in `TypeOK`.
- **`dist_two_calls`** uses two calls with one super-mer per rank each. That
  is the smallest case in which a tie order of the second call moves a
  minimizer counted in the first. **`dist_calls`** runs the same
  instance, so it reaches the k-mers that the second call sends to a rank
  that already holds them and the ones it sends to a new rank.

### Fairness and deadlock

`Termination` assumes weak fairness of each rank's own step and of the
collective completions. This holds because a rank is a running process, and
an MPI collective completes once all members have entered it.

Deadlock checking is off because the final state, with every rank at `done`,
has no successor by design. `Termination` and `CollectivesAligned` cover
the real hang. The extractor's runs stop the same way once the read is
walked (`done`). No fairness is assumed there and no liveness is checked,
because the walk is a plain loop.

## 4. Proofs (`DistCounter_proofs`, `CountsProofs`, `RefinementProofs`, checked by `tlapm`)

Every leaf names the facts and definitions it uses. A leaf whose SMT
proof takes more than about a second is marked `SMTT(20)`. A first-order
leaf that needs Zenon for more than a few seconds is marked `ZenonT(30)`.
Without these marks, such leaves could fail on a loaded machine under
the 5 s SMT and 10 s Zenon defaults. The `Before(r, a)'` step of
`BinStepBInv` is split into sub-steps for the same reason.

- **`TypeCorrect`: `Spec => []TypeOK`**, for every P, minimizer set, K
  and input bound. `TypeOK` is inductive.
  - `InitTypeOK` and `NextTypeOK` prove it, with one step per action.
  - The counts the model takes with `Cardinality` are natural numbers
    because each counted set is a subset of a product of finite intervals.
    The lemmas `IntervalsFinite`, `ProductFinite`, `CardinalityOfSubset`,
    `LocalLoadType` and `ExtractedCountType` show this.
- **`CollectivesAlignedThm`: `Spec => []CollectivesAligned`**. The
  property is not inductive as stated, so it is strengthened to
  `IInv == TypeOK /\ PhaseAligned`.
  - `Phase(pc)` counts the collectives a rank has completed, and
    `PhaseAligned` says every rank has the same `Phase`.
  - TLC checked `IInv` as an invariant of the `dist_two_ranks` instance
    before it was proved.
  - Arrivals and local steps stay within the phase. A completion moves every
    rank at once.
  - The only branch leaving the binning phase, `P > 1`, is taken alike by
    every rank. When P = 1 there is only one rank.

- **`RankMapsAgreeThm`: `Spec => []RankMapsAgree`**, for every P, minimizer
  set and input. The inductive invariant is `BInv`, which is `IInv` and the
  following:
  - `TieInjective`: the tie order is a strict order.
  - `HistLocal`: before the all-reduce, each load map is the rank's own
    `LocalLoad` and nothing is binned.
  - `AccSums`: during the all-reduce, `acc` counts the k-mers of the ranks
    that have contributed.
  - `HistGlobal`: from the binning phase on, every load map is
    `GlobalLoad`, which is a function of the input alone.
  - `LoadIsCount`: `rank_load` is the k-mer count of the binned minimizers,
    per rank (`LoadBy`). It is a cardinality of a union of disjoint position
    sets, so no sum operator is needed.
  - `BinnedIsPrefix`: each rank's binned set is a prefix of the sorted order.
  - `GreedyChoice`: each binned minimizer went to the unique least-loaded
    rank for the prefix before it.
  - `MapsAgreeOnCommon`: two ranks agree on every minimizer both have binned.

  The key step is `BinStepBInv`. When rank r bins m to w, another rank s
  that already binned m did so after exactly the same prefix, by the prefix
  property of both ranks and the strict total order `SortedOrder`. It did
  so with the same loads, by agreement on that prefix and `LoadByAgree`. So
  it chose the same rank, by `LeastLoadedUnique`. TLC checked `BInv` on the
  `dist_two_ranks` instance and on a three-rank instance before the proof.
  The lemmas `CardDisjointUnion`, `LoadByAdd` and `PositionsDisjoint` carry
  the counting.

- **`CountsExactThm`** (`CountsProofs`): `ASSUME P > 1, KmerTagsAgree
  PROVE Spec => []CountsExact`, for every minimizer set, K and input bound.
  - The two hypotheses are as weak as the code allows. With one rank the
    property is false, because of the single-rank bug (`dist_single_rank`).
    `KmerTagsAgree` says two super-mers that hold the same k-mer carry the
    same tag. It is what insert() receives from the extractor, whose tag
    is the minimizer of every k-mer it covers (spec 8.2, `TagsAreMinimizers`).
    Without it, one k-mer could be routed to two ranks. `MC_DistCounter`
    checks the hypothesis in an ASSUME (`MCTagsAgree`), so it holds of the
    instance the run uses.
  - The inductive invariant is `CInv`, which is `BInv` and the following:
    - `EmptyTest`: during the emptiness test, `nonEmpty` is the or of the
      ranks that have arrived; after it, the or of every rank's.
    - `EmptyReturned`: a call whose inputs are all empty has returned.
    - `BinnedBeforeA2A`: a rank enters the exchange only with every
      minimizer binned.
    - `RecvRouted`: past the exchange, `recv[d]` is `Routed(d)`, the
      super-mers their sender's vector gives to `d`.
    - `TableCounts`: a table is zero until its `local_insert`, and then
      `KmerCounts(r)`.
  - TLC checked `CInv` on the `dist_two_ranks` instance (97,710 states)
    before it was proved. `RecvRouted` is where `P > 1` is used. With one
    rank the binning loop goes straight to counting, and `recv` stays empty.
  - The closing argument is in `ExtractedRouted`. By `RankMapsAgree`, all
    senders route with one vector, so rank `d` extracts exactly the
    occurrences whose tag that vector gives to `d`. By `OccTagsAgree`, all
    occurrences of a k-mer have one tag, so they all land on one rank. No
    sum over ranks is needed: the other ranks' sets are empty.
- **`ImplementsCountingMapThm`** (`RefinementProofs`): `ASSUME P > 1 PROVE
  Spec => ImplementsCountingMap`, that is `Spec => Abstract!Spec`. The proof
  goes step by step under the refinement mapping of `DistCounter`. It needs
  no hypothesis on the tags: each rank's table is compared with the count of
  the minimizers it owns, not with the global count of its k-mers.
  - `InitRefines`: the initial states map to `CountingMap`'s.
  - `BinStepRefines`: a binning step is `Decide` when it is the first to end
    the loop. Otherwise it is a stutter: a later rank that ends the loop
    holds the same vector as the first (`MapsAgreeOnCommon`), so the
    `CHOOSE` in `AgreedOwner` yields the same function.
  - `LocalCountRefines`: `local_insert` is `Count(r)`. Its table becomes
    `Owned(r)`, by `OwnedIsExtracted` and `ExtractedRouted`.
  - `AbstractFrame`: every other step leaves the mapped state unchanged.
  - The step lemmas assume `CInv` and `CInv'`, and `SpecCInv` supplies both.
The following stay with TLC:

- liveness (`Termination`), which is out of the prover's reach;
- `CountsConservedAcrossCalls`, a sum over ranks (`MapThenSumSet`). The
  fold is a recursive function over subsets, and no fact about it follows
  without induction.
- `LPTBound`, which needs the optimum over all assignments and sums of
  loads. The optimum is defined only in the MC module, and sums need
  induction over finite sets.
- everything about `Pack` and the m-mer values. The values use `2^n`, and
  the installed backends prove nothing about `^` beyond literal arithmetic.
  What a recursive function computes for every input needs induction the
  provers cannot instantiate. So `MinimizerOps`, `Minimizer` and `Extractor`
  hold no theorem. This covers `RollingMatchesWindow`, both `TypeOK`s and
  the two extractor properties.

## 5. Findings

- **Single rank counts nothing** (`dist_single_rank`, code bug, `part_000`
  2331). With `comm.size() == 1`, `output` is never filled.
- **The `int` mask** (`minimizer_wide_mask` and `extractor_wide_mask`, code
  bug, `minimizer.cpp` 19). Spec 6 allows any M with 2M up to the width of
  valType, but for `mmer_size >= 16` the mask is 0, `2^31 - 1` or all ones.
  `next` then either keeps only the newest base or never drops old ones. The
  values exceed 4^M - 1 and index `minimizer_rank` out of range at
  `part_000` 2316.
- **Tie order** (`dist_tie_order`, spec divergence). `std::sort` does not
  order equal loads by index.
- **Zero loads** (`dist_zero_load`, spec divergence). There is no
  round-robin; every zero-load minimizer goes to the same rank.
- **Leftmost ties** (`extractor_ties`, spec gap). Spec 4.2's `>=` pop keeps
  the rightmost equal m-mer, against spec 3's leftmost rule.
- **Repeated calls** (`dist_two_calls`, spec gap). `minimizer_rank` is per
  call but the count table persists, so a k-mer's count can end up split
  over two ranks.

Two more points, noted while modelling, have no run:

- Spec 8's scenario 1 says every k-mer of `ACGTACGT` has minimizer `ACG`.
  But `CGTAC` contains `CGT`, `GTA` and `TAC`, so by the spec's own
  definition its minimizer is `CGT`.
- Spec 7 says an empty global input must still run every collective. The
  code returns right after `::dsc::empty`. This is harmless, because every
  rank returns together, which is what `CollectivesAligned` checks.

## 6. Not modelled, and the plan

- **C2, the extractor**, is modelled for one read from the spec, with two
  exceptions. N bases (spec 7) are not modelled. The split of reads over
  ranks is left to `DistCounter`, whose inputs are any super-mers carrying
  the right tags.
- **The generic `dsc` maps** (`part_000` 139-1890). These are the next
  component: a `DistMap` module with
  - hash routing (`KeyToRank`);
  - collective `insert`, `find`, `count` and `erase` with predicates;
  - the reduction and counting variants, whose `local_insert` is
    `AddCounts`.

  `find` and `count` on a minimizer map go through the hash routing, not
  `minimizer_rank`. This is worth checking once `DistMap` exists.
- **Not modelled at all:**
  - logging and timers;
  - the wire encoding;
  - hash table capacity (`local_reserve`), which affects speed, not counts;
  - the benchmark type list.
