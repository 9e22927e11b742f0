--------------------------- MODULE MC_DistCounter ---------------------------
(***************************************************************************)
(* Two ranks, k = 2, m = 1, base codes {A, C, G} = {0, 1, 2}.  The         *)
(* minimizer of a 2-mer is then its least base, so there are three         *)
(* minimizer values.  Each rank holds up to two of four super-mers that    *)
(* the extractor can produce; each has one minimizer on all its windows.   *)
(***************************************************************************)
EXTENDS DistCounter, FiniteSetsExt

Mz == INSTANCE MinimizerOps WITH M <- 1, Width <- 8

MCSuperMers ==
    { [min |-> 0, bases |-> <<0, 0>>],         \* AA
      [min |-> 1, bases |-> <<1, 1, 1>>],      \* CCC: two CC k-mers
      [min |-> 2, bases |-> <<2, 2>>],         \* GG
      [min |-> 1, bases |-> <<1, 2>>] }        \* CG

(* Each candidate is a super-mer: its tag is the minimizer of every window. *)
ASSUME \A sm \in MCSuperMers :
          \A o \in 1 .. NKmers(sm) : Mz!MinimizerOf(KmerAt(sm, o)) = sm.min

(* So the candidates meet the hypothesis of the counting theorem.         *)
ASSUME MCTagsAgree == KmerTagsAgree

(* The least makespan of any assignment of minimizers to ranks.           *)
LoadOf(h, a) == [r \in Ranks |-> MapThenSumSet(LAMBDA m : h[m], {m \in Mins : a[m] = r})]
OptMakespan(h) == Min({Max({LoadOf(h, a)[r] : r \in Ranks}) : a \in [Mins -> Ranks]})

(* The binning loop is Graham's LPT rule: once a rank has assigned every  *)
(* minimizer, its largest rank load is at most (4/3 - 1/(3P)) times the   *)
(* least makespan any assignment of the summed loads achieves.            *)
LPTBound ==
    \A r \in Ranks :
        binned[r] = Mins =>
            3 * P * Max({load[r][j] : j \in Ranks}) <= (4 * P - 1) * OptMakespan(hist[r])
=============================================================================
