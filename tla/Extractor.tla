------------------------------ MODULE Extractor ------------------------------
(***************************************************************************)
(* The super-mer extractor (spec 4.2) and the local load fill (spec 4.3)   *)
(* for one read.  Its code is not in the sources; it is modelled from the  *)
(* spec, on top of the rolling m-mer of src/minimizer.cpp: the m-mer of    *)
(* each position comes from init and next (MinimizerOps), the window      *)
(* minimum from a monotonic deque compared with the Minimizer operators.   *)
(*                                                                         *)
(* A minimizer's identity is its occurrence: the position of its first     *)
(* base in the read and its value.  A super-mer is emitted when the        *)
(* identity changes between two consecutive k-mers.                        *)
(***************************************************************************)
EXTENDS MinimizerOps, SequencesExt

CONSTANTS
    K,          \* kmer_size
    Bases,      \* base codes
    MaxLen,     \* bound on the read length
    IntBits     \* bits of int, the type setMmerSize computes the mask in

ASSUME ExtractorAssumption ==
    /\ M \in Nat \ {0} /\ K \in Nat /\ M < K
    /\ Bases \subseteq 0 .. 3
    /\ Width \in Nat /\ 2 * M <= Width
    /\ MaxLen \in Nat
    /\ IntBits \in Nat \ {0}

Reads == UNION {[1 .. n -> Bases] : n \in 0 .. MaxLen}
MmerVals == 0 .. 2^(2 * M) - 1
Mmers == [at : 1 .. MaxLen, val : MmerVals]

VARIABLES
    mask,       \* the mask setMmerSize(M) left in the extractor's Minimizer
    read,       \* the read being walked
    pos,        \* number of its bases consumed
    mmer,       \* the rolling m-mer value over the last M bases
    dq,         \* the monotonic deque of m-mer occurrences in the window
    cur,        \* the minimizer identity of the last complete k-mer
    start,      \* the first base of the super-mer being grown
    out,        \* the emitted (minimizer, bases) tuples, in order
    hist,       \* the local minimizer k-mer load map H
    done        \* the read has been walked

vars == <<mask, read, pos, mmer, dq, cur, start, out, hist, done>>

(* The m-mer values range over the 4^M indices of the load map, as they  *)
(* do when the mask setMmerSize computes is 4^M - 1.                      *)
TypeOK ==
    /\ mask \in Word
    /\ read \in Reads
    /\ pos \in 0 .. MaxLen
    /\ mmer \in MmerVals
    /\ dq \in Seq(Mmers)
    /\ cur \in Mmers
    /\ start \in 1 .. MaxLen + 1
    /\ out \in Seq([min : MmerVals, bases : Seq(Bases)])
    /\ hist \in [MmerVals -> Nat]
    /\ done \in BOOLEAN

Init ==
    /\ mask \in {ToValType(mk) : mk \in IntMasks(IntBits)}
    /\ read \in Reads
    /\ pos = 0
    /\ mmer = 0
    /\ dq = <<>>
    /\ cur = [at |-> 1, val |-> 0]
    /\ start = 1
    /\ out = <<>>
    /\ hist = [m \in MmerVals |-> 0]
    /\ done = FALSE

(* Number of k-mers of a base sequence, and its i-th k-mer.                *)
NKmersOf(bs) == Len(bs) - K + 1
KmerOf(bs, i) == SubSeq(bs, i, i + K - 1)

(* Pop from the back while the back is >= the incoming m-mer, then push   *)
(* it: the deque keeps the values that are != and not > the incoming one.  *)
Pushed(d, e) == Append(SelectSeq(d, LAMBDA x : x.val # e.val /\ ~(x.val > e.val)), e)

(* Faulty variant: the front is evicted one base late.                    *)
EvictedLate(d, s) == SelectSeq(d, LAMBDA x : x.at >= s - 1)

(* Pop from the front while it lies before the k-mer starting at s.        *)
Evicted(d, s) == SelectSeq(d, LAMBDA x : x.at >= s)

(* Emit the super-mer of identity c over bases st .. last.                 *)
Emit(o, c, st, last) == Append(o, [min |-> c.val, bases |-> SubSeq(read, st, last)])

(* Faulty variant: the load counts one k-mer too few.                     *)
AddLoadShort(h, c, st, last) == [h EXCEPT ![c.val] = @ + (last - st + 1) - K]

(* H[minimizer] += L, the number of k-mers of the super-mer.               *)
AddLoad(h, c, st, last) == [h EXCEPT ![c.val] = @ + (last - st + 1) - K + 1]

(* A read shorter than K emits nothing.                                    *)
SkipShort ==
    /\ ~done /\ pos = 0
    /\ Len(read) < K
    /\ done' = TRUE
    /\ UNCHANGED <<mask, read, pos, mmer, dq, cur, start, out, hist>>

(* Minimizer::init over the first M bases.                                 *)
StartRead ==
    /\ ~done /\ pos = 0
    /\ Len(read) >= K
    /\ mmer' = InitValue(SubSeq(read, 1, M))
    /\ dq' = <<[at |-> 1, val |-> mmer']>>
    /\ pos' = M
    /\ UNCHANGED <<mask, read, cur, start, out, hist, done>>

(* One base more: Minimizer::next and the deque update.  The k-mer that    *)
(* ends at the new base starts at n - K + 1; its minimizer is the front.    *)
Slide ==
    /\ ~done /\ pos >= M /\ pos < Len(read)
    /\ LET n == pos + 1
           v == NextValue(mmer, mask, read[n])
       IN  /\ mmer' = v
           /\ dq' = Evicted(Pushed(dq, [at |-> n - M + 1, val |-> v]), n - K + 1)
           /\ pos' = n
    /\ UNCHANGED <<mask, read, done>>

(* The window is not yet a whole k-mer.                                    *)
Fill == Slide /\ pos' < K /\ UNCHANGED <<cur, start, out, hist>>

(* The first k-mer: its minimizer opens the first super-mer.               *)
FirstKmer == Slide /\ pos' = K /\ cur' = Head(dq') /\ UNCHANGED <<start, out, hist>>

(* The next k-mer has the same minimizer: the super-mer grows.             *)
SameMinimizer == Slide /\ pos' > K /\ Head(dq') = cur /\ UNCHANGED <<cur, start, out, hist>>

(* The minimizer changed: emit the super-mer of the previous k-mers and     *)
(* start a new one at the new k-mer.                                       *)
NewMinimizer ==
    /\ Slide /\ pos' > K
    /\ Head(dq') # cur
    /\ out' = Emit(out, cur, start, pos)
    /\ hist' = AddLoad(hist, cur, start, pos)
    /\ cur' = Head(dq')
    /\ start' = pos' - K + 1

(* The read ends: emit the last super-mer.                                 *)
Finish ==
    /\ ~done /\ pos >= K /\ pos = Len(read)
    /\ out' = Emit(out, cur, start, pos)
    /\ hist' = AddLoad(hist, cur, start, pos)
    /\ done' = TRUE
    /\ UNCHANGED <<mask, read, pos, mmer, dq, cur, start>>

Next == SkipShort \/ StartRead \/ Fill \/ FirstKmer \/ SameMinimizer \/ NewMinimizer \/ Finish

Spec == Init /\ [][Next]_vars

-----------------------------------------------------------------------------
(* The k-mers a super-mer expands to, and those of the whole read.         *)
Expand(sm) == [i \in 1 .. NKmersOf(sm.bases) |-> KmerOf(sm.bases, i)]
ReadKmers == [i \in 1 .. Len(read) - K + 1 |-> KmerOf(read, i)]

(* Spec 8.2: every k-mer of an emitted super-mer has the super-mer's tag as *)
(* its minimizer, which the deque's pops must keep true as the window      *)
(* slides.                                                                 *)
TagsAreMinimizers ==
    \A i \in 1 .. Len(out) :
        \A j \in 1 .. NKmersOf(out[i].bases) : MinimizerOf(Expand(out[i])[j]) = out[i].min

(* Spec 4.3: once the read is walked, H[m] is the number of its k-mers     *)
(* whose minimizer is m.                                                   *)
LoadCountsKmers ==
    done => \A m \in MmerVals :
                hist[m] = Cardinality({i \in 1 .. Len(read) - K + 1 : MinimizerOf(ReadKmers[i]) = m})

(* Spec 3, 4.3, 4.4: the load map H and minimizer_rank have 4^M entries,  *)
(* indexed by minimizer value (H[minimizer] += L, and TupleToRank2's       *)
(* minimizer_rank[getPrefix()]).  Every m-mer value the rolling update     *)
(* computes, and so every tag handed to insert(), lies below 4^M; only the *)
(* mask setMmerSize computes in int keeps it there.                        *)
MmersIndexLoadMap ==
    /\ mmer \in MmerVals
    /\ \A i \in 1 .. Len(out) : out[i].min \in MmerVals

(* Spec 3: among equal m-mers of a k-mer the leftmost is its minimizer.    *)
LeftmostOnTies ==
    (pos >= K /\ ~done) =>
        \A i \in 1 .. K - M + 1 :
            LET at == pos - K + i
            IN  at < cur.at => InitValue(SubSeq(read, at, at + M - 1)) > cur.val
=============================================================================
