----------------------------- MODULE MinimizerOps ----------------------------
(***************************************************************************)
(* The value computations of Minimizer<valType> (src/minimizer.cpp): the   *)
(* packing of init, the rolling update of next, and the minimizer of a     *)
(* k-mer as the least rolling value under operator<.                       *)
(***************************************************************************)
EXTENDS Integers, Sequences

CONSTANTS
    M,          \* the m-mer size passed to setMmerSize
    Width       \* bits of valType

Word == 0 .. 2^Width - 1

(* The packed value of a base sequence, most significant pair first.       *)
Pack(s) ==
    LET f[i \in 0 .. Len(s)] == IF i = 0 THEN 0 ELSE f[i - 1] * 4 + s[i]
    IN  f[Len(s)]

(* val <<= 2 in valType.                                                   *)
Shl2(v) == (v * 4) % 2^Width

(* init: zero val, then shift in mmer_size bases without masking.          *)
InitValue(s) ==
    LET f[i \in 0 .. Len(s)] == IF i = 0 THEN 0 ELSE Shl2(f[i - 1]) + s[i]
    IN  f[Len(s)]

(* The same loop started from v0 in place of zero.                        *)
InitValueFrom(v0, s) ==
    LET f[i \in 0 .. Len(s)] == IF i = 0 THEN v0 ELSE Shl2(f[i - 1]) + s[i]
    IN  f[Len(s)]

(* Faulty variant: next does not and with the mask.                       *)
NextValueNoMask(v, msk, b) == Shl2(v) + b

(* next: shift, and with the mask, or in the base; v & (2^n - 1) is        *)
(* v % 2^n, and the shifted value has its two low bits clear.              *)
NextValue(v, msk, b) == (Shl2(v) % (msk + 1)) + b

(* mask = (1 << (2 * mmer_size)) - 1 in an int of the given bits.  A     *)
(* shift into or past the sign bit is undefined; the builds produce the    *)
(* x86 result, whose shift count is taken modulo the width, or the result  *)
(* of a count taken whole, 0 - 1 = all ones.  Signed overflow wraps.       *)
IntMasks(bits) ==
    IF 2 * M < bits - 1 THEN {2^(2 * M) - 1}
    ELSE IF 2 * M = bits - 1 THEN {2^(bits - 1) - 1}
    ELSE {2^((2 * M) % bits) - 1, -1}

(* A negative int converts to valType modulo 2^Width.                     *)
ToValType(x) == x % 2^Width

(* The minimizer of a k-mer: the least of its rolling m-mer values.        *)
MinimizerOf(kmer) ==
    LET n == Len(kmer) - M + 1
        v[i \in 1 .. n] == IF i = 1 THEN InitValue(SubSeq(kmer, 1, M))
                           ELSE NextValue(v[i - 1], 2^(2 * M) - 1, kmer[M + i - 1])
    IN  CHOOSE x \in {v[i] : i \in 1 .. n} : \A i \in 1 .. n : x <= v[i]

=============================================================================
