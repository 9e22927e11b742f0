---------------------------- MODULE MC_Extractor ----------------------------
(* Every read of up to six bases over A, C, G, T, with k = 4 and m = 2:    *)
(* three m-mers per k-mer, so equal m-mers, minimizers that leave the      *)
(* window and super-mers of one to three k-mers all occur.  valType has 6  *)
(* bits, two more than an m-mer.                                           *)
EXTENDS Extractor

(* int as the builds have it.                                              *)
MCIntBits == 32

(* int scaled to 4 bits, so that m = 2 shifts a 1 through every bit of it. *)
MCIntBitsScaled == 4
=============================================================================
