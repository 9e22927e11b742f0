---------------------------- MODULE MC_Minimizer ----------------------------
(* The rolling m-mer with m = 2 over all four base codes, in a 5-bit word. *)
EXTENDS Minimizer

(* int as the builds have it.                                              *)
MCIntBits == 32

(* int scaled to 4 bits (valType to 8), so that m = 2 shifts a 1 through   *)
(* every bit of int, as m = 16 does with a 32-bit int.                     *)
MCIntBitsScaled == 4
=============================================================================
