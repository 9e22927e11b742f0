---------------------------- MODULE MC_DistCalls ----------------------------
(***************************************************************************)
(* Two insert() calls on two ranks over the super-mers of MC_DistCounter,  *)
(* each rank handing one super-mer to each call.                          *)
(***************************************************************************)
EXTENDS MC_DistCounter, DistCalls
=============================================================================
