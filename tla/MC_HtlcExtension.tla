--------------------------- MODULE MC_HtlcExtension ---------------------------
(***************************************************************************)
(* Model-checking instance of HtlcExtension: up to two HTLCs in each list  *)
(* over two preimages and two expiries, so that lists with equal and with  *)
(* different HTLCs both occur and indexes 0 and 1 are used on both sides;  *)
(* two calls of apply on the same graph.                                   *)
(***************************************************************************)
EXTENDS HtlcExtension

CONSTANTS p1, p2, m1

MC_Preimages == {p1, p2}
MC_Expiries  == {1, 2}
MC_Messages  == {m1}
MC_MaxHtlcs   == 2
MC_MaxApplies == 2
=============================================================================
