----------------------------- MODULE MC_BlindSeal -----------------------------
(***************************************************************************)
(* Model-checking instance of BlindSeal.  u32 and u64 are scaled down to   *)
(* one bit each, keeping the overflow boundary: the numbers written in a   *)
(* text are 0, 1 (in range) and 2 (one past the maximum).  Two txids, one  *)
(* of them the all-zero txid that stands in for "no txid" in the commit.   *)
(***************************************************************************)
EXTENDS BlindSeal, TLC

CONSTANTS tx0, tx1

MC_Txids        == {tx0, tx1}
MC_VoutBits     == 1
MC_BlindingBits == 1
MC_Nums         == {0, 1, 2}
\* one field more than a seal text has, so a trailing part is reachable
MC_MaxFields    == 5
\* two edits reach every pair of malformations, so that several fields can
\* be wrong at once and the order of the checks decides the error
MC_MaxEdits     == 2
=============================================================================
