------------------------------ MODULE MC_HtlcSpend ------------------------------
(***************************************************************************)
(* Model-checking instance of HtlcSpend.  The expiry and the delay are one *)
(* block, so that heights 0 and 1 lie before and at both; four witness    *)
(* items are what the longest BOLT 3 witness (the 2-of-2 success with a   *)
(* preimage) needs, so every path and every shorter forgery is tried.     *)
(***************************************************************************)
EXTENDS HtlcSpend

MC_CltvExpiry  == 1
MC_ToSelfDelay == 1
MC_MaxHeight   == 1
MC_MaxWitness  == 4
=============================================================================
