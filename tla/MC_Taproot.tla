------------------------------ MODULE MC_Taproot ------------------------------
(***************************************************************************)
(* Model-checking instance of Taproot.  Four leaves make every tree shape *)
(* up to depth three, balanced and not, and a leaf joined twice; a path    *)
(* bound of 1 stands for 128, so trees have leaves on both sides of it.   *)
(* Leaf versions: tapscript, an even future version, the annex prefix and *)
(* an odd byte; one key byte string is not a curve point.                  *)
(***************************************************************************)
EXTENDS Taproot, TLC

CONSTANTS ik1, ik2, bad

MC_KeyBytes    == {ik1, bad}
MC_CurvePoints == {ik1}
MC_LeafScripts == {1, 2}
MC_LeafBytes   == {192, 194, 80, 193}
MC_MaxLeaves   == 4
MC_MaxPath     == 1
=============================================================================
