------------------------------- MODULE LeafVer -------------------------------
(***************************************************************************)
(* Tapscript leaf versions (src/primitives/src/taproot.rs: LeafVer,        *)
(* FutureLeafVer and their consensus byte conversions).  Operators only:   *)
(* LeafVerCodec checks them over every byte and Taproot uses them for      *)
(* leaves and control blocks.                                              *)
(***************************************************************************)
EXTENDS Naturals, Bitwise

Ok(v)  == [ok |-> TRUE, val |-> v]
Err(e) == [ok |-> FALSE, err |-> e]

TAPROOT_ANNEX_PREFIX   == 80   \* 0x50
TAPROOT_LEAF_TAPSCRIPT == 192  \* 0xc0
TAPROOT_LEAF_MASK      == 254  \* 0xfe

TapScriptVer  == [tag |-> "TapScript"]
FutureVer(v)  == [tag |-> "Future", v |-> v]

\* unreachable!() is a panic
Panic == Err("panic")

\* a mutation: the low-bit test is lost (mask 0xFF instead of 0xFE)
FutureFromConsensusNoOddCheck(version) ==
  CASE version = TAPROOT_LEAF_TAPSCRIPT -> Panic
    [] version = TAPROOT_ANNEX_PREFIX   -> Err(<<"InvalidLeafVer", version>>)
    [] (version & 255) # version        -> Err(<<"InvalidLeafVer", version>>)
    [] OTHER                            -> Ok(FutureVer(version))

\* FutureLeafVer::from_consensus
FutureFromConsensus(version) ==
  CASE version = TAPROOT_LEAF_TAPSCRIPT -> Panic
    [] version = TAPROOT_ANNEX_PREFIX   -> Err(<<"InvalidLeafVer", version>>)
    [] (version & 254) # version        -> Err(<<"InvalidLeafVer", version>>)
    [] OTHER                            -> Ok(FutureVer(version))

\* LeafVer::from_consensus_u8
FromConsensusU8(version) ==
  CASE version = TAPROOT_LEAF_TAPSCRIPT -> Ok(TapScriptVer)
    [] version = TAPROOT_ANNEX_PREFIX   -> Err(<<"InvalidLeafVer", version>>)
    [] OTHER                            -> FutureFromConsensus(version)

\* LeafVer::to_consensus_u8
ToConsensusU8(lv) == IF lv = TapScriptVer THEN TAPROOT_LEAF_TAPSCRIPT ELSE lv.v

=============================================================================
