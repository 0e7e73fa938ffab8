CONSTANTS
  tx0 = tx0
  tx1 = tx1
  None = None
  Txids <- MC_Txids
  ZeroTxid <- tx0
  VoutBits <- MC_VoutBits
  BlindingBits <- MC_BlindingBits
  Nums <- MC_Nums
  MaxFields <- MC_MaxFields
  MaxEdits <- MC_MaxEdits

SPECIFICATION Spec
INVARIANT ConcealBinding
