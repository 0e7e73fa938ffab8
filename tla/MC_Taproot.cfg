CONSTANTS
  ik1 = ik1
  ik2 = ik2
  bad = bad
  None = None
  KeyBytes <- MC_KeyBytes
  CurvePoints <- MC_CurvePoints
  LeafScripts <- MC_LeafScripts
  LeafBytes <- MC_LeafBytes
  MaxLeaves <- MC_MaxLeaves
  MaxPath <- MC_MaxPath
  ParityFromApi = FALSE

SPECIFICATION Spec
INVARIANT TypeOK
INVARIANT SpendVerifies
 
CHECK_DEADLOCK FALSE
