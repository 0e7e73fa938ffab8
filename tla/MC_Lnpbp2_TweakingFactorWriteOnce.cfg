CONSTANTS
  k1 = k1
  k2 = k2
  k3 = k3
  d1 = d1
  t1 = t1
  m1 = m1
  m2 = m2
  NotMiniscript = NotMiniscript
  None = None
  Keys <- MC_Keys
  DummyHashes <- MC_DummyHashes
  Tags <- MC_Tags
  Msgs <- MC_Msgs
  MaxFrags <- MC_MaxFrags
  MaxContainers <- MC_MaxContainers

SYMMETRY MC_Symmetry
SPECIFICATION Spec
PROPERTY TweakingFactorWriteOnce
