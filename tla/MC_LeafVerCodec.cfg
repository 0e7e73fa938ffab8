CONSTANTS
  None = None

SPECIFICATION Spec
INVARIANT TypeOK
INVARIANT LeafVerConsensus
