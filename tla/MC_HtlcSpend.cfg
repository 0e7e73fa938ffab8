CONSTANTS
  Rev = Rev
  Local = Local
  Remote = Remote
  Secret = Secret
  OtherPreimage = OtherPreimage
  None = None
  CltvExpiry <- MC_CltvExpiry
  ToSelfDelay <- MC_ToSelfDelay
  MaxHeight <- MC_MaxHeight
  MaxWitness <- MC_MaxWitness

SPECIFICATION Spec
INVARIANT SpendAuthorised
INVARIANT KeyPathsSpendable
\* a spender stops once the witness is submitted at the last height
CHECK_DEADLOCK FALSE
