\* Builder fed arbitrary proof node streams (no honest tree).
CONSTANTS
  Keys <- MC_Keys
  Values = {v1, v2}
  Honest = FALSE
  MaxProofLen = 4
  NoKey = NoKey
  NoValue = NoValue
SPECIFICATION Spec
INVARIANTS TypeOK BuilderAcceptsOnlyIncreasing
CHECK_DEADLOCK FALSE
