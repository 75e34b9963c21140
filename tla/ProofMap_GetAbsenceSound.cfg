\* Honest proofs; checks GetAbsenceSound, which the code violates.
CONSTANTS
  Keys <- MC_Keys
  Values = {v1, v2}
  Honest = TRUE
  MaxProofLen = 0
  NoKey = NoKey
  NoValue = NoValue
SPECIFICATION Spec
INVARIANT GetAbsenceSound
CHECK_DEADLOCK FALSE
