\* Honest proofs; checks that the end key of a range is excluded (range_ok).
CONSTANTS
  Keys <- MC_Keys
  Values = {v1, v2}
  Honest = TRUE
  MaxProofLen = 0
  NoKey = NoKey
  NoValue = NoValue
SPECIFICATION Spec
INVARIANT RangeEndExcluded
CHECK_DEADLOCK FALSE
