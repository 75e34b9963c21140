\* Honest proofs of every tree over four keys, then get and range queries.
CONSTANTS
  Keys <- MC_Keys
  Values = {v1, v2}
  Honest = TRUE
  MaxProofLen = 0
  NoKey = NoKey
  NoValue = NoValue
SPECIFICATION Spec
INVARIANTS RangePrefixSound NonEmptyRangeSound
CHECK_DEADLOCK FALSE
PROPERTY RangeEndsOrErrs
