\* A release build (debug_assert! compiled out) loading from a source that
\* may return a node other than the one the Pruned link names.
CONSTANTS
  Keys = {k1, k2, k3}
  Values = {v1, v2}
  None = None
  NoValue = NoValue
  MaxCommits = 2
  SinkMayFail = FALSE
  SourceHonest = FALSE
  DebugAssertions = FALSE
SPECIFICATION MC_Spec
SYMMETRY MC_Symmetry
INVARIANT MerkleConsistent
