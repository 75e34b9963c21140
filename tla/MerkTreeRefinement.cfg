\* The tree engine against the Link state machine, with a sink that does
\* not fail and a misbehaving source in a debug build.
CONSTANTS
  Keys = {k1, k2, k3}
  Values = {v1, v2}
  None = None
  NoValue = NoValue
  MaxCommits = 2
  SinkMayFail = FALSE
  SourceHonest = FALSE
  DebugAssertions = TRUE
SPECIFICATION RefSpec
SYMMETRY MC_Symmetry
INVARIANTS NoDirtyBelowClean HeightsConsistent
PROPERTIES LifecycleRefined CommitCleansTree
