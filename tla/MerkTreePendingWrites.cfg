\* A commit through child_mut below a Modified link, with a sink that does
\* not fail; checks the parent link's pending_writes count.
CONSTANTS
  Keys = {k1, k2, k3}
  Values = {v1, v2}
  None = None
  NoValue = NoValue
  MaxCommits = 2
  SinkMayFail = FALSE
  SourceHonest = FALSE
  DebugAssertions = TRUE
SPECIFICATION MC_Spec
SYMMETRY MC_Symmetry
INVARIANT PendingWritesExact
