\* A sink.write failure during commit; checks that no node is lost.
CONSTANTS
  Keys = {k1, k2, k3}
  Values = {v1, v2}
  None = None
  NoValue = NoValue
  MaxCommits = 2
  SinkMayFail = TRUE
  SourceHonest = FALSE
  DebugAssertions = TRUE
SPECIFICATION MC_Spec
SYMMETRY MC_Symmetry
PROPERTY CommitFailureKeepsNodes
