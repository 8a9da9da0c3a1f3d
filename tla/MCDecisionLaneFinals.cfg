SPECIFICATION DecisionFairSpec
CONSTANTS
  p1 = p1
  NoPost = NoPost
  Posts <- OneDecision
  LiveModes <- LiveOnly
  MaxComments = 2
  MaxIterations = 2
  MaxFinals = 2
  MaxFailures = 1
  Cofounders = 2
INVARIANT OneFinalPerDecision
